------------------------ MODULE RecoveryLedgerProofs -------------------------
(* An authorization epoch is claimed by one request at most, and prepared and *)
(* armed for one request; every stored row is well formed, has the alarm it   *)
(* needs, and ends only as its job did: for every value of the constants.     *)
(*                                                                            *)
(* Two arguments, of which the second uses the first.                         *)
(*                                                                            *)
(* LedgerInv: armed remembers which request each epoch was enabled for.  The  *)
(* control enables an epoch only above maxConsumed, so armed is set once per  *)
(* epoch.  A row is installed only by a call whose enabled configuration the  *)
(* control has accepted, so a row's epoch is armed for the row's request; no  *)
(* later event changes a row's epoch, even when it is applied to a row that   *)
(* was read long ago (HandlerOK keeps that of every row a call holds).        *)
(*                                                                            *)
(* SoundInv: what a call has read is never ahead of what is stored (Later),   *)
(* so the alarm it repairs with it is never too late, and what it brings as   *)
(* evidence about the job was true when it was found and stays true.          *)
EXTENDS RecoveryLedger, TLAPS

-----------------------------------------------------------------------------
(* Rows: what the events do to the shape and the epoch of a row. *)

(* A record with the fields of a row, whatever their values. *)
IsRow(rw) ==
    rw = [state |-> rw.state, revision |-> rw.revision, epoch |-> rw.epoch, at |-> rw.at,
          reservedAt |-> rw.reservedAt, claimedAt |-> rw.claimedAt,
          attempts |-> rw.attempts, next |-> rw.next]
Follows(rw, n) == IsRow(n) /\ n.epoch = rw.epoch

LEMMA FieldRow ==
    ASSUME NEW rw, IsRow(rw), NEW v
    PROVE  /\ Follows(rw, [rw EXCEPT !.state = v])
           /\ Follows(rw, [rw EXCEPT !.revision = v])
           /\ Follows(rw, [rw EXCEPT !.at = v])
           /\ Follows(rw, [rw EXCEPT !.reservedAt = v])
           /\ Follows(rw, [rw EXCEPT !.claimedAt = v])
           /\ Follows(rw, [rw EXCEPT !.attempts = v])
           /\ Follows(rw, [rw EXCEPT !.next = v])
<1>1. Follows(rw, [rw EXCEPT !.state = v]) BY DEF IsRow, Follows
<1>2. Follows(rw, [rw EXCEPT !.revision = v]) BY DEF IsRow, Follows
<1>3. Follows(rw, [rw EXCEPT !.at = v]) BY DEF IsRow, Follows
<1>4. Follows(rw, [rw EXCEPT !.reservedAt = v]) BY DEF IsRow, Follows
<1>5. Follows(rw, [rw EXCEPT !.claimedAt = v]) BY DEF IsRow, Follows
<1>6. Follows(rw, [rw EXCEPT !.attempts = v]) BY DEF IsRow, Follows
<1>7. Follows(rw, [rw EXCEPT !.next = v]) BY DEF IsRow, Follows
<1> QED BY <1>1, <1>2, <1>3, <1>4, <1>5, <1>6, <1>7

LEMMA MovedRow ==
    ASSUME NEW rw, IsRow(rw), NEW s, NEW t
    PROVE  Follows(rw, Moved(rw, s, t))
<1> DEFINE n1 == [rw EXCEPT !.state = s]
           n2 == [n1 EXCEPT !.revision = rw.revision + 1]
           n3 == [n2 EXCEPT !.at = t]
<1>1. Moved(rw, s, t) = n3 BY DEF Moved
<1>2. Follows(rw, n1) BY FieldRow
<1>3. Follows(n1, n2) BY <1>2, FieldRow DEF Follows
<1>4. Follows(n2, n3) BY <1>3, FieldRow DEF Follows
<1> QED BY <1>1, <1>2, <1>3, <1>4 DEF Follows

LEMMA FinalizedFollows ==
    ASSUME NEW rw, IsRow(rw), NEW t, NEW cfg, NEW n \in Finalized(rw, cfg, t)
    PROVE  Follows(rw, n) /\ rw.state = "issuing"
<1>1. n = Moved(rw, "issued", t) /\ rw.state = "issuing" BY DEF Finalized
<1> QED BY <1>1, MovedRow

LEMMA ReservedFollows ==
    ASSUME NEW rw, IsRow(rw), NEW t, NEW cfg, NEW fresh, NEW n \in Reserved(rw, cfg, t, fresh)
    PROVE  Follows(rw, n) /\ rw.state \in {"armed", "issuing"}
<1> DEFINE m == Moved(rw, "issuing", t)
<1>1. CASE rw.state = "armed" /\ fresh /\ Authorized(rw, cfg)
  <2>1. n = [m EXCEPT !.reservedAt = t] BY <1>1 DEF Reserved
  <2>2. Follows(rw, m) BY MovedRow
  <2> QED BY <1>1, <2>1, <2>2, FieldRow DEF Follows
<1>2. CASE ~(rw.state = "armed" /\ fresh /\ Authorized(rw, cfg))
  <2>1. n = rw /\ rw.state = "issuing" BY <1>2 DEF Reserved
  <2> QED BY <2>1 DEF Follows
<1> QED BY <1>1, <1>2

LEMMA ReadFollows ==
    ASSUME NEW rw, IsRow(rw), NEW t, NEW cfg, NEW n \in ReadIssued(rw, cfg, t)
    PROVE  Follows(rw, n) /\ rw.state = "issued"
<1>1. rw.state = "issued" /\ n \in {rw, Moved(rw, "expired", t)} BY DEF ReadIssued
<1> QED BY <1>1, MovedRow DEF Follows

LEMMA ClaimFollows ==
    ASSUME NEW rw, IsRow(rw), NEW t, NEW cfg, NEW n \in ClaimOf(rw, cfg, t)
    PROVE  Follows(rw, n) /\ rw.state = "issued"
<1> DEFINE m == Moved(rw, "claimed", t)
<1>1. rw.state = "issued" /\ n \in {[m EXCEPT !.claimedAt = t], Moved(rw, "expired", t)}
      BY DEF ClaimOf
<1>2. Follows(rw, m) /\ Follows(rw, Moved(rw, "expired", t)) BY MovedRow
<1>3. Follows(m, [m EXCEPT !.claimedAt = t]) BY <1>2, FieldRow DEF Follows
<1> QED BY <1>1, <1>2, <1>3 DEF Follows

LEMMA CompletedFollows ==
    ASSUME NEW rw, IsRow(rw), NEW t, NEW n \in Completed(rw, t)
    PROVE  Follows(rw, n) /\ rw.state \in Claimed
<1>1. rw.state \in Claimed /\ n \in {rw, Moved(rw, "completed", t)} BY DEF Completed, Claimed
<1> QED BY <1>1, MovedRow DEF Follows

LEMMA OverdueFollows ==
    ASSUME NEW rw, IsRow(rw), NEW t, NEW n \in Overdue(rw, t) 
    PROVE  Follows(rw, n) /\ rw.state = "claimed"
<1> DEFINE m == Moved(rw, "required", t)
<1>1. rw.state = "claimed" /\ n = [m EXCEPT !.next = t] BY DEF Overdue
<1>2. Follows(rw, m) BY MovedRow
<1>3. Follows(m, [m EXCEPT !.next = t]) BY <1>2, FieldRow DEF Follows
<1> QED BY <1>1, <1>2, <1>3 DEF Follows

LEMMA ExpiredFollows ==
    ASSUME NEW rw, IsRow(rw), NEW t, NEW n \in Expired(rw, t) 
    PROVE  Follows(rw, n) /\ rw.state \in {"issuing", "issued"}
<1>1. rw.state \in {"issuing", "issued"} /\ n = Moved(rw, "expired", t) BY DEF Expired
<1> QED BY <1>1, MovedRow

LEMMA SettledFollows ==
    ASSUME NEW rw, IsRow(rw), NEW t, NEW proof
    PROVE  Follows(rw, Settled(rw, t, proof))
<1>1. Follows(rw, Postponed(rw, t))
  <2> DEFINE m == Moved(rw, "required", t)
             v == IF rw.attempts < Len(RetryDelays) THEN t + RetryDelays[rw.attempts + 1] ELSE Never
             n == [m EXCEPT !.attempts = rw.attempts + 1]
  <2>1. Follows(rw, m) BY MovedRow
  <2>2. Follows(m, n) BY <2>1, FieldRow DEF Follows
  <2> HIDE DEF v
  <2>3. Follows(n, [n EXCEPT !.next = v]) BY <2>2, FieldRow DEF Follows
  <2>4. m.attempts = rw.attempts BY DEF IsRow, Moved
  <2> USE DEF v
  <2>5. Postponed(rw, t) = [n EXCEPT !.next = v] BY <2>4 DEF Postponed
  <2> QED BY <2>1, <2>2, <2>3, <2>5 DEF Follows
<1>2. Follows(rw, [Moved(rw, proof, t) EXCEPT !.next = Never])
  <2> DEFINE m == Moved(rw, proof, t)
  <2>1. Follows(rw, m) BY MovedRow
  <2>2. Follows(m, [m EXCEPT !.next = Never]) BY <2>1, FieldRow DEF Follows
  <2> QED BY <2>1, <2>2 DEF Follows
<1> QED BY <1>1, <1>2 DEF Settled

LEMMA ReconciledFollows ==
    ASSUME NEW rw, IsRow(rw), NEW t, NEW proof, NEW proven, NEW n \in Reconciled(rw, t, proof, proven)
    PROVE  Follows(rw, n) /\ rw.state \in Claimed
<1>1. rw.state \in Claimed /\ n \in {rw, Settled(rw, t, proof)} BY DEF Reconciled, Claimed
<1> QED BY <1>1, SettledFollows DEF Follows

LEMMA InstalledFollows ==
    ASSUME NEW rw, IsRow(rw), NEW cfg, NEW n \in Installed(rw, cfg)
    PROVE  IsRow(n) /\ n.epoch = IF rw.state = "none" THEN cfg.epoch ELSE rw.epoch
<1>1. CASE rw.state = "none"
  <2> DEFINE n1 == [rw EXCEPT !.state = "armed"]
             n2 == [n1 EXCEPT !.revision = 0]
  <2>1. n = [n2 EXCEPT !.epoch = cfg.epoch] BY <1>1 DEF Installed
  <2>2. IsRow(n1) BY FieldRow DEF Follows
  <2>3. IsRow(n2) BY <2>2, FieldRow DEF Follows
  <2>4. IsRow([n2 EXCEPT !.epoch = cfg.epoch]) /\ [n2 EXCEPT !.epoch = cfg.epoch].epoch = cfg.epoch
    <3> HIDE DEF n2
    <3> QED BY <2>3 DEF IsRow
  <2> QED BY <1>1, <2>1, <2>4
<1>2. CASE rw.state # "none"
      BY <1>2 DEF Installed
<1> QED BY <1>1, <1>2

-----------------------------------------------------------------------------
(* The inductive invariant. *)

ConfigOK(cfg) == cfg.epoch \in Epoch /\ cfg.enabled \in BOOLEAN /\ (cfg.enabled => cfg.request \in Request)

LEMMA ConfigsOK == \A cfg \in Config : ConfigOK(cfg) /\ cfg.request \in Request \cup {None}
BY DEF Config, ConfigOK

IsControl(ctl) ==
    ctl = [enabled |-> ctl.enabled, epoch |-> ctl.epoch, maxConsumed |-> ctl.maxConsumed,
           active |-> ctl.active, used |-> ctl.used]

(* The control and armed, the request that each epoch was enabled for. *)
ControlOK(ctl, a) ==
    /\ IsControl(ctl)
    /\ ctl.enabled \in BOOLEAN /\ ctl.epoch \in Nat /\ ctl.maxConsumed \in Nat
    /\ ctl.enabled => ctl.epoch \in Epoch /\ ctl.active \in Request /\ a[ctl.epoch] = ctl.active
    /\ a \in [Epoch -> Request \cup {None}]
    /\ \A e \in Epoch : a[e] \in Request => e <= ctl.maxConsumed

IntentsOK(i) ==
    /\ i = [e \in Epoch |-> i[e]]
    /\ \A e \in Epoch :
         /\ i[e] = [request |-> i[e].request, configured |-> i[e].configured, receipt |-> i[e].receipt]
         /\ i[e].request \in Request \cup {None}
         /\ i[e].receipt \in Call \cup {None}
         /\ i[e].request = None => i[e].receipt = None

(* A row belongs to the request its epoch is armed for. *)
RowOK(rw, r, a) ==
    /\ IsRow(rw)
    /\ rw.state \notin {"none", "unread"} => rw.epoch \in Epoch /\ a[rw.epoch] = r

IsHandler(x) ==
    x = [at |-> x.at, config |-> x.config, request |-> x.request, seen |-> x.seen,
         time |-> x.time, fresh |-> x.fresh, proof |-> x.proof, basis |-> x.basis]

(* What a call or an alarm handler holds of the control and of the row. *)
HandlerOK(x, a, i) ==
    /\ IsHandler(x)
    /\ ConfigOK(x.config)
    /\ x = Idle \/ (x.at # "idle" /\ x.request \in Request)
    /\ RowOK(x.seen, x.request, a)
    /\ x.at \in {"status", "install"} => a[x.config.epoch] = x.request
    /\ x.at = "hand-out" => x.proof \in Call /\ x.proof = i[x.config.epoch].receipt

Agree(a, i) == \A e \in Epoch : {a[e], i[e].request} \subseteq Request => a[e] = i[e].request

LedgerInv ==
    /\ ControlOK(control, armed)
    /\ IntentsOK(intents)
    /\ Agree(armed, intents)
    /\ row = [r \in Request |-> row[r]]
    /\ \A r \in Request : RowOK(row[r], r, armed)
    /\ handler = [h \in Call \cup Request |-> handler[h]]
    /\ \A h \in Call \cup Request : HandlerOK(handler[h], armed, intents)

-----------------------------------------------------------------------------
LEMMA UnreadOK == ASSUME NEW r, NEW a PROVE RowOK(Unread, r, a) /\ RowOK(NoRow, r, a)
<1>1. IsRow(NoRow) /\ NoRow.state = "none"
      BY DEF NoRow, IsRow
<1>2. IsRow(Unread)
      BY <1>1, FieldRow DEF Unread, Follows
<1>3. Unread.state = "unread"
      BY DEF Unread, NoRow
<1> QED BY <1>1, <1>2, <1>3 DEF RowOK

LEMMA IdleOK == ASSUME NEW a, NEW i PROVE HandlerOK(Idle, a, i)
<1>1. RowOK(Idle.seen, Idle.request, a)
      BY UnreadOK DEF Idle
<1>2. ConfigOK(Idle.config)
  <2>1. Idle.config = [enabled |-> FALSE, epoch |-> 1, request |-> None]
        BY DEF Idle
  <2>2. 1 \in Epoch
        BY LedgerAssumption DEF Epoch
  <2> QED BY <2>1, <2>2 DEF ConfigOK
<1>3. Idle.at = "idle"
      BY DEF Idle
<1>4. IsHandler(Idle)
      BY DEF Idle, IsHandler
<1> QED BY <1>1, <1>2, <1>3, <1>4 DEF HandlerOK

LEMMA InitInv == Init => LedgerInv
<1> SUFFICES ASSUME Init PROVE LedgerInv
    OBVIOUS
<1>1. ControlOK(control, armed)
      BY LedgerAssumption DEF Init, ControlOK, NoControl, IsControl
<1>2. IntentsOK(intents)
      BY DEF Init, IntentsOK, NoIntent
<1>3. Agree(armed, intents)
      BY LedgerAssumption DEF Init, Agree
<1>4. row = [r \in Request |-> row[r]] /\ \A r \in Request : RowOK(row[r], r, armed)
      BY DEF Init, RowOK, NoRow, IsRow
<1>5. HandlerOK(Idle, armed, intents)
      BY IdleOK
<1>6. handler = [h \in Call \cup Request |-> handler[h]]
      BY DEF Init
<1>7. \A h \in Call \cup Request : HandlerOK(handler[h], armed, intents)
      BY <1>5 DEF Init
<1> QED BY <1>1, <1>2, <1>3, <1>4, <1>6, <1>7 DEF LedgerInv

(* armed entries stay, and so do the receipts of prepared epochs *)
Grows(a, b) == \A e \in Epoch : a[e] \in Request => b[e] = a[e]
Kept(i, j) == \A e \in Epoch : i[e].receipt \in Call => j[e].receipt = i[e].receipt

LEMMA RowStays ==
    ASSUME NEW a, NEW b, Grows(a, b), NEW rw, NEW r \in Request, RowOK(rw, r, a)
    PROVE  RowOK(rw, r, b)
BY DEF RowOK, Grows

LEMMA HandlerStays ==
    ASSUME NEW a, NEW b, NEW i, NEW j, Grows(a, b), Kept(i, j), NEW x, HandlerOK(x, a, i)
    PROVE  HandlerOK(x, b, j)
<1>1. CASE x.request \in Request
  <2>1. RowOK(x.seen, x.request, b)
        BY <1>1, RowStays DEF HandlerOK
  <2> QED BY <1>1, <2>1 DEF HandlerOK, Grows, Kept, ConfigOK
<1>2. CASE x = Idle
      BY <1>2, IdleOK
<1> QED BY <1>1, <1>2 DEF HandlerOK

LEMMA ControlFields ==
    ASSUME NEW c, IsControl(c), NEW u, NEW v, NEW w
    PROVE  IsControl([c EXCEPT !.enabled = u, !.epoch = v, !.active = w])
<1> DEFINE c1 == [c EXCEPT !.enabled = u]
           c2 == [c1 EXCEPT !.epoch = v]
           c3 == [c2 EXCEPT !.active = w]
<1>1. IsControl(c1)
      BY DEF IsControl
<1> HIDE DEF c1
<1>2. IsControl(c2)
      BY <1>1 DEF IsControl
<1> HIDE DEF c2
<1>3. IsControl(c3)
      BY <1>2 DEF IsControl
<1> USE DEF c1, c2
<1> QED BY <1>3

LEMMA ReconcileKeeps ==
    ASSUME ControlOK(control, armed), IntentsOK(intents), Agree(armed, intents),
           NEW cfg, ConfigOK(cfg), ReconcileControl(cfg)
    PROVE  /\ ControlOK(control', armed') /\ Agree(armed', intents') /\ Grows(armed, armed')
           /\ intents' = intents
           /\ cfg.enabled => armed'[cfg.epoch] = cfg.request
<1> DEFINE ctl == ControlFor(cfg.epoch)
<1>1. ControlOK(ctl, armed) /\ ctl.maxConsumed = control.maxConsumed
      BY DEF ControlFor, ControlOK, IsControl, Epoch, ConfigOK
<1>2. PICK n \in ControlUnder(cfg) :
         control' = n /\ armed' = IF n.enabled THEN [armed EXCEPT ![n.epoch] = n.active] ELSE armed
      BY DEF ReconcileControl
<1>3. intents' = intents
      BY DEF ReconcileControl
<1> HIDE DEF ctl
<1>4. CASE ~cfg.enabled
  <2>0. Disabled(ctl, cfg.epoch).enabled = FALSE
        BY <1>1 DEF Disabled, ControlOK, IsControl
  <2>1. n \in {Disabled(ctl, cfg.epoch), ctl} /\ n.enabled = FALSE
    <3>1. n = Disabled(ctl, cfg.epoch) \/ (n = ctl /\ ~ctl.enabled)
          BY <1>2, <1>4 DEF ControlUnder, ctl
    <3> QED BY <1>1, <2>0, <3>1 DEF ControlOK
  <2>2. ControlOK(n, armed)
    <3> DEFINE d == Disabled(ctl, cfg.epoch)
    <3>a. IsControl(d)
          BY <1>1, ControlFields DEF Disabled, ControlOK
    <3>b. d.enabled = FALSE
          BY <2>0
    <3>c. d.epoch = cfg.epoch
          BY <1>1 DEF Disabled, ControlOK, IsControl
    <3>d. d.maxConsumed = ctl.maxConsumed
          BY <1>1 DEF Disabled, ControlOK, IsControl
    <3> HIDE DEF d
    <3>2. cfg.epoch \in Nat
          BY DEF ConfigOK, Epoch
    <3>3. ControlOK(d, armed)
          BY <1>1, <3>a, <3>b, <3>c, <3>d, <3>2 DEF ControlOK
    <3> QED BY <1>1, <2>1, <3>3 DEF d
  <2> QED BY <1>2, <1>3, <1>4, <2>1, <2>2 DEF Grows
<1>5. CASE cfg.enabled /\ ctl.enabled
  <2>1. n = ctl /\ ctl.epoch = cfg.epoch /\ ctl.active = cfg.request
        BY <1>2, <1>5 DEF ControlUnder, ctl
  <2>2. armed' = armed
        BY <1>1, <1>2, <1>5, <2>1 DEF ControlOK
  <2> QED BY <1>1, <1>2, <1>3, <1>5, <2>1, <2>2 DEF ControlOK, Grows
<1>6. CASE cfg.enabled /\ ~ctl.enabled
  <2>1. n = Enabled(ctl, cfg) /\ ctl.epoch = cfg.epoch /\ cfg.epoch > ctl.maxConsumed /\ ArmsAsPrepared(cfg)
        BY <1>2, <1>6 DEF ControlUnder, ctl
  <2>2. n.enabled /\ n.epoch = cfg.epoch /\ n.active = cfg.request /\ n.maxConsumed = cfg.epoch
        BY <1>1, <2>1 DEF Enabled, ControlOK, IsControl
  <2>3. armed' = [armed EXCEPT ![cfg.epoch] = cfg.request]
        BY <1>2, <2>2
  <2>4. armed'[cfg.epoch] = cfg.request /\ armed[cfg.epoch] \notin Request
        BY <1>1, <2>1, <2>3 DEF ControlOK, ConfigOK, Epoch
  <2>5. Grows(armed, armed')
        BY <1>1, <2>3, <2>4 DEF Grows, ControlOK
  <2>6. Agree(armed', intents)
        BY <1>1, <2>1, <2>3, <2>4 DEF Agree, ArmsAsPrepared, ControlOK, ConfigOK
  <2>7. ControlOK(n, armed')
    <3>1. IsControl(n)
          BY <1>1, <2>1 DEF Enabled, ControlOK, IsControl
    <3>2. armed' \in [Epoch -> Request \cup {None}]
          BY <1>1, <1>6, <2>3 DEF ControlOK, ConfigOK
    <3>3. \A e \in Epoch : armed'[e] \in Request => e <= n.maxConsumed
          BY <1>1, <2>1, <2>2, <2>3 DEF ControlOK, Epoch, ConfigOK
    <3> QED BY <1>6, <2>2, <2>4, <3>1, <3>2, <3>3 DEF ControlOK, ConfigOK, Epoch
  <2> QED BY <1>2, <1>3, <2>4, <2>5, <2>6, <2>7
<1> QED BY <1>4, <1>5, <1>6

-----------------------------------------------------------------------------
(* Steps of one handler. *)

Becomes(h, n) ==
    handler' = [x \in Call \cup Request |-> IF x = h THEN n ELSE handler[x]]

LEMMA HandlersKeep ==
    ASSUME LedgerInv, Grows(armed, armed'), Kept(intents, intents'),
           NEW h \in Call \cup Request, NEW n, Becomes(h, n), HandlerOK(n, armed', intents')
    PROVE  /\ handler' = [x \in Call \cup Request |-> handler'[x]]
           /\ \A x \in Call \cup Request : HandlerOK(handler'[x], armed', intents')
<1>1. ASSUME NEW x \in Call \cup Request
      PROVE  HandlerOK(handler'[x], armed', intents')
  <2>1. CASE x = h
        BY <2>1 DEF Becomes
  <2>2. CASE x # h
    <3>1. handler'[x] = handler[x] /\ HandlerOK(handler[x], armed, intents)
          BY <2>2 DEF Becomes, LedgerInv
    <3> QED BY <3>1, HandlerStays
  <2> QED BY <2>1, <2>2
<1> QED BY <1>1 DEF Becomes

LEMMA RowsKeep ==
    ASSUME LedgerInv, Grows(armed, armed'), UNCHANGED row
    PROVE  /\ row' = [r \in Request |-> row'[r]]
           /\ \A r \in Request : RowOK(row'[r], r, armed')
BY RowStays DEF LedgerInv

LEMMA Same ==
    ASSUME LedgerInv, UNCHANGED controlVars
    PROVE  /\ ControlOK(control', armed') /\ IntentsOK(intents') /\ Agree(armed', intents')
           /\ Grows(armed, armed') /\ Kept(intents, intents')
           /\ armed' = armed /\ intents' = intents
BY DEF LedgerInv, controlVars, Grows, Kept

Seen(h) == CallOf(h).seen

RowStep(h) ==
    \/ UNCHANGED row
    \/ \E n : Follows(Seen(h), n) /\ Seen(h).state \notin {"none", "unread"} /\ Store(h, n)

HandStep(h) == \E x : Becomes(h, x) /\ HandlerOK(x, armed, intents)

Busy(h) == handler[h].at # "idle"

LEMMA BusyRequest ==
    ASSUME LedgerInv, NEW h \in Call \cup Request, Busy(h)
    PROVE  RequestOf(h) \in Request /\ HandlerOK(handler[h], armed, intents) /\ IsRow(Seen(h))
<1>1. HandlerOK(handler[h], armed, intents)
      BY DEF LedgerInv
<1>2. Idle.at = "idle"
      BY DEF Idle
<1> QED BY <1>1, <1>2 DEF HandlerOK, RequestOf, Busy, RowOK, Seen, CallOf

LEMMA MethodStep ==
    ASSUME LedgerInv, NEW h \in Call \cup Request, Busy(h) \/ UNCHANGED row,
           UNCHANGED controlVars, RowStep(h), HandStep(h)
    PROVE  LedgerInv'
<1>1. /\ ControlOK(control', armed') /\ IntentsOK(intents') /\ Agree(armed', intents')
      /\ Grows(armed, armed') /\ Kept(intents, intents')
      /\ armed' = armed /\ intents' = intents
      BY Same
<1>2. /\ handler' = [x \in Call \cup Request |-> handler'[x]]
      /\ \A x \in Call \cup Request : HandlerOK(handler'[x], armed', intents')
  <2>1. PICK x : Becomes(h, x) /\ HandlerOK(x, armed, intents)
        BY DEF HandStep
  <2> QED BY <1>1, <2>1, HandlersKeep
<1>3. row' = [r \in Request |-> row'[r]] /\ \A r \in Request : RowOK(row'[r], r, armed')
  <2>1. CASE UNCHANGED row
        BY <1>1, <2>1, RowsKeep
  <2>2. CASE ~UNCHANGED row
    <3>1. PICK n : Follows(Seen(h), n) /\ Seen(h).state \notin {"none", "unread"} /\ Store(h, n)
          BY <2>2 DEF RowStep
    <3>2. row' = [row EXCEPT ![RequestOf(h)] = n]
          BY <2>2, <3>1 DEF Store
    <3>3. RowOK(Seen(h), RequestOf(h), armed) /\ RequestOf(h) \in Request
          BY <2>2, BusyRequest DEF HandlerOK, Seen, CallOf, RequestOf
    <3>4. RowOK(n, RequestOf(h), armed)
          BY <3>1, <3>3 DEF RowOK, Follows
    <3> QED BY <1>1, <3>2, <3>3, <3>4 DEF LedgerInv
  <2> QED BY <2>1, <2>2
<1> QED BY <1>1, <1>2, <1>3 DEF LedgerInv

LEMMA EndStep ==
    ASSUME LedgerInv, NEW h \in Call \cup Request, End(h)
    PROVE  HandStep(h)
<1>1. Becomes(h, Idle)
      BY DEF End, Becomes, LedgerInv
<1> QED BY <1>1, IdleOK DEF HandStep

Quiet(s) == s \notin {"idle", "status", "install", "hand-out"}

LEMMA Going ==
    ASSUME NEW x, NEW a, NEW b, NEW i, NEW j, HandlerOK(x, a, i), x.request \in Request,
           NEW s, Quiet(s), NEW t, NEW n, n = [x EXCEPT !.at = s, !.seen = Unread, !.time = t]
    PROVE  HandlerOK(n, b, j)
<1>1. /\ IsHandler(n) /\ n.at = s /\ n.seen = Unread /\ n.config = x.config
      /\ n.request = x.request
      BY DEF IsHandler, HandlerOK
<1>2. RowOK(n.seen, n.request, b)
      BY <1>1, UnreadOK
<1> QED BY <1>1, <1>2 DEF HandlerOK, Quiet

LEMMA GoStep ==
    ASSUME LedgerInv, NEW h \in Call \cup Request, Busy(h), NEW s, Quiet(s), Go(h, s)
    PROVE  HandStep(h)
<1> DEFINE n == handler'[h]
<1>1. Becomes(h, n)
      BY DEF Go, Becomes, LedgerInv
<1>2. n = [handler[h] EXCEPT !.at = s, !.seen = Unread, !.time = 0]
      BY DEF Go, LedgerInv
<1> HIDE DEF n
<1>3. HandlerOK(n, armed, intents)
      BY <1>2, BusyRequest, Going DEF RequestOf
<1> QED BY <1>1, <1>3 DEF HandStep

-----------------------------------------------------------------------------
(* The methods of a request's object. *)

LEMMA LoadKeeps ==
    ASSUME LedgerInv, NEW h \in Call \cup Request, Load(h)
    PROVE  LedgerInv'
<1> DEFINE x == handler'[h]
<1>1. Busy(h) /\ UNCHANGED controlVars /\ UNCHANGED row
      BY DEF Load, Busy, requestVars
<1>2. Becomes(h, x)
      BY DEF Load, Becomes, LedgerInv
<1>3. x = [handler[h] EXCEPT !.seen = row[RequestOf(h)]]
      BY DEF Load, LedgerInv
<1>4. HandlerOK(handler[h], armed, intents) /\ RequestOf(h) \in Request
      /\ handler[h].at \notin {"install", "hand-out"}
      BY <1>1, BusyRequest DEF Load
<1> HIDE DEF x
<1>5. /\ IsHandler(x) /\ x.at = handler[h].at /\ x.seen = row[RequestOf(h)]
      /\ x.config = handler[h].config /\ x.request = handler[h].request
      BY <1>3, <1>4 DEF HandlerOK, IsHandler
<1>6. RowOK(x.seen, x.request, armed)
      BY <1>4, <1>5 DEF LedgerInv, RequestOf
<1>7. HandlerOK(x, armed, intents)
      BY <1>1, <1>4, <1>5, <1>6 DEF HandlerOK, RequestOf, Busy
<1> QED BY <1>1, <1>2, <1>7, MethodStep DEF RowStep, HandStep

LEMMA LostRace ==
    ASSUME LedgerInv, NEW h \in Call \cup Request, NEW after, LoseRace(h, after)
    PROVE  RowStep(h) /\ HandStep(h)
BY EndStep DEF LoseRace, RowStep

LEMMA Refused ==
    ASSUME LedgerInv, NEW h \in Call \cup Request, Refuse(h)
    PROVE  RowStep(h) /\ HandStep(h)
BY EndStep DEF Refuse, RowStep


LEMMA ReserveKeeps ==
    ASSUME LedgerInv, NEW c \in Call, ReserveIssue(c)
    PROVE  LedgerInv'
<1> DEFINE after == Reserved(CallOf(c).seen, CallOf(c).config, CallOf(c).time, CallOf(c).fresh)
<1>1. Busy(c) /\ UNCHANGED controlVars
      BY DEF ReserveIssue, Busy, At
<1>2. CASE after = {} /\ Refuse(c)
      BY <1>1, <1>2, Refused, MethodStep
<1>3. CASE LoseRace(c, after)
      BY <1>1, <1>3, LostRace, MethodStep
<1>4. CASE (\E n \in after : Store(c, n) /\ Repair(RequestOf(c), n)) /\ Go(c, "authorize-finalize")
  <2>1. PICK n \in after : Store(c, n)
        BY <1>4
  <2>2. Follows(Seen(c), n) /\ Seen(c).state \in {"armed", "issuing"}
        BY <1>1, <2>1, BusyRequest, ReservedFollows DEF Seen
  <2>3. RowStep(c)
        BY <2>1, <2>2 DEF RowStep
  <2>4. HandStep(c)
        BY <1>1, <1>4, GoStep DEF Quiet
  <2> QED BY <1>1, <2>3, <2>4, MethodStep
<1> QED BY <1>2, <1>3, <1>4 DEF ReserveIssue

LEMMA FinalizeKeeps ==
    ASSUME LedgerInv, NEW c \in Call, FinalizeIssue(c)
    PROVE  LedgerInv'
<1> DEFINE after == Finalized(CallOf(c).seen, CallOf(c).config, CallOf(c).time)
<1>1. Busy(c) /\ UNCHANGED controlVars
      BY DEF FinalizeIssue, Busy, At
<1>2. CASE after = {} /\ Refuse(c)
      BY <1>1, <1>2, Refused, MethodStep
<1>3. CASE LoseRace(c, after)
      BY <1>1, <1>3, LostRace, MethodStep
<1>4. CASE (\E n \in after : Store(c, n) /\ Repair(RequestOf(c), n)) /\ End(c)
  <2>1. PICK n \in after : Store(c, n)
        BY <1>4
  <2>2. Follows(Seen(c), n) /\ Seen(c).state = "issuing"
        BY <1>1, <2>1, BusyRequest, FinalizedFollows DEF Seen
  <2>3. RowStep(c)
        BY <2>1, <2>2 DEF RowStep
  <2> QED BY <1>1, <1>4, <2>3, EndStep, MethodStep
<1> QED BY <1>2, <1>3, <1>4 DEF FinalizeIssue

LEMMA RetireStep ==
    ASSUME LedgerInv, NEW c \in Call, Busy(c), NEW n, Follows(Seen(c), n),
           Seen(c).state = "issued", Retire(c, n)
    PROVE  RowStep(c) /\ HandStep(c)
BY EndStep DEF Retire, RowStep

LEMMA ReadAgainKeeps ==
    ASSUME LedgerInv, NEW c \in Call, ReadAgain(c)
    PROVE  LedgerInv'
<1> DEFINE after == ReadIssued(CallOf(c).seen, CallOf(c).config, CallOf(c).time)
<1>1. Busy(c) /\ UNCHANGED controlVars
      BY DEF ReadAgain, Busy, At
<1>2. CASE after = {} /\ Refuse(c)
      BY <1>1, <1>2, Refused, MethodStep
<1>3. CASE \E n \in after : Retire(c, n)
  <2>1. PICK n \in after : Retire(c, n)
        BY <1>3
  <2>2. Follows(Seen(c), n) /\ Seen(c).state = "issued"
        BY <1>1, <2>1, BusyRequest, ReadFollows DEF Seen
  <2> QED BY <1>1, <2>1, <2>2, RetireStep, MethodStep
<1>4. CASE End(c) /\ UNCHANGED row
      BY <1>1, <1>4, EndStep, MethodStep DEF RowStep
<1> QED BY <1>2, <1>3, <1>4 DEF ReadAgain

LEMMA ReadRetainedKeeps ==
    ASSUME LedgerInv, NEW c \in Call, ReadRetained(c)
    PROVE  LedgerInv'
<1> DEFINE after == ReadIssued(CallOf(c).seen, CallOf(c).config, CallOf(c).time)
<1>1. Busy(c) /\ UNCHANGED controlVars
      BY DEF ReadRetained, Busy, At
<1>2. CASE after = {} /\ Refuse(c)
      BY <1>1, <1>2, Refused, MethodStep
<1>3. CASE \E n \in after : Retire(c, n)
  <2>1. PICK n \in after : Retire(c, n)
        BY <1>3
  <2>2. Follows(Seen(c), n) /\ Seen(c).state = "issued"
        BY <1>1, <2>1, BusyRequest, ReadFollows DEF Seen
  <2> QED BY <1>1, <2>1, <2>2, RetireStep, MethodStep
<1>4. CASE Go(c, "authorize-claim") /\ UNCHANGED row
      BY <1>1, <1>4, GoStep, MethodStep DEF RowStep, Quiet
<1> QED BY <1>2, <1>3, <1>4 DEF ReadRetained

LEMMA ClaimKeeps ==
    ASSUME LedgerInv, NEW c \in Call, Claim(c)
    PROVE  LedgerInv'
<1> DEFINE after == ClaimOf(CallOf(c).seen, CallOf(c).config, CallOf(c).time)
<1>1. Busy(c) /\ UNCHANGED controlVars
      BY DEF Claim, Busy, At
<1>2. CASE after = {} /\ Refuse(c)
      BY <1>1, <1>2, Refused, MethodStep
<1>3. CASE LoseRace(c, after)
      BY <1>1, <1>3, LostRace, MethodStep
<1>4. ASSUME NEW n \in after
      PROVE  Follows(Seen(c), n) /\ Seen(c).state = "issued"
      BY <1>1, BusyRequest, ClaimFollows DEF Seen
<1>5. CASE \E n \in after : Retire(c, n)
      BY <1>1, <1>4, <1>5, RetireStep, MethodStep
<1>6. CASE (\E n \in after : Store(c, n)) /\ End(c)
  <2>1. RowStep(c)
        BY <1>4, <1>6 DEF RowStep
  <2> QED BY <1>1, <1>6, <2>1, EndStep, MethodStep
<1> QED BY <1>2, <1>3, <1>5, <1>6 DEF Claim

LEMMA CompleteKeeps ==
    ASSUME LedgerInv, NEW c \in Call, Complete(c)
    PROVE  LedgerInv'
<1> DEFINE after == Completed(CallOf(c).seen, CallOf(c).time)
<1>1. Busy(c) /\ UNCHANGED controlVars
      BY DEF Complete, Busy, At
<1>2. CASE after = {} /\ Refuse(c)
      BY <1>1, <1>2, Refused, MethodStep
<1>3. CASE LoseRace(c, after)
      BY <1>1, <1>3, LostRace, MethodStep
<1>4. CASE (\E n \in after : Store(c, n)) /\ End(c)
  <2>1. PICK n \in after : Store(c, n)
        BY <1>4
  <2>2. Follows(Seen(c), n) /\ Seen(c).state \in Claimed
        BY <1>1, <2>1, BusyRequest, CompletedFollows DEF Seen
  <2>3. RowStep(c)
        BY <2>1, <2>2 DEF RowStep, Claimed, Terminal
  <2> QED BY <1>1, <1>4, <2>3, EndStep, MethodStep
<1> QED BY <1>2, <1>3, <1>4 DEF Complete

LEMMA ReconcileRowKeeps ==
    ASSUME LedgerInv, NEW c \in Call, Reconcile(c)
    PROVE  LedgerInv'
<1> DEFINE seen == CallOf(c).seen
           required == Overdue(seen, CallOf(c).time)
           after == IF seen.state = "claimed" THEN required
                    ELSE Reconciled(seen, CallOf(c).time, CallOf(c).proof, TRUE)
<1>1. Busy(c) /\ UNCHANGED controlVars
      BY DEF Reconcile, Busy, At
<1>2. IsRow(seen) /\ Seen(c) = seen
      BY <1>1, BusyRequest DEF Seen
<1>3. ASSUME NEW n \in required
      PROVE  Follows(seen, n) /\ seen.state = "claimed"
      BY <1>2, OverdueFollows
<1>4. ASSUME NEW n \in after
      PROVE  Follows(seen, n) /\ seen.state \in Claimed
      BY <1>2, <1>3, ReconciledFollows DEF Claimed
<1>5. CASE End(c) /\ UNCHANGED row
      BY <1>1, <1>5, EndStep, MethodStep DEF RowStep
<1>6. CASE handler' = [handler EXCEPT ![c].seen = Unread] /\ UNCHANGED row
  <2> DEFINE x == handler'[c]
             y == handler[c]
  <2>1. Becomes(c, x)
        BY <1>6 DEF Becomes, LedgerInv
  <2>2. x = [y EXCEPT !.seen = Unread]
        BY <1>6 DEF LedgerInv
  <2> HIDE DEF x
  <2>3. HandlerOK(y, armed, intents) /\ y.request \in Request /\ y.at = "reconcile"
        BY <1>1, BusyRequest DEF Reconcile, At, RequestOf
  <2>4. /\ IsHandler(x) /\ x.at = "reconcile" /\ x.seen = Unread /\ x.config = y.config
        /\ x.request = y.request
        BY <2>2, <2>3 DEF HandlerOK, IsHandler
  <2>5. HandlerOK(x, armed, intents)
        BY <2>3, <2>4, UnreadOK DEF HandlerOK
  <2> QED BY <1>1, <1>6, <2>1, <2>5, MethodStep DEF RowStep, HandStep
<1>7. CASE \E n \in required : Store(c, n) /\ handler' = [handler EXCEPT ![c].seen = n]
  <2>1. PICK n \in required : Store(c, n) /\ handler' = [handler EXCEPT ![c].seen = n]
        BY <1>7
  <2>2. RowStep(c)
        BY <1>2, <1>3, <2>1 DEF RowStep
  <2> DEFINE x == handler'[c]
  <2>3. Becomes(c, x)
        BY <2>1 DEF Becomes, LedgerInv
  <2>4. x = [handler[c] EXCEPT !.seen = n]
        BY <2>1 DEF LedgerInv
  <2> HIDE DEF x
  <2>5. HandlerOK(handler[c], armed, intents) /\ handler[c].request \in Request
        /\ handler[c].at = "reconcile"
        BY <1>1, BusyRequest DEF Reconcile, At, RequestOf
  <2>6. /\ IsHandler(x) /\ x.at = "reconcile" /\ x.seen = n
        /\ x.config = handler[c].config /\ x.request = handler[c].request
        BY <2>4, <2>5 DEF HandlerOK, IsHandler
  <2>7. RowOK(n, x.request, armed)
        BY <1>3, <2>1, <2>5, <2>6 DEF HandlerOK, RowOK, Follows, CallOf
  <2>8. HandlerOK(x, armed, intents)
        BY <2>5, <2>6, <2>7 DEF HandlerOK
  <2> QED BY <1>1, <2>2, <2>3, <2>8, MethodStep DEF HandStep
<1>8. CASE (\E n \in after \ required : Store(c, n)) /\ End(c)
  <2>1. RowStep(c)
        BY <1>2, <1>4, <1>8 DEF RowStep, Claimed, Terminal
  <2> QED BY <1>1, <1>8, <2>1, EndStep, MethodStep
<1> QED BY <1>5, <1>6, <1>7, <1>8 DEF Reconcile

-----------------------------------------------------------------------------
(* The alarm. *)

LEMMA RingKeeps ==
    ASSUME LedgerInv, NEW r \in Request, Ring(r)
    PROVE  LedgerInv'
<1> DEFINE x == handler'[r]
<1>1. UNCHANGED row /\ UNCHANGED controlVars
      BY DEF Ring
<1>2. Becomes(r, x)
      BY DEF Ring, Becomes, LedgerInv
<1>3. x = [handler[r] EXCEPT !.at = "ring", !.request = r]
      BY DEF Ring, LedgerInv
<1>4. HandlerOK(handler[r], armed, intents) /\ handler[r] = Idle
      BY DEF LedgerInv, HandlerOK, Ring, At
<1> HIDE DEF x
<1>5. /\ IsHandler(x) /\ x.at = "ring" /\ x.seen = handler[r].seen
      /\ x.config = handler[r].config /\ x.request = r
      BY <1>3, <1>4 DEF HandlerOK, IsHandler
<1>6. handler[r].seen = Unread
      BY <1>4 DEF Idle
<1>7. RowOK(x.seen, x.request, armed)
      BY <1>5, <1>6, UnreadOK
<1>8. HandlerOK(x, armed, intents)
      BY <1>4, <1>5, <1>7 DEF HandlerOK
<1> QED BY <1>1, <1>2, <1>8, MethodStep DEF RowStep, HandStep

LEMMA FailedAlarm ==
    ASSUME LedgerInv, NEW r \in Request, FailAlarm(r)
    PROVE  RowStep(r) /\ HandStep(r)
BY EndStep DEF FailAlarm, RowStep

LEMMA RunAlarmKeeps ==
    ASSUME LedgerInv, NEW r \in Request, RunAlarm(r)
    PROVE  LedgerInv'
<1> DEFINE seen == CallOf(r).seen
<1>1. Busy(r) /\ UNCHANGED controlVars /\ At(r, "ring")
      BY DEF RunAlarm, Busy, At
<1>2. IsRow(seen) /\ Seen(r) = seen
      BY <1>1, BusyRequest DEF Seen
<1>3. CASE End(r) /\ UNCHANGED row
      BY <1>1, <1>3, EndStep, MethodStep DEF RowStep
<1>4. CASE FailAlarm(r)
      BY <1>1, <1>4, FailedAlarm, MethodStep
<1>5. CASE (\E n \in Expired(seen, now) : Store(r, n)) /\ End(r)
  <2>1. PICK n \in Expired(seen, now) : Store(r, n)
        BY <1>5
  <2>2. Follows(seen, n) /\ seen.state \in {"issuing", "issued"}
        BY <1>2, <2>1, ExpiredFollows
  <2>3. RowStep(r)
        BY <1>2, <2>1, <2>2 DEF RowStep
  <2> QED BY <1>1, <1>5, <2>3, EndStep, MethodStep
<1>6. CASE /\ \E n \in Overdue(seen, now) : Store(r, n)
           /\ handler' = [handler EXCEPT ![r].at = "look", ![r].seen = Unread, ![r].time = now]
  <2>1. PICK n \in Overdue(seen, now) : Store(r, n)
        BY <1>6
  <2>2. Follows(seen, n) /\ seen.state = "claimed"
        BY <1>2, <2>1, OverdueFollows
  <2>3. RowStep(r)
        BY <1>2, <2>1, <2>2 DEF RowStep
  <2> DEFINE x == handler'[r]
  <2>4. Becomes(r, x)
        BY <1>6 DEF Becomes, LedgerInv
  <2>5. x = [handler[r] EXCEPT !.at = "look", !.seen = Unread, !.time = now]
        BY <1>6 DEF LedgerInv
  <2> HIDE DEF x
  <2>6. HandlerOK(x, armed, intents)
        BY <1>1, <2>5, BusyRequest, Going DEF RequestOf, Quiet
  <2> QED BY <1>1, <2>3, <2>4, <2>6, MethodStep DEF HandStep
<1>7. CASE handler' = [handler EXCEPT ![r].at = "look", ![r].time = now] /\ UNCHANGED row
  <2> DEFINE x == handler'[r]
  <2>1. Becomes(r, x)
        BY <1>7 DEF Becomes, LedgerInv
  <2>2. x = [handler[r] EXCEPT !.at = "look", !.time = now]
        BY <1>7 DEF LedgerInv
  <2> HIDE DEF x
  <2>3. HandlerOK(handler[r], armed, intents) /\ handler[r].request \in Request
        BY <1>1, BusyRequest DEF RequestOf
  <2>4. /\ IsHandler(x) /\ x.at = "look" /\ x.seen = handler[r].seen
        /\ x.config = handler[r].config /\ x.request = handler[r].request
        BY <2>2, <2>3 DEF HandlerOK, IsHandler
  <2>5. HandlerOK(x, armed, intents)
        BY <2>3, <2>4 DEF HandlerOK
  <2> QED BY <1>1, <1>7, <2>1, <2>5, MethodStep DEF RowStep, HandStep
<1> QED BY <1>3, <1>4, <1>5, <1>6, <1>7 DEF RunAlarm

LEMMA LookKeeps ==
    ASSUME LedgerInv, NEW r \in Request, LookForEvidence(r)
    PROVE  LedgerInv'
<1>1. Busy(r) /\ UNCHANGED controlVars /\ UNCHANGED row /\ RowStep(r)
      BY DEF LookForEvidence, Busy, At, RowStep
<1>2. CASE End(r)
      BY <1>1, <1>2, EndStep, MethodStep
<1>3. CASE \E proof \in Evidence(r) :
             handler' = [handler EXCEPT ![r].at = "settle", ![r].seen = Unread,
                                        ![r].proof = proof, ![r].basis = CallOf(r).seen.revision]
  <2>1. PICK proof \in Evidence(r) :
             handler' = [handler EXCEPT ![r].at = "settle", ![r].seen = Unread,
                                        ![r].proof = proof, ![r].basis = CallOf(r).seen.revision]
        BY <1>3
  <2> DEFINE x == handler'[r]
             v == CallOf(r).seen.revision
  <2> HIDE DEF v
  <2>2. Becomes(r, x)
        BY <2>1 DEF Becomes, LedgerInv
  <2>3. x = [handler[r] EXCEPT !.at = "settle", !.seen = Unread, !.proof = proof, !.basis = v]
        BY <2>1 DEF LedgerInv, v
  <2> HIDE DEF x
  <2>4. HandlerOK(handler[r], armed, intents) /\ handler[r].request \in Request
        BY <1>1, BusyRequest DEF RequestOf
  <2>5. /\ IsHandler(x) /\ x.at = "settle" /\ x.seen = Unread
        /\ x.config = handler[r].config /\ x.request = handler[r].request
        BY <2>3, <2>4 DEF HandlerOK, IsHandler
  <2>6. HandlerOK(x, armed, intents)
        BY <2>4, <2>5, UnreadOK DEF HandlerOK
  <2> QED BY <1>1, <2>2, <2>6, MethodStep DEF HandStep
<1> QED BY <1>2, <1>3 DEF LookForEvidence

LEMMA SettleKeeps ==
    ASSUME LedgerInv, NEW r \in Request, SettleByAlarm(r)
    PROVE  LedgerInv'
<1> DEFINE seen == CallOf(r).seen
           proof == IF seen.revision = CallOf(r).basis THEN CallOf(r).proof ELSE "ambiguous"
           after == Reconciled(seen, now, proof, FALSE)
<1>1. Busy(r) /\ UNCHANGED controlVars
      BY DEF SettleByAlarm, Busy, At
<1>2. CASE End(r) /\ UNCHANGED row
      BY <1>1, <1>2, EndStep, MethodStep DEF RowStep
<1>3. CASE LoseRace(r, after)
      BY <1>1, <1>3, LostRace, MethodStep
<1>4. CASE (\E n \in after : Store(r, n)) /\ End(r)
  <2>1. PICK n \in after : Store(r, n)
        BY <1>4
  <2> HIDE DEF proof
  <2>2. Follows(Seen(r), n) /\ Seen(r).state \in Claimed
        BY <1>1, <2>1, BusyRequest, ReconciledFollows DEF Seen
  <2>3. RowStep(r)
        BY <2>1, <2>2 DEF RowStep, Claimed, Terminal
  <2> QED BY <1>1, <1>4, <2>3, EndStep, MethodStep
<1> QED BY <1>2, <1>3, <1>4 DEF SettleByAlarm

LEMMA CrashKeeps ==
    ASSUME LedgerInv, NEW r \in Request, Crash(r)
    PROVE  LedgerInv'
<1>1. Busy(r) /\ UNCHANGED controlVars
      BY DEF Crash, Busy, At
<1> QED BY <1>1, FailedAlarm, MethodStep DEF Crash

-----------------------------------------------------------------------------
(* Calls that ask the control. *)

LEMMA ControlStep ==
    ASSUME LedgerInv, NEW cfg, ConfigOK(cfg), ReconcileControl(cfg), UNCHANGED row,
           NEW h \in Call \cup Request, NEW x, Becomes(h, x), HandlerOK(x, armed', intents')
    PROVE  LedgerInv'
<1>1. /\ ControlOK(control', armed') /\ Agree(armed', intents') /\ Grows(armed, armed')
      /\ intents' = intents
      BY ReconcileKeeps DEF LedgerInv
<1>2. IntentsOK(intents') /\ Kept(intents, intents')
      BY <1>1 DEF LedgerInv, Kept
<1>3. /\ handler' = [y \in Call \cup Request |-> handler'[y]]
      /\ \A y \in Call \cup Request : HandlerOK(handler'[y], armed', intents')
      BY <1>1, <1>2, HandlersKeep
<1>4. row' = [r \in Request |-> row'[r]] /\ \A r \in Request : RowOK(row'[r], r, armed')
      BY <1>1, RowsKeep
<1> QED BY <1>1, <1>2, <1>3, <1>4 DEF LedgerInv

LEMMA AskKeeps ==
    ASSUME LedgerInv, NEW c \in Call, NEW s, s # "idle", NEW t, Quiet(t), AskControl(c, s, t)
    PROVE  LedgerInv'
<1> DEFINE x == handler'[c]
           cfg == CallOf(c).config
<1>1. Busy(c) /\ UNCHANGED row /\ ReconcileControl(cfg)
      BY DEF AskControl, Busy, At, requestVars
<1>2. HandlerOK(handler[c], armed, intents) /\ handler[c].request \in Request
      BY <1>1, BusyRequest DEF RequestOf
<1>3. Becomes(c, x)
      BY DEF AskControl, Becomes, LedgerInv
<1>4. x = [handler[c] EXCEPT !.at = t, !.seen = Unread, !.time = now]
      BY DEF AskControl, LedgerInv
<1>5. ConfigOK(cfg)
      BY <1>2 DEF HandlerOK, CallOf
<1> HIDE DEF x, cfg
<1>6. HandlerOK(x, armed', intents')
      BY <1>2, <1>4, Going
<1> QED BY <1>1, <1>3, <1>5, <1>6, ControlStep

LEMMA SignStatusKeeps ==
    ASSUME LedgerInv, SignStatus
    PROVE  LedgerInv'
<1>1. PICK cfg \in Config : ReconcileControl(cfg)
      BY DEF SignStatus
<1>2. ConfigOK(cfg) /\ UNCHANGED row /\ UNCHANGED handler
      BY ConfigsOK DEF SignStatus, requestVars
<1>3. /\ ControlOK(control', armed') /\ Agree(armed', intents') /\ Grows(armed, armed')
      /\ intents' = intents
      BY <1>1, <1>2, ReconcileKeeps DEF LedgerInv
<1>4. IntentsOK(intents') /\ Kept(intents, intents')
      BY <1>3 DEF LedgerInv, Kept
<1>5. row' = [r \in Request |-> row'[r]] /\ \A r \in Request : RowOK(row'[r], r, armed')
      BY <1>2, <1>3, RowsKeep
<1>6. \A h \in Call \cup Request : HandlerOK(handler'[h], armed', intents')
      BY <1>2, <1>3, <1>4, HandlerStays DEF LedgerInv
<1> QED BY <1>2, <1>3, <1>4, <1>5, <1>6 DEF LedgerInv

LEMMA StartIssueKeeps ==
    ASSUME LedgerInv, NEW c \in Call, StartIssue(c)
    PROVE  LedgerInv'
<1>1. PICK cfg \in Config :
         /\ cfg.enabled /\ ReconcileControl(cfg)
         /\ handler' = [handler EXCEPT ![c] = [Idle EXCEPT !.at = "status", !.config = cfg,
                                                          !.request = cfg.request]]
      BY DEF StartIssue
<1>2. ConfigOK(cfg) /\ UNCHANGED row /\ cfg.request \in Request
      BY <1>1, ConfigsOK DEF StartIssue, requestVars, ConfigOK
<1>3. armed'[cfg.epoch] = cfg.request
      BY <1>1, <1>2, ReconcileKeeps DEF LedgerInv
<1> DEFINE x == handler'[c]
           q == cfg.request
<1> HIDE DEF q
<1>4. Becomes(c, x)
      BY <1>1 DEF Becomes, LedgerInv
<1>5. x = [Idle EXCEPT !.at = "status", !.config = cfg, !.request = q]
      BY <1>1 DEF LedgerInv, q
<1> HIDE DEF x
<1>6. HandlerOK(x, armed', intents')
  <2>1. IsHandler(Idle) /\ Idle.seen = Unread
        BY IdleOK DEF HandlerOK, Idle
  <2>2. /\ IsHandler(x) /\ x.at = "status" /\ x.seen = Unread /\ x.config = cfg /\ x.request = q
        BY <1>5, <2>1 DEF IsHandler
  <2> QED BY <1>2, <1>3, <2>2, UnreadOK DEF HandlerOK, q
<1> QED BY <1>1, <1>2, <1>4, <1>6, ControlStep

LEMMA StartClaimKeeps ==
    ASSUME LedgerInv, NEW c \in Call, StartClaim(c)
    PROVE  LedgerInv'
<1>1. PICK cfg \in Config :
         /\ cfg.enabled
         /\ handler' = [handler EXCEPT ![c] = [Idle EXCEPT !.at = "authorize-read", !.config = cfg,
                                                          !.request = cfg.request]]
      BY DEF StartClaim
<1>2. ConfigOK(cfg) /\ UNCHANGED row /\ UNCHANGED controlVars /\ cfg.request \in Request
      BY <1>1, ConfigsOK DEF StartClaim, requestVars, ConfigOK
<1> DEFINE x == handler'[c]
           q == cfg.request
<1> HIDE DEF q
<1>4. Becomes(c, x)
      BY <1>1 DEF Becomes, LedgerInv
<1>5. x = [Idle EXCEPT !.at = "authorize-read", !.config = cfg, !.request = q]
      BY <1>1 DEF LedgerInv, q
<1> HIDE DEF x
<1>6. HandlerOK(x, armed, intents)
  <2>1. IsHandler(Idle) /\ Idle.seen = Unread
        BY IdleOK DEF HandlerOK, Idle
  <2>2. /\ IsHandler(x) /\ x.at = "authorize-read" /\ x.seen = Unread /\ x.config = cfg /\ x.request = q
        BY <1>5, <2>1 DEF IsHandler
  <2> QED BY <1>2, <2>2, UnreadOK DEF HandlerOK, q
<1> QED BY <1>2, <1>4, <1>6, MethodStep DEF RowStep, HandStep

LEMMA ReadStatusKeeps ==
    ASSUME LedgerInv, NEW c \in Call, ReadStatus(c)
    PROVE  LedgerInv'
<1> DEFINE x == handler'[c]
<1>1. Busy(c) /\ UNCHANGED controlVars /\ UNCHANGED row /\ RowStep(c) /\ handler[c].at = "status"
      BY DEF ReadStatus, Busy, At, RowStep
<1>2. HandlerOK(handler[c], armed, intents) /\ handler[c].request \in Request
      BY <1>1, BusyRequest DEF RequestOf
<1> DEFINE w == IF Loaded(c) THEN CallOf(c).seen ELSE row[RequestOf(c)]
           s == CASE Plain(w)            -> "install"
                  [] w.state = "issuing" -> "authorize-reserve"
                  [] w.state = "issued"  -> "read-issued"
                  [] OTHER               -> "idle"
           f == s = "install"
           t == IF s = "read-issued" THEN now ELSE 0
<1>3. handler' = [handler EXCEPT ![c] = IF s = "idle" THEN Idle
                                        ELSE [@ EXCEPT !.at = s, !.seen = Unread, !.fresh = f, !.time = t]]
      BY Zenon DEF ReadStatus
<1>7. s \in {"install", "authorize-reserve", "read-issued", "idle"}
      OBVIOUS
<1> HIDE DEF w, s, f, t
<1>4. Becomes(c, x)
      BY <1>3 DEF Becomes, LedgerInv
<1>5. x = IF s = "idle" THEN Idle ELSE [handler[c] EXCEPT !.at = s, !.seen = Unread, !.fresh = f, !.time = t]
      BY <1>3 DEF LedgerInv
<1> HIDE DEF x
<1>6. HandlerOK(x, armed, intents)
  <2>1. CASE s = "idle"
        BY <1>5, <2>1, IdleOK
  <2>2. CASE s # "idle"
    <3>1. x = [handler[c] EXCEPT !.at = s, !.seen = Unread, !.fresh = f, !.time = t]
          BY <1>5, <2>2
    <3>2. /\ IsHandler(x) /\ x.at = s /\ x.seen = Unread
          /\ x.config = handler[c].config /\ x.request = handler[c].request
          BY <1>2, <3>1 DEF HandlerOK, IsHandler
    <3> QED BY <1>1, <1>2, <1>7, <2>2, <3>2, UnreadOK DEF HandlerOK
  <2> QED BY <2>1, <2>2
<1> QED BY <1>1, <1>4, <1>6, MethodStep DEF HandStep

LEMMA InstallKeeps ==
    ASSUME LedgerInv, NEW c \in Call, InstallArming(c)
    PROVE  LedgerInv'
<1> DEFINE r == RequestOf(c)
           cfg == CallOf(c).config
<1>1. Busy(c) /\ UNCHANGED controlVars /\ handler[c].at = "install" /\ HandStep(c)
      BY GoStep DEF InstallArming, Busy, At, Quiet
<1>2. HandlerOK(handler[c], armed, intents) /\ r \in Request
      BY <1>1, BusyRequest
<1>3. PICK n \in Installed(row[r], cfg) : row' = [row EXCEPT ![r] = n]
      BY DEF InstallArming
<1>4. armed[cfg.epoch] = r /\ cfg.epoch \in Epoch /\ RowOK(row[r], r, armed)
      BY <1>1, <1>2 DEF HandlerOK, CallOf, RequestOf, LedgerInv, ConfigOK
<1>5. IsRow(n) /\ n.epoch = IF row[r].state = "none" THEN cfg.epoch ELSE row[r].epoch
      BY <1>4, InstalledFollows DEF RowOK
<1>6. row[r].state \in {"none", "armed"}
      BY <1>3 DEF Installed
<1>7. RowOK(n, r, armed)
      BY <1>4, <1>5, <1>6 DEF RowOK
<1>8. /\ ControlOK(control', armed') /\ IntentsOK(intents') /\ Agree(armed', intents')
      /\ Grows(armed, armed') /\ Kept(intents, intents')
      /\ armed' = armed /\ intents' = intents
      BY <1>1, Same
<1>9. row' = [q \in Request |-> row'[q]] /\ \A q \in Request : RowOK(row'[q], q, armed')
      BY <1>2, <1>3, <1>7, <1>8 DEF LedgerInv
<1>10. /\ handler' = [h \in Call \cup Request |-> handler'[h]]
       /\ \A h \in Call \cup Request : HandlerOK(handler'[h], armed', intents')
      BY <1>1, <1>8, HandlersKeep DEF HandStep
<1> QED BY <1>8, <1>9, <1>10 DEF LedgerInv

LEMMA FinishKeeps ==
    ASSUME LedgerInv, NEW c \in Call, NEW r \in Request, Finish(c, r)
    PROVE  LedgerInv'
<1> DEFINE x == handler'[c]
<1>1. UNCHANGED row /\ UNCHANGED controlVars /\ RowStep(c)
      BY DEF Finish, RowStep
<1> DEFINE s == IF now >= ClaimDeadline(row[r]) THEN "reconcile" ELSE "complete"
<1>2. PICK proof : handler' = [handler EXCEPT ![c] =
                      [Idle EXCEPT !.at = s, !.request = r, !.proof = proof, !.time = now]]
      BY Zenon DEF Finish
<1>8. s \in {"reconcile", "complete"}
      OBVIOUS
<1> HIDE DEF s
<1>3. Becomes(c, x)
      BY <1>2 DEF Becomes, LedgerInv
<1>4. x = [Idle EXCEPT !.at = s, !.request = r, !.proof = proof, !.time = now]
      BY <1>2 DEF LedgerInv
<1> HIDE DEF x
<1>5. IsHandler(Idle) /\ Idle.seen = Unread /\ ConfigOK(Idle.config)
      BY IdleOK DEF HandlerOK, Idle
<1>6. /\ IsHandler(x) /\ x.at = s /\ x.seen = Unread /\ x.config = Idle.config /\ x.request = r
      BY <1>4, <1>5 DEF IsHandler
<1>7. HandlerOK(x, armed, intents)
      BY <1>8, <1>5, <1>6, UnreadOK DEF HandlerOK
<1> QED BY <1>1, <1>3, <1>7, MethodStep DEF HandStep

-----------------------------------------------------------------------------
(* Preparation. *)

LEMMA IntentsFor ==
    ASSUME LedgerInv, NEW cfg, ConfigOK(cfg), cfg.request \in Request \cup {None}, NEW ctl,
           NEW i \in IntentFor(cfg, ctl)
    PROVE  /\ i = [request |-> i.request, configured |-> i.configured, receipt |-> i.receipt]
           /\ i.request \in Request /\ i.receipt \in Call \cup {None}
           /\ intents[cfg.epoch].receipt \in Call => i = intents[cfg.epoch]
<1> DEFINE prior == intents[cfg.epoch]
<1>1. cfg.epoch \in Epoch /\ IntentsOK(intents)
      BY DEF ConfigOK, LedgerInv
<1>2. CASE prior.request # None
  <2>1. i = prior
        BY <1>2 DEF IntentFor
  <2> QED BY <1>1, <1>2, <2>1 DEF IntentsOK
<1>3. CASE prior.request = None
  <2>1. PICK r \in Request : i = [NoIntent EXCEPT !.request = r, !.configured = cfg.request # None]
        BY <1>3 DEF IntentFor
  <2>2. i = [request |-> r, configured |-> cfg.request # None, receipt |-> None]
        BY <2>1, Zenon DEF NoIntent
  <2>3. prior.receipt = None
        BY <1>1, <1>3 DEF IntentsOK
  <2> QED BY <2>2, <2>3, LedgerAssumption
<1> QED BY <1>2, <1>3

LEMMA PrepareStep ==
    ASSUME LedgerInv, NEW e \in Epoch, NEW i,
           i = [request |-> i.request, configured |-> i.configured, receipt |-> i.receipt],
           i.request \in Request, i.receipt \in Call \cup {None},
           intents[e].receipt \in Call => i.receipt = intents[e].receipt,
           intents' = [intents EXCEPT ![e] = i], armed' = armed,
           armed[e] \notin Request, ControlOK(control', armed'), UNCHANGED row,
           NEW c \in Call, NEW x, Becomes(c, x), HandlerOK(x, armed', intents')
    PROVE  LedgerInv'
<1>1. IntentsOK(intents')
  <2>1. IntentsOK(intents)
        BY DEF LedgerInv
  <2>2. intents' = [d \in Epoch |-> intents'[d]]
        BY <2>1 DEF IntentsOK
  <2>3. i.request # None
        BY LedgerAssumption
  <2>4. \A d \in Epoch : intents'[d] = IF d = e THEN i ELSE intents[d]
        BY <2>1 DEF IntentsOK
  <2> QED BY <2>1, <2>2, <2>3, <2>4 DEF IntentsOK
<1>2. Kept(intents, intents') /\ Grows(armed, armed')
      BY DEF LedgerInv, IntentsOK, Kept, Grows
<1>3. Agree(armed', intents')
      BY DEF LedgerInv, IntentsOK, Agree
<1>4. row' = [r \in Request |-> row'[r]] /\ \A r \in Request : RowOK(row'[r], r, armed')
      BY <1>2, RowsKeep
<1>5. /\ handler' = [h \in Call \cup Request |-> handler'[h]]
      /\ \A h \in Call \cup Request : HandlerOK(handler'[h], armed', intents')
      BY <1>2, HandlersKeep
<1> QED BY <1>1, <1>3, <1>4, <1>5 DEF LedgerInv

LEMMA ReservePreparationKeeps ==
    ASSUME LedgerInv, NEW c \in Call, NEW cfg \in Config, ReservePreparation(c, cfg)
    PROVE  LedgerInv'
<1> DEFINE base == ControlFor(cfg.epoch)
           ctl == IF cfg.epoch > base.epoch /\ ~base.enabled THEN Disabled(base, cfg.epoch) ELSE base
           e == cfg.epoch
<1>1. ConfigOK(cfg) /\ cfg.request \in Request \cup {None} /\ e \in Epoch /\ UNCHANGED row /\ armed' = armed
      BY ConfigsOK DEF ReservePreparation, ConfigOK, requestVars
<1>2. ControlOK(base, armed) /\ base.maxConsumed = control.maxConsumed
      BY <1>1 DEF ControlFor, ControlOK, IsControl, Epoch, LedgerInv
<1>3. Preparable(ctl, e) /\ control' = ctl
      BY DEF ReservePreparation
<1>6. PICK i \in IntentFor(cfg, ctl) :
         /\ intents' = [intents EXCEPT ![e] = i]
         /\ handler' = [handler EXCEPT ![c] = [Idle EXCEPT
                !.at = IF i.receipt = None THEN "sign" ELSE "hand-out",
                !.config = cfg, !.request = i.request, !.proof = i.receipt]]
      BY Zenon DEF ReservePreparation
<1> HIDE DEF base
<1>4. ControlOK(ctl, armed) /\ ctl.maxConsumed = control.maxConsumed
  <2>1. CASE ctl = base
        BY <1>2, <2>1
  <2>2. CASE ctl = Disabled(base, e)
    <3> DEFINE d == Disabled(base, e)
    <3>1. IsControl(d)
          BY <1>2, ControlFields DEF Disabled, ControlOK
    <3>2. d.enabled = FALSE
          BY <1>2 DEF Disabled, ControlOK, IsControl
    <3>3. d.epoch = e
          BY <1>2 DEF Disabled, ControlOK, IsControl
    <3>4. d.maxConsumed = base.maxConsumed
          BY <1>2 DEF Disabled, ControlOK, IsControl
    <3>6. e \in Nat
          BY <1>1 DEF Epoch
    <3> HIDE DEF d, e
    <3>5. ControlOK(d, armed)
          BY <1>2, <3>1, <3>2, <3>3, <3>4, <3>6 DEF ControlOK
    <3> QED BY <1>2, <2>2, <3>4, <3>5 DEF d
  <2> QED BY <2>1, <2>2
<1>5. armed[e] \notin Request
      BY <1>1, <1>3, <1>4 DEF Preparable, ControlOK, Epoch
<1> HIDE DEF ctl
<1>7. /\ i = [request |-> i.request, configured |-> i.configured, receipt |-> i.receipt]
      /\ i.request \in Request /\ i.receipt \in Call \cup {None}
      /\ intents[e].receipt \in Call => i = intents[e]
      BY <1>1, <1>6, IntentsFor
<1> DEFINE x == handler'[c]
           s == IF i.receipt = None THEN "sign" ELSE "hand-out"
           q == i.request
           p == i.receipt
<1>8. Becomes(c, x)
      BY <1>6 DEF Becomes, LedgerInv
<1>9. x = [Idle EXCEPT !.at = s, !.config = cfg, !.request = q, !.proof = p]
      BY <1>6 DEF LedgerInv
<1>10. s \in {"sign", "hand-out"} /\ (s = "hand-out" => p \in Call)
      BY <1>7
<1>11. q \in Request /\ intents'[e].receipt = p
      BY <1>1, <1>6, <1>7 DEF LedgerInv, IntentsOK
<1> HIDE DEF x, s, q, p
<1>12. IsHandler(Idle) /\ Idle.seen = Unread
      BY IdleOK DEF HandlerOK, Idle
<1>13. /\ IsHandler(x) /\ x.at = s /\ x.seen = Unread /\ x.config = cfg /\ x.request = q /\ x.proof = p
      BY <1>9, <1>12 DEF IsHandler
<1>14. HandlerOK(x, armed', intents')
      BY <1>1, <1>10, <1>11, <1>13, UnreadOK DEF HandlerOK
<1> QED BY <1>1, <1>3, <1>4, <1>5, <1>6, <1>7, <1>8, <1>14, PrepareStep

LEMMA FinalizePreparationKeeps ==
    ASSUME LedgerInv, NEW c \in Call, FinalizePreparation(c)
    PROVE  LedgerInv'
<1> DEFINE e == CallOf(c).config.epoch
           receipt == ReceiptKept(c, intents[e])
           x == handler'[c]
           i == intents'[e]
<1>1. Busy(c) /\ UNCHANGED row /\ armed' = armed /\ control' = control /\ handler[c].at = "sign"
      BY DEF FinalizePreparation, Busy, At, requestVars
<1>2. HandlerOK(handler[c], armed, intents) /\ handler[c].request \in Request
      BY <1>1, BusyRequest DEF RequestOf
<1>3. Preparable(control, e) /\ intents[e].request = handler[c].request
      BY DEF FinalizePreparation, CallOf
<1>4. intents' = [intents EXCEPT ![e].receipt = receipt]
      /\ handler' = [handler EXCEPT ![c].at = "hand-out", ![c].proof = receipt]
      BY DEF FinalizePreparation
<1>5. e \in Epoch /\ IntentsOK(intents) /\ ControlOK(control, armed)
      BY <1>2 DEF HandlerOK, ConfigOK, CallOf, LedgerInv
<1>6. armed[e] \notin Request
      BY <1>3, <1>5 DEF Preparable, ControlOK, Epoch
<1>7. receipt \in Call /\ (intents[e].receipt \in Call => receipt = intents[e].receipt)
      BY <1>5, LedgerAssumption DEF ReceiptKept, IntentsOK
<1> HIDE DEF receipt, e
<1>8. /\ i = [request |-> i.request, configured |-> i.configured, receipt |-> i.receipt]
      /\ i.request = intents[e].request /\ i.receipt = receipt
      BY <1>4, <1>5 DEF IntentsOK
<1>9. intents' = [intents EXCEPT ![e] = i]
      BY <1>4, <1>5 DEF IntentsOK
<1>10. Becomes(c, x)
      BY <1>4 DEF Becomes, LedgerInv
<1>11. x = [handler[c] EXCEPT !.at = "hand-out", !.proof = receipt]
      BY <1>4 DEF LedgerInv
<1> HIDE DEF x, i
<1>12. /\ IsHandler(x) /\ x.at = "hand-out" /\ x.seen = handler[c].seen
       /\ x.config = handler[c].config /\ x.request = handler[c].request /\ x.proof = receipt
      BY <1>2, <1>11 DEF HandlerOK, IsHandler
<1>13. intents'[e].receipt = receipt
      BY <1>8 DEF i
<1>14. HandlerOK(x, armed', intents')
      BY <1>1, <1>2, <1>7, <1>12, <1>13 DEF HandlerOK, e, CallOf
<1> QED BY <1>1, <1>2, <1>3, <1>5, <1>6, <1>7, <1>8, <1>9, <1>10, <1>14, PrepareStep

-----------------------------------------------------------------------------
LEMMA NextKeeps == LedgerInv /\ [Next]_vars => LedgerInv'
<1> SUFFICES ASSUME LedgerInv, [Next]_vars PROVE LedgerInv'
    OBVIOUS
<1>1. ASSUME NEW c \in Call, CallNext(c)
      PROVE  LedgerInv'
  <2>1. CASE StartIssue(c) BY <2>1, StartIssueKeeps
  <2>2. CASE ReadStatus(c) BY <2>2, ReadStatusKeeps
  <2>3. CASE InstallArming(c) BY <2>3, InstallKeeps
  <2>4. CASE AuthorizeReserve(c)
        BY <2>4, AskKeeps DEF AuthorizeReserve, Quiet
  <2>5. CASE ReserveIssue(c) BY <2>5, ReserveKeeps
  <2>6. CASE AuthorizeFinalize(c)
        BY <2>6, AskKeeps DEF AuthorizeFinalize, Quiet
  <2>7. CASE FinalizeIssue(c) BY <2>7, FinalizeKeeps
  <2>8. CASE ReadAgain(c) BY <2>8, ReadAgainKeeps
  <2>9. CASE StartClaim(c) BY <2>9, StartClaimKeeps
  <2>10. CASE ReadRetained(c) BY <2>10, ReadRetainedKeeps
  <2>20. CASE AuthorizeRead(c)
        BY <2>20, AskKeeps DEF AuthorizeRead, Quiet
  <2>11. CASE AuthorizeClaim(c)
        BY <2>11, AskKeeps DEF AuthorizeClaim, Quiet
  <2>12. CASE Claim(c) BY <2>12, ClaimKeeps
  <2>13. CASE \E r \in Request : Finish(c, r) BY <2>13, FinishKeeps
  <2>14. CASE Complete(c) BY <2>14, CompleteKeeps
  <2>15. CASE Reconcile(c) BY <2>15, ReconcileRowKeeps
  <2>16. CASE \E cfg \in Config : ReservePreparation(c, cfg) BY <2>16, ReservePreparationKeeps
  <2>17. CASE FinalizePreparation(c) BY <2>17, FinalizePreparationKeeps
  <2>18. CASE HandOutReceipt(c)
        BY <2>18, EndStep, MethodStep DEF HandOutReceipt, RowStep, requestVars
  <2>19. CASE Abandon(c)
        BY <2>19, EndStep, MethodStep DEF Abandon, RowStep, requestVars
  <2> QED BY <1>1, <2>1, <2>2, <2>3, <2>4, <2>5, <2>6, <2>7, <2>8, <2>9, <2>10, <2>11, <2>12,
             <2>13, <2>14, <2>15, <2>16, <2>17, <2>18, <2>19, <2>20 DEF CallNext
<1>2. ASSUME NEW h \in Call \cup Request, Load(h)
      PROVE  LedgerInv'
      BY <1>2, LoadKeeps
<1>3. ASSUME NEW r \in Request, Ring(r) \/ AlarmNext(r) \/ Crash(r)
      PROVE  LedgerInv'
      BY <1>3, RingKeeps, RunAlarmKeeps, LookKeeps, SettleKeeps, CrashKeeps DEF AlarmNext
<1>4. CASE SignStatus
      BY <1>4, SignStatusKeeps
<1>5. CASE UNCHANGED <<handler, row>> /\ UNCHANGED controlVars
      BY <1>5 DEF LedgerInv, controlVars
<1>6. ASSUME NEW r \in Request, JobNext(r)
      PROVE  UNCHANGED <<handler, row>> /\ UNCHANGED controlVars
      BY <1>6 DEF JobNext, StartDeployStep, Deployed, EndJob
<1>7. CASE Tick
      BY <1>5, <1>7 DEF Tick, requestVars
<1>8. CASE UNCHANGED vars
      BY <1>5, <1>8 DEF vars, requestVars
<1> QED BY <1>1, <1>2, <1>3, <1>4, <1>5, <1>6, <1>7, <1>8 DEF Next

(* LedgerInv is an invariant of the ledger. *)
THEOREM LedgerCorrect == Spec => []LedgerInv
<1> QED BY InitInv, NextKeeps, PTL DEF Spec

(* No two requests are ever claimed under the same authorization epoch        *)
(* (reconcileLedgerV2Control, claim), for any number of requests, calls and   *)
(* epochs, and whatever crashes and is refused between.                       *)
THEOREM OneClaimPerEpochAlways == Spec => []OneClaimPerEpoch
<1>1. LedgerInv => OneClaimPerEpoch
  <2> SUFFICES ASSUME LedgerInv, NEW r1 \in Request, NEW r2 \in Request,
                      row[r1].state \in Claimed, row[r2].state \in Claimed,
                      row[r1].epoch = row[r2].epoch
               PROVE  r1 = r2
      BY DEF OneClaimPerEpoch
  <2>1. armed[row[r1].epoch] = r1 /\ armed[row[r2].epoch] = r2
        BY DEF LedgerInv, RowOK, Claimed, Terminal
  <2> QED BY <2>1
<1> QED BY LedgerCorrect, <1>1, PTL

(* An epoch is armed for no other request than the prepared one, and every    *)
(* preparation hands out the receipt the epoch keeps (assertPreparationArming, *)
(* finalizePreparationIntent), for any number of calls and epochs.            *)
THEOREM PreparedOnceAlways == Spec => []PreparedOnce
<1>1. LedgerInv => PreparedOnce
      BY DEF LedgerInv, Agree, HandlerOK, PreparedOnce, At, CallOf
<1> QED BY LedgerCorrect, <1>1, PTL
-----------------------------------------------------------------------------
(* A row, its alarm and its job.                                              *)
(*                                                                            *)
(* The argument: an event is applied to a row that was read before, but it is *)
(* stored only when that row is still the stored one, which the revision      *)
(* tells.  So rows only follow each other by events, and Later, what one row  *)
(* is to those that follow it, is transitive: a row that a call has read is   *)
(* never ahead of the stored one, and as deadlines only move back, or have    *)
(* passed, the alarm that a call repairs with an old row is never too late.   *)
(* What a call brings as evidence was true when it was found, and stays true. *)

States == {"none", "armed", "issuing", "issued", "expired"} \cup Claimed

(* An authorization has been reserved for the row. *)
Begun(rw) == rw.state \notin {"none", "armed", "unread"}

RowTyped(rw) ==
    /\ rw.state \in States
    /\ rw.revision \in Int /\ rw.attempts \in Nat
    /\ rw.at \in Nat \cup {Never} /\ rw.reservedAt \in Nat \cup {Never}
    /\ rw.claimedAt \in Nat \cup {Never} /\ rw.next \in Nat \cup {Never}
    /\ Begun(rw) => rw.reservedAt \in Nat
    /\ rw.state \in Claimed => rw.claimedAt \in Nat

(* What #loadRecord accepts. *)
RowLoads(rw) ==
    /\ rw.state = "none" => rw = NoRow
    /\ rw.state = "armed" => rw.revision = 0 /\ rw.at = Never
    /\ rw.state \notin {"required"} \cup Terminal => rw.attempts = 0
    /\ rw.state = "issuing" => rw.at = rw.reservedAt
    /\ rw.state = "issued" => rw.reservedAt <= rw.at /\ rw.at < IssuingDeadline(rw)
    /\ rw.state \in Claimed => rw.reservedAt <= rw.claimedAt /\ rw.claimedAt < ExpiresAt(rw)
    /\ rw.state = "claimed" => rw.at = rw.claimedAt
    /\ rw.state = "required" =>
           /\ rw.at >= ClaimDeadline(rw)
           /\ rw.attempts <= Len(RetryDelays) + 1
           /\ rw.attempts = Len(RetryDelays) + 1 <=> rw.next = Never
    /\ rw.state \in Terminal => rw.at >= rw.claimedAt

RowSound(rw, t) == RowTyped(rw) /\ RowLoads(rw) /\ rw.at <= t

(* An alarm at v, at time t, is early enough for the row. *)
InTime(v, rw, t) == Deadline(rw) # Never => v # Never /\ (v <= Deadline(rw) \/ v <= t)

Later(w, n, t) ==
    /\ w.revision <= n.revision
    /\ w.revision = n.revision => w = n
    /\ w.state # "none" => n.state # "none"
    /\ Begun(w) => Begun(n) /\ InTime(Deadline(w), n, t)

LEMMA Durations ==
    /\ IssuingTimeout \in Nat \ {0} /\ AuthorizationLife \in Nat /\ ClaimWindow \in Nat
    /\ IssuingTimeout <= AuthorizationLife /\ AuthorizationLife <= ClaimWindow
BY LedgerAssumption

LEMMA Delays == RetryDelays \in Seq(Nat)
BY LedgerAssumption

LEMMA DeadlineType ==
    ASSUME NEW rw, RowTyped(rw)
    PROVE  /\ Deadline(rw) \in Nat \cup {Never}
           /\ Deadline(rw) # Never => Begun(rw)
<1>1. CASE rw.state = "issuing"
  <2>1. Deadline(rw) = rw.reservedAt + IssuingTimeout
        BY <1>1 DEF Deadline, IssuingDeadline
  <2>2. rw.reservedAt \in Nat /\ Begun(rw)
        BY <1>1 DEF RowTyped, Begun
  <2> QED BY <2>1, <2>2, Durations
<1>2. CASE rw.state = "issued"
  <2>1. Deadline(rw) = rw.reservedAt + AuthorizationLife
        BY <1>2 DEF Deadline, ExpiresAt
  <2>2. rw.reservedAt \in Nat /\ Begun(rw)
        BY <1>2 DEF RowTyped, Begun
  <2> QED BY <2>1, <2>2, Durations
<1>3. CASE rw.state = "claimed"
  <2>1. Deadline(rw) = rw.claimedAt + ClaimWindow
        BY <1>3 DEF Deadline, ClaimDeadline
  <2>2. rw.claimedAt \in Nat /\ Begun(rw)
        BY <1>3 DEF RowTyped, Begun, Claimed
  <2> QED BY <2>1, <2>2, Durations
<1>4. CASE rw.state = "required"
      BY <1>4 DEF RowTyped, Begun, Deadline
<1>5. CASE rw.state \notin {"issuing", "issued", "claimed", "required"}
      BY <1>5 DEF Deadline
<1> QED BY <1>1, <1>2, <1>3, <1>4, <1>5

LEMMA LaterSelf ==
    ASSUME NEW rw, NEW t, RowTyped(rw)
    PROVE  Later(rw, rw, t)
BY DeadlineType DEF Later, InTime, RowTyped, Never

LEMMA LaterInTime ==
    ASSUME NEW a, NEW b, NEW t \in Nat, NEW u \in Nat, t <= u, RowTyped(a), RowTyped(b),
           Later(a, b, t)
    PROVE  Later(a, b, u)
BY DeadlineType DEF Later, InTime, Never

LEMMA LaterThanLater ==
    ASSUME NEW a, NEW b, NEW c, NEW t \in Nat, RowTyped(a), RowTyped(b), RowTyped(c),
           Later(a, b, t), Later(b, c, t)
    PROVE  Later(a, c, t)
<1>1. a.revision \in Int /\ b.revision \in Int /\ c.revision \in Int
      BY DEF RowTyped
<1>2. a.revision <= c.revision /\ (a.revision = c.revision => a = c)
      BY <1>1 DEF Later
<1>3. a.state # "none" => c.state # "none"
      BY DEF Later
<1>4. ASSUME Begun(a)
      PROVE  Begun(c) /\ InTime(Deadline(a), c, t)
  <2>1. Begun(b) /\ Begun(c) /\ InTime(Deadline(a), b, t) /\ InTime(Deadline(b), c, t)
        BY <1>4 DEF Later
  <2>2. InTime(Deadline(a), c, t)
    <3> DEFINE da == Deadline(a)
               db == Deadline(b)
               dc == Deadline(c)
    <3>1. da \in Nat \cup {Never} /\ db \in Nat \cup {Never} /\ dc \in Nat \cup {Never}
          BY DeadlineType
    <3> HIDE DEF da, db, dc
    <3>2. /\ db # Never => da # Never /\ (da <= db \/ da <= t)
          /\ dc # Never => db # Never /\ (db <= dc \/ db <= t)
          BY <2>1 DEF InTime, da, db, dc
    <3>3. dc # Never => da # Never /\ (da <= dc \/ da <= t)
          BY <3>1, <3>2 DEF Never
    <3> QED BY <3>3 DEF InTime, da, dc
  <2> QED BY <2>1, <2>2
<1> QED BY <1>2, <1>3, <1>4 DEF Later

LEMMA SoundLonger ==
    ASSUME NEW rw, NEW t \in Nat, NEW u \in Nat, t <= u, RowSound(rw, t)
    PROVE  RowSound(rw, u)
BY DEF RowSound, RowTyped, Never

(* The row n that follows a sound row rw. *)
Follower(rw, n, t) == RowSound(n, t) /\ Later(rw, n, t) /\ Begun(n)

LEMMA SameFollows ==
    ASSUME NEW rw, NEW t, RowSound(rw, t), Begun(rw)
    PROVE  Follower(rw, rw, t)
BY LaterSelf DEF Follower, RowSound

LEMMA MovedFields ==
    ASSUME NEW rw, IsRow(rw), NEW s, NEW t, NEW n, n = Moved(rw, s, t)
    PROVE  /\ n.state = s /\ n.revision = rw.revision + 1 /\ n.at = t
           /\ n.reservedAt = rw.reservedAt /\ n.claimedAt = rw.claimedAt
           /\ n.attempts = rw.attempts /\ n.next = rw.next
BY DEF Moved, IsRow

LEMMA ReservedSound ==
    ASSUME NEW rw, IsRow(rw), NEW t \in Nat, NEW u \in Nat, u <= t, RowSound(rw, t),
           NEW cfg, NEW fresh, NEW n \in Reserved(rw, cfg, u, fresh)
    PROVE  Follower(rw, n, t) /\ n.state = "issuing"
<1> DEFINE m == Moved(rw, "issuing", u)
<1>1. CASE rw.state = "armed" /\ fresh /\ Authorized(rw, cfg)
  <2>1. n = [m EXCEPT !.reservedAt = u]
        BY <1>1 DEF Reserved
  <2>2. IsRow(m) /\ m.state = "issuing" /\ m.revision = rw.revision + 1 /\ m.at = u
        /\ m.claimedAt = rw.claimedAt /\ m.attempts = rw.attempts /\ m.next = rw.next
        BY MovedRow, MovedFields DEF Follows
  <2> HIDE DEF m
  <2>3. n.state = "issuing" /\ n.revision = rw.revision + 1 /\ n.at = u /\ n.reservedAt = u
        /\ n.claimedAt = rw.claimedAt /\ n.attempts = rw.attempts /\ n.next = rw.next
        BY <2>1, <2>2 DEF IsRow
  <2>4. RowSound(n, t)
        BY <1>1, <2>3 DEF RowSound, RowTyped, RowLoads, States, Claimed, Terminal
  <2>5. Later(rw, n, t) /\ Begun(n)
        BY <1>1, <2>3 DEF Later, Begun, RowSound, RowTyped
  <2> QED BY <2>3, <2>4, <2>5 DEF Follower
<1>2. CASE ~(rw.state = "armed" /\ fresh /\ Authorized(rw, cfg))
  <2>1. n = rw /\ rw.state = "issuing"
        BY <1>2 DEF Reserved
  <2> QED BY <2>1, SameFollows DEF Begun
<1> QED BY <1>1, <1>2

LEMMA ExpiredState ==
    ASSUME NEW rw, IsRow(rw), NEW t \in Nat, NEW u \in Nat, u <= t, RowSound(rw, t),
           rw.state \in {"issuing", "issued"}, NEW n, n = Moved(rw, "expired", u)
    PROVE  Follower(rw, n, t) /\ n.state = "expired" /\ n # rw
<1>1. n.state = "expired" /\ n.revision = rw.revision + 1 /\ n.at = u
      /\ n.reservedAt = rw.reservedAt /\ n.claimedAt = rw.claimedAt
      /\ n.attempts = rw.attempts /\ n.next = rw.next
      BY MovedFields
<1>2. RowSound(n, t)
  <2>1. RowTyped(rw) /\ rw.attempts = 0 /\ Begun(rw)
        BY DEF RowSound, RowLoads, Terminal, Begun
  <2>2. RowTyped(n)
        BY <1>1, <2>1 DEF RowTyped, States, Claimed, Terminal, Begun
  <2>3. RowLoads(n)
        BY <1>1, <2>1 DEF RowLoads, Claimed, Terminal
  <2> QED BY <1>1, <2>2, <2>3 DEF RowSound
<1>3. Deadline(n) = Never
      BY <1>1 DEF Deadline
<1>4. Later(rw, n, t) /\ Begun(n)
      BY <1>1, <1>3 DEF Later, Begun, InTime, RowSound, RowTyped
<1> QED BY <1>1, <1>2, <1>4 DEF Follower

LEMMA FinalizedSound ==
    ASSUME NEW rw, IsRow(rw), NEW t \in Nat, NEW u \in Nat, u <= t, RowSound(rw, t),
           NEW cfg, NEW n \in Finalized(rw, cfg, u)
    PROVE  Follower(rw, n, t) /\ n.state = "issued" /\ n # rw
<1>1. n = Moved(rw, "issued", u) /\ rw.state = "issuing" /\ rw.at <= u /\ u < IssuingDeadline(rw)
      BY DEF Finalized
<1>2. n.state = "issued" /\ n.revision = rw.revision + 1 /\ n.at = u
      /\ n.reservedAt = rw.reservedAt /\ n.claimedAt = rw.claimedAt
      /\ n.attempts = rw.attempts /\ n.next = rw.next
      BY <1>1, MovedFields
<1>3. RowSound(n, t)
  <2>1. RowTyped(rw) /\ RowLoads(rw) /\ Begun(rw)
        BY <1>1 DEF RowSound, Begun
  <2>2. RowTyped(n)
        BY <1>1, <1>2, <2>1 DEF RowTyped, States, Claimed, Terminal, Begun
  <2>3. rw.attempts = 0 /\ rw.at = rw.reservedAt /\ IssuingDeadline(n) = IssuingDeadline(rw)
        BY <1>1, <1>2, <2>1 DEF RowLoads, Terminal, IssuingDeadline
  <2>4. RowLoads(n)
        BY <1>1, <1>2, <2>3 DEF RowLoads, Claimed, Terminal
  <2> QED BY <1>2, <2>2, <2>4 DEF RowSound
<1>4. Deadline(n) = rw.reservedAt + AuthorizationLife /\ Deadline(rw) = rw.reservedAt + IssuingTimeout
      /\ rw.reservedAt \in Nat
      BY <1>1, <1>2 DEF Deadline, IssuingDeadline, ExpiresAt, RowSound, RowTyped, Begun
<1>5. InTime(Deadline(rw), n, t)
      BY <1>4, LedgerAssumption DEF InTime, Never
<1>6. Later(rw, n, t) /\ Begun(n)
      BY <1>1, <1>2, <1>5 DEF Later, Begun, RowSound, RowTyped
<1> QED BY <1>1, <1>2, <1>3, <1>6 DEF Follower

LEMMA ReadSound ==
    ASSUME NEW rw, IsRow(rw), NEW t \in Nat, NEW u \in Nat, u <= t, RowSound(rw, t),
           NEW cfg, NEW n \in ReadIssued(rw, cfg, u)
    PROVE  Follower(rw, n, t) /\ n.state \in {"issued", "expired"}
<1>1. rw.state = "issued" /\ n \in {rw, Moved(rw, "expired", u)}
      BY DEF ReadIssued
<1> QED BY <1>1, SameFollows, ExpiredState DEF Begun

LEMMA ClaimSound ==
    ASSUME NEW rw, IsRow(rw), NEW t \in Nat, NEW u \in Nat, u <= t, RowSound(rw, t),
           NEW cfg, NEW n \in ClaimOf(rw, cfg, u)
    PROVE  Follower(rw, n, t) /\ n.state \in {"claimed", "expired"} /\ n # rw
<1> DEFINE m == Moved(rw, "claimed", u)
<1>1. rw.state = "issued" /\ rw.at <= u
      /\ (n = Moved(rw, "expired", u) \/ (n = [m EXCEPT !.claimedAt = u] /\ u < ExpiresAt(rw)))
      BY DEF ClaimOf
<1>2. CASE n = [m EXCEPT !.claimedAt = u] /\ u < ExpiresAt(rw)
  <2>1. IsRow(m) /\ m.state = "claimed" /\ m.revision = rw.revision + 1 /\ m.at = u
        /\ m.reservedAt = rw.reservedAt /\ m.attempts = rw.attempts /\ m.next = rw.next
        BY MovedRow, MovedFields DEF Follows
  <2> HIDE DEF m
  <2>2. n.state = "claimed" /\ n.revision = rw.revision + 1 /\ n.at = u /\ n.claimedAt = u
        /\ n.reservedAt = rw.reservedAt /\ n.attempts = rw.attempts /\ n.next = rw.next
        BY <1>2, <2>1 DEF IsRow
  <2>3. RowTyped(n)
        BY <1>1, <2>2 DEF RowSound, RowTyped, States, Claimed, Terminal, Begun
  <2>4. rw.reservedAt \in Nat /\ rw.reservedAt <= u /\ rw.attempts = 0
    <3>1. rw.reservedAt \in Nat
          BY <1>1 DEF RowSound, RowTyped, Begun
    <3>2. rw.at \in Nat \cup {Never} /\ rw.reservedAt <= rw.at /\ rw.attempts = 0
          BY <1>1 DEF RowSound, RowTyped, RowLoads, Terminal
    <3> QED BY <1>1, <3>1, <3>2 DEF Never
  <2>5. RowLoads(n)
    <3>1. n.reservedAt <= n.claimedAt /\ n.claimedAt < ExpiresAt(n)
          BY <1>2, <2>2, <2>4 DEF ExpiresAt
    <3> QED BY <2>2, <2>4, <3>1 DEF RowLoads, Claimed, Terminal
  <2>6. Deadline(n) = u + ClaimWindow /\ Deadline(rw) = rw.reservedAt + AuthorizationLife
        BY <1>1, <2>2 DEF Deadline, ClaimDeadline, ExpiresAt
  <2>7. InTime(Deadline(rw), n, t)
    <3>1. u \in Nat /\ rw.reservedAt \in Nat /\ rw.reservedAt <= u
          BY <2>4
    <3>2. rw.reservedAt + AuthorizationLife <= u + ClaimWindow
          BY <3>1, Durations
    <3>3. rw.reservedAt + AuthorizationLife # Never
          BY <3>1, Durations DEF Never
    <3> QED BY <2>6, <3>2, <3>3 DEF InTime
  <2>8. Later(rw, n, t) /\ Begun(n) /\ n # rw
        BY <1>1, <2>2, <2>7 DEF Later, Begun, RowSound, RowTyped
  <2> QED BY <2>2, <2>3, <2>5, <2>8 DEF Follower, RowSound
<1>3. CASE n = Moved(rw, "expired", u)
      BY <1>1, <1>3, ExpiredState
<1> QED BY <1>1, <1>2, <1>3

LEMMA CompletedSound ==
    ASSUME NEW rw, IsRow(rw), NEW t \in Nat, NEW u \in Nat, u <= t, RowSound(rw, t),
           NEW n \in Completed(rw, u)
    PROVE  Follower(rw, n, t) /\ (n.state = "completed" \/ n = rw)
           /\ Deadline(n) = Never
<1>1. CASE rw.state = "claimed" /\ rw.at <= u /\ n = Moved(rw, "completed", u)
  <2>1. n.state = "completed" /\ n.revision = rw.revision + 1 /\ n.at = u
        /\ n.reservedAt = rw.reservedAt /\ n.claimedAt = rw.claimedAt
        /\ n.attempts = rw.attempts /\ n.next = rw.next
        BY <1>1, MovedFields
  <2>2. RowTyped(n)
        BY <1>1, <2>1 DEF RowSound, RowTyped, States, Claimed, Terminal, Begun
  <2>3. RowLoads(n)
        BY <1>1, <2>1 DEF RowSound, RowLoads, Claimed, Terminal, ExpiresAt
  <2>4. Deadline(n) = Never
        BY <2>1 DEF Deadline
  <2>5. Later(rw, n, t) /\ Begun(n)
        BY <1>1, <2>1, <2>4 DEF Later, Begun, InTime, RowSound, RowTyped
  <2> QED BY <2>1, <2>2, <2>3, <2>4, <2>5 DEF Follower, RowSound
<1>2. CASE rw.state \in Terminal /\ n = rw
  <2>1. Deadline(rw) = Never
        BY <1>2 DEF Deadline, Terminal
  <2> QED BY <1>2, <2>1, SameFollows DEF Begun, Terminal
<1> QED BY <1>1, <1>2 DEF Completed

LEMMA OverdueSound ==
    ASSUME NEW rw, IsRow(rw), NEW t \in Nat, NEW u \in Nat, u <= t, RowSound(rw, t),
           NEW n \in Overdue(rw, u)
    PROVE  Follower(rw, n, t) /\ n.state = "required" /\ n # rw
<1> DEFINE m == Moved(rw, "required", u)
<1>1. rw.state = "claimed" /\ rw.at <= u /\ u >= ClaimDeadline(rw) /\ n = [m EXCEPT !.next = u]
      BY DEF Overdue
<1>2. IsRow(m) /\ m.state = "required" /\ m.revision = rw.revision + 1 /\ m.at = u
      /\ m.reservedAt = rw.reservedAt /\ m.claimedAt = rw.claimedAt /\ m.attempts = rw.attempts
      BY MovedRow, MovedFields DEF Follows
<1> HIDE DEF m
<1>3. n.state = "required" /\ n.revision = rw.revision + 1 /\ n.at = u /\ n.next = u
      /\ n.reservedAt = rw.reservedAt /\ n.claimedAt = rw.claimedAt /\ n.attempts = rw.attempts
      BY <1>1, <1>2 DEF IsRow
<1>4. RowTyped(n)
      BY <1>1, <1>3 DEF RowSound, RowTyped, States, Claimed, Terminal, Begun
<1>5. rw.attempts = 0 /\ Len(RetryDelays) \in Nat
      BY <1>1, LedgerAssumption DEF RowSound, RowLoads, Terminal
<1>6. RowLoads(n)
      BY <1>1, <1>3, <1>5 DEF RowSound, RowLoads, Claimed, Terminal, ExpiresAt, ClaimDeadline, Never
<1>7. Deadline(n) = u /\ Deadline(rw) = ClaimDeadline(rw) /\ Deadline(rw) \in Nat
  <2>1. rw.claimedAt \in Nat
        BY <1>1 DEF RowSound, RowTyped, Claimed
  <2>2. u \in Nat /\ Deadline(n) = u /\ Deadline(rw) = ClaimDeadline(rw)
        BY <1>1, <1>3 DEF Deadline
  <2> QED BY <2>1, <2>2, Durations DEF ClaimDeadline
<1>8. InTime(Deadline(rw), n, t)
      BY <1>1, <1>7 DEF InTime, Never
<1>9. Begun(n) /\ n # rw /\ n.at = u
      BY <1>1, <1>3 DEF Begun
<1>10. rw.revision \in Int /\ n.state # "none"
      BY <1>3 DEF RowSound, RowTyped
<1>11. Later(rw, n, t)
      BY <1>3, <1>8, <1>9, <1>10 DEF Later
<1> QED BY <1>3, <1>4, <1>6, <1>9, <1>11 DEF Follower, RowSound

LEMMA ExpiredSound ==
    ASSUME NEW rw, IsRow(rw), NEW t \in Nat, RowSound(rw, t), NEW n \in Expired(rw, t)
    PROVE  Follower(rw, n, t) /\ n.state = "expired" /\ n # rw
<1>1. rw.state \in {"issuing", "issued"} /\ n = Moved(rw, "expired", t)
      BY DEF Expired
<1> QED BY <1>1, ExpiredState

LEMMA PostponedSound ==
    ASSUME NEW rw, IsRow(rw), NEW t \in Nat, NEW u \in Nat, u <= t, RowSound(rw, t),
           rw.state = "required", rw.at <= u, rw.next # Never, u >= rw.next
    PROVE  LET n == Postponed(rw, u)
           IN  Follower(rw, n, t) /\ n.state = "required" /\ n # rw
<1> DEFINE m == Moved(rw, "required", u)
           v == IF rw.attempts < Len(RetryDelays) THEN u + RetryDelays[rw.attempts + 1] ELSE Never
           n == [m EXCEPT !.attempts = rw.attempts + 1, !.next = v]
<1>1. IsRow(m) /\ m.state = "required" /\ m.revision = rw.revision + 1 /\ m.at = u
      /\ m.reservedAt = rw.reservedAt /\ m.claimedAt = rw.claimedAt /\ m.attempts = rw.attempts
      BY MovedRow, MovedFields DEF Follows
<1>2. Postponed(rw, u) = n
      BY <1>1 DEF Postponed
<1>3. rw.attempts \in Nat /\ rw.attempts <= Len(RetryDelays) /\ Len(RetryDelays) \in Nat
  <2>1. Len(RetryDelays) \in Nat
        BY Delays
  <2> QED BY <2>1 DEF RowSound, RowTyped, RowLoads
<1>4. v \in Nat \cup {Never} /\ (v = Never <=> rw.attempts = Len(RetryDelays))
  <2>1. CASE rw.attempts < Len(RetryDelays)
    <3>1. rw.attempts + 1 \in 1..Len(RetryDelays)
          BY <1>3, <2>1
    <3>2. RetryDelays[rw.attempts + 1] \in Nat
          BY <3>1, Delays
    <3> QED BY <1>3, <2>1, <3>2 DEF Never
  <2>2. CASE ~(rw.attempts < Len(RetryDelays))
        BY <1>3, <2>2
  <2> QED BY <2>1, <2>2
<1> HIDE DEF m, v
<1>5. n.state = "required" /\ n.revision = rw.revision + 1 /\ n.at = u /\ n.next = v
      /\ n.reservedAt = rw.reservedAt /\ n.claimedAt = rw.claimedAt /\ n.attempts = rw.attempts + 1
      BY <1>1 DEF IsRow
<1> HIDE DEF n
<1>6. RowTyped(n)
  <2>1. rw.revision \in Int /\ rw.reservedAt \in Nat /\ rw.claimedAt \in Nat
        BY DEF RowSound, RowTyped, Claimed, Begun
  <2>2. n.revision \in Int /\ n.attempts \in Nat
        BY <1>3, <1>5, <2>1
  <2> QED BY <1>4, <1>5, <2>1, <2>2 DEF RowTyped, States, Claimed, Begun
<1>7. RowLoads(n)
  <2>1. rw.reservedAt <= rw.claimedAt /\ rw.claimedAt < ExpiresAt(rw) /\ rw.at >= ClaimDeadline(rw)
        BY DEF RowSound, RowLoads, Claimed
  <2>2. ClaimDeadline(rw) \in Int
        BY Durations DEF RowSound, RowTyped, Claimed, ClaimDeadline
  <2>3. rw.at \in Int
        BY DEF RowSound, RowTyped, Never
  <2>4. n.at >= ClaimDeadline(n)
        BY <1>5, <2>1, <2>2, <2>3 DEF ClaimDeadline
  <2>5. n.attempts <= Len(RetryDelays) + 1 /\ (n.attempts = Len(RetryDelays) + 1 <=> n.next = Never)
        BY <1>3, <1>4, <1>5
  <2> QED BY <1>5, <2>1, <2>4, <2>5 DEF RowLoads, Claimed, Terminal, ExpiresAt
<1>8. Deadline(rw) = rw.next /\ rw.next \in Nat
      BY DEF Deadline, RowSound, RowTyped
<1>9. InTime(Deadline(rw), n, t)
      BY <1>8 DEF InTime
<1>10. Later(rw, n, t) /\ Begun(n) /\ n # rw
      BY <1>5, <1>9 DEF Later, Begun, RowSound, RowTyped
<1> QED BY <1>2, <1>5, <1>6, <1>7, <1>10 DEF Follower, RowSound

LEMMA ConcludedSound ==
    ASSUME NEW rw, IsRow(rw), NEW t \in Nat, NEW u \in Nat, u <= t, RowSound(rw, t),
           rw.state = "required", rw.at <= u, NEW proof \in Terminal
    PROVE  LET n == [Moved(rw, proof, u) EXCEPT !.next = Never]
           IN  Follower(rw, n, t) /\ n.state = proof /\ n # rw
<1> DEFINE m == Moved(rw, proof, u)
           n == [m EXCEPT !.next = Never]
<1>1. IsRow(m) /\ m.state = proof /\ m.revision = rw.revision + 1 /\ m.at = u
      /\ m.reservedAt = rw.reservedAt /\ m.claimedAt = rw.claimedAt /\ m.attempts = rw.attempts
      BY MovedRow, MovedFields DEF Follows
<1> HIDE DEF m
<1>2. n.state = proof /\ n.revision = rw.revision + 1 /\ n.at = u /\ n.next = Never
      /\ n.reservedAt = rw.reservedAt /\ n.claimedAt = rw.claimedAt /\ n.attempts = rw.attempts
      BY <1>1 DEF IsRow
<1> HIDE DEF n
<1>3. RowTyped(n)
      BY <1>2 DEF RowSound, RowTyped, States, Claimed, Terminal, Begun
<1>4. rw.reservedAt <= rw.claimedAt /\ rw.claimedAt < ExpiresAt(rw) /\ rw.claimedAt <= u
  <2>1. rw.reservedAt <= rw.claimedAt /\ rw.claimedAt < ExpiresAt(rw) /\ rw.at >= ClaimDeadline(rw)
        BY DEF RowSound, RowLoads, Claimed
  <2>2. rw.claimedAt \in Nat /\ rw.at \in Int
        BY DEF RowSound, RowTyped, Claimed, Never
  <2> QED BY <2>1, <2>2, LedgerAssumption DEF ClaimDeadline
<1>5. RowLoads(n)
      BY <1>2, <1>4 DEF RowLoads, Claimed, Terminal, ExpiresAt
<1>6. Deadline(n) = Never
      BY <1>2 DEF Deadline, Terminal
<1>7. Later(rw, n, t) /\ Begun(n) /\ n # rw
      BY <1>2, <1>6 DEF Later, Begun, InTime, RowSound, RowTyped, Terminal
<1> QED BY <1>2, <1>3, <1>5, <1>7 DEF Follower, RowSound, n, m

LEMMA ReconciledSound ==
    ASSUME NEW rw, IsRow(rw), NEW t \in Nat, NEW u \in Nat, u <= t, RowSound(rw, t),
           NEW proof \in Terminal \cup {"ambiguous"}, NEW proven \in BOOLEAN,
           NEW n \in Reconciled(rw, u, proof, proven)
    PROVE  /\ Follower(rw, n, t)
           /\ n # rw => n.state \in {"required", proof}
           /\ n = rw => n.state \in Terminal
           /\ proven => n.state \in Terminal
<1>1. ~(proven /\ proof = "ambiguous") /\ ~(rw.at > u)
      BY DEF Reconciled
<1>2. rw.at \in Int
      BY DEF RowSound, RowTyped, Never
<1>3. rw.at <= u
      BY <1>1, <1>2
<1>4. CASE rw.state \in Terminal
  <2>1. n = rw
        BY <1>1, <1>4 DEF Reconciled, Terminal
  <2>2. Begun(rw)
        BY <1>4 DEF Begun, Terminal
  <2>3. Follower(rw, rw, t)
        BY <2>2, SameFollows
  <2>4. Follower(rw, n, t) /\ n.state \in Terminal
        BY <1>4, <2>1, <2>3
  <2> QED BY <1>4, <2>1, <2>4
<1>5. CASE rw.state \notin Terminal
  <2>1. rw.state = "required" /\ (proven \/ (rw.next # Never /\ u >= rw.next)) /\ n = Settled(rw, u, proof)
        BY <1>1, <1>5 DEF Reconciled
  <2>2. CASE proof = "ambiguous"
    <3>1. n = Postponed(rw, u) /\ rw.next # Never /\ u >= rw.next /\ ~proven
          BY <1>1, <2>1, <2>2 DEF Settled
    <3>2. Follower(rw, n, t) /\ n.state = "required" /\ n # rw
          BY <1>3, <2>1, <3>1, PostponedSound
    <3> QED BY <3>1, <3>2
  <2>3. CASE proof \in Terminal
    <3>1. n = [Moved(rw, proof, u) EXCEPT !.next = Never]
          BY <2>1, <2>3 DEF Settled, Terminal
    <3>2. Follower(rw, n, t) /\ n.state = proof /\ n # rw
          BY <1>3, <2>1, <2>3, <3>1, ConcludedSound
    <3> QED BY <2>3, <3>2
  <2> QED BY <2>2, <2>3
<1> QED BY <1>4, <1>5

-----------------------------------------------------------------------------
(* What a call or an alarm handler knows, and the invariant.                  *)

Stages == {"waiting", "authorized", "cleared", "deploying", "deployed", "ended"}

(* Evidence, or a recorded outcome, that is true of the job. *)
Shown(proof, stage) ==
    /\ proof = "completed" => stage = "deployed"
    /\ proof = "not-deployed" => stage = "ended"

Final(s, u) == s \in {"deployed", "ended"} => u = s

(* The configuration of a call that reserves has been granted its epoch. *)
Granted(x, a) == x.config.enabled /\ a[x.config.epoch] = x.request

Reserving == {"authorize-reserve", "reserve"}

AlarmSteps == {"ring", "look", "settle"}

Past ==
    {"authorize-finalize", "finalize", "read-issued", "authorize-read", "read-retained", "authorize-claim",
     "claim", "complete", "reconcile"} \cup AlarmSteps

(* How far a row is, stored or seen, for a call at that step. *)
Phase(x, rw, a) ==
    /\ x.at \in {"status", "install"} \cup Reserving => Granted(x, a)
    /\ x.at \in Reserving => rw.state # "none" /\ (~x.fresh => Begun(rw))
    /\ x.at \in Past => Begun(rw)

HandlerSound(x, a, rw, stage, t) ==
    /\ x.time \in Nat /\ x.time <= t
    /\ x.at = "status" => ~Plain(x.seen)
    /\ x.at = "install" => x.fresh
    /\ Phase(x, rw, a)
    /\ x.seen.state # "unread" =>
         RowSound(x.seen, t) /\ Later(x.seen, rw, t) /\ Phase(x, x.seen, a)
    /\ x.at = "complete" => x.proof = "completed"
    /\ x.at = "reconcile" => x.proof \in Terminal
    /\ x.at = "settle" => x.proof \in Terminal \cup {"ambiguous"}
    /\ x.at \in {"complete", "reconcile", "settle"} => Shown(x.proof, stage)

(* An alarm is set for a reserved row only, and never too late for it; only   *)
(* while the alarm's handler runs there may be none.                          *)
AlarmSound(v, rw, idle, t) ==
    /\ v \in Nat \cup {Never}
    /\ v # Never => Begun(rw)
    /\ v # Never \/ idle => InTime(v, rw, t)

JobSound(j, rw) ==
    /\ j.stage \in Stages
    /\ j.stage = "authorized" => Begun(rw)
    /\ Shown(rw.state, j.stage)

(* No request is armed for two epochs. *)
ControlSound(ctl, a) ==
    /\ ctl.epoch \in 0..MaxEpoch /\ ctl.maxConsumed \in 0..MaxEpoch
    /\ ctl.active \in Request \cup {None} /\ ctl.used \subseteq Request
    /\ \A e \in Epoch : a[e] \in Request => a[e] \in ctl.used
    /\ \A e, f \in Epoch : a[e] \in Request /\ a[e] = a[f] => e = f

IsJob(j) == j = [stage |-> j.stage, receipt |-> j.receipt]

RequestSound(r) ==
    /\ RowSound(row[r], now)
    /\ AlarmSound(alarm[r], row[r], handler[r].at = "idle", now)
    /\ IsJob(job[r]) /\ JobSound(job[r], row[r])

BusySound(h) ==
    LET x == handler[h] IN
    x.at # "idle" =>
      /\ HandlerSound(x, armed, row[x.request], job[x.request].stage, now)
      /\ h \in Request => x.request = h /\ x.at \in AlarmSteps

SoundInv ==
    /\ now \in 0..MaxTime
    /\ ControlSound(control, armed)
    /\ alarm = [r \in Request |-> alarm[r]]
    /\ job = [r \in Request |-> job[r]]
    /\ \A r \in Request : RequestSound(r)
    /\ \A h \in Call \cup Request : BusySound(h)

-----------------------------------------------------------------------------
(* What others leave of a request and of a call. *)

LEMMA SoundTime == ASSUME SoundInv PROVE now \in Nat /\ now <= MaxTime
BY LedgerAssumption DEF SoundInv

LEMMA PhaseStays ==
    ASSUME NEW x, NEW rw, NEW n, NEW a, NEW b, NEW t, Phase(x, rw, a), Grows(a, b),
           Later(rw, n, t), x.request \in Request, ConfigOK(x.config)
    PROVE  Phase(x, n, b)
<1>1. Granted(x, a) => Granted(x, b)
      BY DEF Granted, Grows, ConfigOK
<1>2. (rw.state # "none" => n.state # "none") /\ (Begun(rw) => Begun(n))
      BY DEF Later
<1> QED BY <1>1, <1>2 DEF Phase

LEMMA HandlerSoundStays ==
    ASSUME NEW x, NEW rw, NEW n, NEW a, NEW b, NEW s, NEW s2, NEW t \in Nat, NEW u \in Nat, t <= u,
           HandlerSound(x, a, rw, s, t), RowSound(rw, t), RowSound(n, u), Later(rw, n, u),
           Grows(a, b), Final(s, s2), x.request \in Request, ConfigOK(x.config)
    PROVE  HandlerSound(x, b, n, s2, u)
<1>1. x.time \in Nat /\ x.time <= u
      BY DEF HandlerSound
<1>2. Phase(x, n, b)
      BY PhaseStays DEF HandlerSound
<1>3. ASSUME x.seen.state # "unread"
      PROVE  RowSound(x.seen, u) /\ Later(x.seen, n, u) /\ Phase(x, x.seen, b)
  <2>1. RowSound(x.seen, t) /\ Later(x.seen, rw, t) /\ Phase(x, x.seen, a)
        BY <1>3 DEF HandlerSound
  <2>2. RowTyped(x.seen) /\ RowTyped(rw) /\ RowTyped(n)
        BY <2>1 DEF RowSound
  <2>3. RowSound(x.seen, u)
        BY <2>1, SoundLonger
  <2>4. Later(x.seen, rw, u)
        BY <2>1, <2>2, LaterInTime
  <2>5. Later(x.seen, n, u)
        BY <2>2, <2>4, LaterThanLater
  <2>6. Later(x.seen, x.seen, u)
        BY <2>2, LaterSelf
  <2>7. Phase(x, x.seen, b)
        BY <2>1, <2>6, PhaseStays
  <2> QED BY <2>3, <2>5, <2>7
<1>4. x.at \in {"complete", "reconcile", "settle"} => Shown(x.proof, s2)
      BY DEF HandlerSound, Shown, Final
<1> QED BY <1>1, <1>2, <1>3, <1>4 DEF HandlerSound

LEMMA InTimeThan ==
    ASSUME NEW v \in Nat \cup {Never}, NEW b, NEW c, NEW t \in Nat, RowTyped(b), RowTyped(c),
           InTime(v, b, t), InTime(Deadline(b), c, t)
    PROVE  InTime(v, c, t)
<1> DEFINE db == Deadline(b)
           dc == Deadline(c)
<1>1. db \in Nat \cup {Never} /\ dc \in Nat \cup {Never}
      BY DeadlineType
<1>2. /\ db # Never => v # Never /\ (v <= db \/ v <= t)
      /\ dc # Never => db # Never /\ (db <= dc \/ db <= t)
      BY DEF InTime
<1> HIDE DEF db, dc
<1>3. dc # Never => v # Never /\ (v <= dc \/ v <= t)
      BY <1>1, <1>2 DEF Never
<1> QED BY <1>3 DEF InTime, dc

LEMMA AlarmStays ==
    ASSUME NEW v, NEW rw, NEW m, NEW t \in Nat, NEW i, NEW j, AlarmSound(v, rw, i, t),
           RowTyped(rw), RowTyped(m), Later(rw, m, t), Begun(rw) \/ m = rw, j => i
    PROVE  AlarmSound(v, m, j, t)
<1>1. CASE m = rw
      BY <1>1 DEF AlarmSound
<1>2. CASE Begun(rw)
  <2>1. Begun(m) /\ InTime(Deadline(rw), m, t) /\ v \in Nat \cup {Never}
        BY <1>2 DEF Later, AlarmSound
  <2>2. ASSUME v # Never \/ j
        PROVE  InTime(v, m, t)
    <3>1. InTime(v, rw, t)
          BY <2>2 DEF AlarmSound
    <3> QED BY <2>1, <3>1, InTimeThan
  <2> QED BY <2>1, <2>2 DEF AlarmSound
<1> QED BY <1>1, <1>2

(* The time of an alarm that is early enough, whoever set it. *)
Fit(v, m, t) ==
    /\ v \in Nat \cup {Never}
    /\ v # Never => Begun(m)
    /\ InTime(v, m, t)

LEMMA FitAlarm ==
    ASSUME NEW v, NEW m, NEW t, NEW i, Fit(v, m, t)
    PROVE  AlarmSound(v, m, i, t)
BY DEF Fit, AlarmSound

(* The alarm of a row that the stored one follows. *)
LEMMA RepairFits ==
    ASSUME NEW w, NEW m, NEW t, RowTyped(w), Begun(w), Later(w, m, t)
    PROVE  Fit(Deadline(w), m, t)
BY DeadlineType DEF Fit, Later

LEMMA RepairFitsSelf ==
    ASSUME NEW w, NEW t, RowTyped(w)
    PROVE  Fit(Deadline(w), w, t)
BY DeadlineType DEF Fit, InTime, Never

-----------------------------------------------------------------------------
(* A step: one request and one handler move, everything else stays.           *)

Moves(r) ==
    /\ row' = [row EXCEPT ![r] = row'[r]]
    /\ alarm' = [alarm EXCEPT ![r] = alarm'[r]]
    /\ job' = [job EXCEPT ![r] = job'[r]]
    /\ RowSound(row'[r], now) /\ Later(row[r], row'[r], now)
    /\ AlarmSound(alarm'[r], row'[r], handler'[r].at = "idle", now)
    /\ IsJob(job'[r]) /\ JobSound(job'[r], row'[r]) /\ Final(job[r].stage, job'[r].stage)

HandMoves(h, r) ==
    LET x == handler'[h] IN
    /\ h \in Request => h = r
    /\ Becomes(h, x)
    /\ x.at # "idle" =>
         /\ x.request = r
         /\ HandlerSound(x, armed', row'[r], job'[r].stage, now)
         /\ h \in Request => x.at \in AlarmSteps

LEMMA OthersStay ==
    ASSUME LedgerInv, SoundInv, now' \in Nat, now <= now', Grows(armed, armed'),
           \A r \in Request : /\ RowSound(row'[r], now') /\ Later(row[r], row'[r], now')
                              /\ Final(job[r].stage, job'[r].stage),
           NEW h \in Call \cup Request, handler'[h] = handler[h]
    PROVE  BusySound(h)'
<1> DEFINE x == handler[h]
           r == x.request
<1> SUFFICES ASSUME x.at # "idle"
             PROVE  /\ HandlerSound(x, armed', row'[r], job'[r].stage, now')
                    /\ h \in Request => r = h /\ x.at \in AlarmSteps
      BY DEF BusySound
<1>1. /\ HandlerSound(x, armed, row[r], job[r].stage, now)
      /\ h \in Request => r = h /\ x.at \in AlarmSteps
      BY DEF SoundInv, BusySound
<1>2. r \in Request /\ ConfigOK(x.config)
      BY BusyRequest DEF Busy, RequestOf, HandlerOK
<1>3. RowSound(row[r], now) /\ now \in Nat
      BY <1>2, SoundTime DEF SoundInv, RequestSound
<1>4. RowSound(row'[r], now') /\ Later(row[r], row'[r], now') /\ Final(job[r].stage, job'[r].stage)
      BY <1>2
<1> HIDE DEF x, r
<1>5. HandlerSound(x, armed', row'[r], job'[r].stage, now')
      BY <1>1, <1>2, <1>3, <1>4, HandlerSoundStays DEF r
<1> QED BY <1>1, <1>5

LEMMA StepSound ==
    ASSUME LedgerInv, SoundInv, now' = now, ControlSound(control', armed'), Grows(armed, armed'),
           NEW r \in Request, Moves(r), NEW h \in Call \cup Request, HandMoves(h, r)
    PROVE  SoundInv'
<1>1. now \in Nat
      BY SoundTime
<1>2. ASSUME NEW q \in Request, q # r
      PROVE  row'[q] = row[q] /\ alarm'[q] = alarm[q] /\ job'[q] = job[q] /\ handler'[q] = handler[q]
  <2>1. row'[q] = row[q] /\ alarm'[q] = alarm[q] /\ job'[q] = job[q]
        BY <1>2 DEF Moves, LedgerInv, SoundInv
  <2>2. handler'[q] = handler[q]
        BY <1>2 DEF HandMoves, Becomes
  <2> QED BY <2>1, <2>2
<1>3. ASSUME NEW q \in Request
      PROVE  /\ RowSound(row'[q], now') /\ Later(row[q], row'[q], now')
             /\ Final(job[q].stage, job'[q].stage) /\ RequestSound(q)'
  <2>1. CASE q = r
        BY <2>1 DEF Moves, RequestSound
  <2>2. CASE q # r
    <3>1. RequestSound(q)
          BY DEF SoundInv
    <3>2. RequestSound(q)'
          BY <1>2, <2>2, <3>1 DEF RequestSound
    <3>3. RowTyped(row[q])
          BY <3>1 DEF RequestSound, RowSound
    <3>4. Later(row[q], row'[q], now')
          BY <1>2, <2>2, <3>3, LaterSelf
    <3>5. Final(job[q].stage, job'[q].stage)
          BY <1>2, <2>2 DEF Final
    <3> QED BY <3>2, <3>4, <3>5 DEF RequestSound
  <2> QED BY <2>1, <2>2
<1>4. ASSUME NEW g \in Call \cup Request
      PROVE  BusySound(g)'
  <2>1. CASE g = h
        BY <2>1 DEF BusySound, HandMoves
  <2>2. CASE g # h
    <3>1. handler'[g] = handler[g]
          BY <2>2 DEF HandMoves, Becomes
    <3> QED BY <1>1, <1>3, <3>1, OthersStay
  <2> QED BY <2>1, <2>2
<1>5. alarm' = [q \in Request |-> alarm'[q]] /\ job' = [q \in Request |-> job'[q]]
      BY DEF Moves, SoundInv
<1> QED BY <1>3, <1>4, <1>5 DEF SoundInv

RowMoves(r, m) ==
    /\ row' = [row EXCEPT ![r] = m]
    /\ RowSound(m, now) /\ Later(row[r], m, now)
    /\ Shown(m.state, job[r].stage)

AlarmMoves(r, m) ==
    \/ \E v : Fit(v, m, now) /\ alarm' = [alarm EXCEPT ![r] = v]
    \/ /\ UNCHANGED alarm
       /\ Begun(row[r]) \/ m = row[r]
       /\ handler'[r].at = "idle" => handler[r].at = "idle"

JobMoves(r, m) ==
    \/ UNCHANGED job
    \/ Begun(m) /\ (DeliverAuthorization(r) \/ DeliverReceipt(r))

LEMMA JobMovesSound ==
    ASSUME SoundInv, NEW r \in Request, NEW m, RowMoves(r, m), JobMoves(r, m)
    PROVE  /\ job' = [job EXCEPT ![r] = job'[r]]
           /\ IsJob(job'[r]) /\ JobSound(job'[r], m) /\ Final(job[r].stage, job'[r].stage)
<1>1. job = [q \in Request |-> job[q]] /\ IsJob(job[r]) /\ JobSound(job[r], row[r])
      BY DEF SoundInv, RequestSound
<1>2. Shown(m.state, job[r].stage) /\ (Begun(row[r]) => Begun(m))
      BY DEF RowMoves, Later
<1>3. CASE UNCHANGED job
      BY <1>1, <1>2, <1>3 DEF JobSound, Final
<1>4. CASE job[r].stage = "waiting" /\ job' = [job EXCEPT ![r].stage = "authorized"] /\ Begun(m)
  <2>1. job'[r] = [job[r] EXCEPT !.stage = "authorized"] /\ job' = [job EXCEPT ![r] = job'[r]]
        BY <1>1, <1>4
  <2>2. IsJob(job'[r]) /\ job'[r].stage = "authorized"
        BY <1>1, <2>1 DEF IsJob
  <2>3. Shown(m.state, "authorized")
        BY <1>2, <1>4 DEF Shown
  <2> QED BY <1>4, <2>1, <2>2, <2>3 DEF JobSound, Final, Stages
<1>5. CASE /\ job[r].stage = "authorized"
           /\ job' = [job EXCEPT ![r] = [stage |-> "cleared", receipt |-> TRUE]]
  <2>1. job'[r] = [stage |-> "cleared", receipt |-> TRUE] /\ job' = [job EXCEPT ![r] = job'[r]]
        BY <1>1, <1>5
  <2>2. IsJob(job'[r]) /\ job'[r].stage = "cleared"
        BY <2>1 DEF IsJob
  <2>3. Shown(m.state, "cleared")
        BY <1>2, <1>5 DEF Shown
  <2> QED BY <1>5, <2>1, <2>2, <2>3 DEF JobSound, Final, Stages
<1> QED BY <1>3, <1>4, <1>5 DEF JobMoves, DeliverAuthorization, DeliverReceipt

LEMMA MovesBy ==
    ASSUME LedgerInv, SoundInv, NEW r \in Request, NEW m,
           RowMoves(r, m), AlarmMoves(r, m), JobMoves(r, m)
    PROVE  Moves(r) /\ row'[r] = m
<1>1. row'[r] = m /\ row' = [row EXCEPT ![r] = row'[r]]
      BY DEF RowMoves, LedgerInv
<1>2. RequestSound(r) /\ now \in Nat
      BY SoundTime DEF SoundInv
<1>3. alarm' = [alarm EXCEPT ![r] = alarm'[r]] /\ AlarmSound(alarm'[r], m, handler'[r].at = "idle", now)
  <2>1. alarm = [q \in Request |-> alarm[q]]
        BY DEF SoundInv
  <2>2. CASE \E v : Fit(v, m, now) /\ alarm' = [alarm EXCEPT ![r] = v]
    <3>1. PICK v : Fit(v, m, now) /\ alarm' = [alarm EXCEPT ![r] = v]
          BY <2>2
    <3>2. alarm'[r] = v
          BY <2>1, <3>1
    <3> QED BY <3>1, <3>2, FitAlarm
  <2>3. CASE /\ UNCHANGED alarm
             /\ Begun(row[r]) \/ m = row[r]
             /\ handler'[r].at = "idle" => handler[r].at = "idle"
    <3>1. AlarmSound(alarm[r], row[r], handler[r].at = "idle", now) /\ RowTyped(row[r]) /\ RowTyped(m)
          BY <1>2 DEF RequestSound, RowSound, RowMoves
    <3>2. Later(row[r], m, now)
          BY DEF RowMoves
    <3>3. AlarmSound(alarm[r], m, handler'[r].at = "idle", now)
          BY <1>2, <2>3, <3>1, <3>2, AlarmStays
    <3> QED BY <2>1, <2>3, <3>3
  <2> QED BY <2>2, <2>3 DEF AlarmMoves
<1>4. /\ job' = [job EXCEPT ![r] = job'[r]]
      /\ IsJob(job'[r]) /\ JobSound(job'[r], m) /\ Final(job[r].stage, job'[r].stage)
      BY JobMovesSound
<1> QED BY <1>1, <1>3, <1>4 DEF Moves, RowMoves

LEMMA RowKeeps ==
    ASSUME LedgerInv, SoundInv, NEW r \in Request, UNCHANGED row
    PROVE  RowMoves(r, row[r]) /\ RowTyped(row[r])
<1>1. RequestSound(r) /\ row = [q \in Request |-> row[q]]
      BY DEF SoundInv, LedgerInv
<1>2. RowTyped(row[r]) /\ Later(row[r], row[r], now)
      BY <1>1, LaterSelf DEF RequestSound, RowSound
<1> QED BY <1>1, <1>2 DEF RowMoves, RequestSound, JobSound

(* What a busy handler, and the row it has read, are. *)
LEMMA BusyFacts ==
    ASSUME LedgerInv, SoundInv, NEW h \in Call \cup Request, Busy(h)
    PROVE  /\ RequestOf(h) \in Request
           /\ HandlerOK(handler[h], armed, intents)
           /\ HandlerSound(handler[h], armed, row[RequestOf(h)], job[RequestOf(h)].stage, now)
           /\ RequestSound(RequestOf(h))
           /\ h \in Request => RequestOf(h) = h /\ handler[h].at \in AlarmSteps
<1>1. RequestOf(h) \in Request /\ HandlerOK(handler[h], armed, intents)
      BY BusyRequest
<1>2. BusySound(h) /\ RequestSound(RequestOf(h))
      BY <1>1 DEF SoundInv
<1> QED BY <1>1, <1>2 DEF BusySound, Busy, RequestOf

LEMMA SeenFacts ==
    ASSUME LedgerInv, SoundInv, NEW h \in Call \cup Request, Busy(h), Loaded(h)
    PROVE  /\ IsRow(Seen(h)) /\ RowSound(Seen(h), now) /\ RowTyped(Seen(h))
           /\ Later(Seen(h), row[RequestOf(h)], now)
           /\ Phase(handler[h], Seen(h), armed)
           /\ handler[h].at \in Past => Begun(Seen(h))
<1>1. IsRow(Seen(h))
      BY BusyRequest
<1>2. /\ RowSound(Seen(h), now) /\ Later(Seen(h), row[RequestOf(h)], now)
      /\ Phase(handler[h], Seen(h), armed)
      BY BusyFacts DEF HandlerSound, Loaded, Seen, CallOf
<1> QED BY <1>1, <1>2 DEF RowSound, Phase

(* The comparison of revisions: what is stored over is what was read. *)
LEMMA StoreMoves ==
    ASSUME LedgerInv, SoundInv, NEW h \in Call \cup Request, Busy(h), Loaded(h),
           NEW n, Store(h, n), Follower(Seen(h), n, now),
           n # Seen(h) => Shown(n.state, job[RequestOf(h)].stage)
    PROVE  LET r == RequestOf(h)
           IN  \E m : /\ RowMoves(r, m) /\ Later(n, m, now) /\ Later(Seen(h), m, now) /\ Begun(m)
                      /\ Begun(Seen(h)) => Begun(row[r])
                      /\ n # Seen(h) => m = n
<1> DEFINE r == RequestOf(h)
<1>1. r \in Request /\ RowSound(Seen(h), now) /\ RowTyped(Seen(h)) /\ Later(Seen(h), row[r], now)
      BY BusyFacts, SeenFacts
<1>2. RowSound(n, now) /\ RowTyped(n) /\ Later(Seen(h), n, now) /\ Begun(n)
      BY DEF Follower, RowSound
<1>3. CASE n = Seen(h) /\ UNCHANGED row
  <2>1. RowMoves(r, row[r])
        BY <1>1, <1>3, RowKeeps
  <2>2. Later(n, row[r], now) /\ Begun(row[r])
        BY <1>1, <1>2, <1>3 DEF Later
  <2> QED BY <1>1, <1>3, <2>1, <2>2
<1>4. CASE n # Seen(h) /\ Current(h) /\ row' = [row EXCEPT ![r] = n]
  <2>1. Seen(h) = row[r]
        BY <1>1, <1>4 DEF Current, Later, Seen
  <2>2. RowMoves(r, n)
        BY <1>2, <1>4, <2>1 DEF RowMoves
  <2>3. Later(n, n, now)
        BY <1>2, LaterSelf
  <2> QED BY <1>2, <1>4, <2>1, <2>2, <2>3
<1> QED BY <1>3, <1>4 DEF Store, Seen

-----------------------------------------------------------------------------
(* How a method ends, and what it does to the alarm.                          *)

LEMMA IdleMoves ==
    ASSUME LedgerInv, NEW h \in Call \cup Request, End(h), NEW r, h \in Request => h = r
    PROVE  HandMoves(h, r) /\ handler'[h] = Idle
<1>1. handler'[h] = Idle /\ Becomes(h, Idle)
      BY DEF End, Becomes, LedgerInv
<1>2. Idle.at = "idle"
      BY DEF Idle
<1> QED BY <1>1, <1>2 DEF HandMoves

(* A call is not an alarm handler. *)
LEMMA CallLeavesAlarms ==
    ASSUME NEW c \in Call, NEW x, Becomes(c, x), NEW r \in Request
    PROVE  handler'[r] = handler[r]
BY LedgerAssumption DEF Becomes

LEMMA SameControl ==
    ASSUME LedgerInv, SoundInv, UNCHANGED controlVars
    PROVE  ControlSound(control', armed') /\ Grows(armed, armed')
BY Same DEF SoundInv, controlVars

(* A method ends, or goes on, having moved the row to m. *)
LEMMA MethodSound ==
    ASSUME LedgerInv, SoundInv, now' = now, UNCHANGED controlVars,
           NEW h \in Call \cup Request, NEW r \in Request, NEW m,
           RowMoves(r, m), AlarmMoves(r, m), JobMoves(r, m), HandMoves(h, r)
    PROVE  SoundInv'
BY MovesBy, SameControl, StepSound

(* The request stays as it is. *)
LEMMA QuietSound ==
    ASSUME LedgerInv, SoundInv, now' = now, UNCHANGED requestVars,
           ControlSound(control', armed'), Grows(armed, armed'),
           NEW h \in Call \cup Request, NEW r \in Request, HandMoves(h, r),
           h \in Call \/ handler'[h].at # "idle"
    PROVE  SoundInv'
<1>1. RowMoves(r, row[r]) /\ UNCHANGED alarm /\ UNCHANGED job
      BY RowKeeps DEF requestVars
<1>2. handler'[r].at = "idle" => handler[r].at = "idle"
      BY CallLeavesAlarms DEF HandMoves
<1>3. AlarmMoves(r, row[r]) /\ JobMoves(r, row[r])
      BY <1>1, <1>2 DEF AlarmMoves, JobMoves
<1> QED BY <1>1, <1>3, MovesBy, StepSound

LEMMA RepairMoves ==
    ASSUME NEW r \in Request, NEW w, NEW m, Repair(r, w), RowTyped(w), Begun(w), Later(w, m, now)
    PROVE  AlarmMoves(r, m)
BY RepairFits DEF Repair, AlarmMoves

LEMMA RepairSelfMoves ==
    ASSUME NEW r \in Request, NEW w, Repair(r, w), RowTyped(w)
    PROVE  AlarmMoves(r, w)
BY RepairFitsSelf DEF Repair, AlarmMoves

LEMMA CallAlarmStays ==
    ASSUME NEW c \in Call, NEW x, Becomes(c, x), NEW r \in Request, UNCHANGED alarm,
           NEW m, Begun(row[r]) \/ m = row[r]
    PROVE  AlarmMoves(r, m)
BY CallLeavesAlarms DEF AlarmMoves

(* A refused event, tried on a row with a reservation. *)
LEMMA RefusedSound ==
    ASSUME LedgerInv, SoundInv, now' = now, UNCHANGED controlVars, UNCHANGED job,
           NEW c \in Call, Busy(c), Loaded(c), Begun(Seen(c)), Refuse(c)
    PROVE  SoundInv'
<1> DEFINE r == RequestOf(c)
<1>1. r \in Request /\ RowTyped(Seen(c)) /\ Later(Seen(c), row[r], now)
      BY BusyFacts, SeenFacts
<1>2. c \notin Request
      BY LedgerAssumption
<1>3. HandMoves(c, r) /\ Becomes(c, Idle) /\ UNCHANGED row
      BY <1>2, IdleMoves DEF Refuse, HandMoves
<1>4. RowMoves(r, row[r])
      BY <1>1, <1>3, RowKeeps
<1>5. AlarmMoves(r, row[r])
  <2>1. CASE Repair(r, Seen(c))
        BY <1>1, <2>1, RepairMoves
  <2>2. CASE UNCHANGED alarm
        BY <1>1, <1>3, <2>2, CallAlarmStays
  <2> QED BY <2>1, <2>2 DEF Refuse, Seen
<1> QED BY <1>1, <1>3, <1>4, <1>5, MethodSound DEF JobMoves

(* A write that lost its race. *)
LEMMA LostSound ==
    ASSUME LedgerInv, SoundInv, now' = now, UNCHANGED controlVars, UNCHANGED job,
           NEW h \in Call \cup Request, Busy(h), NEW after, LoseRace(h, after)
    PROVE  SoundInv'
<1> DEFINE r == RequestOf(h)
<1>1. r \in Request /\ (h \in Request => h = r)
      BY BusyFacts
<1>2. HandMoves(h, r) /\ UNCHANGED row /\ Repair(r, row[r])
      BY <1>1, IdleMoves DEF LoseRace
<1>3. RowMoves(r, row[r]) /\ RowTyped(row[r])
      BY <1>1, <1>2, RowKeeps
<1>4. AlarmMoves(r, row[r])
      BY <1>1, <1>2, <1>3, RepairSelfMoves
<1> QED BY <1>1, <1>2, <1>3, <1>4, MethodSound DEF JobMoves

(* A row is stored, its alarm repaired for it, or left by a call. *)
LEMMA StoredSound ==
    ASSUME LedgerInv, SoundInv, now' = now, UNCHANGED controlVars,
           NEW h \in Call \cup Request, Busy(h), Loaded(h),
           NEW n, Store(h, n), Follower(Seen(h), n, now),
           n # Seen(h) => Shown(n.state, job[RequestOf(h)].stage),
           \/ Repair(RequestOf(h), n)
           \/ Repair(RequestOf(h), Seen(h)) /\ Begun(Seen(h))
           \/ UNCHANGED alarm /\ h \in Call /\ Begun(Seen(h)),
           \/ UNCHANGED job
           \/ DeliverAuthorization(RequestOf(h))
           \/ DeliverReceipt(RequestOf(h)),
           End(h)
    PROVE  SoundInv'
<1> DEFINE r == RequestOf(h)
<1>1. r \in Request /\ (h \in Request => h = r) /\ RowTyped(Seen(h)) /\ RowTyped(n) /\ Begun(n)
      BY BusyFacts, SeenFacts DEF Follower, RowSound
<1>2. PICK m : /\ RowMoves(r, m) /\ Later(n, m, now) /\ Later(Seen(h), m, now) /\ Begun(m)
               /\ Begun(Seen(h)) => Begun(row[r])
      BY StoreMoves
<1>3. HandMoves(h, r) /\ Becomes(h, Idle)
      BY <1>1, IdleMoves DEF HandMoves
<1>4. AlarmMoves(r, m)
  <2>1. CASE Repair(r, n)
        BY <1>1, <1>2, <2>1, RepairMoves
  <2>2. CASE Repair(r, Seen(h)) /\ Begun(Seen(h))
        BY <1>1, <1>2, <2>2, RepairMoves
  <2>3. CASE UNCHANGED alarm /\ h \in Call /\ Begun(Seen(h))
        BY <1>1, <1>2, <1>3, <2>3, CallAlarmStays
  <2> QED BY <2>1, <2>2, <2>3
<1>5. JobMoves(r, m)
      BY <1>2 DEF JobMoves
<1> QED BY <1>1, <1>2, <1>3, <1>4, <1>5, MethodSound

LEMMA NotTerminalShown ==
    ASSUME NEW s, s \notin Terminal, NEW stage
    PROVE  Shown(s, stage)
BY DEF Shown, Terminal

LEMMA RetiredSound ==
    ASSUME LedgerInv, SoundInv, now' = now, UNCHANGED controlVars, UNCHANGED job,
           NEW c \in Call, Busy(c), Loaded(c), Begun(Seen(c)),
           NEW n, Retire(c, n), Follower(Seen(c), n, now)
    PROVE  SoundInv'
<1>1. Shown(n.state, job[RequestOf(c)].stage)
      BY NotTerminalShown DEF Retire, Terminal
<1> QED BY <1>1, StoredSound DEF Retire

(* A call goes on to its next step, at which it has read nothing. *)
LEMMA GoesOn ==
    ASSUME LedgerInv, SoundInv, NEW c \in Call, Busy(c), NEW s, NEW t \in Nat, t <= now,
           handler' = [handler EXCEPT ![c].at = s, ![c].seen = Unread, ![c].time = t],
           Grows(armed, armed'), NEW m, row'[RequestOf(c)] = m, Begun(m) \/ s \in Reserving,
           \/ s \in Past \ ({"complete", "reconcile"} \cup AlarmSteps)
           \/ s = "reconcile" /\ handler[c].at = "reconcile"
              /\ Shown(handler[c].proof, job'[RequestOf(c)].stage)
           \/ s \in Reserving /\ handler[c].at \in {"install"} \cup Reserving
              /\ m.state # "none" /\ (handler[c].fresh \/ Begun(m))
    PROVE  HandMoves(c, RequestOf(c))
<1> DEFINE x == handler'[c]
           y == handler[c]
           r == RequestOf(c)
<1>1. c \notin Request
      BY LedgerAssumption
<1>2. Becomes(c, x)
      BY DEF Becomes, LedgerInv
<1>3. x = [y EXCEPT !.at = s, !.seen = Unread, !.time = t]
      BY DEF LedgerInv
<1>4. HandlerOK(y, armed, intents) /\ y.request = r /\ r \in Request
      /\ HandlerSound(y, armed, row[r], job[r].stage, now)
      BY BusyFacts DEF RequestOf
<1> HIDE DEF x
<1>5. /\ x.at = s /\ x.seen = Unread /\ x.time = t /\ x.config = y.config /\ x.request = y.request
      /\ x.fresh = y.fresh /\ x.proof = y.proof
      BY <1>3, <1>4 DEF HandlerOK, IsHandler
<1>6. x.seen.state = "unread"
      BY <1>5 DEF Unread, NoRow
<1>7. s \in Reserving => Granted(x, armed')
  <2>1. s \in Reserving => y.at \in {"install"} \cup Reserving
        BY DEF Past, AlarmSteps, Reserving
  <2>2. y.at \in {"install"} \cup Reserving => Granted(y, armed)
        BY <1>4 DEF HandlerSound, Phase
  <2>3. Granted(y, armed) => Granted(x, armed')
        BY <1>4, <1>5 DEF Granted, Grows, HandlerOK, ConfigOK
  <2> QED BY <2>1, <2>2, <2>3
<1>8. Phase(x, m, armed')
      BY <1>5, <1>7 DEF Phase, Reserving, Past, AlarmSteps
<1>9. s = "reconcile" => x.proof \in Terminal
      BY <1>4, <1>5 DEF HandlerSound, Past, AlarmSteps, Reserving
<1>10. s \notin {"status", "install", "complete", "settle"}
      BY DEF Past, AlarmSteps, Reserving
<1>11. s = "reconcile" => Shown(x.proof, job'[r].stage)
      BY <1>5 DEF Past, AlarmSteps, Reserving
<1>12. HandlerSound(x, armed', m, job'[r].stage, now)
      BY <1>5, <1>6, <1>8, <1>9, <1>10, <1>11 DEF HandlerSound
<1> QED BY <1>1, <1>2, <1>4, <1>5, <1>12 DEF HandMoves, x

Looking == {"authorize-finalize", "finalize", "read-issued", "read-retained", "authorize-claim", "claim"}

(* A call goes on with a request that has a reservation. *)
LEMMA LooksOn ==
    ASSUME LedgerInv, SoundInv, NEW c \in Call, Busy(c), NEW s \in Looking, NEW t \in Nat, t <= now,
           handler' = [handler EXCEPT ![c].at = s, ![c].seen = Unread, ![c].time = t],
           Grows(armed, armed'), Begun(row'[RequestOf(c)])
    PROVE  HandMoves(c, RequestOf(c))
<1>1. s \in Past \ ({"complete", "reconcile"} \cup AlarmSteps)
      BY DEF Past, Looking, AlarmSteps
<1> QED BY <1>1, GoesOn

LEMMA GoLooks ==
    ASSUME LedgerInv, SoundInv, NEW c \in Call, Busy(c), NEW s \in Looking, Go(c, s),
           Grows(armed, armed'), Begun(row'[RequestOf(c)])
    PROVE  HandMoves(c, RequestOf(c))
<1>1. 0 \in Nat /\ 0 <= now
      BY SoundTime
<1>2. handler' = [handler EXCEPT ![c].at = s, ![c].seen = Unread, ![c].time = 0]
      BY DEF Go
<1> QED BY <1>1, <1>2, LooksOn

-----------------------------------------------------------------------------
(* The methods of a request's object. *)

LEMMA LoadSound ==
    ASSUME LedgerInv, SoundInv, NEW h \in Call \cup Request, Load(h)
    PROVE  SoundInv'
<1> DEFINE x == handler'[h]
           y == handler[h]
           r == RequestOf(h)
<1>1. Busy(h) /\ now' = now /\ UNCHANGED controlVars /\ UNCHANGED requestVars
      /\ y.at \notin {"idle", "install"} /\ (y.at = "status" => ~Plain(row[r]))
      BY DEF Load, Busy, At
<1>2. /\ HandlerOK(y, armed, intents) /\ y.request = r /\ r \in Request
      /\ HandlerSound(y, armed, row[r], job[r].stage, now)
      /\ h \in Request => h = r /\ y.at \in AlarmSteps
      BY <1>1, BusyFacts DEF RequestOf
<1>3. RowSound(row[r], now) /\ Later(row[r], row[r], now)
      BY <1>2, LaterSelf DEF SoundInv, RequestSound, RowSound
<1>4. Becomes(h, x)
      BY DEF Load, Becomes, LedgerInv
<1>5. x = [y EXCEPT !.seen = row[r]]
      BY DEF Load, LedgerInv
<1> HIDE DEF x
<1>6. /\ x.at = y.at /\ x.seen = row[r] /\ x.time = y.time /\ x.config = y.config
      /\ x.request = y.request /\ x.fresh = y.fresh /\ x.proof = y.proof
      BY <1>2, <1>5 DEF HandlerOK, IsHandler
<1>7. Phase(x, row[r], armed)
      BY <1>2, <1>6 DEF HandlerSound, Phase, Granted
<1>8. HandlerSound(x, armed, row[r], job[r].stage, now)
      BY <1>1, <1>2, <1>3, <1>6, <1>7 DEF HandlerSound
<1>9. ControlSound(control', armed') /\ Grows(armed, armed') /\ armed' = armed
      BY <1>1, SameControl DEF controlVars
<1>10. HandMoves(h, r)
      BY <1>1, <1>2, <1>4, <1>6, <1>8, <1>9 DEF HandMoves, requestVars, x
<1>11. x.at # "idle"
      BY <1>1, <1>6
<1> QED BY <1>1, <1>2, <1>9, <1>10, <1>11, QuietSound DEF x

LEMMA ReserveRefused ==
    ASSUME LedgerInv, SoundInv, NEW c \in Call, At(c, "reserve"), Loaded(c),
           Reserved(CallOf(c).seen, CallOf(c).config, CallOf(c).time, CallOf(c).fresh) = {}
    PROVE  Begun(Seen(c))
<1> DEFINE x == handler[c]
           w == Seen(c)
<1>1. Busy(c)
      BY DEF At, Busy
<1>2. Phase(x, w, armed) /\ HandlerOK(x, armed, intents) /\ x.request \in Request
      BY <1>1, SeenFacts, BusyFacts DEF RequestOf
<1>3. Granted(x, armed) /\ w.state # "none" /\ (~x.fresh => Begun(w))
      BY <1>2 DEF Phase, Reserving, At
<1>4. w.state # "unread"
      BY DEF Loaded, Seen, CallOf
<1>5. ASSUME w.state = "armed"
      PROVE  FALSE
  <2>1. x.fresh
        BY <1>3, <1>5 DEF Begun
  <2>2. w.epoch \in Epoch /\ armed[w.epoch] = x.request
        BY <1>2, <1>5 DEF HandlerOK, RowOK, Seen, CallOf
  <2>3. x.config.epoch \in Epoch /\ armed[x.config.epoch] = x.request /\ x.config.enabled
        BY <1>2, <1>3 DEF Granted, HandlerOK, ConfigOK
  <2>4. x.config.epoch = w.epoch
        BY <1>2, <2>2, <2>3 DEF SoundInv, ControlSound
  <2>5. Authorized(w, x.config)
        BY <2>3, <2>4 DEF Authorized
  <2> QED BY <1>5, <2>1, <2>5 DEF Reserved, Seen, CallOf
<1> QED BY <1>3, <1>4, <1>5 DEF Begun

LEMMA ReserveSound ==
    ASSUME LedgerInv, SoundInv, NEW c \in Call, ReserveIssue(c)
    PROVE  SoundInv'
<1> DEFINE after == Reserved(CallOf(c).seen, CallOf(c).config, CallOf(c).time, CallOf(c).fresh)
           r == RequestOf(c)
<1>1. Busy(c) /\ Loaded(c) /\ At(c, "reserve") /\ now' = now /\ UNCHANGED controlVars /\ UNCHANGED job
      BY DEF ReserveIssue, Busy, At
<1>2. /\ IsRow(Seen(c)) /\ RowSound(Seen(c), now) /\ RowTyped(Seen(c))
      /\ handler[c].time \in Nat /\ handler[c].time <= now /\ now \in Nat /\ r \in Request
      BY <1>1, SeenFacts, BusyFacts, SoundTime DEF HandlerSound
<1>3. CASE after = {} /\ Refuse(c)
  <2>1. Begun(Seen(c))
        BY <1>1, <1>3, ReserveRefused
  <2> QED BY <1>1, <1>3, <2>1, RefusedSound
<1>4. CASE LoseRace(c, after)
      BY <1>1, <1>4, LostSound
<1>5. CASE (\E n \in after : Store(c, n) /\ Repair(RequestOf(c), n)) /\ Go(c, "authorize-finalize")
  <2>1. PICK n \in after : Store(c, n) /\ Repair(r, n)
        BY <1>5
  <2>2. Follower(Seen(c), n, now) /\ n.state = "issuing"
        BY <1>2, <2>1, ReservedSound DEF Seen, CallOf
  <2>3. Shown(n.state, job[r].stage) /\ RowTyped(n) /\ Begun(n)
        BY <2>2, NotTerminalShown DEF Terminal, Follower, RowSound
  <2>4. PICK m : RowMoves(r, m) /\ Later(n, m, now) /\ Begun(m)
        BY <1>1, <2>1, <2>2, <2>3, StoreMoves
  <2>5. AlarmMoves(r, m) /\ JobMoves(r, m)
        BY <1>1, <1>2, <2>1, <2>3, <2>4, RepairMoves DEF JobMoves
  <2>6. row'[r] = m /\ Grows(armed, armed')
        BY <1>1, <1>2, <2>4, Same DEF RowMoves, LedgerInv
  <2>7. "authorize-finalize" \in Looking /\ Begun(row'[r])
        BY <2>4, <2>6 DEF Looking
  <2>8. HandMoves(c, r)
        BY <1>1, <1>5, <2>6, <2>7, GoLooks
  <2> QED BY <1>1, <1>2, <2>4, <2>5, <2>8, MethodSound
<1> QED BY <1>3, <1>4, <1>5 DEF ReserveIssue

(* What a call that reads a reserved row brings to it. *)
LEMMA PastFacts ==
    ASSUME LedgerInv, SoundInv, NEW h \in Call \cup Request, handler[h].at \in Past, Loaded(h)
    PROVE  /\ Busy(h) /\ RequestOf(h) \in Request
           /\ IsRow(CallOf(h).seen) /\ RowSound(CallOf(h).seen, now) /\ Begun(CallOf(h).seen)
           /\ CallOf(h).time \in Nat /\ CallOf(h).time <= now /\ now \in Nat
           /\ Seen(h) = CallOf(h).seen
<1>1. Busy(h)
      BY DEF Past, AlarmSteps, Busy
<1> QED BY <1>1, SeenFacts, BusyFacts, SoundTime DEF HandlerSound, Seen, CallOf

LEMMA FinalizeSound ==
    ASSUME LedgerInv, SoundInv, NEW c \in Call, FinalizeIssue(c)
    PROVE  SoundInv'
<1> DEFINE after == Finalized(CallOf(c).seen, CallOf(c).config, CallOf(c).time)
<1>1. now' = now /\ UNCHANGED controlVars /\ Loaded(c) /\ handler[c].at \in Past
      BY DEF FinalizeIssue, At, Past
<1>2. /\ Busy(c) /\ RequestOf(c) \in Request
      /\ IsRow(CallOf(c).seen) /\ RowSound(CallOf(c).seen, now) /\ Begun(CallOf(c).seen)
      /\ CallOf(c).time \in Nat /\ CallOf(c).time <= now /\ now \in Nat
      /\ Seen(c) = CallOf(c).seen
      BY <1>1, PastFacts
<1>3. CASE after = {} /\ Refuse(c) /\ UNCHANGED job
      BY <1>1, <1>2, <1>3, RefusedSound
<1>4. CASE LoseRace(c, after) /\ UNCHANGED job
      BY <1>1, <1>2, <1>4, LostSound
<1>5. CASE /\ \E n \in after : Store(c, n) /\ Repair(RequestOf(c), n)
           /\ End(c)
           /\ DeliverAuthorization(RequestOf(c))
  <2>1. PICK n \in after : Store(c, n) /\ Repair(RequestOf(c), n)
        BY <1>5
  <2>2. Follower(Seen(c), n, now) /\ n.state = "issued"
        BY <1>2, <2>1, FinalizedSound
  <2>3. Shown(n.state, job[RequestOf(c)].stage)
        BY <2>2, NotTerminalShown DEF Terminal
  <2> QED BY <1>1, <1>2, <1>5, <2>1, <2>2, <2>3, StoredSound
<1> QED BY <1>3, <1>4, <1>5 DEF FinalizeIssue

LEMMA ReadAgainSound ==
    ASSUME LedgerInv, SoundInv, NEW c \in Call, ReadAgain(c)
    PROVE  SoundInv'
<1> DEFINE after == ReadIssued(CallOf(c).seen, CallOf(c).config, CallOf(c).time)
<1>1. now' = now /\ UNCHANGED controlVars /\ Loaded(c) /\ handler[c].at \in Past
      BY DEF ReadAgain, At, Past
<1>2. /\ Busy(c) /\ RequestOf(c) \in Request
      /\ IsRow(CallOf(c).seen) /\ RowSound(CallOf(c).seen, now) /\ Begun(CallOf(c).seen)
      /\ CallOf(c).time \in Nat /\ CallOf(c).time <= now /\ now \in Nat
      /\ Seen(c) = CallOf(c).seen
      BY <1>1, PastFacts
<1>3. CASE after = {} /\ Refuse(c) /\ UNCHANGED job
      BY <1>1, <1>2, <1>3, RefusedSound
<1>4. CASE \E n \in after : Retire(c, n) /\ UNCHANGED job
  <2>1. PICK n \in after : Retire(c, n)
        BY <1>4
  <2>2. Follower(Seen(c), n, now)
        BY <1>2, <2>1, ReadSound
  <2> QED BY <1>1, <1>2, <1>4, <2>1, <2>2, RetiredSound
<1>5. CASE /\ Repair(RequestOf(c), CallOf(c).seen) /\ End(c)
           /\ DeliverAuthorization(RequestOf(c)) /\ UNCHANGED row
  <2>1. Store(c, Seen(c)) /\ Follower(Seen(c), Seen(c), now)
        BY <1>2, <1>5, SameFollows DEF Store
  <2> QED BY <1>1, <1>2, <1>5, <2>1, StoredSound
<1> QED BY <1>3, <1>4, <1>5 DEF ReadAgain

LEMMA ReadRetainedSound ==
    ASSUME LedgerInv, SoundInv, NEW c \in Call, ReadRetained(c)
    PROVE  SoundInv'
<1> DEFINE after == ReadIssued(CallOf(c).seen, CallOf(c).config, CallOf(c).time)
           r == RequestOf(c)
<1>1. now' = now /\ UNCHANGED controlVars /\ UNCHANGED job /\ Loaded(c) /\ handler[c].at \in Past
      BY DEF ReadRetained, At, Past
<1>2. /\ Busy(c) /\ r \in Request
      /\ IsRow(CallOf(c).seen) /\ RowSound(CallOf(c).seen, now) /\ Begun(CallOf(c).seen)
      /\ CallOf(c).time \in Nat /\ CallOf(c).time <= now /\ now \in Nat
      /\ Seen(c) = CallOf(c).seen
      BY <1>1, PastFacts
<1>3. CASE after = {} /\ Refuse(c)
      BY <1>1, <1>2, <1>3, RefusedSound
<1>4. CASE \E n \in after : Retire(c, n)
  <2>1. PICK n \in after : Retire(c, n)
        BY <1>4
  <2>2. Follower(Seen(c), n, now)
        BY <1>2, <2>1, ReadSound
  <2> QED BY <1>1, <1>2, <2>1, <2>2, RetiredSound
<1>5. CASE Repair(r, Seen(c)) /\ Go(c, "authorize-claim") /\ UNCHANGED row
  <2>1. RowMoves(r, row[r]) /\ Later(Seen(c), row[r], now) /\ RowTyped(Seen(c))
        BY <1>1, <1>2, <1>5, RowKeeps, SeenFacts
  <2>2. AlarmMoves(r, row[r]) /\ JobMoves(r, row[r]) /\ Begun(row[r])
        BY <1>1, <1>2, <1>5, <2>1, RepairMoves DEF JobMoves, Later
  <2>3. Grows(armed, armed') /\ row'[r] = row[r]
        BY <1>1, <1>5, Same
  <2>4. "authorize-claim" \in Looking /\ Begun(row'[r])
        BY <2>2, <2>3 DEF Looking
  <2>5. HandMoves(c, r)
        BY <1>2, <1>5, <2>3, <2>4, GoLooks
  <2> QED BY <1>1, <1>2, <2>1, <2>2, <2>5, MethodSound
<1> QED BY <1>2, <1>3, <1>4, <1>5 DEF ReadRetained

LEMMA ClaimStepSound ==
    ASSUME LedgerInv, SoundInv, NEW c \in Call, Claim(c)
    PROVE  SoundInv'
<1> DEFINE after == ClaimOf(CallOf(c).seen, CallOf(c).config, CallOf(c).time)
           r == RequestOf(c)
<1>1. now' = now /\ UNCHANGED controlVars /\ Loaded(c) /\ handler[c].at \in Past
      BY DEF Claim, At, Past
<1>2. /\ Busy(c) /\ r \in Request
      /\ IsRow(CallOf(c).seen) /\ RowSound(CallOf(c).seen, now) /\ Begun(CallOf(c).seen)
      /\ CallOf(c).time \in Nat /\ CallOf(c).time <= now /\ now \in Nat
      /\ Seen(c) = CallOf(c).seen
      BY <1>1, PastFacts
<1>3. ASSUME NEW n \in after
      PROVE  Follower(Seen(c), n, now) /\ Shown(n.state, job[r].stage)
  <2>1. Follower(Seen(c), n, now) /\ n.state \in {"claimed", "expired"}
        BY <1>2, ClaimSound
  <2> QED BY <2>1, NotTerminalShown DEF Terminal
<1>4. CASE after = {} /\ Refuse(c) /\ UNCHANGED job
      BY <1>1, <1>2, <1>4, RefusedSound
<1>5. CASE LoseRace(c, after) /\ UNCHANGED job
      BY <1>1, <1>2, <1>5, LostSound
<1>6. CASE \E n \in after : Retire(c, n) /\ UNCHANGED job
      BY <1>1, <1>2, <1>3, <1>6, RetiredSound
<1>7. CASE /\ \E n \in after :
                /\ Store(c, n)
                /\ \/ Repair(r, n) /\ DeliverReceipt(r)
                   \/ Repair(r, Seen(c)) /\ UNCHANGED job
           /\ End(c)
      BY <1>1, <1>2, <1>3, <1>7, StoredSound
<1> QED BY <1>2, <1>4, <1>5, <1>6, <1>7 DEF Claim

LEMMA CompleteSound ==
    ASSUME LedgerInv, SoundInv, NEW c \in Call, Complete(c)
    PROVE  SoundInv'
<1> DEFINE after == Completed(CallOf(c).seen, CallOf(c).time)
           r == RequestOf(c)
<1>1. now' = now /\ UNCHANGED controlVars /\ UNCHANGED job /\ Loaded(c) /\ handler[c].at = "complete"
      BY DEF Complete, At
<1>2. /\ Busy(c) /\ r \in Request
      /\ IsRow(CallOf(c).seen) /\ RowSound(CallOf(c).seen, now) /\ Begun(CallOf(c).seen)
      /\ CallOf(c).time \in Nat /\ CallOf(c).time <= now /\ now \in Nat
      /\ Seen(c) = CallOf(c).seen
      BY <1>1, PastFacts DEF Past
<1>3. Shown("completed", job[r].stage)
      BY <1>1, <1>2, BusyFacts DEF HandlerSound
<1>4. CASE after = {} /\ Refuse(c)
      BY <1>1, <1>2, <1>4, RefusedSound
<1>5. CASE LoseRace(c, after)
      BY <1>1, <1>2, <1>5, LostSound
<1>6. CASE /\ \E n \in after : Store(c, n)
           /\ alarm' = [alarm EXCEPT ![r] = Never] \/ UNCHANGED alarm
           /\ End(c)
  <2>1. PICK n \in after : Store(c, n)
        BY <1>6
  <2>2. Follower(Seen(c), n, now) /\ (n.state = "completed" \/ n = Seen(c)) /\ Deadline(n) = Never
        BY <1>2, <2>1, CompletedSound
  <2>3. Repair(r, n) \/ UNCHANGED alarm
        BY <1>6, <2>2 DEF Repair
  <2> QED BY <1>1, <1>2, <1>3, <1>6, <2>1, <2>2, <2>3, StoredSound
<1> QED BY <1>4, <1>5, <1>6 DEF Complete

LEMMA ReconcileSound ==
    ASSUME LedgerInv, SoundInv, NEW c \in Call, Reconcile(c)
    PROVE  SoundInv'
<1> DEFINE seen == CallOf(c).seen
           required == Overdue(seen, CallOf(c).time)
           after == IF seen.state = "claimed" THEN required
                    ELSE Reconciled(seen, CallOf(c).time, CallOf(c).proof, TRUE)
           r == RequestOf(c)
<1>1. now' = now /\ UNCHANGED controlVars /\ UNCHANGED job /\ Loaded(c) /\ handler[c].at = "reconcile"
      BY DEF Reconcile, At
<1>2. /\ Busy(c) /\ r \in Request
      /\ IsRow(seen) /\ RowSound(seen, now) /\ Begun(seen)
      /\ CallOf(c).time \in Nat /\ CallOf(c).time <= now /\ now \in Nat
      /\ Seen(c) = seen
      BY <1>1, PastFacts DEF Past
<1>3. /\ HandlerOK(handler[c], armed, intents) /\ handler[c].request = r
      /\ HandlerSound(handler[c], armed, row[r], job[r].stage, now) /\ RequestSound(r)
      BY <1>2, BusyFacts DEF RequestOf
<1>4. CallOf(c).proof \in Terminal /\ Shown(CallOf(c).proof, job[r].stage)
      BY <1>1, <1>3 DEF HandlerSound, CallOf
<1>5. c \notin Request /\ Grows(armed, armed') /\ armed' = armed
      BY <1>1, LedgerAssumption, Same
<1>6. CASE End(c) /\ UNCHANGED <<row, alarm>>
  <2>1. HandMoves(c, r) /\ handler'[c] = Idle
        BY <1>5, <1>6, IdleMoves
  <2>2. UNCHANGED requestVars
        BY <1>1, <1>6 DEF requestVars
  <2> QED BY <1>1, <1>2, <2>1, <2>2, SameControl, QuietSound
<1>7. CASE handler' = [handler EXCEPT ![c].seen = Unread] /\ UNCHANGED <<row, alarm>>
  <2>1. Begun(row[r]) /\ Shown(handler[c].proof, job'[r].stage)
        BY <1>1, <1>3, <1>4 DEF HandlerSound, Phase, Past, CallOf
  <2>2. handler' = [handler EXCEPT ![c].at = "reconcile", ![c].seen = Unread, ![c].time = CallOf(c).time]
    <3>1. handler[c].at = "reconcile" /\ IsHandler(handler[c])
          BY <1>1, <1>3 DEF HandlerOK, Past
    <3>2. [[[handler[c] EXCEPT !.at = "reconcile"] EXCEPT !.seen = Unread] EXCEPT !.time = handler[c].time]
            = [handler[c] EXCEPT !.seen = Unread]
          BY <3>1 DEF IsHandler
    <3>3. handler = [h \in Call \cup Request |-> handler[h]]
          BY DEF LedgerInv
    <3> QED BY <1>7, <3>2, <3>3 DEF CallOf
  <2>3. HandMoves(c, r)
        BY <1>1, <1>2, <1>5, <1>7, <2>1, <2>2, GoesOn
  <2>4. UNCHANGED requestVars
        BY <1>1, <1>7 DEF requestVars
  <2> QED BY <1>1, <1>2, <2>3, <2>4, SameControl, QuietSound
<1>8. CASE /\ \E n \in required : Store(c, n) /\ handler' = [handler EXCEPT ![c].seen = n]
           /\ UNCHANGED alarm
  <2>1. PICK n \in required : Store(c, n) /\ handler' = [handler EXCEPT ![c].seen = n]
        BY <1>8
  <2>2. Follower(Seen(c), n, now) /\ n.state = "required"
        BY <1>2, <2>1, OverdueSound
  <2>3. Shown(n.state, job[r].stage) /\ RowSound(n, now) /\ Begun(n)
        BY <2>2, NotTerminalShown DEF Terminal, Follower
  <2>4. PICK m : RowMoves(r, m) /\ Later(n, m, now) /\ Begun(m) /\ (Begun(Seen(c)) => Begun(row[r]))
        BY <1>1, <1>2, <2>1, <2>2, <2>3, StoreMoves
  <2> DEFINE x == handler'[c]
             y == handler[c]
  <2>5. Becomes(c, x)
        BY <2>1 DEF Becomes, LedgerInv
  <2>6. x = [y EXCEPT !.seen = n]
        BY <2>1 DEF LedgerInv
  <2> HIDE DEF x
  <2>7. /\ x.at = "reconcile" /\ x.seen = n /\ x.time = y.time /\ x.config = y.config
        /\ x.request = r /\ x.fresh = y.fresh /\ x.proof = y.proof
        BY <1>1, <1>3, <2>6 DEF HandlerOK, IsHandler
  <2>8. Phase(x, m, armed') /\ Phase(x, n, armed')
        BY <2>3, <2>4, <2>7 DEF Phase, Reserving
  <2>9. HandlerSound(x, armed', m, job'[r].stage, now)
        BY <1>1, <1>3, <1>4, <2>3, <2>4, <2>7, <2>8 DEF HandlerSound, CallOf
  <2>10. row'[r] = m
        BY <1>2, <2>4 DEF RowMoves, LedgerInv
  <2>11. HandMoves(c, r)
        BY <1>5, <2>5, <2>7, <2>9, <2>10 DEF HandMoves, x
  <2>12. AlarmMoves(r, m) /\ JobMoves(r, m)
        BY <1>1, <1>2, <1>8, <2>4, <2>5, CallAlarmStays DEF JobMoves
  <2> QED BY <1>1, <1>2, <2>4, <2>11, <2>12, MethodSound
<1>9. CASE /\ \E n \in after \ required : Store(c, n) /\ (Repair(r, n) \/ UNCHANGED alarm)
           /\ End(c)
  <2>1. PICK n \in after \ required : Store(c, n) /\ (Repair(r, n) \/ UNCHANGED alarm)
        BY <1>9
  <2>2. n \in Reconciled(seen, CallOf(c).time, CallOf(c).proof, TRUE)
        BY <2>1
  <2>3. Follower(seen, n, now) /\ (n # seen => n.state \in {"required", CallOf(c).proof})
        BY <1>2, <1>4, <2>2, ReconciledSound
  <2>4. n # seen => Shown(n.state, job[r].stage)
        BY <1>4, <2>3, NotTerminalShown DEF Terminal
  <2> QED BY <1>1, <1>2, <1>9, <2>1, <2>3, <2>4, StoredSound
<1> QED BY <1>6, <1>7, <1>8, <1>9 DEF Reconcile

-----------------------------------------------------------------------------
(* The alarm. *)

LEMMA RingSound ==
    ASSUME LedgerInv, SoundInv, NEW r \in Request, Ring(r)
    PROVE  SoundInv'
<1> DEFINE x == handler'[r]
<1>1. now' = now /\ UNCHANGED controlVars /\ UNCHANGED row /\ UNCHANGED job /\ alarm[r] # Never
      /\ alarm' = [alarm EXCEPT ![r] = Never]
      BY DEF Ring
<1>2. Becomes(r, x)
      BY DEF Ring, Becomes, LedgerInv
<1>3. x = [handler[r] EXCEPT !.at = "ring", !.request = r]
      BY DEF Ring, LedgerInv
<1>4. HandlerOK(handler[r], armed, intents) /\ handler[r] = Idle
      BY DEF LedgerInv, HandlerOK, Ring, At
<1> HIDE DEF x
<1>5. x.at = "ring" /\ x.seen = Idle.seen /\ x.request = r /\ x.time = Idle.time
      BY <1>3, <1>4 DEF HandlerOK, IsHandler
<1>6. x.seen.state = "unread" /\ x.time = 0
      BY <1>5 DEF Idle, Unread, NoRow
<1>7. RequestSound(r) /\ Begun(row[r])
      BY <1>1 DEF SoundInv, RequestSound, AlarmSound
<1>8. 0 \in Nat /\ 0 <= now
      BY SoundTime
<1>9. Phase(x, row[r], armed')
      BY <1>5, <1>7 DEF Phase, Reserving
<1>10. HandlerSound(x, armed', row[r], job[r].stage, now)
      BY <1>5, <1>6, <1>8, <1>9 DEF HandlerSound
<1>11. HandMoves(r, r)
      BY <1>1, <1>2, <1>5, <1>10 DEF HandMoves, AlarmSteps, x
<1>12. Moves(r)
  <2>1. row = [q \in Request |-> row[q]] /\ alarm = [q \in Request |-> alarm[q]] /\ job = [q \in Request |-> job[q]]
        BY DEF LedgerInv, SoundInv
  <2>2. row'[r] = row[r] /\ row' = [row EXCEPT ![r] = row'[r]]
        BY <1>1, <2>1
  <2>3. job'[r] = job[r] /\ job' = [job EXCEPT ![r] = job'[r]]
        BY <1>1, <2>1
  <2>4. alarm'[r] = Never /\ alarm' = [alarm EXCEPT ![r] = alarm'[r]]
        BY <1>1, <2>1
  <2>5. handler'[r].at # "idle"
        BY <1>5 DEF x
  <2>6. AlarmSound(alarm'[r], row[r], handler'[r].at = "idle", now)
        BY <2>4, <2>5 DEF AlarmSound
  <2>7. Later(row[r], row[r], now) /\ Final(job[r].stage, job[r].stage)
        BY <1>7, LaterSelf DEF RequestSound, RowSound, Final
  <2> QED BY <1>7, <2>2, <2>3, <2>4, <2>6, <2>7 DEF Moves, RequestSound
<1> QED BY <1>1, <1>11, <1>12, SameControl, StepSound

LEMMA FailedSound ==
    ASSUME LedgerInv, SoundInv, now' = now, UNCHANGED controlVars, UNCHANGED job,
           NEW r \in Request, Busy(r), FailAlarm(r)
    PROVE  SoundInv'
<1>1. HandMoves(r, r) /\ UNCHANGED row
      BY IdleMoves DEF FailAlarm
<1>2. RowMoves(r, row[r]) /\ RowTyped(row[r])
      BY <1>1, RowKeeps
<1>3. /\ HandlerSound(handler[r], armed, row[r], job[r].stage, now) /\ RequestSound(r)
      /\ handler[r].at \in AlarmSteps
      BY BusyFacts
<1>4. Begun(row[r]) /\ now \in Nat
      BY <1>3, SoundTime DEF HandlerSound, Phase, Past
<1>5. AlarmMoves(r, row[r])
  <2>1. CASE alarm[r] = Never
    <3>1. Fit(now, row[r], now)
          BY <1>4 DEF Fit, InTime, Never
    <3> QED BY <2>1, <3>1 DEF FailAlarm, AlarmMoves
  <2>2. CASE alarm[r] # Never
    <3>1. Fit(alarm[r], row[r], now)
          BY <1>3, <2>2 DEF RequestSound, AlarmSound, Fit
    <3>2. alarm' = [alarm EXCEPT ![r] = alarm[r]]
          BY <2>2 DEF FailAlarm, SoundInv
    <3> QED BY <3>1, <3>2 DEF AlarmMoves
  <2> QED BY <2>1, <2>2
<1> QED BY <1>1, <1>2, <1>5, MethodSound DEF JobMoves

(* The alarm handler goes on, at an alarm that is gone or still set. *)
LEMMA LooksAgain ==
    ASSUME LedgerInv, SoundInv, NEW r \in Request, Busy(r), NEW x, Becomes(r, x),
           x.at \in AlarmSteps, x.request = r, x.time \in Nat, x.time <= now,
           NEW m, row'[r] = m, Begun(m),
           x.seen.state # "unread" => RowSound(x.seen, now) /\ Later(x.seen, m, now) /\ Begun(x.seen),
           x.at = "settle" => x.proof \in Terminal \cup {"ambiguous"} /\ Shown(x.proof, job'[r].stage)
    PROVE  HandMoves(r, r)
<1>1. handler'[r] = x
      BY DEF Becomes
<1>2. Phase(x, m, armed') /\ (x.seen.state # "unread" => Phase(x, x.seen, armed'))
      BY DEF Phase, AlarmSteps, Reserving
<1>3. HandlerSound(x, armed', m, job'[r].stage, now)
      BY <1>2 DEF HandlerSound, AlarmSteps
<1> QED BY <1>1, <1>3 DEF HandMoves

(* The handler ends with the alarm repaired for the row it has read. *)
LEMMA DoneSound ==
    ASSUME LedgerInv, SoundInv, now' = now, UNCHANGED controlVars, UNCHANGED job, UNCHANGED row,
           NEW r \in Request, handler[r].at \in Past, Loaded(r), Repair(r, CallOf(r).seen), End(r)
    PROVE  SoundInv'
<1>1. /\ Busy(r) /\ Seen(r) = CallOf(r).seen /\ Begun(Seen(r))
      BY PastFacts
<1>2. Later(Seen(r), row[r], now) /\ RowTyped(Seen(r))
      BY <1>1, SeenFacts, BusyFacts
<1>3. RowMoves(r, row[r]) /\ AlarmMoves(r, row[r]) /\ JobMoves(r, row[r])
      BY <1>1, <1>2, RowKeeps, RepairMoves DEF JobMoves
<1> QED BY <1>3, IdleMoves, MethodSound

LEMMA RunAlarmSound ==
    ASSUME LedgerInv, SoundInv, NEW r \in Request, RunAlarm(r)
    PROVE  SoundInv'
<1> DEFINE seen == CallOf(r).seen
           due == Deadline(seen) # Never /\ now >= Deadline(seen)
           aft == Expired(seen, now) \cup Overdue(seen, now)
<1>1. now' = now /\ UNCHANGED controlVars /\ UNCHANGED job /\ Loaded(r) /\ handler[r].at = "ring"
      /\ handler[r].at \in Past
      BY DEF RunAlarm, At, Past, AlarmSteps
<1>2. /\ Busy(r) /\ IsRow(seen) /\ RowSound(seen, now) /\ Begun(seen) /\ now \in Nat /\ Seen(r) = seen
      BY <1>1, PastFacts
<1>3. /\ HandlerOK(handler[r], armed, intents) /\ RequestOf(r) = r /\ handler[r].request = r
      /\ Later(seen, row[r], now)
      BY <1>1, <1>2, BusyFacts, SeenFacts DEF RequestOf
<1>4. now <= now
      BY <1>2
<1>5. CASE Repair(r, seen) /\ End(r) /\ UNCHANGED row
      BY <1>1, <1>5, DoneSound
<1>6. CASE FailAlarm(r)
      BY <1>1, <1>2, <1>6, FailedSound
<1>7. CASE (\E n \in Expired(seen, now) : Store(r, n) /\ Repair(r, n)) /\ End(r)
  <2>1. PICK n \in Expired(seen, now) : Store(r, n) /\ Repair(r, n)
        BY <1>7
  <2>2. Follower(seen, n, now) /\ n.state = "expired"
        BY <1>2, <2>1, ExpiredSound
  <2>3. Shown(n.state, job[r].stage)
        BY <2>2, NotTerminalShown DEF Terminal
  <2> QED BY <1>1, <1>2, <1>3, <1>7, <2>1, <2>2, <2>3, StoredSound
<1>8. CASE /\ \E n \in Overdue(seen, now) : Store(r, n)
           /\ handler' = [handler EXCEPT ![r].at = "look", ![r].seen = Unread, ![r].time = now]
           /\ UNCHANGED alarm
  <2>1. PICK n \in Overdue(seen, now) : Store(r, n)
        BY <1>8
  <2>2. Follower(seen, n, now) /\ n.state = "required"
        BY <1>2, <1>4, <2>1, OverdueSound
  <2>3. Shown(n.state, job[r].stage)
        BY <2>2, NotTerminalShown DEF Terminal
  <2>4. PICK m : RowMoves(r, m) /\ Begun(m) /\ (Begun(Seen(r)) => Begun(row[r]))
        BY <1>1, <1>2, <1>3, <2>1, <2>2, <2>3, StoreMoves
  <2> DEFINE x == handler'[r]
  <2>5. Becomes(r, x)
        BY <1>8 DEF Becomes, LedgerInv
  <2>6. x = [handler[r] EXCEPT !.at = "look", !.seen = Unread, !.time = now]
        BY <1>8 DEF LedgerInv
  <2>7. handler'[r] = x
        OBVIOUS
  <2> HIDE DEF x
  <2>8. x.at = "look" /\ x.seen = Unread /\ x.time = now /\ x.request = r
        BY <1>3, <2>6 DEF HandlerOK, IsHandler
  <2>9. x.seen.state = "unread" /\ x.at \in AlarmSteps /\ x.at # "settle" /\ row'[r] = m
        BY <2>4, <2>8 DEF Unread, NoRow, AlarmSteps, RowMoves, LedgerInv
  <2>10. HandMoves(r, r)
        BY <1>2, <1>4, <2>4, <2>5, <2>8, <2>9, LooksAgain
  <2>11. AlarmMoves(r, m) /\ JobMoves(r, m)
        BY <1>1, <1>2, <1>8, <2>4, <2>7, <2>8 DEF AlarmMoves, JobMoves
  <2> QED BY <1>1, <2>4, <2>10, <2>11, MethodSound
<1>9. CASE handler' = [handler EXCEPT ![r].at = "look", ![r].time = now] /\ UNCHANGED <<row, alarm>>
  <2> DEFINE x == handler'[r]
  <2>1. Becomes(r, x)
        BY <1>9 DEF Becomes, LedgerInv
  <2>2. x = [handler[r] EXCEPT !.at = "look", !.time = now]
        BY <1>9 DEF LedgerInv
  <2>3. handler'[r] = x
        OBVIOUS
  <2> HIDE DEF x
  <2>4. x.at = "look" /\ x.seen = seen /\ x.time = now /\ x.request = r
        BY <1>3, <2>2 DEF HandlerOK, IsHandler, CallOf
  <2>5. x.at \in AlarmSteps /\ x.at # "settle" /\ row'[r] = row[r] /\ Begun(row[r])
        BY <1>2, <1>3, <1>9, <2>4 DEF AlarmSteps, Later
  <2>6. HandMoves(r, r)
        BY <1>2, <1>3, <1>4, <2>1, <2>4, <2>5, LooksAgain
  <2>7. UNCHANGED requestVars /\ handler'[r].at # "idle"
        BY <1>1, <1>9, <2>3, <2>4 DEF requestVars
  <2> QED BY <1>1, <2>6, <2>7, SameControl, QuietSound
<1> QED BY <1>5, <1>6, <1>7, <1>8, <1>9 DEF RunAlarm

LEMMA EvidenceShown ==
    ASSUME NEW r \in Request, NEW proof \in Evidence(r)
    PROVE  proof \in Terminal \cup {"ambiguous"} /\ Shown(proof, job[r].stage)
BY DEF Evidence, Terminal, Shown

LEMMA LookSound ==
    ASSUME LedgerInv, SoundInv, NEW r \in Request, LookForEvidence(r)
    PROVE  SoundInv'
<1> DEFINE seen == CallOf(r).seen
<1>1. now' = now /\ UNCHANGED controlVars /\ UNCHANGED job /\ UNCHANGED row /\ Loaded(r)
      /\ handler[r].at \in Past
      BY DEF LookForEvidence, At, Past, AlarmSteps
<1>2. Busy(r) /\ Begun(seen) /\ now \in Nat /\ Seen(r) = seen
      BY <1>1, PastFacts
<1>3. /\ HandlerOK(handler[r], armed, intents) /\ handler[r].request = r
      /\ HandlerSound(handler[r], armed, row[r], job[r].stage, now) /\ Later(seen, row[r], now)
      BY <1>1, <1>2, BusyFacts, SeenFacts DEF RequestOf
<1>4. CASE Repair(r, seen) /\ End(r)
      BY <1>1, <1>4, DoneSound
<1>5. CASE /\ \E proof \in Evidence(r) :
                handler' = [handler EXCEPT ![r].at = "settle", ![r].seen = Unread,
                                           ![r].proof = proof, ![r].basis = seen.revision]
           /\ UNCHANGED alarm
  <2>1. PICK proof \in Evidence(r) :
             handler' = [handler EXCEPT ![r].at = "settle", ![r].seen = Unread,
                                        ![r].proof = proof, ![r].basis = seen.revision]
        BY <1>5
  <2> DEFINE x == handler'[r]
             v == seen.revision
  <2> HIDE DEF v
  <2>2. Becomes(r, x)
        BY <2>1 DEF Becomes, LedgerInv
  <2>3. x = [handler[r] EXCEPT !.at = "settle", !.seen = Unread, !.proof = proof, !.basis = v]
        BY <2>1 DEF LedgerInv, v
  <2>4. handler'[r] = x
        OBVIOUS
  <2> HIDE DEF x
  <2>5. x.at = "settle" /\ x.seen = Unread /\ x.time = handler[r].time /\ x.request = r /\ x.proof = proof
        BY <1>3, <2>3 DEF HandlerOK, IsHandler
  <2>6. /\ x.seen.state = "unread" /\ x.at \in AlarmSteps /\ x.time \in Nat /\ x.time <= now
        /\ row'[r] = row[r] /\ Begun(row[r])
        BY <1>1, <1>2, <1>3, <2>5 DEF Unread, NoRow, AlarmSteps, HandlerSound, Later
  <2>7. x.proof \in Terminal \cup {"ambiguous"} /\ Shown(x.proof, job'[r].stage)
        BY <1>1, <2>5, EvidenceShown
  <2>8. HandMoves(r, r)
        BY <1>2, <2>2, <2>5, <2>6, <2>7, LooksAgain
  <2>9. UNCHANGED requestVars /\ handler'[r].at # "idle"
        BY <1>1, <1>5, <2>4, <2>5 DEF requestVars
  <2> QED BY <1>1, <2>8, <2>9, SameControl, QuietSound
<1> QED BY <1>4, <1>5 DEF LookForEvidence

LEMMA SettleSound ==
    ASSUME LedgerInv, SoundInv, NEW r \in Request, SettleByAlarm(r)
    PROVE  SoundInv'
<1> DEFINE seen == CallOf(r).seen
           proof == IF seen.revision = CallOf(r).basis THEN CallOf(r).proof ELSE "ambiguous"
           after == Reconciled(seen, now, proof, FALSE)
<1>1. now' = now /\ UNCHANGED controlVars /\ UNCHANGED job /\ Loaded(r) /\ handler[r].at = "settle"
      /\ handler[r].at \in Past
      BY DEF SettleByAlarm, At, Past, AlarmSteps
<1>2. /\ Busy(r) /\ IsRow(seen) /\ RowSound(seen, now) /\ Begun(seen) /\ now \in Nat /\ Seen(r) = seen
      BY <1>1, PastFacts
<1>3. RequestOf(r) = r /\ HandlerSound(handler[r], armed, row[r], job[r].stage, now)
      BY <1>2, BusyFacts
<1>4. proof \in Terminal \cup {"ambiguous"} /\ Shown(proof, job[r].stage)
  <2>1. CallOf(r).proof \in Terminal \cup {"ambiguous"} /\ Shown(CallOf(r).proof, job[r].stage)
        BY <1>1, <1>3 DEF HandlerSound, CallOf
  <2>2. Shown("ambiguous", job[r].stage)
        BY DEF Shown
  <2> QED BY <2>1, <2>2
<1>5. CASE Repair(r, seen) /\ End(r) /\ UNCHANGED row
      BY <1>1, <1>5, DoneSound
<1>6. CASE LoseRace(r, after)
      BY <1>1, <1>2, <1>6, LostSound
<1>7. CASE (\E n \in after : Store(r, n) /\ Repair(r, n)) /\ End(r)
  <2>1. PICK n \in after : Store(r, n) /\ Repair(r, n)
        BY <1>7
  <2> HIDE DEF proof
  <2>2. now <= now
        BY <1>2
  <2>3. Follower(seen, n, now) /\ (n # seen => n.state \in {"required", proof})
        BY <1>2, <1>4, <2>1, <2>2, ReconciledSound
  <2>4. n # seen => Shown(n.state, job[r].stage)
        BY <1>4, <2>3, NotTerminalShown DEF Terminal
  <2> QED BY <1>1, <1>2, <1>3, <1>7, <2>1, <2>3, <2>4, StoredSound
<1> QED BY <1>5, <1>6, <1>7 DEF SettleByAlarm

LEMMA CrashSound ==
    ASSUME LedgerInv, SoundInv, NEW r \in Request, Crash(r)
    PROVE  SoundInv'
<1>1. Busy(r) /\ now' = now /\ UNCHANGED controlVars /\ UNCHANGED job /\ FailAlarm(r)
      BY DEF Crash, Busy, At
<1> QED BY <1>1, FailedSound

-----------------------------------------------------------------------------
(* Calls that ask the control. *)

LEMMA ControlForSound ==
    ASSUME LedgerInv, SoundInv, NEW e \in Epoch
    PROVE  LET ctl == ControlFor(e)
           IN  IsControl(ctl) /\ ControlSound(ctl, armed) /\ (ctl.enabled => armed[ctl.epoch] = ctl.active)
<1> DEFINE ctl == ControlFor(e)
<1>1. e \in 0..MaxEpoch /\ 0 \notin Epoch
      BY LedgerAssumption DEF Epoch
<1>2. IsControl(control) /\ ControlSound(control, armed)
      /\ (control.enabled => control.epoch \in Epoch /\ armed[control.epoch] = control.active)
      BY DEF LedgerInv, ControlOK, SoundInv
<1>3. CASE control.epoch = 0
  <2>1. ctl = [control EXCEPT !.epoch = e]
        BY <1>3 DEF ControlFor
  <2>2. /\ ctl.epoch = e /\ ctl.maxConsumed = control.maxConsumed /\ IsControl(ctl)
        /\ ctl.active = control.active /\ ctl.used = control.used /\ ctl.enabled = control.enabled
        BY <1>2, <2>1 DEF IsControl
  <2>3. ~ctl.enabled
        BY <1>1, <1>2, <1>3, <2>2
  <2> QED BY <1>1, <1>2, <2>2, <2>3 DEF ControlSound
<1>4. CASE control.epoch # 0
  <2>1. ctl = control
        BY <1>4 DEF ControlFor
  <2> QED BY <1>2, <2>1
<1> QED BY <1>3, <1>4

LEMMA DisabledSound ==
    ASSUME NEW ctl, NEW a, NEW e \in Epoch, IsControl(ctl), ControlSound(ctl, a)
    PROVE  LET n == Disabled(ctl, e) IN IsControl(n) /\ ControlSound(n, a) /\ n.enabled = FALSE
<1> DEFINE n == Disabled(ctl, e)
<1>1. /\ n.epoch = e /\ n.maxConsumed = ctl.maxConsumed /\ n.active = None
      /\ n.used = ctl.used /\ n.enabled = FALSE
      BY DEF Disabled, IsControl
<1>2. IsControl(n)
      BY ControlFields DEF Disabled
<1>3. e \in 0..MaxEpoch
      BY LedgerAssumption DEF Epoch
<1> HIDE DEF n
<1> QED BY <1>1, <1>2, <1>3 DEF ControlSound, n

LEMMA ControlKeepsSound ==
    ASSUME LedgerInv, SoundInv, NEW cfg, ConfigOK(cfg), ReconcileControl(cfg)
    PROVE  ControlSound(control', armed') /\ Grows(armed, armed')
<1> DEFINE ctl == ControlFor(cfg.epoch)
<1>1. cfg.epoch \in Epoch /\ cfg.epoch \in 0..MaxEpoch
      BY LedgerAssumption DEF ConfigOK, Epoch
<1>2. IsControl(control) /\ ControlSound(control, armed) /\ armed \in [Epoch -> Request \cup {None}]
      BY DEF LedgerInv, ControlOK, SoundInv
<1>3. IsControl(ctl) /\ ControlSound(ctl, armed) /\ (ctl.enabled => armed[ctl.epoch] = ctl.active)
      BY <1>1, ControlForSound
<1>4. PICK n \in ControlUnder(cfg) :
         control' = n /\ armed' = IF n.enabled THEN [armed EXCEPT ![n.epoch] = n.active] ELSE armed
      BY DEF ReconcileControl
<1>5. Grows(armed, armed')
      BY ReconcileKeeps DEF LedgerInv
<1> HIDE DEF ctl
<1>6. CASE n = ctl
  <2>1. armed' = armed
        BY <1>2, <1>3, <1>4, <1>6
  <2> QED BY <1>3, <1>4, <1>5, <1>6, <2>1
<1>7. CASE n = Disabled(ctl, cfg.epoch)
  <2>1. ControlSound(n, armed) /\ n.enabled = FALSE
        BY <1>1, <1>3, <1>7, DisabledSound
  <2>2. armed' = armed
        BY <1>4, <2>1
  <2> QED BY <1>4, <1>5, <2>1, <2>2
<1>8. CASE /\ n = Enabled(ctl, cfg) /\ cfg.enabled /\ ctl.epoch = cfg.epoch /\ cfg.request \notin ctl.used
  <2> DEFINE q == cfg.request
  <2>1. /\ n.epoch = cfg.epoch /\ n.maxConsumed = cfg.epoch /\ n.active = q
        /\ n.used = ctl.used \cup {q} /\ n.enabled
        BY <1>3, <1>8 DEF Enabled, IsControl
  <2>2. armed' = [armed EXCEPT ![cfg.epoch] = q] /\ q \in Request
        BY <1>4, <1>8, <2>1 DEF ConfigOK
  <2>3. \A e \in Epoch : armed'[e] = IF e = cfg.epoch THEN q ELSE armed[e]
        BY <1>2, <2>2
  <2>4. q \notin ctl.used /\ \A e \in Epoch : armed[e] \in Request => armed[e] \in ctl.used
        BY <1>3, <1>8 DEF ControlSound
  <2>5. \A e \in Epoch : armed'[e] \in Request => armed'[e] \in n.used
        BY <2>1, <2>3, <2>4
  <2>6. \A e, f \in Epoch : armed[e] \in Request /\ armed[e] = armed[f] => e = f
        BY <1>3 DEF ControlSound
  <2> HIDE DEF q
  <2>7. ASSUME NEW e \in Epoch, NEW f \in Epoch, armed'[e] \in Request, armed'[e] = armed'[f]
        PROVE  e = f
        BY <2>2, <2>3, <2>4, <2>6, <2>7
  <2> QED BY <1>1, <1>3, <1>4, <1>5, <2>1, <2>2, <2>5, <2>7 DEF ControlSound
<1>9. n = ctl \/ n = Disabled(ctl, cfg.epoch)
      \/ (n = Enabled(ctl, cfg) /\ cfg.enabled /\ ctl.epoch = cfg.epoch /\ cfg.request \notin ctl.used)
      BY <1>4 DEF ControlUnder, ctl
<1> QED BY <1>6, <1>7, <1>8, <1>9

LEMMA AskSound ==
    ASSUME LedgerInv, SoundInv, NEW c \in Call, NEW s, NEW u, s # "idle", AskControl(c, s, u),
           \/ s \in Past /\ u \in Looking
           \/ s \in Reserving /\ u \in Reserving
    PROVE  SoundInv'
<1> DEFINE r == RequestOf(c)
<1>1. /\ Busy(c) /\ now' = now /\ UNCHANGED requestVars /\ ReconcileControl(CallOf(c).config)
      /\ handler[c].at = s
      /\ handler' = [handler EXCEPT ![c].at = u, ![c].seen = Unread, ![c].time = now]
      BY DEF AskControl, At, Busy
<1>2. /\ r \in Request /\ HandlerOK(handler[c], armed, intents)
      /\ HandlerSound(handler[c], armed, row[r], job[r].stage, now) /\ now \in Nat /\ now <= now
      BY <1>1, BusyFacts, SoundTime
<1>3. ConfigOK(CallOf(c).config)
      BY <1>2 DEF HandlerOK, CallOf
<1>4. ControlSound(control', armed') /\ Grows(armed, armed')
      BY <1>1, <1>3, ControlKeepsSound
<1>5. row'[r] = row[r]
      BY <1>1 DEF requestVars
<1>6. HandMoves(c, r)
  <2>1. CASE s \in Past /\ u \in Looking
    <3>1. Begun(row'[r])
          BY <1>1, <1>2, <1>5, <2>1 DEF HandlerSound, Phase
    <3> QED BY <1>1, <1>2, <1>4, <2>1, <3>1, LooksOn
  <2>2. CASE s \in Reserving /\ u \in Reserving
    <3>1. row[r].state # "none" /\ (handler[c].fresh \/ Begun(row[r]))
          BY <1>1, <1>2, <2>2 DEF HandlerSound, Phase
    <3> QED BY <1>1, <1>2, <1>4, <1>5, <2>2, <3>1, GoesOn
  <2> QED BY <2>1, <2>2
<1> QED BY <1>1, <1>2, <1>4, <1>6, QuietSound

(* A new call for a request, which has read nothing. *)
Starts(c, x, s, cfg, q, t, p) ==
    /\ x = [Idle EXCEPT !.at = s, !.config = cfg, !.request = q, !.proof = p, !.time = t]
    /\ handler' = [handler EXCEPT ![c] = x]

LEMMA NewCall ==
    ASSUME LedgerInv, NEW c \in Call, NEW s, NEW cfg, NEW q, NEW t, NEW p, NEW x,
           Starts(c, x, s, cfg, q, t, p)
    PROVE  /\ handler'[c] = x /\ Becomes(c, x) /\ c \notin Request
           /\ x.at = s /\ x.config = cfg /\ x.request = q /\ x.time = t /\ x.proof = p
           /\ x.seen.state = "unread"
<1>1. Becomes(c, x) /\ handler'[c] = x
      BY DEF Becomes, LedgerInv, Starts
<1>2. IsHandler(Idle)
      BY DEF IsHandler, Idle
<1>3. x.at = s /\ x.config = cfg /\ x.request = q /\ x.time = t /\ x.proof = p /\ x.seen = Idle.seen
      BY <1>2 DEF IsHandler, Starts
<1>4. Idle.seen.state = "unread"
      BY DEF Idle, Unread, NoRow
<1> QED BY <1>1, <1>3, <1>4, LedgerAssumption

LEMMA IdleFields == Idle.proof = "none" /\ Idle.time = 0 /\ IsHandler(Idle)
BY DEF Idle, IsHandler

LEMMA StartIssueSound ==
    ASSUME LedgerInv, SoundInv, NEW c \in Call, StartIssue(c)
    PROVE  SoundInv'
<1>1. PICK cfg \in Config :
         /\ cfg.enabled /\ ReconcileControl(cfg)
         /\ handler' = [handler EXCEPT ![c] = [Idle EXCEPT !.at = "status", !.config = cfg,
                                                          !.request = cfg.request]]
      BY DEF StartIssue
<1> DEFINE q == cfg.request
           x == handler'[c]
<1>2. ConfigOK(cfg) /\ q \in Request /\ now' = now /\ UNCHANGED requestVars
      BY <1>1, ConfigsOK DEF StartIssue, ConfigOK
<1>3. ControlSound(control', armed') /\ Grows(armed, armed') /\ armed'[cfg.epoch] = q
      BY <1>1, <1>2, ControlKeepsSound, ReconcileKeeps DEF LedgerInv
<1>4. Starts(c, x, "status", cfg, q, 0, "none")
  <2>1. [Idle EXCEPT !.at = "status", !.config = cfg, !.request = q]
        = [Idle EXCEPT !.at = "status", !.config = cfg, !.request = q, !.proof = "none", !.time = 0]
    <3> HIDE DEF q
    <3> QED BY IdleFields DEF IsHandler
  <2> QED BY <1>1, <2>1 DEF LedgerInv, Starts
<1> HIDE DEF q, x
<1>5. /\ Becomes(c, x) /\ c \notin Request
      /\ x.at = "status" /\ x.config = cfg /\ x.request = q /\ x.time = 0
      /\ x.seen.state = "unread" /\ handler'[c] = x
      BY <1>4, NewCall
<1>6. Granted(x, armed')
      BY <1>1, <1>3, <1>5 DEF Granted, q
<1>7. Phase(x, row'[q], armed')
      BY <1>5, <1>6 DEF Phase, Reserving, Past, AlarmSteps
<1>8. 0 \in Nat /\ 0 <= now
      BY SoundTime
<1>9. HandlerSound(x, armed', row'[q], job'[q].stage, now)
      BY <1>5, <1>7, <1>8 DEF HandlerSound, Plain
<1>10. HandMoves(c, q)
      BY <1>5, <1>9 DEF HandMoves
<1> QED BY <1>2, <1>3, <1>10, QuietSound DEF q

LEMMA StartClaimSound ==
    ASSUME LedgerInv, SoundInv, NEW c \in Call, StartClaim(c)
    PROVE  SoundInv'
<1>1. PICK cfg \in Config :
         /\ cfg.enabled /\ job[cfg.request].stage = "authorized"
         /\ handler' = [handler EXCEPT ![c] = [Idle EXCEPT !.at = "authorize-read", !.config = cfg,
                                                          !.request = cfg.request]]
      BY DEF StartClaim
<1> DEFINE q == cfg.request
           x == handler'[c]
<1>2. ConfigOK(cfg) /\ q \in Request /\ now' = now /\ UNCHANGED requestVars /\ UNCHANGED controlVars
      BY <1>1, ConfigsOK DEF StartClaim, ConfigOK
<1>3. ControlSound(control', armed') /\ Grows(armed, armed')
      BY <1>2, SameControl
<1>4. Begun(row[q]) /\ row'[q] = row[q]
      BY <1>1, <1>2 DEF SoundInv, RequestSound, JobSound, requestVars
<1>5. Starts(c, x, "authorize-read", cfg, q, 0, "none")
  <2>1. [Idle EXCEPT !.at = "authorize-read", !.config = cfg, !.request = q]
        = [Idle EXCEPT !.at = "authorize-read", !.config = cfg, !.request = q, !.proof = "none", !.time = 0]
    <3> HIDE DEF q
    <3> QED BY IdleFields DEF IsHandler
  <2> QED BY <1>1, <2>1 DEF LedgerInv, Starts
<1> HIDE DEF q, x
<1>6. /\ Becomes(c, x) /\ c \notin Request
      /\ x.at = "authorize-read" /\ x.config = cfg /\ x.request = q /\ x.time = 0
      /\ x.seen.state = "unread" /\ handler'[c] = x
      BY <1>5, NewCall
<1>7. Phase(x, row'[q], armed')
      BY <1>4, <1>6 DEF Phase, Reserving, q
<1>8. 0 \in Nat /\ 0 <= now
      BY SoundTime
<1>9. HandlerSound(x, armed', row'[q], job'[q].stage, now)
      BY <1>6, <1>7, <1>8 DEF HandlerSound
<1>10. HandMoves(c, q)
      BY <1>6, <1>9 DEF HandMoves
<1> QED BY <1>2, <1>3, <1>10, QuietSound DEF q

LEMMA ReadStatusSound ==
    ASSUME LedgerInv, SoundInv, NEW c \in Call, ReadStatus(c)
    PROVE  SoundInv'
<1> DEFINE r == RequestOf(c)
           w == IF Loaded(c) THEN CallOf(c).seen ELSE row[r]
           s == CASE Plain(w)            -> "install"
                  [] w.state = "issuing" -> "authorize-reserve"
                  [] w.state = "issued"  -> "read-issued"
                  [] OTHER               -> "idle"
           f == s = "install"
           t == IF s = "read-issued" THEN now ELSE 0
           x == handler'[c]
           y == handler[c]
<1>1. /\ Busy(c) /\ now' = now /\ UNCHANGED controlVars /\ UNCHANGED row /\ UNCHANGED job
      /\ y.at = "status"
      BY DEF ReadStatus, At, Busy
<1>2. /\ r \in Request /\ HandlerOK(y, armed, intents) /\ y.request = r
      /\ HandlerSound(y, armed, row[r], job[r].stage, now) /\ RequestSound(r)
      /\ c \notin Request /\ now \in Nat /\ 0 <= now /\ now <= now
      BY <1>1, BusyFacts, SoundTime, LedgerAssumption DEF RequestOf
<1>3. handler' = [handler EXCEPT ![c] = IF s = "idle" THEN Idle
                                        ELSE [@ EXCEPT !.at = s, !.seen = Unread, !.fresh = f, !.time = t]]
      BY Zenon DEF ReadStatus
<1>12. /\ Loaded(c) => Begun(w) /\ Later(w, row[r], now) /\ RowTyped(w) /\ Begun(row[r])
       /\ ~Loaded(c) => w = row[r] /\ Plain(w)
  <2>1. CASE Loaded(c)
    <3>1. w = Seen(c) /\ w.state # "unread" /\ ~Plain(w)
          BY <1>1, <1>2, <2>1 DEF HandlerSound, Loaded, Seen, CallOf
    <3>2. RowTyped(w) /\ Later(w, row[r], now)
          BY <1>1, <2>1, <3>1, SeenFacts
    <3>3. Begun(w)
          BY <3>1 DEF Begun, Plain
    <3> QED BY <2>1, <3>2, <3>3 DEF Later
  <2>2. CASE ~Loaded(c)
        BY <2>2 DEF ReadStatus
  <2> QED BY <2>1, <2>2
<1> HIDE DEF w
<1>4. /\ s = "install" => f
      /\ s = "authorize-reserve" => ~f /\ Begun(row[r])
      /\ s = "read-issued" => Begun(row[r])
      /\ s \in {"install", "authorize-reserve", "read-issued", "idle"}
      /\ t \in Nat /\ t <= now
  <2>1. CASE Plain(w)
        BY <1>2, <2>1 DEF Plain
  <2>2. CASE ~Plain(w)
    <3>1. Loaded(c) /\ Begun(row[r])
          BY <1>12, <2>2
    <3> QED BY <1>2, <2>2, <3>1
  <2> QED BY <2>1, <2>2
<1>5. RowMoves(r, row[r]) /\ RowTyped(row[r])
      BY <1>1, <1>2, RowKeeps
<1>6. UNCHANGED alarm \/ Repair(r, w)
      BY DEF ReadStatus, w
<1> HIDE DEF s, f, t
<1>7. Becomes(c, x)
      BY <1>3 DEF Becomes, LedgerInv
<1>8. x = IF s = "idle" THEN Idle ELSE [y EXCEPT !.at = s, !.seen = Unread, !.fresh = f, !.time = t]
      BY <1>3 DEF LedgerInv
<1>9. AlarmMoves(r, row[r])
  <2>1. CASE UNCHANGED alarm
        BY <1>2, <1>7, <2>1, CallAlarmStays
  <2>2. CASE Repair(r, w)
        BY <1>2, <1>5, <1>12, <2>2, RepairMoves, RepairSelfMoves
  <2> QED BY <1>6, <2>1, <2>2
<1>10. x = handler'[c]
      OBVIOUS
<1> HIDE DEF x
<1>11. HandMoves(c, r)
  <2>1. CASE s = "idle"
    <3>1. x.at = "idle"
          BY <1>8, <2>1 DEF Idle
    <3> QED BY <1>2, <1>7, <1>10, <3>1 DEF HandMoves
  <2>2. CASE s # "idle"
    <3>1. x = [y EXCEPT !.at = s, !.seen = Unread, !.fresh = f, !.time = t]
          BY <1>8, <2>2
    <3>2. /\ x.at = s /\ x.fresh = f /\ x.time = t /\ x.seen = Unread /\ x.config = y.config
          /\ x.request = r
          BY <1>2, <3>1 DEF HandlerOK, IsHandler
    <3>3. Unread.state = "unread" /\ Granted(y, armed)
          BY <1>1, <1>2 DEF HandlerSound, Phase, Unread, NoRow
    <3>4. Granted(x, armed)
          BY <1>2, <3>2, <3>3 DEF Granted
    <3>5. Phase(x, row[r], armed)
          BY <1>4, <3>2, <3>4 DEF Phase, Reserving, Past, AlarmSteps, Begun
    <3>6. HandlerSound(x, armed, row[r], job[r].stage, now)
          BY <1>4, <3>2, <3>3, <3>5 DEF HandlerSound
    <3>7. armed' = armed /\ row'[r] = row[r] /\ job'[r] = job[r]
          BY <1>1 DEF controlVars
    <3> QED BY <1>2, <1>7, <1>10, <3>2, <3>6, <3>7 DEF HandMoves
  <2> QED BY <2>1, <2>2
<1> QED BY <1>1, <1>2, <1>5, <1>9, <1>11, MethodSound DEF JobMoves

LEMMA InstalledSound ==
    ASSUME NEW rw, NEW t \in Nat, RowSound(rw, t), NEW cfg, NEW n \in Installed(rw, cfg)
    PROVE  /\ RowSound(n, t) /\ Later(rw, n, t) /\ n.state = "armed" /\ Deadline(n) = Never
           /\ ~Begun(rw)
<1>1. CASE rw.state = "none"
  <2>1. rw = NoRow
        BY <1>1 DEF RowSound, RowLoads
  <2>2. n = [NoRow EXCEPT !.state = "armed", !.revision = 0, !.epoch = cfg.epoch]
        BY <1>1, <2>1 DEF Installed
  <2>3. n = [state |-> "armed", revision |-> 0, epoch |-> cfg.epoch, at |-> Never, reservedAt |-> Never,
             claimedAt |-> Never, attempts |-> 0, next |-> Never]
        BY <2>2, Zenon DEF NoRow
  <2>4. RowTyped(n)
        BY <2>3 DEF RowTyped, States, Claimed, Terminal, Begun
  <2>5. RowLoads(n) /\ n.at <= t
        BY <2>3 DEF RowLoads, Claimed, Terminal, Never
  <2>6. Deadline(n) = Never
        BY <2>3 DEF Deadline
  <2>7. Later(rw, n, t)
        BY <2>1, <2>3 DEF Later, NoRow, Begun
  <2> QED BY <1>1, <2>3, <2>4, <2>5, <2>6, <2>7 DEF RowSound, Begun
<1>2. CASE rw.state # "none"
  <2>1. n = rw /\ rw.state = "armed"
        BY <1>2 DEF Installed
  <2>2. Later(rw, rw, t)
        BY LaterSelf DEF RowSound
  <2>3. Deadline(rw) = Never
        BY <2>1 DEF Deadline
  <2> QED BY <2>1, <2>2, <2>3 DEF Begun
<1> QED BY <1>1, <1>2

LEMMA InstallSound ==
    ASSUME LedgerInv, SoundInv, NEW c \in Call, InstallArming(c)
    PROVE  SoundInv'
<1> DEFINE r == RequestOf(c)
<1>1. /\ Busy(c) /\ now' = now /\ UNCHANGED controlVars /\ UNCHANGED alarm /\ UNCHANGED job
      /\ handler[c].at = "install" /\ Go(c, "authorize-reserve")
      BY DEF InstallArming, At, Busy
<1>2. /\ r \in Request /\ HandlerOK(handler[c], armed, intents)
      /\ HandlerSound(handler[c], armed, row[r], job[r].stage, now) /\ RequestSound(r)
      /\ c \notin Request /\ now \in Nat /\ 0 \in Nat /\ 0 <= now
      BY <1>1, BusyFacts, SoundTime, LedgerAssumption
<1>3. PICK n \in Installed(row[r], CallOf(c).config) : row' = [row EXCEPT ![r] = n]
      BY DEF InstallArming
<1>4. /\ RowSound(n, now) /\ Later(row[r], n, now) /\ n.state = "armed" /\ Deadline(n) = Never
      /\ ~Begun(row[r])
      BY <1>2, <1>3, InstalledSound DEF RequestSound
<1>5. RowMoves(r, n)
      BY <1>3, <1>4, NotTerminalShown DEF RowMoves, Terminal
<1>6. AlarmMoves(r, n)
  <2>1. alarm[r] = Never
        BY <1>2, <1>4 DEF RequestSound, AlarmSound
  <2>2. Fit(Never, n, now)
        BY <1>4 DEF Fit, InTime
  <2>3. alarm' = [alarm EXCEPT ![r] = Never]
        BY <1>1, <1>2, <2>1 DEF SoundInv
  <2> QED BY <2>2, <2>3 DEF AlarmMoves
<1>7. HandMoves(c, r)
  <2>1. Grows(armed, armed') /\ row'[r] = n
        BY <1>1, <1>2, <1>3, Same DEF LedgerInv
  <2>2. handler[c].fresh
        BY <1>1, <1>2 DEF HandlerSound
  <2>3. handler' = [handler EXCEPT ![c].at = "authorize-reserve", ![c].seen = Unread, ![c].time = 0]
        BY <1>1 DEF Go
  <2>4. "authorize-reserve" \in Reserving /\ n.state # "none"
        BY <1>4 DEF Reserving
  <2> QED BY <1>1, <1>2, <2>1, <2>2, <2>3, <2>4, GoesOn
<1> QED BY <1>1, <1>2, <1>5, <1>6, <1>7, MethodSound DEF JobMoves

LEMMA FinishSound ==
    ASSUME LedgerInv, SoundInv, NEW c \in Call, NEW r \in Request, Finish(c, r)
    PROVE  SoundInv'
<1> DEFINE s == IF now >= ClaimDeadline(row[r]) THEN "reconcile" ELSE "complete"
           x == handler'[c]
           cfg == Idle.config
<1>1. /\ now' = now /\ UNCHANGED controlVars /\ UNCHANGED row /\ UNCHANGED job /\ Repair(r, row[r])
      /\ row[r].state \in {"claimed", "required"}
      BY DEF Finish
<1>2. PICK proof \in Evidence(r) \ {"ambiguous"} :
         /\ s = "reconcile" \/ proof = "completed"
         /\ handler' = [handler EXCEPT ![c] =
                [Idle EXCEPT !.at = s, !.request = r, !.proof = proof, !.time = now]]
      BY Zenon DEF Finish
<1>3. s \in {"complete", "reconcile"}
      OBVIOUS
<1> HIDE DEF s
<1>4. proof \in Terminal /\ Shown(proof, job[r].stage)
      BY <1>2, EvidenceShown
<1>5. Starts(c, x, s, cfg, r, now, proof)
  <2>1. [Idle EXCEPT !.at = s, !.request = r, !.proof = proof, !.time = now]
        = [Idle EXCEPT !.at = s, !.config = cfg, !.request = r, !.proof = proof, !.time = now]
        BY IdleFields DEF IsHandler
  <2> QED BY <1>2, <2>1 DEF LedgerInv, Starts
<1> HIDE DEF x
<1>6. /\ Becomes(c, x) /\ c \notin Request
      /\ x.at = s /\ x.request = r /\ x.time = now /\ x.proof = proof
      /\ x.seen.state = "unread" /\ handler'[c] = x
      BY <1>5, NewCall
<1>7. RowMoves(r, row[r]) /\ AlarmMoves(r, row[r])
      BY <1>1, RowKeeps, RepairSelfMoves
<1>8. Phase(x, row[r], armed)
      BY <1>1, <1>3, <1>6 DEF Phase, Begun, Reserving
<1>9. now \in Nat /\ now <= now
      BY SoundTime
<1>10. HandlerSound(x, armed, row[r], job[r].stage, now)
      BY <1>2, <1>3, <1>4, <1>6, <1>8, <1>9 DEF HandlerSound
<1>11. armed' = armed
      BY <1>1 DEF controlVars
<1>12. HandMoves(c, r)
      BY <1>1, <1>6, <1>10, <1>11 DEF HandMoves
<1> QED BY <1>1, <1>7, <1>12, MethodSound DEF JobMoves

LEMMA ReservePreparationSound ==
    ASSUME LedgerInv, SoundInv, NEW c \in Call, NEW cfg \in Config, ReservePreparation(c, cfg)
    PROVE  SoundInv'
<1> DEFINE base == ControlFor(cfg.epoch)
           ctl == IF cfg.epoch > base.epoch /\ ~base.enabled THEN Disabled(base, cfg.epoch) ELSE base
           x == handler'[c]
<1>1. /\ ConfigOK(cfg) /\ cfg.request \in Request \cup {None} /\ cfg.epoch \in Epoch
      /\ UNCHANGED requestVars /\ now' = now /\ armed' = armed /\ control' = ctl
      BY ConfigsOK DEF ReservePreparation, ConfigOK
<1>2. PICK i \in IntentFor(cfg, ctl) :
         handler' = [handler EXCEPT ![c] = [Idle EXCEPT
                !.at = IF i.receipt = None THEN "sign" ELSE "hand-out",
                !.config = cfg, !.request = i.request, !.proof = i.receipt]]
      BY Zenon DEF ReservePreparation
<1>3. IsControl(base) /\ ControlSound(base, armed)
      BY <1>1, ControlForSound
<1> HIDE DEF base
<1>4. ControlSound(ctl, armed)
      BY <1>1, <1>3, DisabledSound
<1> HIDE DEF ctl
<1>5. ControlSound(control', armed') /\ Grows(armed, armed')
      BY <1>1, <1>4 DEF Grows
<1> DEFINE q == i.request
           p == i.receipt
           s == IF i.receipt = None THEN "sign" ELSE "hand-out"
<1>6. q \in Request
      BY <1>1, <1>2, IntentsFor
<1>7. s \in {"sign", "hand-out"}
      OBVIOUS
<1> HIDE DEF q, p, s
<1>8. Starts(c, x, s, cfg, q, 0, p)
  <2>1. [Idle EXCEPT !.at = s, !.config = cfg, !.request = q, !.proof = p]
        = [Idle EXCEPT !.at = s, !.config = cfg, !.request = q, !.proof = p, !.time = 0]
        BY IdleFields DEF IsHandler
  <2> QED BY <1>2, <2>1 DEF LedgerInv, Starts, q, p, s
<1> HIDE DEF x
<1>9. /\ Becomes(c, x) /\ c \notin Request /\ x.at = s /\ x.request = q /\ x.time = 0
      /\ x.seen.state = "unread" /\ handler'[c] = x
      BY <1>8, NewCall
<1>10. 0 \in Nat /\ 0 <= now
      BY SoundTime
<1>11. HandlerSound(x, armed', row'[q], job'[q].stage, now)
      BY <1>7, <1>9, <1>10 DEF HandlerSound, Phase, Reserving, Past, AlarmSteps
<1>12. HandMoves(c, q)
      BY <1>9, <1>11 DEF HandMoves
<1> QED BY <1>1, <1>5, <1>6, <1>12, QuietSound

LEMMA FinalizePreparationSound ==
    ASSUME LedgerInv, SoundInv, NEW c \in Call, FinalizePreparation(c)
    PROVE  SoundInv'
<1> DEFINE r == RequestOf(c)
           p == ReceiptKept(c, intents[CallOf(c).config.epoch])
           x == handler'[c]
           y == handler[c]
<1>1. /\ Busy(c) /\ now' = now /\ UNCHANGED requestVars /\ armed' = armed /\ control' = control
      /\ y.at = "sign"
      BY DEF FinalizePreparation, At, Busy
<1>2. handler' = [handler EXCEPT ![c].at = "hand-out", ![c].proof = p]
      BY DEF FinalizePreparation
<1>3. /\ r \in Request /\ HandlerOK(y, armed, intents) /\ y.request = r /\ c \notin Request
      /\ HandlerSound(y, armed, row[r], job[r].stage, now)
      BY <1>1, BusyFacts, LedgerAssumption DEF RequestOf
<1> HIDE DEF p
<1>4. Becomes(c, x) /\ x = [y EXCEPT !.at = "hand-out", !.proof = p]
      BY <1>2 DEF Becomes, LedgerInv
<1>5. handler'[c] = x
      OBVIOUS
<1> HIDE DEF x
<1>6. x.at = "hand-out" /\ x.time = y.time /\ x.seen = y.seen /\ x.request = r
      BY <1>3, <1>4 DEF HandlerOK, IsHandler
<1>7. HandlerSound(x, armed, row[r], job[r].stage, now)
      BY <1>3, <1>6 DEF HandlerSound, Phase, Reserving, Past, AlarmSteps
<1>8. row' = row /\ job' = job
      BY <1>1 DEF requestVars
<1>9. HandMoves(c, r)
      BY <1>1, <1>3, <1>4, <1>5, <1>6, <1>7, <1>8 DEF HandMoves
<1>10. ControlSound(control', armed') /\ Grows(armed, armed')
      BY <1>1 DEF SoundInv, Grows
<1> QED BY <1>1, <1>3, <1>9, <1>10, QuietSound

LEMMA OverSound ==
    ASSUME LedgerInv, SoundInv, now' = now, UNCHANGED controlVars, UNCHANGED requestVars,
           NEW c \in Call, Busy(c), End(c)
    PROVE  SoundInv'
<1>1. RequestOf(c) \in Request /\ c \notin Request
      BY BusyFacts, LedgerAssumption
<1> QED BY <1>1, IdleMoves, SameControl, QuietSound

-----------------------------------------------------------------------------
(* Steps of no call: the job, the status call and the clock.                  *)

LEMMA JobStepSound ==
    ASSUME LedgerInv, SoundInv, NEW r \in Request, JobNext(r)
    PROVE  SoundInv'
<1>1. /\ now' = now /\ UNCHANGED handler /\ UNCHANGED controlVars /\ UNCHANGED row /\ UNCHANGED alarm
      BY DEF JobNext, StartDeployStep, Deployed, EndJob
<1>2. /\ RequestSound(r) /\ job = [q \in Request |-> job[q]] /\ now \in Nat
      BY SoundTime DEF SoundInv
<1>3. PICK s \in {"deploying", "deployed", "ended"} :
         /\ job' = [job EXCEPT ![r].stage = s]
         /\ job[r].stage \notin {"deployed", "ended"}
      BY DEF JobNext, StartDeployStep, Deployed, EndJob
<1>4. job'[r] = [job[r] EXCEPT !.stage = s] /\ \A q \in Request \ {r} : job'[q] = job[q]
      BY <1>2, <1>3
<1>5. IsJob(job'[r]) /\ job'[r].stage = s
      BY <1>2, <1>4 DEF RequestSound, IsJob
<1>6. JobSound(job'[r], row[r]) /\ Final(job[r].stage, job'[r].stage)
      BY <1>2, <1>3, <1>5 DEF RequestSound, JobSound, Shown, Stages, Final
<1>7. ASSUME NEW q \in Request
      PROVE  /\ RowSound(row'[q], now') /\ Later(row[q], row'[q], now')
             /\ Final(job[q].stage, job'[q].stage) /\ RequestSound(q)'
  <2>1. RequestSound(q)
        BY DEF SoundInv
  <2>2. RowSound(row'[q], now') /\ Later(row[q], row'[q], now')
        BY <1>1, <2>1, LaterSelf DEF RequestSound, RowSound
  <2>3. CASE q = r
        BY <1>1, <1>5, <1>6, <2>1, <2>2, <2>3 DEF RequestSound
  <2>4. CASE q # r
    <3>1. job'[q] = job[q]
          BY <1>4, <2>4
    <3> QED BY <1>1, <2>1, <2>2, <3>1 DEF RequestSound, Final
  <2> QED BY <2>3, <2>4, <2>2
<1>8. ControlSound(control', armed') /\ Grows(armed, armed')
      BY <1>1, SameControl
<1>9. now' \in Nat /\ now <= now'
      BY <1>1, <1>2
<1>10. ASSUME NEW h \in Call \cup Request
       PROVE  BusySound(h)'
  <2>1. handler'[h] = handler[h]
        BY <1>1
  <2> QED BY <1>7, <1>8, <1>9, <2>1, OthersStay
<1>11. alarm' = [q \in Request |-> alarm'[q]] /\ job' = [q \in Request |-> job'[q]]
      BY <1>1, <1>3 DEF SoundInv
<1> QED BY <1>1, <1>7, <1>8, <1>10, <1>11 DEF SoundInv

LEMMA TimeSound ==
    ASSUME LedgerInv, SoundInv, UNCHANGED handler, UNCHANGED requestVars,
           ControlSound(control', armed'), Grows(armed, armed'),
           now' \in 0..MaxTime, now <= now'
    PROVE  SoundInv'
<1>1. now \in Nat /\ now' \in Nat
      BY SoundTime, LedgerAssumption
<1>2. UNCHANGED row /\ UNCHANGED alarm /\ UNCHANGED job
      BY DEF requestVars
<1>3. ASSUME NEW q \in Request
      PROVE  /\ RowSound(row'[q], now') /\ Later(row[q], row'[q], now')
             /\ Final(job[q].stage, job'[q].stage) /\ RequestSound(q)'
  <2>1. RequestSound(q)
        BY DEF SoundInv
  <2>2. RowSound(row[q], now') /\ Later(row[q], row[q], now')
        BY <1>1, <2>1, SoundLonger, LaterSelf DEF RequestSound, RowSound
  <2>3. AlarmSound(alarm[q], row[q], handler[q].at = "idle", now')
    <3> DEFINE d == Deadline(row[q])
               v == alarm[q]
    <3>1. d \in Nat \cup {Never}
          BY <2>1, DeadlineType DEF RequestSound, RowSound
    <3>2. AlarmSound(v, row[q], handler[q].at = "idle", now)
          BY <2>1 DEF RequestSound
    <3> HIDE DEF d, v
    <3>3. InTime(v, row[q], now) => InTime(v, row[q], now')
          BY <1>1, <3>1, <3>2 DEF InTime, AlarmSound, d, Never
    <3>4. AlarmSound(v, row[q], handler[q].at = "idle", now')
          BY <3>2, <3>3 DEF AlarmSound
    <3> QED BY <3>4 DEF v
  <2> QED BY <1>2, <2>1, <2>2, <2>3 DEF RequestSound, Final
<1>4. ASSUME NEW h \in Call \cup Request
      PROVE  BusySound(h)'
  <2>1. handler'[h] = handler[h]
        OBVIOUS
  <2> QED BY <1>1, <1>3, <2>1, OthersStay
<1>5. alarm' = [q \in Request |-> alarm'[q]] /\ job' = [q \in Request |-> job'[q]]
      BY <1>2 DEF SoundInv
<1> QED BY <1>3, <1>4, <1>5 DEF SoundInv

-----------------------------------------------------------------------------
LEMMA InitSound == Init => SoundInv
<1> SUFFICES ASSUME Init PROVE SoundInv
    OBVIOUS
<1>1. ControlSound(control, armed)
  <2>1. control = NoControl /\ armed = [e \in Epoch |-> None]
        BY DEF Init
  <2>2. \A e \in Epoch : armed[e] \notin Request
        BY <2>1, LedgerAssumption
  <2> QED BY <2>1, <2>2, LedgerAssumption DEF ControlSound, NoControl
<1>2. now = 0 /\ 0 \in 0..MaxTime
      BY LedgerAssumption DEF Init
<1>3. NoRow.state = "none" /\ Deadline(NoRow) = Never
      BY DEF NoRow, Deadline
<1>4. RowSound(NoRow, 0)
  <2>1. RowTyped(NoRow)
        BY DEF RowTyped, NoRow, States, Begun, Claimed, Terminal
  <2>2. RowLoads(NoRow)
        BY DEF RowLoads, NoRow, Claimed, Terminal
  <2>3. NoRow.at <= 0
        BY DEF NoRow, Never
  <2> QED BY <2>1, <2>2, <2>3 DEF RowSound
<1>5. Idle.at = "idle"
      BY DEF Idle
<1>6. ASSUME NEW r \in Request
      PROVE  RequestSound(r)
  <2>1. row[r] = NoRow /\ alarm[r] = Never /\ job[r] = [stage |-> "waiting", receipt |-> FALSE]
        BY DEF Init
  <2>2. AlarmSound(Never, NoRow, handler[r].at = "idle", 0)
        BY <1>3 DEF AlarmSound, InTime
  <2>3. IsJob(job[r]) /\ JobSound(job[r], NoRow)
        BY <1>3, <2>1 DEF IsJob, JobSound, Stages, Shown
  <2> QED BY <1>2, <1>4, <2>1, <2>2, <2>3 DEF RequestSound
<1>7. \A h \in Call \cup Request : BusySound(h)
      BY <1>5 DEF Init, BusySound
<1>8. alarm = [r \in Request |-> alarm[r]] /\ job = [r \in Request |-> job[r]]
      BY DEF Init
<1> QED BY <1>1, <1>2, <1>6, <1>7, <1>8 DEF SoundInv

LEMMA NextSound == LedgerInv /\ SoundInv /\ [Next]_vars => SoundInv'
<1> SUFFICES ASSUME LedgerInv, SoundInv, [Next]_vars PROVE SoundInv'
    OBVIOUS
<1>1. ASSUME NEW c \in Call, CallNext(c)
      PROVE  SoundInv'
  <2>1. CASE StartIssue(c) BY <2>1, StartIssueSound
  <2>2. CASE ReadStatus(c) BY <2>2, ReadStatusSound
  <2>3. CASE InstallArming(c) BY <2>3, InstallSound
  <2>4. CASE AuthorizeReserve(c)
        BY <2>4, AskSound DEF AuthorizeReserve, Reserving
  <2>5. CASE ReserveIssue(c) BY <2>5, ReserveSound
  <2>6. CASE AuthorizeFinalize(c)
        BY <2>6, AskSound DEF AuthorizeFinalize, Past, Looking
  <2>7. CASE FinalizeIssue(c) BY <2>7, FinalizeSound
  <2>8. CASE ReadAgain(c) BY <2>8, ReadAgainSound
  <2>9. CASE StartClaim(c) BY <2>9, StartClaimSound
  <2>10. CASE ReadRetained(c) BY <2>10, ReadRetainedSound
  <2>20. CASE AuthorizeRead(c)
        BY <2>20, AskSound DEF AuthorizeRead, Past, Looking
  <2>11. CASE AuthorizeClaim(c)
        BY <2>11, AskSound DEF AuthorizeClaim, Past, Looking
  <2>12. CASE Claim(c) BY <2>12, ClaimStepSound
  <2>13. CASE \E r \in Request : Finish(c, r) BY <2>13, FinishSound
  <2>14. CASE Complete(c) BY <2>14, CompleteSound
  <2>15. CASE Reconcile(c) BY <2>15, ReconcileSound
  <2>16. CASE \E cfg \in Config : ReservePreparation(c, cfg) BY <2>16, ReservePreparationSound
  <2>17. CASE FinalizePreparation(c) BY <2>17, FinalizePreparationSound
  <2>18. CASE HandOutReceipt(c)
        BY <2>18, OverSound DEF HandOutReceipt, Busy, At
  <2>19. CASE Abandon(c)
        BY <2>19, OverSound DEF Abandon, Busy, At
  <2> QED BY <1>1, <2>1, <2>2, <2>3, <2>4, <2>5, <2>6, <2>7, <2>8, <2>9, <2>10, <2>11, <2>12,
             <2>13, <2>14, <2>15, <2>16, <2>17, <2>18, <2>19, <2>20 DEF CallNext
<1>2. ASSUME NEW h \in Call \cup Request, Load(h)
      PROVE  SoundInv'
      BY <1>2, LoadSound
<1>3. ASSUME NEW r \in Request, Ring(r) \/ AlarmNext(r) \/ Crash(r)
      PROVE  SoundInv'
      BY <1>3, RingSound, RunAlarmSound, LookSound, SettleSound, CrashSound DEF AlarmNext
<1>4. ASSUME NEW r \in Request, JobNext(r)
      PROVE  SoundInv'
      BY <1>4, JobStepSound
<1>5. now \in 0..MaxTime /\ now <= now
      BY SoundTime DEF SoundInv
<1>6. CASE SignStatus
  <2>1. PICK cfg \in Config : ReconcileControl(cfg)
        BY <1>6 DEF SignStatus
  <2>2. ControlSound(control', armed') /\ Grows(armed, armed')
        BY <2>1, ConfigsOK, ControlKeepsSound
  <2>3. UNCHANGED handler /\ UNCHANGED requestVars /\ now' = now
        BY <1>6 DEF SignStatus
  <2> QED BY <1>5, <2>2, <2>3, TimeSound
<1>7. CASE Tick
  <2>1. UNCHANGED handler /\ UNCHANGED requestVars /\ UNCHANGED controlVars
        BY <1>7 DEF Tick
  <2>2. now' \in 0..MaxTime /\ now <= now'
        BY <1>5, <1>7, LedgerAssumption DEF Tick
  <2> QED BY <2>1, <2>2, SameControl, TimeSound
<1>8. CASE UNCHANGED vars
  <2>1. UNCHANGED handler /\ UNCHANGED requestVars /\ UNCHANGED controlVars /\ now' = now
        BY <1>8 DEF vars
  <2> QED BY <1>5, <2>1, SameControl, TimeSound
<1> QED BY <1>1, <1>2, <1>3, <1>4, <1>6, <1>7, <1>8 DEF Next

(* SoundInv is an invariant of the ledger. *)
THEOREM LedgerSound == Spec => []SoundInv
<1> QED BY InitInv, NextKeeps, InitSound, NextSound, PTL DEF Spec

(* Every stored row is one that #loadRecord accepts, and the control and the  *)
(* alarms have their types, whatever calls, alarms and crashes interleave.    *)
THEOREM TypeCorrect == Spec => []TypeOK
<1>1. LedgerInv /\ SoundInv => TypeOK
  <2> SUFFICES ASSUME LedgerInv, SoundInv PROVE TypeOK
      OBVIOUS
  <2>1. ASSUME NEW r \in Request
        PROVE  LET rw == row[r] IN
               /\ rw.state = "issued" => rw.at < ExpiresAt(rw)
               /\ rw.state = "required" => rw.attempts \in 0..Len(RetryDelays) + 1
    <3>1. RowTyped(row[r]) /\ RowLoads(row[r])
          BY DEF SoundInv, RequestSound, RowSound
    <3>2. Len(RetryDelays) \in Nat
          BY LedgerAssumption
    <3>3. row[r].state = "issued" => row[r].at < ExpiresAt(row[r])
          BY <3>1, LedgerAssumption DEF RowTyped, RowLoads, IssuingDeadline, ExpiresAt, Begun, Never
    <3>4. row[r].state = "required" => row[r].attempts \in 0..Len(RetryDelays) + 1
          BY <3>1, <3>2 DEF RowTyped, RowLoads
    <3> QED BY <3>3, <3>4
  <2>2. \A r \in Request : RowLoads(row[r])
        BY DEF SoundInv, RequestSound, RowSound
  <2>3. LoadsBack
        BY <2>1, <2>2 DEF LoadsBack, RowLoads
  <2>4. \A r \in Request : alarm[r] = Never \/ alarm[r] \in Nat
        BY DEF SoundInv, RequestSound, AlarmSound
  <2>5. control.enabled \in BOOLEAN /\ armed \in [Epoch -> Request \cup {None}]
        BY DEF LedgerInv, ControlOK
  <2>6. ControlSound(control, armed) /\ now \in 0..MaxTime
        BY DEF SoundInv
  <2> QED BY <2>3, <2>4, <2>5, <2>6 DEF TypeOK, ControlSound
<1> QED BY LedgerCorrect, LedgerSound, <1>1, PTL

(* A row that waits for a time has an alarm that is early enough, or its      *)
(* handler runs: for any number of calls with an old row and any crashes of   *)
(* the handler (#repairAlarm, alarm).                                         *)
THEOREM AlarmScheduledAlways == Spec => []AlarmScheduled
<1>1. SoundInv => AlarmScheduled
      BY DEF SoundInv, RequestSound, AlarmSound, InTime, AlarmScheduled, At
<1> QED BY LedgerSound, <1>1, PTL

(* What is recorded as completed was deployed, and what is recorded as not    *)
(* deployed never is (complete, reconcile, reconcile-proven).                 *)
THEOREM OutcomeIsTrueAlways == Spec => []OutcomeIsTrue
<1>1. SoundInv => OutcomeIsTrue
      BY DEF SoundInv, RequestSound, JobSound, Shown, OutcomeIsTrue
<1> QED BY LedgerSound, <1>1, PTL
=============================================================================

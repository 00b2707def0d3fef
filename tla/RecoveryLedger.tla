--------------------------- MODULE RecoveryLedger ----------------------------
(* The ledger of release recovery: a deployment of the site outside the       *)
(* normal path is armed by an operator, authorized, claimed once, and its     *)
(* outcome recorded (services/release-recovery).                              *)
(*                                                                            *)
(* One Durable Object keeps the control, another one per request keeps that   *)
(* request's row and its alarm (ledgerDurableObjectV2.ts over ledgerV2.ts).   *)
(* The signer is a stateless worker: a call captures the configuration its    *)
(* worker was deployed with and then talks to the two objects, to GitHub and  *)
(* to the realms, one await after the other.  Old and new workers run side by *)
(* side, so that a call may come with any configuration at any time.  A row   *)
(* is read, hashed, and only then written under a comparison of revisions: a  *)
(* method is two steps, Load and the method's action.                         *)
EXTENDS Integers, Sequences

CONSTANTS
    Request,            \* the request identifiers
    Call,               \* the signer's calls in flight
    Kinds,              \* BOUND on what happens: issue, claim, finish (and the job), prepare
    None,               \* no request
    MaxEpoch,           \* BOUND on the authorization epochs
    IssuingTimeout,     \* RECOVERY_ISSUING_TIMEOUT_SECONDS_V2
    AuthorizationLife,  \* from iat to exp of an authorization
    ClaimWindow,        \* RECOVERY_CLAIM_DEADLINE_SECONDS_V2
    ReceiptLife,        \* from iat to exp of a claim receipt
    RetryDelays,        \* RECOVERY_RECONCILIATION_RETRY_DELAYS_SECONDS_V2
    LastIssue,          \* BOUND on the time of a reservation
    MaxTime,            \* BOUND on the clock
    MaxCrashes          \* BOUND on the crashes of alarm handlers

ASSUME LedgerAssumption ==
    /\ None \notin Request \cup Call
    /\ Request \cap Call = {}
    /\ MaxEpoch \in Nat \ {0}
    /\ IssuingTimeout \in Nat \ {0}
    /\ AuthorizationLife \in Nat
    /\ IssuingTimeout <= AuthorizationLife
    /\ ClaimWindow \in Nat
    /\ AuthorizationLife <= ClaimWindow
    /\ RetryDelays \in Seq(Nat)
    /\ MaxTime \in Nat

VARIABLES
    now,        \* the clock, in seconds
    control,    \* the row of the control object; epoch 0 when there is none
    intents,    \* the preparation of each epoch
    row,        \* the row of each request
    alarm,      \* the scheduled alarm of each request's object
    handler,    \* the signer's calls, and the alarm handler of each request
    job,        \* the deployment job on GitHub that uses the request
    crashes,    \* how many alarm handlers crashed
    armed       \* HISTORY: the request each epoch was enabled for

controlVars == <<control, intents, armed>>
requestVars == <<row, alarm, job>>
vars == <<now, crashes, handler, controlVars, requestVars>>

-----------------------------------------------------------------------------
Epoch == 1..MaxEpoch
Never == -1

Config ==
    [enabled : {TRUE}, epoch : Epoch, request : Request]
      \cup [enabled : {FALSE}, epoch : Epoch, request : Request \cup {None}]

NoControl == [enabled |-> FALSE, epoch |-> 0, maxConsumed |-> 0, active |-> None, used |-> {}]

NoRow ==
    [state |-> "none", revision |-> -1, epoch |-> 0, at |-> Never, reservedAt |-> Never,
     claimedAt |-> Never, attempts |-> 0, next |-> Never]

Unread == [NoRow EXCEPT !.state = "unread"]

Idle ==
    [at |-> "idle", config |-> [enabled |-> FALSE, epoch |-> 1, request |-> None],
     request |-> None, seen |-> Unread, time |-> 0, fresh |-> FALSE,
     proof |-> "none", basis |-> 0]

Terminal == {"completed", "not-deployed"}
Claimed == {"claimed", "required"} \cup Terminal

(* exp of the authorization a reservation is for *)
ExpiresAt(rw) == rw.reservedAt + AuthorizationLife

IssuingDeadline(rw) == rw.reservedAt + IssuingTimeout

ClaimDeadline(rw) == rw.claimedAt + ClaimWindow

(* ledgerV2AlarmDeadline *)
Deadline(rw) ==
    CASE rw.state = "issuing"  -> IssuingDeadline(rw)
      [] rw.state = "issued"   -> ExpiresAt(rw)
      [] rw.state = "claimed"  -> ClaimDeadline(rw)
      [] rw.state = "required" -> rw.next
      [] OTHER                 -> Never

-----------------------------------------------------------------------------
(* The transitions of a row: the set of the row that follows, empty when the  *)
(* event is refused.                                                          *)

Moved(rw, state, t) == [rw EXCEPT !.state = state, !.revision = @ + 1, !.at = t]

(* assertAuthority of the control an enabled configuration was granted *)
Authorized(rw, cfg) == cfg.enabled /\ cfg.epoch = rw.epoch

(* installLedgerV2Arming *)
Installed(rw, cfg) ==
    CASE rw.state = "none"                        -> {[rw EXCEPT !.state = "armed", !.revision = 0, !.epoch = cfg.epoch]}
      [] rw.state = "armed" /\ Authorized(rw, cfg) -> {rw}
      [] OTHER                                    -> {}

(* reserveIssue; fresh says that the call brings a payload of its own, whose   *)
(* jti no other payload has.                                                  *)
Reserved(rw, cfg, t, fresh) ==
    CASE rw.state = "armed" /\ fresh /\ Authorized(rw, cfg) ->
           {[Moved(rw, "issuing", t) EXCEPT !.reservedAt = t]}
      [] rw.state = "issuing" /\ ~fresh /\ Authorized(rw, cfg) /\ rw.at <= t /\ t < IssuingDeadline(rw) ->
           {rw}
      [] OTHER -> {}

(* Mutant: the deadline of the reservation is not looked at again. *)
FinalizedLate(rw, cfg, t) ==
    IF rw.state = "issuing" /\ Authorized(rw, cfg) /\ rw.at <= t /\ t < ExpiresAt(rw)
    THEN {Moved(rw, "issued", t)} ELSE {}

(* finalizeIssue.  A signature of the same payload by another call differs, so *)
(* an issued row takes no second one.                                         *)
Finalized(rw, cfg, t) ==
    IF rw.state = "issuing" /\ Authorized(rw, cfg) /\ rw.at <= t /\ t < IssuingDeadline(rw)
    THEN {Moved(rw, "issued", t)} ELSE {}

(* readIssued *)
ReadIssued(rw, cfg, t) ==
    IF rw.state = "issued" /\ Authorized(rw, cfg) /\ rw.at <= t
    THEN {IF t < ExpiresAt(rw) THEN rw ELSE Moved(rw, "expired", t)} ELSE {}

(* claim *)
ClaimOf(rw, cfg, t) ==
    IF rw.state = "issued" /\ Authorized(rw, cfg) /\ rw.at <= t
    THEN {IF t < ExpiresAt(rw)
          THEN [Moved(rw, "claimed", t) EXCEPT !.claimedAt = t]
          ELSE Moved(rw, "expired", t)}
    ELSE {}

(* complete, with a proof that the deployment completed *)
Completed(rw, t) ==
    CASE rw.state = "claimed" /\ rw.at <= t /\ t < ClaimDeadline(rw) -> {Moved(rw, "completed", t)}
      [] rw.state \in Terminal /\ rw.at <= t                         -> {rw}
      [] OTHER                                                       -> {}

(* alarm, of a claimed row *)
Overdue(rw, t) ==
    IF rw.state = "claimed" /\ rw.at <= t /\ t >= ClaimDeadline(rw)
    THEN {[Moved(rw, "required", t) EXCEPT !.next = t]} ELSE {}

(* Mutant: only a reservation expires. *)
ExpiredReservation(rw, t) ==
    IF rw.state = "issuing" /\ rw.at <= t /\ t >= Deadline(rw)
    THEN {Moved(rw, "expired", t)} ELSE {}

(* alarm, of an unclaimed row *)
Expired(rw, t) ==
    IF rw.state \in {"issuing", "issued"} /\ rw.at <= t /\ t >= Deadline(rw)
    THEN {Moved(rw, "expired", t)} ELSE {}

(* reconcile: one more attempt, scheduled after the next delay or never *)
Postponed(rw, t) ==
    [Moved(rw, "required", t) EXCEPT
       !.attempts = @ + 1,
       !.next = IF rw.attempts < Len(RetryDelays) THEN t + RetryDelays[rw.attempts + 1] ELSE Never]

Settled(rw, t, proof) ==
    IF proof = "ambiguous" THEN Postponed(rw, t) ELSE [Moved(rw, proof, t) EXCEPT !.next = Never]

(* reconcile, and reconcile-proven, which neither waits nor is exhausted *)
Reconciled(rw, t, proof, proven) ==
    IF rw.at > t \/ (proven /\ proof = "ambiguous") THEN {}
    ELSE CASE rw.state \in Terminal -> {rw}
           [] rw.state = "required" /\ (proven \/ (rw.next # Never /\ t >= rw.next)) -> {Settled(rw, t, proof)}
           [] OTHER -> {}

-----------------------------------------------------------------------------
(* The control object. *)

(* Mutant: disabling an epoch lets it be enabled again. *)
DisabledAfresh(ctl, epoch) ==
    [ctl EXCEPT !.enabled = FALSE, !.epoch = epoch, !.active = None, !.maxConsumed = epoch - 1]

Disabled(ctl, epoch) == [ctl EXCEPT !.enabled = FALSE, !.epoch = epoch, !.active = None]

Enabled(ctl, cfg) ==
    [ctl EXCEPT !.enabled = TRUE, !.maxConsumed = cfg.epoch, !.active = cfg.request,
                !.used = @ \cup {cfg.request}]

(* A control object without a row begins at the epoch it is first asked for. *)
ControlFor(epoch) == IF control.epoch = 0 THEN [control EXCEPT !.epoch = epoch] ELSE control

(* assertPreparationArming *)
ArmsAsPrepared(cfg) == intents[cfg.epoch].request \in {None, cfg.request}

(* reconcileLedgerV2Control: the control that follows, if it is not refused *)
ControlUnder(cfg) ==
    LET ctl == ControlFor(cfg.epoch) IN
    CASE ~cfg.enabled /\ cfg.epoch > ctl.epoch -> {Disabled(ctl, cfg.epoch)}
      [] ~cfg.enabled /\ cfg.epoch = ctl.epoch ->
           {IF ctl.enabled THEN Disabled(ctl, cfg.epoch) ELSE ctl}
      [] cfg.enabled /\ cfg.epoch = ctl.epoch /\ ArmsAsPrepared(cfg) ->
           IF ctl.enabled
           THEN {c \in {ctl} : c.active = cfg.request}
           ELSE {Enabled(c, cfg) : c \in {x \in {ctl} : cfg.request \notin x.used /\ cfg.epoch > x.maxConsumed}}
      [] OTHER -> {}

(* reconcileControl of the object, in one transaction *)
ReconcileControl(cfg) ==
    /\ \E ctl \in ControlUnder(cfg) :
         /\ control' = ctl
         /\ armed' = IF ctl.enabled THEN [armed EXCEPT ![ctl.epoch] = ctl.active] ELSE armed
    /\ UNCHANGED intents

-----------------------------------------------------------------------------
(* Calls.  A call that fails, or whose worker goes away, is simply over.      *)

CallOf(h) == handler[h]

At(h, step) == handler[h].at = step

Loaded(h) == handler[h].seen.state # "unread"

RequestOf(h) == handler[h].request

(* The next step of a call, which has read nothing yet. *)
Go(h, step) == handler' = [handler EXCEPT ![h].at = step, ![h].seen = Unread, ![h].time = 0]

End(h) == handler' = [handler EXCEPT ![h] = Idle]

(* Mutant: the alarm of a reservation is set for the authorization. *)
RepairForExpiry(r, rw) ==
    alarm' = [alarm EXCEPT ![r] = IF rw.state = "issuing" THEN ExpiresAt(rw) ELSE Deadline(rw)]

(* #repairAlarm *)
Repair(r, rw) == alarm' = [alarm EXCEPT ![r] = Deadline(rw)]

(* A refused event repairs the alarm of the row it was tried on, as well as   *)
(* it can.                                                                    *)
Refuse(h) ==
    /\ Repair(RequestOf(h), CallOf(h).seen) \/ UNCHANGED alarm
    /\ End(h)
    /\ UNCHANGED row

(* The comparison of revisions in #updateRecord. *)
Current(h) == row[RequestOf(h)].revision = CallOf(h).seen.revision

(* A row that the event left alone is not written. *)
Store(h, n) ==
    \/ n = CallOf(h).seen /\ UNCHANGED row
    \/ n # CallOf(h).seen /\ Current(h) /\ row' = [row EXCEPT ![RequestOf(h)] = n]

(* A write that lost: the row is read and the event tried once more, without  *)
(* another write; the row has moved on, and the event leaves it as it is.     *)
LoseRace(h, after) ==
    /\ \E n \in after : n # CallOf(h).seen
    /\ ~Current(h)
    /\ Repair(RequestOf(h), row[RequestOf(h)])
    /\ End(h)
    /\ UNCHANGED row

(* A row without a reservation needs no hash: what reads it does not wait. *)
Plain(rw) == rw.state \in {"none", "armed"}

(* #loadRecord *)
Load(h) ==
    /\ handler[h].at \in {"status", "read-issued", "reserve", "finalize", "read-retained", "claim",
                          "complete", "reconcile", "ring", "look", "settle"}
    /\ ~Loaded(h)
    /\ At(h, "status") => ~Plain(row[RequestOf(h)])
    /\ handler' = [handler EXCEPT ![h].seen = row[RequestOf(h)]]
    /\ UNCHANGED <<now, crashes, controlVars, requestVars>>

(* The job holds what the signer answers, unless the answer is lost. *)
DeliverAuthorization(r) ==
    \/ UNCHANGED job
    \/ job[r].stage = "waiting" /\ job' = [job EXCEPT ![r].stage = "authorized"]

DeliverReceipt(r) ==
    \/ UNCHANGED job
    \/ job[r].stage = "authorized" /\ job' = [job EXCEPT ![r] = [stage |-> "cleared", receipt |-> TRUE]]

(* The control is asked, and the clock read afterwards. *)
AskControl(c, step, next) ==
    /\ At(c, step)
    /\ ReconcileControl(CallOf(c).config)
    /\ handler' = [handler EXCEPT ![c].at = next, ![c].seen = Unread, ![c].time = now]
    /\ UNCHANGED <<now, crashes, requestVars>>

-----------------------------------------------------------------------------
(* issue: signerIssue.ts *)

StartIssue(c) ==
    /\ "issue" \in Kinds
    /\ At(c, "idle")
    /\ \E cfg \in Config :
         /\ cfg.enabled
         /\ ReconcileControl(cfg)
         /\ handler' = [handler EXCEPT ![c] = [Idle EXCEPT !.at = "status", !.config = cfg,
                                                          !.request = cfg.request]]
    /\ UNCHANGED <<now, crashes, requestVars>>

(* status of the request's object, and what the signer does about it; the     *)
(* time for the next method is read afterwards.                               *)
ReadStatus(c) ==
    LET r == RequestOf(c)
        rw == IF Loaded(c) THEN CallOf(c).seen ELSE row[r]
        next == CASE Plain(rw)            -> "install"
                  [] rw.state = "issuing" -> "authorize-reserve"
                  [] rw.state = "issued"  -> "read-issued"
                  [] OTHER                -> "idle"
    IN  /\ At(c, "status")
        /\ Loaded(c) \/ Plain(row[r])
        /\ IF rw.state = "none" THEN UNCHANGED alarm ELSE Repair(r, rw)
        /\ handler' = [handler EXCEPT ![c] =
                         IF next = "idle" THEN Idle
                         ELSE [@ EXCEPT !.at = next, !.seen = Unread, !.fresh = next = "install",
                                        !.time = IF next = "read-issued" THEN now ELSE 0]]
        /\ UNCHANGED <<now, crashes, controlVars, row, job>>

(* Of a row without a reservation, and so one step. *)
InstallArming(c) ==
    /\ At(c, "install")
    /\ \E n \in Installed(row[RequestOf(c)], CallOf(c).config) :
         row' = [row EXCEPT ![RequestOf(c)] = n]
    /\ Go(c, "authorize-reserve")
    /\ UNCHANGED <<now, crashes, controlVars, alarm, job>>

(* The evidence has been collected. *)
AuthorizeReserve(c) ==
    /\ now <= LastIssue
    /\ AskControl(c, "authorize-reserve", "reserve")

(* The row and its alarm in one transaction, and the alarm repaired for a     *)
(* reservation that is only read again.                                       *)
ReserveIssue(c) ==
    LET after == Reserved(CallOf(c).seen, CallOf(c).config, CallOf(c).time, CallOf(c).fresh) IN
    /\ At(c, "reserve") /\ Loaded(c)
    /\ \/ after = {} /\ Refuse(c)
       \/ LoseRace(c, after)
       \/ /\ \E n \in after : Store(c, n) /\ Repair(RequestOf(c), n)
          /\ Go(c, "authorize-finalize")
    /\ UNCHANGED <<now, crashes, controlVars, job>>

AuthorizeFinalize(c) == AskControl(c, "authorize-finalize", "finalize")

FinalizeIssue(c) ==
    LET after == Finalized(CallOf(c).seen, CallOf(c).config, CallOf(c).time) IN
    /\ At(c, "finalize") /\ Loaded(c)
    /\ \/ after = {} /\ Refuse(c) /\ UNCHANGED job
       \/ LoseRace(c, after) /\ UNCHANGED job
       \/ /\ \E n \in after : Store(c, n) /\ Repair(RequestOf(c), n)
          /\ End(c)
          /\ DeliverAuthorization(RequestOf(c))
    /\ UNCHANGED <<now, crashes, controlVars>>

(* An expired row is stored as it is read; the alarm is repaired then, if the *)
(* worker is still there.                                                     *)
Retire(h, n) ==
    /\ n.state = "expired"
    /\ Store(h, n)
    /\ Repair(RequestOf(h), n) \/ UNCHANGED alarm
    /\ End(h)

(* readIssued for a job that asks for its authorization again *)
ReadAgain(c) ==
    LET after == ReadIssued(CallOf(c).seen, CallOf(c).config, CallOf(c).time) IN
    /\ At(c, "read-issued") /\ Loaded(c)
    /\ \/ after = {} /\ Refuse(c) /\ UNCHANGED job
       \/ \E n \in after : Retire(c, n) /\ UNCHANGED job
       \/ /\ CallOf(c).seen \in after
          /\ Repair(RequestOf(c), CallOf(c).seen)
          /\ End(c)
          /\ DeliverAuthorization(RequestOf(c))
          /\ UNCHANGED row
    /\ UNCHANGED <<now, crashes, controlVars>>

-----------------------------------------------------------------------------
(* claim: signerClaim.ts *)

(* An authorization that has expired is not looked at. *)
StartClaim(c) ==
    /\ "claim" \in Kinds
    /\ \E cfg \in Config :
         /\ cfg.enabled
         /\ job[cfg.request].stage = "authorized"
         /\ now < ExpiresAt(row[cfg.request])
         /\ At(c, "idle")
         /\ handler' = [handler EXCEPT ![c] = [Idle EXCEPT !.at = "authorize-read", !.config = cfg,
                                                          !.request = cfg.request]]
    /\ UNCHANGED <<now, crashes, controlVars, requestVars>>

(* The caller's token has been verified on GitHub. *)
AuthorizeRead(c) == AskControl(c, "authorize-read", "read-retained")

(* readIssued for a claim, which then looks at GitHub and the realms again *)
ReadRetained(c) ==
    LET after == ReadIssued(CallOf(c).seen, CallOf(c).config, CallOf(c).time) IN
    /\ At(c, "read-retained") /\ Loaded(c)
    /\ \/ after = {} /\ Refuse(c)
       \/ \E n \in after : Retire(c, n)
       \/ /\ CallOf(c).seen \in after
          /\ Repair(RequestOf(c), CallOf(c).seen)
          /\ Go(c, "authorize-claim")
          /\ UNCHANGED row
    /\ UNCHANGED <<now, crashes, controlVars, job>>

AuthorizeClaim(c) == AskControl(c, "authorize-claim", "claim")

(* The claim is stored before the alarm is moved and before the receipt is    *)
(* signed; the worker may go away between.                                    *)
Claim(c) ==
    LET after == ClaimOf(CallOf(c).seen, CallOf(c).config, CallOf(c).time) IN
    /\ At(c, "claim") /\ Loaded(c)
    /\ \/ after = {} /\ Refuse(c) /\ UNCHANGED job
       \/ LoseRace(c, after) /\ UNCHANGED job
       \/ \E n \in after : Retire(c, n) /\ UNCHANGED job
       \/ /\ \E n \in after :
               /\ n.state = "claimed"
               /\ Store(c, n)
               /\ \/ Repair(RequestOf(c), n) /\ DeliverReceipt(RequestOf(c))
                  \/ Repair(RequestOf(c), CallOf(c).seen) /\ UNCHANGED job
          /\ End(c)
    /\ UNCHANGED <<now, crashes, controlVars>>

-----------------------------------------------------------------------------
(* complete and reconcile: signerCompletion.ts *)

(* Mutant: a job that has not started is as good as one that never will. *)
EvidenceOfIdling(r) ==
    {"ambiguous"}
      \cup {p \in {"completed"} : job[r].stage = "deployed"}
      \cup {p \in {"not-deployed"} : job[r].stage \notin {"deploying", "deployed"}}

(* What GitHub says of a request's job; it may always fail to convince. *)
Evidence(r) ==
    {"ambiguous"}
      \cup {p \in {"completed"} : job[r].stage = "deployed"}
      \cup {p \in {"not-deployed"} : job[r].stage = "ended" /\ now >= ClaimDeadline(row[r])}

(* The caller shows the receipt of the claim, for a completion in time.  The  *)
(* row is projected, the evidence read, and the clock picks the method.       *)
Finish(c, r) ==
    LET late == now >= ClaimDeadline(row[r]) IN
    /\ "finish" \in Kinds
    /\ At(c, "idle")
    /\ job[r].receipt
    /\ row[r].state \in {"claimed", "required"}
    /\ \E proof \in Evidence(r) \ {"ambiguous"}, purpose \in {"complete", "reconcile"} :
         /\ purpose = "complete" => ~late
         /\ late \/ proof = "completed"
         /\ handler' = [handler EXCEPT ![c] =
                [Idle EXCEPT !.at = IF late THEN "reconcile" ELSE "complete",
                             !.request = r, !.proof = proof, !.time = now]]
    /\ Repair(r, row[r])
    /\ UNCHANGED <<now, crashes, controlVars, row, job>>

Complete(c) ==
    LET after == Completed(CallOf(c).seen, CallOf(c).time) IN
    /\ At(c, "complete") /\ Loaded(c)
    /\ \/ after = {} /\ Refuse(c)
       \/ LoseRace(c, after)
       \/ /\ \E n \in after : Store(c, n)
          /\ alarm' = [alarm EXCEPT ![RequestOf(c)] = Never] \/ UNCHANGED alarm
          /\ End(c)
    /\ UNCHANGED <<now, crashes, controlVars, job>>

(* An overdue claim becomes required before it is settled, by two writes.     *)
(* After a write that lost, the same event is tried on the row as it is now:  *)
(* three times in the code, here as often as the row moves.                   *)
Reconcile(c) ==
    LET seen == CallOf(c).seen
        required == Overdue(seen, CallOf(c).time)
        after == IF seen.state = "claimed" THEN required
                 ELSE Reconciled(seen, CallOf(c).time, CallOf(c).proof, TRUE)
    IN  /\ At(c, "reconcile") /\ Loaded(c)
        /\ \/ after = {} /\ End(c) /\ UNCHANGED <<row, alarm>>
           \/ /\ ~Current(c)
              /\ \E n \in after : n # seen
              /\ handler' = [handler EXCEPT ![c].seen = Unread]
              /\ UNCHANGED <<row, alarm>>
           \/ /\ \E n \in required : Store(c, n) /\ handler' = [handler EXCEPT ![c].seen = n]
              /\ UNCHANGED alarm
           \/ /\ \E n \in after \ required : Store(c, n) /\ (Repair(RequestOf(c), n) \/ UNCHANGED alarm)
              /\ End(c)
        /\ UNCHANGED <<now, crashes, controlVars, job>>

-----------------------------------------------------------------------------
(* The alarm of a request's object.  The platform takes the alarm away when   *)
(* it calls the handler, and calls it again when the handler fails.           *)

Ring(r) ==
    /\ alarm[r] # Never
    /\ alarm[r] <= now
    /\ At(r, "idle")
    /\ handler' = [handler EXCEPT ![r].at = "ring", ![r].request = r]
    /\ alarm' = [alarm EXCEPT ![r] = Never]
    /\ UNCHANGED <<now, crashes, controlVars, row, job>>

FailAlarm(r) ==
    /\ alarm' = IF alarm[r] = Never THEN [alarm EXCEPT ![r] = now] ELSE alarm
    /\ End(r)
    /\ UNCHANGED row

(* alarm: nothing due, an unclaimed row that expires, an overdue claim, or a  *)
(* row that waits for evidence.                                               *)
RunAlarm(r) ==
    LET seen == CallOf(r).seen
        due == Deadline(seen) # Never /\ now >= Deadline(seen)
        after == Expired(seen, now) \cup Overdue(seen, now)
    IN  /\ At(r, "ring") /\ Loaded(r)
        /\ \/ ~due /\ Repair(r, seen) /\ End(r) /\ UNCHANGED row
           \/ due /\ after # {} /\ ~Current(r) /\ FailAlarm(r)
           \/ /\ due
              /\ \E n \in Expired(seen, now) : Store(r, n) /\ Repair(r, n)
              /\ End(r)
           \/ /\ due
              /\ \E n \in Overdue(seen, now) : Store(r, n)
              /\ handler' = [handler EXCEPT ![r].at = "look", ![r].seen = Unread, ![r].time = now]
              /\ UNCHANGED alarm
           \/ /\ due
              /\ seen.state = "required"
              /\ handler' = [handler EXCEPT ![r].at = "look", ![r].time = now]
              /\ UNCHANGED <<row, alarm>>
        /\ UNCHANGED <<now, crashes, controlVars, job>>

Waits(rw, t) == rw.state = "required" /\ rw.next # Never /\ rw.next <= t

(* The evidence is read over the network, and the row once more after it. *)
LookForEvidence(r) ==
    LET seen == CallOf(r).seen IN
    /\ At(r, "look") /\ Loaded(r)
    /\ \/ /\ ~Waits(seen, CallOf(r).time)
          /\ Repair(r, seen)
          /\ End(r)
       \/ /\ Waits(seen, CallOf(r).time)
          /\ \E proof \in Evidence(r) :
               handler' = [handler EXCEPT ![r].at = "settle", ![r].seen = Unread,
                                          ![r].proof = proof, ![r].basis = seen.revision]
          /\ UNCHANGED alarm
    /\ UNCHANGED <<now, crashes, controlVars, row, job>>

(* Evidence for a row that has changed meanwhile counts for nothing. *)
SettleByAlarm(r) ==
    LET seen == CallOf(r).seen
        proof == IF seen.revision = CallOf(r).basis THEN CallOf(r).proof ELSE "ambiguous"
        after == Reconciled(seen, now, proof, FALSE)
    IN  /\ At(r, "settle") /\ Loaded(r)
        /\ \/ ~Waits(seen, now) /\ Repair(r, seen) /\ End(r) /\ UNCHANGED row
           \/ Waits(seen, now) /\ LoseRace(r, after)
           \/ /\ Waits(seen, now)
              /\ \E n \in after : Store(r, n) /\ Repair(r, n)
              /\ End(r)
        /\ UNCHANGED <<now, crashes, controlVars, job>>

Crash(r) ==
    /\ ~At(r, "idle")
    /\ crashes < MaxCrashes
    /\ crashes' = crashes + 1
    /\ FailAlarm(r)
    /\ UNCHANGED <<now, controlVars, job>>

-----------------------------------------------------------------------------
(* Preparation of an epoch: signerPreparation.ts, with the same control.      *)

(* assertPreparationControl *)
Preparable(ctl, epoch) == ~ctl.enabled /\ ctl.epoch = epoch /\ ctl.maxConsumed < epoch

NoIntent == [request |-> None, configured |-> FALSE, receipt |-> None]

(* choosePreparationIntent; an unconfigured request is a new identifier. *)
IntentFor(cfg, ctl) ==
    LET prior == intents[cfg.epoch]
        unused == {r \in Request : r \notin ctl.used /\ \A e \in Epoch : intents[e].request # r}
    IN  IF prior.request # None
        THEN {i \in {prior} : /\ i.configured => cfg.request # None
                              /\ cfg.request \in {None, i.request}
                              /\ i.request \notin ctl.used}
        ELSE {[NoIntent EXCEPT !.request = r, !.configured = cfg.request # None] :
                r \in IF cfg.request = None THEN unused ELSE {cfg.request} \ ctl.used}

(* reservePreparationIntent, by a worker that is deployed disabled *)
ReservePreparation(c, cfg) ==
    LET base == ControlFor(cfg.epoch)
        ctl == IF cfg.epoch > base.epoch /\ ~base.enabled THEN Disabled(base, cfg.epoch) ELSE base
    IN  /\ "prepare" \in Kinds
        /\ At(c, "idle")
        /\ ~cfg.enabled
        /\ Preparable(ctl, cfg.epoch)
        /\ \E i \in IntentFor(cfg, ctl) :
             /\ intents' = [intents EXCEPT ![cfg.epoch] = i]
             /\ handler' = [handler EXCEPT ![c] = [Idle EXCEPT
                    !.at = IF i.receipt = None THEN "sign" ELSE "hand-out",
                    !.config = cfg, !.request = i.request, !.proof = i.receipt]]
        /\ control' = ctl
        /\ UNCHANGED <<now, crashes, armed, requestVars>>

(* Mutant: the latest signature is kept. *)
LatestReceipt(c, i) == c

(* The first receipt stays. *)
ReceiptKept(c, i) == IF i.receipt = None THEN c ELSE i.receipt

(* finalizePreparationIntent, with the receipt this call has signed *)
FinalizePreparation(c) ==
    LET e == CallOf(c).config.epoch IN
    /\ At(c, "sign")
    /\ Preparable(control, e)
    /\ intents[e].request = CallOf(c).request
    /\ LET receipt == ReceiptKept(c, intents[e]) IN
         /\ intents' = [intents EXCEPT ![e].receipt = receipt]
         /\ handler' = [handler EXCEPT ![c].at = "hand-out", ![c].proof = receipt]
    /\ UNCHANGED <<now, crashes, control, armed, requestVars>>

HandOutReceipt(c) ==
    LET e == CallOf(c).config.epoch IN
    /\ At(c, "hand-out")
    /\ Preparable(control, e)
    /\ End(c)
    /\ UNCHANGED <<now, crashes, controlVars, requestVars>>

-----------------------------------------------------------------------------
(* The status call of the signer only asks the control. *)
SignStatus ==
    /\ \E cfg \in Config : cfg.request # None /\ ReconcileControl(cfg)
    /\ UNCHANGED <<now, crashes, handler, requestVars>>

(* A call that is refused, fails, or loses its worker. *)
Abandon(c) ==
    /\ ~At(c, "idle")
    /\ End(c)
    /\ UNCHANGED <<now, crashes, controlVars, requestVars>>

(* The job deploys with a receipt that is still valid, or ends without.  A     *)
(* step that fails has deployed nothing that can be proved: it stays.         *)
StartDeployStep(r) ==
    /\ job[r].stage = "cleared"
    /\ now < row[r].claimedAt + ReceiptLife
    /\ job' = [job EXCEPT ![r].stage = "deploying"]
    /\ UNCHANGED <<now, crashes, handler, controlVars, row, alarm>>

Deployed(r) ==
    /\ job[r].stage = "deploying"
    /\ job' = [job EXCEPT ![r].stage = "deployed"]
    /\ UNCHANGED <<now, crashes, handler, controlVars, row, alarm>>

EndJob(r) ==
    /\ job[r].stage \in {"waiting", "authorized", "cleared"}
    /\ job' = [job EXCEPT ![r].stage = "ended"]
    /\ UNCHANGED <<now, crashes, handler, controlVars, row, alarm>>

Tick ==
    /\ now < MaxTime
    /\ now' = now + 1
    /\ UNCHANGED <<crashes, handler, controlVars, requestVars>>

-----------------------------------------------------------------------------
Init ==
    /\ now = 0
    /\ control = NoControl
    /\ intents = [e \in Epoch |-> NoIntent]
    /\ row = [r \in Request |-> NoRow]
    /\ alarm = [r \in Request |-> Never]
    /\ handler = [h \in Call \cup Request |-> Idle]
    /\ job = [r \in Request |-> [stage |-> "waiting", receipt |-> FALSE]]
    /\ crashes = 0
    /\ armed = [e \in Epoch |-> None]

CallNext(c) ==
    \/ StartIssue(c) \/ ReadStatus(c) \/ InstallArming(c) \/ AuthorizeReserve(c) \/ ReserveIssue(c)
    \/ AuthorizeFinalize(c) \/ FinalizeIssue(c) \/ ReadAgain(c)
    \/ StartClaim(c) \/ AuthorizeRead(c) \/ ReadRetained(c) \/ AuthorizeClaim(c) \/ Claim(c)
    \/ \E r \in Request : Finish(c, r)
    \/ Complete(c) \/ Reconcile(c)
    \/ \E cfg \in Config : ReservePreparation(c, cfg)
    \/ FinalizePreparation(c) \/ HandOutReceipt(c)
    \/ Abandon(c)

AlarmNext(r) == RunAlarm(r) \/ LookForEvidence(r) \/ SettleByAlarm(r)

JobNext(r) == StartDeployStep(r) \/ Deployed(r) \/ EndJob(r)

Next ==
    \/ \E c \in Call : CallNext(c)
    \/ \E h \in Call \cup Request : Load(h)
    \/ \E r \in Request : Ring(r) \/ AlarmNext(r) \/ Crash(r)
    \/ \E r \in Request : "finish" \in Kinds /\ JobNext(r)
    \/ SignStatus
    \/ Tick

Spec == Init /\ [][Next]_vars

(* The clock runs, and the platform calls a due alarm and lets its handler    *)
(* run; nothing is assumed of the signer's calls, the operator and the job.   *)
FairSpec ==
    /\ Spec
    /\ WF_vars(Tick)
    /\ \A r \in Request : WF_vars(Ring(r)) /\ WF_vars(Load(r)) /\ WF_vars(AlarmNext(r))

-----------------------------------------------------------------------------
(* Every stored row is one that #loadRecord accepts; it refuses any other     *)
(* as corrupt, and the request could never be finished.                       *)
LoadsBack ==
    \A r \in Request : LET rw == row[r] IN
      /\ rw.state = "armed" => rw.revision = 0 /\ rw.at = Never
      /\ rw.state = "issuing" => rw.at = rw.reservedAt
      /\ rw.state = "issued" => rw.reservedAt <= rw.at /\ rw.at < IssuingDeadline(rw) /\ rw.at < ExpiresAt(rw)
      /\ rw.state \in Claimed => rw.reservedAt <= rw.claimedAt /\ rw.claimedAt < ExpiresAt(rw)
      /\ rw.state = "claimed" => rw.at = rw.claimedAt
      /\ rw.state = "required" =>
           /\ rw.at >= ClaimDeadline(rw)
           /\ rw.attempts \in 0..Len(RetryDelays) + 1
           /\ rw.attempts = Len(RetryDelays) + 1 <=> rw.next = Never
      /\ rw.state \in Terminal => rw.at >= rw.claimedAt

TypeOK ==
    /\ now \in 0..MaxTime
    /\ control.enabled \in BOOLEAN /\ control.epoch \in 0..MaxEpoch
    /\ control.maxConsumed \in 0..MaxEpoch
    /\ control.active \in Request \cup {None} /\ control.used \subseteq Request
    /\ armed \in [Epoch -> Request \cup {None}]
    /\ \A r \in Request : alarm[r] = Never \/ alarm[r] \in Nat
    /\ LoadsBack

(* An authorization epoch deploys at most once: no two requests are claimed   *)
(* under the same epoch, however configurations, calls and their snapshots of *)
(* the control interleave.                                                    *)
OneClaimPerEpoch ==
    \A r1, r2 \in Request :
      row[r1].state \in Claimed /\ row[r2].state \in Claimed /\ row[r1].epoch = row[r2].epoch => r1 = r2

(* A row that waits for a time has an alarm no later than that time, or the   *)
(* handler of its alarm is running: no crash between a row and its alarm, and *)
(* no repair by a call that read an older row, makes it wait for ever.        *)
AlarmScheduled ==
    \A r \in Request :
      Deadline(row[r]) # Never =>
        \/ ~At(r, "idle")
        \/ alarm[r] # Never /\ (alarm[r] <= Deadline(row[r]) \/ alarm[r] <= now)

(* A recorded outcome is the truth about the job: what is recorded as not     *)
(* deployed is never deployed afterwards, what is recorded as completed was.  *)
OutcomeIsTrue ==
    \A r \in Request :
      /\ row[r].state = "completed" => job[r].stage = "deployed"
      /\ row[r].state = "not-deployed" => job[r].stage = "ended"

(* An epoch is prepared once: it is armed for no other request than the       *)
(* prepared one, although preparation and arming meet in the control in any   *)
(* order, and every preparation hands out the receipt that the epoch keeps,   *)
(* whoever signs and stores at the same time (assertPreparationArming,        *)
(* finalizePreparationIntent).                                                *)
PreparedOnce ==
    /\ \A e \in Epoch :
          {armed[e], intents[e].request} \subseteq Request => armed[e] = intents[e].request
    /\ \A c \in Call :
          At(c, "hand-out") => CallOf(c).proof = intents[CallOf(c).config.epoch].receipt

(* A reservation, an authorization or a claim does not stay for ever, even    *)
(* when the job and the signer are never heard of again.                      *)
RowsMoveOn ==
    \A r \in Request : \A state \in {"issuing", "issued", "claimed"} :
      row[r].state = state ~> row[r].state # state
=============================================================================

-------------------------- MODULE Session04Proofs ---------------------------
(* Browser sessions of one player against a keep, for any number of sessions, *)
(* intents, calls and faults: an intent is executed at most once, what a      *)
(* controller saw confirmed has been executed, what it dropped as refused     *)
(* never is, and a controller that is ready shows what it saw confirmed.      *)
EXTENDS Session04, FiniteSetTheorems, SequenceTheorems, TLAPS

-----------------------------------------------------------------------------
(* The calls of a connection. *)

LEMMA Removed ==
    ASSUME NEW S, NEW q \in Seq(S), NEW i \in 1..Len(q)
    PROVE  /\ RemoveAt(q, i) \in Seq(S)
           /\ Len(RemoveAt(q, i)) = Len(q) - 1
           /\ \A j \in 1..(Len(q) - 1) :
                 RemoveAt(q, i)[j] = IF j < i THEN q[j] ELSE q[j + 1]
<1> DEFINE a == SubSeq(q, 1, i - 1)
           b == SubSeq(q, i + 1, Len(q))
<1>1. Len(q) \in Nat /\ i \in Nat /\ i >= 1 /\ i <= Len(q)
      BY LenProperties
<1>2. \A j \in 1..Len(q) : q[j] \in S
      BY ElementOfSeq
<1>3. /\ a \in Seq(S) /\ Len(a) = i - 1
      /\ \A j \in 1..(i - 1) : a[j] = q[j]
  <2>1. \A j \in 1..(i - 1) : q[j] \in S
        BY <1>1, <1>2
  <2>2. /\ a \in Seq(S)
        /\ Len(a) = IF 1 <= i - 1 THEN (i - 1) - 1 + 1 ELSE 0
        /\ \A j \in 1..((i - 1) - 1 + 1) : a[j] = q[1 + j - 1]
        BY <1>1, <2>1, SubSeqProperties
  <2> HIDE DEF a
  <2>3. Len(a) = i - 1
        BY <1>1, <2>2
  <2>4. ASSUME NEW j \in 1..(i - 1) PROVE a[j] = q[j]
    <3>1. j \in 1..((i - 1) - 1 + 1) /\ 1 + j - 1 = j
          BY <1>1
    <3> QED BY <2>2, <3>1
  <2> QED BY <2>2, <2>3, <2>4
<1>4. /\ b \in Seq(S) /\ Len(b) = Len(q) - i
      /\ \A j \in 1..(Len(q) - i) : b[j] = q[j + i]
  <2>1. \A j \in (i + 1)..Len(q) : q[j] \in S
        BY <1>1, <1>2
  <2>2. /\ b \in Seq(S)
        /\ Len(b) = IF i + 1 <= Len(q) THEN Len(q) - (i + 1) + 1 ELSE 0
        /\ \A j \in 1..(Len(q) - (i + 1) + 1) : b[j] = q[(i + 1) + j - 1]
        BY <1>1, <2>1, SubSeqProperties
  <2> HIDE DEF b
  <2>3. Len(b) = Len(q) - i
        BY <1>1, <2>2
  <2>4. ASSUME NEW j \in 1..(Len(q) - i) PROVE b[j] = q[j + i]
    <3>1. j \in 1..(Len(q) - (i + 1) + 1) /\ (i + 1) + j - 1 = j + i
          BY <1>1
    <3> QED BY <2>2, <3>1
  <2> QED BY <2>2, <2>3, <2>4
<1>5. RemoveAt(q, i) = a \o b
      BY DEF RemoveAt
<1> HIDE DEF a, b
<1>6. /\ a \o b \in Seq(S) /\ Len(a \o b) = Len(a) + Len(b)
      /\ \A j \in 1..(Len(a) + Len(b)) : (a \o b)[j] = IF j <= Len(a) THEN a[j] ELSE b[j - Len(a)]
      BY <1>3, <1>4, ConcatProperties
<1>7. ASSUME NEW j \in 1..(Len(q) - 1)
      PROVE  (a \o b)[j] = IF j < i THEN q[j] ELSE q[j + 1]
  <2>1. j \in 1..(Len(a) + Len(b)) /\ (a \o b)[j] = IF j <= Len(a) THEN a[j] ELSE b[j - Len(a)]
        BY <1>1, <1>3, <1>4, <1>6
  <2>2. CASE j < i
    <3>1. j <= Len(a) /\ j \in 1..(i - 1)
          BY <1>1, <1>3, <2>2
    <3> QED BY <1>3, <2>1, <2>2, <3>1
  <2>3. CASE ~(j < i)
    <3>1. ~(j <= Len(a)) /\ j - Len(a) \in 1..(Len(q) - i) /\ (j - Len(a)) + i = j + 1
          BY <1>1, <1>3, <2>3
    <3> QED BY <1>4, <2>1, <2>3, <3>1
  <2> QED BY <2>2, <2>3
<1>8. Len(a \o b) = Len(q) - 1
      BY <1>1, <1>3, <1>4, <1>6
<1> QED BY <1>5, <1>6, <1>7, <1>8

-----------------------------------------------------------------------------
(* The inductive invariant. *)

Frames ==
    /\ calls \in [Session -> Seq(Call)]
    /\ answer \in [Session -> Answer \cup {None}]
    /\ awaiting \in [Session -> {None, "read", "mutate"}]
    /\ ctl \in [Session -> Controller]

(* What has been executed: one entry per sequence, each at the revision it    *)
(* quoted, and one entry per intent.                                          *)
LogOK ==
    /\ keep \in KeepRows /\ log \subseteq Receipt
    /\ keep.receipts \subseteq log
    /\ keep.revision <= MaxRevision + keep.lastAccepted
    /\ IsFiniteSet(log) /\ Cardinality(log) = keep.lastAccepted
    /\ \A e \in log : /\ e.command.sequence <= keep.lastAccepted
                      /\ e.revision = e.command.expectedRevision + 1
                      /\ e.revision <= keep.revision
                      /\ e.command.requestKey <= intents
    /\ \A e, f \in log : e.command.sequence = f.command.sequence => e = f
    /\ \A e, f \in log : e.command.requestKey = f.command.requestKey => e = f

(* A session may have a command executed: it holds its envelope, or a copy of *)
(* it is on its way.                                                          *)
Carries(s, c) ==
    \/ ctl[s].pending # None /\ c = ctl[s].pending
    \/ \E i \in DOMAIN calls[s] : calls[s][i].kind = "mutate" /\ calls[s][i].command = c

(* An intent has one command, which one session carries. *)
OwnerOK ==
    \A s \in Session, c \in Command : Carries(s, c) =>
        /\ c.requestKey <= intents
        /\ \A u \in Session, d \in Command :
              Carries(u, d) /\ d.requestKey = c.requestKey => d = c /\ u = s
        /\ \A e \in log : e.command.requestKey = c.requestKey => e.command = c

(* What a controller shows, or has to show next, covers the command. *)
Seen(c, command) ==
    \/ /\ c.view # None
       /\ command.sequence <= c.view.lastAccepted /\ command.expectedRevision < c.view.revision
    \/ /\ c.confirmed # None
       /\ command.sequence <= c.confirmed.sequence
       /\ command.expectedRevision < c.confirmed.revision

Executed(command) == [command |-> command, revision |-> command.expectedRevision + 1] \in log

ToldTrue(t) ==
    /\ t.session \in Session /\ t.command \in Command /\ t.command.requestKey <= intents
    /\ t.verdict = "executed" =>
         /\ Executed(t.command)
         /\ ctl[t.session].phase # "disposed" => Seen(ctl[t.session], t.command)
    /\ t.verdict = "refused" /\ t.session \in Ordered =>
         /\ \A e \in log : e.command # t.command
         /\ \A u \in Session : ~Carries(u, t.command)

ToldOK == \A t \in told : ToldTrue(t)

Known(v) == v.revision <= keep.revision /\ v.lastAccepted <= keep.lastAccepted

Confirmed(m) == m.revision <= keep.revision /\ m.sequence <= keep.lastAccepted

ControllerOK(s) ==
    /\ ctl[s].busy = "none" <=> awaiting[s] = None
    /\ ctl[s].phase = "disposed" => awaiting[s] = None
    /\ ctl[s].phase = "ready" =>
          ctl[s].pending = None /\ ctl[s].confirmed = None /\ ctl[s].view # None
    /\ ctl[s].view # None => Known(ctl[s].view)
    /\ ctl[s].confirmed # None => ctl[s].pending # None /\ Confirmed(ctl[s].confirmed)
    /\ awaiting[s] = "mutate" => ctl[s].pending # None /\ ctl[s].confirmed = None

(* The call that is awaited is the last one; once it is answered there is     *)
(* room for another, and nothing is left on a connection that keeps order.    *)
QueueOK(s) ==
    /\ Len(calls[s]) <= MaxQueue
    /\ answer[s] # None =>
         /\ awaiting[s] # None /\ Len(calls[s]) < MaxQueue
         /\ s \in Ordered => Len(calls[s]) = 0
    /\ awaiting[s] # None /\ answer[s] = None =>
         /\ Len(calls[s]) > 0
         /\ calls[s][Len(calls[s])].kind = awaiting[s]
         /\ awaiting[s] = "mutate" => calls[s][Len(calls[s])].command = ctl[s].pending

(* An answer to the call that s awaits, with what it says of the keep. *)
Fits(a, s) ==
    /\ a.kind = "state" => awaiting[s] = "read" /\ ~Regressed(ctl[s], a.view) /\ Known(a.view)
    /\ a.kind = "receipt" =>
         awaiting[s] = "mutate" /\ Matches(a, ctl[s].pending) /\ Executed(ctl[s].pending)
    /\ a.kind \in {"rejected", "not-initialized"} /\ awaiting[s] = "mutate" /\ s \in Ordered =>
         \A e \in log : e.command # ctl[s].pending

AnswerOK(s) == answer[s] # None => Fits(answer[s], s)

SessionOK(s) == ControllerOK(s) /\ QueueOK(s) /\ AnswerOK(s)

SessionInv ==
    /\ Frames /\ LogOK /\ OwnerOK /\ ToldOK
    /\ \A s \in Session : SessionOK(s)
    /\ intents \in 0..MaxIntents /\ faults \in 0..MaxFaults

-----------------------------------------------------------------------------
(* Types. *)

LEMMA Bounds ==
    /\ MaxIntents \in Nat /\ MaxRevision \in Nat /\ MaxFaults \in Nat /\ MaxQueue \in Nat
    /\ Ordered \subseteq Session
BY SessionAssumption

LEMMA CallFacts ==
    ASSUME NEW c \in Call
    PROVE  /\ c.kind \in {"read", "mutate"}
           /\ c.kind = "mutate" => c.command \in Command
BY DEF Call

LEMMA CommandFacts ==
    ASSUME NEW c \in Command
    PROVE  /\ c # None
           /\ c.sequence \in Nat /\ c.sequence >= 1 /\ c.sequence <= MaxIntents
           /\ c.requestKey \in Nat /\ c.requestKey >= 1 /\ c.requestKey <= MaxIntents
           /\ c.expectedRevision \in Nat /\ c.expectedRevision <= MaxRevision + MaxIntents
           /\ c.kind \in {"initialize", "other"}
<1>1. c # None
      BY NoneAssumption
<1>2. /\ c.sequence \in 1..MaxIntents /\ c.requestKey \in 1..MaxIntents
      /\ c.expectedRevision \in 0..(MaxRevision + MaxIntents) /\ c.kind \in {"initialize", "other"}
      BY DEF Command, Revision
<1> QED BY <1>1, <1>2, Bounds

LEMMA ViewFacts ==
    ASSUME NEW v \in View
    PROVE  v # None /\ v.revision \in Nat /\ v.lastAccepted \in Nat
BY NoneAssumption DEF View, Revision

LEMMA MarkFacts ==
    ASSUME NEW m \in Mark
    PROVE  m # None /\ m.revision \in Nat /\ m.sequence \in Nat
BY NoneAssumption DEF Mark, Revision

LEMMA AnswerFacts ==
    ASSUME NEW a \in Answer
    PROVE  /\ a # None
           /\ a.kind \in {"state", "receipt", "not-initialized", "rejected", "expired", "uncertain"}
           /\ a.kind = "state" => a.view \in View
           /\ a.kind = "receipt" => a.sequence \in 1..MaxIntents /\ a.revision \in Revision
<1>1. a # None
      BY NoneAssumption
<1> QED BY <1>1 DEF Answer

LEMMA FailFacts ==
    ASSUME NEW k \in {"not-initialized", "rejected", "expired", "uncertain"}
    PROVE  Fail(k) \in Answer /\ Fail(k).kind = k
BY DEF Fail, Answer

IsController(c) ==
    c = [phase |-> c.phase, busy |-> c.busy, view |-> c.view, pending |-> c.pending,
         confirmed |-> c.confirmed]

ControllerFields(c) ==
    /\ c.phase \in Phase
    /\ c.busy \in {"none", "read", "mutate"}
    /\ c.view \in View \cup {None}
    /\ c.pending \in Command \cup {None}
    /\ c.confirmed \in {None} \cup Mark

LEMMA ControllerType ==
    ASSUME NEW c
    PROVE  c \in Controller <=> IsController(c) /\ ControllerFields(c)
BY DEF Controller, IsController, ControllerFields

(* What the steps change of a controller. *)
Sets(c, p, b) == [c EXCEPT !.phase = p, !.busy = b]

LEMMA Setting ==
    ASSUME NEW c, IsController(c), NEW p, NEW b, NEW n, n = Sets(c, p, b)
    PROVE  /\ IsController(n) /\ n.phase = p /\ n.busy = b
           /\ n.view = c.view /\ n.pending = c.pending /\ n.confirmed = c.confirmed
BY DEF Sets, IsController

SetsPending(c, p, b, q) == [c EXCEPT !.phase = p, !.busy = b, !.pending = q]

LEMMA SettingPending ==
    ASSUME NEW c, IsController(c), NEW p, NEW b, NEW q, NEW n, n = SetsPending(c, p, b, q)
    PROVE  /\ IsController(n) /\ n.phase = p /\ n.busy = b
           /\ n.view = c.view /\ n.pending = q /\ n.confirmed = c.confirmed
BY DEF SetsPending, IsController

SetsConfirmed(c, m) == [c EXCEPT !.confirmed = m]

LEMMA SettingConfirmed ==
    ASSUME NEW c, IsController(c), NEW m, NEW n, n = SetsConfirmed(c, m)
    PROVE  /\ IsController(n) /\ n.phase = c.phase /\ n.busy = c.busy
           /\ n.view = c.view /\ n.pending = c.pending /\ n.confirmed = m
BY DEF SetsConfirmed, IsController

SetsView(c, v, q, m, p, b) ==
    [c EXCEPT !.view = v, !.pending = q, !.confirmed = m, !.phase = p, !.busy = b]

LEMMA SettingView ==
    ASSUME NEW c, IsController(c), NEW v, NEW q, NEW m, NEW p, NEW b, NEW n,
           n = SetsView(c, v, q, m, p, b)
    PROVE  /\ IsController(n) /\ n.phase = p /\ n.busy = b
           /\ n.view = v /\ n.pending = q /\ n.confirmed = m
BY DEF SetsView, IsController

LEMMA KeepFacts ==
    ASSUME keep \in KeepRows
    PROVE  /\ keep.revision \in Nat /\ keep.revision <= MaxRevision + MaxIntents
           /\ keep.lastAccepted \in Nat /\ keep.lastAccepted <= MaxIntents
           /\ keep.receipts \subseteq Receipt
           /\ ViewOf(keep) \in View
           /\ ViewOf(keep).revision = keep.revision /\ ViewOf(keep).lastAccepted = keep.lastAccepted
<1>1. /\ keep.revision \in Revision /\ keep.lastAccepted \in 0..MaxIntents
      /\ keep.receipts \subseteq Receipt
      BY DEF KeepRows
<1>2. ViewOf(keep) = [revision |-> keep.revision, lastAccepted |-> keep.lastAccepted]
      BY DEF ViewOf
<1> QED BY <1>1, <1>2, Bounds DEF Revision, View

LEMMA ReceiptFacts ==
    ASSUME NEW r \in Receipt
    PROVE  /\ r = [command |-> r.command, revision |-> r.revision]
           /\ r.command \in Command /\ r.revision \in Nat /\ r.revision \in Revision
<1>1. r.revision \in Revision /\ r.command \in Command
      BY DEF Receipt
<1>2. r.revision \in Nat
      BY <1>1, Bounds DEF Revision
<1> QED BY <1>1, <1>2 DEF Receipt

(* The keep accepts one command per intent at most. *)
LEMMA AcceptedAtMost ==
    ASSUME LogOK, intents \in Nat
    PROVE  keep.lastAccepted <= intents
<1> DEFINE f == [e \in log |-> e.command.requestKey]
           T == 1..intents
<1>1. \A e \in log : e.command.requestKey \in T
  <2> SUFFICES ASSUME NEW e \in log PROVE e.command.requestKey \in T
      OBVIOUS
  <2>1. e.command \in Command /\ e.command.requestKey <= intents
        BY ReceiptFacts DEF LogOK
  <2> QED BY <2>1, CommandFacts
<1>2. f \in [log -> T]
      BY <1>1
<1>3. \A d, e \in log : f[d] = f[e] => d = e
      BY DEF LogOK
<1>4. f \in Injection(log, T)
  <2> HIDE DEF f, T
  <2> QED BY <1>2, <1>3 DEF Injection, IsInjective
<1>5. IsFiniteSet(T) /\ Cardinality(T) = intents
      BY FS_Interval
<1> HIDE DEF f, T
<1>6. Cardinality(log) <= Cardinality(T)
      BY <1>4, <1>5, FS_Injection
<1> QED BY <1>5, <1>6 DEF LogOK

-----------------------------------------------------------------------------
(* A step: one session moves, the log and the keep only grow. *)

OnlyMoves(s) ==
    \A u \in Session : u # s =>
        /\ calls'[u] = calls[u] /\ answer'[u] = answer[u]
        /\ awaiting'[u] = awaiting[u] /\ ctl'[u] = ctl[u]

Grows ==
    /\ keep.revision <= keep'.revision /\ keep.lastAccepted <= keep'.lastAccepted
    /\ log \subseteq log' /\ intents <= intents'

(* What is carried after the step was carried before, or is a new intent. *)
Carried(s) ==
    \A u \in Session, c \in Command : Carries(u, c)' =>
        \/ Carries(u, c)
        \/ u = s /\ intents < c.requestKey /\ c.requestKey <= intents' /\ c = ctl'[s].pending

(* What is executed in the step was carried by the session. *)
NewEntries(s) == \A e \in log' : e \in log \/ Carries(s, e.command)

SeesOn(s) ==
    /\ ctl[s].phase = "disposed" => ctl'[s].phase = "disposed"
    /\ ctl'[s].phase # "disposed" =>
          \A c \in Command : Seen(ctl[s], c) => Seen(ctl'[s], c)

LEMMA Typed ==
    ASSUME Frames, NEW s \in Session
    PROVE  /\ calls[s] \in Seq(Call) /\ Len(calls[s]) \in Nat
           /\ DOMAIN calls[s] = 1..Len(calls[s])
           /\ answer[s] \in Answer \cup {None}
           /\ awaiting[s] \in {None, "read", "mutate"}
           /\ ctl[s] \in Controller /\ IsController(ctl[s]) /\ ControllerFields(ctl[s])
<1>1. calls[s] \in Seq(Call)
      BY DEF Frames
<1>2. Len(calls[s]) \in Nat /\ DOMAIN calls[s] = 1..Len(calls[s])
      BY <1>1, LenProperties
<1>3. ctl[s] \in Controller
      BY DEF Frames
<1> QED BY <1>1, <1>2, <1>3, ControllerType DEF Frames

LEMMA Numbers ==
    ASSUME SessionInv
    PROVE  /\ keep.revision \in Nat /\ keep.lastAccepted \in Nat
           /\ intents \in Nat /\ faults \in Nat
           /\ \A e \in log : e.command \in Command /\ e.revision \in Nat
           /\ keep.lastAccepted <= intents
<1>1. LogOK /\ intents \in Nat /\ faults \in Nat
      BY Bounds DEF SessionInv
<1>2. keep.revision \in Nat /\ keep.lastAccepted \in Nat
      BY <1>1, KeepFacts DEF LogOK
<1>3. \A e \in log : e.command \in Command /\ e.revision \in Nat
      BY <1>1, ReceiptFacts DEF LogOK
<1> QED BY <1>1, <1>2, <1>3, AcceptedAtMost

LEMMA KnownOn ==
    ASSUME SessionInv, Grows, keep'.revision \in Nat, keep'.lastAccepted \in Nat
    PROVE  /\ \A v \in View : Known(v) => v.revision <= keep'.revision /\ v.lastAccepted <= keep'.lastAccepted
           /\ \A m \in Mark : Confirmed(m) => m.revision <= keep'.revision /\ m.sequence <= keep'.lastAccepted
<1>1. /\ keep.revision \in Nat /\ keep.lastAccepted \in Nat
      /\ keep'.revision \in Nat /\ keep'.lastAccepted \in Nat
      BY Numbers
<1> QED BY <1>1, ViewFacts, MarkFacts DEF Grows, Known, Confirmed

LEMMA KeepNumbers ==
    ASSUME keep' \in KeepRows
    PROVE  keep'.revision \in Nat /\ keep'.lastAccepted \in Nat
<1>1. keep'.revision \in Revision /\ keep'.lastAccepted \in 0..MaxIntents
      BY DEF KeepRows
<1> QED BY <1>1, Bounds DEF Revision

(* A controller and its answer, while the keep moves on. *)
LEMMA ControllerOn ==
    ASSUME SessionInv, Grows, keep' \in KeepRows, NEW u \in Session,
           ctl'[u] = ctl[u], awaiting'[u] = awaiting[u]
    PROVE  ControllerOK(u)'
<1>1. ControllerOK(u) /\ ControllerFields(ctl[u])
      BY Typed DEF SessionInv, SessionOK
<1>2. /\ \A v \in View : Known(v) => v.revision <= keep'.revision /\ v.lastAccepted <= keep'.lastAccepted
      /\ \A m \in Mark : Confirmed(m) => m.revision <= keep'.revision /\ m.sequence <= keep'.lastAccepted
      BY KeepNumbers, KnownOn
<1>3. ctl[u].view # None => Known(ctl[u].view)'
  <2>1. ctl[u].view # None => ctl[u].view \in View /\ Known(ctl[u].view)
        BY <1>1 DEF ControllerOK, ControllerFields
  <2> QED BY <1>2, <2>1 DEF Known
<1>4. ctl[u].confirmed # None => Confirmed(ctl[u].confirmed)'
  <2>1. ctl[u].confirmed # None => ctl[u].confirmed \in Mark /\ Confirmed(ctl[u].confirmed)
        BY <1>1 DEF ControllerOK, ControllerFields
  <2> QED BY <1>2, <2>1 DEF Confirmed
<1> QED BY <1>1, <1>3, <1>4 DEF ControllerOK

LEMMA AnswerOn ==
    ASSUME SessionInv, Grows, keep' \in KeepRows, NEW u \in Session,
           ctl'[u] = ctl[u], awaiting'[u] = awaiting[u], answer'[u] = answer[u],
           (answer[u] # None /\ awaiting[u] = "mutate" /\ u \in Ordered)
              => \A e \in log' : e \in log \/ e.command # ctl[u].pending
    PROVE  AnswerOK(u)'
<1> DEFINE a == answer[u]
<1> SUFFICES ASSUME a # None PROVE Fits(answer[u], u)'
    BY DEF AnswerOK
<1>1. a \in Answer /\ Fits(a, u) /\ awaiting[u] # None
      BY Typed DEF SessionInv, SessionOK, AnswerOK, QueueOK
<1>2. ASSUME a.kind = "state"
      PROVE  awaiting[u] = "read" /\ ~Regressed(ctl[u], a.view) /\ Known(answer[u].view)'
  <2>1. awaiting[u] = "read" /\ ~Regressed(ctl[u], a.view) /\ Known(a.view)
        BY <1>1, <1>2 DEF Fits
  <2>2. a.view \in View
        BY <1>1, <1>2, AnswerFacts
  <2>3. a.view.revision <= keep'.revision /\ a.view.lastAccepted <= keep'.lastAccepted
        BY <2>1, <2>2, KeepNumbers, KnownOn
  <2> QED BY <2>1, <2>3 DEF Known
<1>3. ASSUME a.kind = "receipt"
      PROVE  awaiting[u] = "mutate" /\ Matches(a, ctl[u].pending) /\ Executed(ctl[u].pending)'
  <2>1. awaiting[u] = "mutate" /\ Matches(a, ctl[u].pending) /\ Executed(ctl[u].pending)
        BY <1>1, <1>3 DEF Fits
  <2> QED BY <2>1 DEF Executed, Grows
<1>4. ASSUME a.kind \in {"rejected", "not-initialized"}, awaiting[u] = "mutate", u \in Ordered
      PROVE  \A e \in log' : e.command # ctl[u].pending
  <2>1. \A e \in log : e.command # ctl[u].pending
        BY <1>1, <1>4 DEF Fits
  <2> QED BY <1>4, <2>1
<1>5. Regressed(ctl[u], answer[u].view)' <=> Regressed(ctl[u], a.view)
      BY DEF Regressed
<1>6. Matches(answer[u], ctl[u].pending)' <=> Matches(a, ctl[u].pending)
      BY DEF Matches
<1> QED BY <1>2, <1>3, <1>4, <1>5, <1>6 DEF Fits

LEMMA OthersKeep ==
    ASSUME SessionInv, NEW s \in Session, OnlyMoves(s), Grows, NewEntries(s), keep' \in KeepRows,
           NEW u \in Session, u # s
    PROVE  SessionOK(u)'
<1>1. /\ calls'[u] = calls[u] /\ answer'[u] = answer[u]
      /\ awaiting'[u] = awaiting[u] /\ ctl'[u] = ctl[u]
      BY DEF OnlyMoves
<1>2. ControllerOK(u) /\ QueueOK(u) /\ OwnerOK /\ ControllerFields(ctl[u])
      BY Typed DEF SessionInv, SessionOK
<1>3. ControllerOK(u)'
      BY <1>1, ControllerOn
<1>4. QueueOK(u)'
      BY <1>1, <1>2 DEF QueueOK
<1>5. ASSUME awaiting[u] = "mutate", NEW e \in log', e \notin log, e.command = ctl[u].pending
      PROVE  FALSE
  <2>1. Carries(s, e.command)
        BY <1>5 DEF NewEntries
  <2>2. ctl[u].pending # None /\ ctl[u].pending \in Command
        BY <1>2, <1>5 DEF ControllerOK, ControllerFields
  <2>3. Carries(u, ctl[u].pending)
        BY <2>2 DEF Carries
  <2>4. s = u
        BY <1>2, <1>5, <2>1, <2>2, <2>3 DEF OwnerOK
  <2> QED BY <2>4
<1>6. AnswerOK(u)'
      BY <1>1, <1>5, AnswerOn
<1> QED BY <1>3, <1>4, <1>6 DEF SessionOK

LEMMA OwnerKept ==
    ASSUME SessionInv, NEW s \in Session, Carried(s), NewEntries(s), intents <= intents',
           intents' \in Nat, \A e \in log' : e.command \in Command
    PROVE  OwnerOK'
<1> SUFFICES ASSUME NEW r \in Session, NEW c \in Command, Carries(r, c)'
             PROVE  /\ c.requestKey <= intents'
                    /\ \A u \in Session, d \in Command :
                          Carries(u, d)' /\ d.requestKey = c.requestKey => d = c /\ u = r
                    /\ \A e \in log' : e.command.requestKey = c.requestKey => e.command = c
    BY DEF OwnerOK
<1> DEFINE New(u, d) == u = s /\ intents < d.requestKey /\ d.requestKey <= intents' /\ d = ctl'[s].pending
<1>1. \A u \in Session, d \in Command : Carries(u, d)' => Carries(u, d) \/ New(u, d)
      BY DEF Carried
<1>2. OwnerOK /\ intents \in Nat /\ \A e \in log : e.command.requestKey <= intents /\ e.command \in Command
      BY Numbers DEF SessionInv, LogOK
<1>3. \A d \in Command : d.requestKey \in Nat
      BY CommandFacts
<1>4. \A u \in Session, d \in Command : Carries(u, d) => d.requestKey <= intents
      BY <1>2 DEF OwnerOK
<1>5. c.requestKey <= intents'
      BY <1>1, <1>2, <1>3, <1>4
<1>6. ASSUME NEW u \in Session, NEW d \in Command, Carries(u, d)', d.requestKey = c.requestKey
      PROVE  d = c /\ u = r
  <2>1. CASE Carries(u, d) /\ Carries(r, c)
        BY <1>2, <1>6, <2>1 DEF OwnerOK
  <2>2. CASE New(u, d) /\ New(r, c)
        BY <2>2
  <2>3. CASE Carries(u, d) /\ New(r, c)
        BY <1>2, <1>3, <1>4, <1>6, <2>3
  <2>4. CASE New(u, d) /\ Carries(r, c)
        BY <1>2, <1>3, <1>4, <1>6, <2>4
  <2> QED BY <1>1, <1>6, <2>1, <2>2, <2>3, <2>4
<1>7. ASSUME NEW e \in log', e.command.requestKey = c.requestKey
      PROVE  e.command = c
  <2>1. e.command \in Command /\ e.command.requestKey \in Nat
        BY <1>3
  <2>2. e.command.requestKey <= intents
        BY <1>2, <1>4, <2>1 DEF NewEntries
  <2>3. Carries(r, c)
        BY <1>1, <1>2, <1>3, <1>7, <2>2
  <2>4. CASE e \in log
        BY <1>2, <1>7, <2>3, <2>4 DEF OwnerOK
  <2>5. CASE Carries(s, e.command)
        BY <1>2, <1>7, <2>1, <2>3, <2>5 DEF OwnerOK
  <2> QED BY <2>4, <2>5 DEF NewEntries
<1> QED BY <1>5, <1>6, <1>7

LEMMA ToldKept ==
    ASSUME SessionInv, NEW s \in Session, OnlyMoves(s), Carried(s), NewEntries(s), SeesOn(s), Grows,
           intents' \in Nat, NEW t \in told
    PROVE  ToldTrue(t)'
<1>1. ToldTrue(t) /\ intents \in Nat /\ t.session \in Session /\ t.command \in Command
      /\ t.command.requestKey \in Nat /\ t.command.requestKey <= intents
      BY Numbers, CommandFacts DEF SessionInv, ToldOK, ToldTrue
<1>2. t.command.requestKey <= intents'
      BY <1>1 DEF Grows
<1>3. ASSUME t.verdict = "executed"
      PROVE  /\ Executed(t.command)'
             /\ ctl'[t.session].phase # "disposed" => Seen(ctl'[t.session], t.command)
  <2>1. Executed(t.command)'
        BY <1>1, <1>3 DEF ToldTrue, Executed, Grows
  <2>2. CASE t.session = s
    <3>1. ctl[s].phase # "disposed" => Seen(ctl[s], t.command)
          BY <1>1, <1>3, <2>2 DEF ToldTrue
    <3> QED BY <1>1, <2>1, <2>2, <3>1 DEF SeesOn
  <2>3. CASE t.session # s
    <3>1. ctl'[t.session] = ctl[t.session]
          BY <1>1, <2>3 DEF OnlyMoves
    <3> QED BY <1>1, <1>3, <2>1, <3>1 DEF ToldTrue
  <2> QED BY <2>2, <2>3
<1>4. ASSUME t.verdict = "refused", t.session \in Ordered
      PROVE  /\ \A e \in log' : e.command # t.command
             /\ \A u \in Session : ~Carries(u, t.command)'
  <2>1. /\ \A e \in log : e.command # t.command
        /\ \A u \in Session : ~Carries(u, t.command)
        BY <1>1, <1>4 DEF ToldTrue
  <2>2. \A e \in log' : e.command # t.command
        BY <2>1 DEF NewEntries
  <2>3. \A u \in Session : ~Carries(u, t.command)'
        BY <1>1, <2>1 DEF Carried
  <2> QED BY <2>2, <2>3
<1>5. Seen(ctl[t.session], t.command)' <=> Seen(ctl'[t.session], t.command)
      BY DEF Seen
<1> QED BY <1>1, <1>2, <1>3, <1>4, <1>5 DEF ToldTrue

LEMMA StepKeeps ==
    ASSUME SessionInv, NEW s \in Session, OnlyMoves(s), Carried(s), NewEntries(s), SeesOn(s), Grows,
           Frames', LogOK', SessionOK(s)', intents' \in 0..MaxIntents, faults' \in 0..MaxFaults,
           \A t \in told' : t \in told \/ ToldTrue(t)'
    PROVE  SessionInv'
<1>1. /\ keep' \in KeepRows /\ intents' \in Nat /\ \A e \in log' : e.command \in Command
  <2>1. keep' \in KeepRows /\ log' \subseteq Receipt
        BY DEF LogOK
  <2> QED BY <2>1, ReceiptFacts, Bounds
<1>2. \A u \in Session : SessionOK(u)'
      BY <1>1, OthersKeep
<1>3. OwnerOK'
      BY <1>1, OwnerKept DEF Grows
<1>4. ToldOK'
      BY <1>1, ToldKept DEF ToldOK
<1> QED BY <1>2, <1>3, <1>4 DEF SessionInv

-----------------------------------------------------------------------------
(* The database runs a call. *)

Awaited(s, i) == i = Len(calls[s]) /\ awaiting[s] # None /\ answer[s] = None

LEMMA Responded ==
    ASSUME SessionInv, NEW s \in Session, NEW i \in Runnable(s), NEW a \in Answer,
           Respond(s, i, a), UNCHANGED <<awaiting, ctl>>
    PROVE  /\ OnlyMoves(s) /\ SeesOn(s) /\ Carried(s) /\ Frames' /\ QueueOK(s)'
           /\ i \in 1..Len(calls[s]) /\ calls[s][i] \in Call
           /\ calls[s][i].kind = "mutate" => Carries(s, calls[s][i].command)
           /\ Awaited(s, i) => /\ answer'[s] = a /\ calls[s][i].kind = awaiting[s]
                               /\ awaiting[s] = "mutate" => calls[s][i].command = ctl[s].pending
           /\ ~Awaited(s, i) => answer'[s] = answer[s]
           /\ answer[s] # None => s \notin Ordered
<1> DEFINE q == calls[s]
           n == RemoveAt(q, i)
<1>1. /\ Frames /\ QueueOK(s)
      /\ q \in Seq(Call) /\ Len(q) \in Nat /\ DOMAIN q = 1..Len(q)
      BY Typed DEF SessionInv, SessionOK
<1>2. i \in 1..Len(q) /\ (s \in Ordered => i = 1)
      BY <1>1 DEF Runnable
<1>3. q[i] \in Call
      BY <1>1, <1>2, ElementOfSeq
<1>4. /\ n \in Seq(Call) /\ Len(n) = Len(q) - 1
      /\ \A j \in 1..(Len(q) - 1) : n[j] = IF j < i THEN q[j] ELSE q[j + 1]
      BY <1>1, <1>2, Removed
<1>5. /\ calls' = [calls EXCEPT ![s] = n]
      /\ answer' = [answer EXCEPT ![s] = IF Awaited(s, i) THEN a ELSE answer[s]]
      BY DEF Respond, Awaited
<1> HIDE DEF n
<1>6. /\ calls'[s] = n /\ answer'[s] = IF Awaited(s, i) THEN a ELSE answer[s]
      /\ \A u \in Session : u # s => calls'[u] = calls[u] /\ answer'[u] = answer[u]
      BY <1>1, <1>5 DEF Frames
<1>7. Frames'
      BY <1>1, <1>4, <1>5 DEF Frames
<1>8. OnlyMoves(s) /\ SeesOn(s)
      BY <1>6 DEF OnlyMoves, SeesOn
<1>9. DOMAIN n = 1..(Len(q) - 1)
      BY <1>4, LenProperties
<1>10. Carried(s)
  <2> SUFFICES ASSUME NEW u \in Session, NEW c \in Command, Carries(u, c)' PROVE Carries(u, c)
      BY DEF Carried
  <2>1. CASE ctl[u].pending # None /\ c = ctl[u].pending
        BY <2>1 DEF Carries
  <2>2. CASE u # s /\ \E j \in DOMAIN calls'[u] : calls'[u][j].kind = "mutate" /\ calls'[u][j].command = c
        BY <1>6, <2>2 DEF Carries
  <2>3. CASE u = s /\ \E j \in DOMAIN calls'[u] : calls'[u][j].kind = "mutate" /\ calls'[u][j].command = c
    <3>1. PICK j \in 1..(Len(q) - 1) : n[j].kind = "mutate" /\ n[j].command = c
          BY <1>6, <1>9, <2>3
    <3>2. n[j] = IF j < i THEN q[j] ELSE q[j + 1]
          BY <1>4
    <3>3. j \in DOMAIN q /\ j + 1 \in DOMAIN q
          BY <1>1, <3>1
    <3> QED BY <2>3, <3>1, <3>2, <3>3 DEF Carries
  <2> QED BY <2>1, <2>2, <2>3 DEF Carries
<1>11. QueueOK(s)'
  <2>1. awaiting'[s] = awaiting[s] /\ ctl'[s] = ctl[s]
        OBVIOUS
  <2>2. Len(n) <= MaxQueue
        BY <1>1, <1>4, Bounds DEF QueueOK
  <2>3. ASSUME answer'[s] # None
        PROVE  awaiting[s] # None /\ Len(n) < MaxQueue /\ (s \in Ordered => Len(n) = 0)
    <3>1. CASE Awaited(s, i)
          BY <1>1, <1>2, <1>4, <3>1, Bounds DEF QueueOK, Awaited
    <3>2. CASE ~Awaited(s, i)
      <4>1. answer[s] # None
            BY <1>6, <2>3, <3>2
      <4> QED BY <1>1, <1>2, <1>4, <4>1, Bounds DEF QueueOK
    <3> QED BY <3>1, <3>2
  <2>4. ASSUME awaiting[s] # None, answer'[s] = None
        PROVE  /\ Len(n) > 0 /\ n[Len(n)].kind = awaiting[s]
               /\ awaiting[s] = "mutate" => n[Len(n)].command = ctl[s].pending
    <3>1. answer[s] = None /\ ~Awaited(s, i)
          BY <1>6, <2>4, AnswerFacts
    <3>2. i < Len(q)
          BY <1>1, <1>2, <2>4, <3>1 DEF Awaited
    <3>3. Len(n) \in 1..(Len(q) - 1) /\ ~(Len(n) < i) /\ Len(n) + 1 = Len(q)
          BY <1>1, <1>2, <1>4, <3>2
    <3>4. n[Len(n)] = q[Len(q)]
          BY <1>4, <3>3
    <3> QED BY <1>1, <1>4, <2>4, <3>1, <3>3, <3>4 DEF QueueOK
  <2> QED BY <1>6, <2>1, <2>2, <2>3, <2>4 DEF QueueOK
<1>12. q[i].kind = "mutate" => Carries(s, q[i].command)
      BY <1>1, <1>2 DEF Carries
<1>13. Awaited(s, i) => /\ q[i].kind = awaiting[s]
                        /\ awaiting[s] = "mutate" => q[i].command = ctl[s].pending
      BY <1>1 DEF QueueOK, Awaited
<1>14. answer[s] # None => s \notin Ordered
      BY <1>1, <1>2 DEF QueueOK
<1> QED BY <1>2, <1>3, <1>6, <1>7, <1>8, <1>10, <1>11, <1>12, <1>13, <1>14

(* A call has been run: what is left is the answer, and the log. *)
LEMMA RunKeeps ==
    ASSUME SessionInv, NEW s \in Session, NEW i \in Runnable(s), NEW a \in Answer,
           Respond(s, i, a), UNCHANGED <<awaiting, ctl, intents, told>>,
           Grows, NewEntries(s), LogOK', faults' \in 0..MaxFaults,
           Awaited(s, i) => Fits(a, s)'
    PROVE  SessionInv'
<1>1. /\ OnlyMoves(s) /\ SeesOn(s) /\ Carried(s) /\ Frames' /\ QueueOK(s)'
      /\ Awaited(s, i) => answer'[s] = a
      /\ ~Awaited(s, i) => answer'[s] = answer[s]
      /\ answer[s] # None => s \notin Ordered
      BY Responded
<1>2. keep' \in KeepRows
      BY DEF LogOK
<1>3. ControllerOK(s)'
      BY <1>2, ControllerOn
<1>4. AnswerOK(s)'
  <2>1. CASE Awaited(s, i)
    <3>1. answer'[s] = a
          BY <1>1, <2>1
    <3>2. Fits(answer[s], s)'
          BY <2>1, <3>1 DEF Fits, Regressed, Matches, Known, Executed
    <3> QED BY <3>2 DEF AnswerOK
  <2>2. CASE ~Awaited(s, i)
        BY <1>1, <1>2, <2>2, AnswerOn
  <2> QED BY <2>1, <2>2
<1>5. SessionOK(s)'
      BY <1>1, <1>3, <1>4 DEF SessionOK
<1>6. intents' \in 0..MaxIntents
      BY DEF SessionInv
<1>7. \A t \in told' : t \in told \/ ToldTrue(t)'
      OBVIOUS
<1> QED BY <1>1, <1>5, <1>6, <1>7, StepKeeps

(* The keep settles, or accepts a command. *)
LEMMA LogOn ==
    ASSUME SessionInv, keep' \in MaySettle(keep), log' = log, intents' = intents
    PROVE  LogOK' /\ Grows /\ (\A s \in Session : NewEntries(s))
<1>1. LogOK /\ keep \in KeepRows
      BY DEF SessionInv, LogOK
<1>2. keep.revision \in Nat /\ keep.lastAccepted \in Nat /\ keep.receipts \subseteq Receipt
      BY <1>1, KeepFacts
<1>3. /\ keep' \in KeepRows /\ keep'.lastAccepted = keep.lastAccepted
      /\ keep'.receipts = keep.receipts /\ keep.revision <= keep'.revision
      /\ keep'.revision \in Nat /\ keep'.revision <= MaxRevision + keep'.lastAccepted
  <2>1. CASE keep' = keep
        BY <1>1, <1>2, <2>1 DEF LogOK
  <2>2. CASE keep' = Settled(keep) /\ keep.revision < MaxRevision
    <3> DEFINE v == keep.revision + 1
    <3>1. keep' = [keep EXCEPT !.revision = v]
          BY <2>2 DEF Settled
    <3>2. v \in Revision /\ v \in Nat /\ v <= MaxRevision + keep.lastAccepted /\ keep.revision <= v
          BY <1>2, <2>2, Bounds DEF Revision
    <3> HIDE DEF v
    <3>3. /\ keep' \in KeepRows /\ keep'.lastAccepted = keep.lastAccepted
          /\ keep'.receipts = keep.receipts /\ keep'.revision = v
          BY <1>1, <3>1, <3>2 DEF KeepRows
    <3> QED BY <3>2, <3>3
  <2> QED BY <2>1, <2>2 DEF MaySettle
<1>4. \A e \in log : e.revision <= keep'.revision
  <2> SUFFICES ASSUME NEW e \in log PROVE e.revision <= keep'.revision
      OBVIOUS
  <2>1. e.revision \in Nat /\ e.revision <= keep.revision
        BY <1>1, ReceiptFacts DEF LogOK
  <2> QED BY <1>2, <1>3, <2>1
<1>5. LogOK'
      BY <1>1, <1>3, <1>4 DEF LogOK
<1>6. Grows
      BY <1>2, <1>3, Numbers DEF Grows
<1> QED BY <1>5, <1>6 DEF NewEntries

LEMMA LogAccept ==
    ASSUME SessionInv, NEW s \in Session, NEW c \in Command, Carries(s, c), Acceptable(keep, c),
           keep' = Committed(keep, c), intents' = intents,
           log' = log \cup {[command |-> c, revision |-> keep.revision + 1]}
    PROVE  /\ LogOK' /\ Grows /\ NewEntries(s)
           /\ c.expectedRevision = keep.revision /\ keep.revision + 1 \in Revision
<1> DEFINE v == keep.revision + 1
           new == [command |-> c, revision |-> v]
           r == WithReceipt(keep.receipts, c, v)
<1>1. LogOK /\ keep \in KeepRows /\ OwnerOK
      BY DEF SessionInv, LogOK
<1>2. /\ keep.revision \in Nat /\ keep.lastAccepted \in Nat /\ keep.receipts \subseteq Receipt
      /\ intents \in Nat
      BY <1>1, KeepFacts, Numbers
<1>3. /\ c.sequence \in Nat /\ c.sequence <= MaxIntents /\ c.requestKey \in Nat
      /\ c.expectedRevision \in Nat
      BY CommandFacts
<1>4. c.sequence = keep.lastAccepted + 1 /\ c.expectedRevision = keep.revision
  <2>1. CASE c.kind = "initialize"
    <3>1. keep.revision = 0 /\ c.sequence = 1 /\ c.expectedRevision = 0
          BY <2>1 DEF Acceptable
    <3>2. log = {}
      <4> SUFFICES ASSUME NEW e \in log PROVE FALSE
          OBVIOUS
      <4>1. e.command.expectedRevision \in Nat /\ e.revision = e.command.expectedRevision + 1
            /\ e.revision <= 0
            BY <1>1, <3>1, ReceiptFacts, CommandFacts DEF LogOK
      <4> QED BY <4>1
    <3>3. keep.lastAccepted = 0
          BY <1>1, <3>2, FS_EmptySet DEF LogOK
    <3> QED BY <3>1, <3>3
  <2>2. CASE c.kind # "initialize"
    <3>1. Preflight(keep, keep.receipts, c) = "fresh"
          BY <2>2 DEF Acceptable
    <3>2. InTurn(keep, c) /\ Quoted(keep, c)
          BY <3>1 DEF Preflight
    <3> QED BY <3>2 DEF InTurn, Quoted
  <2> QED BY <2>1, <2>2
<1>5. /\ v \in Nat /\ v \in Revision /\ v <= MaxRevision + c.sequence
      /\ c.sequence \in 0..MaxIntents
      BY <1>1, <1>2, <1>3, <1>4, Bounds DEF LogOK, Revision
<1>6. keep' = [revision |-> v, lastAccepted |-> c.sequence, receipts |-> r]
      BY DEF Committed
<1> DEFINE all == keep.receipts \cup {new}
<1>7. r \in {all, all \ Oldest(all)}
      BY DEF WithReceipt
<1> HIDE DEF r, v
<1>8. /\ new.command = c /\ new.revision = v /\ new \in Receipt
      BY <1>5 DEF Receipt
<1> HIDE DEF new
<1>9. log' = log \cup {new} /\ log' \subseteq Receipt
      BY <1>1, <1>8 DEF LogOK, new, v
<1>10. r \subseteq log'
      BY <1>1, <1>7, <1>9 DEF LogOK
<1>11. keep' \in KeepRows
      BY <1>5, <1>6, <1>9, <1>10 DEF KeepRows
<1>12. keep'.revision = v /\ keep'.lastAccepted = c.sequence /\ keep'.receipts = r
      BY <1>6
<1>13. \A e \in log : /\ e.command.sequence \in Nat /\ e.command.sequence <= keep.lastAccepted
                      /\ e.revision \in Nat /\ e.revision <= keep.revision
      BY <1>1, ReceiptFacts, CommandFacts DEF LogOK
<1>14. \A e \in log : e.command.sequence # c.sequence
      BY <1>2, <1>4, <1>13
<1>15. IsFiniteSet(log') /\ Cardinality(log') = keep'.lastAccepted
  <2>1. new \notin log
        BY <1>8, <1>14
  <2>2. IsFiniteSet(log) /\ Cardinality(log) = keep.lastAccepted
        BY <1>1 DEF LogOK
  <2>3. IsFiniteSet(log \cup {new}) /\ Cardinality(log \cup {new}) = Cardinality(log) + 1
        BY <2>1, <2>2, FS_AddElement
  <2> QED BY <1>4, <1>9, <1>12, <2>2, <2>3
<1>16. \A e \in log' : /\ e.command.sequence <= keep'.lastAccepted
                       /\ e.revision = e.command.expectedRevision + 1
                       /\ e.revision <= keep'.revision
                       /\ e.command.requestKey <= intents'
  <2> SUFFICES ASSUME NEW e \in log'
               PROVE  /\ e.command.sequence <= keep'.lastAccepted
                      /\ e.revision = e.command.expectedRevision + 1
                      /\ e.revision <= keep'.revision
                      /\ e.command.requestKey <= intents'
      OBVIOUS
  <2>1. CASE e = new
    <3>1. c.requestKey <= intents
          BY <1>1 DEF OwnerOK
    <3> QED BY <1>3, <1>4, <1>5, <1>8, <1>12, <2>1, <3>1 DEF v
  <2>2. CASE e \in log
    <3>1. e.revision = e.command.expectedRevision + 1 /\ e.command.requestKey <= intents
          BY <1>1, <2>2 DEF LogOK
    <3>2. e.command.sequence <= c.sequence /\ e.revision <= v
          BY <1>2, <1>4, <1>13, <2>2 DEF v
    <3> QED BY <1>12, <3>1, <3>2
  <2> QED BY <1>9, <2>1, <2>2
<1>17. \A e, f \in log' : e.command.sequence = f.command.sequence => e = f
      BY <1>1, <1>8, <1>9, <1>14 DEF LogOK
<1>18. \A e, f \in log' : e.command.requestKey = f.command.requestKey => e = f
  <2>1. \A e \in log : e.command.requestKey # c.requestKey
        BY <1>1, <1>14 DEF OwnerOK
  <2> QED BY <1>1, <1>8, <1>9, <2>1 DEF LogOK
<1>19. LogOK'
      BY <1>5, <1>9, <1>10, <1>11, <1>12, <1>15, <1>16, <1>17, <1>18 DEF LogOK
<1>20. Grows
  <2>1. keep.revision <= v /\ keep.lastAccepted <= c.sequence
        BY <1>2, <1>4 DEF v
  <2> QED BY <1>2, <1>9, <1>12, <2>1 DEF Grows
<1>21. NewEntries(s)
      BY <1>8, <1>9 DEF NewEntries
<1> QED BY <1>4, <1>5, <1>19, <1>20, <1>21 DEF v

(* A read is answered with the keep as it is then. *)
LEMMA ReadKeeps ==
    ASSUME SessionInv, NEW s \in Session, NEW i \in Runnable(s), RunRead(s, i)
    PROVE  SessionInv'
<1>1. calls[s][i].kind = "read" /\ UNCHANGED <<log, awaiting, ctl, intents, told, faults>>
      BY DEF RunRead
<1>2. PICK rows \in MaySettle(keep) :
         /\ keep' = rows
         /\ Respond(s, i, IF rows.revision = 0 THEN Fail("not-initialized")
                          ELSE [kind |-> "state", view |-> ViewOf(rows)])
      BY DEF RunRead
<1>3. LogOK' /\ Grows /\ NewEntries(s) /\ keep' \in KeepRows
      BY <1>1, <1>2, LogOn DEF LogOK
<1> DEFINE a == IF rows.revision = 0 THEN Fail("not-initialized")
                ELSE [kind |-> "state", view |-> ViewOf(rows)]
           w == ViewOf(rows)
<1>4. /\ w \in View /\ w.revision = keep'.revision /\ w.lastAccepted = keep'.lastAccepted
  <2>1. rows.revision \in Revision /\ rows.lastAccepted \in 0..MaxIntents
        BY <1>2, <1>3 DEF KeepRows
  <2>2. w = [revision |-> rows.revision, lastAccepted |-> rows.lastAccepted]
        BY DEF ViewOf
  <2> QED BY <1>2, <2>1, <2>2 DEF View
<1> HIDE DEF w
<1>5. CASE a = Fail("not-initialized")
  <2>1. a \in Answer /\ a.kind = "not-initialized"
        BY <1>5, FailFacts
  <2>2. Respond(s, i, a)
        BY <1>2
  <2> HIDE DEF a
  <2>3. ASSUME Awaited(s, i) PROVE Fits(a, s)'
    <3>1. awaiting[s] = "read"
          BY <1>1, <2>1, <2>2, <2>3, Responded
    <3> QED BY <1>1, <2>1, <3>1 DEF Fits
  <2> QED BY <1>1, <1>3, <2>1, <2>2, <2>3, RunKeeps DEF SessionInv
<1>6. CASE a = [kind |-> "state", view |-> w]
  <2>1. a \in Answer /\ a.kind = "state" /\ a.view = w
        BY <1>4, <1>6 DEF Answer
  <2>2. Respond(s, i, a)
        BY <1>2 DEF w
  <2> HIDE DEF a
  <2>3. ASSUME Awaited(s, i) PROVE Fits(a, s)'
    <3>1. awaiting[s] = "read"
          BY <1>1, <2>1, <2>2, <2>3, Responded
    <3>2. Known(a.view)'
          BY <1>3, <1>4, <2>1, KeepNumbers DEF Known
    <3>3. ~Regressed(ctl[s], w)
      <4>1. ControllerOK(s) /\ ControllerFields(ctl[s])
            BY Typed DEF SessionInv, SessionOK
      <4>2. ctl[s].view # None =>
              /\ ctl[s].view \in View
              /\ ctl[s].view.revision <= w.revision /\ ctl[s].view.lastAccepted <= w.lastAccepted
            BY <1>3, <1>4, <4>1, KeepNumbers, KnownOn DEF ControllerOK, ControllerFields
      <4>3. ctl[s].confirmed # None =>
              /\ ctl[s].confirmed \in Mark
              /\ ctl[s].confirmed.revision <= w.revision /\ ctl[s].confirmed.sequence <= w.lastAccepted
            BY <1>3, <1>4, <4>1, KeepNumbers, KnownOn DEF ControllerOK, ControllerFields
      <4>4. w.revision \in Nat /\ w.lastAccepted \in Nat
            BY <1>4, ViewFacts
      <4> QED BY <4>2, <4>3, <4>4, ViewFacts, MarkFacts DEF Regressed
    <3>4. Regressed(ctl[s], a.view)' <=> Regressed(ctl[s], w)
          BY <1>1, <2>1 DEF Regressed
    <3> QED BY <1>1, <2>1, <3>1, <3>2, <3>3, <3>4 DEF Fits
  <2> QED BY <1>1, <1>3, <2>1, <2>2, <2>3, RunKeeps DEF SessionInv
<1> QED BY <1>5, <1>6 DEF w

(* A command is accepted, and answered with its receipt. *)
LEMMA AcceptKeeps ==
    ASSUME SessionInv, NEW s \in Session, NEW i \in Runnable(s), calls[s][i].kind = "mutate",
           Accept(s, i), UNCHANGED <<awaiting, ctl, intents, told, faults>>
    PROVE  SessionInv'
<1> DEFINE c == calls[s][i].command
           v == keep.revision + 1
<1>0. PICK a : a = [kind |-> "receipt", sequence |-> c.sequence, revision |-> v]
      OBVIOUS
<1>1. /\ Acceptable(keep, c) /\ keep' = Committed(keep, c)
      /\ log' = log \cup {[command |-> c, revision |-> v]} /\ Respond(s, i, a)
      BY <1>0 DEF Accept
<1>2. /\ Frames /\ DOMAIN calls[s] = 1..Len(calls[s]) /\ calls[s] \in Seq(Call)
      BY Typed DEF SessionInv
<1>3. i \in DOMAIN calls[s]
      BY <1>2 DEF Runnable
<1>4. c \in Command /\ Carries(s, c)
  <2>1. calls[s][i] \in Call
        BY <1>2, <1>3, ElementOfSeq
  <2> QED BY <1>3, <2>1, CallFacts DEF Carries
<1> HIDE DEF c
<1>5. /\ LogOK' /\ Grows /\ NewEntries(s)
      /\ c.expectedRevision = keep.revision /\ v \in Revision
      BY <1>1, <1>4, LogAccept
<1> HIDE DEF v
<1>6. a \in Answer
  <2>1. c.sequence \in 1..MaxIntents
        BY <1>4 DEF Command
  <2> QED BY <1>0, <1>5, <2>1 DEF Answer
<1>7. a.kind = "receipt" /\ a.sequence = c.sequence /\ a.revision = v
      BY <1>0
<1>8. ASSUME Awaited(s, i) PROVE Fits(a, s)'
  <2>1. awaiting[s] = "mutate" /\ ctl[s].pending = c
        BY <1>1, <1>6, <1>8, Responded DEF c
  <2>2. v = c.expectedRevision + 1
        BY <1>5 DEF v
  <2>3. Matches(a, ctl[s].pending)
        BY <1>7, <2>1, <2>2 DEF Matches
  <2>4. Executed(ctl[s].pending)'
        BY <1>1, <2>1, <2>2 DEF Executed
  <2>5. Matches(a, ctl[s].pending)' <=> Matches(a, ctl[s].pending)
        BY DEF Matches
  <2> QED BY <1>7, <2>1, <2>3, <2>4, <2>5 DEF Fits
<1>9. faults' \in 0..MaxFaults
      BY DEF SessionInv
<1> QED BY <1>1, <1>5, <1>6, <1>8, <1>9, RunKeeps

(* A command the keep does not accept: what its answer says of it. *)
LEMMA DeclineTrue ==
    ASSUME SessionInv, NEW c \in Command, NEW a \in Refusals(keep, c) \cup Replays(keep, c)
    PROVE  /\ a \in Answer
           /\ a.kind # "state"
           /\ a.kind = "receipt" => Matches(a, c) /\ Executed(c)
           /\ a.kind \in {"rejected", "not-initialized"} => \A e \in log : e.command # c
<1>1. LogOK /\ keep.revision \in Nat /\ keep.lastAccepted \in Nat
      BY Numbers DEF SessionInv
<1>2. CASE a \in Replays(keep, c)
  <2>1. PICK r \in keep.receipts :
           /\ r.command = c
           /\ a = [kind |-> "receipt", sequence |-> r.command.sequence, revision |-> r.revision]
        BY <1>2 DEF Replays, Retained
  <2>2. r \in log /\ r \in Receipt /\ r.revision = c.expectedRevision + 1
        BY <1>1, <2>1 DEF LogOK
  <2>3. r = [command |-> c, revision |-> c.expectedRevision + 1] /\ r.revision \in Revision
        BY <2>1, <2>2, ReceiptFacts
  <2>4. c.sequence \in 1..MaxIntents
        BY DEF Command
  <2>5. a.kind = "receipt" /\ a.sequence = c.sequence /\ a.revision = c.expectedRevision + 1
        BY <2>1, <2>2
  <2>6. a \in Answer
        BY <2>1, <2>3, <2>4 DEF Answer
  <2> QED BY <2>2, <2>3, <2>5, <2>6 DEF Matches, Executed
<1>3. CASE a = Fail("not-initialized") /\ keep.revision = 0
  <2>1. a \in Answer /\ a.kind = "not-initialized"
        BY <1>3, FailFacts
  <2>2. \A e \in log : FALSE
    <3> SUFFICES ASSUME NEW e \in log PROVE FALSE
        OBVIOUS
    <3>1. e.command.expectedRevision \in Nat /\ e.revision = e.command.expectedRevision + 1
          /\ e.revision <= 0
          BY <1>1, <1>3, ReceiptFacts, CommandFacts DEF LogOK
    <3> QED BY <3>1
  <2> QED BY <2>1, <2>2
<1>4. CASE a = Fail("expired")
      BY <1>4, FailFacts
<1>5. CASE /\ a = Fail("rejected")
           /\ Preflight(keep, keep.receipts, c) # "replay"
           /\ Preflight(keep, keep.receipts, c) # "RECEIPT_EXPIRED"
  <2>1. a \in Answer /\ a.kind = "rejected"
        BY <1>5, FailFacts
  <2>2. ASSUME NEW e \in log, e.command = c PROVE FALSE
    <3>1. c.sequence <= keep.lastAccepted
          BY <1>1, <2>2 DEF LogOK
    <3>2. Spent(keep, c)
          BY <3>1 DEF Spent
    <3>3. PICK r \in keep.receipts : r.command.sequence = c.sequence
          BY <1>5, <3>2 DEF Preflight, Retained
    <3>4. r = e
          BY <1>1, <2>2, <3>3 DEF LogOK
    <3>5. r \in Retained(keep.receipts, c) /\ r.command = c
          BY <2>2, <3>3, <3>4 DEF Retained
    <3> QED BY <1>5, <3>5 DEF Preflight
  <2> QED BY <2>1, <2>2
<1>6. CASE a \in Refusals(keep, c)
  <2>1. CASE keep.revision = 0
        BY <1>3, <1>6, <2>1 DEF Refusals
  <2>2. CASE keep.revision # 0
        BY <1>4, <1>5, <1>6, <2>2 DEF Refusals
  <2> QED BY <2>1, <2>2
<1> QED BY <1>2, <1>6

LEMMA DeclineKeeps ==
    ASSUME SessionInv, NEW s \in Session, NEW i \in Runnable(s), calls[s][i].kind = "mutate",
           Decline(s, i), UNCHANGED <<awaiting, ctl, intents, told, faults>>
    PROVE  SessionInv'
<1> DEFINE c == calls[s][i].command
<1>1. UNCHANGED <<keep, log>>
      BY DEF Decline
<1>2. PICK a \in Refusals(keep, c) \cup Replays(keep, c) : Respond(s, i, a)
      BY DEF Decline
<1>3. /\ Frames /\ DOMAIN calls[s] = 1..Len(calls[s]) /\ calls[s] \in Seq(Call)
      BY Typed DEF SessionInv
<1>4. calls[s][i] \in Call
      BY <1>3, ElementOfSeq DEF Runnable
<1>5. c \in Command
      BY <1>4, CallFacts
<1> HIDE DEF c
<1>6. /\ a \in Answer
      /\ a.kind # "state"
      /\ a.kind = "receipt" => Matches(a, c) /\ Executed(c)
      /\ a.kind \in {"rejected", "not-initialized"} => \A e \in log : e.command # c
      BY <1>5, DeclineTrue
<1>7. ASSUME Awaited(s, i) PROVE Fits(a, s)'
  <2>1. awaiting[s] = "mutate" /\ ctl[s].pending = c
        BY <1>2, <1>6, <1>7, Responded DEF c
  <2>2. Matches(a, ctl[s].pending)' <=> Matches(a, c)
        BY <2>1 DEF Matches
  <2>3. Executed(ctl[s].pending)' <=> Executed(c)
        BY <1>1, <2>1 DEF Executed
  <2> QED BY <1>1, <1>6, <2>1, <2>2, <2>3 DEF Fits
<1>8. LogOK' /\ Grows /\ NewEntries(s) /\ faults' \in 0..MaxFaults
  <2>1. keep' \in MaySettle(keep)
        BY <1>1 DEF MaySettle
  <2> QED BY <1>1, <2>1, LogOn DEF SessionInv
<1> QED BY <1>2, <1>6, <1>7, <1>8, RunKeeps

LEMMA FailsKeeps ==
    ASSUME SessionInv, NEW s \in Session, NEW i \in Runnable(s), RunFails(s, i)
    PROVE  SessionInv'
<1> DEFINE a == Fail("uncertain")
<1>1. /\ UNCHANGED <<keep, log, awaiting, ctl, intents, told>> /\ Respond(s, i, a)
      /\ faults < MaxFaults /\ faults' = faults + 1
      BY DEF RunFails
<1>2. a \in Answer /\ a.kind = "uncertain"
      BY FailFacts
<1> HIDE DEF a
<1>3. LogOK' /\ Grows /\ NewEntries(s)
  <2>1. keep' \in MaySettle(keep)
        BY <1>1 DEF MaySettle
  <2> QED BY <1>1, <2>1, LogOn
<1>4. faults' \in 0..MaxFaults
      BY <1>1, Bounds DEF SessionInv
<1>5. Fits(a, s)'
      BY <1>2 DEF Fits
<1> QED BY <1>1, <1>2, <1>3, <1>4, <1>5, RunKeeps

LEMMA SettleKeeps ==
    ASSUME SessionInv, Settle
    PROVE  SessionInv'
<1>1. UNCHANGED <<log, calls, answer, awaiting, ctl, intents, told, faults>> /\ keep' \in MaySettle(keep)
      BY DEF Settle
<1>2. LogOK' /\ Grows /\ keep' \in KeepRows
      BY <1>1, LogOn DEF LogOK
<1>3. ASSUME NEW u \in Session PROVE SessionOK(u)'
  <2>1. ControllerOK(u)' /\ AnswerOK(u)'
        BY <1>1, <1>2, ControllerOn, AnswerOn
  <2>2. QueueOK(u)'
        BY <1>1 DEF SessionInv, SessionOK, QueueOK
  <2> QED BY <2>1, <2>2 DEF SessionOK
<1>4. Frames' /\ OwnerOK' /\ ToldOK'
  <2>1. Frames'
        BY <1>1 DEF SessionInv, Frames
  <2>2. \A u \in Session, c \in Command : Carries(u, c)' <=> Carries(u, c)
        BY <1>1 DEF Carries
  <2>3. OwnerOK'
        BY <1>1, <2>2 DEF SessionInv, OwnerOK
  <2>4. ToldOK'
        BY <1>1, <2>2 DEF SessionInv, ToldOK, ToldTrue, Executed, Seen
  <2> QED BY <2>1, <2>3, <2>4
<1> QED BY <1>1, <1>2, <1>3, <1>4 DEF SessionInv

-----------------------------------------------------------------------------
(* The controller. *)

LEMMA Appended ==
    ASSUME NEW S, NEW q \in Seq(S), NEW x \in S, NEW n, n = Append(q, x)
    PROVE  /\ n \in Seq(S) /\ Len(n) = Len(q) + 1 /\ n[Len(n)] = x
           /\ \A j \in DOMAIN n : (j \in DOMAIN q /\ n[j] = q[j]) \/ n[j] = x
<1>1. /\ n \in Seq(S) /\ Len(n) = Len(q) + 1
      /\ \A j \in 1..Len(q) : n[j] = q[j]
      /\ n[Len(q) + 1] = x
      BY AppendProperties
<1>2. DOMAIN n = 1..Len(n) /\ DOMAIN q = 1..Len(q) /\ Len(q) \in Nat
      BY <1>1, LenProperties
<1>3. ASSUME NEW j \in DOMAIN n PROVE (j \in DOMAIN q /\ n[j] = q[j]) \/ n[j] = x
  <2>1. j \in 1..Len(q) \/ j = Len(q) + 1
        BY <1>1, <1>2
  <2> QED BY <1>1, <1>2, <2>1
<1> QED BY <1>1, <1>3

(* A step of a controller leaves the keep and the log alone. *)
LEMMA ControlKeeps ==
    ASSUME SessionInv, NEW s \in Session, UNCHANGED <<keep, log>>,
           OnlyMoves(s), Carried(s), SeesOn(s), Frames',
           SessionOK(s)', intents' \in 0..MaxIntents, intents <= intents', faults' \in 0..MaxFaults,
           \A t \in told' : t \in told \/ ToldTrue(t)'
    PROVE  SessionInv'
<1>1. LogOK /\ keep.revision \in Nat /\ keep.lastAccepted \in Nat /\ intents \in Nat
      BY Numbers DEF SessionInv
<1>2. \A e \in log : e.command.requestKey <= intents'
  <2> SUFFICES ASSUME NEW e \in log PROVE e.command.requestKey <= intents'
      OBVIOUS
  <2>1. e.command.requestKey \in Nat /\ e.command.requestKey <= intents
        BY <1>1, ReceiptFacts, CommandFacts DEF LogOK
  <2> QED BY <1>1, <2>1, Bounds
<1>3. LogOK'
      BY <1>1, <1>2 DEF LogOK
<1>4. Grows /\ NewEntries(s)
      BY <1>1 DEF Grows, NewEntries
<1> QED BY <1>3, <1>4, StepKeeps

(* What a session carries comes from its envelope and its calls. *)
LEMMA CarriesLess ==
    ASSUME SessionInv, NEW s \in Session, OnlyMoves(s),
           ctl'[s].pending \in {None, ctl[s].pending},
           \A j \in DOMAIN calls'[s] :
              \/ j \in DOMAIN calls[s] /\ calls'[s][j] = calls[s][j]
              \/ calls'[s][j].kind = "read"
              \/ calls'[s][j].command = ctl[s].pending /\ ctl[s].pending # None
    PROVE  Carried(s)
<1> SUFFICES ASSUME NEW u \in Session, NEW c \in Command, Carries(u, c)' PROVE Carries(u, c)
    BY DEF Carried
<1>1. CASE u # s
  <2>1. ctl'[u] = ctl[u] /\ calls'[u] = calls[u]
        BY <1>1 DEF OnlyMoves
  <2> QED BY <2>1 DEF Carries
<1>2. CASE u = s
  <2>1. CASE ctl'[s].pending # None /\ c = ctl'[s].pending
        BY <1>2, <2>1 DEF Carries
  <2>2. CASE \E j \in DOMAIN calls'[s] : calls'[s][j].kind = "mutate" /\ calls'[s][j].command = c
        BY <1>2, <2>2 DEF Carries
  <2> QED BY <1>2, <2>1, <2>2 DEF Carries
<1> QED BY <1>1, <1>2

(* Session s moves to controller n with calls q, awaiting w and answer a. *)
Becomes(s, n, q, w) ==
    /\ ctl' = [ctl EXCEPT ![s] = n]
    /\ calls' = [calls EXCEPT ![s] = q]
    /\ awaiting' = [awaiting EXCEPT ![s] = w]
    /\ answer' = [answer EXCEPT ![s] = None]

LEMMA Became ==
    ASSUME SessionInv, NEW s \in Session, NEW n \in Controller, NEW q \in Seq(Call),
           NEW w \in {None, "read", "mutate"}, Becomes(s, n, q, w)
    PROVE  /\ OnlyMoves(s) /\ Frames'
           /\ ctl'[s] = n /\ calls'[s] = q /\ awaiting'[s] = w /\ answer'[s] = None
           /\ AnswerOK(s)'
<1>1. Frames
      BY DEF SessionInv
<1>2. ctl'[s] = n /\ calls'[s] = q /\ awaiting'[s] = w /\ answer'[s] = None
      BY <1>1 DEF Becomes, Frames
<1>3. OnlyMoves(s)
      BY <1>1 DEF Becomes, OnlyMoves, Frames
<1>4. Frames'
      BY <1>1 DEF Becomes, Frames
<1> QED BY <1>2, <1>3, <1>4 DEF AnswerOK

(* The queue after nothing more is awaited, and after a call has been sent. *)
LEMMA QueueIdle ==
    ASSUME NEW s \in Session, awaiting'[s] = None, answer'[s] = None, Len(calls'[s]) <= MaxQueue
    PROVE  QueueOK(s)'
BY DEF QueueOK

LEMMA QueueSent ==
    ASSUME NEW s \in Session, NEW x \in Call, NEW q \in Seq(Call), calls'[s] = Append(q, x),
           awaiting'[s] = x.kind, answer'[s] = None, Len(q) < MaxQueue,
           x.kind = "mutate" => ctl'[s].pending = x.command
    PROVE  QueueOK(s)'
<1>1. /\ Len(calls'[s]) = Len(q) + 1 /\ calls'[s][Len(calls'[s])] = x
      BY Appended
<1>2. Len(q) \in Nat
      BY LenProperties
<1> QED BY <1>1, <1>2, Bounds DEF QueueOK

-----------------------------------------------------------------------------
(* Answers.  What is taken is an answer that fits, or a timeout. *)

Taken(s, a) ==
    /\ a \in Answer /\ Fits(a, s)
    /\ answer[s] = a \/ a.kind = "uncertain"

LEMMA ReadOutcome ==
    ASSUME NEW c \in Controller, NEW a \in Answer
    PROVE  LET n == NoLongerBusy(AfterRead(c, a))
           IN  \/ /\ a.kind = "state" /\ ~Regressed(c, a.view)
                  /\ \E q \in {None, c.pending} :
                        /\ c.confirmed # None => q = None
                        /\ c.confirmed = None => q = c.pending
                        /\ n = SetsView(c, a.view, q, None,
                                        IF q # None THEN "uncertain" ELSE "ready", "none")
               \/ \E p \in {"uninitialized", "uncertain", "failed"} : n = Sets(c, p, "none")
<1> DEFINE r == AfterRead(c, a)
           n == NoLongerBusy(r)
<1>1. IsController(c)
      BY ControllerType
<1>2. CASE a.kind = "state" /\ ~Regressed(c, a.view)
  <2> DEFINE q == IF c.confirmed # None THEN None ELSE c.pending
             p == IF q # None THEN "uncertain" ELSE "ready"
  <2>1. r = [c EXCEPT !.view = a.view, !.pending = q, !.confirmed = None, !.phase = p]
        BY <1>2 DEF AfterRead
  <2> HIDE DEF r
  <2>2. q \in {None, c.pending} /\ (c.confirmed # None => q = None) /\ (c.confirmed = None => q = c.pending)
        OBVIOUS
  <2>3. n = SetsView(c, a.view, q, None, IF q # None THEN "uncertain" ELSE "ready", "none")
    <3>1. p = IF q # None THEN "uncertain" ELSE "ready"
          OBVIOUS
    <3> HIDE DEF p, q
    <3>2. n = SetsView(c, a.view, q, None, p, "none")
          BY <1>1, <2>1 DEF NoLongerBusy, SetsView, IsController
    <3> QED BY <3>1, <3>2
  <2> QED BY <1>2, <2>2, <2>3 DEF r
<1>3. CASE ~(a.kind = "state" /\ ~Regressed(c, a.view))
  <2>1. PICK p \in {"uninitialized", "uncertain", "failed"} : r = [c EXCEPT !.phase = p]
    <3>1. CASE a.kind = "not-initialized" /\ c.pending = None /\ c.view = None
          BY <1>3, <3>1 DEF AfterRead
    <3>2. CASE ~(a.kind = "not-initialized" /\ c.pending = None /\ c.view = None)
      <4> DEFINE p == IF Unresolved(c) THEN "uncertain" ELSE "failed"
      <4>1. r = [c EXCEPT !.phase = p]
            BY <1>3, <3>2 DEF AfterRead
      <4>2. p \in {"uninitialized", "uncertain", "failed"}
            OBVIOUS
      <4> HIDE DEF p, r
      <4> QED BY <4>1, <4>2
    <3> QED BY <3>1, <3>2
  <2> HIDE DEF r
  <2>2. n = Sets(c, p, "none")
        BY <2>1 DEF NoLongerBusy, Sets
  <2> QED BY <2>2 DEF r
<1> QED BY <1>2, <1>3

(* A view that has not regressed shows what was seen before. *)
LEMMA NotRegressed ==
    ASSUME NEW c \in Controller, NEW v \in View, ~Regressed(c, v), NEW command \in Command,
           Seen(c, command)
    PROVE  command.sequence <= v.lastAccepted /\ command.expectedRevision < v.revision
<1>1. ControllerFields(c)
      BY ControllerType
<1>2. /\ v.revision \in Nat /\ v.lastAccepted \in Nat
      /\ command.sequence \in Nat /\ command.expectedRevision \in Nat
      BY ViewFacts, CommandFacts
<1>3. CASE c.view # None /\ command.sequence <= c.view.lastAccepted
           /\ command.expectedRevision < c.view.revision
  <2>1. c.view.revision \in Nat /\ c.view.lastAccepted \in Nat
        BY <1>1, <1>3, ViewFacts DEF ControllerFields
  <2>2. ~(v.revision < c.view.revision) /\ ~(v.lastAccepted < c.view.lastAccepted)
        BY <1>3 DEF Regressed
  <2> QED BY <1>2, <1>3, <2>1, <2>2
<1>4. CASE c.confirmed # None /\ command.sequence <= c.confirmed.sequence
           /\ command.expectedRevision < c.confirmed.revision
  <2>1. c.confirmed.revision \in Nat /\ c.confirmed.sequence \in Nat
        BY <1>1, <1>4, MarkFacts DEF ControllerFields
  <2>2. ~(v.revision < c.confirmed.revision) /\ ~(v.lastAccepted < c.confirmed.sequence)
        BY <1>4 DEF Regressed
  <2> QED BY <1>2, <1>4, <2>1, <2>2
<1> QED BY <1>3, <1>4 DEF Seen

LEMMA TakeReadKeeps ==
    ASSUME SessionInv, NEW s \in Session, NEW a, Taken(s, a), TakeRead(s, a),
           UNCHANGED <<keep, log, intents>>, faults' \in 0..MaxFaults
    PROVE  SessionInv'
<1> DEFINE c == ctl[s]
           q == calls[s]
<1>1. /\ Frames /\ ControllerOK(s) /\ QueueOK(s)
      /\ c \in Controller /\ IsController(c) /\ ControllerFields(c)
      /\ q \in Seq(Call) /\ awaiting[s] = "read" /\ a \in Answer /\ Fits(a, s)
      BY Typed DEF SessionInv, SessionOK, TakeRead, Taken
<1>2. PICK n : n = NoLongerBusy(AfterRead(c, a))
      OBVIOUS
<1>3. /\ ctl' = [ctl EXCEPT ![s] = n] /\ NoMoreCall(s) /\ told' = told
      BY <1>2 DEF TakeRead
<1>4. calls' = [calls EXCEPT ![s] = q]
      BY <1>1, <1>3 DEF NoMoreCall, Frames
<1>5. Becomes(s, n, q, None)
      BY <1>3, <1>4 DEF NoMoreCall, Becomes
<1> DEFINE Good == /\ n \in Controller /\ n.pending \in {None, c.pending}
                   /\ SeesOn(s)
                   /\ ControllerOK(s)'
<1>6. ASSUME n \in Controller
      PROVE  /\ OnlyMoves(s) /\ Frames' /\ AnswerOK(s)' /\ QueueOK(s)'
             /\ ctl'[s] = n /\ awaiting'[s] = None /\ calls'[s] = q
  <2>1. /\ OnlyMoves(s) /\ Frames' /\ AnswerOK(s)'
        /\ ctl'[s] = n /\ awaiting'[s] = None /\ answer'[s] = None /\ calls'[s] = q
        BY <1>1, <1>5, <1>6, Became
  <2> QED BY <1>1, <2>1, QueueIdle DEF QueueOK
<1>7. Good
  <2>1. CASE /\ a.kind = "state" /\ ~Regressed(c, a.view)
             /\ \E k \in {None, c.pending} :
                   /\ c.confirmed # None => k = None
                   /\ c.confirmed = None => k = c.pending
                   /\ n = SetsView(c, a.view, k, None, IF k # None THEN "uncertain" ELSE "ready", "none")
    <3>1. PICK k \in {None, c.pending} :
             /\ c.confirmed # None => k = None
             /\ c.confirmed = None => k = c.pending
             /\ n = SetsView(c, a.view, k, None, IF k # None THEN "uncertain" ELSE "ready", "none")
          BY <2>1
    <3> DEFINE p == IF k # None THEN "uncertain" ELSE "ready"
    <3>2. p \in Phase /\ (p = "ready" => k = None) /\ p # "disposed"
          BY DEF Phase
    <3>3. n = SetsView(c, a.view, k, None, p, "none")
          BY <3>1
    <3> HIDE DEF p
    <3>4. /\ IsController(n) /\ n.phase = p /\ n.busy = "none"
          /\ n.view = a.view /\ n.pending = k /\ n.confirmed = None
          BY <1>1, <3>3, SettingView
    <3>5. a.view \in View /\ a.view # None /\ Known(a.view)
          BY <1>1, <2>1, AnswerFacts, ViewFacts DEF Fits
    <3>6. n \in Controller
      <4>1. k \in Command \cup {None}
            BY <1>1 DEF ControllerFields
      <4> QED BY <3>2, <3>4, <3>5, <4>1, ControllerType DEF ControllerFields
    <3>7. ctl'[s] = n /\ awaiting'[s] = None
          BY <1>6, <3>6
    <3>8. SeesOn(s)
      <4>1. c.phase # "disposed"
            BY <1>1, NoneAssumption DEF ControllerOK
      <4>2. ASSUME NEW d \in Command, Seen(c, d) PROVE Seen(n, d)
        <5>1. d.sequence <= a.view.lastAccepted /\ d.expectedRevision < a.view.revision
              BY <1>1, <2>1, <3>5, <4>2, NotRegressed
        <5> QED BY <3>4, <3>5, <5>1 DEF Seen
      <4> QED BY <3>7, <4>1, <4>2 DEF SeesOn
    <3>9. ControllerOK(s)'
      <4>1. Known(n.view)'
            BY <3>4, <3>5 DEF Known
      <4>2. Known(ctl[s].view)' <=> Known(n.view)'
            BY <3>7 DEF Known
      <4> QED BY <3>2, <3>4, <3>5, <3>7, <4>1, <4>2, NoneAssumption DEF ControllerOK
    <3> QED BY <3>4, <3>6, <3>8, <3>9
  <2>2. CASE \E p \in {"uninitialized", "uncertain", "failed"} : n = Sets(c, p, "none")
    <3>1. PICK p \in {"uninitialized", "uncertain", "failed"} : n = Sets(c, p, "none")
          BY <2>2
    <3>2. /\ IsController(n) /\ n.phase = p /\ n.busy = "none"
          /\ n.view = c.view /\ n.pending = c.pending /\ n.confirmed = c.confirmed
          BY <1>1, <3>1, Setting
    <3>3. n \in Controller
          BY <1>1, <3>2, ControllerType DEF ControllerFields, Phase
    <3>4. ctl'[s] = n /\ awaiting'[s] = None
          BY <1>6, <3>3
    <3>5. SeesOn(s)
      <4>1. c.phase # "disposed"
            BY <1>1, NoneAssumption DEF ControllerOK
      <4> QED BY <3>2, <3>4, <4>1 DEF SeesOn, Seen
    <3>6. ControllerOK(s)'
          BY <1>1, <3>2, <3>4, NoneAssumption DEF ControllerOK, Known, Confirmed
    <3> QED BY <3>2, <3>3, <3>5, <3>6
  <2> QED BY <1>1, <1>2, <2>1, <2>2, ReadOutcome
<1>8. Carried(s)
      BY <1>6, <1>7, CarriesLess
<1>9. intents' \in 0..MaxIntents /\ intents <= intents' /\ intents \in Nat
      BY Numbers DEF SessionInv
<1>10. SessionOK(s)'
      BY <1>6, <1>7 DEF SessionOK
<1> QED BY <1>3, <1>6, <1>7, <1>8, <1>9, <1>10, ControlKeeps

(* A readback is sent after an answer: there is room for it. *)
LEMMA ReadsBack ==
    ASSUME SessionInv, NEW s \in Session, answer[s] # None, ReadBack(s),
           NEW n \in Controller, ctl' = [ctl EXCEPT ![s] = n]
    PROVE  /\ OnlyMoves(s) /\ Frames' /\ AnswerOK(s)' /\ QueueOK(s)'
           /\ ctl'[s] = n /\ awaiting'[s] = "read"
           /\ \A j \in DOMAIN calls'[s] :
                 (j \in DOMAIN calls[s] /\ calls'[s][j] = calls[s][j]) \/ calls'[s][j].kind = "read"
<1> DEFINE q == calls[s]
<1>1. Frames /\ QueueOK(s) /\ q \in Seq(Call)
      BY Typed DEF SessionInv, SessionOK
<1>2. PICK r \in Call : r = [kind |-> "read"] /\ r.kind = "read"
  <2>1. [kind |-> "read"] \in Call /\ [kind |-> "read"].kind = "read"
        BY DEF Call
  <2> QED BY <2>1
<1>3. PICK m : m = Append(q, r)
      OBVIOUS
<1>4. /\ m \in Seq(Call)
      /\ \A j \in DOMAIN m : (j \in DOMAIN q /\ m[j] = q[j]) \/ m[j] = r
      BY <1>1, <1>3, Appended
<1>5. Becomes(s, n, m, "read")
      BY <1>2, <1>3 DEF ReadBack, Becomes
<1>6. /\ OnlyMoves(s) /\ Frames' /\ AnswerOK(s)'
      /\ ctl'[s] = n /\ calls'[s] = m /\ awaiting'[s] = "read" /\ answer'[s] = None
      BY <1>4, <1>5, Became
<1>7. QueueOK(s)'
  <2>1. Len(q) < MaxQueue
        BY <1>1 DEF QueueOK
  <2> QED BY <1>1, <1>2, <1>3, <1>6, <2>1, QueueSent
<1> QED BY <1>2, <1>4, <1>6, <1>7

(* What a controller holds while it awaits the answer to a command. *)
LEMMA Asking ==
    ASSUME SessionInv, NEW s \in Session, awaiting[s] = "mutate"
    PROVE  /\ ctl[s] \in Controller /\ IsController(ctl[s]) /\ ControllerFields(ctl[s])
           /\ ControllerOK(s) /\ QueueOK(s) /\ calls[s] \in Seq(Call)
           /\ ctl[s].pending \in Command /\ ctl[s].pending # None /\ ctl[s].confirmed = None
           /\ ctl[s].busy # "none" /\ ctl[s].phase \notin {"disposed", "ready"}
           /\ Carries(s, ctl[s].pending) /\ ctl[s].pending.requestKey <= intents
<1>1. /\ ctl[s] \in Controller /\ IsController(ctl[s]) /\ ControllerFields(ctl[s])
      /\ ControllerOK(s) /\ QueueOK(s) /\ calls[s] \in Seq(Call) /\ OwnerOK
      BY Typed DEF SessionInv, SessionOK
<1>2. /\ ctl[s].pending # None /\ ctl[s].confirmed = None
      /\ ctl[s].busy # "none" /\ ctl[s].phase \notin {"disposed", "ready"}
      BY <1>1, NoneAssumption DEF ControllerOK
<1>3. ctl[s].pending \in Command
      BY <1>1, <1>2 DEF ControllerFields
<1>4. Carries(s, ctl[s].pending)
      BY <1>2 DEF Carries
<1>5. ctl[s].pending.requestKey <= intents
      BY <1>1, <1>3, <1>4 DEF OwnerOK
<1> QED BY <1>1, <1>2, <1>3, <1>4, <1>5

Learned(s, v) == [session |-> s, command |-> ctl[s].pending, verdict |-> v]

(* A receipt that describes the command. *)
LEMMA ConfirmKeeps ==
    ASSUME SessionInv, NEW s \in Session, NEW a, Taken(s, a), awaiting[s] = "mutate",
           a.kind = "receipt", Matches(a, ctl[s].pending), Confirm(s, a),
           told' = told \cup {Learned(s, "executed")},
           UNCHANGED <<keep, log, intents>>, faults' \in 0..MaxFaults
    PROVE  SessionInv'
<1> DEFINE c == ctl[s]
<1>1. PICK k \in Command : k = ctl[s].pending
      BY Asking
<1>2. /\ c \in Controller /\ IsController(c) /\ ControllerFields(c) /\ ControllerOK(s)
      /\ c.pending = k /\ k # None /\ c.confirmed = None
      /\ c.busy # "none" /\ c.phase \notin {"disposed", "ready"} /\ k.requestKey <= intents
      BY <1>1, Asking
<1>3. a \in Answer /\ Fits(a, s) /\ answer[s] # None
      BY AnswerFacts DEF Taken
<1>4. a.sequence \in 1..MaxIntents /\ a.revision \in Revision
      BY <1>3, AnswerFacts
<1>5. a.sequence = k.sequence /\ a.revision = k.expectedRevision + 1 /\ Executed(k)
      BY <1>1, <1>3 DEF Matches, Fits
<1>6. PICK m \in Mark : m = [sequence |-> a.sequence, revision |-> a.revision]
      BY <1>4 DEF Mark
<1>7. m # None /\ m.sequence = k.sequence /\ m.revision = k.expectedRevision + 1
      BY <1>5, <1>6, MarkFacts
<1>8. k.sequence \in Nat /\ k.expectedRevision \in Nat
      BY CommandFacts
<1>9. Confirmed(m)
  <2>1. PICK e \in log : e = [command |-> k, revision |-> k.expectedRevision + 1]
        BY <1>5 DEF Executed
  <2>2. e.command = k /\ e.revision = m.revision
        BY <1>7, <2>1
  <2>3. e.command.sequence <= keep.lastAccepted /\ e.revision <= keep.revision
        BY DEF SessionInv, LogOK
  <2> QED BY <1>7, <2>2, <2>3 DEF Confirmed
<1>10. PICK n : n = SetsConfirmed(c, m)
       OBVIOUS
<1>11. /\ IsController(n) /\ n.phase = c.phase /\ n.busy = c.busy
       /\ n.view = c.view /\ n.pending = k /\ n.confirmed = m
       BY <1>2, <1>10, SettingConfirmed
<1>12. n \in Controller
       BY <1>2, <1>11, ControllerType DEF ControllerFields
<1>13. ctl' = [ctl EXCEPT ![s] = n] /\ ReadBack(s)
       BY <1>6, <1>10 DEF Confirm, SetsConfirmed
<1>14. /\ OnlyMoves(s) /\ Frames' /\ AnswerOK(s)' /\ QueueOK(s)'
       /\ ctl'[s] = n /\ awaiting'[s] = "read"
       /\ \A j \in DOMAIN calls'[s] :
             (j \in DOMAIN calls[s] /\ calls'[s][j] = calls[s][j]) \/ calls'[s][j].kind = "read"
       BY <1>3, <1>12, <1>13, ReadsBack
<1>15. Carried(s)
       BY <1>1, <1>11, <1>14, CarriesLess
<1>16. SeesOn(s)
       BY <1>2, <1>11, <1>14 DEF SeesOn, Seen
<1>17. SessionOK(s)'
  <2>1. n.view # None => Known(n.view)'
        BY <1>2, <1>11 DEF ControllerOK, Known
  <2>2. Confirmed(m)'
        BY <1>9 DEF Confirmed
  <2>3. ControllerOK(s)'
        BY <1>2, <1>11, <1>14, <2>1, <2>2, NoneAssumption DEF ControllerOK, Known, Confirmed
  <2> QED BY <1>14, <2>3 DEF SessionOK
<1>18. \A t \in told' : t \in told \/ ToldTrue(t)'
  <2>1. PICK t : t = [session |-> s, command |-> k, verdict |-> "executed"]
        OBVIOUS
  <2>2. told' = told \cup {t}
        BY <1>1, <2>1 DEF Learned
  <2>3. t.session = s /\ t.command = k /\ t.verdict = "executed"
        BY <2>1
  <2>4. Seen(ctl'[s], k)
        BY <1>7, <1>8, <1>11, <1>14 DEF Seen
  <2>5. Executed(k)'
        BY <1>5 DEF Executed
  <2>6. ToldTrue(t)'
    <3>1. Seen(ctl[t.session], t.command)'
          BY <2>3, <2>4 DEF Seen
    <3>2. Executed(t.command)'
          BY <2>3, <2>5
    <3> QED BY <1>2, <2>3, <3>1, <3>2 DEF ToldTrue
  <2> QED BY <2>2, <2>6
<1>19. intents' \in 0..MaxIntents /\ intents <= intents'
       BY Numbers DEF SessionInv
<1> QED BY <1>14, <1>15, <1>16, <1>17, <1>18, <1>19, ControlKeeps

(* An error after which the envelope is dropped. *)
LEMMA GivesUpKeeps ==
    ASSUME SessionInv, NEW s \in Session, NEW a, Taken(s, a), awaiting[s] = "mutate", GivesUp(a),
           ctl' = [ctl EXCEPT ![s] = [@ EXCEPT !.pending = None, !.phase = "loading"]],
           ReadBack(s),
           told' = told \cup {Learned(s, IF a.kind = "expired" THEN "expired" ELSE "refused")},
           UNCHANGED <<keep, log, intents>>, faults' \in 0..MaxFaults
    PROVE  SessionInv'
<1> DEFINE c == ctl[s]
<1>1. PICK k \in Command : k = ctl[s].pending
      BY Asking
<1>2. /\ c \in Controller /\ IsController(c) /\ ControllerFields(c) /\ ControllerOK(s) /\ QueueOK(s)
      /\ calls[s] \in Seq(Call)
      /\ c.pending = k /\ k # None /\ c.confirmed = None
      /\ c.busy # "none" /\ c.phase \notin {"disposed", "ready"}
      /\ Carries(s, k) /\ k.requestKey <= intents
      BY <1>1, Asking
<1>3. a \in Answer /\ Fits(a, s) /\ answer[s] = a /\ answer[s] # None
      BY AnswerFacts DEF Taken, GivesUp
<1>4. PICK n : n = SetsPending(c, "loading", c.busy, None)
      OBVIOUS
<1>5. /\ IsController(n) /\ n.phase = "loading" /\ n.busy = c.busy
      /\ n.view = c.view /\ n.pending = None /\ n.confirmed = c.confirmed
      BY <1>2, <1>4, SettingPending
<1>6. n \in Controller
      BY <1>2, <1>5, ControllerType DEF ControllerFields, Phase
<1>7. ctl' = [ctl EXCEPT ![s] = n]
  <2>1. n = [c EXCEPT !.pending = None, !.phase = "loading"]
        BY <1>2, <1>4 DEF SetsPending, IsController
  <2> QED BY <2>1
<1>8. /\ OnlyMoves(s) /\ Frames' /\ AnswerOK(s)' /\ QueueOK(s)'
      /\ ctl'[s] = n /\ awaiting'[s] = "read"
      /\ \A j \in DOMAIN calls'[s] :
            (j \in DOMAIN calls[s] /\ calls'[s][j] = calls[s][j]) \/ calls'[s][j].kind = "read"
      BY <1>3, <1>6, <1>7, ReadsBack
<1>9. Carried(s)
      BY <1>5, <1>8, CarriesLess
<1>10. SeesOn(s)
       BY <1>2, <1>5, <1>8 DEF SeesOn, Seen
<1>11. SessionOK(s)'
  <2>1. n.view # None => Known(n.view)'
        BY <1>2, <1>5 DEF ControllerOK, Known
  <2>2. ControllerOK(s)'
        BY <1>2, <1>5, <1>8, <2>1, NoneAssumption DEF ControllerOK, Known, Confirmed
  <2> QED BY <1>8, <2>2 DEF SessionOK
<1>12. \A t \in told' : t \in told \/ ToldTrue(t)'
  <2>1. PICK v \in {"expired", "refused"} : v = IF a.kind = "expired" THEN "expired" ELSE "refused"
        OBVIOUS
  <2>2. PICK t : t = [session |-> s, command |-> k, verdict |-> v]
        OBVIOUS
  <2>3. told' = told \cup {t}
        BY <1>1, <2>1, <2>2 DEF Learned
  <2>4. t.session = s /\ t.command = k /\ t.verdict = v
        BY <2>2
  <2>5. ASSUME v = "refused", s \in Ordered
        PROVE  /\ \A e \in log : e.command # k
               /\ \A u \in Session : ~Carries(u, k)'
    <3>1. a.kind \in {"rejected", "not-initialized"}
          BY <2>1, <2>5 DEF GivesUp
    <3>2. \A e \in log : e.command # k
          BY <1>1, <1>3, <2>5, <3>1 DEF Fits
    <3>3. DOMAIN calls[s] = {}
      <4>1. Len(calls[s]) = 0 /\ DOMAIN calls[s] = 1..Len(calls[s])
            BY <1>2, <1>3, <2>5, LenProperties DEF QueueOK
      <4> QED BY <4>1
    <3>4. ASSUME NEW u \in Session, Carries(u, k)' PROVE FALSE
      <4>1. Carries(u, k)
            BY <1>8, <1>9, <3>4, CommandFacts DEF Carried, OnlyMoves, Carries
      <4>2. u = s
            BY <1>2, <4>1 DEF SessionInv, OwnerOK
      <4>3. ctl'[s].pending = None /\ \A j \in DOMAIN calls'[s] : calls'[s][j].kind = "read"
            BY <1>5, <1>8, <3>3
      <4> QED BY <3>4, <4>2, <4>3 DEF Carries
    <3> QED BY <3>2, <3>4
  <2>6. ToldTrue(t)'
        BY <1>2, <2>1, <2>4, <2>5 DEF ToldTrue
  <2> QED BY <2>3, <2>6
<1>13. intents' \in 0..MaxIntents /\ intents <= intents'
       BY Numbers DEF SessionInv
<1> QED BY <1>8, <1>9, <1>10, <1>11, <1>12, <1>13, ControlKeeps

(* The outcome stays open. *)
LEMMA OpenKeeps ==
    ASSUME SessionInv, NEW s \in Session, awaiting[s] = "mutate",
           ctl' = [ctl EXCEPT ![s] = NoLongerBusy([@ EXCEPT !.phase = "uncertain"])],
           NoMoreCall(s), UNCHANGED <<keep, log, intents, told>>, faults' \in 0..MaxFaults
    PROVE  SessionInv'
<1> DEFINE c == ctl[s]
           q == calls[s]
<1>1. /\ c \in Controller /\ IsController(c) /\ ControllerFields(c) /\ ControllerOK(s) /\ QueueOK(s)
      /\ q \in Seq(Call) /\ c.phase \notin {"disposed", "ready"} /\ Frames
      BY Asking DEF SessionInv
<1>2. PICK n : n = Sets(c, "uncertain", "none")
      OBVIOUS
<1>3. /\ IsController(n) /\ n.phase = "uncertain" /\ n.busy = "none"
      /\ n.view = c.view /\ n.pending = c.pending /\ n.confirmed = c.confirmed
      BY <1>1, <1>2, Setting
<1>4. n \in Controller
      BY <1>1, <1>3, ControllerType DEF ControllerFields, Phase
<1>5. ctl' = [ctl EXCEPT ![s] = n]
  <2>1. n = NoLongerBusy([c EXCEPT !.phase = "uncertain"])
        BY <1>1, <1>2 DEF Sets, NoLongerBusy, IsController
  <2> QED BY <2>1
<1>6. Becomes(s, n, q, None)
  <2>1. calls' = [calls EXCEPT ![s] = q]
        BY <1>1 DEF NoMoreCall, Frames
  <2> QED BY <1>5, <2>1 DEF NoMoreCall, Becomes
<1>7. /\ OnlyMoves(s) /\ Frames' /\ AnswerOK(s)'
      /\ ctl'[s] = n /\ awaiting'[s] = None /\ answer'[s] = None /\ calls'[s] = q
      BY <1>1, <1>4, <1>6, Became
<1>8. QueueOK(s)'
      BY <1>1, <1>7, QueueIdle DEF QueueOK
<1>9. Carried(s)
      BY <1>3, <1>7, CarriesLess
<1>10. SeesOn(s)
       BY <1>1, <1>3, <1>7 DEF SeesOn, Seen
<1>11. ControllerOK(s)'
       BY <1>1, <1>3, <1>7, NoneAssumption DEF ControllerOK, Known, Confirmed
<1>12. SessionOK(s)'
       BY <1>7, <1>8, <1>11 DEF SessionOK
<1>13. intents' \in 0..MaxIntents /\ intents <= intents' /\ (\A t \in told' : t \in told)
       BY Numbers DEF SessionInv
<1> QED BY <1>7, <1>9, <1>10, <1>12, <1>13, ControlKeeps

LEMMA TakeKeeps ==
    ASSUME SessionInv, NEW s \in Session, NEW a, Taken(s, a), Take(s, a),
           UNCHANGED <<keep, log, intents>>, faults' \in 0..MaxFaults
    PROVE  SessionInv'
<1>1. CASE TakeRead(s, a)
      BY <1>1, TakeReadKeeps
<1>2. CASE TakeMutate(s, a)
  <2>1. awaiting[s] = "mutate"
        BY <1>2 DEF TakeMutate
  <2>2. CASE /\ a.kind = "receipt" /\ Matches(a, ctl[s].pending) /\ Confirm(s, a)
             /\ told' = told \cup {Learned(s, "executed")}
        BY <2>1, <2>2, ConfirmKeeps
  <2>3. CASE /\ GivesUp(a)
             /\ ctl' = [ctl EXCEPT ![s] = [@ EXCEPT !.pending = None, !.phase = "loading"]]
             /\ ReadBack(s)
             /\ told' = told \cup {Learned(s, IF a.kind = "expired" THEN "expired" ELSE "refused")}
        BY <2>1, <2>3, GivesUpKeeps
  <2>4. CASE /\ ctl' = [ctl EXCEPT ![s] = NoLongerBusy([@ EXCEPT !.phase = "uncertain"])]
             /\ NoMoreCall(s) /\ UNCHANGED told
        BY <2>1, <2>4, OpenKeeps
  <2> QED BY <1>2, <2>2, <2>3, <2>4 DEF TakeMutate, Learned
<1> QED BY <1>1, <1>2 DEF Take

LEMMA DeliverKeeps ==
    ASSUME SessionInv, NEW s \in Session, Deliver(s)
    PROVE  SessionInv'
<1>1. PICK a : a = answer[s]
      OBVIOUS
<1>2. a # None /\ Take(s, a) /\ UNCHANGED <<keep, log, intents, faults>>
      BY <1>1 DEF Deliver
<1>3. a \in Answer /\ Fits(a, s)
      BY <1>1, <1>2, Typed DEF SessionInv, SessionOK, AnswerOK
<1>4. faults' \in 0..MaxFaults
      BY <1>2 DEF SessionInv
<1> QED BY <1>1, <1>2, <1>3, <1>4, TakeKeeps DEF Taken

LEMMA TimeoutKeeps ==
    ASSUME SessionInv, NEW s \in Session, Timeout(s)
    PROVE  SessionInv'
<1>1. PICK a : a = Fail("uncertain")
      OBVIOUS
<1>2. Take(s, a) /\ UNCHANGED <<keep, log, intents>> /\ faults < MaxFaults /\ faults' = faults + 1
      BY <1>1 DEF Timeout
<1>3. a \in Answer /\ a.kind = "uncertain"
      BY <1>1, FailFacts
<1>4. Taken(s, a)
      BY <1>3 DEF Taken, Fits
<1>5. faults' \in 0..MaxFaults
      BY <1>2, Bounds DEF SessionInv
<1> QED BY <1>2, <1>4, <1>5, TakeKeeps

-----------------------------------------------------------------------------
(* The player and the page. *)

LEMMA Idle ==
    ASSUME SessionInv, NEW s \in Session, ctl[s].busy = "none"
    PROVE  /\ ctl[s] \in Controller /\ IsController(ctl[s]) /\ ControllerFields(ctl[s])
           /\ ControllerOK(s) /\ QueueOK(s) /\ calls[s] \in Seq(Call)
           /\ awaiting[s] = None /\ answer[s] = None
<1>1. /\ ctl[s] \in Controller /\ IsController(ctl[s]) /\ ControllerFields(ctl[s])
      /\ ControllerOK(s) /\ QueueOK(s) /\ calls[s] \in Seq(Call)
      BY Typed DEF SessionInv, SessionOK
<1>2. awaiting[s] = None
      BY <1>1 DEF ControllerOK
<1> QED BY <1>1, <1>2 DEF QueueOK

LEMMA Sent ==
    ASSUME SessionInv, NEW s \in Session, ctl[s].busy = "none", NEW x \in Call, Send(s, x),
           NEW n \in Controller, ctl' = [ctl EXCEPT ![s] = n],
           x.kind = "mutate" => n.pending = x.command
    PROVE  /\ OnlyMoves(s) /\ Frames' /\ AnswerOK(s)' /\ QueueOK(s)'
           /\ ctl'[s] = n /\ awaiting'[s] = x.kind
           /\ \A j \in DOMAIN calls'[s] :
                 (j \in DOMAIN calls[s] /\ calls'[s][j] = calls[s][j]) \/ calls'[s][j] = x
<1> DEFINE q == calls[s]
<1>1. q \in Seq(Call) /\ answer[s] = None /\ Len(q) < MaxQueue /\ Frames
      BY Idle DEF Send, SessionInv
<1>2. PICK m : m = Append(q, x)
      OBVIOUS
<1>3. /\ m \in Seq(Call)
      /\ \A j \in DOMAIN m : (j \in DOMAIN q /\ m[j] = q[j]) \/ m[j] = x
      BY <1>1, <1>2, Appended
<1>4. Becomes(s, n, m, x.kind)
  <2>1. answer' = [answer EXCEPT ![s] = None]
        BY <1>1 DEF Send, Frames
  <2> QED BY <1>2, <2>1 DEF Send, Becomes
<1>5. /\ OnlyMoves(s) /\ Frames' /\ AnswerOK(s)'
      /\ ctl'[s] = n /\ calls'[s] = m /\ awaiting'[s] = x.kind /\ answer'[s] = None
  <2>1. x.kind \in {None, "read", "mutate"}
        BY CallFacts
  <2> QED BY <1>3, <1>4, <2>1, Became
<1>6. QueueOK(s)'
      BY <1>1, <1>2, <1>5, QueueSent
<1> QED BY <1>3, <1>5, <1>6

LEMMA ReadSent ==
    ASSUME SessionInv, NEW s \in Session, ctl[s].busy = "none", Send(s, [kind |-> "read"]),
           NEW n \in Controller, ctl' = [ctl EXCEPT ![s] = n]
    PROVE  \E x \in Call :
              /\ x.kind = "read"
              /\ OnlyMoves(s) /\ Frames' /\ AnswerOK(s)' /\ QueueOK(s)'
              /\ ctl'[s] = n /\ awaiting'[s] = "read"
              /\ \A j \in DOMAIN calls'[s] :
                    (j \in DOMAIN calls[s] /\ calls'[s][j] = calls[s][j]) \/ calls'[s][j] = x
<1>1. PICK x \in Call : x = [kind |-> "read"] /\ x.kind = "read"
  <2>1. [kind |-> "read"] \in Call /\ [kind |-> "read"].kind = "read"
        BY DEF Call
  <2> QED BY <2>1
<1>2. Send(s, x) /\ (x.kind = "mutate" => n.pending = x.command)
      BY <1>1
<1>3. /\ OnlyMoves(s) /\ Frames' /\ AnswerOK(s)' /\ QueueOK(s)'
      /\ ctl'[s] = n /\ awaiting'[s] = x.kind
      /\ \A j \in DOMAIN calls'[s] :
            (j \in DOMAIN calls[s] /\ calls'[s][j] = calls[s][j]) \/ calls'[s][j] = x
      BY <1>2, Sent
<1>4. awaiting'[s] = "read"
      BY <1>1, <1>3
<1> QED BY <1>1, <1>3, <1>4

LEMMA ReadSentKeeps ==
    ASSUME SessionInv, NEW s \in Session, ctl[s].busy = "none", ctl[s].phase # "disposed",
           Send(s, [kind |-> "read"]), NEW p \in {"uncertain", "refreshing", "loading"},
           NEW n, IsController(n), n.phase = p, n.busy = "read", n.view = ctl[s].view,
           n.pending = ctl[s].pending, n.confirmed = ctl[s].confirmed,
           ctl' = [ctl EXCEPT ![s] = n], UNCHANGED <<keep, log, intents, told, faults>>
    PROVE  SessionInv'
<1>1. /\ IsController(ctl[s]) /\ ControllerFields(ctl[s]) /\ ControllerOK(s)
      BY Idle
<1>2. n.phase = p /\ n.busy = "read" /\ n.pending = ctl[s].pending
      OBVIOUS
<1>3. n \in Controller
      BY <1>1, ControllerType DEF ControllerFields, Phase
<1>4. PICK x \in Call :
         /\ x.kind = "read"
         /\ OnlyMoves(s) /\ Frames' /\ AnswerOK(s)' /\ QueueOK(s)'
         /\ ctl'[s] = n /\ awaiting'[s] = "read"
         /\ \A j \in DOMAIN calls'[s] :
               (j \in DOMAIN calls[s] /\ calls'[s][j] = calls[s][j]) \/ calls'[s][j] = x
      BY <1>3, ReadSent
<1>5. /\ OnlyMoves(s) /\ Frames' /\ AnswerOK(s)' /\ QueueOK(s)'
      /\ ctl'[s] = n /\ awaiting'[s] = "read"
      /\ \A j \in DOMAIN calls'[s] :
            (j \in DOMAIN calls[s] /\ calls'[s][j] = calls[s][j]) \/ calls'[s][j] = x
      BY <1>4
<1>6. Carried(s)
      BY <1>2, <1>4, <1>5, CarriesLess
<1>7. SeesOn(s)
      BY <1>2, <1>5 DEF SeesOn, Seen
<1>8. ControllerOK(s)'
      BY <1>1, <1>2, <1>5, NoneAssumption DEF ControllerOK, Known, Confirmed
<1>9. SessionOK(s)'
      BY <1>5, <1>8 DEF SessionOK
<1>10. /\ intents' \in 0..MaxIntents /\ intents <= intents' /\ faults' \in 0..MaxFaults
       /\ \A t \in told' : t \in told
       BY Numbers DEF SessionInv
<1> QED BY <1>5, <1>6, <1>7, <1>9, <1>10, ControlKeeps

(* A command is sent: a new one, or the one the controller holds. *)
LEMMA MutateSentKeeps ==
    ASSUME SessionInv, NEW s \in Session, ctl[s].busy = "none", ctl[s].phase # "disposed",
           ctl[s].confirmed = None, NEW k \in Command, SendPending(s, k),
           \/ k = ctl[s].pending
           \/ ctl[s].pending = None /\ intents < k.requestKey /\ k.requestKey <= intents',
           intents' \in 0..MaxIntents, intents <= intents',
           UNCHANGED <<keep, log, told, faults>>
    PROVE  SessionInv'
<1> DEFINE c == ctl[s]
<1>1. /\ IsController(c) /\ ControllerFields(c) /\ ControllerOK(s)
      BY Idle
<1>2. PICK n : n = SetsPending(c, "pending", "mutate", k)
      OBVIOUS
<1>3. /\ IsController(n) /\ n.phase = "pending" /\ n.busy = "mutate"
      /\ n.view = c.view /\ n.pending = k /\ n.confirmed = None
      BY <1>1, <1>2, SettingPending
<1>4. n \in Controller
      BY <1>1, <1>3, ControllerType DEF ControllerFields, Phase
<1>5. PICK x \in Call : x = [kind |-> "mutate", command |-> k] /\ x.kind = "mutate" /\ x.command = k
  <2>1. [kind |-> "mutate", command |-> k] \in Call
        BY DEF Call
  <2> QED BY <2>1
<1>6. Send(s, x) /\ ctl' = [ctl EXCEPT ![s] = n]
  <2>1. n = [c EXCEPT !.pending = k, !.busy = "mutate", !.phase = "pending"]
        BY <1>1, <1>2 DEF SetsPending, IsController
  <2> QED BY <1>5, <2>1 DEF SendPending
<1>7. /\ OnlyMoves(s) /\ Frames' /\ AnswerOK(s)' /\ QueueOK(s)'
      /\ ctl'[s] = n /\ awaiting'[s] = "mutate"
      /\ \A j \in DOMAIN calls'[s] :
            (j \in DOMAIN calls[s] /\ calls'[s][j] = calls[s][j]) \/ calls'[s][j] = x
  <2>1. x.kind = "mutate" /\ n.pending = x.command
        BY <1>3, <1>5
  <2>2. /\ OnlyMoves(s) /\ Frames' /\ AnswerOK(s)' /\ QueueOK(s)'
        /\ ctl'[s] = n /\ awaiting'[s] = x.kind
        /\ \A j \in DOMAIN calls'[s] :
              (j \in DOMAIN calls[s] /\ calls'[s][j] = calls[s][j]) \/ calls'[s][j] = x
        BY <1>4, <1>6, <2>1, Sent
  <2> QED BY <2>1, <2>2
<1>8. k # None
      BY CommandFacts
<1>9. Carried(s)
  <2> SUFFICES ASSUME NEW u \in Session, NEW d \in Command, Carries(u, d)'
               PROVE  \/ Carries(u, d)
                      \/ u = s /\ intents < d.requestKey /\ d.requestKey <= intents' /\ d = ctl'[s].pending
      BY DEF Carried
  <2>1. CASE u # s
    <3>1. ctl'[u] = ctl[u] /\ calls'[u] = calls[u]
          BY <1>7, <2>1 DEF OnlyMoves
    <3> QED BY <3>1 DEF Carries
  <2>2. CASE u = s /\ d = k
    <3>1. CASE k = c.pending
          BY <1>8, <2>2, <3>1 DEF Carries
    <3>2. CASE k # c.pending
          BY <1>3, <1>7, <2>2, <3>2
    <3> QED BY <3>1, <3>2
  <2>3. CASE u = s /\ d # k
    <3>1. PICK j \in DOMAIN calls'[s] : calls'[s][j].kind = "mutate" /\ calls'[s][j].command = d
          BY <1>3, <1>7, <2>3 DEF Carries
    <3>2. j \in DOMAIN calls[s] /\ calls'[s][j] = calls[s][j]
          BY <1>5, <1>7, <2>3, <3>1
    <3> QED BY <2>3, <3>1, <3>2 DEF Carries
  <2> QED BY <2>1, <2>2, <2>3
<1>10. SeesOn(s)
       BY <1>3, <1>7 DEF SeesOn, Seen
<1>11. ControllerOK(s)'
       BY <1>1, <1>3, <1>7, <1>8, NoneAssumption DEF ControllerOK, Known, Confirmed
<1>12. SessionOK(s)'
       BY <1>7, <1>11 DEF SessionOK
<1>13. faults' \in 0..MaxFaults /\ \A t \in told' : t \in told
       BY DEF SessionInv
<1> QED BY <1>7, <1>9, <1>10, <1>12, <1>13, ControlKeeps

LEMMA RefreshKeeps ==
    ASSUME SessionInv, NEW s \in Session, Refresh(s)
    PROVE  SessionInv'
<1>1. /\ ctl[s].phase # "disposed" /\ ctl[s].busy = "none" /\ Send(s, [kind |-> "read"])
      /\ UNCHANGED <<keep, log, intents, told, faults>>
      BY DEF Refresh, Live, MayRefresh
<1>2. PICK p \in {"uncertain", "refreshing", "loading"} :
         p = IF Unresolved(ctl[s]) THEN "uncertain"
             ELSE IF ctl[s].phase = "ready" THEN "refreshing" ELSE "loading"
      OBVIOUS
<1>3. PICK n : n = Sets(ctl[s], p, "read")
      OBVIOUS
<1>4. ctl' = [ctl EXCEPT ![s] = n]
  <2>1. ctl \in [Session -> Controller] /\ IsController(ctl[s])
        BY <1>1, Idle DEF SessionInv, Frames
  <2>2. ctl' = [ctl EXCEPT ![s].busy = "read",
                           ![s].phase = IF Unresolved(ctl[s]) THEN "uncertain"
                                        ELSE IF @ = "ready" THEN "refreshing" ELSE "loading"]
        BY DEF Refresh
  <2>3. [ctl[s] EXCEPT !.busy = "read"].phase = ctl[s].phase
        BY <2>1 DEF IsController
  <2>4. ctl' = [ctl EXCEPT ![s].busy = "read", ![s].phase = p]
        BY <1>2, <2>1, <2>2, <2>3
  <2>5. n = [ctl[s] EXCEPT !.busy = "read", !.phase = p]
        BY <1>3, <2>1 DEF Sets, IsController
  <2> QED BY <2>1, <2>4, <2>5
<1>5. /\ IsController(n) /\ n.phase = p /\ n.busy = "read" /\ n.view = ctl[s].view
      /\ n.pending = ctl[s].pending /\ n.confirmed = ctl[s].confirmed
      BY <1>1, <1>3, Idle, Setting
<1> QED BY <1>1, <1>2, <1>4, <1>5, ReadSentKeeps

LEMMA SubmitStaleKeeps ==
    ASSUME SessionInv, NEW s \in Session, SubmitStale(s)
    PROVE  SessionInv'
<1>1. /\ ctl[s].phase # "disposed" /\ ctl[s].busy = "none" /\ Send(s, [kind |-> "read"])
      /\ UNCHANGED <<keep, log, intents, told, faults>>
      BY DEF SubmitStale, MaySubmit
<1>2. PICK n : n = Sets(ctl[s], "loading", "read")
      OBVIOUS
<1>3. ctl' = [ctl EXCEPT ![s] = n]
  <2>1. IsController(ctl[s])
        BY <1>1, Idle
  <2>2. n = [ctl[s] EXCEPT !.busy = "read", !.phase = "loading"]
        BY <1>2, <2>1 DEF Sets, IsController
  <2> QED BY <2>2 DEF SubmitStale
<1>4. /\ IsController(n) /\ n.phase = "loading" /\ n.busy = "read" /\ n.view = ctl[s].view
      /\ n.pending = ctl[s].pending /\ n.confirmed = ctl[s].confirmed
      BY <1>1, <1>2, Idle, Setting
<1> QED BY <1>1, <1>3, <1>4, ReadSentKeeps

LEMMA SubmitKeeps ==
    ASSUME SessionInv, NEW s \in Session, Submit(s)
    PROVE  SessionInv'
<1> DEFINE c == ctl[s]
<1>1. /\ c.phase \in {"ready", "uninitialized"} /\ c.busy = "none" /\ c.pending = None
      /\ intents < MaxIntents /\ intents' = intents + 1 /\ SendPending(s, Capture(c, intents'))
      /\ UNCHANGED <<keep, log, told, faults>>
      BY DEF Submit, MaySubmit
<1>2. ControllerFields(c) /\ ControllerOK(s) /\ c.confirmed = None
      BY <1>1, Idle DEF ControllerOK
<1>3. /\ intents \in Nat /\ intents' \in 1..MaxIntents /\ keep.lastAccepted \in Nat
      /\ keep.lastAccepted <= intents
      BY <1>1, Numbers, Bounds
<1>4. PICK key \in 1..MaxIntents : key = intents'
      BY <1>3
<1>5. PICK k : k = Capture(c, key)
      OBVIOUS
<1>6. k \in Command /\ k.requestKey = key
  <2>1. CASE c.phase = "uninitialized"
    <3>1. k = [kind |-> "initialize", sequence |-> 1, requestKey |-> key, expectedRevision |-> 0]
          BY <1>5, <2>1 DEF Capture
    <3>2. 1 \in 1..MaxIntents /\ 0 \in Revision
          BY <1>3, Bounds DEF Revision
    <3> QED BY <3>1, <3>2 DEF Command
  <2>2. CASE c.phase = "ready"
    <3>1. PICK v \in View : v = c.view /\ Known(v)
          BY <1>2, <2>2 DEF ControllerOK, ControllerFields
    <3>2. v.revision \in Revision /\ v.lastAccepted \in Nat /\ v.lastAccepted <= keep.lastAccepted
          BY <3>1, ViewFacts DEF View, Known
    <3>3. PICK q \in 1..MaxIntents : q = v.lastAccepted + 1
          BY <1>1, <1>3, <3>2, Bounds
    <3>4. k = [kind |-> "other", sequence |-> q, requestKey |-> key, expectedRevision |-> v.revision]
          BY <1>5, <2>2, <3>1, <3>3 DEF Capture
    <3> QED BY <3>2, <3>4 DEF Command
  <2> QED BY <1>1, <2>1, <2>2
<1>7. SendPending(s, k)
      BY <1>1, <1>4, <1>5
<1>8. intents' \in 0..MaxIntents /\ intents <= intents' /\ intents < key /\ key <= intents'
      BY <1>1, <1>3, <1>4, Bounds
<1> QED BY <1>1, <1>2, <1>6, <1>7, <1>8, MutateSentKeeps

LEMMA RetryKeeps ==
    ASSUME SessionInv, NEW s \in Session, RetryPending(s)
    PROVE  SessionInv'
<1>1. /\ ctl[s].phase # "disposed" /\ ctl[s].busy = "none"
      /\ ctl[s].pending # None /\ ctl[s].confirmed = None
      /\ SendPending(s, ctl[s].pending) /\ UNCHANGED <<keep, log, intents, told, faults>>
      BY DEF RetryPending, Live, Unresolved, Envelope
<1>2. PICK k \in Command : k = ctl[s].pending
      BY <1>1, Idle DEF ControllerFields
<1>3. intents' \in 0..MaxIntents /\ intents <= intents'
      BY <1>1, Numbers DEF SessionInv
<1> QED BY <1>1, <1>2, <1>3, MutateSentKeeps

LEMMA DisposeKeeps ==
    ASSUME SessionInv, NEW s \in Session, Dispose(s)
    PROVE  SessionInv'
<1>1. PICK n : n = [phase |-> "disposed", busy |-> "none", view |-> None,
                    pending |-> None, confirmed |-> None]
      OBVIOUS
<1>2. /\ n.phase = "disposed" /\ n.busy = "none" /\ n.view = None
      /\ n.pending = None /\ n.confirmed = None
      BY <1>1
<1>3. n \in Controller
      BY <1>1 DEF Controller, Phase
<1>4. PICK q \in {calls[s], <<>>} : calls' = [calls EXCEPT ![s] = q]
      BY DEF Dispose
<1>5. QueueOK(s) /\ calls[s] \in Seq(Call) /\ Frames
      BY Typed DEF SessionInv, SessionOK
<1>6. /\ q \in Seq(Call) /\ Len(q) <= MaxQueue
      /\ \A j \in DOMAIN q : j \in DOMAIN calls[s] /\ q[j] = calls[s][j]
  <2>1. <<>> \in Seq(Call) /\ Len(<<>>) = 0 /\ DOMAIN <<>> = {}
        BY EmptySeq
  <2>2. CASE q = calls[s]
        BY <1>5, <2>2 DEF QueueOK
  <2>3. CASE q = <<>>
        BY <2>1, <2>3, Bounds
  <2> QED BY <2>2, <2>3
<1>7. Becomes(s, n, q, None)
      BY <1>1, <1>4 DEF Dispose, Becomes
<1>8. /\ OnlyMoves(s) /\ Frames' /\ AnswerOK(s)'
      /\ ctl'[s] = n /\ awaiting'[s] = None /\ answer'[s] = None /\ calls'[s] = q
      BY <1>3, <1>6, <1>7, Became
<1>9. QueueOK(s)'
      BY <1>6, <1>8, QueueIdle
<1>10. Carried(s)
       BY <1>2, <1>6, <1>8, CarriesLess
<1>11. SeesOn(s) /\ ControllerOK(s)'
       BY <1>2, <1>8, NoneAssumption DEF SeesOn, ControllerOK
<1>12. SessionOK(s)'
       BY <1>8, <1>9, <1>11 DEF SessionOK
<1>13. /\ UNCHANGED <<keep, log, intents, told, faults>>
       /\ intents' \in 0..MaxIntents /\ intents <= intents' /\ faults' \in 0..MaxFaults
       BY Numbers DEF Dispose, SessionInv
<1> QED BY <1>8, <1>10, <1>11, <1>12, <1>13, ControlKeeps

-----------------------------------------------------------------------------
(* The invariant, and what it says. *)

LEMMA InitEstablishes == Init => SessionInv
<1> SUFFICES ASSUME Init PROVE SessionInv
    OBVIOUS
<1>1. PICK n : n = [phase |-> "loading", busy |-> "none", view |-> None,
                    pending |-> None, confirmed |-> None]
      OBVIOUS
<1>2. /\ n.phase = "loading" /\ n.busy = "none" /\ n.view = None
      /\ n.pending = None /\ n.confirmed = None
      BY <1>1
<1>3. n \in Controller
      BY <1>1 DEF Controller, Phase
<1>4. <<>> \in Seq(Call) /\ Len(<<>>) = 0 /\ DOMAIN <<>> = {}
      BY EmptySeq
<1>5. \A s \in Session : /\ ctl[s] = n /\ awaiting[s] = None /\ answer[s] = None
                         /\ calls[s] = <<>>
      BY <1>1 DEF Init
<1>6. Frames
      BY <1>1, <1>3, <1>4 DEF Init, Frames
<1>7. LogOK
  <2>1. /\ keep = [revision |-> 0, lastAccepted |-> 0, receipts |-> {}] /\ log = {}
        BY DEF Init
  <2>2. keep \in KeepRows
        BY <2>1, Bounds DEF KeepRows, Revision
  <2>3. IsFiniteSet(log) /\ Cardinality(log) = 0
        BY <2>1, FS_EmptySet
  <2> QED BY <2>1, <2>2, <2>3, Bounds DEF LogOK
<1>8. OwnerOK
  <2>1. \A s \in Session, c \in Command : ~Carries(s, c)
        BY <1>2, <1>4, <1>5 DEF Carries
  <2> QED BY <2>1 DEF OwnerOK
<1>9. ToldOK
      BY DEF Init, ToldOK
<1>10. ASSUME NEW s \in Session PROVE SessionOK(s)
  <2>1. ControllerOK(s)
        BY <1>2, <1>5, NoneAssumption DEF ControllerOK
  <2>2. QueueOK(s) /\ AnswerOK(s)
        BY <1>4, <1>5, Bounds DEF QueueOK, AnswerOK
  <2> QED BY <2>1, <2>2 DEF SessionOK
<1>11. intents \in 0..MaxIntents /\ faults \in 0..MaxFaults
       BY Bounds DEF Init
<1> QED BY <1>6, <1>7, <1>8, <1>9, <1>10, <1>11 DEF SessionInv

LEMMA StutterKeeps ==
    ASSUME SessionInv, UNCHANGED vars
    PROVE  SessionInv'
<1>1. /\ keep' = keep /\ log' = log /\ calls' = calls /\ answer' = answer /\ awaiting' = awaiting
      /\ ctl' = ctl /\ intents' = intents /\ told' = told /\ faults' = faults
      BY DEF vars
<1>2. \A s \in Session, c \in Command : Carries(s, c)' <=> Carries(s, c)
      BY <1>1 DEF Carries
<1>3. Frames' /\ LogOK'
      BY <1>1 DEF SessionInv, Frames, LogOK
<1>4. OwnerOK'
      BY <1>1, <1>2 DEF SessionInv, OwnerOK
<1>5. ToldOK'
      BY <1>1, <1>2 DEF SessionInv, ToldOK, ToldTrue, Executed, Seen
<1>6. ASSUME NEW s \in Session PROVE SessionOK(s)'
  <2>1. ControllerOK(s)' /\ QueueOK(s)'
        BY <1>1 DEF SessionInv, SessionOK, ControllerOK, QueueOK, Known, Confirmed
  <2>2. Grows /\ keep' \in KeepRows
        BY <1>1, Numbers DEF Grows, SessionInv, LogOK
  <2>3. AnswerOK(s)'
        BY <1>1, <2>2, AnswerOn
  <2> QED BY <2>1, <2>3 DEF SessionOK
<1> QED BY <1>1, <1>3, <1>4, <1>5, <1>6 DEF SessionInv

LEMMA NextKeeps == SessionInv /\ [Next]_vars => SessionInv'
<1> SUFFICES ASSUME SessionInv, [Next]_vars PROVE SessionInv'
    OBVIOUS
<1>1. CASE Settle
      BY <1>1, SettleKeeps
<1>2. ASSUME NEW s \in Session, NEW i \in Runnable(s), RunRead(s, i) PROVE SessionInv'
      BY <1>2, ReadKeeps
<1>3. ASSUME NEW s \in Session, NEW i \in Runnable(s), RunMutate(s, i) PROVE SessionInv'
  <2>1. calls[s][i].kind = "mutate" /\ UNCHANGED <<awaiting, ctl, intents, told, faults>>
        BY <1>3 DEF RunMutate
  <2>2. CASE Accept(s, i)
        BY <2>1, <2>2, AcceptKeeps
  <2>3. CASE Decline(s, i)
        BY <2>1, <2>3, DeclineKeeps
  <2> QED BY <1>3, <2>2, <2>3 DEF RunMutate
<1>4. ASSUME NEW s \in Session, NEW i \in Runnable(s), RunFails(s, i) PROVE SessionInv'
      BY <1>4, FailsKeeps
<1>5. ASSUME NEW s \in Session, Deliver(s) PROVE SessionInv'
      BY <1>5, DeliverKeeps
<1>6. ASSUME NEW s \in Session, Timeout(s) PROVE SessionInv'
      BY <1>6, TimeoutKeeps
<1>7. ASSUME NEW s \in Session, Refresh(s) PROVE SessionInv'
      BY <1>7, RefreshKeeps
<1>8. ASSUME NEW s \in Session, Submit(s) PROVE SessionInv'
      BY <1>8, SubmitKeeps
<1>9. ASSUME NEW s \in Session, SubmitStale(s) PROVE SessionInv'
      BY <1>9, SubmitStaleKeeps
<1>10. ASSUME NEW s \in Session, RetryPending(s) PROVE SessionInv'
       BY <1>10, RetryKeeps
<1>11. ASSUME NEW s \in Session, Dispose(s) PROVE SessionInv'
       BY <1>11, DisposeKeeps
<1>12. CASE UNCHANGED vars
       BY <1>12, StutterKeeps
<1> QED BY <1>1, <1>2, <1>3, <1>4, <1>5, <1>6, <1>7, <1>8, <1>9, <1>10, <1>11, <1>12 DEF Next

(* The inductive invariant holds of every run of the sessions and the keep:   *)
(* src/ptr/gameplay04/ptrGameplay04Controller.ts against                      *)
(* spacetimedb/gameplay04/commands.ts.                                        *)
THEOREM SessionCorrect == Spec => []SessionInv
<1>1. Init => SessionInv
      BY InitEstablishes
<1>2. SessionInv /\ [Next]_vars => SessionInv'
      BY NextKeeps
<1> QED BY <1>1, <1>2, PTL DEF Spec

(* The types, and every answer fits the call that is awaited: no delay, no    *)
(* timeout and no other session makes the controller see an answer it would   *)
(* report as an invalid state (readAuthoritative).                            *)
THEOREM TypeCorrect == Spec => []TypeOK
<1>1. SessionInv => TypeOK
  <2> SUFFICES ASSUME SessionInv PROVE TypeOK
      OBVIOUS
  <2>1. /\ keep \in KeepRows /\ log \subseteq Receipt
        /\ intents \in 0..MaxIntents /\ faults \in 0..MaxFaults
        BY DEF SessionInv, LogOK
  <2>2. ASSUME NEW s \in Session
        PROVE  /\ Len(calls[s]) <= MaxQueue
               /\ \A i \in DOMAIN calls[s] : calls[s][i] \in Call
               /\ answer[s] \in Answer \cup {None}
               /\ awaiting[s] \in {None, "read", "mutate"}
               /\ ctl[s] \in Controller
               /\ ctl[s].busy # "none" <=> awaiting[s] # None
               /\ answer[s] # None => awaiting[s] # None
    <3>1. SessionOK(s)
          BY DEF SessionInv
    <3>2. /\ calls[s] \in Seq(Call) /\ DOMAIN calls[s] = 1..Len(calls[s])
          /\ answer[s] \in Answer \cup {None} /\ awaiting[s] \in {None, "read", "mutate"}
          /\ ctl[s] \in Controller
          BY Typed DEF SessionInv
    <3>3. \A i \in DOMAIN calls[s] : calls[s][i] \in Call
          BY <3>2, ElementOfSeq
    <3> QED BY <3>1, <3>2, <3>3 DEF SessionOK, ControllerOK, QueueOK
  <2>3. AnswersFit
        BY DEF SessionInv, SessionOK, AnswerOK, Fits, AnswersFit
  <2> QED BY <2>1, <2>2, <2>3 DEF TypeOK
<1> QED BY <1>1, SessionCorrect, PTL

(* One thing the player asked for is done at most once, however often and     *)
(* from whichever session its envelope is sent (retryPending,                 *)
(* preflightSequence04).                                                      *)
THEOREM OncePerIntentAlways == Spec => []OncePerIntent
<1>1. SessionInv => OncePerIntent
      BY DEF SessionInv, LogOK, OncePerIntent
<1> QED BY <1>1, SessionCorrect, PTL

(* A command a controller saw confirmed was executed as it was captured       *)
(* (receipt() and sendPending).                                               *)
THEOREM ConfirmedIsDoneAlways == Spec => []ConfirmedIsDone
<1>1. SessionInv => ConfirmedIsDone
      BY DEF SessionInv, ToldOK, ToldTrue, Executed, ConfirmedIsDone
<1> QED BY <1>1, SessionCorrect, PTL

(* When calls are run in order, a command that was dropped as refused is      *)
(* never executed (the rejection branch of sendPending).                      *)
THEOREM RefusedIsNeverAlways == Spec => []RefusedIsNever
<1>1. SessionInv => RefusedIsNever
      BY DEF SessionInv, ToldOK, ToldTrue, RefusedIsNever
<1> QED BY <1>1, SessionCorrect, PTL

(* A controller that is ready shows everything it saw confirmed, and holds no *)
(* command of unknown outcome (the readback of sendPending).                  *)
THEOREM ReadyIsCurrentAlways == Spec => []ReadyIsCurrent
<1>1. SessionInv => ReadyIsCurrent
  <2> SUFFICES ASSUME SessionInv, NEW s \in Session, ctl[s].phase = "ready"
               PROVE  /\ ctl[s].pending = None /\ ctl[s].confirmed = None /\ ctl[s].view # None
                      /\ \A t \in told :
                            t.verdict = "executed" /\ t.session = s =>
                               /\ t.command.sequence <= ctl[s].view.lastAccepted
                               /\ t.command.expectedRevision < ctl[s].view.revision
      BY DEF ReadyIsCurrent
  <2>1. ctl[s].pending = None /\ ctl[s].confirmed = None /\ ctl[s].view # None
        BY DEF SessionInv, SessionOK, ControllerOK
  <2>2. ASSUME NEW t \in told, t.verdict = "executed", t.session = s
        PROVE  /\ t.command.sequence <= ctl[s].view.lastAccepted
               /\ t.command.expectedRevision < ctl[s].view.revision
    <3>1. Seen(ctl[s], t.command)
          BY <2>2 DEF SessionInv, ToldOK, ToldTrue
    <3> QED BY <2>1, <3>1 DEF Seen
  <2> QED BY <2>1, <2>2
<1> QED BY <1>1, SessionCorrect, PTL
=============================================================================

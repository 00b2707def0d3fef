----------------------------- MODULE Session04 ------------------------------
(* The browser side of gameplay 0.4 against a keep it reaches through a slow  *)
(* network: the controller of src/ptr/gameplay04 and the procedure calls of   *)
(* ptrRealmConnection.  A session is one controller on one connection; a      *)
(* second tab, a second device and the page after a reload are further        *)
(* sessions of the same player, and no session ever inherits anything from    *)
(* another one.                                                               *)
(*                                                                            *)
(* The keep is reduced to its command protocol (Commands04).  A call is run   *)
(* any time after it was sent; giving up on it after a timeout does not take  *)
(* it back.  Whether the calls of one connection are run in the order they    *)
(* were sent is up to the database host: Ordered are the sessions whose calls *)
(* are.                                                                       *)
EXTENDS Commands04, SequencesExt

CONSTANTS
    None,          \* null
    Session,       \* controllers of one player
    Ordered,       \* the sessions whose calls are run in order
    MaxIntents,    \* BOUND on what the player asks for
    MaxRevision,   \* BOUND on the revisions reached by settling
    MaxFaults,     \* BOUND on timeouts and failures of unknown outcome
    MaxQueue       \* BOUND on the calls of one connection still to be run

ASSUME SessionAssumption ==
    /\ Ordered \subseteq Session
    /\ {MaxIntents, MaxRevision, MaxFaults, MaxQueue} \subseteq Nat

VARIABLES
    keep,      \* the rows of the keep that commands are checked against
    log,       \* history: every command ever accepted, with its revision
    calls,     \* what a session has sent and the keep has not run
    answer,    \* the answer on its way to the call a session awaits
    awaiting,  \* the kind of call a session awaits
    ctl,       \* the state of the controllers
    intents,   \* how many times the player asked for something
    told,      \* history: what controllers concluded about their commands
    faults     \* how many faults there were

vars == <<keep, log, calls, answer, awaiting, ctl, intents, told, faults>>

-----------------------------------------------------------------------------
Revision == 0..(MaxRevision + MaxIntents)

Command == [kind : {"initialize", "other"}, sequence : 1..MaxIntents,
            requestKey : 1..MaxIntents, expectedRevision : Revision]

Receipt == [command : Command, revision : Revision]

KeepRows == [revision : Revision, lastAccepted : 0..MaxIntents, receipts : SUBSET Receipt]

View == [revision : Revision, lastAccepted : 0..MaxIntents]

Mark == [sequence : 1..MaxIntents, revision : Revision]

Call == [kind : {"read"}] \cup [kind : {"mutate"}, command : Command]

Answer == [kind : {"state"}, view : View]
             \cup [kind : {"receipt"}, sequence : 1..MaxIntents, revision : Revision]
             \cup [kind : {"not-initialized", "rejected", "expired", "uncertain"}]

Phase == {"loading", "uninitialized", "ready", "refreshing", "pending", "uncertain",
          "failed", "disposed"}

Controller == [phase     : Phase,
               busy      : {"none", "read", "mutate"},
               view      : View \cup {None},
               pending   : Command \cup {None},
               confirmed : {None} \cup Mark]

ASSUME NoneAssumption ==
    /\ None \notin {"read", "mutate"}
    /\ None \notin View \cup Command
    /\ None \notin Answer \cup Mark

Fail(kind) == [kind |-> kind]

-----------------------------------------------------------------------------
(* The keep. *)
ViewOf(rows) == [revision |-> rows.revision, lastAccepted |-> rows.lastAccepted]

Settled(rows) == [rows EXCEPT !.revision = @ + 1]

(* Reading a keep, or one of its timers, may settle what is due. *)
MaySettle(rows) ==
    {rows} \cup {r \in {Settled(rows)} : rows.revision > 0 /\ rows.revision < MaxRevision}

Committed(rows, command) ==
    [revision     |-> rows.revision + 1,
     lastAccepted |-> command.sequence,
     receipts     |-> WithReceipt(rows.receipts, command, rows.revision + 1)]

(* What the keep may answer to a command.  A command that passes the          *)
(* protocol may still be refused: the worker is busy, the location full.      *)
Refusals(rows, command) ==
    IF rows.revision = 0
    THEN IF command.kind = "initialize" THEN {} ELSE {Fail("not-initialized")}
    ELSE CASE Preflight(rows, rows.receipts, command) = "replay" -> {}
           [] Preflight(rows, rows.receipts, command) = "RECEIPT_EXPIRED" -> {Fail("expired")}
           [] OTHER -> {Fail("rejected")}

Acceptable(rows, command) ==
    IF command.kind = "initialize"
    THEN rows.revision = 0 /\ command.sequence = 1 /\ command.expectedRevision = 0
    ELSE rows.revision > 0 /\ Preflight(rows, rows.receipts, command) = "fresh"

(* Mutant: the retained receipt of the sequence answers whatever was asked. *)
ReplaysAnyway(rows, command) ==
    {[kind |-> "receipt", sequence |-> r.command.sequence, revision |-> r.revision] :
        r \in Retained(rows.receipts, command)}

Replays(rows, command) ==
    {[kind |-> "receipt", sequence |-> r.command.sequence, revision |-> r.revision] :
        r \in {q \in Retained(rows.receipts, command) : q.command = command}}

-----------------------------------------------------------------------------
(* The network. *)
Send(s, call) ==
    /\ Len(calls[s]) < MaxQueue
    /\ calls' = [calls EXCEPT ![s] = Append(@, call)]
    /\ awaiting' = [awaiting EXCEPT ![s] = call.kind]
    /\ UNCHANGED answer

(* Mutant: a late answer is taken for the answer to the call awaited now.     *)
RespondToAnyone(s, i, a) ==
    /\ calls' = [calls EXCEPT ![s] = RemoveAt(@, i)]
    /\ answer' = [answer EXCEPT ![s] = IF awaiting[s] # None THEN a ELSE @]

(* An answer reaches the call that is awaited, the last one sent; the answer  *)
(* to a call that was given up is dropped.                                    *)
Respond(s, i, a) ==
    LET awaited == i = Len(calls[s]) /\ awaiting[s] # None /\ answer[s] = None
    IN  /\ calls' = [calls EXCEPT ![s] = RemoveAt(@, i)]
        /\ answer' = [answer EXCEPT ![s] = IF awaited THEN a ELSE @]

NoMoreCall(s) ==
    /\ awaiting' = [awaiting EXCEPT ![s] = None]
    /\ answer' = [answer EXCEPT ![s] = None]
    /\ UNCHANGED calls

(* The readback that follows an answer, on the same connection. *)
ReadBack(s) ==
    /\ calls' = [calls EXCEPT ![s] = Append(@, [kind |-> "read"])]
    /\ awaiting' = [awaiting EXCEPT ![s] = "read"]
    /\ answer' = [answer EXCEPT ![s] = None]

(* The calls that may be run next. *)
Runnable(s) == IF s \in Ordered THEN DOMAIN calls[s] \cap {1} ELSE DOMAIN calls[s]

RunRead(s, i) ==
    /\ calls[s][i].kind = "read"
    /\ \E rows \in MaySettle(keep) :
          /\ keep' = rows
          /\ Respond(s, i, IF rows.revision = 0 THEN Fail("not-initialized")
                           ELSE [kind |-> "state", view |-> ViewOf(rows)])
    /\ UNCHANGED <<log, awaiting, ctl, intents, told, faults>>

Accept(s, i) ==
    LET command == calls[s][i].command
        new     == [command |-> command, revision |-> keep.revision + 1]
    IN  /\ Acceptable(keep, command)
        /\ keep' = Committed(keep, command)
        /\ log' = log \cup {new}
        /\ Respond(s, i, [kind |-> "receipt", sequence |-> command.sequence,
                          revision |-> new.revision])

Decline(s, i) ==
    /\ \E a \in Refusals(keep, calls[s][i].command) \cup Replays(keep, calls[s][i].command) :
          Respond(s, i, a)
    /\ UNCHANGED <<keep, log>>

RunMutate(s, i) ==
    /\ calls[s][i].kind = "mutate"
    /\ Accept(s, i) \/ Decline(s, i)
    /\ UNCHANGED <<awaiting, ctl, intents, told, faults>>

(* A call fails for a reason that says nothing about the command: the login   *)
(* or the atlas was not there, the transaction was not run.                   *)
RunFails(s, i) ==
    /\ faults < MaxFaults
    /\ faults' = faults + 1
    /\ Respond(s, i, Fail("uncertain"))
    /\ UNCHANGED <<keep, log, awaiting, ctl, intents, told>>

(* The database runs a call. *)
Serve(s) == \E i \in Runnable(s) : RunRead(s, i) \/ RunMutate(s, i)

Settle ==
    /\ keep' \in MaySettle(keep) \ {keep}
    /\ UNCHANGED <<log, calls, answer, awaiting, ctl, intents, told, faults>>

-----------------------------------------------------------------------------
(* The controller. *)
Unresolved(c) == c.pending # None /\ c.confirmed = None

(* receipt(): it describes this request and no other one. *)
Matches(a, command) ==
    a.sequence = command.sequence /\ a.revision = command.expectedRevision + 1

(* Mutant: whoever does not answer has refused. *)
GivesUpEasily(a) == a.kind # "receipt"

(* Mutant: a refusal leaves the outcome open. *)
GivesUpReluctantly(a) == a.kind \in {"expired", "not-initialized"}

(* The kinds of error after which the envelope is dropped. *)
GivesUp(a) == a.kind \in {"rejected", "expired", "not-initialized"}

Regressed(c, view) ==
    \/ /\ c.view # None
       /\ view.revision < c.view.revision \/ view.lastAccepted < c.view.lastAccepted
    \/ /\ c.confirmed # None
       /\ view.revision < c.confirmed.revision \/ view.lastAccepted < c.confirmed.sequence

NoLongerBusy(c) == [c EXCEPT !.busy = "none"]

(* What a read leaves behind (readAuthoritative). *)
AfterRead(c, a) ==
    IF a.kind = "state" /\ ~Regressed(c, a.view)
    THEN LET pending == IF c.confirmed # None THEN None ELSE c.pending
         IN  [c EXCEPT !.view = a.view, !.pending = pending, !.confirmed = None,
                       !.phase = IF pending # None THEN "uncertain" ELSE "ready"]
    ELSE IF a.kind = "not-initialized" /\ c.pending = None /\ c.view = None
    THEN [c EXCEPT !.phase = "uninitialized"]
    ELSE [c EXCEPT !.phase = IF Unresolved(c) THEN "uncertain" ELSE "failed"]

TakeRead(s, a) ==
    /\ awaiting[s] = "read"
    /\ ctl' = [ctl EXCEPT ![s] = NoLongerBusy(AfterRead(@, a))]
    /\ NoMoreCall(s)
    /\ UNCHANGED told

(* Mutant: the receipt is shown as the new state, without reading it. *)
ConfirmAtOnce(s, a) ==
    /\ ctl' = [ctl EXCEPT ![s] = [@ EXCEPT !.pending = None, !.phase = "ready", !.busy = "none"]]
    /\ NoMoreCall(s)

Confirm(s, a) ==
    /\ ctl' = [ctl EXCEPT ![s].confirmed = [sequence |-> a.sequence, revision |-> a.revision]]
    /\ ReadBack(s)

(* What the answer to a command leaves behind (sendPending). *)
TakeMutate(s, a) ==
    LET command == ctl[s].pending
        learned(verdict) == told' = told \cup {[session |-> s, command |-> command, verdict |-> verdict]}
    IN  /\ awaiting[s] = "mutate"
        /\ \/ /\ a.kind = "receipt" /\ Matches(a, command)
              /\ Confirm(s, a)
              /\ learned("executed")
           \/ /\ GivesUp(a)
              /\ ctl' = [ctl EXCEPT ![s] = [@ EXCEPT !.pending = None, !.phase = "loading"]]
              /\ ReadBack(s)
              /\ learned(IF a.kind = "expired" THEN "expired" ELSE "refused")
           \/ /\ ~GivesUp(a)
              /\ ~(a.kind = "receipt" /\ Matches(a, command))
              /\ ctl' = [ctl EXCEPT ![s] = NoLongerBusy([@ EXCEPT !.phase = "uncertain"])]
              /\ NoMoreCall(s)
              /\ UNCHANGED told

Take(s, a) == TakeRead(s, a) \/ TakeMutate(s, a)

Deliver(s) ==
    /\ answer[s] # None
    /\ Take(s, answer[s])
    /\ UNCHANGED <<keep, log, intents, faults>>

(* Thirty seconds without an answer. *)
Timeout(s) ==
    /\ awaiting[s] # None
    /\ faults < MaxFaults
    /\ faults' = faults + 1
    /\ Take(s, Fail("uncertain"))
    /\ UNCHANGED <<keep, log, intents>>

-----------------------------------------------------------------------------
(* The player and the page. *)
Live(s) == ctl[s].phase # "disposed"

(* Mutant: a controller that failed waits for the player. *)
UnlessFailed(c) == c.busy = "none" /\ c.phase # "failed"

MayRefresh(c) == c.busy = "none"

(* The poll every five seconds, and whenever the page is looked at. *)
Refresh(s) ==
    /\ Live(s)
    /\ MayRefresh(ctl[s])
    /\ Send(s, [kind |-> "read"])
    /\ ctl' = [ctl EXCEPT ![s].busy = "read",
                          ![s].phase = IF Unresolved(ctl[s]) THEN "uncertain"
                                       ELSE IF @ = "ready" THEN "refreshing" ELSE "loading"]
    /\ UNCHANGED <<keep, log, intents, told, faults>>

MaySubmit(c) ==
    c.busy = "none" /\ c.pending = None /\ c.phase \in {"ready", "uninitialized"}

(* capture(): the next sequence and the revision the player has seen. *)
Capture(c, requestKey) ==
    IF c.phase = "uninitialized"
    THEN [kind |-> "initialize", sequence |-> 1, requestKey |-> requestKey,
          expectedRevision |-> 0]
    ELSE [kind |-> "other", sequence |-> c.view.lastAccepted + 1, requestKey |-> requestKey,
          expectedRevision |-> c.view.revision]

SendPending(s, command) ==
    /\ Send(s, [kind |-> "mutate", command |-> command])
    /\ ctl' = [ctl EXCEPT ![s] = [@ EXCEPT !.pending = command, !.busy = "mutate",
                                           !.phase = "pending"]]

Submit(s) ==
    /\ MaySubmit(ctl[s])
    /\ intents < MaxIntents
    /\ intents' = intents + 1
    /\ SendPending(s, Capture(ctl[s], intents'))
    /\ UNCHANGED <<keep, log, told, faults>>

(* The intent no longer fits what the controller knows: nothing is sent, the  *)
(* player has to confirm again.                                               *)
SubmitStale(s) ==
    /\ MaySubmit(ctl[s])
    /\ Send(s, [kind |-> "read"])
    /\ ctl' = [ctl EXCEPT ![s] = [@ EXCEPT !.busy = "read", !.phase = "loading"]]
    /\ UNCHANGED <<keep, log, intents, told, faults>>

(* Mutant: a retry asks again for what the player wanted. *)
AskAgain(c) ==
    IF c.view = None THEN c.pending
    ELSE [c.pending EXCEPT !.sequence = c.view.lastAccepted + 1,
                           !.expectedRevision = c.view.revision]

(* The envelope of a retry is the original one. *)
Envelope(c) == c.pending

RetryPending(s) ==
    /\ Live(s)
    /\ ctl[s].busy = "none"
    /\ Unresolved(ctl[s])
    /\ SendPending(s, Envelope(ctl[s]))
    /\ UNCHANGED <<keep, log, intents, told, faults>>

(* The page goes away, or the session expires: what has been sent may still   *)
(* be run, what waits in the connection may be lost with it.                  *)
Dispose(s) ==
    /\ Live(s)
    /\ ctl' = [ctl EXCEPT ![s] = [phase |-> "disposed", busy |-> "none", view |-> None,
                                  pending |-> None, confirmed |-> None]]
    /\ awaiting' = [awaiting EXCEPT ![s] = None]
    /\ answer' = [answer EXCEPT ![s] = None]
    /\ \E sent \in {calls[s], <<>>} : calls' = [calls EXCEPT ![s] = sent]
    /\ UNCHANGED <<keep, log, intents, told, faults>>

-----------------------------------------------------------------------------
Init ==
    /\ keep = [revision |-> 0, lastAccepted |-> 0, receipts |-> {}]
    /\ log = {}
    /\ calls = [s \in Session |-> <<>>]
    /\ answer = [s \in Session |-> None]
    /\ awaiting = [s \in Session |-> None]
    /\ ctl = [s \in Session |-> [phase |-> "loading", busy |-> "none", view |-> None,
                                 pending |-> None, confirmed |-> None]]
    /\ intents = 0
    /\ told = {}
    /\ faults = 0

Next ==
    \/ Settle
    \/ \E s \in Session :
          \/ \E i \in Runnable(s) : RunRead(s, i) \/ RunMutate(s, i) \/ RunFails(s, i)
          \/ Deliver(s) \/ Timeout(s)
          \/ Refresh(s) \/ Submit(s) \/ SubmitStale(s) \/ RetryPending(s) \/ Dispose(s)

Spec == Init /\ [][Next]_vars

(* The connection works, the page keeps polling, and a player whose command   *)
(* has no known outcome tries again some time.                                *)
FairSpec ==
    /\ Spec
    /\ \A s \in Session : /\ WF_vars(Serve(s)) /\ WF_vars(Deliver(s))
                          /\ WF_vars(Refresh(s)) /\ SF_vars(RetryPending(s))

-----------------------------------------------------------------------------
(* The types; a controller is busy exactly while it awaits a call, only an    *)
(* awaited call is answered (the finally blocks of the controller), and the   *)
(* answer is one to the call that is awaited, never older than what the       *)
(* controller has shown or seen confirmed: with an honest keep, no delay or   *)
(* timeout makes it report an invalid state (readAuthoritative).              *)
AnswersFit ==
    \A s \in Session : answer[s] # None =>
        /\ answer[s].kind = "state" =>
              awaiting[s] = "read" /\ ~Regressed(ctl[s], answer[s].view)
        /\ answer[s].kind = "receipt" =>
              awaiting[s] = "mutate" /\ Matches(answer[s], ctl[s].pending)

TypeOK ==
    /\ keep \in KeepRows
    /\ log \subseteq Receipt
    /\ \A s \in Session :
          /\ Len(calls[s]) <= MaxQueue
          /\ \A i \in DOMAIN calls[s] : calls[s][i] \in Call
          /\ answer[s] \in Answer \cup {None}
          /\ awaiting[s] \in {None, "read", "mutate"}
          /\ ctl[s] \in Controller
          /\ ctl[s].busy # "none" <=> awaiting[s] # None
          /\ answer[s] # None => awaiting[s] # None
    /\ intents \in 0..MaxIntents
    /\ faults \in 0..MaxFaults
    /\ AnswersFit

(* One thing the player asked for is done at most once, however often its     *)
(* envelope is sent again, from whichever session, and however late the       *)
(* copies are run (retryPending and preflightSequence04).                     *)
OncePerIntent ==
    \A e, f \in log : e.command.requestKey = f.command.requestKey => e = f

(* A command a controller saw confirmed was executed as it was captured, at   *)
(* the revision of its receipt (receipt() and sendPending).                   *)
ConfirmedIsDone ==
    \A t \in told : t.verdict = "executed" =>
        [command |-> t.command, revision |-> t.command.expectedRevision + 1] \in log

(* When calls are run in order, a command a controller dropped as refused is  *)
(* never executed, not even by a copy that is still on its way: the player    *)
(* who decides anew does not get both.  RECEIPT_EXPIRED alone says nothing of *)
(* the kind (the rejection branch of sendPending, errorKinds).                *)
RefusedIsNever ==
    \A t \in told : t.verdict = "refused" /\ t.session \in Ordered =>
        \A e \in log : e.command # t.command

(* A controller that invites a new command shows a state in which everything  *)
(* it saw confirmed has happened, and has no command of unknown outcome (the  *)
(* readback of sendPending).                                                  *)
ReadyIsCurrent ==
    \A s \in Session : ctl[s].phase = "ready" =>
        /\ ctl[s].pending = None /\ ctl[s].confirmed = None /\ ctl[s].view # None
        /\ \A t \in told :
              t.verdict = "executed" /\ t.session = s =>
                 /\ t.command.sequence <= ctl[s].view.lastAccepted
                 /\ t.command.expectedRevision < ctl[s].view.revision

(* A command of unknown outcome does not stay unknown, once calls are         *)
(* answered and the player tries again (retryPending).                        *)
PendingResolves ==
    \A s \in Session : (ctl[s].pending # None) ~> (ctl[s].pending = None)

(* A live page comes back to where the player can act (refresh).              *)
PlayerCanAct ==
    \A s \in Session : []<>(ctl[s].phase \in {"ready", "uninitialized", "disposed"})
=============================================================================

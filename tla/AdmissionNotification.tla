----------------------- MODULE AdmissionNotification ------------------------
(* The notice that tells a player of the pending access request: one Durable  *)
(* Object per player of the auth bridge (src/admissionNotifications.ts) keeps *)
(* the player's consents, one delivery with its retries, and the receipts.    *)
(*                                                                            *)
(* Webhooks of the host enable and disable tokens, the bridge queues the      *)
(* notice of a request, an operator authorizes one recovery, and the alarm    *)
(* retries.  The object runs one of these at a time (serialized), so that     *)
(* only the clock, the player's request and the host move while it awaits;    *)
(* but it may be evicted or redeployed between any two of its awaits.  The    *)
(* rows are written in one transaction and the alarm is set afterwards.       *)
EXTENDS Integers, Sequences, FiniteSetsExt, SequencesExt

CONSTANTS
    None,
    App,              \* the Farcaster clients
    Token,            \* the notification tokens they hand out
    AppOf,            \* the client of a token
    RecoveryId,       \* the identifiers of operators' recoveries
    MaxRequest,       \* BOUND on the player's requests
    MaxAttempts,      \* MAX_DELIVERY_ATTEMPTS
    MaxFailures,      \* MAX_VERIFICATION_FAILURES
    MaxSeen,          \* MAX_SEEN_EVENTS
    MaxRevoked,       \* MAX_REVOKED_TOKEN_IDS
    DeliveryLife,     \* DELIVERY_LIFETIME_MILLISECONDS
    SubscriptionLife, \* SUBSCRIPTION_MAX_LIFETIME_MILLISECONDS
    RetryDelays,      \* RETRY_DELAYS_MILLISECONDS
    Skew,             \* how far the time a caller states may be off
    LastCall,         \* BOUND on the time of a call
    MaxTime,          \* BOUND on the clock
    MaxDeploys,       \* BOUND on the changes of the configuration
    MaxCrashes        \* BOUND on the evictions of a running object

ASSUME NotificationAssumption ==
    /\ IsFiniteSet(App)
    /\ AppOf \in [Token -> App]
    /\ {MaxRequest, MaxAttempts, MaxFailures, MaxSeen, MaxRevoked, DeliveryLife} \subseteq Nat \ {0}
    /\ {SubscriptionLife, Skew, LastCall, MaxTime, MaxDeploys, MaxCrashes} \subseteq Nat
    /\ RetryDelays \in Seq(Nat \ {0}) /\ RetryDelays # <<>>

VARIABLES
    now,        \* the clock
    config,     \* what the object was deployed with
    pending,    \* the player's request that waits in the realm, 0 for none
    asked,      \* how many requests the player has made
    rows,       \* both records of the object, None when there are none
    alarm,      \* the scheduled alarm
    work,       \* the operation that is running
    deploys, crashes,
    target,     \* HISTORY: the tokens the stored delivery was sent to
    gone,       \* HISTORY: the tokens that were subscribed and no longer are
    told,       \* HISTORY: the requests whose delivery was stored as sent
    stranded    \* HISTORY: a call has left rows without the alarm they need

world == <<now, config, pending, asked, deploys>>
history == <<target, gone, told>>
vars == <<world, rows, alarm, work, crashes, history, stranded>>

-----------------------------------------------------------------------------
(* Rows. *)
Request == 1..MaxRequest
Never == -1

Attempt == [app : App, token : Token, status : {"pending", "retrying", "sent", "exhausted"},
            attempts : 0..MaxAttempts, failures : 0..MaxFailures, next : Nat \cup {Never}]

Subscription == [token : Token, enabledAt : Nat, expiresAt : Nat]

Recovery == [request : Nat, id : RecoveryId, at : Nat]

Delivery == [request : Nat, queuedAt : Nat, expiresAt : Nat, recovery : RecoveryId \cup {None},
             attempt : Attempt \cup {None}]

Event == ({"enabled"} \X Token) \cup ({"disabled"} \X App)

(* Both records of the object. *)
State ==
    [subs : [App -> Subscription \cup {None}], seen : Seq(Event), revoked : Seq(Token),
     retention : Nat, sent : Nat, exhausted : Nat,
     recovery : Recovery \cup {None}, delivery : Delivery \cup {None}]

ASSUME NoneAssumption ==
    None \notin Subscription \cup Attempt \cup Recovery \cup Delivery \cup State

EmptyState(t) ==
    [subs |-> [a \in App |-> None], seen |-> <<>>, revoked |-> <<>>,
     retention |-> t + SubscriptionLife, sent |-> 0, exhausted |-> 0,
     recovery |-> None, delivery |-> None]

NewDelivery(g, t, recovery) ==
    [request |-> g, queuedAt |-> t, expiresAt |-> t + DeliveryLife,
     recovery |-> recovery, attempt |-> None]

Subscribed(rw) == {a \in App : rw.subs[a] # None}

Tokens(rw) == {rw.subs[a].token : a \in Subscribed(rw)}

Newest(list, bound) ==
    SubSeq(list, IF Len(list) > bound THEN Len(list) - bound + 1 ELSE 1, Len(list))

WithSeenEvent(rw, e) == [rw EXCEPT !.seen = Newest(Append(@, e), MaxSeen)]

WithRevoked(rw, tokens) ==
    [rw EXCEPT !.revoked = Newest(@ \o SetToSeq(tokens \ ToSet(@)), MaxRevoked)]

(* Subscriptions of apps end: their tokens will not be taken again. *)
Ending(rw, apps) ==
    [WithRevoked(rw, {rw.subs[a].token : a \in apps}) EXCEPT
        !.subs = [a \in App |-> IF a \in apps THEN None ELSE @[a]]]

Unsubscribed(rw, a) == Ending(rw, {a} \cap Subscribed(rw))

(* pruneSubscriptions *)
Prune(rw, t) ==
    LET over == {a \in Subscribed(rw) : rw.subs[a].expiresAt <= t \/ a \notin config.clients}
    IN  IF over = {} THEN rw ELSE Ending(rw, over)

(* Mutant: an attempt is always to the newest subscription. *)
TargetsNewest(d, rw) ==
    {[app |-> a, token |-> rw.subs[a].token, status |-> "pending",
      attempts |-> 0, failures |-> 0, next |-> Never] :
         a \in {b \in Subscribed(rw) :
                  \A c \in Subscribed(rw) : rw.subs[c].enabledAt <= rw.subs[b].enabledAt}}

(* The attempts a delivery may go on with: the one it has, else one to a      *)
(* newest subscription (attemptsForSubscriptions).                            *)
Targets(d, rw) ==
    IF d.attempt # None THEN {d.attempt}
    ELSE {[app |-> a, token |-> rw.subs[a].token, status |-> "pending",
           attempts |-> 0, failures |-> 0, next |-> Never] :
             a \in {b \in Subscribed(rw) :
                      \A c \in Subscribed(rw) : rw.subs[c].enabledAt <= rw.subs[b].enabledAt}}

Attached(rw) ==
    IF rw.delivery = None THEN {rw}
    ELSE LET targets == Targets(rw.delivery, rw)
         IN  {[rw EXCEPT !.delivery.attempt = x] :
                x \in IF targets = {} THEN {rw.delivery.attempt} ELSE targets}

SentFor(rw, g) == rw.sent >= g

ExhaustedFor(rw, g) == rw.exhausted >= g

(* deliveryIsAuthorizedRecovery *)
AuthorizedRecovery(rw) ==
    /\ rw.delivery # None
    /\ rw.delivery.recovery # None
    /\ rw.recovery # None
    /\ rw.recovery.request = rw.delivery.request
    /\ rw.recovery.id = rw.delivery.recovery

(* Mutant: an idle record is not woken for. *)
NextAlarmForWork(rw, t) ==
    LET d == rw.delivery
        ends == {rw.retention} \cup {rw.subs[a].expiresAt : a \in Subscribed(rw)}
    IN  CASE d = None -> Never
          [] d # None /\ (t >= d.expiresAt \/ (d.attempt # None /\ d.attempt.status = "pending")) -> t
          [] OTHER -> Min(ends \cup {d.expiresAt} \cup
                          {x.next : x \in {y \in {d.attempt} \ {None} : y.status = "retrying"}})

NextAlarm(rw, t) ==
    LET d == rw.delivery
        ends == {rw.retention} \cup {rw.subs[a].expiresAt : a \in Subscribed(rw)}
    IN  CASE d = None -> Min(ends)
          [] d # None /\ (t >= d.expiresAt \/ (d.attempt # None /\ d.attempt.status = "pending")) -> t
          [] OTHER -> Min(ends \cup {d.expiresAt} \cup
                          {x.next : x \in {y \in {d.attempt} \ {None} : y.status = "retrying"}})

-----------------------------------------------------------------------------
(* Operations.  An operation writes the rows, sets the alarm, and attempts    *)
(* the delivery, or ends.                                                     *)
Idle == [at |-> "idle", call |-> "none", then |-> "idle", time |-> 0, outcome |-> "none"]

At(step) == work.at = step

SameDelivery(d, e) ==
    d # None /\ e # None /\ d.request = e.request /\ d.queuedAt = e.queuedAt
    /\ d.recovery = e.recovery

Write(rw) ==
    /\ rows' = rw
    /\ target' = IF rows # None /\ SameDelivery(rows.delivery, rw.delivery) THEN target ELSE {}
    /\ gone' = IF rows = None THEN gone ELSE gone \cup (Tokens(rows) \ Tokens(rw))

(* An alarm's handler looks at the rows once more. *)
Afterwards == IF work.call = "alarm" THEN "end" ELSE "idle"

(* persistAndSchedule at time t, at the end of attemptDelivery *)
Persist(rw, t) ==
    /\ Write(rw)
    /\ work' = [work EXCEPT !.at = "schedule", !.then = Afterwards, !.time = t, !.outcome = "none"]
    /\ UNCHANGED <<world, alarm, crashes, stranded>>

(* The same for a call, whose last write it is, or which goes on to attempt.  *)
Start(call, rw, then) ==
    /\ Write(rw)
    /\ work' = [Idle EXCEPT !.at = "schedule", !.call = call, !.then = then, !.time = now]
    /\ UNCHANGED <<world, alarm, crashes, told, stranded>>

Schedule ==
    /\ At("schedule")
    /\ alarm' = NextAlarm(rows, work.time)
    /\ work' = IF work.then = "idle" THEN Idle ELSE [work EXCEPT !.at = work.then]
    /\ UNCHANGED <<world, rows, crashes, history, stranded>>

Current == IF rows = None THEN EmptyState(now) ELSE rows

Serves == At("idle") /\ now <= LastCall /\ config.mode # "off"

(* The /event path: a webhook the host has signed, in any order and again. *)
EnableToken(token) ==
    LET a  == AppOf[token]
        e  == <<"enabled", token>>
        rw == WithSeenEvent(Current, e)
        subscribed ==
            [(IF rw.subs[a] # None /\ rw.subs[a].token # token THEN Unsubscribed(rw, a) ELSE rw)
             EXCEPT !.subs[a] = [token |-> token, enabledAt |-> now,
                                 expiresAt |-> now + SubscriptionLife],
                    !.retention = IF @ > now + SubscriptionLife THEN @ ELSE now + SubscriptionLife]
    IN  /\ Serves
        /\ config.mode = "on"
        /\ a \in config.clients
        /\ e \notin ToSet(Current.seen)
        /\ IF token \in ToSet(rw.revoked) THEN Start("event", rw, "idle")
           ELSE \E x \in Attached(subscribed) :
                  Start("event", x, IF x.delivery = None THEN "idle" ELSE "attempt")

DisableApp(a) ==
    LET e  == <<"disabled", a>>
        rw == Unsubscribed(WithSeenEvent(Current, e), a)
    IN  /\ Serves
        /\ Current.subs[a] # None
        /\ e \notin ToSet(Current.seen)
        /\ Start("event", [rw EXCEPT !.retention = IF @ > now + SubscriptionLife
                                                   THEN @ ELSE now + SubscriptionLife], "idle")

StatedTimes == {t \in (now - Skew)..(now + Skew) : t >= 0}

(* The /queue path, for a request the bridge has seen in the realm. *)
QueueAdmission(g) ==
    LET rw == Current
        d  == rw.delivery
        known == d # None /\ d.request = g
    IN  /\ Serves
        /\ config.mode = "on"
        /\ ~SentFor(rw, g)
        /\ ~ExhaustedFor(rw, g) \/ AuthorizedRecovery(rw)
        /\ d # None => g >= d.request
        /\ \E t \in StatedTimes :
           \E x \in Attached(IF known THEN rw ELSE [rw EXCEPT !.delivery = NewDelivery(g, t, None)]) :
              Start("queue", x, "attempt")

(* Mutant: the time of the recovery is the object's. *)
RecoveryNow(g, id, t) == [request |-> g, id |-> id, at |-> now]

RecoveryOf(g, id, t) == [request |-> g, id |-> id, at |-> t]

(* The /recover path: a request that ended without a delivery is tried once   *)
(* more, under an identifier that can be repeated.                            *)
RecoverAdmission(g, id) ==
    LET pruned == Prune(rows, now)
        idleDelivery == rows.delivery # None =>
                           /\ rows.delivery.request = g
                           /\ \A x \in {rows.delivery.attempt} \ {None} : x.status \in {"sent", "exhausted"}
    IN  /\ Serves
        /\ config.mode = "on"
        /\ rows # None
        /\ ~SentFor(rows, g)
        /\ rows.recovery # None => rows.recovery.request < g
        /\ rows.exhausted = g
        /\ idleDelivery
        /\ IF Subscribed(pruned) = {}
           THEN pruned # rows /\ Start("recover", pruned, "idle")
           ELSE \E t \in StatedTimes :
                \E x \in Attached([pruned EXCEPT !.recovery = RecoveryOf(g, id, t),
                                                 !.delivery = NewDelivery(g, t, id)]) :
                   Start("recover", x, "attempt")

RepeatRecovery(g, id) ==
    /\ Serves
    /\ config.mode = "on"
    /\ rows # None
    /\ ~SentFor(rows, g)
    /\ rows.recovery # None /\ rows.recovery.request = g /\ rows.recovery.id = id
    /\ rows.delivery # None /\ rows.delivery.request = g
    /\ work' = [Idle EXCEPT !.at = "attempt", !.call = "recover"]
    /\ UNCHANGED <<world, rows, alarm, crashes, history, stranded>>

-----------------------------------------------------------------------------
(* attemptDelivery *)

Cleared(rw) == [rw EXCEPT !.delivery = None]

Larger(m, n) == IF m > n THEN m ELSE n

WithExhausted(rw) == [rw EXCEPT !.exhausted = Larger(@, rw.delivery.request)]

(* Mutant: the receipt is left to the delivery that is kept. *)
SentUnrecorded(rw) == rw

WithSent(rw) == [rw EXCEPT !.sent = Larger(@, rw.delivery.request)]

(* A receipt ends the delivery, unless it is the recovery of that receipt. *)
Settled(rw) ==
    LET g == rw.delivery.request
    IN  SentFor(rw, g) \/ (ExhaustedFor(rw, g) /\ ~AuthorizedRecovery(rw))

Over(rw) == IF rw.delivery.attempt # None /\ rw.delivery.attempt.status = "exhausted"
            THEN Cleared(WithExhausted(rw)) ELSE Cleared(rw)

HasTarget(rw) ==
    LET x == rw.delivery.attempt IN rw.subs[x.app] # None /\ rw.subs[x.app].token = x.token

(* Once a target was chosen, losing it ends the request. *)
Retired(rw) ==
    WithExhausted([rw EXCEPT !.delivery.attempt =
        [@ EXCEPT !.status = "exhausted", !.failures = 0, !.next = Never]])

DueNow(x) == x.status = "pending" \/ (x.status = "retrying" /\ x.next <= now)

(* A terminal attempt leaves its receipt whenever it is looked at. *)
Restated(rw) ==
    LET x == rw.delivery.attempt IN
    CASE x # None /\ x.status = "sent"      -> WithSent(rw)
      [] x # None /\ x.status = "exhausted" -> WithExhausted(rw)
      [] OTHER                              -> rw

AttemptDelivery ==
    LET pruned == Prune(rows, now)
        d == pruned.delivery
    IN  /\ At("attempt")
        /\ told' = told
        /\ CASE d = None /\ pruned = rows ->
                  /\ work' = IF Afterwards = "idle" THEN Idle ELSE [work EXCEPT !.at = Afterwards]
                  /\ UNCHANGED <<world, rows, alarm, crashes, target, gone, stranded>>
             [] d = None /\ pruned # rows -> Persist(pruned, now)
             [] d # None /\ (Settled(pruned) \/ (now < d.expiresAt /\ config.mode = "paused")) ->
                  Persist(Cleared(pruned), now)
             [] d # None /\ ~Settled(pruned) /\ now >= d.expiresAt -> Persist(Over(pruned), now)
             [] OTHER ->
                  \E rw \in Attached(pruned) :
                    LET x == rw.delivery.attempt IN
                    CASE x # None /\ ~HasTarget(rw) -> Persist(Retired(rw), now)
                      [] x # None /\ HasTarget(rw) /\ DueNow(x) ->
                           /\ work' = [work EXCEPT !.at = "verify", !.time = now, !.outcome = x]
                           /\ UNCHANGED <<world, rows, alarm, crashes, target, gone, stranded>>
                      [] OTHER -> Persist(Restated(rw), now)

(* The rows the operation goes on with, at the time it has read; x is the     *)
(* attempt that is under way.                                                 *)
Base == [Prune(rows, work.time) EXCEPT !.delivery.attempt = work.outcome]

Delay(n) == RetryDelays[IF n < Len(RetryDelays) THEN n ELSE Len(RetryDelays)]

Later(n) == LET t == work.time + Delay(n)
            IN  IF t < rows.delivery.expiresAt THEN t ELSE rows.delivery.expiresAt

(* The realm is asked whether the player still waits for this very request;   *)
(* when it cannot be asked, no attempt is spent.                              *)
VerifyRequest ==
    LET x == work.outcome
        failures == IF x.failures < MaxFailures THEN x.failures + 1 ELSE MaxFailures
        deferred == [x EXCEPT !.status = "retrying", !.failures = failures, !.next = Later(failures)]
    IN  /\ At("verify")
        /\ told' = told
        /\ \/ Persist([Base EXCEPT !.delivery.attempt = deferred], work.time)
           \/ pending # rows.delivery.request /\ Persist(Cleared(rows), work.time)
           \/ /\ pending = rows.delivery.request
              /\ work' = [work EXCEPT !.at = "send"]
              /\ UNCHANGED <<world, rows, alarm, crashes, target, gone, stranded>>

(* sendOne: the host may take the notice whatever it answers. *)
SendOne ==
    /\ At("send")
    /\ target' = target \cup {work.outcome.token}
    /\ \E result \in {"successful", "invalid", "terminal", "retryable"} :
         work' = [work EXCEPT !.at = "store", !.then = result]
    /\ UNCHANGED <<world, rows, alarm, crashes, gone, told, stranded>>

Ended(x) == [x EXCEPT !.status = "exhausted", !.failures = 0, !.next = Never,
                      !.attempts = IF @ < MaxAttempts THEN @ + 1 ELSE MaxAttempts]

Retried(x) ==
    IF x.attempts + 1 >= MaxAttempts THEN Ended(x)
    ELSE [x EXCEPT !.status = "retrying", !.attempts = @ + 1, !.failures = 0,
                   !.next = Later(x.attempts + 1)]

StoreOutcome ==
    LET x == work.outcome
        with(y) == [Base EXCEPT !.delivery.attempt = y]
    IN  /\ At("store")
        /\ told' = IF work.then = "successful" THEN told \cup {rows.delivery.request} ELSE told
        /\ CASE work.then = "successful" ->
                  Persist(WithSent(with([x EXCEPT !.status = "sent", !.attempts = @ + 1,
                                                  !.failures = 0, !.next = Never])), work.time)
             [] work.then = "invalid" ->
                  Persist(WithExhausted(Unsubscribed(with(None), x.app)), work.time)
             [] work.then = "terminal" -> Persist(WithExhausted(with(Ended(x))), work.time)
             [] work.then = "retryable" -> Persist(Restated(with(Retried(x))), work.time)

-----------------------------------------------------------------------------
(* The alarm.  The platform takes it away when it calls the handler, and      *)
(* calls the handler again when it fails.                                     *)
Purge ==
    /\ rows' = None
    /\ alarm' = Never
    /\ target' = {} /\ gone' = {} /\ told' = {}

NothingLeft(rw) ==
    /\ rw.delivery = None
    /\ Subscribed(rw) = {}
    /\ rw.revoked = <<>>
    /\ rw.sent = 0 /\ rw.exhausted = 0

(* Without a configuration the object only keeps itself awake. *)
WakeWithoutConfig(rw) ==
    IF rw.delivery = None THEN rw.retention
    ELSE Min({rw.delivery.expiresAt, rw.retention, now + RetryDelays[1]})

HandleAlarm ==
    /\ At("idle")
    /\ alarm # Never /\ alarm <= now
    /\ CASE rows = None \/ (rows # None /\ now >= rows.retention) -> Purge /\ work' = Idle
         [] rows # None /\ now < rows.retention /\ config.mode = "off" ->
              /\ alarm' = WakeWithoutConfig(rows)
              /\ UNCHANGED <<rows, work, history>>
         [] OTHER ->
              /\ alarm' = Never
              /\ work' = [Idle EXCEPT !.at = "attempt", !.call = "alarm", !.time = now]
              /\ UNCHANGED <<rows, history>>
    /\ UNCHANGED <<world, crashes, stranded>>

End ==
    /\ At("end")
    /\ work' = Idle
    /\ IF work.call = "alarm" /\ NothingLeft(rows) THEN Purge
       ELSE UNCHANGED <<rows, alarm, history>>
    /\ UNCHANGED <<world, crashes, stranded>>

(* An eviction while an operation runs. *)
Crash ==
    /\ ~At("idle")
    /\ crashes < MaxCrashes
    /\ crashes' = crashes + 1
    /\ work' = Idle
    /\ alarm' = IF work.call = "alarm" /\ alarm = Never THEN work.time ELSE alarm
    /\ stranded' = (stranded \/ (work.call # "alarm" /\ At("schedule")))
    /\ UNCHANGED <<world, rows, history>>

-----------------------------------------------------------------------------
(* The environment. *)
RequestAccess ==
    /\ asked < MaxRequest
    /\ asked' = asked + 1
    /\ pending' = asked'
    /\ UNCHANGED <<now, config, rows, alarm, work, deploys, crashes, history, stranded>>

(* The player is admitted, or the request is withdrawn. *)
EndRequest ==
    /\ pending # 0
    /\ pending' = 0
    /\ UNCHANGED <<now, config, asked, rows, alarm, work, deploys, crashes, history, stranded>>

Deploy ==
    /\ At("idle")
    /\ deploys < MaxDeploys
    /\ deploys' = deploys + 1
    /\ config' \in [mode : {"on", "paused", "off"}, clients : SUBSET App]
    /\ config' # config
    /\ UNCHANGED <<now, pending, asked, rows, alarm, work, crashes, history, stranded>>

(* Time passes while the object waits for the network or for nothing.         *)
Tick ==
    /\ now < MaxTime
    /\ work.at \in {"idle", "verify", "send"}
    /\ now' = now + 1
    /\ UNCHANGED <<config, pending, asked, rows, alarm, work, deploys, crashes, history, stranded>>

-----------------------------------------------------------------------------
Init ==
    /\ now = 0
    /\ config = [mode |-> "on", clients |-> App]
    /\ pending = 0 /\ asked = 0
    /\ rows = None
    /\ alarm = Never
    /\ work = Idle
    /\ deploys = 0 /\ crashes = 0
    /\ target = {} /\ gone = {} /\ told = {}
    /\ stranded = FALSE

Calls ==
    \/ \E token \in Token : EnableToken(token)
    \/ \E a \in App : DisableApp(a)
    \/ \E g \in 1..asked : QueueAdmission(g)
    \/ \E g \in 1..asked, id \in RecoveryId : RecoverAdmission(g, id) \/ RepeatRecovery(g, id)

Work == Schedule \/ AttemptDelivery \/ VerifyRequest \/ SendOne \/ StoreOutcome \/ End

Next ==
    \/ Calls \/ Work \/ HandleAlarm \/ Crash
    \/ RequestAccess \/ EndRequest \/ Deploy \/ Tick

Spec == Init /\ [][Next]_vars

(* The clock runs, an operation that was started goes on until it is evicted, *)
(* and the platform delivers the alarm.                                       *)
FairSpec == Spec /\ SF_vars(Tick) /\ WF_vars(Work) /\ WF_vars(HandleAlarm)

-----------------------------------------------------------------------------
(* Every stored pair of records is one readState and readPendingState accept; *)
(* of any other the object would throw for good, its alarm included.          *)
LoadsBack(rw) ==
    LET d == rw.delivery
        x == d.attempt
        rec == rw.recovery
    IN  /\ rec # None => rw.exhausted >= rec.request
        /\ d # None =>
              /\ d.expiresAt = d.queuedAt + DeliveryLife
              /\ rec # None /\ rec.request = d.request => d.recovery = rec.id /\ d.queuedAt = rec.at
              /\ d.recovery # None => rec # None /\ rec.request = d.request
              /\ x # None => (x.status = "retrying" <=> x.next # Never)

TypeOK ==
    /\ now \in 0..MaxTime /\ pending \in 0..asked /\ asked \in 0..MaxRequest
    /\ alarm \in Nat \cup {Never}
    /\ work.at \in {"idle", "schedule", "attempt", "verify", "send", "store", "end"}
    /\ rows # None =>
         /\ rows \in State
         /\ Len(rows.seen) <= MaxSeen /\ Len(rows.revoked) <= MaxRevoked
         /\ {rows.sent, rows.exhausted} \subseteq 0..asked
         /\ \A a \in Subscribed(rows) : AppOf[rows.subs[a].token] = a
         /\ LoadsBack(rows)

Sends == At("send") /\ work'.at = "store"

(* No notice is sent with a token the player or the host has taken back, even *)
(* when late copies of the webhooks arrive, as long as the tombstones have    *)
(* room for every token: at its limit the code forgets the oldest.  And a     *)
(* delivery that no operator has recovered is sent to one token, however      *)
(* tokens come and go (attemptsForSubscriptions, withRevokedTokenIds).        *)
OneLiveTarget ==
    [][Sends =>
          /\ work.outcome.token \notin gone
          /\ rows.delivery.recovery = None => target \subseteq {work.outcome.token}]_vars

(* A receipt is final: a request that is stored as delivered is not sent      *)
(* again, and one that is stored as exhausted only under a recovery, until    *)
(* the record is purged (attemptDelivery, the guards of queue and recover).   *)
ReceiptsWin ==
    [][Sends =>
          /\ rows.delivery.request \notin told
          /\ ExhaustedFor(rows, rows.delivery.request) => AuthorizedRecovery(rows)]_vars

(* Nothing stays for ever, whatever the configuration is: the record is       *)
(* purged in the end; when an operation was evicted, at least its delivery    *)
(* ends, unless a call was evicted between its rows and its alarm             *)
(* (nextAlarmAt, handleAlarm).                                                *)
DeliveryEnded == rows = None \/ rows.delivery = None \/ stranded

NothingStays ==
    (rows # None /\ (crashes = 0 \/ ~DeliveryEnded))
        ~> (rows = None \/ (crashes > 0 /\ DeliveryEnded))
=============================================================================

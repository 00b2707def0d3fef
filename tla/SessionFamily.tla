--------------------------- MODULE SessionFamily ----------------------------
(* The browser session of one player in the auth bridge: the session family   *)
(* (a Durable Object, src/sessionFamily.ts), the handlers of app.ts that      *)
(* refresh it, read its access status and log it out, the cookie jar of the   *)
(* browser, and the admission the bridge looks up in the realm's database.    *)
(*                                                                            *)
(* A Durable Object runs one request at a time, so each of its operations is  *)
(* one step; a handler of the bridge awaits the family, the database and the  *)
(* family again, and any number of handlers interleave between these steps.   *)
(* Sign-in creates a family under a fresh id: the model is the life of one    *)
(* family.  Requests of a foreign origin never reach it.                      *)
EXTENDS Integers, Sequences

CONSTANTS
    None,            \* undefined
    Request,         \* requests of the browser that run at the same time
    Ttl,             \* SESSION_FAMILY_TTL_SECONDS
    Grace,           \* ROTATION_RECOVERY_GRACE_MILLISECONDS
    MaxGeneration,   \* MAX_GENERATION
    MaxEpoch,        \* BOUND on the epochs of the admission (MAX_AUTH_EPOCH)
    MaxTime,         \* BOUND on the clock
    MaxLost          \* BOUND on the replies that get lost

ASSUME SessionFamilyAssumption ==
    /\ {Ttl, Grace, MaxTime, MaxLost} \subseteq Nat
    /\ {MaxGeneration, MaxEpoch} \subseteq Nat \ {0}
    /\ Ttl > 0

VARIABLES
    now,        \* the clock
    allowed,    \* the row of the player in allowed_fid
    family,     \* the record of the Durable Object, None when there is none
    requests,   \* what the handlers have found out so far
    jar,        \* the generation in the browser's cookie, 0 without a cookie
    rotations,  \* history: when each generation was superseded
    loggedOut,  \* history: whether a logout has revoked the family
    overlap,    \* history: whether two requests were ever under way at once
    lost        \* how many replies got lost

vars == <<now, allowed, family, requests, jar, rotations, loggedOut, overlap, lost>>

-----------------------------------------------------------------------------
Epoch == 1..MaxEpoch

Generation == 1..MaxGeneration

Admission == [state : {"missing", "disabled"}, authEpoch : {0}]
                \cup [state : {"enabled"}, authEpoch : Epoch]

(* resolveAuthResolverAdmission *)
Resolution ==
    IF allowed = None THEN [state |-> "missing", authEpoch |-> 0]
    ELSE IF ~allowed.enabled THEN [state |-> "disabled", authEpoch |-> 0]
    ELSE [state |-> "enabled", authEpoch |-> allowed.authEpoch]

(* What isSessionFamilyRecord accepts. *)
Family ==
    {f \in [state : {"pending", "bound"}, authEpoch : 0..MaxEpoch,
            pendingAdmissionState : {None, "missing", "disabled"},
            current : Generation, previous : 0..MaxGeneration,
            graceUntil : 0..(MaxTime + Ttl), expiresAt : 1..(MaxTime + Ttl)] :
        /\ f.state = "pending" <=> f.authEpoch = 0
        /\ f.state = "bound" => f.pendingAdmissionState = None
        /\ f.previous # 0 => f.previous = f.current - 1
        /\ f.graceUntil <= f.expiresAt}

(* sessionFamilyRecord: the family a sign-in leaves behind. *)
NewFamily(admission) ==
    [state |-> IF admission.state = "enabled" THEN "bound" ELSE "pending",
     authEpoch |-> admission.authEpoch,
     pendingAdmissionState |-> IF admission.state = "enabled" THEN None ELSE admission.state,
     current |-> 1, previous |-> 0, graceUntil |-> 0, expiresAt |-> now + Ttl]

-----------------------------------------------------------------------------
(* The family. *)
Expired(f, time) == time >= f.expiresAt

(* The generations that still refer to the family. *)
Refers(f, presented, time) ==
    \/ presented = f.current
    \/ presented = f.previous /\ time <= f.graceUntil

Matches(f, presented, time) == ~Expired(f, time) /\ Refers(f, presented, time)

(* Mutant: a family that is bound has been admitted for good. *)
AdmitsOnceBound(f, admission) ==
    f.state = "bound" \/ admission.state \in {"enabled", f.pendingAdmissionState}

(* Whether the family may follow the admission (pendingSessionAdmissionMatches *)
(* for a pending one).                                                        *)
Admits(f, admission) ==
    IF f.state = "bound" THEN admission.authEpoch = f.authEpoch
    ELSE admission.state \in {"enabled", f.pendingAdmissionState}

(* Mutant: the tag of the pending family is left behind. *)
BindKeepsTag(f, admission) ==
    IF admission.state # "enabled" THEN f
    ELSE [f EXCEPT !.state = "bound", !.authEpoch = admission.authEpoch]

Bind(f, admission) ==
    IF admission.state # "enabled" THEN f
    ELSE [f EXCEPT !.state = "bound", !.authEpoch = admission.authEpoch,
                   !.pendingAdmissionState = None]

Rotate(f, time) ==
    [f EXCEPT !.current = @ + 1, !.previous = f.current,
              !.graceUntil = IF time + Grace < f.expiresAt THEN time + Grace ELSE f.expiresAt]

(* Mutant: the recovery of a lost reply rotates like any other refresh. *)
RotatesAlways(f, presented) == f.current < MaxGeneration

Rotates(f, presented) == presented = f.current /\ f.current < MaxGeneration

Recovers(f, presented) == presented = f.previous

(* transitionSessionFamily: the new record, None when the family is revoked.  *)
Transition(f, presented, admission, time) ==
    IF ~Matches(f, presented, time) \/ ~Admits(f, admission) THEN None
    ELSE IF Rotates(f, presented) THEN Rotate(Bind(f, admission), time)
    ELSE IF Recovers(f, presented) THEN Bind(f, admission)
    ELSE None

-----------------------------------------------------------------------------
(* The handlers. *)
Idle == [step |-> "idle", kind |-> None, presented |-> 0, existing |-> None,
         admission |-> None, stamp |-> 0, cookie |-> 0, held |-> {}]

EnabledEpochs(row) == IF row # None /\ row.enabled THEN {row.authEpoch} ELSE {}

Send(r, kind) ==
    /\ requests[r] = Idle
    /\ jar # 0
    /\ requests' = [requests EXCEPT ![r] =
          [Idle EXCEPT !.step = IF kind = "logout" THEN "revoke" ELSE "get", !.kind = kind,
                       !.presented = jar, !.held = EnabledEpochs(allowed)]]
    /\ overlap' = (overlap \/ \E q \in Request : requests[q] # Idle)
    /\ UNCHANGED <<now, allowed, family, jar, rotations, loggedOut, lost>>

(* The reply sets the cookie, or expires it (0). *)
ReplyWith(r, cookie) ==
    requests' = [requests EXCEPT ![r] = [Idle EXCEPT !.step = "reply", !.cookie = cookie]]

(* The family is read; an expired one is deleted.  The status handler checks  *)
(* the reference it was given and does not revoke on a bad one.               *)
GetFamily(r) ==
    /\ requests[r].step = "get"
    /\ family' = IF family # None /\ Expired(family, now) THEN None ELSE family
    /\ IF \/ family' = None
          \/ requests[r].kind = "status" /\ ~Matches(family, requests[r].presented, now)
       THEN ReplyWith(r, 0)
       ELSE requests' = [requests EXCEPT ![r].step = "resolve", ![r].existing = family]
    /\ UNCHANGED <<now, allowed, jar, rotations, loggedOut, overlap, lost>>

(* The admission is looked up.  The status handler decides on the record it   *)
(* read before: a family that cannot follow the admission is revoked.         *)
ResolveAdmission(r) ==
    /\ requests[r].step = "resolve"
    /\ requests' = [requests EXCEPT ![r] =
          IF requests[r].kind = "refresh"
          THEN [@ EXCEPT !.step = "stamp", !.admission = Resolution]
          ELSE IF Admits(requests[r].existing, Resolution) THEN Idle
          ELSE [@ EXCEPT !.step = "revoke"]]
    /\ UNCHANGED <<now, allowed, family, jar, rotations, loggedOut, overlap, lost>>

(* refreshTime, read when the admission has arrived. *)
StampRefresh(r) ==
    /\ requests[r].step = "stamp"
    /\ requests' = [requests EXCEPT ![r].step = "refresh", ![r].stamp = now]
    /\ UNCHANGED <<now, allowed, family, jar, rotations, loggedOut, overlap, lost>>

(* Mutant: the record is the one the handler has read, not the stored one. *)
RecordRead(r) == requests[r].existing

Record(r) == family

(* The transaction of the Durable Object. *)
Refresh(r) ==
    LET q     == requests[r]
        after == IF Record(r) = None THEN None
                 ELSE Transition(Record(r), q.presented, q.admission, q.stamp)
    IN  /\ q.step = "refresh"
        /\ family' = after
        /\ ReplyWith(r, IF after = None THEN 0 ELSE after.current)
        /\ rotations' = IF after # None /\ after.current > Len(rotations) + 1
                        THEN Append(rotations, q.stamp) ELSE rotations
        /\ UNCHANGED <<now, allowed, jar, loggedOut, overlap, lost>>

(* revoke(), for a logout and for a family whose admission is gone. *)
Revoke(r) ==
    /\ requests[r].step = "revoke"
    /\ family' = None
    /\ loggedOut' = (loggedOut \/ requests[r].kind = "logout")
    /\ ReplyWith(r, 0)
    /\ UNCHANGED <<now, allowed, jar, rotations, overlap, lost>>

(* The family or the database cannot be reached.  A revocation that fails     *)
(* still expires the cookie.                                                  *)
Unavailable(r) ==
    /\ requests[r].step \in {"get", "resolve", "refresh", "revoke"}
    /\ IF requests[r].step = "revoke" THEN ReplyWith(r, 0)
       ELSE requests' = [requests EXCEPT ![r] = Idle]
    /\ UNCHANGED <<now, allowed, family, jar, rotations, loggedOut, overlap, lost>>

(* The browser stores what the reply says, whatever it has stored since the   *)
(* request was sent; or the reply gets lost.                                  *)
Reply(r) ==
    /\ requests[r].step = "reply"
    /\ jar' = requests[r].cookie
    /\ requests' = [requests EXCEPT ![r] = Idle]
    /\ UNCHANGED <<now, allowed, family, rotations, loggedOut, overlap, lost>>

LoseReply(r) ==
    /\ requests[r].step = "reply"
    /\ lost < MaxLost
    /\ lost' = lost + 1
    /\ requests' = [requests EXCEPT ![r] = Idle]
    /\ UNCHANGED <<now, allowed, family, jar, rotations, loggedOut, overlap>>

-----------------------------------------------------------------------------
(* The environment. *)
Alarm ==
    /\ family # None
    /\ Expired(family, now)
    /\ family' = None
    /\ UNCHANGED <<now, allowed, requests, jar, rotations, loggedOut, overlap, lost>>

SetAllowed(row) ==
    /\ allowed' = row
    /\ requests' = [r \in Request |->
          IF requests[r] = Idle THEN Idle ELSE [requests[r] EXCEPT !.held = @ \cup EnabledEpochs(row)]]
    /\ UNCHANGED <<now, family, jar, rotations, loggedOut, overlap, lost>>

(* planAllowFid *)
AllowFid ==
    \/ allowed = None /\ SetAllowed([enabled |-> TRUE, authEpoch |-> 1])
    \/ /\ allowed # None
       /\ ~allowed.enabled
       /\ allowed.authEpoch < MaxEpoch
       /\ SetAllowed([enabled |-> TRUE, authEpoch |-> allowed.authEpoch + 1])

DisableFid ==
    /\ allowed # None
    /\ allowed.enabled
    /\ SetAllowed([allowed EXCEPT !.enabled = FALSE])

BumpAuthEpoch ==
    /\ allowed # None
    /\ allowed.authEpoch < MaxEpoch
    /\ SetAllowed([allowed EXCEPT !.authEpoch = @ + 1])

Tick ==
    /\ now < MaxTime
    /\ now' = now + 1
    /\ UNCHANGED <<allowed, family, requests, jar, rotations, loggedOut, overlap, lost>>

-----------------------------------------------------------------------------
(* The family has just been created and its cookie is in the browser. *)
Init ==
    /\ now = 0
    /\ allowed \in {None} \cup [enabled : BOOLEAN, authEpoch : {1}]
    /\ family = NewFamily(Resolution)
    /\ requests = [r \in Request |-> Idle]
    /\ jar = 1
    /\ rotations = <<>>
    /\ loggedOut = FALSE
    /\ overlap = FALSE
    /\ lost = 0

Handle(r) ==
    \/ \E kind \in {"refresh", "status", "logout"} : Send(r, kind)
    \/ GetFamily(r) \/ ResolveAdmission(r) \/ StampRefresh(r) \/ Refresh(r) \/ Revoke(r)
    \/ Unavailable(r) \/ Reply(r) \/ LoseReply(r)

Next ==
    \/ \E r \in Request : Handle(r)
    \/ Alarm \/ AllowFid \/ DisableFid \/ BumpAuthEpoch \/ Tick

Spec == Init /\ [][Next]_vars

-----------------------------------------------------------------------------
(* In particular the record is always one that isSessionFamilyRecord accepts: *)
(* a record it rejects is a player who is logged out.                         *)
TypeOK ==
    /\ now \in 0..MaxTime
    /\ allowed \in {None} \cup [enabled : BOOLEAN, authEpoch : Epoch]
    /\ family = None \/ family \in Family
    /\ \A r \in Request :
          /\ requests[r].step \in {"idle", "get", "resolve", "stamp", "refresh", "revoke", "reply"}
          /\ requests[r].kind \in {None, "refresh", "status", "logout"}
          /\ requests[r].presented \in 0..MaxGeneration
          /\ requests[r].existing = None \/ requests[r].existing \in Family
          /\ requests[r].admission \in {None} \cup Admission
          /\ requests[r].stamp \in 0..MaxTime
          /\ requests[r].cookie \in 0..MaxGeneration
          /\ requests[r].held \subseteq Epoch
    /\ jar \in 0..MaxGeneration
    /\ rotations \in Seq(0..MaxTime)
    /\ loggedOut \in BOOLEAN
    /\ overlap \in BOOLEAN
    /\ lost \in 0..MaxLost

(* The refresh of r succeeds. *)
Granted(r) == requests[r].step = "refresh" /\ Refresh(r) /\ family' # None

(* A generation has one successor.  However many requests present it, the     *)
(* first to arrive rotates the family, and the others get the same successor  *)
(* as long as they come within the grace of that rotation and nobody has      *)
(* moved on since; after that it is worth nothing (transitionSessionFamily).  *)
OneSuccessor ==
    [][\A r \in Request : Granted(r) =>
          LET presented == requests[r].presented
          IN  /\ family'.current = presented + 1
              /\ presented <= Len(rotations) =>
                    /\ presented = Len(rotations)
                    /\ requests[r].stamp <= rotations[presented] + Grace]_vars

(* A token names an epoch that was the player's enabled admission at some     *)
(* moment while the request for it ran: no handler mints for an admission     *)
(* that ended before (the refresh handler and transitionSessionFamily).       *)
EpochWasHeld ==
    [][\A r \in Request : Granted(r) /\ family'.state = "bound" =>
          family'.authEpoch \in requests[r].held]_vars

(* A family binds once: it never adopts another epoch and never becomes       *)
(* pending again (transitionSessionFamily).  And once a logout has revoked it *)
(* nothing brings it back, no request that was under way either (revoke and   *)
(* the transaction of a refresh).                                             *)
OnlyForward ==
    [][/\ (family # None /\ family.state = "bound" /\ family' # None)
             => (family'.state = "bound" /\ family'.authEpoch = family.authEpoch)
       /\ loggedOut => family' = None]_vars

(* A browser that makes one request at a time is never more than one          *)
(* generation behind, whatever replies it loses: the grace can always         *)
(* recover it.                                                                *)
OneBehindAtMost ==
    (~overlap /\ family # None /\ jar # 0) => family.current - jar \in {0, 1}

(* As documented, a bound family is revoked by a refresh that refers to it in *)
(* time only if the admission has ended or its epoch has changed.             *)
RevokedOnMismatch ==
    [][\A r \in Request :
          (/\ family # None
           /\ family.state = "bound"
           /\ family.current < MaxGeneration
           /\ Refresh(r)
           /\ family' = None
           /\ Matches(family, requests[r].presented, requests[r].stamp))
          => Resolution # [state |-> "enabled", authEpoch |-> family.authEpoch]]_vars
=============================================================================

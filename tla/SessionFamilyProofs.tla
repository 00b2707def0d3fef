------------------------- MODULE SessionFamilyProofs -------------------------
(* A session family for any number of concurrent requests, generations and    *)
(* epochs: it is type-correct, a generation has one successor, a token's      *)
(* epoch was held, the family only moves forward, and a browser that makes    *)
(* one request at a time is at most one generation behind.                    *)
(*                                                                            *)
(* The argument: rotations records one time per superseded generation, so its *)
(* length numbers the current one (FamilyOK), and a request carries with it   *)
(* the epochs that were enabled since it was sent, of which the admission it  *)
(* resolves is one (RequestOK).  For the single browser BehindInv adds what a *)
(* request presents and what its reply will store.                            *)
EXTENDS SessionFamily, TLAPS

-----------------------------------------------------------------------------
(* Transitions of the record. *)

IsFamily(f) ==
    f = [state |-> f.state, authEpoch |-> f.authEpoch,
         pendingAdmissionState |-> f.pendingAdmissionState, current |-> f.current,
         previous |-> f.previous, graceUntil |-> f.graceUntil, expiresAt |-> f.expiresAt]

Fields(f) ==
    /\ f.state \in {"pending", "bound"}
    /\ f.authEpoch \in 0..MaxEpoch
    /\ f.pendingAdmissionState \in {None, "missing", "disabled"}
    /\ f.current \in Generation
    /\ f.previous \in 0..MaxGeneration
    /\ f.graceUntil \in 0..(MaxTime + Ttl)
    /\ f.expiresAt \in 1..(MaxTime + Ttl)

Valid(f) ==
    /\ f.state = "pending" <=> f.authEpoch = 0
    /\ f.state = "bound" => f.pendingAdmissionState = None
    /\ f.previous # 0 => f.previous = f.current - 1
    /\ f.graceUntil <= f.expiresAt

LEMMA FamilyFields ==
    ASSUME NEW f
    PROVE  f \in Family <=> IsFamily(f) /\ Fields(f) /\ Valid(f)
<1>1. f \in Family => IsFamily(f) /\ Fields(f) /\ Valid(f)
      BY DEF Family, IsFamily, Fields, Valid
<1>2. ASSUME IsFamily(f), Fields(f), Valid(f)
      PROVE  f \in Family
  <2>1. f \in [state : {"pending", "bound"}, authEpoch : 0..MaxEpoch,
               pendingAdmissionState : {None, "missing", "disabled"},
               current : Generation, previous : 0..MaxGeneration,
               graceUntil : 0..(MaxTime + Ttl), expiresAt : 1..(MaxTime + Ttl)]
        BY <1>2 DEF IsFamily, Fields
  <2> QED BY <1>2, <2>1 DEF Family, Valid
<1> QED BY <1>1, <1>2

LEMMA BindFamily ==
    ASSUME NEW f \in Family, NEW a \in Admission, NEW n, n = Bind(f, a)
    PROVE  /\ n \in Family /\ n.current = f.current /\ n.previous = f.previous
           /\ n.graceUntil = f.graceUntil /\ n.expiresAt = f.expiresAt
           /\ a.state = "enabled" => n.state = "bound" /\ n.authEpoch = a.authEpoch
           /\ a.state # "enabled" => n = f
<1>1. CASE a.state # "enabled"
      BY <1>1 DEF Bind
<1>2. CASE a.state = "enabled"
  <2>1. a.authEpoch \in Epoch
        BY <1>2 DEF Admission
  <2>2. n = [f EXCEPT !.state = "bound", !.authEpoch = a.authEpoch, !.pendingAdmissionState = None]
        BY <1>2 DEF Bind
  <2>3. IsFamily(f) /\ Fields(f) /\ Valid(f)
        BY FamilyFields
  <2>4. /\ IsFamily(n) /\ n.state = "bound" /\ n.authEpoch = a.authEpoch
        /\ n.pendingAdmissionState = None /\ n.current = f.current /\ n.previous = f.previous
        /\ n.graceUntil = f.graceUntil /\ n.expiresAt = f.expiresAt
        BY <2>2, <2>3 DEF IsFamily
  <2>5. Fields(n) /\ Valid(n)
        BY <2>1, <2>3, <2>4, SessionFamilyAssumption DEF Fields, Valid, Epoch
  <2> QED BY <1>2, <2>4, <2>5, FamilyFields
<1> QED BY <1>1, <1>2

LEMMA RotateFamily ==
    ASSUME NEW f \in Family, f.current < MaxGeneration, NEW t \in 0..MaxTime, NEW n, n = Rotate(f, t)
    PROVE  /\ n \in Family /\ n.current = f.current + 1 /\ n.previous = f.current
           /\ n.graceUntil <= t + Grace /\ n.state = f.state /\ n.authEpoch = f.authEpoch
<1> DEFINE g == IF t + Grace < f.expiresAt THEN t + Grace ELSE f.expiresAt
           v == f.current + 1
           p == f.current
<1>1. n = [f EXCEPT !.current = v, !.previous = p, !.graceUntil = g]
      BY DEF Rotate
<1>2. IsFamily(f) /\ Fields(f) /\ Valid(f)
      BY FamilyFields
<1>3. g \in 0..(MaxTime + Ttl) /\ g <= f.expiresAt /\ g <= t + Grace
      BY <1>2, SessionFamilyAssumption DEF Fields
<1>4. v \in Generation /\ p \in 0..MaxGeneration /\ p = v - 1
      BY <1>2, SessionFamilyAssumption DEF Fields, Generation
<1> HIDE DEF g, v, p
<1>5. /\ IsFamily(n) /\ n.state = f.state /\ n.authEpoch = f.authEpoch
      /\ n.pendingAdmissionState = f.pendingAdmissionState /\ n.current = v /\ n.previous = p
      /\ n.graceUntil = g /\ n.expiresAt = f.expiresAt
      BY <1>1, <1>2 DEF IsFamily
<1>6. Fields(n) /\ Valid(n)
      BY <1>2, <1>3, <1>4, <1>5 DEF Fields, Valid
<1> QED BY <1>3, <1>5, <1>6, FamilyFields DEF v, p

(* What a refresh that succeeds leaves behind. *)
Succeeds(f, presented, a, t, n) ==
    /\ ~Expired(f, t) /\ Admits(f, a)
    /\ \/ /\ presented = f.current /\ n.current = f.current + 1 /\ n.previous = f.current
          /\ n.graceUntil <= t + Grace
       \/ /\ presented = f.previous /\ t <= f.graceUntil
          /\ n.current = f.current /\ n.previous = f.previous /\ n.graceUntil = f.graceUntil
    /\ IF a.state = "enabled" THEN n.state = "bound" /\ n.authEpoch = a.authEpoch
       ELSE n.state = f.state /\ n.authEpoch = f.authEpoch

LEMMA TransitionFamily ==
    ASSUME NEW f \in Family, NEW a \in Admission, NEW p, NEW t \in 0..MaxTime, NEW n,
           n = Transition(f, p, a, t)
    PROVE  n = None \/ (n \in Family /\ Succeeds(f, p, a, t, n))
<1>1. CASE ~Matches(f, p, t) \/ ~Admits(f, a)
      BY <1>1 DEF Transition
<1> DEFINE b == Bind(f, a)
<1>2. /\ b \in Family /\ b.current = f.current /\ b.previous = f.previous
      /\ b.graceUntil = f.graceUntil
      /\ a.state = "enabled" => b.state = "bound" /\ b.authEpoch = a.authEpoch
      /\ a.state # "enabled" => b = f
      BY BindFamily
<1>3. CASE Matches(f, p, t) /\ Admits(f, a) /\ Rotates(f, p)
  <2>1. n = Rotate(b, t)
        BY <1>3 DEF Transition
  <2>2. p = f.current /\ f.current < MaxGeneration
        BY <1>3 DEF Rotates
  <2>3. /\ n \in Family /\ n.current = b.current + 1 /\ n.previous = b.current
        /\ n.graceUntil <= t + Grace /\ n.state = b.state /\ n.authEpoch = b.authEpoch
        BY <1>2, <2>1, <2>2, RotateFamily
  <2> QED BY <1>2, <1>3, <2>2, <2>3 DEF Succeeds, Matches
<1>4. CASE Matches(f, p, t) /\ Admits(f, a) /\ ~Rotates(f, p) /\ Recovers(f, p)
  <2>1. n = b
        BY <1>4 DEF Transition
  <2>2. p = f.previous /\ p # f.current
    <3>1. IsFamily(f) /\ Fields(f) /\ Valid(f)
          BY FamilyFields
    <3> QED BY <1>4, <3>1 DEF Recovers, Fields, Valid, Generation
  <2>3. t <= f.graceUntil
        BY <1>4, <2>2 DEF Matches, Refers
  <2> QED BY <1>2, <1>4, <2>1, <2>2, <2>3 DEF Succeeds, Matches
<1>5. CASE Matches(f, p, t) /\ Admits(f, a) /\ ~Rotates(f, p) /\ ~Recovers(f, p)
      BY <1>5 DEF Transition
<1> QED BY <1>1, <1>3, <1>4, <1>5

-----------------------------------------------------------------------------
(* The inductive invariant. *)

IsRequest(q) ==
    q = [step |-> q.step, kind |-> q.kind, presented |-> q.presented, existing |-> q.existing,
         admission |-> q.admission, stamp |-> q.stamp, cookie |-> q.cookie, held |-> q.held]

Typed(q) ==
    /\ q.step \in {"idle", "get", "resolve", "stamp", "refresh", "revoke", "reply"}
    /\ q.kind \in {None, "refresh", "status", "logout"}
    /\ q.presented \in 0..MaxGeneration
    /\ q.existing = None \/ q.existing \in Family
    /\ q.admission \in {None} \cup Admission
    /\ q.stamp \in 0..MaxTime
    /\ q.cookie \in 0..MaxGeneration
    /\ q.held \subseteq Epoch

(* A request holds every epoch that was enabled since it was sent, of which   *)
(* the admission it has resolved is one.                                      *)
RequestOK(q, row) ==
    /\ IsRequest(q) /\ Typed(q)
    /\ q.step \in {"get", "resolve"} => EnabledEpochs(row) \subseteq q.held
    /\ q.step \in {"stamp", "refresh"} =>
         /\ q.admission \in Admission
         /\ q.admission.state = "enabled" => q.admission.authEpoch \in q.held
    /\ q.step \notin {"idle", "reply"} => q.presented # 0

(* The record agrees with the times at which generations were superseded. *)
FamilyOK(f, times) ==
    f # None =>
      /\ f \in Family
      /\ f.current = Len(times) + 1
      /\ f.previous # 0 => f.graceUntil <= times[f.previous] + Grace

WorldOK(row, time) ==
    /\ row = None \/ row \in [enabled : BOOLEAN, authEpoch : Epoch]
    /\ time \in 0..MaxTime

FamilyInv ==
    /\ WorldOK(allowed, now)
    /\ FamilyOK(family, rotations)
    /\ rotations \in Seq(0..MaxTime)
    /\ requests = [r \in Request |-> requests[r]]
    /\ \A r \in Request : RequestOK(requests[r], allowed)
    /\ loggedOut => family = None
    /\ jar \in 0..MaxGeneration /\ lost \in 0..MaxLost
    /\ loggedOut \in BOOLEAN /\ overlap \in BOOLEAN

LEMMA IdleOK == ASSUME NEW row PROVE RequestOK(Idle, row) /\ Idle.step = "idle"
<1>1. IsRequest(Idle)
      BY DEF Idle, IsRequest
<1>2. Typed(Idle) /\ Idle.step = "idle"
      BY SessionFamilyAssumption DEF Idle, Typed
<1> QED BY <1>1, <1>2 DEF RequestOK

LEMMA ResolutionOK ==
    ASSUME WorldOK(allowed, now)
    PROVE  /\ Resolution \in Admission
           /\ Resolution.state = "enabled" => Resolution.authEpoch \in EnabledEpochs(allowed)
           /\ EnabledEpochs(allowed) \subseteq Epoch
<1>1. CASE allowed = None
      BY <1>1 DEF Resolution, Admission, EnabledEpochs
<1>2. CASE allowed # None /\ ~allowed.enabled
      BY <1>2 DEF Resolution, Admission, EnabledEpochs
<1>3. CASE allowed # None /\ allowed.enabled
  <2>1. allowed.authEpoch \in Epoch
        BY <1>3 DEF WorldOK
  <2>2. Resolution = [state |-> "enabled", authEpoch |-> allowed.authEpoch]
        BY <1>3 DEF Resolution
  <2> QED BY <1>3, <2>1, <2>2 DEF Admission, EnabledEpochs
<1> QED BY <1>1, <1>2, <1>3

LEMMA NewFamilyOK ==
    ASSUME NEW a \in Admission, now = 0, NEW n, n = NewFamily(a)
    PROVE  n \in Family /\ n.current = 1 /\ n.previous = 0
<1> DEFINE s == IF a.state = "enabled" THEN "bound" ELSE "pending"
           p == IF a.state = "enabled" THEN None ELSE a.state
           e == a.authEpoch
           x == now + Ttl
<1>1. n = [state |-> s, authEpoch |-> e, pendingAdmissionState |-> p,
           current |-> 1, previous |-> 0, graceUntil |-> 0, expiresAt |-> x]
      BY DEF NewFamily
<1>2. /\ s \in {"pending", "bound"} /\ e \in 0..MaxEpoch /\ p \in {None, "missing", "disabled"}
      /\ (s = "pending" <=> e = 0) /\ (s = "bound" => p = None)
      BY SessionFamilyAssumption DEF Admission, Epoch
<1>3. x \in 1..(MaxTime + Ttl)
      BY SessionFamilyAssumption
<1> HIDE DEF s, p, e, x
<1>4. IsFamily(n) /\ Fields(n) /\ Valid(n)
      BY <1>1, <1>2, <1>3, SessionFamilyAssumption DEF IsFamily, Fields, Valid, Generation
<1> QED BY <1>1, <1>4, FamilyFields

LEMMA InitInv == Init => FamilyInv
<1> SUFFICES ASSUME Init PROVE FamilyInv
    OBVIOUS
<1>1. WorldOK(allowed, now)
      BY SessionFamilyAssumption DEF Init, WorldOK, Epoch
<1>2. FamilyOK(family, rotations) /\ rotations \in Seq(0..MaxTime)
      BY <1>1, ResolutionOK, NewFamilyOK DEF Init, FamilyOK
<1>3. requests = [r \in Request |-> requests[r]] /\ \A r \in Request : RequestOK(requests[r], allowed)
      BY IdleOK DEF Init
<1>4. /\ loggedOut = FALSE /\ overlap = FALSE
      /\ jar \in 0..MaxGeneration /\ lost \in 0..MaxLost
      BY SessionFamilyAssumption DEF Init
<1> QED BY <1>1, <1>2, <1>3, <1>4 DEF FamilyInv

LEMMA InvTypeOK == FamilyInv => TypeOK
<1> SUFFICES ASSUME FamilyInv PROVE TypeOK
    OBVIOUS
<1>1. now \in 0..MaxTime /\ allowed \in {None} \cup [enabled : BOOLEAN, authEpoch : Epoch]
      BY DEF FamilyInv, WorldOK
<1>2. family = None \/ family \in Family
      BY DEF FamilyInv, FamilyOK
<1>3. \A r \in Request : Typed(requests[r])
      BY DEF FamilyInv, RequestOK
<1> QED BY <1>1, <1>2, <1>3 DEF FamilyInv, TypeOK, Typed

-----------------------------------------------------------------------------
(* Steps of a request. *)

Becomes(r, q) == requests' = [x \in Request |-> IF x = r THEN q ELSE requests[x]]

RequestStep(r) == \E q : Becomes(r, q) /\ RequestOK(q, allowed)

LEMMA RequestsKeep ==
    ASSUME FamilyInv, NEW r \in Request, RequestStep(r), UNCHANGED allowed
    PROVE  /\ requests' = [x \in Request |-> requests'[x]]
           /\ \A x \in Request : RequestOK(requests'[x], allowed')
<1>1. PICK q : Becomes(r, q) /\ RequestOK(q, allowed)
      BY DEF RequestStep
<1> QED BY <1>1 DEF Becomes, FamilyInv

LEMMA IdleStep ==
    ASSUME FamilyInv, NEW r \in Request, requests' = [requests EXCEPT ![r] = Idle]
    PROVE  RequestStep(r)
<1>1. Becomes(r, Idle)
      BY DEF Becomes, FamilyInv
<1> QED BY <1>1, IdleOK DEF RequestStep

(* What the steps change of a request. *)
Replied(x, a, b) == [x EXCEPT !.step = a, !.cookie = b]

LEMMA Replying ==
    ASSUME NEW x, IsRequest(x), NEW a, NEW b, NEW n, n = Replied(x, a, b)
    PROVE  /\ IsRequest(n) /\ n.step = a /\ n.kind = x.kind /\ n.presented = x.presented
           /\ n.existing = x.existing /\ n.admission = x.admission /\ n.stamp = x.stamp /\ n.cookie = b /\ n.held = x.held
BY DEF IsRequest, Replied

Reads(x, a, b) == [x EXCEPT !.step = a, !.existing = b]

LEMMA Reading ==
    ASSUME NEW x, IsRequest(x), NEW a, NEW b, NEW n, n = Reads(x, a, b)
    PROVE  /\ IsRequest(n) /\ n.step = a /\ n.kind = x.kind /\ n.presented = x.presented
           /\ n.existing = b /\ n.admission = x.admission /\ n.stamp = x.stamp /\ n.cookie = x.cookie /\ n.held = x.held
BY DEF IsRequest, Reads

Resolves(x, a, b) == [x EXCEPT !.step = a, !.admission = b]

LEMMA Resolving ==
    ASSUME NEW x, IsRequest(x), NEW a, NEW b, NEW n, n = Resolves(x, a, b)
    PROVE  /\ IsRequest(n) /\ n.step = a /\ n.kind = x.kind /\ n.presented = x.presented
           /\ n.existing = x.existing /\ n.admission = b /\ n.stamp = x.stamp /\ n.cookie = x.cookie /\ n.held = x.held
BY DEF IsRequest, Resolves

Stamps(x, a, b) == [x EXCEPT !.step = a, !.stamp = b]

LEMMA Stamping ==
    ASSUME NEW x, IsRequest(x), NEW a, NEW b, NEW n, n = Stamps(x, a, b)
    PROVE  /\ IsRequest(n) /\ n.step = a /\ n.kind = x.kind /\ n.presented = x.presented
           /\ n.existing = x.existing /\ n.admission = x.admission /\ n.stamp = b /\ n.cookie = x.cookie /\ n.held = x.held
BY DEF IsRequest, Stamps

Moves(x, a) == [x EXCEPT !.step = a]

LEMMA Moving ==
    ASSUME NEW x, IsRequest(x), NEW a, NEW n, n = Moves(x, a)
    PROVE  /\ IsRequest(n) /\ n.step = a /\ n.kind = x.kind /\ n.presented = x.presented
           /\ n.existing = x.existing /\ n.admission = x.admission /\ n.stamp = x.stamp /\ n.cookie = x.cookie /\ n.held = x.held
BY DEF IsRequest, Moves

Holds(x, a) == [x EXCEPT !.held = a]

LEMMA Holding ==
    ASSUME NEW x, IsRequest(x), NEW a, NEW n, n = Holds(x, a)
    PROVE  /\ IsRequest(n) /\ n.step = x.step /\ n.kind = x.kind /\ n.presented = x.presented
           /\ n.existing = x.existing /\ n.admission = x.admission /\ n.stamp = x.stamp /\ n.cookie = x.cookie /\ n.held = a
BY DEF IsRequest, Holds

Sends(x, a, b, c, d) == [x EXCEPT !.step = a, !.kind = b, !.presented = c, !.held = d]

LEMMA Sending ==
    ASSUME NEW x, IsRequest(x), NEW a, NEW b, NEW c, NEW d, NEW n, n = Sends(x, a, b, c, d)
    PROVE  /\ IsRequest(n) /\ n.step = a /\ n.kind = b /\ n.presented = c
           /\ n.existing = x.existing /\ n.admission = x.admission /\ n.stamp = x.stamp /\ n.cookie = x.cookie /\ n.held = d
BY DEF IsRequest, Sends

LEMMA ReplyStep ==
    ASSUME FamilyInv, NEW r \in Request, NEW cookie \in 0..MaxGeneration, ReplyWith(r, cookie)
    PROVE  RequestStep(r)
<1> DEFINE n == [Idle EXCEPT !.step = "reply", !.cookie = cookie]
<1>1. Becomes(r, n)
      BY DEF ReplyWith, Becomes, FamilyInv
<1>2. IsRequest(Idle) /\ Typed(Idle)
      BY IdleOK DEF RequestOK
<1>5. n = Replied(Idle, "reply", cookie)
      BY DEF Replied
<1> HIDE DEF n
<1>3. /\ IsRequest(n) /\ n.step = "reply" /\ n.cookie = cookie /\ n.kind = Idle.kind
      /\ n.presented = Idle.presented /\ n.existing = Idle.existing
      /\ n.admission = Idle.admission /\ n.stamp = Idle.stamp /\ n.held = Idle.held
      BY <1>2, <1>5, Replying
<1>4. RequestOK(n, allowed)
      BY <1>2, <1>3 DEF Typed, RequestOK
<1> QED BY <1>1, <1>4 DEF RequestStep

LEMMA EmptyReplyStep ==
    ASSUME FamilyInv, NEW r \in Request, ReplyWith(r, 0)
    PROVE  RequestStep(r)
<1>1. 0 \in 0..MaxGeneration
      BY SessionFamilyAssumption
<1> QED BY <1>1, ReplyStep

LEMMA ReferenceKeeps ==
    ASSUME FamilyInv, NEW r \in Request, RequestStep(r),
           UNCHANGED <<now, allowed, jar, lost>>, family' \in {family, None}, UNCHANGED rotations,
           loggedOut' \in BOOLEAN, overlap' \in BOOLEAN,
           loggedOut' => loggedOut \/ family' = None
    PROVE  FamilyInv'
<1>1. FamilyOK(family', rotations')
      BY DEF FamilyInv, FamilyOK
<1> QED BY <1>1, RequestsKeep DEF FamilyInv

LEMMA Held ==
    ASSUME FamilyInv, NEW r \in Request
    PROVE  /\ RequestOK(requests[r], allowed) /\ IsRequest(requests[r]) /\ Typed(requests[r])
           /\ EnabledEpochs(allowed) \subseteq Epoch /\ WorldOK(allowed, now)
BY ResolutionOK DEF FamilyInv, RequestOK

LEMMA SendKeeps ==
    ASSUME FamilyInv, NEW r \in Request, NEW kind \in {"refresh", "status", "logout"}, Send(r, kind)
    PROVE  FamilyInv'
<1> DEFINE q == requests'[r]
           s == IF kind = "logout" THEN "revoke" ELSE "get"
           h == EnabledEpochs(allowed)
<1>1. q = Sends(Idle, s, kind, jar, h)
      BY DEF Send, FamilyInv, Sends
<1>2. Becomes(r, q)
      BY DEF Send, Becomes, FamilyInv
<1>3. s \in {"revoke", "get"} /\ h \subseteq Epoch /\ jar # 0 /\ jar \in 0..MaxGeneration
      BY Held DEF Send, FamilyInv
<1>4. IsRequest(Idle) /\ Typed(Idle)
      BY IdleOK DEF RequestOK
<1> HIDE DEF q, s, h
<1>5. /\ IsRequest(q) /\ q.step = s /\ q.kind = kind /\ q.presented = jar /\ q.held = h
      /\ q.existing = Idle.existing /\ q.admission = Idle.admission /\ q.stamp = Idle.stamp
      /\ q.cookie = Idle.cookie
      BY <1>1, <1>4, Sending
<1>6. RequestOK(q, allowed)
      BY <1>3, <1>4, <1>5 DEF RequestOK, Typed, h
<1>7. UNCHANGED <<now, allowed, family, jar, rotations, loggedOut, lost>> /\ overlap' \in BOOLEAN
      BY DEF Send, FamilyInv
<1> QED BY <1>2, <1>6, <1>7, ReferenceKeeps DEF RequestStep, FamilyInv

LEMMA GetKeeps ==
    ASSUME FamilyInv, NEW r \in Request, GetFamily(r)
    PROVE  FamilyInv'
<1>1. /\ UNCHANGED <<now, allowed, jar, rotations, loggedOut, overlap, lost>>
      /\ family' \in {family, None} /\ requests[r].step = "get"
      BY DEF GetFamily
<1>2. CASE ReplyWith(r, 0)
  <2>1. RequestStep(r)
        BY <1>2, EmptyReplyStep
  <2>2. loggedOut' \in BOOLEAN /\ overlap' \in BOOLEAN /\ (loggedOut' => loggedOut)
        BY <1>1 DEF FamilyInv
  <2> QED BY <1>1, <2>1, <2>2, ReferenceKeeps
<1>3. CASE requests' = [requests EXCEPT ![r].step = "resolve", ![r].existing = family]
  <2> DEFINE q == requests'[r]
  <2>1. q = Reads(requests[r], "resolve", family)
        BY <1>3 DEF FamilyInv, Reads
  <2>2. Becomes(r, q)
        BY <1>3 DEF Becomes, FamilyInv
  <2>3. family = None \/ family \in Family
        BY DEF FamilyInv, FamilyOK
  <2> HIDE DEF q
  <2>4. /\ IsRequest(q) /\ q.step = "resolve" /\ q.existing = family
        /\ q.kind = requests[r].kind /\ q.presented = requests[r].presented
        /\ q.held = requests[r].held /\ q.admission = requests[r].admission
        /\ q.stamp = requests[r].stamp /\ q.cookie = requests[r].cookie
        BY <2>1, Held, Reading
  <2>5. RequestOK(q, allowed)
        BY <1>1, <2>3, <2>4, Held DEF RequestOK, Typed
  <2> QED BY <1>1, <2>2, <2>5, ReferenceKeeps DEF RequestStep, FamilyInv
<1> QED BY <1>2, <1>3 DEF GetFamily

LEMMA ResolveKeeps ==
    ASSUME FamilyInv, NEW r \in Request, ResolveAdmission(r)
    PROVE  FamilyInv'
<1>1. /\ UNCHANGED <<now, allowed, family, jar, rotations, loggedOut, overlap, lost>>
      /\ requests[r].step = "resolve"
      BY DEF ResolveAdmission
<1> DEFINE q == requests'[r]
<1>2. Becomes(r, q)
      BY DEF ResolveAdmission, Becomes, FamilyInv
<1>3. q = IF requests[r].kind = "refresh"
          THEN [requests[r] EXCEPT !.step = "stamp", !.admission = Resolution]
          ELSE IF Admits(requests[r].existing, Resolution) THEN Idle
          ELSE [requests[r] EXCEPT !.step = "revoke"]
      BY DEF ResolveAdmission, FamilyInv
<1> HIDE DEF q
<1>4. ASSUME requests[r].kind = "refresh"
      PROVE  RequestOK(q, allowed)
  <2> DEFINE a == Resolution
  <2>1. a \in Admission /\ (a.state = "enabled" => a.authEpoch \in EnabledEpochs(allowed))
        BY Held, ResolutionOK
  <2>2. q = Resolves(requests[r], "stamp", a)
        BY <1>3, <1>4 DEF Resolves
  <2> HIDE DEF a
  <2>3. /\ IsRequest(q) /\ q.step = "stamp" /\ q.admission = a
        /\ q.kind = requests[r].kind /\ q.presented = requests[r].presented
        /\ q.held = requests[r].held /\ q.existing = requests[r].existing
        /\ q.stamp = requests[r].stamp /\ q.cookie = requests[r].cookie
        BY <2>2, Held, Resolving
  <2> QED BY <1>1, <2>1, <2>3, Held DEF RequestOK, Typed
<1>5. ASSUME requests[r].kind # "refresh" /\ Admits(requests[r].existing, Resolution)
      PROVE  RequestOK(q, allowed)
      BY <1>3, <1>5, IdleOK
<1>6. ASSUME requests[r].kind # "refresh" /\ ~Admits(requests[r].existing, Resolution)
      PROVE  RequestOK(q, allowed)
  <2>1. q = Moves(requests[r], "revoke")
        BY <1>3, <1>6 DEF Moves
  <2>2. /\ IsRequest(q) /\ q.step = "revoke" /\ q.admission = requests[r].admission
        /\ q.kind = requests[r].kind /\ q.presented = requests[r].presented
        /\ q.held = requests[r].held /\ q.existing = requests[r].existing
        /\ q.stamp = requests[r].stamp /\ q.cookie = requests[r].cookie
        BY <2>1, Held, Moving
  <2> QED BY <1>1, <2>2, Held DEF RequestOK, Typed
<1>7. RequestOK(q, allowed)
      BY <1>4, <1>5, <1>6
<1> QED BY <1>1, <1>2, <1>7, ReferenceKeeps DEF RequestStep, FamilyInv

LEMMA StampKeeps ==
    ASSUME FamilyInv, NEW r \in Request, StampRefresh(r)
    PROVE  FamilyInv'
<1>1. /\ UNCHANGED <<now, allowed, family, jar, rotations, loggedOut, overlap, lost>>
      /\ requests[r].step = "stamp"
      BY DEF StampRefresh
<1> DEFINE q == requests'[r]
<1>2. Becomes(r, q)
      BY DEF StampRefresh, Becomes, FamilyInv
<1>3. q = Stamps(requests[r], "refresh", now)
      BY DEF StampRefresh, FamilyInv, Stamps
<1> HIDE DEF q
<1>4. /\ IsRequest(q) /\ q.step = "refresh" /\ q.stamp = now
      /\ q.kind = requests[r].kind /\ q.presented = requests[r].presented
      /\ q.held = requests[r].held /\ q.existing = requests[r].existing
      /\ q.admission = requests[r].admission /\ q.cookie = requests[r].cookie
      BY <1>3, Held, Stamping
<1>5. RequestOK(q, allowed)
      BY <1>1, <1>4, Held DEF RequestOK, Typed, WorldOK
<1> QED BY <1>1, <1>2, <1>5, ReferenceKeeps DEF RequestStep, FamilyInv

(* A refresh that succeeds, and one that does not. *)
LEMMA RefreshOutcome ==
    ASSUME FamilyInv, NEW r \in Request, Refresh(r)
    PROVE  \/ family' = None
           \/ /\ family # None /\ family' \in Family
              /\ Succeeds(family, requests[r].presented, requests[r].admission, requests[r].stamp, family')
<1>1. requests[r].admission \in Admission /\ requests[r].stamp \in 0..MaxTime
      BY Held DEF Refresh, RequestOK, Typed
<1>2. family = None \/ family \in Family
      BY DEF FamilyInv, FamilyOK
<1>3. CASE family = None
      BY <1>3 DEF Refresh, Record
<1>4. CASE family # None
  <2>1. family' = Transition(family, requests[r].presented, requests[r].admission, requests[r].stamp)
        BY <1>4 DEF Refresh, Record
  <2> QED BY <1>1, <1>2, <1>4, <2>1, TransitionFamily
<1> QED BY <1>3, <1>4

LEMMA RefreshKeeps ==
    ASSUME FamilyInv, NEW r \in Request, Refresh(r)
    PROVE  FamilyInv'
<1> DEFINE q == requests[r]
           f == family
           n == family'
<1>1. /\ UNCHANGED <<now, allowed, jar, loggedOut, overlap, lost>>
      /\ rotations' = IF n # None /\ n.current > Len(rotations) + 1
                      THEN Append(rotations, q.stamp) ELSE rotations
      BY DEF Refresh
<1>2. CASE n = None
  <2>1. ReplyWith(r, 0) /\ rotations' = rotations
        BY <1>1, <1>2 DEF Refresh
  <2>2. RequestStep(r)
    <3>1. 0 \in 0..MaxGeneration
          BY SessionFamilyAssumption
    <3> HIDE DEF q, f, n
    <3> QED BY <2>1, <3>1, ReplyStep
  <2>3. loggedOut \in BOOLEAN /\ overlap \in BOOLEAN
        BY DEF FamilyInv
  <2>4. UNCHANGED <<now, allowed, jar, lost>> /\ UNCHANGED loggedOut /\ UNCHANGED overlap
        BY <1>1
  <2>5. family' \in {family, None}
        BY <1>2
  <2> HIDE DEF q, f, n
  <2> QED BY <2>1, <2>2, <2>3, <2>4, <2>5, ReferenceKeeps
<1>3. CASE n # None
  <2>1. f # None /\ n \in Family /\ Succeeds(f, q.presented, q.admission, q.stamp, n)
        BY <1>3, RefreshOutcome
  <2>2. /\ f \in Family /\ f.current = Len(rotations) + 1 /\ rotations \in Seq(0..MaxTime)
        /\ f.previous # 0 => f.graceUntil <= rotations[f.previous] + Grace
        BY <2>1 DEF FamilyInv, FamilyOK
  <2>3. q.stamp \in 0..MaxTime
        BY Held DEF Typed
  <2>4. Fields(f) /\ Valid(f) /\ Fields(n) /\ Valid(n)
        BY <2>1, <2>2, FamilyFields
  <2>5. ReplyWith(r, n.current) /\ n.current \in 0..MaxGeneration
    <3>1. ReplyWith(r, n.current)
          BY <1>3 DEF Refresh
    <3>2. n.current \in 0..MaxGeneration
          BY <2>4 DEF Fields, Generation
    <3> QED BY <3>1, <3>2
  <2>6. RequestStep(r)
        BY <2>5, ReplyStep
  <2>7. FamilyOK(n, rotations') /\ rotations' \in Seq(0..MaxTime)
    <3>1. CASE n.current = f.current + 1 /\ n.previous = f.current /\ n.graceUntil <= q.stamp + Grace
      <4>1. rotations' = Append(rotations, q.stamp)
            BY <1>1, <1>3, <2>2, <2>4, <3>1 DEF Fields, Generation
      <4>2. Len(rotations') = Len(rotations) + 1 /\ rotations'[Len(rotations) + 1] = q.stamp
            BY <2>2, <2>3, <4>1
      <4> QED BY <2>1, <2>2, <2>3, <3>1, <4>1, <4>2 DEF FamilyOK
    <3>2. CASE n.current = f.current /\ n.previous = f.previous /\ n.graceUntil = f.graceUntil
      <4>1. rotations' = rotations
            BY <1>1, <2>2, <3>2
      <4> QED BY <2>1, <2>2, <3>2, <4>1 DEF FamilyOK
    <3> QED BY <2>1, <3>1, <3>2 DEF Succeeds
  <2> QED BY <1>1, <2>1, <2>6, <2>7, RequestsKeep DEF FamilyInv
<1> QED BY <1>2, <1>3

LEMMA RevokeKeeps ==
    ASSUME FamilyInv, NEW r \in Request, Revoke(r)
    PROVE  FamilyInv'
<1>1. /\ UNCHANGED <<now, allowed, jar, rotations, overlap, lost>> /\ family' = None
      /\ loggedOut' = (loggedOut \/ requests[r].kind = "logout") /\ ReplyWith(r, 0)
      BY DEF Revoke
<1>2. RequestStep(r)
      BY <1>1, EmptyReplyStep
<1>3. loggedOut' \in BOOLEAN /\ overlap' \in BOOLEAN
      BY <1>1 DEF FamilyInv
<1> QED BY <1>1, <1>2, <1>3, ReferenceKeeps

LEMMA UnavailableKeeps ==
    ASSUME FamilyInv, NEW r \in Request, Unavailable(r)
    PROVE  FamilyInv'
<1>1. UNCHANGED <<now, allowed, family, jar, rotations, loggedOut, overlap, lost>>
      BY DEF Unavailable
<1>2. RequestStep(r)
      BY EmptyReplyStep, IdleStep DEF Unavailable
<1>3. loggedOut' \in BOOLEAN /\ overlap' \in BOOLEAN
      BY <1>1 DEF FamilyInv
<1> QED BY <1>1, <1>2, <1>3, ReferenceKeeps

LEMMA ReplyKeeps ==
    ASSUME FamilyInv, NEW r \in Request, Reply(r) \/ LoseReply(r)
    PROVE  FamilyInv'
<1>1. UNCHANGED <<now, allowed, family, rotations, loggedOut, overlap>> /\ RequestStep(r)
      BY IdleStep DEF Reply, LoseReply
<1>2. jar' \in 0..MaxGeneration /\ lost' \in 0..MaxLost
      BY Held, SessionFamilyAssumption DEF Reply, LoseReply, FamilyInv, Typed
<1> QED BY <1>1, <1>2, RequestsKeep DEF FamilyInv

-----------------------------------------------------------------------------
(* Steps of the environment. *)

LEMMA AllowedKeeps ==
    ASSUME FamilyInv, NEW row \in [enabled : BOOLEAN, authEpoch : Epoch], SetAllowed(row)
    PROVE  FamilyInv'
<1>1. /\ UNCHANGED <<now, family, jar, rotations, loggedOut, overlap, lost>> /\ allowed' = row
      /\ requests' = [r \in Request |->
            IF requests[r] = Idle THEN Idle ELSE [requests[r] EXCEPT !.held = @ \cup EnabledEpochs(row)]]
      BY DEF SetAllowed
<1>2. WorldOK(allowed', now') /\ EnabledEpochs(row) \subseteq Epoch
      BY <1>1 DEF WorldOK, FamilyInv, EnabledEpochs
<1>3. ASSUME NEW r \in Request
      PROVE  RequestOK(requests'[r], row)
  <2>1. CASE requests[r] = Idle
        BY <1>1, <2>1, IdleOK
  <2>2. CASE requests[r] # Idle
    <3> DEFINE q == requests'[r]
               h == requests[r].held \cup EnabledEpochs(row)
    <3>1. q = Holds(requests[r], h)
          BY <1>1, <2>2 DEF Holds
    <3>2. h \subseteq Epoch /\ EnabledEpochs(row) \subseteq h /\ requests[r].held \subseteq h
          BY <1>2, Held DEF Typed
    <3> HIDE DEF q, h
    <3>3. /\ IsRequest(q) /\ q.step = requests[r].step /\ q.stamp = requests[r].stamp
          /\ q.kind = requests[r].kind /\ q.presented = requests[r].presented
          /\ q.held = h /\ q.existing = requests[r].existing
          /\ q.admission = requests[r].admission /\ q.cookie = requests[r].cookie
          BY <3>1, Held, Holding
    <3>4. RequestOK(q, row)
          BY <3>2, <3>3, Held DEF RequestOK, Typed
    <3> QED BY <3>4 DEF q
  <2> QED BY <2>1, <2>2
<1> QED BY <1>1, <1>2, <1>3 DEF FamilyInv

LEMMA EnvironmentKeeps ==
    ASSUME FamilyInv, Alarm \/ AllowFid \/ DisableFid \/ BumpAuthEpoch \/ Tick
    PROVE  FamilyInv'
<1>1. CASE Alarm
      BY <1>1 DEF Alarm, FamilyInv, FamilyOK
<1>2. CASE Tick
      BY <1>2, SessionFamilyAssumption DEF Tick, FamilyInv, WorldOK
<1>3. allowed = None \/ allowed \in [enabled : BOOLEAN, authEpoch : Epoch]
      BY DEF FamilyInv, WorldOK
<1>4. CASE AllowFid
  <2>1. CASE allowed = None /\ SetAllowed([enabled |-> TRUE, authEpoch |-> 1])
    <3>1. [enabled |-> TRUE, authEpoch |-> 1] \in [enabled : BOOLEAN, authEpoch : Epoch]
          BY SessionFamilyAssumption DEF Epoch
    <3> QED BY <2>1, <3>1, AllowedKeeps
  <2>2. CASE /\ allowed # None /\ allowed.authEpoch < MaxEpoch
             /\ SetAllowed([enabled |-> TRUE, authEpoch |-> allowed.authEpoch + 1])
    <3>1. allowed.authEpoch + 1 \in Epoch
          BY <1>3, <2>2, SessionFamilyAssumption DEF Epoch
    <3>2. [enabled |-> TRUE, authEpoch |-> allowed.authEpoch + 1] \in [enabled : BOOLEAN, authEpoch : Epoch]
          BY <3>1
    <3> QED BY <2>2, <3>2, AllowedKeeps
  <2> QED BY <1>4, <2>1, <2>2 DEF AllowFid
<1>5. CASE DisableFid
  <2>1. [allowed EXCEPT !.enabled = FALSE] \in [enabled : BOOLEAN, authEpoch : Epoch]
        BY <1>3, <1>5 DEF DisableFid
  <2> QED BY <1>5, <2>1, AllowedKeeps DEF DisableFid
<1>6. CASE BumpAuthEpoch
  <2>1. allowed.authEpoch + 1 \in Epoch
        BY <1>3, <1>6, SessionFamilyAssumption DEF BumpAuthEpoch, Epoch
  <2>2. [allowed EXCEPT !.authEpoch = @ + 1] \in [enabled : BOOLEAN, authEpoch : Epoch]
        BY <1>3, <1>6, <2>1 DEF BumpAuthEpoch
  <2> QED BY <1>6, <2>2, AllowedKeeps DEF BumpAuthEpoch
<1> QED BY <1>1, <1>2, <1>4, <1>5, <1>6

LEMMA HandleKeeps ==
    ASSUME FamilyInv, NEW r \in Request, Handle(r)
    PROVE  FamilyInv'
BY SendKeeps, GetKeeps, ResolveKeeps, StampKeeps, RefreshKeeps, RevokeKeeps, UnavailableKeeps,
   ReplyKeeps DEF Handle

LEMMA NextKeeps == FamilyInv /\ [Next]_vars => FamilyInv'
<1> SUFFICES ASSUME FamilyInv, [Next]_vars PROVE FamilyInv'
    OBVIOUS
<1>1. CASE \E r \in Request : Handle(r)
      BY <1>1, HandleKeeps
<1>2. CASE Alarm \/ AllowFid \/ DisableFid \/ BumpAuthEpoch \/ Tick
      BY <1>2, EnvironmentKeeps
<1>3. CASE UNCHANGED vars
      BY <1>3 DEF vars, FamilyInv, FamilyOK, WorldOK
<1> QED BY <1>1, <1>2, <1>3 DEF Next

(* FamilyInv is an invariant of the family, for any number of requests.       *)
THEOREM FamilyCorrect == Spec => []FamilyInv
<1> QED BY InitInv, NextKeeps, PTL DEF Spec

(* The record is always one that isSessionFamilyRecord accepts, and the rest  *)
(* of the state is of its type.                                               *)
THEOREM TypeCorrect == Spec => []TypeOK
<1> QED BY FamilyCorrect, InvTypeOK, PTL

-----------------------------------------------------------------------------
LEMMA ElementOf == ASSUME NEW S, NEW s \in Seq(S), NEW i \in 1..Len(s)
                   PROVE  s[i] \in S
OBVIOUS

(* A generation has one successor, whatever number of requests present it:    *)
(* the first rotates the family, the others get its successor within the      *)
(* grace of that rotation (transitionSessionFamily).                          *)
THEOREM OneSuccessorAlways == Spec => OneSuccessor
<1> DEFINE OneStep == \A r \in Request : Granted(r) =>
               LET presented == requests[r].presented
               IN  /\ family'.current = presented + 1
                   /\ presented <= Len(rotations) =>
                         /\ presented = Len(rotations)
                         /\ requests[r].stamp <= rotations[presented] + Grace
<1>1. FamilyInv => OneStep
  <2> SUFFICES ASSUME FamilyInv, NEW r \in Request, Granted(r)
               PROVE  /\ family'.current = requests[r].presented + 1
                      /\ requests[r].presented <= Len(rotations) =>
                            /\ requests[r].presented = Len(rotations)
                            /\ requests[r].stamp <= rotations[requests[r].presented] + Grace
      OBVIOUS
  <2> DEFINE p == requests[r].presented
             t == requests[r].stamp
             f == family
  <2>1. /\ f # None /\ family' \in Family
        /\ Succeeds(f, p, requests[r].admission, t, family')
        BY RefreshOutcome DEF Granted
  <2>2. /\ f \in Family /\ f.current = Len(rotations) + 1 /\ rotations \in Seq(0..MaxTime)
        /\ f.previous # 0 => f.graceUntil <= rotations[f.previous] + Grace
        BY <2>1 DEF FamilyInv, FamilyOK
  <2>3. Fields(f) /\ Valid(f)
        BY <2>2, FamilyFields
  <2>4. p # 0 /\ p \in 0..MaxGeneration /\ t \in 0..MaxTime
        BY Held DEF Granted, RequestOK, Typed
  <2>5. CASE p = f.current /\ family'.current = f.current + 1
        BY <2>2, <2>3, <2>5 DEF Fields, Generation
  <2>6. CASE p = f.previous /\ t <= f.graceUntil /\ family'.current = f.current
    <3>1. f.previous = f.current - 1
          BY <2>3, <2>4, <2>6 DEF Valid
    <3>a. Len(rotations) \in Nat /\ f.current = Len(rotations) + 1 /\ p \in Nat /\ p # 0
          BY <2>2, <2>4, SessionFamilyAssumption
    <3>b. p = Len(rotations)
          BY <2>6, <3>1, <3>a
    <3>c. p \in 1..Len(rotations)
          BY <3>a, <3>b
    <3>d. rotations[p] \in 0..MaxTime
      <4>1. rotations \in Seq(0..MaxTime)
            BY <2>2
      <4> QED BY ONLY <3>c, <4>1, ElementOf
    <3>2. t <= rotations[p] + Grace
      <4>1. f.graceUntil <= rotations[p] + Grace
            BY <2>2, <2>4, <2>6
      <4>2. f.graceUntil \in Int /\ t \in Int /\ Grace \in Int /\ rotations[p] \in Int
            BY <2>3, <2>4, <3>d, SessionFamilyAssumption DEF Fields
      <4> QED BY ONLY <2>6, <4>1, <4>2
    <3> QED BY <2>2, <2>3, <2>6, <3>b, <3>2 DEF Fields, Generation
  <2> QED BY <2>1, <2>5, <2>6 DEF Succeeds
<1>2. [Next]_vars /\ FamilyInv => [OneStep]_vars
      BY <1>1
<1> QED BY FamilyCorrect, <1>2, PTL DEF Spec, OneSuccessor

(* A token names an epoch that was the player's enabled admission at some     *)
(* moment while the request for it ran, for any number of requests and epochs *)
(* (the refresh handler and transitionSessionFamily).                         *)
THEOREM EpochWasHeldAlways == Spec => EpochWasHeld
<1> DEFINE HeldStep == \A r \in Request : Granted(r) /\ family'.state = "bound" =>
                          family'.authEpoch \in requests[r].held
<1>1. FamilyInv => HeldStep
  <2> SUFFICES ASSUME FamilyInv, NEW r \in Request, Granted(r), family'.state = "bound"
               PROVE  family'.authEpoch \in requests[r].held
      OBVIOUS
  <2> DEFINE a == requests[r].admission
  <2>1. /\ family # None /\ family' \in Family
        /\ Succeeds(family, requests[r].presented, a, requests[r].stamp, family')
        BY RefreshOutcome DEF Granted
  <2>2. a \in Admission /\ (a.state = "enabled" => a.authEpoch \in requests[r].held)
        BY Held DEF Granted, RequestOK
  <2>3. CASE a.state = "enabled"
        BY <2>1, <2>2, <2>3 DEF Succeeds
  <2>4. CASE a.state # "enabled"
    <3>1. a.authEpoch = 0
          BY <2>2, <2>4 DEF Admission
    <3>2. family.state = "bound" /\ family \in Family
          BY <2>1, <2>4 DEF Succeeds, FamilyInv, FamilyOK
    <3>3. family.authEpoch = 0
          BY <2>1, <3>1, <3>2 DEF Succeeds, Admits
    <3> QED BY <3>2, <3>3, FamilyFields DEF Valid
  <2> QED BY <2>3, <2>4
<1>2. [Next]_vars /\ FamilyInv => [HeldStep]_vars
      BY <1>1
<1> QED BY FamilyCorrect, <1>2, PTL DEF Spec, EpochWasHeld

(* A family binds once, and nothing brings it back after a logout has revoked *)
(* it, for any number of requests under way (Transition, Revoke).             *)
THEOREM OnlyForwardAlways == Spec => OnlyForward
<1> DEFINE Forward == /\ (family # None /\ family.state = "bound" /\ family' # None)
                            => (family'.state = "bound" /\ family'.authEpoch = family.authEpoch)
                      /\ loggedOut => family' = None
<1>1. FamilyInv /\ Next => Forward
  <2> SUFFICES ASSUME FamilyInv, Next PROVE Forward
      OBVIOUS
  <2>1. CASE family' \in {family, None}
        BY <2>1 DEF FamilyInv
  <2>2. CASE \E r \in Request : Refresh(r)
    <3>1. PICK r \in Request : Refresh(r)
          BY <2>2
    <3> DEFINE a == requests[r].admission
    <3>2. CASE family' = None
          BY <3>2
    <3>3. CASE family' # None
      <4>1. /\ family # None
            /\ Succeeds(family, requests[r].presented, a, requests[r].stamp, family')
            BY <3>1, <3>3, RefreshOutcome
      <4>2. ~loggedOut
            BY <4>1 DEF FamilyInv
      <4> QED BY <4>1, <4>2 DEF Succeeds, Admits
    <3> QED BY <3>2, <3>3
  <2>3. (\E r \in Request : Refresh(r)) \/ family' \in {family, None}
        BY DEF Next, Handle, Send, GetFamily, ResolveAdmission, StampRefresh, Revoke, Unavailable,
               Reply, LoseReply, Alarm, AllowFid, DisableFid, BumpAuthEpoch, SetAllowed, Tick
  <2> QED BY <2>1, <2>2, <2>3
<1>2. [Next]_vars /\ FamilyInv => [Forward]_vars
      BY <1>1
<1> QED BY FamilyCorrect, <1>2, PTL DEF Spec, OnlyForward

-----------------------------------------------------------------------------
(* A browser that makes one request at a time.                                *)
(*                                                                            *)
(* What a request presents is what is still in the jar, and the answer it     *)
(* brings is the current generation or nothing, as long as no other request   *)
(* is under way.                                                              *)
Shows(q, f, cookie) ==
    /\ q.step \in {"get", "resolve", "stamp", "refresh", "revoke"} => q.presented = cookie
    /\ q.step = "reply" => q.cookie \in {0, f.current}

Alone == \A r, s \in Request : requests[r] # Idle /\ requests[s] # Idle => r = s

Behind ==
    /\ jar # 0 => family.current - jar \in {0, 1}
    /\ \A r \in Request : Shows(requests[r], family, jar)
    /\ Alone

BehindInv == ~overlap /\ family # None => Behind

(* The request r goes on presenting what it does, or ends without a cookie. *)
Goes(r) ==
    \E q : /\ Becomes(r, q)
           /\ \/ q = Idle
              \/ q.step = "reply" /\ q.cookie = 0
              \/ q.step # "reply" /\ q.presented = requests[r].presented

LEMMA RepliesWith ==
    ASSUME FamilyInv, NEW r \in Request, NEW cookie, ReplyWith(r, cookie)
    PROVE  \E q : Becomes(r, q) /\ q.step = "reply" /\ q.cookie = cookie
<1> DEFINE n == [Idle EXCEPT !.step = "reply", !.cookie = cookie]
<1>1. Becomes(r, n)
      BY DEF ReplyWith, Becomes, FamilyInv
<1>2. IsRequest(Idle)
      BY IdleOK DEF RequestOK
<1>3. n = Replied(Idle, "reply", cookie)
      BY DEF Replied
<1> HIDE DEF n
<1>4. n.step = "reply" /\ n.cookie = cookie
      BY <1>2, <1>3, Replying
<1> QED BY <1>1, <1>4

LEMMA HandlerGoes ==
    ASSUME FamilyInv, NEW r \in Request,
           GetFamily(r) \/ ResolveAdmission(r) \/ StampRefresh(r) \/ Revoke(r) \/ Unavailable(r)
    PROVE  /\ Goes(r)
           /\ requests[r].step \in {"get", "resolve", "stamp", "refresh", "revoke"}
           /\ family' \in {family, None} /\ jar' = jar /\ overlap' = overlap
<1> SUFFICES Goes(r)
      BY DEF GetFamily, ResolveAdmission, StampRefresh, Revoke, Unavailable
<1>1. IsRequest(requests[r]) /\ requests = [x \in Request |-> requests[x]]
      BY Held DEF FamilyInv
<1>2. ASSUME ReplyWith(r, 0) PROVE Goes(r)
      BY <1>2, RepliesWith DEF Goes
<1>3. ASSUME Becomes(r, Idle) PROVE Goes(r)
      BY <1>3 DEF Goes
<1>4. ASSUME NEW q, q.step # "reply", q.presented = requests[r].presented, Becomes(r, q)
      PROVE  Goes(r)
      BY <1>4 DEF Goes
<1>5. CASE GetFamily(r)
  <2>1. CASE requests' = [requests EXCEPT ![r].step = "resolve", ![r].existing = family]
    <3> DEFINE q == Reads(requests[r], "resolve", family)
    <3>1. Becomes(r, q)
          BY <1>1, <2>1 DEF Becomes, Reads
    <3>2. q.step = "resolve" /\ q.presented = requests[r].presented
          BY <1>1, Reading
    <3> HIDE DEF q
    <3> QED BY <1>4, <3>1, <3>2
  <2> QED BY <1>2, <1>5, <2>1 DEF GetFamily
<1>6. CASE ResolveAdmission(r)
  <2>1. CASE requests[r].kind = "refresh"
    <3> DEFINE q == Resolves(requests[r], "stamp", Resolution)
    <3>1. Becomes(r, q)
          BY <1>1, <1>6, <2>1 DEF ResolveAdmission, Becomes, Resolves
    <3>2. q.step = "stamp" /\ q.presented = requests[r].presented
          BY <1>1, Resolving
    <3> HIDE DEF q
    <3> QED BY <1>4, <3>1, <3>2
  <2>2. CASE requests[r].kind # "refresh" /\ Admits(requests[r].existing, Resolution)
    <3>1. Becomes(r, Idle)
          BY <1>1, <1>6, <2>2 DEF ResolveAdmission, Becomes
    <3> QED BY <1>3, <3>1
  <2>3. CASE requests[r].kind # "refresh" /\ ~Admits(requests[r].existing, Resolution)
    <3> DEFINE q == Moves(requests[r], "revoke")
    <3>1. Becomes(r, q)
          BY <1>1, <1>6, <2>3 DEF ResolveAdmission, Becomes, Moves
    <3>2. q.step = "revoke" /\ q.presented = requests[r].presented
          BY <1>1, Moving
    <3> HIDE DEF q
    <3> QED BY <1>4, <3>1, <3>2
  <2> QED BY <2>1, <2>2, <2>3
<1>7. CASE StampRefresh(r)
  <2> DEFINE q == Stamps(requests[r], "refresh", now)
  <2>1. Becomes(r, q)
        BY <1>1, <1>7 DEF StampRefresh, Becomes, Stamps
  <2>2. q.step = "refresh" /\ q.presented = requests[r].presented
        BY <1>1, Stamping
  <2> HIDE DEF q
  <2> QED BY <1>4, <2>1, <2>2
<1>8. CASE Revoke(r)
      BY <1>2, <1>8 DEF Revoke
<1>9. CASE Unavailable(r)
      BY <1>1, <1>2, <1>3, <1>9 DEF Unavailable, Becomes
<1> QED BY <1>5, <1>6, <1>7, <1>8, <1>9

(* A request that is under way is the only one. *)
LEMMA Busy ==
    ASSUME NEW r \in Request, requests[r].step # "idle"
    PROVE  requests[r] # Idle
BY IdleOK

LEMMA OnlyMover ==
    ASSUME Alone, NEW r \in Request, requests[r] # Idle, NEW q, Becomes(r, q)
    PROVE  /\ Alone'
           /\ requests'[r] = q
           /\ \A s \in Request : s # r => requests'[s] = Idle
<1>1. \A s \in Request : s # r => requests[s] = Idle
      BY DEF Alone
<1>2. \A s \in Request : s # r => requests'[s] = Idle
      BY <1>1 DEF Becomes
<1> QED BY <1>2 DEF Alone, Becomes

LEMMA IdleShows == ASSUME NEW f, NEW cookie PROVE Shows(Idle, f, cookie)
BY IdleOK DEF Shows

(* What the mover shows is all there is to show. *)
LEMMA MoverShows ==
    ASSUME Alone, NEW r \in Request, requests[r] # Idle, NEW q, Becomes(r, q),
           NEW f, NEW cookie, Shows(q, f, cookie)
    PROVE  Alone' /\ \A s \in Request : Shows(requests'[s], f, cookie)
<1>1. /\ Alone' /\ requests'[r] = q
      /\ \A s \in Request : s # r => requests'[s] = Idle
      BY OnlyMover
<1> QED BY <1>1, IdleShows

LEMMA BehindInit == Init => BehindInv
<1> SUFFICES ASSUME Init PROVE Behind
    BY DEF BehindInv
<1>1. FamilyInv /\ jar = 1 /\ requests = [r \in Request |-> Idle]
      BY InitInv DEF Init
<1>2. family.current = 1
      BY <1>1, ResolutionOK, NewFamilyOK DEF Init, FamilyInv
<1>3. \A r \in Request : requests[r] = Idle
      BY <1>1
<1> QED BY <1>1, <1>2, <1>3, IdleShows DEF Behind, Alone

LEMMA SendBehind ==
    ASSUME FamilyInv, BehindInv, NEW r \in Request,
           NEW kind \in {"refresh", "status", "logout"}, Send(r, kind)
    PROVE  BehindInv'
<1> SUFFICES ASSUME ~overlap', family' # None PROVE Behind'
    BY DEF BehindInv
<1>1. ~overlap /\ family' = family /\ jar' = jar /\ \A s \in Request : requests[s] = Idle
      BY DEF Send
<1>2. Behind
      BY <1>1 DEF BehindInv
<1> DEFINE s0 == IF kind = "logout" THEN "revoke" ELSE "get"
           q == Sends(Idle, s0, kind, jar, EnabledEpochs(allowed))
<1>3. requests' = [requests EXCEPT ![r] = q]
      BY DEF Send, Sends
<1>4. q.step \in {"revoke", "get"} /\ q.presented = jar
      BY IdleOK, Sending DEF RequestOK
<1> HIDE DEF q, s0
<1>5. Becomes(r, q)
      BY <1>3 DEF Becomes, FamilyInv
<1>6. \A s \in Request : s # r => requests'[s] = Idle
      BY <1>1, <1>5 DEF Becomes
<1>7. requests'[r] = q
      BY <1>5 DEF Becomes
<1>8. Shows(q, family, jar)
      BY <1>4 DEF Shows
<1> QED BY <1>1, <1>2, <1>6, <1>7, <1>8, IdleShows DEF Behind, Alone

LEMMA GoesBehind ==
    ASSUME FamilyInv, BehindInv, NEW r \in Request, Goes(r),
           requests[r].step \in {"get", "resolve", "stamp", "refresh", "revoke"},
           family' \in {family, None}, jar' = jar, overlap' = overlap
    PROVE  BehindInv'
<1> SUFFICES ASSUME ~overlap', family' # None PROVE Behind'
    BY DEF BehindInv
<1>1. Behind /\ family' = family
      BY DEF BehindInv
<1>2. PICK q : /\ Becomes(r, q)
               /\ \/ q = Idle
                  \/ q.step = "reply" /\ q.cookie = 0
                  \/ q.step # "reply" /\ q.presented = requests[r].presented
      BY DEF Goes
<1>3. requests[r].presented = jar
      BY <1>1 DEF Behind, Shows
<1>4. Shows(q, family, jar)
      BY <1>2, <1>3, IdleShows DEF Shows
<1>5. Alone' /\ \A s \in Request : Shows(requests'[s], family, jar)
      BY <1>1, <1>2, <1>4, Busy, MoverShows DEF Behind
<1> QED BY <1>1, <1>5 DEF Behind

LEMMA RefreshBehind ==
    ASSUME FamilyInv, BehindInv, NEW r \in Request, Refresh(r)
    PROVE  BehindInv'
<1> SUFFICES ASSUME ~overlap', family' # None PROVE Behind'
    BY DEF BehindInv
<1>1. /\ family # None /\ family' \in Family
      /\ Succeeds(family, requests[r].presented, requests[r].admission, requests[r].stamp, family')
      BY RefreshOutcome
<1>2. /\ ~overlap /\ jar' = jar /\ requests[r].step = "refresh"
      /\ ReplyWith(r, family'.current)
      BY DEF Refresh
<1>3. Behind /\ family \in Family
      BY <1>1, <1>2 DEF BehindInv, FamilyInv, FamilyOK
<1>4. requests[r].presented = jar
      BY <1>2, <1>3 DEF Behind, Shows
<1>5. family'.current - jar \in {0, 1}
  <2>1. Fields(family) /\ Valid(family) /\ Fields(family')
        BY <1>1, <1>3, FamilyFields
  <2>2. jar # 0
        BY <1>2, <1>4, Held DEF RequestOK
  <2>3. CASE jar = family.current /\ family'.current = family.current + 1
        BY <2>1, <2>3 DEF Fields, Generation
  <2>4. CASE jar = family.previous /\ family'.current = family.current
    <3>1. jar = family.current - 1
          BY <2>1, <2>2, <2>4 DEF Valid
    <3> QED BY <2>1, <2>4, <3>1 DEF Fields, Generation
  <2> QED BY <1>1, <1>4, <2>3, <2>4 DEF Succeeds
<1>6. PICK q : Becomes(r, q) /\ q.step = "reply" /\ q.cookie = family'.current
      BY <1>2, RepliesWith
<1>7. Shows(q, family', jar)
      BY <1>6 DEF Shows
<1>8. Alone' /\ \A s \in Request : Shows(requests'[s], family', jar)
      BY <1>2, <1>3, <1>6, <1>7, Busy, MoverShows DEF Behind
<1> QED BY <1>2, <1>5, <1>8 DEF Behind

LEMMA ReplyBehind ==
    ASSUME FamilyInv, BehindInv, NEW r \in Request, Reply(r) \/ LoseReply(r)
    PROVE  BehindInv'
<1> SUFFICES ASSUME ~overlap', family' # None PROVE Behind'
    BY DEF BehindInv
<1>1. /\ family' = family /\ overlap' = overlap /\ requests[r].step = "reply"
      /\ requests' = [requests EXCEPT ![r] = Idle] /\ jar' \in {jar, requests[r].cookie}
      BY DEF Reply, LoseReply
<1>2. Behind /\ family \in Family
      BY <1>1 DEF BehindInv, FamilyInv, FamilyOK
<1>3. Becomes(r, Idle)
      BY <1>1 DEF Becomes, FamilyInv
<1>4. requests[r].cookie \in {0, family.current} /\ family.current \in Generation
      BY <1>1, <1>2, FamilyFields DEF Behind, Shows, Fields
<1>5. jar' # 0 => family.current - jar' \in {0, 1}
      BY <1>1, <1>2, <1>4 DEF Behind, Generation
<1>6. Alone' /\ \A s \in Request : Shows(requests'[s], family, jar')
      BY <1>1, <1>2, <1>3, Busy, MoverShows, IdleShows DEF Behind
<1> QED BY <1>1, <1>5, <1>6 DEF Behind

LEMMA AllowedBehind ==
    ASSUME FamilyInv, BehindInv, NEW row, SetAllowed(row)
    PROVE  BehindInv'
<1>1. /\ UNCHANGED <<family, jar, overlap>>
      /\ requests' = [r \in Request |->
            IF requests[r] = Idle THEN Idle ELSE [requests[r] EXCEPT !.held = @ \cup EnabledEpochs(row)]]
      BY DEF SetAllowed
<1> SUFFICES ASSUME Behind PROVE Behind'
    BY <1>1 DEF BehindInv
<1>2. ASSUME NEW r \in Request
      PROVE  /\ Shows(requests'[r], family, jar)
             /\ requests[r] = Idle => requests'[r] = Idle
  <2>1. CASE requests[r] = Idle
        BY <1>1, <2>1, IdleShows
  <2>2. CASE requests[r] # Idle
    <3> DEFINE q == requests'[r]
               h == requests[r].held \cup EnabledEpochs(row)
    <3>1. q = Holds(requests[r], h)
          BY <1>1, <2>2 DEF Holds
    <3> HIDE DEF q, h
    <3>2. q.step = requests[r].step /\ q.presented = requests[r].presented
          /\ q.cookie = requests[r].cookie
          BY <3>1, Held, Holding
    <3>3. Shows(q, family, jar)
          BY <3>2 DEF Behind, Shows
    <3> QED BY <2>2, <3>3 DEF q
  <2> QED BY <2>1, <2>2
<1> QED BY <1>1, <1>2 DEF Behind, Alone

LEMMA NextBehind == FamilyInv /\ BehindInv /\ [Next]_vars => BehindInv'
<1> SUFFICES ASSUME FamilyInv, BehindInv, [Next]_vars PROVE BehindInv'
    OBVIOUS
<1>1. ASSUME NEW r \in Request, Handle(r) PROVE BehindInv'
  <2>1. CASE \E kind \in {"refresh", "status", "logout"} : Send(r, kind)
        BY <2>1, SendBehind
  <2>2. CASE GetFamily(r) \/ ResolveAdmission(r) \/ StampRefresh(r) \/ Revoke(r) \/ Unavailable(r)
        BY <2>2, HandlerGoes, GoesBehind
  <2>3. CASE Refresh(r)
        BY <2>3, RefreshBehind
  <2>4. CASE Reply(r) \/ LoseReply(r)
        BY <2>4, ReplyBehind
  <2> QED BY <1>1, <2>1, <2>2, <2>3, <2>4 DEF Handle
<1>2. CASE Alarm
      BY <1>2 DEF Alarm, BehindInv
<1>3. CASE AllowFid \/ DisableFid \/ BumpAuthEpoch
      BY <1>3, AllowedBehind DEF AllowFid, DisableFid, BumpAuthEpoch
<1>4. CASE Tick
      BY <1>4 DEF Tick, BehindInv, Behind, Alone
<1>5. CASE UNCHANGED vars
      BY <1>5 DEF vars, BehindInv, Behind, Alone
<1> QED BY <1>1, <1>2, <1>3, <1>4, <1>5 DEF Next

(* A browser that makes one request at a time is never more than one          *)
(* generation behind, whatever replies it loses (transitionSessionFamily and  *)
(* the cookie of a refresh).                                                  *)
THEOREM OneBehindAlways == Spec => []OneBehindAtMost
<1>1. BehindInv => OneBehindAtMost
      BY DEF BehindInv, Behind, OneBehindAtMost
<1> QED BY <1>1, BehindInit, NextBehind, FamilyCorrect, PTL DEF Spec
=============================================================================

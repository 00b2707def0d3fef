---------------------- MODULE ChallengeExchangeProofs -----------------------
(* One proof signs in once, and no failure upstream costs the player a live   *)
(* challenge, for every number of attempts and every lifetime of the          *)
(* challenge.                                                                 *)
EXTENDS ChallengeExchange, TLAPS

(* A challenge that is live after a step was live before it. *)
LEMMA LiveBefore ==
    ASSUME TypeOK, [Next]_vars, ~Expired'
    PROVE  ~Expired
<1>1. now' \in {now, now + 1}
  BY DEF Next, vars, Post, GetChallenge, Consume, Verify, Resolve, Sign, FinishSigning,
         CreateFamily, Confirm, Restore, PutChallenge, Alarm, Tick
<1> QED
  BY <1>1, ExchangeAssumption DEF Expired, TypeOK

LEMMA TypeStep ==
    ASSUME TypeOK, [Next]_vars
    PROVE  TypeOK'
<1> USE ExchangeAssumption
<1>1. ASSUME NEW a \in Attempt, Post(a) PROVE TypeOK'
  BY <1>1 DEF Post, TypeOK, Go, Step
<1>2. ASSUME NEW a \in Attempt, GetChallenge(a) PROVE TypeOK'
  BY <1>2 DEF GetChallenge, TypeOK, Go, Step, Usable, Expired
<1>3. ASSUME NEW a \in Attempt, Consume(a) PROVE TypeOK'
  BY <1>3 DEF Consume, TypeOK, Go, Step, Claimed, UsedUp, LeftByConsume
<1>4. ASSUME NEW a \in Attempt, Verify(a) PROVE TypeOK'
  BY <1>4 DEF Verify, TypeOK, Go, RefuseProof, GiveBack, Step, Claimed, UsedUp, Trouble
<1>5. ASSUME NEW a \in Attempt, Resolve(a) PROVE TypeOK'
  BY <1>5 DEF Resolve, TypeOK, Go, GiveBack, Step, Claimed, UsedUp, Trouble
<1>6. ASSUME NEW a \in Attempt, Sign(a) PROVE TypeOK'
  BY <1>6 DEF Sign, TypeOK, Go, Step, Claimed, UsedUp
<1>7. ASSUME NEW a \in Attempt, FinishSigning(a) PROVE TypeOK'
  BY <1>7 DEF FinishSigning, TypeOK, Go, GiveBack, Step, Claimed, UsedUp, Trouble
<1>8. ASSUME NEW a \in Attempt, CreateFamily(a) PROVE TypeOK'
  BY <1>8 DEF CreateFamily, TypeOK, Go, GiveBack, Step, Claimed, UsedUp, Trouble
<1>9. ASSUME NEW a \in Attempt, Confirm(a) PROVE TypeOK'
  BY <1>9 DEF Confirm, TypeOK, Go, Step, Claimed, UsedUp
<1>10. ASSUME NEW a \in Attempt, Restore(a) PROVE TypeOK'
  BY <1>10 DEF Restore, TypeOK, Go, Step, Claimed, UsedUp
<1>11. ASSUME NEW a \in Attempt, PutChallenge(a) PROVE TypeOK'
  BY <1>11 DEF PutChallenge, TypeOK, Go, Step, Claimed, UsedUp
<1>12. CASE Alarm
  BY <1>12 DEF Alarm, TypeOK
<1>13. CASE Tick
  BY <1>13 DEF Tick, TypeOK
<1>14. CASE UNCHANGED vars
  BY <1>14 DEF vars, TypeOK
<1> QED
  BY <1>1, <1>2, <1>3, <1>4, <1>5, <1>6, <1>7, <1>8, <1>9, <1>10, <1>11, <1>12, <1>13, <1>14
  DEF Next

(* The handler of a works on without claiming the challenge or giving it up.  *)
WorksOn(a) ==
    \/ Post(a) \/ GetChallenge(a) \/ Verify(a) \/ Resolve(a) \/ Sign(a)
    \/ FinishSigning(a) \/ CreateFamily(a) \/ Confirm(a) \/ Restore(a)

(* Working on leaves the challenge where it is, unless it has expired.        *)
LEMMA ClaimsStay ==
    ASSUME TypeOK, NEW a \in Attempt, WorksOn(a)
    PROVE  /\ stored' \in {stored, Usable} /\ lost' = lost
           /\ \A b \in Attempt : HasClaim(b)' => HasClaim(b)
           /\ ~Expired => \A b \in Attempt : AccountsFor(b) => AccountsFor(b)'
<1> USE DEF TypeOK, HasClaim, AccountsFor, Claimed, UsedUp, Go, GiveBack
<1>1. CASE Post(a)
  BY <1>1 DEF Post
<1>2. CASE GetChallenge(a)
  BY <1>2 DEF GetChallenge
<1>3. CASE Verify(a)
  BY <1>3 DEF Verify, RefuseProof
<1>4. CASE Resolve(a)
  BY <1>4 DEF Resolve
<1>5. CASE Sign(a)
  BY <1>5 DEF Sign
<1>6. CASE FinishSigning(a)
  BY <1>6 DEF FinishSigning
<1>7. CASE CreateFamily(a)
  BY <1>7 DEF CreateFamily
<1>8. CASE Confirm(a)
  BY <1>8 DEF Confirm, InTime
<1>9. CASE Restore(a)
  BY <1>9 DEF Restore
<1> QED
  BY <1>1, <1>2, <1>3, <1>4, <1>5, <1>6, <1>7, <1>8, <1>9 DEF WorksOn

(* A claim takes the challenge out of its Durable Object, for the handler or  *)
(* for nobody; one that fails leaves it there, or finds that it is not there  *)
(* or no longer live.                                                         *)
LEMMA ConsumeMoves ==
    ASSUME TypeOK, NEW a \in Attempt, Consume(a)
    PROVE  /\ ~HasClaim(a)
           /\ \A b \in Attempt \ {a} : HasClaim(b)' <=> HasClaim(b)
           /\ \A b \in Attempt : AccountsFor(b) => AccountsFor(b)'
           /\ \/ Usable /\ ~stored' /\ lost' = lost /\ HasClaim(a)' /\ AccountsFor(a)'
              \/ Usable /\ ~stored' /\ lost' /\ ~HasClaim(a)'
              \/ ~Usable /\ ~stored' /\ lost' = lost /\ ~HasClaim(a)'
              \/ stored' = stored /\ lost' = lost /\ ~HasClaim(a)'
BY DEF Consume, TypeOK, HasClaim, AccountsFor, Claimed, UsedUp, Go, LeftByConsume

(* Giving the challenge back puts it where it was, or loses it.               *)
LEMMA PutMoves ==
    ASSUME TypeOK, NEW a \in Attempt, PutChallenge(a)
    PROVE  /\ HasClaim(a) /\ ~HasClaim(a)'
           /\ \A b \in Attempt \ {a} : HasClaim(b)' <=> HasClaim(b)
           /\ (stored' /\ lost' = lost) \/ (stored' = stored /\ lost')
BY DEF PutChallenge, TypeOK, HasClaim, Claimed, UsedUp, Go

-----------------------------------------------------------------------------
Inv == TypeOK /\ OneClaim /\ NotForgotten

LEMMA InvInit == Init => Inv
<1> SUFFICES ASSUME Init PROVE Inv
  OBVIOUS
<1>1. TypeOK
  <2>1. now \in 0..MaxTime
    BY ExchangeAssumption DEF Init, ExchangeAssumption
  <2>2. /\ step \in [Attempt -> Step]
        /\ trouble \in [Attempt -> Trouble]
        /\ family \in [Attempt -> {"none", "live", "unknown", "revoked"}]
    BY DEF Init, Step, Trouble
  <2> QED
    BY <2>1, <2>2 DEF Init, TypeOK
<1>2. OneClaim
  BY DEF Init, OneClaim, HasClaim, Claimed, UsedUp
<1>3. NotForgotten
  BY DEF Init, NotForgotten
<1> QED
  BY <1>1, <1>2, <1>3 DEF Inv

LEMMA InvStep == Inv /\ [Next]_vars => Inv'
<1> SUFFICES ASSUME Inv, [Next]_vars PROVE Inv'
  OBVIOUS
<1> USE DEF Inv
<1>1. TypeOK' /\ (~Expired' => ~Expired)
  BY TypeStep, LiveBefore
<1>2. ASSUME NEW a \in Attempt, WorksOn(a) PROVE OneClaim' /\ NotForgotten'
  BY <1>1, <1>2, ClaimsStay DEF OneClaim, NotForgotten, Usable
<1>3. ASSUME NEW a \in Attempt, Consume(a) PROVE OneClaim' /\ NotForgotten'
  BY <1>1, <1>3, ConsumeMoves DEF OneClaim, NotForgotten, Usable
<1>4. ASSUME NEW a \in Attempt, PutChallenge(a) PROVE OneClaim' /\ NotForgotten'
  BY <1>1, <1>4, PutMoves DEF OneClaim, NotForgotten
<1>5. ASSUME Alarm \/ Tick \/ UNCHANGED vars PROVE OneClaim' /\ NotForgotten'
  <2>1. /\ stored' = stored \/ (Expired /\ ~stored')
        /\ lost' = lost
        /\ \A b \in Attempt : HasClaim(b)' <=> HasClaim(b)
        /\ \A b \in Attempt : AccountsFor(b)' <=> AccountsFor(b)
    BY <1>5 DEF Alarm, Tick, vars, HasClaim, AccountsFor
  <2> QED
    BY <1>1, <2>1 DEF OneClaim, NotForgotten
<1> QED
  BY <1>1, <1>2, <1>3, <1>4, <1>5 DEF Next, WorksOn

THEOREM InvAlways == Spec => []Inv
<1> QED
  BY InvInit, InvStep, PTL DEF Spec

(* One proof signs in at most once, and nobody else is working on it while it *)
(* can still be claimed (consume and restoreRetryableChallenge).              *)
THEOREM OneClaimAlways == Spec => []OneClaim
BY InvAlways, PTL DEF Inv

(* A live challenge is stored, unless its own object failed, a handler still  *)
(* works on it, it signed the player in or its proof was refused: "try again" *)
(* after a failure upstream means that one can (restoreRetryableChallenge).   *)
THEOREM NeverForgotten == Spec => []NotForgotten
BY InvAlways, PTL DEF Inv

-----------------------------------------------------------------------------
(* A family is live while its attempt is about to confirm it, and afterwards  *)
(* if it did.                                                                 *)
LiveOK(at, state) ==
    /\ at = "confirm" => state = "live"
    /\ state = "live" => at \in {"confirm", "succeeded"}

LiveInv == TypeOK /\ \A a \in Attempt : LiveOK(step[a], family[a])

(* What a step may do to one attempt. *)
Confirms(a) ==
    step'[a] # step[a] =>
      /\ step'[a] = "succeeded" => ~Expired /\ family'[a] = "live"
      /\ family'[a] = "live" => step'[a] \in {"confirm", "succeeded"}

LEMMA OwnStep ==
    ASSUME LiveInv, NEW a \in Attempt, WorksOn(a) \/ Consume(a) \/ PutChallenge(a)
    PROVE  LiveOK(step'[a], family'[a]) /\ Confirms(a)
<1> USE DEF LiveInv, TypeOK, LiveOK, Confirms, Go, GiveBack
<1>1. CASE Post(a) \/ GetChallenge(a) \/ Consume(a)
  BY <1>1 DEF Post, GetChallenge, Consume
<1>2. CASE Verify(a) \/ Resolve(a) \/ Sign(a) \/ FinishSigning(a)
  BY <1>2 DEF Verify, RefuseProof, Resolve, Sign, FinishSigning
<1>3. CASE CreateFamily(a)
  BY <1>3 DEF CreateFamily
<1>4. CASE Confirm(a)
  BY <1>4 DEF Confirm, InTime
<1>5. CASE Restore(a) \/ PutChallenge(a)
  BY <1>5 DEF Restore, PutChallenge
<1> QED
  BY <1>1, <1>2, <1>3, <1>4, <1>5 DEF WorksOn

LEMMA OthersStay ==
    ASSUME LiveInv, NEW a \in Attempt, NEW b \in Attempt \ {a},
           WorksOn(a) \/ Consume(a) \/ PutChallenge(a)
    PROVE  step'[b] = step[b] /\ family'[b] = family[b]
<1> USE DEF LiveInv, TypeOK, Go, GiveBack
<1>1. CASE Post(a) \/ GetChallenge(a) \/ Consume(a)
  BY <1>1 DEF Post, GetChallenge, Consume
<1>2. CASE Verify(a) \/ Resolve(a) \/ Sign(a) \/ FinishSigning(a)
  BY <1>2 DEF Verify, RefuseProof, Resolve, Sign, FinishSigning
<1>3. CASE CreateFamily(a)
  BY <1>3 DEF CreateFamily
<1>4. CASE Confirm(a)
  BY <1>4 DEF Confirm
<1>5. CASE Restore(a) \/ PutChallenge(a)
  BY <1>5 DEF Restore, PutChallenge
<1> QED
  BY <1>1, <1>2, <1>3, <1>4, <1>5 DEF WorksOn

LEMMA LiveStep ==
    ASSUME LiveInv, [Next]_vars
    PROVE  LiveInv' /\ \A a \in Attempt : Confirms(a)
<1>1. TypeOK'
  BY TypeStep DEF LiveInv
<1>2. ASSUME NEW a \in Attempt, WorksOn(a) \/ Consume(a) \/ PutChallenge(a)
      PROVE  \A b \in Attempt : LiveOK(step'[b], family'[b]) /\ Confirms(b)
  <2> TAKE b \in Attempt
  <2>1. CASE b = a
    BY <1>2, <2>1, OwnStep
  <2>2. CASE b # a
    BY <1>2, <2>2, OthersStay DEF LiveInv, Confirms
  <2> QED
    BY <2>1, <2>2
<1>3. ASSUME Alarm \/ Tick \/ UNCHANGED vars
      PROVE  \A b \in Attempt : LiveOK(step'[b], family'[b]) /\ Confirms(b)
  BY <1>3 DEF Alarm, Tick, vars, LiveInv, Confirms
<1>4. \A b \in Attempt : LiveOK(step'[b], family'[b]) /\ Confirms(b)
  BY <1>2, <1>3 DEF Next, WorksOn
<1> QED
  BY <1>1, <1>4 DEF LiveInv

(* For any number of attempts a session works only if its attempt confirmed   *)
(* it before the challenge expired (CreateFamily, storedAt).                  *)
THEOREM SessionsConfirmedAlways == Spec => SessionsConfirmed
<1> DEFINE Step1 == \A a \in Attempt : Confirms(a)
<1>1. Init => LiveInv
  BY InvInit DEF Init, Inv, LiveInv, LiveOK
<1>2. LiveInv /\ [Next]_vars => LiveInv' /\ [Step1]_vars
  BY LiveStep
<1>3. [Step1]_vars <=> [\A a \in Attempt : step'[a] # step[a] =>
          /\ step'[a] = "succeeded" => ~Expired /\ family'[a] = "live"
          /\ family'[a] = "live" => step'[a] \in {"confirm", "succeeded"}]_vars
  BY DEF Confirms
<1> QED
  BY <1>1, <1>2, <1>3, PTL DEF Spec, SessionsConfirmed
=============================================================================

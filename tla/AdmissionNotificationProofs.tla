--------------------- MODULE AdmissionNotificationProofs ---------------------
(* The notification object of one player, for any number of apps, tokens,     *)
(* requests, attempts and evictions: its records always load again, receipts  *)
(* are final, a delivery that nobody recovered has one target, and a token    *)
(* that was taken back is not used as long as the tombstones have room.       *)
(*                                                                            *)
(* The argument: an operation on rows keeps them sound (RowOK) and follows    *)
(* the rows it started from (Follows): receipts only grow, a token that is    *)
(* given up leaves a tombstone, and a delivery that goes on keeps its token   *)
(* or is over.  An attempt that is under way (UnderWay) is at a token that is *)
(* still subscribed, because only it can change the rows meanwhile.           *)
EXTENDS AdmissionNotification, FiniteSetTheorems, SequenceTheorems, TLAPS

-----------------------------------------------------------------------------
LEMMA Bounds ==
    /\ MaxAttempts \in Nat \ {0} /\ MaxFailures \in Nat \ {0} /\ MaxSeen \in Nat \ {0}
    /\ MaxRevoked \in Nat \ {0} /\ DeliveryLife \in Nat \ {0} /\ SubscriptionLife \in Nat
    /\ MaxRequest \in Nat /\ MaxTime \in Nat /\ Skew \in Nat /\ LastCall \in Nat
BY NotificationAssumption

-----------------------------------------------------------------------------
(* Least and greatest members, listings and lists without repetitions.        *)
LEMMA Least ==
    ASSUME NEW S, S \subseteq Nat, S # {}
    PROVE  Min(S) \in S /\ \A y \in S : Min(S) <= y
<1> DEFINE Below(x) == {y \in S : y <= x}
           T == {Below(x) : x \in S}
<1>1. T # {} /\ T \subseteq FiniteSubsetsOf(Nat)
  <2>1. ASSUME NEW x \in S PROVE Below(x) \in FiniteSubsetsOf(Nat)
    <3>1. Below(x) \in SUBSET Nat /\ x \in Nat /\ \A y \in Below(x) : y <= x
          OBVIOUS
    <3>2. IsFiniteSet(Below(x))
          BY <3>1, FS_BoundedSetOfNaturals
    <3> QED BY <3>1, <3>2 DEF FiniteSubsetsOf
  <2> QED BY <2>1
<1>2. PICK B \in T : \A C \in T : <<C, B>> \notin StrictSubsetOrdering(Nat)
  <2> HIDE DEF T
  <2> QED BY <1>1, FS_StrictSubsetOrderingWellFounded, WFMin
<1>3. PICK x \in S : B = Below(x)
      OBVIOUS
<1>4. ASSUME NEW y \in S PROVE x <= y
  <2>1. SUFFICES ASSUME y < x PROVE FALSE
        OBVIOUS
  <2>2. Below(y) \in T /\ Below(y) \subseteq Below(x) /\ x \in Below(x) /\ x \notin Below(y)
    <3>1. y \in Nat /\ x \in Nat
          OBVIOUS
    <3>2. \A z \in Below(y) : z \in S /\ z \in Nat /\ z <= y
          OBVIOUS
    <3>3. \A z \in Below(y) : z <= x
          BY <2>1, <3>1, <3>2
    <3>4. Below(y) \subseteq Below(x)
          BY <3>2, <3>3
    <3>5. x \in Below(x) /\ Below(y) \in T
          BY <3>1
    <3>6. x \notin Below(y)
          BY <2>1, <3>1, <3>2
    <3> QED BY <3>4, <3>5, <3>6
  <2>3. <<Below(y), Below(x)>> \in StrictSubsetOrdering(Nat)
        BY <2>2 DEF StrictSubsetOrdering
  <2> QED BY <1>2, <1>3, <2>2, <2>3
<1> QED BY <1>4 DEF Min

LEMMA Greatest ==
    ASSUME NEW A, IsFiniteSet(A), A # {}, NEW f, \A a \in A : f[a] \in Nat
    PROVE  \E a \in A : \A c \in A : f[c] <= f[a]
<1> DEFINE Above(a) == {c \in A : f[a] <= f[c]}
           T == {Above(a) : a \in A}
<1>1. T # {} /\ T \subseteq FiniteSubsetsOf(A)
  <2>1. ASSUME NEW a \in A PROVE Above(a) \in FiniteSubsetsOf(A)
        BY FS_Subset DEF FiniteSubsetsOf
  <2> QED BY <2>1
<1>2. PICK B \in T : \A C \in T : <<C, B>> \notin StrictSubsetOrdering(A)
  <2> HIDE DEF T
  <2> QED BY <1>1, FS_StrictSubsetOrderingWellFounded, WFMin
<1>3. PICK a \in A : B = Above(a)
      OBVIOUS
<1>4. ASSUME NEW c \in A PROVE f[c] <= f[a]
  <2>1. SUFFICES ASSUME f[a] < f[c] PROVE FALSE
        OBVIOUS
  <2>2. Above(c) \in T /\ Above(c) \subseteq Above(a) /\ a \in Above(a) /\ a \notin Above(c)
    <3>1. f[a] \in Nat /\ f[c] \in Nat
          OBVIOUS
    <3>2. \A z \in Above(c) : z \in A /\ f[z] \in Nat /\ f[c] <= f[z]
          OBVIOUS
    <3>3. \A z \in Above(c) : f[a] <= f[z]
          BY <2>1, <3>1, <3>2
    <3> QED BY <2>1, <3>1, <3>2, <3>3
  <2>3. <<Above(c), Above(a)>> \in StrictSubsetOrdering(A)
        BY <2>2 DEF StrictSubsetOrdering
  <2> QED BY <1>2, <1>3, <2>2, <2>3
<1> QED BY <1>4

LEMMA Listing ==
    ASSUME NEW S, IsFiniteSet(S)
    PROVE  /\ SetToSeq(S) \in Seq(S)
           /\ ToSet(SetToSeq(S)) = S
           /\ \A i, j \in DOMAIN SetToSeq(S) : SetToSeq(S)[i] = SetToSeq(S)[j] => i = j
<1> DEFINE I == 1..Cardinality(S)
<1>1. /\ Cardinality(S) \in Nat /\ \E f : f \in Bijection(I, S)
      BY FS_CardinalityType DEF ExistsBijection
<1>2. PICK f \in [I -> S] : IsInjective(f)
      BY <1>1 DEF Bijection, Injection
<1>3. SetToSeq(S) \in [I -> S] /\ IsInjective(SetToSeq(S))
      BY <1>2 DEF SetToSeq
<1>4. Cardinality(I) = Cardinality(S) /\ IsFiniteSet(I)
      BY <1>1, FS_Interval
<1>5. SetToSeq(S) \in Surjection(I, S)
      BY <1>3, <1>4, FS_Injection DEF Injection
<1>6. SetToSeq(S) \in Seq(S)
      BY <1>1, <1>3, IsASeq
<1> QED BY <1>3, <1>5, <1>6 DEF Surjection, IsInjective, ToSet

LEMMA ImageFinite ==
    ASSUME NEW A, IsFiniteSet(A), NEW f
    PROVE  IsFiniteSet({f[a] : a \in A})
<1> DEFINE T == {f[a] : a \in A}
           h == [a \in A |-> f[a]]
<1>1. h \in Surjection(A, T)
      BY DEF Surjection
<1> QED BY <1>1, FS_Surjection

(* A list without repetitions. *)
Distinct(list) == \A i, j \in DOMAIN list : list[i] = list[j] => i = j

LEMMA DistinctLength ==
    ASSUME NEW S, IsFiniteSet(S), NEW list \in Seq(S), Distinct(list)
    PROVE  Len(list) <= Cardinality(S)
<1> DEFINE I == 1..Len(list)
<1>1. Len(list) \in Nat /\ list \in [I -> S] /\ DOMAIN list = I
      BY LenProperties
<1>2. list \in Injection(I, S)
      BY <1>1 DEF Injection, IsInjective, Distinct
<1>3. Cardinality(I) = Len(list)
  <2>1. PICK n \in Nat : n = Len(list)
        BY <1>1
  <2>2. Cardinality(1..n) = IF 1 > n THEN 0 ELSE n - 1 + 1
        BY FS_Interval
  <2>3. Cardinality(1..n) = n
        BY <2>2
  <2> QED BY <2>1, <2>3
<1> QED BY <1>2, <1>3, FS_Injection

LEMMA NewestFacts ==
    ASSUME NEW S, NEW list \in Seq(S), NEW bound \in Nat \ {0}
    PROVE  /\ Newest(list, bound) \in Seq(S)
           /\ Len(Newest(list, bound)) <= bound
           /\ Len(list) <= bound => Newest(list, bound) = list
<1> DEFINE n == Len(list)
           m == IF n > bound THEN n - bound + 1 ELSE 1
<1>1. n \in Nat /\ m \in 1..(n + 1) /\ Newest(list, bound) = SubSeq(list, m, n)
      BY LenProperties DEF Newest
<1>2. SubSeq(list, m, n) \in Seq(S) /\ Len(SubSeq(list, m, n)) = IF m <= n THEN n - m + 1 ELSE 0
      BY <1>1, SubSeqProperties
<1>3. Len(list) <= bound => Newest(list, bound) = list
  <2>1. SUFFICES ASSUME n <= bound PROVE Newest(list, bound) = list
        OBVIOUS
  <2>2. ~(Len(list) > bound)
        BY <1>1, <2>1
  <2>3. Newest(list, bound) = SubSeq(list, 1, Len(list))
        BY <2>2 DEF Newest
  <2> QED BY <2>3, SubSeqFull
<1>4. Len(SubSeq(list, m, n)) <= bound
      BY <1>1, <1>2
<1> QED BY <1>1, <1>2, <1>3, <1>4

-----------------------------------------------------------------------------
(* Rows. *)
IsState(rw) ==
    rw = [subs |-> rw.subs, seen |-> rw.seen, revoked |-> rw.revoked,
          retention |-> rw.retention, sent |-> rw.sent, exhausted |-> rw.exhausted,
          recovery |-> rw.recovery, delivery |-> rw.delivery]

StateFields(rw) ==
    /\ rw.subs \in [App -> Subscription \cup {None}]
    /\ rw.seen \in Seq(Event) /\ rw.revoked \in Seq(Token)
    /\ rw.retention \in Nat /\ rw.sent \in Nat /\ rw.exhausted \in Nat
    /\ rw.recovery \in Recovery \cup {None} /\ rw.delivery \in Delivery \cup {None}

LEMMA StateType ==
    ASSUME NEW rw
    PROVE  rw \in State <=> IsState(rw) /\ StateFields(rw)
<1>1. ASSUME rw \in State PROVE IsState(rw) /\ StateFields(rw)
      BY <1>1 DEF State, IsState, StateFields
<1>2. ASSUME IsState(rw), StateFields(rw) PROVE rw \in State
      BY <1>2 DEF State, IsState, StateFields
<1> QED BY <1>1, <1>2

IsDelivery(d) ==
    d = [request |-> d.request, queuedAt |-> d.queuedAt, expiresAt |-> d.expiresAt,
         recovery |-> d.recovery, attempt |-> d.attempt]

DeliveryFields(d) ==
    /\ d.request \in Nat /\ d.queuedAt \in Nat /\ d.expiresAt \in Nat
    /\ d.recovery \in RecoveryId \cup {None} /\ d.attempt \in Attempt \cup {None}

LEMMA DeliveryType ==
    ASSUME NEW d
    PROVE  d \in Delivery <=> IsDelivery(d) /\ DeliveryFields(d)
<1>1. ASSUME d \in Delivery PROVE IsDelivery(d) /\ DeliveryFields(d)
      BY <1>1 DEF Delivery, IsDelivery, DeliveryFields
<1>2. ASSUME IsDelivery(d), DeliveryFields(d) PROVE d \in Delivery
      BY <1>2 DEF Delivery, IsDelivery, DeliveryFields
<1> QED BY <1>1, <1>2

IsAttempt(x) ==
    x = [app |-> x.app, token |-> x.token, status |-> x.status, attempts |-> x.attempts,
         failures |-> x.failures, next |-> x.next]

AttemptFields(x) ==
    /\ x.app \in App /\ x.token \in Token
    /\ x.status \in {"pending", "retrying", "sent", "exhausted"}
    /\ x.attempts \in 0..MaxAttempts /\ x.failures \in 0..MaxFailures
    /\ x.next \in Nat \cup {Never}

LEMMA AttemptType ==
    ASSUME NEW x
    PROVE  x \in Attempt <=> IsAttempt(x) /\ AttemptFields(x)
<1>1. ASSUME x \in Attempt PROVE IsAttempt(x) /\ AttemptFields(x)
      BY <1>1 DEF Attempt, IsAttempt, AttemptFields
<1>2. ASSUME IsAttempt(x), AttemptFields(x) PROVE x \in Attempt
      BY <1>2 DEF Attempt, IsAttempt, AttemptFields
<1> QED BY <1>1, <1>2

-----------------------------------------------------------------------------
(* Tokens that are not taken again.  As long as there is room for all tokens, *)
(* none is forgotten.                                                         *)
Few == IsFiniteSet(Token) /\ Cardinality(Token) <= MaxRevoked

LEMMA Revoking ==
    ASSUME NEW list \in Seq(Token), NEW T, T \subseteq Token, IsFiniteSet(T),
           NEW n, n = Newest(list \o SetToSeq(T \ ToSet(list)), MaxRevoked)
    PROVE  /\ n \in Seq(Token) /\ Len(n) <= MaxRevoked
           /\ Few /\ Distinct(list) => Distinct(n) /\ ToSet(n) = ToSet(list) \cup T
<1>1. PICK R : R = T \ ToSet(list)
      OBVIOUS
<1>2. PICK r : r = SetToSeq(R)
      OBVIOUS
<1>3. R \subseteq Token /\ IsFiniteSet(R)
      BY <1>1, FS_Subset
<1>4. r \in Seq(R) /\ ToSet(r) = R /\ Distinct(r)
      BY <1>2, <1>3, Listing DEF Distinct
<1>5. PICK all : all = list \o r
      OBVIOUS
<1>6. r \in Seq(Token)
      BY <1>3, <1>4, SeqMonotonic
<1>7. /\ all \in Seq(Token) /\ Len(all) = Len(list) + Len(r)
      /\ \A i \in 1..Len(list) : all[i] = list[i]
      /\ \A i \in (Len(list) + 1)..(Len(list) + Len(r)) : all[i] = r[i - Len(list)]
      BY <1>5, <1>6, ConcatProperties
<1>8. n = Newest(all, MaxRevoked) /\ MaxRevoked \in Nat \ {0}
      BY <1>1, <1>2, <1>5, Bounds
<1>9. n \in Seq(Token) /\ Len(n) <= MaxRevoked
      BY <1>7, <1>8, NewestFacts
<1>10. ASSUME Few, Distinct(list) PROVE Distinct(n) /\ ToSet(n) = ToSet(list) \cup T
  <2>1. /\ Len(list) \in Nat /\ Len(r) \in Nat /\ DOMAIN list = 1..Len(list)
        /\ DOMAIN r = 1..Len(r) /\ DOMAIN all = 1..(Len(list) + Len(r))
        BY <1>6, <1>7, LenProperties
  <2>2. ASSUME NEW i \in DOMAIN all
        PROVE  \/ i \in DOMAIN list /\ all[i] = list[i] /\ all[i] \in ToSet(list)
               \/ i \notin DOMAIN list /\ i - Len(list) \in DOMAIN r /\ all[i] = r[i - Len(list)] /\ all[i] \in R
    <3>1. CASE i <= Len(list)
      <4>1. i \in DOMAIN list /\ all[i] = list[i]
            BY <1>7, <2>1, <3>1
      <4> QED BY <4>1 DEF ToSet
    <3>2. CASE ~(i <= Len(list))
      <4>1. i \notin DOMAIN list /\ i - Len(list) \in DOMAIN r /\ all[i] = r[i - Len(list)]
            BY <1>7, <2>1, <3>2
      <4>2. r[i - Len(list)] \in ToSet(r)
            BY <4>1 DEF ToSet
      <4> QED BY <1>4, <4>1, <4>2
    <3> QED BY <3>1, <3>2
  <2>3. Distinct(all)
    <3>1. SUFFICES ASSUME NEW i \in DOMAIN all, NEW j \in DOMAIN all, all[i] = all[j]
                   PROVE  i = j
          BY DEF Distinct
    <3>2. R \cap ToSet(list) = {}
          BY <1>1
    <3>3. CASE i \in DOMAIN list
      <4>1. j \in DOMAIN list /\ list[i] = list[j]
            BY <2>2, <3>1, <3>2, <3>3
      <4> QED BY <1>10, <3>3, <4>1 DEF Distinct
    <3>4. CASE i \notin DOMAIN list
      <4>1. /\ i - Len(list) \in DOMAIN r /\ j - Len(list) \in DOMAIN r
            /\ r[i - Len(list)] = r[j - Len(list)]
            BY <2>2, <3>1, <3>2, <3>4
      <4>2. i - Len(list) = j - Len(list)
            BY <1>4, <4>1 DEF Distinct
      <4> QED BY <2>1, <4>2
    <3> QED BY <3>3, <3>4
  <2>4. Len(all) <= MaxRevoked
    <3>1. Len(all) <= Cardinality(Token)
          BY <1>7, <1>10, <2>3, DistinctLength DEF Few
    <3>2. Cardinality(Token) \in Nat /\ Len(all) \in Nat
          BY <1>7, <1>10, <2>1, FS_CardinalityType DEF Few
    <3> QED BY <1>8, <1>10, <3>1, <3>2 DEF Few
  <2>5. n = all
        BY <1>7, <1>8, <2>4, NewestFacts
  <2>6. ToSet(all) \subseteq ToSet(list) \cup T
    <3>1. \A i \in DOMAIN all : all[i] \in ToSet(list) \cup R
          BY <2>2
    <3> QED BY <1>1, <3>1 DEF ToSet
  <2>7. ToSet(list) \subseteq ToSet(all)
    <3>1. ASSUME NEW i \in DOMAIN list PROVE i \in DOMAIN all /\ all[i] = list[i]
          BY <1>7, <2>1
    <3> QED BY <3>1 DEF ToSet
  <2>8. R \subseteq ToSet(all)
    <3>1. ASSUME NEW i \in DOMAIN r
          PROVE  Len(list) + i \in DOMAIN all /\ all[Len(list) + i] = r[i]
      <4>1. i \in Nat /\ Len(list) + i \in (Len(list) + 1)..(Len(list) + Len(r))
            BY <2>1
      <4>2. (Len(list) + i) - Len(list) = i
            BY <2>1, <4>1
      <4> QED BY <1>7, <2>1, <4>1, <4>2
    <3>2. ToSet(r) \subseteq ToSet(all)
          BY <3>1 DEF ToSet
    <3> QED BY <1>4, <3>2
  <2> QED BY <1>1, <2>3, <2>5, <2>6, <2>7, <2>8
<1> QED BY <1>9, <1>10

-----------------------------------------------------------------------------
(* What is done to rows. *)
SubsOK(rw) == \A a \in Subscribed(rw) : AppOf[rw.subs[a].token] = a

Listed(rw) == Len(rw.seen) <= MaxSeen /\ Len(rw.revoked) <= MaxRevoked

Clean(rw) == Few => Tokens(rw) \cap ToSet(rw.revoked) = {} /\ Distinct(rw.revoked)

Forgets(w, n) == Few => (ToSet(w.revoked) \cup (Tokens(w) \ Tokens(n))) \subseteq ToSet(n.revoked)

SameWork(w, n) ==
    /\ n.sent = w.sent /\ n.exhausted = w.exhausted
    /\ n.recovery = w.recovery /\ n.delivery = w.delivery

(* Only subscriptions have gone from w to n. *)
Shrunk(w, n) ==
    /\ n \in State /\ SubsOK(n) /\ Len(n.revoked) <= MaxRevoked /\ Clean(n) /\ Forgets(w, n)
    /\ n.seen = w.seen /\ n.retention = w.retention /\ SameWork(w, n)
    /\ Subscribed(n) \subseteq Subscribed(w)
    /\ \A a \in Subscribed(n) : n.subs[a] = w.subs[a]

LEMMA SubscriptionFacts ==
    ASSUME NEW rw \in State, NEW a \in Subscribed(rw)
    PROVE  /\ a \in App /\ rw.subs[a] \in Subscription /\ rw.subs[a] # None
           /\ rw.subs[a].token \in Token /\ rw.subs[a].enabledAt \in Nat
           /\ rw.subs[a].expiresAt \in Nat
<1>1. a \in App /\ rw.subs[a] \in Subscription /\ rw.subs[a] # None
      BY StateType DEF StateFields, Subscribed
<1> QED BY <1>1 DEF Subscription

TokensOf(rw, apps) == {rw.subs[a].token : a \in apps}

RevokedBy(rw, apps) ==
    Newest(rw.revoked \o SetToSeq(TokensOf(rw, apps) \ ToSet(rw.revoked)), MaxRevoked)

LEMMA EndingFields ==
    ASSUME NEW rw, IsState(rw), NEW apps, NEW n, n = Ending(rw, apps)
    PROVE  /\ IsState(n)
           /\ n.subs = [a \in App |-> IF a \in apps THEN None ELSE rw.subs[a]]
           /\ n.revoked = RevokedBy(rw, apps)
           /\ n.seen = rw.seen /\ n.retention = rw.retention /\ SameWork(rw, n)
<1> DEFINE T == TokensOf(rw, apps)
           v == RevokedBy(rw, apps)
<1>1. PICK m : m = WithRevoked(rw, T)
      OBVIOUS
<1>2. m = [rw EXCEPT !.revoked = v]
      BY <1>1 DEF WithRevoked, RevokedBy
<1>3. n = [m EXCEPT !.subs = [a \in App |-> IF a \in apps THEN None ELSE m.subs[a]]]
      BY <1>1 DEF Ending, TokensOf
<1>4. IsState(m) /\ m.revoked = v /\ m.subs = rw.subs /\ m.seen = rw.seen
      /\ m.retention = rw.retention /\ SameWork(rw, m)
      BY <1>2 DEF IsState, SameWork
<1>5. IsState(n) /\ n.revoked = v /\ n.seen = rw.seen /\ n.retention = rw.retention /\ SameWork(m, n)
      /\ n.subs = [a \in App |-> IF a \in apps THEN None ELSE m.subs[a]]
      BY <1>3, <1>4 DEF IsState, SameWork
<1> QED BY <1>4, <1>5 DEF SameWork

LEMMA EndingOK ==
    ASSUME NEW rw \in State, SubsOK(rw), Clean(rw), NEW apps, apps \subseteq Subscribed(rw),
           NEW n, n = Ending(rw, apps)
    PROVE  /\ Shrunk(rw, n) /\ Subscribed(n) = Subscribed(rw) \ apps
           /\ Few => ToSet(n.revoked) = ToSet(rw.revoked) \cup TokensOf(rw, apps)
<1> DEFINE T == TokensOf(rw, apps)
           v == RevokedBy(rw, apps)
<1>1. IsState(rw) /\ StateFields(rw)
      BY StateType
<1>2. /\ IsState(n)
      /\ n.subs = [a \in App |-> IF a \in apps THEN None ELSE rw.subs[a]]
      /\ n.revoked = v
      /\ n.seen = rw.seen /\ n.retention = rw.retention /\ SameWork(rw, n)
      BY <1>1, EndingFields
<1>3. T \subseteq Token /\ IsFiniteSet(T)
  <2>1. T \subseteq Token
        BY SubscriptionFacts DEF TokensOf
  <2>2. apps \subseteq App /\ IsFiniteSet(apps)
        BY NotificationAssumption, FS_Subset DEF Subscribed
  <2> DEFINE f == [a \in apps |-> rw.subs[a].token]
  <2>3. T = {f[a] : a \in apps}
        BY DEF TokensOf
  <2>4. IsFiniteSet({f[a] : a \in apps})
    <3> HIDE DEF f
    <3> QED BY <2>2, ImageFinite
  <2> QED BY <2>1, <2>3, <2>4
<1>4. /\ v \in Seq(Token) /\ Len(v) <= MaxRevoked
      /\ Few /\ Distinct(rw.revoked) => Distinct(v) /\ ToSet(v) = ToSet(rw.revoked) \cup T
  <2>1. rw.revoked \in Seq(Token)
        BY <1>1 DEF StateFields
  <2> QED BY <1>3, <2>1, Revoking DEF RevokedBy
<1>5. n \in State
      BY <1>1, <1>2, <1>4, StateType DEF StateFields, SameWork
<1>6. /\ Subscribed(n) = Subscribed(rw) \ apps
      /\ \A a \in Subscribed(n) : n.subs[a] = rw.subs[a]
      BY <1>2 DEF Subscribed
<1>7. SubsOK(n)
      BY <1>6 DEF SubsOK
<1>8. ASSUME Few PROVE /\ Tokens(n) \cap ToSet(n.revoked) = {} /\ Distinct(n.revoked)
                       /\ (ToSet(rw.revoked) \cup (Tokens(rw) \ Tokens(n))) \subseteq ToSet(n.revoked)
                       /\ ToSet(n.revoked) = ToSet(rw.revoked) \cup T
  <2>1. Distinct(n.revoked) /\ ToSet(n.revoked) = ToSet(rw.revoked) \cup T
        /\ Tokens(rw) \cap ToSet(rw.revoked) = {}
        BY <1>2, <1>4, <1>8 DEF Clean
  <2>2. ASSUME NEW a \in Subscribed(n) PROVE n.subs[a].token \notin ToSet(n.revoked)
    <3>1. n.subs[a] = rw.subs[a] /\ a \in Subscribed(rw) /\ a \notin apps
          BY <1>6
    <3>2. rw.subs[a].token \notin ToSet(rw.revoked)
          BY <2>1, <3>1 DEF Tokens
    <3>3. rw.subs[a].token \notin T
          BY <3>1 DEF SubsOK, TokensOf
    <3> QED BY <2>1, <3>1, <3>2, <3>3
  <2>3. ASSUME NEW a \in Subscribed(rw), rw.subs[a].token \notin Tokens(n)
        PROVE  rw.subs[a].token \in T
        BY <1>6, <2>3 DEF Tokens, TokensOf
  <2> QED BY <2>1, <2>2, <2>3 DEF Tokens
<1> QED BY <1>2, <1>4, <1>5, <1>6, <1>7, <1>8 DEF Shrunk, Clean, Forgets

LEMMA PruneOK ==
    ASSUME NEW rw \in State, SubsOK(rw), Listed(rw), Clean(rw), NEW t, NEW n, n = Prune(rw, t)
    PROVE  Shrunk(rw, n)
<1> DEFINE apps == {a \in Subscribed(rw) : rw.subs[a].expiresAt <= t \/ a \notin config.clients}
<1>1. apps \subseteq Subscribed(rw) /\ n = (IF apps = {} THEN rw ELSE Ending(rw, apps))
      BY DEF Prune
<1>2. CASE apps = {}
  <2>1. n = rw
        BY <1>1, <1>2
  <2> QED BY <2>1 DEF Shrunk, Listed, Clean, Forgets, SameWork
<1>3. CASE apps # {}
  <2>1. n = Ending(rw, apps)
        BY <1>1, <1>3
  <2> HIDE DEF apps
  <2> QED BY <1>1, <2>1, EndingOK
<1> QED BY <1>2, <1>3

LEMMA UnsubscribedOK ==
    ASSUME NEW rw \in State, SubsOK(rw), Clean(rw), NEW a, NEW n, n = Unsubscribed(rw, a)
    PROVE  /\ Shrunk(rw, n) /\ Subscribed(n) = Subscribed(rw) \ {a}
           /\ Few /\ a \in Subscribed(rw) =>
                 ToSet(n.revoked) = ToSet(rw.revoked) \cup {rw.subs[a].token}
<1> DEFINE apps == {a} \cap Subscribed(rw)
<1>1. apps \subseteq Subscribed(rw) /\ n = Ending(rw, apps) /\ Subscribed(rw) \ apps = Subscribed(rw) \ {a}
      BY DEF Unsubscribed
<1>2. a \in Subscribed(rw) => TokensOf(rw, apps) = {rw.subs[a].token}
      BY DEF TokensOf
<1> HIDE DEF apps
<1> QED BY <1>1, <1>2, EndingOK

-----------------------------------------------------------------------------
(* Rows that are sound when the player has made g requests.                   *)
Live(x) == x.status \in {"pending", "retrying"}

AttemptOK(x) ==
    /\ x \in Attempt
    /\ x.status = "retrying" <=> x.next # Never
    /\ Live(x) => x.attempts < MaxAttempts

DeliveryOK(d, rec, g) ==
    /\ d \in Delivery
    /\ d.expiresAt = d.queuedAt + DeliveryLife
    /\ rec # None /\ rec.request = d.request => d.recovery = rec.id /\ d.queuedAt = rec.at
    /\ d.recovery # None => rec # None /\ rec.request = d.request
    /\ d.request <= g
    /\ d.attempt # None => AttemptOK(d.attempt)

RowOK(rw, g) ==
    /\ rw \in State /\ SubsOK(rw) /\ Listed(rw) /\ Clean(rw)
    /\ rw.sent <= g /\ rw.exhausted <= g
    /\ rw.recovery # None => rw.exhausted >= rw.recovery.request
    /\ rw.delivery # None => DeliveryOK(rw.delivery, rw.recovery, g)

(* A delivery without an attempt has nobody to go to, or is over. *)
Aimed(rw) ==
    rw.delivery # None /\ rw.delivery.attempt = None =>
        Subscribed(rw) = {} \/ ExhaustedFor(rw, rw.delivery.request)

(* What the rows n that follow w keep of it: receipts, tombstones, and the    *)
(* token of a delivery that goes on.                                          *)
Keeps(w, n) ==
    w.delivery # None /\ n.delivery # None /\ SameDelivery(w.delivery, n.delivery)
      /\ w.delivery.attempt # None =>
        \/ n.delivery.attempt # None /\ n.delivery.attempt.token = w.delivery.attempt.token
        \/ ExhaustedFor(n, n.delivery.request)

Follows(w, n) ==
    /\ w.sent <= n.sent /\ w.exhausted <= n.exhausted
    /\ Forgets(w, n) /\ Keeps(w, n)

SameLists(w, n) ==
    /\ n.subs = w.subs /\ n.seen = w.seen /\ n.revoked = w.revoked /\ n.retention = w.retention

LEMMA SameListsOK ==
    ASSUME NEW w \in State, NEW n \in State, SameLists(w, n)
    PROVE  /\ SubsOK(w) => SubsOK(n)
           /\ Listed(w) => Listed(n)
           /\ Clean(w) => Clean(n)
           /\ Subscribed(n) = Subscribed(w) /\ Tokens(n) = Tokens(w)
           /\ Forgets(w, n)
<1>1. Subscribed(n) = Subscribed(w) /\ n.subs = w.subs /\ n.revoked = w.revoked /\ n.seen = w.seen
      BY DEF SameLists, Subscribed
<1>2. Tokens(n) = Tokens(w)
      BY <1>1 DEF Tokens
<1> QED BY <1>1, <1>2 DEF SubsOK, Listed, Clean, Forgets

WithDelivery(rw, d) == [rw EXCEPT !.delivery = d]

LEMMA DeliverySet ==
    ASSUME NEW rw \in State, NEW d \in Delivery \cup {None}, NEW n, n = WithDelivery(rw, d)
    PROVE  /\ n \in State /\ SameLists(rw, n) /\ n.delivery = d
           /\ n.sent = rw.sent /\ n.exhausted = rw.exhausted /\ n.recovery = rw.recovery
<1>1. IsState(rw) /\ StateFields(rw)
      BY StateType
<1>2. /\ IsState(n) /\ SameLists(rw, n) /\ n.delivery = d
      /\ n.sent = rw.sent /\ n.exhausted = rw.exhausted /\ n.recovery = rw.recovery
      BY <1>1 DEF IsState, SameLists, WithDelivery
<1>3. StateFields(n)
      BY <1>1, <1>2 DEF StateFields, SameLists
<1> QED BY <1>2, <1>3, StateType

WithAttempt(rw, x) == [rw EXCEPT !.delivery.attempt = x]

LEMMA AttemptSet ==
    ASSUME NEW rw \in State, rw.delivery \in Delivery, NEW x \in Attempt \cup {None},
           NEW n, n = WithAttempt(rw, x)
    PROVE  /\ n \in State /\ SameLists(rw, n)
           /\ n.sent = rw.sent /\ n.exhausted = rw.exhausted /\ n.recovery = rw.recovery
           /\ n.delivery \in Delivery /\ n.delivery # None
           /\ n.delivery.request = rw.delivery.request
           /\ n.delivery.queuedAt = rw.delivery.queuedAt
           /\ n.delivery.expiresAt = rw.delivery.expiresAt
           /\ n.delivery.recovery = rw.delivery.recovery
           /\ n.delivery.attempt = x
<1> DEFINE d == rw.delivery
<1>1. PICK e : e = [d EXCEPT !.attempt = x]
      OBVIOUS
<1>2. IsDelivery(d) /\ DeliveryFields(d)
      BY DeliveryType
<1>3. /\ IsDelivery(e) /\ e.request = d.request /\ e.queuedAt = d.queuedAt
      /\ e.expiresAt = d.expiresAt /\ e.recovery = d.recovery /\ e.attempt = x
      BY <1>1, <1>2 DEF IsDelivery
<1>4. e \in Delivery /\ e # None
  <2>1. DeliveryFields(e)
        BY <1>2, <1>3 DEF DeliveryFields
  <2> QED BY <1>3, <2>1, DeliveryType, NoneAssumption
<1>5. n = WithDelivery(rw, e)
      BY <1>1, StateType DEF IsState, WithAttempt, WithDelivery
<1>6. /\ n \in State /\ SameLists(rw, n) /\ n.delivery = e
      /\ n.sent = rw.sent /\ n.exhausted = rw.exhausted /\ n.recovery = rw.recovery
      BY <1>4, <1>5, DeliverySet
<1> QED BY <1>3, <1>4, <1>6

LEMMA ReceiptSet ==
    ASSUME NEW rw \in State, NEW v \in Nat, NEW n,
           n = [rw EXCEPT !.sent = v] \/ n = [rw EXCEPT !.exhausted = v]
    PROVE  /\ n \in State /\ SameLists(rw, n)
           /\ n.recovery = rw.recovery /\ n.delivery = rw.delivery
           /\ n = [rw EXCEPT !.sent = v] => n.sent = v /\ n.exhausted = rw.exhausted
           /\ n = [rw EXCEPT !.exhausted = v] => n.exhausted = v /\ n.sent = rw.sent
<1>1. IsState(rw) /\ StateFields(rw)
      BY StateType
<1>2. /\ IsState(n) /\ SameLists(rw, n) /\ n.recovery = rw.recovery /\ n.delivery = rw.delivery
      /\ n.sent \in Nat /\ n.exhausted \in Nat
      /\ n = [rw EXCEPT !.sent = v] => n.sent = v /\ n.exhausted = rw.exhausted
      /\ n = [rw EXCEPT !.exhausted = v] => n.exhausted = v /\ n.sent = rw.sent
      BY <1>1 DEF IsState, SameLists, StateFields
<1>3. StateFields(n)
      BY <1>1, <1>2 DEF StateFields, SameLists
<1> QED BY <1>2, <1>3, StateType

-----------------------------------------------------------------------------
(* Each operation on rows keeps them sound.                                   *)
LEMMA RowFacts ==
    ASSUME NEW g, NEW rw, RowOK(rw, g)
    PROVE  /\ rw \in State /\ SubsOK(rw) /\ Listed(rw) /\ Clean(rw)
           /\ rw.sent \in Nat /\ rw.exhausted \in Nat /\ rw.retention \in Nat
           /\ rw.sent <= g /\ rw.exhausted <= g
           /\ rw.delivery # None =>
                 /\ DeliveryOK(rw.delivery, rw.recovery, g) /\ rw.delivery \in Delivery
                 /\ rw.delivery.request \in Nat /\ rw.delivery.request <= g
<1>1. StateFields(rw)
      BY StateType DEF RowOK
<1>2. rw.delivery # None => rw.delivery \in Delivery /\ DeliveryFields(rw.delivery)
      BY DeliveryType DEF RowOK, DeliveryOK
<1> QED BY <1>1, <1>2 DEF RowOK, StateFields, DeliveryOK, DeliveryFields

LEMMA ShrunkOK ==
    ASSUME NEW g, NEW w, RowOK(w, g), NEW p, Shrunk(w, p)
    PROVE  /\ RowOK(p, g) /\ SameWork(w, p)
           /\ Aimed(w) => Aimed(p)
           /\ Follows(w, p)
<1>1. /\ p.delivery = w.delivery /\ p.recovery = w.recovery
      /\ p.sent = w.sent /\ p.exhausted = w.exhausted /\ p.seen = w.seen
      /\ Subscribed(p) \subseteq Subscribed(w)
      BY DEF Shrunk, SameWork
<1>2. RowOK(p, g)
      BY <1>1 DEF Shrunk, RowOK, Listed
<1>3. Aimed(w) => Aimed(p)
      BY <1>1 DEF Aimed, ExhaustedFor
<1>4. Follows(w, p)
  <2>1. w.sent <= p.sent /\ w.exhausted <= p.exhausted
        BY <1>1, RowFacts
  <2> QED BY <1>1, <2>1 DEF Follows, Keeps, Shrunk
<1> QED BY <1>2, <1>3, <1>4 DEF Shrunk

LEMMA Pruned ==
    ASSUME NEW g, NEW w, RowOK(w, g), NEW t, NEW p, p = Prune(w, t)
    PROVE  /\ RowOK(p, g) /\ SameWork(w, p) /\ Shrunk(w, p)
           /\ Aimed(w) => Aimed(p)
           /\ Follows(w, p)
<1>1. Shrunk(w, p)
      BY PruneOK DEF RowOK
<1> QED BY <1>1, ShrunkOK

(* What follows the rows that are left when some subscriptions have gone. *)
LEMMA FollowsOn ==
    ASSUME NEW g, NEW w, RowOK(w, g), NEW p, Shrunk(w, p), NEW n, Follows(p, n)
    PROVE  Follows(w, n)
<1>1. p.delivery = w.delivery /\ p.sent = w.sent /\ p.exhausted = w.exhausted
      BY DEF Shrunk, SameWork
<1>2. Forgets(w, n)
      BY DEF Shrunk, Follows, Forgets
<1> QED BY <1>1, <1>2 DEF Follows, Keeps

LEMMA ClearedOK ==
    ASSUME NEW g, NEW w, RowOK(w, g), NEW n, n = Cleared(w)
    PROVE  RowOK(n, g) /\ Aimed(n) /\ Follows(w, n)
<1>1. w \in State /\ SubsOK(w) /\ Listed(w) /\ Clean(w) /\ w.sent \in Nat /\ w.exhausted \in Nat
      BY RowFacts
<1>2. /\ n \in State /\ SameLists(w, n) /\ n.delivery = None
      /\ n.sent = w.sent /\ n.exhausted = w.exhausted /\ n.recovery = w.recovery
  <2>1. n = WithDelivery(w, None)
        BY DEF Cleared, WithDelivery
  <2> QED BY <1>1, <2>1, DeliverySet
<1>3. SubsOK(n) /\ Listed(n) /\ Clean(n) /\ Forgets(w, n)
      BY <1>1, <1>2, SameListsOK
<1> QED BY <1>1, <1>2, <1>3 DEF RowOK, Aimed, Follows, Keeps

LEMMA LargerFacts ==
    ASSUME NEW m \in Nat, NEW n \in Nat
    PROVE  /\ Larger(m, n) \in Nat /\ m <= Larger(m, n) /\ n <= Larger(m, n)
           /\ \A g \in Nat : m <= g /\ n <= g => Larger(m, n) <= g
BY DEF Larger

LEMMA ExhaustedOK ==
    ASSUME NEW g \in Nat, NEW w, RowOK(w, g), w.delivery # None, NEW n, n = WithExhausted(w)
    PROVE  /\ RowOK(n, g) /\ Aimed(n)
           /\ n.delivery = w.delivery /\ n.delivery # None /\ ExhaustedFor(n, n.delivery.request)
           /\ w.sent = n.sent /\ w.exhausted <= n.exhausted /\ SameLists(w, n) /\ Forgets(w, n)
           /\ n.recovery = w.recovery
<1> DEFINE v == Larger(w.exhausted, w.delivery.request)
<1>1. /\ w \in State /\ SubsOK(w) /\ Listed(w) /\ Clean(w) /\ w.sent \in Nat /\ w.exhausted \in Nat
      /\ w.delivery.request \in Nat /\ w.delivery.request <= g /\ w.exhausted <= g
      BY RowFacts
<1>2. v \in Nat /\ w.exhausted <= v /\ w.delivery.request <= v /\ v <= g
      BY <1>1, LargerFacts
<1>3. n = [w EXCEPT !.exhausted = v]
      BY DEF WithExhausted
<1> HIDE DEF v
<1>4. /\ n \in State /\ SameLists(w, n) /\ n.exhausted = v /\ n.sent = w.sent
      /\ n.recovery = w.recovery /\ n.delivery = w.delivery
      BY <1>1, <1>2, <1>3, ReceiptSet
<1>5. SubsOK(n) /\ Listed(n) /\ Clean(n) /\ Forgets(w, n)
      BY <1>1, <1>4, SameListsOK
<1>6. n.recovery # None => n.exhausted >= n.recovery.request
  <2>1. w.recovery # None => w.recovery.request \in Nat
        BY <1>1, StateType DEF StateFields, Recovery
  <2> QED BY <1>1, <1>2, <1>4, <2>1 DEF RowOK
<1>7. RowOK(n, g)
      BY <1>2, <1>4, <1>5, <1>6 DEF RowOK
<1> QED BY <1>2, <1>4, <1>5, <1>7 DEF Aimed, ExhaustedFor

LEMMA SentOK ==
    ASSUME NEW g \in Nat, NEW w, RowOK(w, g), w.delivery # None, NEW n, n = WithSent(w)
    PROVE  /\ RowOK(n, g)
           /\ Aimed(w) => Aimed(n)
           /\ n.delivery = w.delivery /\ n.delivery # None /\ SentFor(n, n.delivery.request)
           /\ w.sent <= n.sent /\ w.exhausted = n.exhausted /\ SameLists(w, n) /\ Forgets(w, n)
           /\ n.recovery = w.recovery
<1> DEFINE v == Larger(w.sent, w.delivery.request)
<1>1. /\ w \in State /\ SubsOK(w) /\ Listed(w) /\ Clean(w) /\ w.sent \in Nat /\ w.exhausted \in Nat
      /\ w.delivery.request \in Nat /\ w.delivery.request <= g /\ w.sent <= g
      BY RowFacts
<1>2. v \in Nat /\ w.sent <= v /\ w.delivery.request <= v /\ v <= g
      BY <1>1, LargerFacts
<1>3. n = [w EXCEPT !.sent = v]
      BY DEF WithSent
<1> HIDE DEF v
<1>4. /\ n \in State /\ SameLists(w, n) /\ n.sent = v /\ n.exhausted = w.exhausted
      /\ n.recovery = w.recovery /\ n.delivery = w.delivery
      BY <1>1, <1>2, <1>3, ReceiptSet
<1>5. SubsOK(n) /\ Listed(n) /\ Clean(n) /\ Forgets(w, n) /\ Subscribed(n) = Subscribed(w)
      BY <1>1, <1>4, SameListsOK
<1>6. RowOK(n, g)
      BY <1>2, <1>4, <1>5 DEF RowOK
<1>7. Aimed(w) => Aimed(n)
      BY <1>4, <1>5 DEF Aimed, ExhaustedFor
<1> QED BY <1>2, <1>4, <1>5, <1>6, <1>7 DEF SentFor

(* The attempt of a delivery is set. *)
LEMMA TryingOK ==
    ASSUME NEW g, NEW w, RowOK(w, g), w.delivery # None, NEW x, x = None \/ AttemptOK(x),
           NEW n, n = WithAttempt(w, x)
    PROVE  /\ RowOK(n, g) /\ SameLists(w, n) /\ Forgets(w, n)
           /\ n.sent = w.sent /\ n.exhausted = w.exhausted /\ n.recovery = w.recovery
           /\ n.delivery # None /\ n.delivery.request = w.delivery.request
           /\ n.delivery.queuedAt = w.delivery.queuedAt
           /\ n.delivery.recovery = w.delivery.recovery /\ n.delivery.attempt = x
           /\ x # None => Aimed(n)
<1>1. /\ w \in State /\ SubsOK(w) /\ Listed(w) /\ Clean(w) /\ w.delivery \in Delivery
      /\ DeliveryOK(w.delivery, w.recovery, g)
      BY RowFacts
<1>2. x \in Attempt \cup {None}
      BY DEF AttemptOK
<1>3. /\ n \in State /\ SameLists(w, n)
      /\ n.sent = w.sent /\ n.exhausted = w.exhausted /\ n.recovery = w.recovery
      /\ n.delivery \in Delivery /\ n.delivery # None
      /\ n.delivery.request = w.delivery.request
      /\ n.delivery.queuedAt = w.delivery.queuedAt
      /\ n.delivery.expiresAt = w.delivery.expiresAt
      /\ n.delivery.recovery = w.delivery.recovery
      /\ n.delivery.attempt = x
      BY <1>1, <1>2, AttemptSet
<1>4. SubsOK(n) /\ Listed(n) /\ Clean(n) /\ Forgets(w, n)
      BY <1>1, <1>3, SameListsOK
<1>5. DeliveryOK(n.delivery, n.recovery, g)
      BY <1>1, <1>3 DEF DeliveryOK
<1>6. RowOK(n, g)
      BY <1>3, <1>4, <1>5 DEF RowOK
<1> QED BY <1>3, <1>4, <1>6 DEF Aimed

LEMMA FollowsSelf ==
    ASSUME NEW g, NEW w, RowOK(w, g)
    PROVE  Follows(w, w)
<1>1. w.sent \in Nat /\ w.exhausted \in Nat
      BY RowFacts
<1> QED BY <1>1 DEF Follows, Forgets, Keeps

Fresh(rw, a) ==
    [app |-> a, token |-> rw.subs[a].token, status |-> "pending", attempts |-> 0,
     failures |-> 0, next |-> Never]

Newer(rw) ==
    {b \in Subscribed(rw) : \A c \in Subscribed(rw) : rw.subs[c].enabledAt <= rw.subs[b].enabledAt}

LEMMA FreshOK ==
    ASSUME NEW rw \in State, NEW a \in Subscribed(rw), NEW x, x = Fresh(rw, a)
    PROVE  AttemptOK(x) /\ x # None
<1>1. rw.subs[a].token \in Token /\ a \in App
      BY SubscriptionFacts
<1>2. IsAttempt(x) /\ x.app = a /\ x.token = rw.subs[a].token /\ x.status = "pending"
      /\ x.attempts = 0 /\ x.failures = 0 /\ x.next = Never
      BY DEF Fresh, IsAttempt
<1>3. MaxAttempts \in Nat \ {0} /\ MaxFailures \in Nat \ {0}
      BY Bounds
<1>4. AttemptFields(x)
      BY <1>1, <1>2, <1>3 DEF AttemptFields
<1>5. x \in Attempt
      BY <1>2, <1>4, AttemptType
<1> QED BY <1>2, <1>3, <1>5, NoneAssumption DEF AttemptOK, Live

LEMMA NewerExists ==
    ASSUME NEW rw \in State, Subscribed(rw) # {}
    PROVE  Newer(rw) # {}
<1>1. IsFiniteSet(Subscribed(rw))
      BY NotificationAssumption, FS_Subset DEF Subscribed
<1> DEFINE f == [a \in Subscribed(rw) |-> rw.subs[a].enabledAt]
<1>2. \A a \in Subscribed(rw) : f[a] = rw.subs[a].enabledAt /\ f[a] \in Nat
      BY SubscriptionFacts
<1> HIDE DEF f
<1>3. \E a \in Subscribed(rw) : \A c \in Subscribed(rw) : f[c] <= f[a]
      BY <1>1, <1>2, Greatest
<1> QED BY <1>2, <1>3 DEF Newer

LEMMA AttachedOK ==
    ASSUME NEW g, NEW m, RowOK(m, g), NEW n \in Attached(m)
    PROVE  /\ RowOK(n, g) /\ Aimed(n) /\ Follows(m, n) /\ SameLists(m, n)
           /\ n.sent = m.sent /\ n.exhausted = m.exhausted /\ n.recovery = m.recovery
           /\ m.delivery = None => n = m
           /\ m.delivery # None =>
                 /\ n.delivery # None
                 /\ n.delivery.request = m.delivery.request
                 /\ n.delivery.queuedAt = m.delivery.queuedAt
                 /\ n.delivery.recovery = m.delivery.recovery
                 /\ m.delivery.attempt # None => n.delivery.attempt = m.delivery.attempt
<1>0. m \in State /\ m.sent \in Nat /\ m.exhausted \in Nat
      BY RowFacts
<1>1. CASE m.delivery = None
  <2>1. n = m
        BY <1>1 DEF Attached
  <2>2. Aimed(n) /\ SameLists(m, n)
        BY <1>1, <2>1 DEF Aimed, SameLists
  <2> QED BY <1>1, <2>1, <2>2, FollowsSelf
<1>2. CASE m.delivery # None
  <2> DEFINE d == m.delivery
  <2>1. PICK x : /\ n = WithAttempt(m, x)
                 /\ x = None \/ AttemptOK(x)
                 /\ d.attempt # None => x = d.attempt
                 /\ x = None => Subscribed(m) = {}
    <3> DEFINE targets == Targets(d, m)
    <3>1. PICK x \in (IF targets = {} THEN {d.attempt} ELSE targets) : n = WithAttempt(m, x)
          BY <1>2 DEF Attached, WithAttempt
    <3>2. CASE d.attempt # None
      <4>1. targets = {d.attempt}
            BY <3>2 DEF Targets
      <4>2. x = d.attempt
            BY <3>1, <4>1
      <4>3. AttemptOK(x)
            BY <1>2, <3>2, <4>2 DEF RowOK, DeliveryOK
      <4> QED BY <3>1, <3>2, <4>2, <4>3
    <3>3. CASE d.attempt = None
      <4>1. targets = {Fresh(m, a) : a \in Newer(m)}
            BY <3>3 DEF Targets, Fresh, Newer
      <4> HIDE DEF targets
      <4>2. CASE targets = {}
        <5>1. x = None /\ Newer(m) = {}
              BY <3>1, <3>3, <4>1, <4>2
        <5>2. Subscribed(m) = {}
              BY <1>0, <5>1, NewerExists
        <5> QED BY <3>1, <3>3, <5>1, <5>2
      <4>3. CASE targets # {}
        <5>1. PICK a \in Newer(m) : x = Fresh(m, a)
              BY <3>1, <4>1, <4>3
        <5>2. a \in Subscribed(m)
              BY DEF Newer
        <5>3. AttemptOK(x) /\ x # None
              BY <1>0, <5>1, <5>2, FreshOK
        <5> QED BY <3>1, <3>3, <5>3
      <4> QED BY <4>2, <4>3
    <3> QED BY <3>2, <3>3
  <2>2. /\ RowOK(n, g) /\ SameLists(m, n) /\ Forgets(m, n)
        /\ n.sent = m.sent /\ n.exhausted = m.exhausted /\ n.recovery = m.recovery
        /\ n.delivery # None /\ n.delivery.request = d.request
        /\ n.delivery.queuedAt = d.queuedAt
        /\ n.delivery.recovery = d.recovery /\ n.delivery.attempt = x
        /\ x # None => Aimed(n)
        BY <1>2, <2>1, TryingOK
  <2>3. Aimed(n)
    <3>1. Subscribed(n) = Subscribed(m)
          BY <2>2 DEF SameLists, Subscribed
    <3> QED BY <2>1, <2>2, <3>1 DEF Aimed
  <2>4. Follows(m, n)
        BY <1>0, <2>1, <2>2 DEF Follows, Keeps
  <2> QED BY <1>2, <2>1, <2>2, <2>3, <2>4
<1> QED BY <1>1, <1>2

-----------------------------------------------------------------------------
(* The calls.                                                                 *)
LEMMA EmptyOK ==
    ASSUME NEW g \in Nat, NEW t \in Nat, NEW n, n = EmptyState(t)
    PROVE  RowOK(n, g) /\ Aimed(n)
<1>1. /\ IsState(n) /\ n.subs = [a \in App |-> None] /\ n.seen = <<>> /\ n.revoked = <<>>
      /\ n.retention = t + SubscriptionLife /\ n.sent = 0 /\ n.exhausted = 0
      /\ n.recovery = None /\ n.delivery = None
      BY DEF EmptyState, IsState
<1>2. <<>> \in Seq(Event) /\ <<>> \in Seq(Token) /\ SubscriptionLife \in Nat
      BY Bounds
<1>3. n \in State
  <2>1. n.subs \in [App -> Subscription \cup {None}] /\ n.retention \in Nat
        BY <1>1, <1>2
  <2>2. n.seen \in Seq(Event) /\ n.revoked \in Seq(Token)
        BY <1>1, <1>2
  <2>3. n.sent \in Nat /\ n.exhausted \in Nat
        /\ n.recovery \in Recovery \cup {None} /\ n.delivery \in Delivery \cup {None}
        BY <1>1
  <2> QED BY <1>1, <2>1, <2>2, <2>3, StateType DEF StateFields
<1>4. Subscribed(n) = {}
      BY <1>1 DEF Subscribed
<1>5. Len(n.seen) = 0 /\ Len(n.revoked) = 0 /\ DOMAIN n.revoked = {}
      BY <1>1
<1>6. Listed(n)
      BY <1>5, Bounds DEF Listed
<1>7. Clean(n) /\ SubsOK(n)
      BY <1>4, <1>5 DEF Clean, SubsOK, Tokens, Distinct
<1> QED BY <1>1, <1>3, <1>6, <1>7 DEF RowOK, Aimed

(* Only the events that were seen and the retention have changed. *)
Relisted(w, n) ==
    /\ n \in State /\ Listed(n) /\ SameWork(w, n)
    /\ n.subs = w.subs /\ n.revoked = w.revoked

LEMMA RelistedOK ==
    ASSUME NEW g, NEW w, RowOK(w, g), NEW n, Relisted(w, n)
    PROVE  /\ RowOK(n, g) /\ Follows(w, n)
           /\ Aimed(w) => Aimed(n)
<1>1. /\ n.subs = w.subs /\ n.revoked = w.revoked /\ n.delivery = w.delivery
      /\ n.recovery = w.recovery /\ n.sent = w.sent /\ n.exhausted = w.exhausted
      /\ w.sent \in Nat /\ w.exhausted \in Nat
      BY RowFacts DEF Relisted, SameWork
<1>2. Subscribed(n) = Subscribed(w)
      BY <1>1 DEF Subscribed
<1>3. Tokens(n) = Tokens(w)
      BY <1>1, <1>2 DEF Tokens
<1>4. SubsOK(n) /\ Clean(n) /\ Forgets(w, n)
      BY <1>1, <1>2, <1>3 DEF RowOK, SubsOK, Clean, Forgets
<1>5. RowOK(n, g)
      BY <1>1, <1>4 DEF RowOK, Relisted
<1>6. Aimed(w) => Aimed(n)
      BY <1>1, <1>2 DEF Aimed, ExhaustedFor
<1>7. Follows(w, n)
      BY <1>1, <1>4 DEF Follows, Keeps
<1> QED BY <1>5, <1>6, <1>7

LEMMA SeenOK ==
    ASSUME NEW g, NEW w, RowOK(w, g), NEW e \in Event, NEW n, n = WithSeenEvent(w, e)
    PROVE  Relisted(w, n)
<1> DEFINE v == Newest(Append(w.seen, e), MaxSeen)
<1>1. IsState(w) /\ StateFields(w)
      BY StateType DEF RowOK
<1>2. Append(w.seen, e) \in Seq(Event)
      BY <1>1, AppendProperties DEF StateFields
<1>3. v \in Seq(Event) /\ Len(v) <= MaxSeen
      BY <1>2, NewestFacts, Bounds
<1>4. n = [w EXCEPT !.seen = v]
      BY DEF WithSeenEvent
<1> HIDE DEF v
<1>5. IsState(n) /\ n.seen = v /\ n.subs = w.subs /\ n.revoked = w.revoked
      /\ n.retention = w.retention /\ SameWork(w, n)
      BY <1>1, <1>4 DEF IsState, SameWork
<1>6. StateFields(n)
      BY <1>1, <1>3, <1>5 DEF StateFields, SameWork
<1>7. Listed(n)
      BY <1>3, <1>5 DEF Listed, RowOK
<1> QED BY <1>5, <1>6, <1>7, StateType DEF Relisted

LEMMA RetainedOK ==
    ASSUME NEW g, NEW w, RowOK(w, g), NEW r \in Nat, NEW n, n = [w EXCEPT !.retention = r]
    PROVE  Relisted(w, n)
<1>1. IsState(w) /\ StateFields(w)
      BY StateType DEF RowOK
<1>2. IsState(n) /\ n.seen = w.seen /\ n.subs = w.subs /\ n.revoked = w.revoked
      /\ n.retention = r /\ SameWork(w, n)
      BY <1>1 DEF IsState, SameWork
<1>3. StateFields(n)
      BY <1>1, <1>2 DEF StateFields, SameWork
<1>4. Listed(n)
      BY <1>2 DEF Listed, RowOK
<1> QED BY <1>2, <1>3, <1>4, StateType DEF Relisted

(* A token is enabled for an app that has no other, and is not taken back. *)
LEMMA EnabledOK ==
    ASSUME NEW g, NEW w, RowOK(w, g), NEW token \in Token, NEW a, a = AppOf[token],
           a \notin Subscribed(w) \/ w.subs[a].token = token,
           Few => token \notin ToSet(w.revoked),
           NEW sub \in Subscription, sub.token = token, NEW r \in Nat,
           NEW n, n = [w EXCEPT !.subs[a] = sub, !.retention = r]
    PROVE  RowOK(n, g) /\ Follows(w, n) /\ SameWork(w, n)
<1>1. IsState(w) /\ StateFields(w) /\ a \in App /\ w.sent \in Nat /\ w.exhausted \in Nat
      BY StateType, NotificationAssumption, RowFacts DEF RowOK
<1>2. IsState(n) /\ n.seen = w.seen /\ n.subs = [w.subs EXCEPT ![a] = sub] /\ n.revoked = w.revoked
      /\ n.retention = r /\ SameWork(w, n)
      BY <1>1 DEF IsState, SameWork
<1>3. n \in State
  <2>1. n.subs \in [App -> Subscription \cup {None}]
        BY <1>1, <1>2 DEF StateFields
  <2> QED BY <1>1, <1>2, <2>1, StateType DEF StateFields, SameWork
<1>4. Listed(n)
      BY <1>2 DEF Listed, RowOK
<1>5. /\ n.subs[a] = sub /\ sub # None
      /\ \A b \in App : b # a => n.subs[b] = w.subs[b]
      BY <1>1, <1>2, NoneAssumption DEF StateFields
<1>6. Subscribed(n) = Subscribed(w) \cup {a}
      BY <1>1, <1>5 DEF Subscribed
<1>7. SubsOK(n)
      BY <1>5, <1>6 DEF SubsOK, RowOK, Subscribed
<1>8. Tokens(n) = Tokens(w) \cup {token}
  <2>1. ASSUME NEW b \in Subscribed(n) PROVE n.subs[b].token \in Tokens(w) \cup {token}
        BY <1>5, <1>6 DEF Tokens, Subscribed
  <2>2. ASSUME NEW b \in Subscribed(w) PROVE w.subs[b].token \in Tokens(n)
    <3>1. b \in Subscribed(n) /\ n.subs[b].token = w.subs[b].token
          BY <1>5, <1>6 DEF Subscribed
    <3> QED BY <3>1 DEF Tokens
  <2>3. token \in Tokens(n)
        BY <1>5, <1>6 DEF Tokens
  <2>4. Tokens(n) \subseteq Tokens(w) \cup {token}
    <3>1. \A u \in Tokens(n) : \E b \in Subscribed(n) : u = n.subs[b].token
          BY DEF Tokens
    <3> QED BY <2>1, <3>1
  <2>5. Tokens(w) \subseteq Tokens(n)
    <3>1. \A u \in Tokens(w) : \E b \in Subscribed(w) : u = w.subs[b].token
          BY DEF Tokens
    <3> QED BY <2>2, <3>1
  <2> QED BY <2>3, <2>4, <2>5
<1>9. Clean(n) /\ Forgets(w, n)
      BY <1>2, <1>8 DEF Clean, Forgets, RowOK
<1>10. RowOK(n, g)
      BY <1>2, <1>3, <1>4, <1>7, <1>9 DEF RowOK, SameWork
<1>11. Follows(w, n)
      BY <1>1, <1>2, <1>9 DEF Follows, Keeps, SameWork
<1> QED BY <1>2, <1>10, <1>11

IsNew(d, g, t, id) ==
    /\ d \in Delivery /\ d # None
    /\ d.request = g /\ d.queuedAt = t /\ d.expiresAt = t + DeliveryLife
    /\ d.recovery = id /\ d.attempt = None

LEMMA NewIs ==
    ASSUME NEW g \in Nat, NEW t \in Nat, NEW id \in RecoveryId \cup {None},
           NEW d, d = NewDelivery(g, t, id)
    PROVE  IsNew(d, g, t, id)
<1>1. IsDelivery(d) /\ d.request = g /\ d.queuedAt = t /\ d.expiresAt = t + DeliveryLife
      /\ d.recovery = id /\ d.attempt = None
      BY DEF NewDelivery, IsDelivery
<1>2. t + DeliveryLife \in Nat
      BY Bounds
<1>3. DeliveryFields(d)
      BY <1>1, <1>2 DEF DeliveryFields
<1> QED BY <1>1, <1>3, DeliveryType, NoneAssumption DEF IsNew

(* A delivery is queued for a request that has none. *)
LEMMA QueuedOK ==
    ASSUME NEW g \in Nat, NEW w, RowOK(w, g), NEW q \in Nat, q <= g, NEW t \in Nat,
           w.recovery # None => w.recovery.request # q,
           w.delivery # None => w.delivery.request # q,
           NEW n, n = WithDelivery(w, NewDelivery(q, t, None))
    PROVE  RowOK(n, g) /\ Follows(w, n)
<1>1. PICK d : d = NewDelivery(q, t, None)
      OBVIOUS
<1>2. IsNew(d, q, t, None)
      BY <1>1, NewIs
<1>3. w \in State /\ SubsOK(w) /\ Listed(w) /\ Clean(w) /\ w.sent \in Nat /\ w.exhausted \in Nat
      BY RowFacts
<1>4. /\ n \in State /\ SameLists(w, n) /\ n.delivery = d
      /\ n.sent = w.sent /\ n.exhausted = w.exhausted /\ n.recovery = w.recovery
  <2>1. n = WithDelivery(w, d) /\ d \in Delivery \cup {None}
        BY <1>1, <1>2 DEF IsNew
  <2> QED BY <1>3, <2>1, DeliverySet
<1>5. SubsOK(n) /\ Listed(n) /\ Clean(n) /\ Forgets(w, n)
      BY <1>3, <1>4, SameListsOK
<1>6. DeliveryOK(d, w.recovery, g)
      BY <1>2 DEF DeliveryOK, IsNew
<1>7. RowOK(n, g)
      BY <1>4, <1>5, <1>6 DEF RowOK
<1>8. Keeps(w, n)
      BY <1>2, <1>4 DEF Keeps, SameDelivery, IsNew
<1> QED BY <1>3, <1>4, <1>5, <1>7, <1>8 DEF Follows

RecoveryFields(rec, g, id, t) ==
    rec \in Recovery /\ rec # None /\ rec.request = g /\ rec.id = id /\ rec.at = t

(* The delivery of a recovery replaces the one that is exhausted. *)
LEMMA RecoveredOK ==
    ASSUME NEW g \in Nat, NEW w, RowOK(w, g), NEW q \in Nat, w.exhausted = q, NEW t \in Nat,
           NEW id \in RecoveryId,
           NEW n, n = [w EXCEPT !.recovery = RecoveryOf(q, id, t),
                                !.delivery = NewDelivery(q, t, id)]
    PROVE  RowOK(n, g) /\ Follows(w, n)
<1>1. PICK d : d = NewDelivery(q, t, id)
      OBVIOUS
<1>2. IsNew(d, q, t, id)
      BY <1>1, NewIs
<1>3. PICK rec : rec = RecoveryOf(q, id, t)
      OBVIOUS
<1>4. RecoveryFields(rec, q, id, t)
  <2>1. rec \in Recovery /\ rec.request = q /\ rec.id = id /\ rec.at = t
        BY <1>3 DEF RecoveryOf, Recovery
  <2> QED BY <2>1, NoneAssumption DEF RecoveryFields
<1>5. /\ w \in State /\ SubsOK(w) /\ Listed(w) /\ Clean(w) /\ w.sent \in Nat /\ w.exhausted \in Nat
      /\ w.exhausted <= g
      BY RowFacts
<1>6. n = [w EXCEPT !.recovery = rec, !.delivery = d]
      BY <1>1, <1>3
<1>7. /\ IsState(n) /\ SameLists(w, n) /\ n.delivery = d /\ n.recovery = rec
      /\ n.sent = w.sent /\ n.exhausted = w.exhausted
  <2>1. IsState(w)
        BY <1>5, StateType
  <2> QED BY <1>6, <2>1 DEF IsState, SameLists
<1>8. n \in State
  <2>1. d \in Delivery /\ rec \in Recovery /\ StateFields(w)
        BY <1>2, <1>4, <1>5, StateType DEF IsNew, RecoveryFields
  <2> QED BY <1>7, <2>1, StateType DEF StateFields, SameLists
<1>9. SubsOK(n) /\ Listed(n) /\ Clean(n) /\ Forgets(w, n)
      BY <1>5, <1>7, <1>8, SameListsOK
<1>10. DeliveryOK(d, rec, g)
      BY <1>2, <1>4, <1>5 DEF DeliveryOK, IsNew, RecoveryFields
<1>11. RowOK(n, g)
      BY <1>4, <1>5, <1>7, <1>8, <1>9, <1>10 DEF RowOK, RecoveryFields
<1>12. Keeps(w, n)
      BY <1>2, <1>7 DEF Keeps, IsNew, ExhaustedFor
<1> QED BY <1>5, <1>7, <1>9, <1>11, <1>12 DEF Follows

-----------------------------------------------------------------------------
(* Attempts.                                                                  *)
Open(x) == AttemptOK(x) /\ Live(x)

LEMMA AttemptSound ==
    ASSUME NEW x, IsAttempt(x), AttemptFields(x), x.status = "retrying" <=> x.next # Never,
           Live(x) => x.attempts < MaxAttempts
    PROVE  AttemptOK(x) /\ x # None
<1>1. x \in Attempt
      BY AttemptType
<1> QED BY <1>1, NoneAssumption DEF AttemptOK

LEMMA OpenFacts ==
    ASSUME NEW x, Open(x)
    PROVE  /\ IsAttempt(x) /\ x # None /\ x.app \in App /\ x.token \in Token
           /\ x.attempts \in Nat /\ x.attempts + 1 \in 1..MaxAttempts
           /\ x.failures \in 0..MaxFailures
<1>1. IsAttempt(x) /\ AttemptFields(x) /\ x # None
      BY AttemptType, NoneAssumption DEF Open, AttemptOK
<1> QED BY <1>1, Bounds DEF Open, AttemptOK, AttemptFields

Deferred(x, f, t) == [x EXCEPT !.status = "retrying", !.failures = f, !.next = t]

LEMMA DeferredOK ==
    ASSUME NEW x, Open(x), NEW f \in 0..MaxFailures, NEW t \in Nat,
           NEW y, y = Deferred(x, f, t)
    PROVE  AttemptOK(y) /\ y # None /\ y.token = x.token
<1>0. IsAttempt(x)
      BY OpenFacts
<1>1. IsAttempt(y) /\ y.app = x.app /\ y.token = x.token /\ y.status = "retrying"
      /\ y.attempts = x.attempts /\ y.failures = f /\ y.next = t
      BY <1>0 DEF IsAttempt, Deferred
<1>2. AttemptFields(y) /\ y.next # Never /\ y.attempts < MaxAttempts
      BY <1>1, OpenFacts, Bounds DEF AttemptFields, Never, Open, AttemptOK
<1> QED BY <1>1, <1>2, AttemptSound

LEMMA SentAttemptOK ==
    ASSUME NEW x, Open(x),
           NEW y, y = [x EXCEPT !.status = "sent", !.attempts = x.attempts + 1, !.failures = 0,
                                !.next = Never]
    PROVE  AttemptOK(y) /\ y # None /\ y.token = x.token
<1>0. IsAttempt(x)
      BY OpenFacts
<1>1. IsAttempt(y) /\ y.app = x.app /\ y.token = x.token /\ y.status = "sent"
      /\ y.attempts = x.attempts + 1 /\ y.failures = 0 /\ y.next = Never
      BY <1>0 DEF IsAttempt
<1>2. AttemptFields(y) /\ ~Live(y)
      BY <1>1, OpenFacts, Bounds DEF AttemptFields, Live
<1> QED BY <1>1, <1>2, AttemptSound

LEMMA EndedOK ==
    ASSUME NEW x, Open(x), NEW y, y = Ended(x)
    PROVE  AttemptOK(y) /\ y # None /\ y.token = x.token /\ y.status = "exhausted"
<1>0. IsAttempt(x)
      BY OpenFacts
<1>1. IsAttempt(y) /\ y.app = x.app /\ y.token = x.token /\ y.status = "exhausted"
      /\ y.attempts = (IF x.attempts < MaxAttempts THEN x.attempts + 1 ELSE MaxAttempts)
      /\ y.failures = 0 /\ y.next = Never
      BY <1>0 DEF IsAttempt, Ended
<1>2. y.attempts \in 0..MaxAttempts
      BY <1>1, OpenFacts, Bounds
<1>3. AttemptFields(y) /\ ~Live(y)
      BY <1>1, <1>2, OpenFacts, Bounds DEF AttemptFields, Live
<1> QED BY <1>1, <1>3, AttemptSound

LEMMA DelayType ==
    ASSUME NEW n \in Nat \ {0}
    PROVE  Delay(n) \in Nat
<1>1. RetryDelays \in Seq(Nat \ {0}) /\ Len(RetryDelays) \in Nat /\ Len(RetryDelays) # 0
      BY NotificationAssumption, EmptySeq, LenProperties
<1> DEFINE i == IF n < Len(RetryDelays) THEN n ELSE Len(RetryDelays)
<1>2. i \in 1..Len(RetryDelays)
      BY <1>1
<1>3. RetryDelays[i] \in Nat \ {0}
  <2> HIDE DEF i
  <2> QED BY <1>1, <1>2, ElementOfSeq
<1> QED BY <1>3 DEF Delay

LEMMA LaterType ==
    ASSUME work.time \in Nat, rows.delivery.expiresAt \in Nat, NEW n \in Nat \ {0}
    PROVE  Later(n) \in Nat
BY DelayType DEF Later

LEMMA RetriedOK ==
    ASSUME NEW x, Open(x), work.time \in Nat, rows.delivery.expiresAt \in Nat,
           NEW y, y = Retried(x)
    PROVE  AttemptOK(y) /\ y # None /\ y.token = x.token
<1>1. CASE x.attempts + 1 >= MaxAttempts
      BY <1>1, EndedOK DEF Retried
<1>2. CASE ~(x.attempts + 1 >= MaxAttempts)
  <2>1. PICK t : t = Later(x.attempts + 1)
        OBVIOUS
  <2>2. t \in Nat
        BY <2>1, OpenFacts, LaterType
  <2>3. IsAttempt(y) /\ y.app = x.app /\ y.token = x.token /\ y.status = "retrying"
        /\ y.attempts = x.attempts + 1 /\ y.failures = 0 /\ y.next = t
    <3>1. IsAttempt(x)
          BY OpenFacts
    <3>2. y = [x EXCEPT !.status = "retrying", !.attempts = x.attempts + 1, !.failures = 0,
                        !.next = t]
          BY <1>2, <2>1 DEF Retried
    <3> QED BY <3>1, <3>2 DEF IsAttempt
  <2>4. AttemptFields(y) /\ y.next # Never /\ y.attempts < MaxAttempts
        BY <1>2, <2>2, <2>3, OpenFacts, Bounds DEF AttemptFields, Never
  <2> QED BY <2>3, <2>4, AttemptSound
<1> QED BY <1>1, <1>2

(* A target that is gone: the attempt ends. *)
LEMMA RetiredOK ==
    ASSUME NEW x, AttemptOK(x),
           NEW y, y = [x EXCEPT !.status = "exhausted", !.failures = 0, !.next = Never]
    PROVE  AttemptOK(y) /\ y # None
<1>1. IsAttempt(x) /\ AttemptFields(x)
      BY AttemptType DEF AttemptOK
<1>2. IsAttempt(y) /\ y.app = x.app /\ y.token = x.token /\ y.status = "exhausted"
      /\ y.attempts = x.attempts /\ y.failures = 0 /\ y.next = Never
      BY <1>1 DEF IsAttempt
<1>3. AttemptFields(y) /\ ~Live(y)
      BY <1>1, <1>2, Bounds DEF AttemptFields, Live
<1> QED BY <1>2, <1>3, AttemptSound

-----------------------------------------------------------------------------
(* The alarm.                                                                 *)
LEMMA NextAlarmType ==
    ASSUME NEW g, NEW rw, RowOK(rw, g), NEW t \in Nat
    PROVE  NextAlarm(rw, t) \in Nat
<1> DEFINE d == rw.delivery
           ends == {rw.retention} \cup {rw.subs[a].expiresAt : a \in Subscribed(rw)}
           retry == {x.next : x \in {y \in {d.attempt} \ {None} : y.status = "retrying"}}
<1>1. ends \subseteq Nat /\ ends # {}
      BY RowFacts, SubscriptionFacts
<1>2. d # None => d.expiresAt \in Nat /\ retry \subseteq Nat
  <2>1. ASSUME d # None PROVE d.expiresAt \in Nat
        BY <2>1, RowFacts, DeliveryType DEF DeliveryFields
  <2>2. ASSUME d # None, d.attempt # None, d.attempt.status = "retrying"
        PROVE  d.attempt.next \in Nat
    <3>1. AttemptOK(d.attempt)
          BY <2>2, RowFacts DEF DeliveryOK
    <3>2. AttemptFields(d.attempt)
          BY <3>1, AttemptType DEF AttemptOK
    <3> QED BY <2>2, <3>1, <3>2 DEF AttemptOK, AttemptFields
  <2> QED BY <2>1, <2>2
<1> HIDE DEF ends, retry
<1>3. Min(ends) \in Nat
      BY <1>1, Least
<1>4. ASSUME d # None PROVE Min(ends \cup {d.expiresAt} \cup retry) \in Nat
  <2> DEFINE all == ends \cup {d.expiresAt} \cup retry
  <2>1. all \subseteq Nat /\ all # {}
        BY <1>1, <1>2, <1>4
  <2> HIDE DEF all
  <2>2. Min(all) \in Nat
        BY <2>1, Least
  <2> QED BY <2>2 DEF all
<1> QED BY <1>3, <1>4 DEF NextAlarm, ends, retry

-----------------------------------------------------------------------------
(* The inductive invariant.                                                   *)
Clock ==
    /\ now \in 0..MaxTime /\ asked \in 0..MaxRequest /\ pending \in 0..asked
    /\ alarm \in Nat \cup {Never}

(* A delivery that no operator has recovered went to the token of its         *)
(* attempt, unless it is over.                                                *)
TargetOK ==
    rows.delivery # None /\ rows.delivery.recovery = None /\ target # {} =>
        \/ rows.delivery.attempt # None /\ target \subseteq {rows.delivery.attempt.token}
        \/ ExhaustedFor(rows, rows.delivery.request)

Stored ==
    /\ told \subseteq Nat
    /\ rows = None => target = {} /\ gone = {} /\ told = {}
    /\ rows # None =>
         /\ RowOK(rows, asked) /\ Aimed(rows) /\ TargetOK
         /\ Few => gone \subseteq ToSet(rows.revoked)
         /\ \A g \in told : g <= rows.sent

(* An attempt is under way: at x. *)
UnderWay ==
    LET d == rows.delivery
        x == work.outcome
    IN  /\ d # None /\ ~Settled(rows) /\ Open(x) /\ x.token \in Tokens(rows)
        /\ d.attempt # None => x = d.attempt
        /\ d.recovery = None => d.attempt # None

IsWork == work = [at |-> work.at, call |-> work.call, then |-> work.then, time |-> work.time,
                  outcome |-> work.outcome]

Results == {"successful", "invalid", "terminal", "retryable"}

Working ==
    /\ IsWork /\ work.time \in Nat
    /\ work.at \in {"idle", "schedule", "attempt", "verify", "send", "store", "end"}
    /\ work.at # "idle" => rows # None
    /\ work.at = "schedule" => work.then \in {"idle", "attempt", "end"}
    /\ work.at \in {"verify", "send", "store"} => UnderWay
    /\ work.at = "store" => work.then \in Results

NoticeInv == Clock /\ Stored /\ Working

LEMMA Facts ==
    ASSUME NoticeInv
    PROVE  /\ now \in Nat /\ asked \in Nat /\ IsWork /\ work.time \in Nat
           /\ rows # None => RowOK(rows, asked) /\ Aimed(rows)
           /\ work.at # "idle" => rows # None
BY Bounds DEF NoticeInv, Clock, Stored, Working

LEMMA MoreRequests ==
    ASSUME NEW g \in Nat, NEW h \in Nat, g <= h, NEW rw, RowOK(rw, g)
    PROVE  RowOK(rw, h)
<1>1. rw.sent \in Nat /\ rw.exhausted \in Nat /\ (rw.delivery # None => rw.delivery.request \in Nat)
      BY RowFacts
<1>2. rw.sent <= h /\ rw.exhausted <= h
      BY <1>1 DEF RowOK
<1>3. rw.delivery # None => rw.delivery.request <= h
      BY <1>1 DEF RowOK, DeliveryOK
<1> QED BY <1>2, <1>3 DEF RowOK, DeliveryOK

(* The history follows the rows that are written. *)
LEMMA WrittenOK ==
    ASSUME NoticeInv, asked' = asked, NEW n, Write(n), RowOK(n, asked), Aimed(n),
           rows # None => Follows(rows, n),
           told' \subseteq Nat, \A g \in told' : g \in told \/ g <= n.sent
    PROVE  Stored' /\ rows' # None
<1>1. n \in State /\ n # None /\ n.sent \in Nat /\ rows' = n
      BY RowFacts, NoneAssumption DEF Write
<1>2. TargetOK'
  <2>1. SUFFICES ASSUME n.delivery # None, n.delivery.recovery = None, target' # {}
                 PROVE  \/ n.delivery.attempt # None /\ target' \subseteq {n.delivery.attempt.token}
                        \/ ExhaustedFor(n, n.delivery.request)
        BY <1>1 DEF TargetOK, ExhaustedFor
  <2>2. rows # None /\ SameDelivery(rows.delivery, n.delivery) /\ target' = target
        BY <2>1 DEF Write
  <2>3. /\ rows.delivery # None /\ rows.delivery.recovery = None
        /\ rows.delivery.request = n.delivery.request
        BY <2>1, <2>2 DEF SameDelivery
  <2>4. CASE rows.delivery.attempt # None /\ target \subseteq {rows.delivery.attempt.token}
        BY <2>1, <2>2, <2>3, <2>4 DEF Follows, Keeps
  <2>5. CASE ExhaustedFor(rows, rows.delivery.request)
    <3>1. rows.exhausted \in Nat /\ rows.delivery.request \in Nat
          /\ rows.exhausted <= n.exhausted /\ n.exhausted \in Nat
          BY <2>2, <2>3, Facts, RowFacts DEF Follows
    <3> QED BY <2>3, <2>5, <3>1 DEF ExhaustedFor
  <2> QED BY <2>1, <2>2, <2>3, <2>4, <2>5 DEF NoticeInv, Stored, TargetOK
<1>3. ASSUME Few PROVE gone' \subseteq ToSet(n.revoked)
  <2>1. CASE rows = None
        BY <2>1 DEF NoticeInv, Stored, Write
  <2>2. CASE rows # None
        BY <1>3, <2>2 DEF NoticeInv, Stored, Write, Follows, Forgets
  <2> QED BY <2>1, <2>2
<1>4. ASSUME NEW g \in told' PROVE g <= n.sent
  <2>1. CASE rows = None
        BY <2>1 DEF NoticeInv, Stored
  <2>2. CASE rows # None
    <3>1. rows.sent \in Nat /\ rows.sent <= n.sent
          BY <2>2, Facts, RowFacts DEF Follows
    <3>2. g \in told => g <= rows.sent
          BY <2>2 DEF NoticeInv, Stored
    <3> QED BY <1>1, <3>1, <3>2
  <2> QED BY <2>1, <2>2
<1>5. RowOK(n, asked') /\ Aimed(n)
      OBVIOUS
<1> QED BY <1>1, <1>2, <1>3, <1>4, <1>5 DEF Stored, RowOK, Aimed, ExhaustedFor

Progress(n) == RowOK(n, asked) /\ Aimed(n) /\ (rows # None => Follows(rows, n))

LEMMA PersistOK ==
    ASSUME NoticeInv, rows # None, NEW n, NEW t \in Nat, Persist(n, t), Progress(n),
           told' \subseteq Nat, \A g \in told' : g \in told \/ g <= n.sent
    PROVE  NoticeInv'
<1>1. Write(n) /\ UNCHANGED <<now, config, pending, asked, deploys, alarm>>
      BY DEF Persist, world
<1>2. Stored' /\ rows' # None
      BY <1>1, WrittenOK DEF Progress
<1>3. IsWork' /\ work'.at = "schedule" /\ work'.then \in {"idle", "end"} /\ work'.time = t
      BY Facts DEF Persist, IsWork, Afterwards
<1>4. Working'
      BY <1>2, <1>3 DEF Working
<1>5. Clock'
      BY <1>1 DEF NoticeInv, Clock
<1> QED BY <1>2, <1>4, <1>5 DEF NoticeInv

LEMMA StartOK ==
    ASSUME NoticeInv, NEW c, NEW n, NEW then \in {"idle", "attempt"}, Start(c, n, then), Progress(n)
    PROVE  NoticeInv'
<1>1. Write(n) /\ UNCHANGED <<now, config, pending, asked, deploys, alarm, told>>
      BY DEF Start, world
<1>2. told' \subseteq Nat
      BY <1>1 DEF NoticeInv, Stored
<1>3. Stored' /\ rows' # None
      BY <1>1, <1>2, WrittenOK DEF Progress
<1>4. IsWork' /\ work'.at = "schedule" /\ work'.then = then /\ work'.time = now
      BY DEF Start, IsWork, Idle
<1>5. now \in Nat
      BY Facts
<1>6. Working'
      BY <1>3, <1>4, <1>5 DEF Working
<1>7. Clock'
      BY <1>1 DEF NoticeInv, Clock
<1> QED BY <1>3, <1>6, <1>7 DEF NoticeInv

LEMMA CurrentOK ==
    ASSUME NoticeInv, NEW w, w = Current
    PROVE  /\ RowOK(w, asked) /\ Aimed(w)
           /\ rows # None => w = rows
<1>1. CASE rows = None
  <2>1. w = EmptyState(now)
        BY <1>1 DEF Current
  <2> QED BY <1>1, <2>1, EmptyOK, Facts
<1>2. CASE rows # None
      BY <1>2, Facts DEF Current
<1> QED BY <1>1, <1>2

(* Two changes one after the other, the first of which leaves the delivery. *)
LEMMA FollowsSame ==
    ASSUME NEW g, NEW w, RowOK(w, g), NEW m, SameWork(w, m), Forgets(w, m), NEW n, Follows(m, n)
    PROVE  Follows(w, n)
<1>1. m.delivery = w.delivery /\ m.sent = w.sent /\ m.exhausted = w.exhausted
      BY DEF SameWork
<1>2. Forgets(w, n)
      BY DEF Follows, Forgets
<1> QED BY <1>1, <1>2 DEF Follows, Keeps

LEMMA SameWorkTrans ==
    ASSUME NEW u, NEW v, NEW w, SameWork(u, v), SameWork(v, w), Forgets(u, v), Forgets(v, w)
    PROVE  SameWork(u, w) /\ Forgets(u, w)
BY DEF SameWork, Forgets

LEMMA EnableTokenKeeps ==
    ASSUME NoticeInv, NEW token \in Token, EnableToken(token)
    PROVE  NoticeInv'
<1>1. PICK a : a = AppOf[token]
      OBVIOUS
<1>2. PICK e : e = <<"enabled", token>>
      OBVIOUS
<1>3. e \in Event
      BY <1>2 DEF Event
<1>4. PICK c : c = Current
      OBVIOUS
<1>5. PICK w : w = WithSeenEvent(c, e)
      OBVIOUS
<1>6. RowOK(c, asked) /\ Aimed(c) /\ (rows # None => c = rows)
      BY <1>4, CurrentOK
<1>7. Relisted(c, w)
      BY <1>3, <1>5, <1>6, SeenOK
<1>8. RowOK(w, asked) /\ Aimed(w) /\ Follows(c, w) /\ SameWork(c, w)
      BY <1>6, <1>7, RelistedOK DEF Relisted
<1>9. CASE token \in ToSet(w.revoked)
  <2>1. Start("event", w, "idle")
        BY <1>1, <1>2, <1>4, <1>5, <1>9 DEF EnableToken
  <2> QED BY <1>6, <1>8, <2>1, StartOK DEF Progress
<1>10. CASE token \notin ToSet(w.revoked)
  <2>1. PICK m : m = IF w.subs[a] # None /\ w.subs[a].token # token THEN Unsubscribed(w, a) ELSE w
        OBVIOUS
  <2>2. PICK sub : sub = [token |-> token, enabledAt |-> now, expiresAt |-> now + SubscriptionLife]
        OBVIOUS
  <2>3. PICK r : r = IF m.retention > now + SubscriptionLife THEN m.retention ELSE now + SubscriptionLife
        OBVIOUS
  <2>4. PICK n : n = [m EXCEPT !.subs[a] = sub, !.retention = r]
        OBVIOUS
  <2>5. PICK x \in Attached(n) : Start("event", x, IF x.delivery = None THEN "idle" ELSE "attempt")
    <3>1. \E x \in Attached([m EXCEPT !.subs[a] = sub,
                               !.retention = IF @ > now + SubscriptionLife THEN @
                                             ELSE now + SubscriptionLife]) :
             Start("event", x, IF x.delivery = None THEN "idle" ELSE "attempt")
          BY <1>1, <1>2, <1>4, <1>5, <1>10, <2>1, <2>2 DEF EnableToken
    <3>2. n = [m EXCEPT !.subs[a] = sub,
                        !.retention = IF @ > now + SubscriptionLife THEN @
                                      ELSE now + SubscriptionLife]
          BY <2>3, <2>4
    <3> QED BY <3>1, <3>2
  <2>6. /\ RowOK(m, asked) /\ SameWork(w, m) /\ Forgets(w, m)
        /\ a \notin Subscribed(m) \/ m.subs[a].token = token
        /\ Few => token \notin ToSet(m.revoked)
    <3>1. CASE w.subs[a] # None /\ w.subs[a].token # token
      <4>1. m = Unsubscribed(w, a)
            BY <2>1, <3>1
      <4>2. a \in Subscribed(w)
            BY <1>1, <3>1, NotificationAssumption DEF Subscribed
      <4>3. /\ Shrunk(w, m) /\ Subscribed(m) = Subscribed(w) \ {a}
            /\ Few => ToSet(m.revoked) = ToSet(w.revoked) \cup {w.subs[a].token}
            BY <1>8, <4>1, <4>2, UnsubscribedOK, RowFacts
      <4> QED BY <1>8, <1>10, <3>1, <4>3, ShrunkOK DEF Follows
    <3>2. CASE ~(w.subs[a] # None /\ w.subs[a].token # token)
      <4>1. m = w
            BY <2>1, <3>2
      <4> QED BY <1>8, <1>10, <3>2, <4>1, FollowsSelf DEF SameWork, Follows, Subscribed
    <3> QED BY <3>1, <3>2
  <2>7. sub \in Subscription /\ sub.token = token /\ r \in Nat
    <3>1. now + SubscriptionLife \in Nat /\ now \in Nat /\ m.retention \in Nat
          BY <2>6, Facts, Bounds, RowFacts
    <3> QED BY <2>2, <2>3, <3>1 DEF Subscription
  <2>8. RowOK(n, asked) /\ Follows(m, n) /\ SameWork(m, n)
        BY <1>1, <2>4, <2>6, <2>7, EnabledOK
  <2>9. RowOK(x, asked) /\ Aimed(x) /\ Follows(n, x)
        BY <2>8, AttachedOK
  <2>10. Follows(c, x)
    <3>1. Forgets(c, w) /\ Forgets(m, n)
          BY <1>8, <2>8 DEF Follows
    <3>2. SameWork(c, m) /\ Forgets(c, m)
          BY <1>8, <2>6, <3>1, SameWorkTrans
    <3>3. SameWork(c, n) /\ Forgets(c, n)
          BY <2>8, <3>1, <3>2, SameWorkTrans
    <3> QED BY <1>6, <2>9, <3>3, FollowsSame
  <2>11. Progress(x)
        BY <1>6, <2>9, <2>10 DEF Progress
  <2> QED BY <2>5, <2>11, StartOK
<1> QED BY <1>9, <1>10


LEMMA DisableAppKeeps ==
    ASSUME NoticeInv, NEW a \in App, DisableApp(a)
    PROVE  NoticeInv'
<1>1. PICK e : e = <<"disabled", a>>
      OBVIOUS
<1>2. e \in Event
      BY <1>1 DEF Event
<1>3. PICK c : c = Current
      OBVIOUS
<1>4. PICK w : w = WithSeenEvent(c, e)
      OBVIOUS
<1>5. PICK m : m = Unsubscribed(w, a)
      OBVIOUS
<1>6. PICK r : r = IF m.retention > now + SubscriptionLife THEN m.retention ELSE now + SubscriptionLife
      OBVIOUS
<1>7. PICK n : n = [m EXCEPT !.retention = r]
      OBVIOUS
<1>8. Start("event", n, "idle")
      BY <1>1, <1>3, <1>4, <1>5, <1>6, <1>7 DEF DisableApp
<1>9. RowOK(c, asked) /\ Aimed(c) /\ (rows # None => c = rows)
      BY <1>3, CurrentOK
<1>10. RowOK(w, asked) /\ Aimed(w) /\ SameWork(c, w) /\ Forgets(c, w)
  <2>1. Relisted(c, w)
        BY <1>2, <1>4, <1>9, SeenOK
  <2> QED BY <1>9, <2>1, RelistedOK DEF Relisted, Follows
<1>11. RowOK(m, asked) /\ Aimed(m) /\ SameWork(w, m) /\ Forgets(w, m)
  <2>1. Shrunk(w, m)
        BY <1>5, <1>10, RowFacts, UnsubscribedOK
  <2> QED BY <1>10, <2>1, ShrunkOK DEF Follows
<1>12. r \in Nat
  <2>1. now + SubscriptionLife \in Nat /\ m.retention \in Nat
        BY <1>11, Facts, Bounds, RowFacts
  <2> QED BY <1>6, <2>1
<1>13. RowOK(n, asked) /\ Aimed(n) /\ Follows(m, n)
  <2>1. Relisted(m, n)
        BY <1>7, <1>11, <1>12, RetainedOK
  <2> QED BY <1>11, <2>1, RelistedOK
<1>14. Follows(c, n)
  <2>1. SameWork(c, m) /\ Forgets(c, m)
        BY <1>10, <1>11, SameWorkTrans
  <2> QED BY <1>9, <1>13, <2>1, FollowsSame
<1> QED BY <1>8, <1>9, <1>13, <1>14, StartOK DEF Progress

(* Attaching an attempt to rows that follow. *)
LEMMA AttachedKeeps ==
    ASSUME NEW g, NEW w, RowOK(w, g), NEW m, RowOK(m, g), Follows(w, m), NEW n \in Attached(m)
    PROVE  RowOK(n, g) /\ Aimed(n) /\ Follows(w, n)
<1>1. /\ RowOK(n, g) /\ Aimed(n) /\ SameLists(m, n)
      /\ n.sent = m.sent /\ n.exhausted = m.exhausted
      /\ m.delivery = None => n = m
      /\ m.delivery # None =>
            /\ n.delivery # None
            /\ n.delivery.request = m.delivery.request
            /\ n.delivery.queuedAt = m.delivery.queuedAt
            /\ n.delivery.recovery = m.delivery.recovery
            /\ m.delivery.attempt # None => n.delivery.attempt = m.delivery.attempt
      BY AttachedOK
<1>2. Forgets(w, n)
  <2>1. Tokens(n) = Tokens(m) /\ n.revoked = m.revoked
        BY <1>1, RowFacts, SameListsOK DEF SameLists
  <2> QED BY <2>1 DEF Follows, Forgets
<1>3. Keeps(w, n)
      BY <1>1 DEF Follows, Keeps, SameDelivery, ExhaustedFor
<1> QED BY <1>1, <1>2, <1>3 DEF Follows

LEMMA TimesType ==
    ASSUME NoticeInv, NEW t \in StatedTimes
    PROVE  t \in Nat
<1>1. now \in Nat /\ Skew \in Nat
      BY Facts, Bounds
<1> QED BY <1>1 DEF StatedTimes

LEMMA QueueAdmissionKeeps ==
    ASSUME NoticeInv, NEW g \in 1..asked, QueueAdmission(g)
    PROVE  NoticeInv'
<1>1. PICK w : w = Current
      OBVIOUS
<1>2. RowOK(w, asked) /\ Aimed(w) /\ (rows # None => w = rows)
      BY <1>1, CurrentOK
<1>3. /\ ~ExhaustedFor(w, g) \/ AuthorizedRecovery(w)
      /\ \E t \in StatedTimes :
         \E x \in Attached(IF w.delivery # None /\ w.delivery.request = g THEN w
                           ELSE [w EXCEPT !.delivery = NewDelivery(g, t, None)]) :
            Start("queue", x, "attempt")
      BY <1>1 DEF QueueAdmission
<1>4. PICK t \in StatedTimes :
         \E x \in Attached(IF w.delivery # None /\ w.delivery.request = g THEN w
                           ELSE [w EXCEPT !.delivery = NewDelivery(g, t, None)]) :
            Start("queue", x, "attempt")
      BY <1>3
<1>5. PICK m : m = IF w.delivery # None /\ w.delivery.request = g THEN w
                   ELSE WithDelivery(w, NewDelivery(g, t, None))
      OBVIOUS
<1>6. PICK x \in Attached(m) : Start("queue", x, "attempt")
      BY <1>4, <1>5 DEF WithDelivery
<1>7. RowOK(m, asked) /\ Follows(w, m)
  <2>1. CASE w.delivery # None /\ w.delivery.request = g
        BY <1>2, <1>5, <2>1, FollowsSelf
  <2>2. CASE ~(w.delivery # None /\ w.delivery.request = g)
    <3>1. g \in Nat /\ g <= asked /\ asked \in Nat /\ t \in Nat
          BY Facts, TimesType
    <3>2. w.recovery # None => w.recovery.request # g
          BY <1>2, <1>3, <2>2 DEF RowOK, ExhaustedFor, AuthorizedRecovery
    <3>3. m = WithDelivery(w, NewDelivery(g, t, None))
          BY <1>5, <2>2
    <3> QED BY <1>2, <2>2, <3>1, <3>2, <3>3, QueuedOK
  <2> QED BY <2>1, <2>2
<1>8. RowOK(x, asked) /\ Aimed(x) /\ Follows(w, x)
      BY <1>2, <1>6, <1>7, AttachedKeeps
<1> QED BY <1>2, <1>6, <1>8, StartOK DEF Progress

LEMMA RecoverAdmissionKeeps ==
    ASSUME NoticeInv, NEW g \in 1..asked, NEW id \in RecoveryId, RecoverAdmission(g, id)
    PROVE  NoticeInv'
<1>1. rows # None /\ rows.exhausted = g
      BY DEF RecoverAdmission
<1>2. RowOK(rows, asked) /\ Aimed(rows)
      BY <1>1, Facts
<1>3. PICK p : p = Prune(rows, now)
      OBVIOUS
<1>4. RowOK(p, asked) /\ SameWork(rows, p) /\ Shrunk(rows, p) /\ Aimed(p) /\ Follows(rows, p)
      BY <1>2, <1>3, Pruned
<1>5. CASE Subscribed(p) = {}
  <2>1. Start("recover", p, "idle")
        BY <1>3, <1>5 DEF RecoverAdmission
  <2> QED BY <1>4, <2>1, StartOK DEF Progress
<1>6. CASE Subscribed(p) # {}
  <2>1. PICK t \in StatedTimes :
           \E x \in Attached([p EXCEPT !.recovery = RecoveryOf(g, id, t),
                                       !.delivery = NewDelivery(g, t, id)]) :
              Start("recover", x, "attempt")
        BY <1>3, <1>6 DEF RecoverAdmission
  <2>2. PICK m : m = [p EXCEPT !.recovery = RecoveryOf(g, id, t), !.delivery = NewDelivery(g, t, id)]
        OBVIOUS
  <2>3. PICK x \in Attached(m) : Start("recover", x, "attempt")
        BY <2>1, <2>2
  <2>4. RowOK(m, asked) /\ Follows(p, m)
    <3>1. g \in Nat /\ asked \in Nat /\ t \in Nat /\ p.exhausted = g
          BY <1>1, <1>4, Facts, TimesType DEF SameWork
    <3> QED BY <1>4, <2>2, <3>1, RecoveredOK
  <2>5. RowOK(x, asked) /\ Aimed(x) /\ Follows(p, x)
        BY <1>4, <2>3, <2>4, AttachedKeeps
  <2>6. Follows(rows, x)
        BY <1>2, <1>4, <2>5, FollowsOn
  <2> QED BY <2>3, <2>5, <2>6, StartOK DEF Progress
<1> QED BY <1>5, <1>6

(* Steps that leave the rows alone. *)
LEMMA StoredKept ==
    ASSUME NoticeInv, UNCHANGED <<rows, target, gone, told, asked>>
    PROVE  Stored'
BY DEF NoticeInv, Stored, RowOK, Aimed, TargetOK, ExhaustedFor

LEMMA IdleOK ==
    ASSUME work' = Idle
    PROVE  Working'
BY DEF Working, IsWork, Idle

LEMMA RepeatRecoveryKeeps ==
    ASSUME NoticeInv, NEW g, NEW id, RepeatRecovery(g, id)
    PROVE  NoticeInv'
<1>1. /\ rows # None /\ UNCHANGED <<now, config, pending, asked, deploys, rows, alarm>>
      /\ UNCHANGED <<target, gone, told>>
      /\ work' = [Idle EXCEPT !.at = "attempt", !.call = "recover"]
      BY DEF RepeatRecovery, world, history
<1>2. Working'
      BY <1>1 DEF Working, IsWork, Idle
<1>3. Clock'
      BY <1>1 DEF NoticeInv, Clock
<1> QED BY <1>1, <1>2, <1>3, StoredKept DEF NoticeInv

LEMMA ScheduleKeeps ==
    ASSUME NoticeInv, Schedule
    PROVE  NoticeInv'
<1>1. /\ work.at = "schedule" /\ alarm' = NextAlarm(rows, work.time)
      /\ UNCHANGED <<now, config, pending, asked, deploys, rows, target, gone, told>>
      BY DEF Schedule, At, world, history
<1>2. rows # None /\ RowOK(rows, asked) /\ IsWork /\ work.time \in Nat
      BY <1>1, Facts
<1>3. alarm' \in Nat
      BY <1>1, <1>2, NextAlarmType
<1>4. Clock'
      BY <1>1, <1>3 DEF NoticeInv, Clock
<1>5. Working'
  <2>1. CASE work.then = "idle"
    <3>1. work' = Idle
          BY <2>1 DEF Schedule
    <3> QED BY <3>1, IdleOK
  <2>2. CASE work.then # "idle"
    <3>1. work' = [work EXCEPT !.at = work.then] /\ work.then \in {"attempt", "end"}
          BY <1>1, <2>2 DEF Schedule, NoticeInv, Working
    <3>2. IsWork' /\ work'.at = work.then /\ work'.time = work.time
          BY <1>2, <3>1 DEF IsWork
    <3> QED BY <1>1, <1>2, <3>1, <3>2 DEF Working
  <2> QED BY <2>1, <2>2
<1> QED BY <1>1, <1>4, <1>5, StoredKept DEF NoticeInv

-----------------------------------------------------------------------------
(* attemptDelivery.                                                           *)

(* An exhausted receipt ends whatever the delivery was at. *)
LEMMA FollowsEnd ==
    ASSUME NEW w, NEW n, w.sent <= n.sent, w.exhausted <= n.exhausted, Forgets(w, n),
           n.delivery # None => ExhaustedFor(n, n.delivery.request)
    PROVE  Follows(w, n)
BY DEF Follows, Keeps

LEMMA OverOK ==
    ASSUME NEW g \in Nat, NEW w, RowOK(w, g), w.delivery # None, NEW n, n = Over(w)
    PROVE  RowOK(n, g) /\ Aimed(n) /\ Follows(w, n)
<1>1. CASE w.delivery.attempt # None /\ w.delivery.attempt.status = "exhausted"
  <2>1. PICK m : m = WithExhausted(w)
        OBVIOUS
  <2>2. n = Cleared(m)
        BY <1>1, <2>1 DEF Over
  <2>3. RowOK(m, g) /\ w.sent = m.sent /\ w.exhausted <= m.exhausted /\ SameLists(w, m)
        BY <2>1, ExhaustedOK
  <2>4. RowOK(n, g) /\ Aimed(n) /\ Follows(m, n) /\ n.delivery = None
    <3>1. IsState(m)
          BY <2>3, StateType DEF RowOK
    <3>2. n.delivery = None
          BY <2>2, <3>1 DEF Cleared, IsState
    <3> QED BY <2>2, <2>3, <3>2, ClearedOK
  <2>5. w.sent <= n.sent /\ w.exhausted <= n.exhausted
    <3>1. w.exhausted \in Nat /\ m.exhausted \in Nat /\ n.exhausted \in Nat /\ m.exhausted <= n.exhausted
          BY <2>3, <2>4, RowFacts DEF Follows
    <3>2. w.sent <= n.sent
          BY <2>3, <2>4 DEF Follows
    <3> QED BY <2>3, <3>1, <3>2
  <2>6. Forgets(w, n)
    <3>1. Tokens(m) = Tokens(w) /\ m.revoked = w.revoked
          BY <2>3, RowFacts, SameListsOK DEF SameLists
    <3> QED BY <2>4, <3>1 DEF Follows, Forgets
  <2> QED BY <2>4, <2>5, <2>6, FollowsEnd
<1>2. CASE ~(w.delivery.attempt # None /\ w.delivery.attempt.status = "exhausted")
  <2>1. n = Cleared(w)
        BY <1>2 DEF Over
  <2> QED BY <2>1, ClearedOK
<1> QED BY <1>1, <1>2

(* An attempt is stored, and the request ends with it. *)
LEMMA EndedRowOK ==
    ASSUME NEW g \in Nat, NEW w, RowOK(w, g), w.delivery # None, NEW y, y = None \/ AttemptOK(y),
           NEW n, n = WithExhausted(WithAttempt(w, y))
    PROVE  RowOK(n, g) /\ Aimed(n) /\ Follows(w, n)
<1>1. PICK m : m = WithAttempt(w, y)
      OBVIOUS
<1>2. /\ RowOK(m, g) /\ SameLists(w, m) /\ m.sent = w.sent /\ m.exhausted = w.exhausted
      /\ m.delivery # None
      BY <1>1, TryingOK
<1>3. /\ RowOK(n, g) /\ Aimed(n) /\ n.delivery # None /\ ExhaustedFor(n, n.delivery.request)
      /\ m.sent = n.sent /\ m.exhausted <= n.exhausted /\ Forgets(m, n)
  <2>1. n = WithExhausted(m)
        BY <1>1
  <2> QED BY <1>2, <2>1, ExhaustedOK
<1>4. Forgets(w, n)
  <2>1. Tokens(m) = Tokens(w) /\ m.revoked = w.revoked
        BY <1>2, RowFacts, SameListsOK DEF SameLists
  <2> QED BY <1>3, <2>1 DEF Forgets
<1>5. w.sent <= n.sent /\ w.exhausted <= n.exhausted
      BY <1>2, <1>3, RowFacts
<1> QED BY <1>3, <1>4, <1>5, FollowsEnd

LEMMA RestatedOK ==
    ASSUME NEW g \in Nat, NEW w, RowOK(w, g), Aimed(w), w.delivery # None, NEW n, n = Restated(w)
    PROVE  RowOK(n, g) /\ Aimed(n) /\ Follows(w, n)
<1> DEFINE x == w.delivery.attempt
<1>1. w.sent \in Nat /\ w.exhausted \in Nat
      BY RowFacts
<1>2. CASE x # None /\ x.status = "sent"
  <2>1. n = WithSent(w)
        BY <1>2 DEF Restated
  <2>2. /\ RowOK(n, g) /\ Aimed(n) /\ n.delivery = w.delivery
        /\ w.sent <= n.sent /\ w.exhausted = n.exhausted /\ Forgets(w, n)
        BY <2>1, SentOK
  <2> QED BY <1>1, <2>2 DEF Follows, Keeps
<1>3. CASE x # None /\ x.status = "exhausted"
  <2>1. n = WithExhausted(w)
    <3>1. ~(x # None /\ x.status = "sent")
          BY <1>3
    <3> QED BY <1>3, <3>1 DEF Restated
  <2>2. /\ RowOK(n, g) /\ Aimed(n) /\ n.delivery # None /\ ExhaustedFor(n, n.delivery.request)
        /\ w.sent = n.sent /\ w.exhausted <= n.exhausted /\ Forgets(w, n)
        BY <2>1, ExhaustedOK
  <2> QED BY <1>1, <2>2, FollowsEnd
<1>4. CASE ~(x # None /\ x.status = "sent") /\ ~(x # None /\ x.status = "exhausted")
  <2>1. n = w
        BY <1>4 DEF Restated
  <2> QED BY <2>1, FollowsSelf
<1> QED BY <1>2, <1>3, <1>4

(* The rows still say what they said of the receipts. *)
LEMMA SettledSame ==
    ASSUME NEW w, NEW p, SameWork(w, p)
    PROVE  Settled(p) <=> Settled(w)
<1>1. p.sent = w.sent /\ p.exhausted = w.exhausted /\ p.recovery = w.recovery /\ p.delivery = w.delivery
      BY DEF SameWork
<1>2. AuthorizedRecovery(p) <=> AuthorizedRecovery(w)
      BY <1>1 DEF AuthorizedRecovery
<1> QED BY <1>1, <1>2 DEF Settled, SentFor, ExhaustedFor

(* A target that is chosen: the attempt can go under way. *)
LEMMA ChosenOK ==
    ASSUME NoticeInv, rows # None, NEW p, Shrunk(rows, p), p.delivery # None, ~Settled(p),
           NEW rw \in Attached(p), NEW x, x = rw.delivery.attempt, x # None, HasTarget(rw), DueNow(x)
    PROVE  /\ rows.delivery # None /\ ~Settled(rows) /\ Open(x) /\ x.token \in Tokens(rows)
           /\ rows.delivery.attempt # None => x = rows.delivery.attempt
           /\ rows.delivery.recovery = None => rows.delivery.attempt # None
<1>1. RowOK(rows, asked) /\ Aimed(rows)
      BY Facts
<1>2. RowOK(p, asked) /\ SameWork(rows, p)
      BY <1>1, ShrunkOK
<1>3. rows.delivery # None /\ ~Settled(rows) /\ rows.delivery = p.delivery
      BY <1>2, SettledSame DEF SameWork
<1>4. /\ RowOK(rw, asked) /\ SameLists(p, rw) /\ rw.delivery # None
      /\ p.delivery.attempt # None => rw.delivery.attempt = p.delivery.attempt
      BY <1>2, AttachedOK
<1>5. Open(x)
  <2>1. AttemptOK(x)
        BY <1>4 DEF RowOK, DeliveryOK
  <2> QED BY <2>1 DEF Open, Live, DueNow
<1>6. x.app \in Subscribed(rows) /\ rows.subs[x.app].token = x.token
  <2>1. p.subs[x.app] # None /\ p.subs[x.app].token = x.token /\ x.app \in App
        BY <1>4, <1>5, OpenFacts DEF HasTarget, SameLists
  <2>2. x.app \in Subscribed(p)
        BY <2>1 DEF Subscribed
  <2> QED BY <2>1, <2>2 DEF Shrunk
<1>7. x.token \in Tokens(rows)
      BY <1>6 DEF Tokens
<1>8. ASSUME rows.delivery.recovery = None, rows.delivery.attempt = None PROVE FALSE
  <2>1. ExhaustedFor(rows, rows.delivery.request)
        BY <1>1, <1>3, <1>6, <1>8 DEF Aimed
  <2> QED BY <1>3, <1>8, <2>1 DEF Settled, AuthorizedRecovery
<1> QED BY <1>3, <1>4, <1>5, <1>7, <1>8

(* A delivery that goes on through both changes. *)
LEMMA FollowsTrans ==
    ASSUME NEW g, NEW w, RowOK(w, g), NEW m, RowOK(m, g), NEW n, RowOK(n, g),
           Follows(w, m), Follows(m, n),
           w.delivery # None => m.delivery # None /\ SameDelivery(w.delivery, m.delivery)
    PROVE  Follows(w, n)
<1>1. /\ w.sent \in Nat /\ m.sent \in Nat /\ n.sent \in Nat
      /\ w.exhausted \in Nat /\ m.exhausted \in Nat /\ n.exhausted \in Nat
      BY RowFacts
<1>2. w.sent <= n.sent /\ w.exhausted <= n.exhausted
      BY <1>1 DEF Follows
<1>3. Forgets(w, n)
      BY DEF Follows, Forgets
<1>4. ASSUME w.delivery # None, n.delivery # None, SameDelivery(w.delivery, n.delivery),
             w.delivery.attempt # None, ~ExhaustedFor(n, n.delivery.request)
      PROVE  n.delivery.attempt # None /\ n.delivery.attempt.token = w.delivery.attempt.token
  <2>1. /\ m.delivery # None /\ m.delivery.request = n.delivery.request
        /\ SameDelivery(w.delivery, m.delivery) /\ SameDelivery(m.delivery, n.delivery)
        BY <1>4 DEF SameDelivery
  <2>2. ~ExhaustedFor(m, m.delivery.request)
    <3>1. m.delivery.request \in Nat /\ m.exhausted <= n.exhausted
          BY <2>1, RowFacts DEF Follows
    <3> QED BY <1>1, <1>4, <2>1, <3>1 DEF ExhaustedFor
  <2>3. m.delivery.attempt # None /\ m.delivery.attempt.token = w.delivery.attempt.token
        BY <1>4, <2>1, <2>2 DEF Follows, Keeps
  <2> QED BY <1>4, <2>1, <2>3 DEF Follows, Keeps
<1> QED BY <1>2, <1>3, <1>4 DEF Follows, Keeps

LEMMA AttemptDeliveryKeeps ==
    ASSUME NoticeInv, AttemptDelivery
    PROVE  NoticeInv'
<1>1. PICK p : p = Prune(rows, now)
      OBVIOUS
<1>2. work.at = "attempt" /\ told' = told /\ rows # None
      BY Facts DEF AttemptDelivery, At
<1>3. RowOK(rows, asked) /\ Aimed(rows) /\ now \in Nat /\ asked \in Nat
      BY <1>2, Facts
<1>4. RowOK(p, asked) /\ SameWork(rows, p) /\ Shrunk(rows, p) /\ Aimed(p) /\ Follows(rows, p)
      BY <1>1, <1>3, Pruned
<1>5. told' \subseteq Nat /\ \A g \in told' : g \in told
      BY <1>2 DEF NoticeInv, Stored
<1>6. ASSUME NEW n, Persist(n, now), RowOK(n, asked), Aimed(n), Follows(p, n)
      PROVE  NoticeInv'
  <2>1. Progress(n)
        BY <1>3, <1>4, <1>6, FollowsOn DEF Progress
  <2> QED BY <1>2, <1>3, <1>5, <1>6, <2>1, PersistOK
<1>7. CASE p.delivery = None /\ p = rows
  <2>1. /\ work' = (IF Afterwards = "idle" THEN Idle ELSE [work EXCEPT !.at = Afterwards])
        /\ UNCHANGED <<now, config, pending, asked, deploys, rows, alarm, target, gone>>
        BY <1>1, <1>7 DEF AttemptDelivery, world
  <2>2. Working'
    <3>1. CASE Afterwards = "idle"
          BY <2>1, <3>1, IdleOK
    <3>2. CASE Afterwards # "idle"
      <4>1. work' = [work EXCEPT !.at = "end"]
            BY <2>1, <3>2 DEF Afterwards
      <4>2. IsWork' /\ work'.at = "end" /\ work'.time = work.time /\ work.time \in Nat
            BY <4>1, Facts DEF IsWork
      <4> QED BY <1>2, <2>1, <4>2 DEF Working
    <3> QED BY <3>1, <3>2
  <2>3. Clock'
        BY <2>1 DEF NoticeInv, Clock
  <2> QED BY <1>2, <2>1, <2>2, <2>3, StoredKept DEF NoticeInv
<1>8. CASE p.delivery = None /\ p # rows
  <2>1. Persist(p, now)
        BY <1>1, <1>8 DEF AttemptDelivery
  <2> QED BY <1>4, <1>6, <2>1, FollowsSelf
<1>9. CASE p.delivery # None /\ (Settled(p) \/ (now < p.delivery.expiresAt /\ config.mode = "paused"))
  <2>1. Persist(Cleared(p), now)
    <3>1. p.delivery.expiresAt \in Nat
          BY <1>4, <1>9, RowFacts, DeliveryType DEF DeliveryFields
    <3>2. ~(~Settled(p) /\ now >= p.delivery.expiresAt)
          BY <1>3, <1>9, <3>1
    <3> QED BY <1>1, <1>9, <3>2 DEF AttemptDelivery
  <2> QED BY <1>4, <1>6, <2>1, ClearedOK
<1>10. CASE p.delivery # None /\ ~Settled(p) /\ now >= p.delivery.expiresAt
  <2>1. Persist(Over(p), now)
    <3>1. p.delivery.expiresAt \in Nat
          BY <1>4, <1>10, RowFacts, DeliveryType DEF DeliveryFields
    <3>2. ~(now < p.delivery.expiresAt)
          BY <1>3, <1>10, <3>1
    <3> QED BY <1>1, <1>10, <3>2 DEF AttemptDelivery
  <2> QED BY <1>3, <1>4, <1>6, <1>10, <2>1, OverOK
<1>11. CASE /\ p.delivery # None /\ ~Settled(p) /\ ~(now >= p.delivery.expiresAt)
            /\ ~(now < p.delivery.expiresAt /\ config.mode = "paused")
  <2>1. PICK rw \in Attached(p) :
           LET x == rw.delivery.attempt IN
           CASE x # None /\ ~HasTarget(rw) -> Persist(Retired(rw), now)
             [] x # None /\ HasTarget(rw) /\ DueNow(x) ->
                  /\ work' = [work EXCEPT !.at = "verify", !.time = now, !.outcome = x]
                  /\ UNCHANGED <<world, rows, alarm, crashes, target, gone, stranded>>
             [] OTHER -> Persist(Restated(rw), now)
        BY <1>1, <1>11 DEF AttemptDelivery
  <2>2. PICK x : x = rw.delivery.attempt
        OBVIOUS
  <2>3. /\ RowOK(rw, asked) /\ Aimed(rw) /\ Follows(p, rw)
        /\ rw.delivery # None /\ SameDelivery(p.delivery, rw.delivery)
        BY <1>4, <1>11, AttachedOK DEF SameDelivery
  <2>4. ASSUME NEW n, Persist(n, now), RowOK(n, asked), Aimed(n), Follows(rw, n)
        PROVE  NoticeInv'
    <3>1. Follows(p, n)
          BY <1>4, <2>3, <2>4, FollowsTrans
    <3> QED BY <1>6, <2>4, <3>1
  <2>5. CASE x # None /\ ~HasTarget(rw)
    <3>1. Persist(Retired(rw), now)
          BY <2>1, <2>2, <2>5
    <3>2. PICK y : y = [x EXCEPT !.status = "exhausted", !.failures = 0, !.next = Never]
          OBVIOUS
    <3>3. AttemptOK(y)
      <4>1. AttemptOK(x)
            BY <2>2, <2>3, <2>5 DEF RowOK, DeliveryOK
      <4> QED BY <3>2, <4>1, RetiredOK
    <3>4. Retired(rw) = WithExhausted(WithAttempt(rw, y))
      <4>1. IsState(rw) /\ IsDelivery(rw.delivery)
            BY <2>3, RowFacts, StateType, DeliveryType
      <4>2. WithAttempt(rw, y) =
               [rw EXCEPT !.delivery.attempt = [@ EXCEPT !.status = "exhausted", !.failures = 0,
                                                         !.next = Never]]
            BY <2>2, <3>2, <4>1 DEF WithAttempt, IsState, IsDelivery
      <4> QED BY <4>2 DEF Retired
    <3> QED BY <1>3, <2>3, <2>4, <3>1, <3>3, <3>4, EndedRowOK
  <2>6. CASE x # None /\ HasTarget(rw) /\ DueNow(x)
    <3>1. /\ work' = [work EXCEPT !.at = "verify", !.time = now, !.outcome = x]
          /\ UNCHANGED <<now, config, pending, asked, deploys, rows, alarm, target, gone>>
          BY <2>1, <2>2, <2>6 DEF world
    <3>2. /\ rows.delivery # None /\ ~Settled(rows) /\ Open(x) /\ x.token \in Tokens(rows)
          /\ rows.delivery.attempt # None => x = rows.delivery.attempt
          /\ rows.delivery.recovery = None => rows.delivery.attempt # None
          BY <1>2, <1>4, <1>11, <2>2, <2>6, ChosenOK
    <3>3. IsWork' /\ work'.at = "verify" /\ work'.time = now /\ work'.outcome = x
          BY <3>1, Facts DEF IsWork
    <3>4. UnderWay'
          BY <3>1, <3>2, <3>3
          DEF UnderWay, Settled, SentFor, ExhaustedFor, AuthorizedRecovery, Tokens, Subscribed
    <3>5. Working'
          BY <1>2, <1>3, <3>1, <3>3, <3>4 DEF Working
    <3>6. Clock'
          BY <3>1 DEF NoticeInv, Clock
    <3> QED BY <1>2, <3>1, <3>5, <3>6, StoredKept DEF NoticeInv
  <2>7. CASE ~(x # None /\ ~HasTarget(rw)) /\ ~(x # None /\ HasTarget(rw) /\ DueNow(x))
    <3>1. Persist(Restated(rw), now)
          BY <2>1, <2>2, <2>7
    <3>2. RowOK(Restated(rw), asked) /\ Aimed(Restated(rw)) /\ Follows(rw, Restated(rw))
          BY <1>3, <2>3, RestatedOK
    <3> QED BY <2>4, <3>1, <3>2
  <2> QED BY <2>5, <2>6, <2>7
<1> QED BY <1>7, <1>8, <1>9, <1>10, <1>11

-----------------------------------------------------------------------------
(* Its steps after an await.                                                  *)
LEMMA BaseOK ==
    ASSUME NoticeInv, rows # None, UnderWay, NEW b, b = Base
    PROVE  /\ RowOK(b, asked) /\ Follows(rows, b)
           /\ b.delivery # None /\ SameDelivery(rows.delivery, b.delivery)
           /\ b.delivery.attempt = work.outcome
           /\ rows.delivery \in Delivery /\ rows.delivery.expiresAt \in Nat
<1>1. PICK p : p = Prune(rows, work.time)
      OBVIOUS
<1>2. RowOK(rows, asked) /\ rows.delivery # None /\ Open(work.outcome)
      BY Facts DEF UnderWay
<1>3. RowOK(p, asked) /\ SameWork(rows, p) /\ Shrunk(rows, p) /\ Follows(rows, p)
      BY <1>1, <1>2, Pruned
<1>4. p.delivery = rows.delivery /\ p.delivery # None
      BY <1>2, <1>3 DEF SameWork
<1>5. b = WithAttempt(p, work.outcome)
      BY <1>1 DEF Base, WithAttempt
<1>6. /\ RowOK(b, asked) /\ SameLists(p, b) /\ Forgets(p, b)
      /\ b.sent = p.sent /\ b.exhausted = p.exhausted
      /\ b.delivery # None /\ b.delivery.request = p.delivery.request
      /\ b.delivery.queuedAt = p.delivery.queuedAt
      /\ b.delivery.recovery = p.delivery.recovery /\ b.delivery.attempt = work.outcome
  <2>1. AttemptOK(work.outcome)
        BY <1>2 DEF Open
  <2> QED BY <1>3, <1>4, <1>5, <2>1, TryingOK
<1>7. Follows(p, b)
  <2>1. p.delivery.attempt # None => work.outcome = p.delivery.attempt
        BY <1>4 DEF UnderWay
  <2>2. work.outcome # None
        BY <1>2, OpenFacts
  <2>3. p.sent \in Nat /\ p.exhausted \in Nat
        BY <1>3, RowFacts
  <2> QED BY <1>6, <2>1, <2>2, <2>3 DEF Follows, Keeps
<1>8. Follows(rows, b)
      BY <1>2, <1>3, <1>7, FollowsOn
<1>9. rows.delivery \in Delivery /\ rows.delivery.expiresAt \in Nat
      BY <1>2, RowFacts, DeliveryType DEF DeliveryFields
<1> QED BY <1>4, <1>6, <1>8, <1>9 DEF SameDelivery

(* The outcome of the attempt that is under way replaces it. *)
LEMMA OutcomeRowOK ==
    ASSUME NoticeInv, rows # None, UnderWay, NEW y, AttemptOK(y), y # None,
           y.token = work.outcome.token, NEW n, n = WithAttempt(Base, y)
    PROVE  /\ RowOK(n, asked) /\ Aimed(n) /\ Follows(rows, n)
           /\ n.delivery # None /\ SameDelivery(rows.delivery, n.delivery)
<1>1. PICK b : b = Base
      OBVIOUS
<1>2. /\ RowOK(b, asked) /\ Follows(rows, b)
      /\ b.delivery # None /\ SameDelivery(rows.delivery, b.delivery)
      /\ b.delivery.attempt = work.outcome
      BY <1>1, BaseOK
<1>3. /\ RowOK(n, asked) /\ Aimed(n) /\ Forgets(b, n)
      /\ n.sent = b.sent /\ n.exhausted = b.exhausted
      /\ n.delivery # None /\ n.delivery.request = b.delivery.request
      /\ n.delivery.queuedAt = b.delivery.queuedAt
      /\ n.delivery.recovery = b.delivery.recovery /\ n.delivery.attempt = y
  <2>1. n = WithAttempt(b, y)
        BY <1>1
  <2> QED BY <1>2, <2>1, TryingOK
<1>4. Follows(b, n)
  <2>1. b.sent \in Nat /\ b.exhausted \in Nat
        BY <1>2, RowFacts
  <2> QED BY <1>2, <1>3, <2>1 DEF Follows, Keeps
<1>5. Follows(rows, n)
  <2>1. RowOK(rows, asked)
        BY Facts
  <2> QED BY <1>2, <1>3, <1>4, <2>1, FollowsTrans
<1> QED BY <1>2, <1>3, <1>5 DEF SameDelivery

LEMMA VerifyRequestKeeps ==
    ASSUME NoticeInv, VerifyRequest
    PROVE  NoticeInv'
<1>1. work.at = "verify" /\ told' = told /\ rows # None /\ UnderWay
      BY Facts DEF VerifyRequest, At, NoticeInv, Working
<1>2. RowOK(rows, asked) /\ work.time \in Nat /\ rows.delivery # None /\ Open(work.outcome)
      BY <1>1, Facts DEF UnderWay
<1>3. told' \subseteq Nat /\ \A g \in told' : g \in told
      BY <1>1 DEF NoticeInv, Stored
<1>4. PICK f : f = IF work.outcome.failures < MaxFailures THEN work.outcome.failures + 1 ELSE MaxFailures
      OBVIOUS
<1>5. PICK y : y = Deferred(work.outcome, f, Later(f))
      OBVIOUS
<1>6. CASE Persist([Base EXCEPT !.delivery.attempt = y], work.time)
  <2>1. PICK n : n = WithAttempt(Base, y)
        OBVIOUS
  <2>2. Persist(n, work.time)
        BY <1>6, <2>1 DEF WithAttempt
  <2>3. AttemptOK(y) /\ y # None /\ y.token = work.outcome.token
    <3>1. f \in 0..MaxFailures /\ f \in Nat \ {0}
      <4>1. work.outcome.failures \in 0..MaxFailures
            BY <1>2, OpenFacts
      <4> QED BY <1>4, <4>1, Bounds
    <3>2. Later(f) \in Nat
          BY <1>1, <1>2, <3>1, BaseOK, LaterType
    <3> QED BY <1>2, <1>5, <3>1, <3>2, DeferredOK
  <2>4. Progress(n)
        BY <1>1, <2>1, <2>3, OutcomeRowOK DEF Progress
  <2> QED BY <1>1, <1>2, <1>3, <2>2, <2>4, PersistOK
<1>7. CASE Persist(Cleared(rows), work.time)
  <2>1. Progress(Cleared(rows))
        BY <1>2, ClearedOK DEF Progress
  <2> QED BY <1>1, <1>2, <1>3, <1>7, <2>1, PersistOK
<1>8. CASE /\ pending = rows.delivery.request
           /\ work' = [work EXCEPT !.at = "send"]
           /\ UNCHANGED <<world, rows, alarm, crashes, target, gone, stranded>>
  <2>1. /\ work' = [work EXCEPT !.at = "send"]
        /\ UNCHANGED <<now, config, pending, asked, deploys, rows, alarm, target, gone>>
        BY <1>8 DEF world
  <2>2. IsWork' /\ work'.at = "send" /\ work'.time = work.time /\ work'.outcome = work.outcome
        BY <2>1, Facts DEF IsWork
  <2>3. UnderWay'
        BY <1>1, <2>1, <2>2
        DEF UnderWay, Settled, SentFor, ExhaustedFor, AuthorizedRecovery, Tokens, Subscribed
  <2>4. Working'
        BY <1>1, <1>2, <2>1, <2>2, <2>3 DEF Working
  <2>5. Clock'
        BY <2>1 DEF NoticeInv, Clock
  <2> QED BY <1>1, <2>1, <2>4, <2>5, StoredKept DEF NoticeInv
<1> QED BY <1>4, <1>5, <1>6, <1>7, <1>8 DEF VerifyRequest, Deferred

(* A notice that no operator has recovered goes where the earlier ones went.  *)
LEMMA OneToken ==
    ASSUME NoticeInv, UnderWay, rows # None, rows.delivery.recovery = None
    PROVE  target \subseteq {work.outcome.token}
<1>1. rows.delivery # None /\ rows.delivery.attempt # None /\ work.outcome = rows.delivery.attempt
      BY DEF UnderWay
<1>2. ~ExhaustedFor(rows, rows.delivery.request)
      BY DEF UnderWay, Settled, AuthorizedRecovery
<1> QED BY <1>1, <1>2 DEF NoticeInv, Stored, TargetOK

LEMMA SendOneKeeps ==
    ASSUME NoticeInv, SendOne
    PROVE  NoticeInv'
<1>1. work.at = "send" /\ rows # None /\ UnderWay
      BY Facts DEF SendOne, At, NoticeInv, Working
<1>2. PICK result \in Results : work' = [work EXCEPT !.at = "store", !.then = result]
      BY DEF SendOne, Results
<1>3. /\ target' = target \cup {work.outcome.token}
      /\ UNCHANGED <<now, config, pending, asked, deploys, rows, alarm, gone, told>>
      BY DEF SendOne, world
<1>4. IsWork' /\ work'.at = "store" /\ work'.then = result /\ work'.time = work.time
      /\ work'.outcome = work.outcome /\ work.time \in Nat
      BY <1>2, Facts DEF IsWork
<1>5. UnderWay'
      BY <1>1, <1>3, <1>4
      DEF UnderWay, Settled, SentFor, ExhaustedFor, AuthorizedRecovery, Tokens, Subscribed
<1>6. Working'
      BY <1>1, <1>3, <1>4, <1>5 DEF Working
<1>7. Clock'
      BY <1>3 DEF NoticeInv, Clock
<1>8. TargetOK'
  <2>1. ASSUME rows.delivery.recovery = None
        PROVE  rows.delivery.attempt # None /\ target' \subseteq {rows.delivery.attempt.token}
        BY <1>1, <1>3, <2>1, OneToken DEF UnderWay
  <2> QED BY <1>3, <2>1 DEF TargetOK
<1>9. Stored'
      BY <1>1, <1>3, <1>8 DEF NoticeInv, Stored, RowOK, Aimed, ExhaustedFor
<1> QED BY <1>6, <1>7, <1>9 DEF NoticeInv

LEMMA StoreOutcomeKeeps ==
    ASSUME NoticeInv, StoreOutcome
    PROVE  NoticeInv'
<1> DEFINE x == work.outcome
<1>1. work.at = "store" /\ rows # None /\ UnderWay /\ work.then \in Results
      BY Facts DEF StoreOutcome, At, NoticeInv, Working
<1>2. /\ RowOK(rows, asked) /\ work.time \in Nat /\ asked \in Nat
      /\ rows.delivery # None /\ Open(x) /\ told \subseteq Nat
      BY <1>1, Facts DEF UnderWay, NoticeInv, Stored
<1>3. PICK b : b = Base
      OBVIOUS
<1>4. /\ RowOK(b, asked) /\ Follows(rows, b) /\ b.delivery # None
      /\ SameDelivery(rows.delivery, b.delivery) /\ rows.delivery.expiresAt \in Nat
      BY <1>1, <1>3, BaseOK
<1>5. ASSUME NEW n, work.then # "successful", Persist(n, work.time), RowOK(n, asked), Aimed(n), Follows(b, n)
      PROVE  NoticeInv'
  <2>1. told' = told
        BY <1>5 DEF StoreOutcome
  <2>2. Progress(n)
        BY <1>2, <1>4, <1>5, FollowsTrans DEF Progress
  <2> QED BY <1>1, <1>2, <1>5, <2>1, <2>2, PersistOK
<1>6. CASE work.then = "successful"
  <2>1. PICK y : y = [x EXCEPT !.status = "sent", !.attempts = x.attempts + 1, !.failures = 0,
                               !.next = Never]
        OBVIOUS
  <2>2. PICK m : m = WithAttempt(Base, y)
        OBVIOUS
  <2>3. PICK n : n = WithSent(m)
        OBVIOUS
  <2>4. Persist(n, work.time) /\ told' = told \cup {rows.delivery.request}
        BY <1>6, <2>1, <2>2, <2>3 DEF StoreOutcome, WithAttempt
  <2>5. AttemptOK(y) /\ y # None /\ y.token = x.token
        BY <1>2, <2>1, SentAttemptOK
  <2>6. /\ RowOK(m, asked) /\ Aimed(m) /\ Follows(rows, m)
        /\ m.delivery # None /\ SameDelivery(rows.delivery, m.delivery)
        BY <1>1, <2>2, <2>5, OutcomeRowOK
  <2>7. /\ RowOK(n, asked) /\ Aimed(n) /\ n.delivery = m.delivery
        /\ SentFor(n, n.delivery.request)
        /\ m.sent <= n.sent /\ m.exhausted = n.exhausted /\ Forgets(m, n)
        BY <1>2, <2>3, <2>6, SentOK
  <2>8. Follows(rows, n)
    <3>1. m.exhausted \in Nat
          BY <2>6, RowFacts
    <3>2. Follows(m, n)
          BY <2>7, <3>1 DEF Follows, Keeps
    <3> QED BY <1>2, <2>6, <2>7, <3>2, FollowsTrans
  <2>9. Progress(n)
        BY <2>7, <2>8 DEF Progress
  <2>10. rows.delivery.request \in Nat /\ rows.delivery.request <= n.sent
    <3>1. rows.delivery.request \in Nat /\ n.sent \in Nat
          BY <1>2, <2>7, RowFacts
    <3> QED BY <2>6, <2>7, <3>1 DEF SentFor, SameDelivery
  <2>11. told' \subseteq Nat /\ \A g \in told' : g \in told \/ g <= n.sent
        BY <1>2, <2>4, <2>10
  <2> QED BY <1>1, <1>2, <2>4, <2>9, <2>11, PersistOK
<1>7. CASE work.then = "invalid"
  <2>1. PICK m : m = WithAttempt(b, None)
        OBVIOUS
  <2>2. PICK p : p = Unsubscribed(m, x.app)
        OBVIOUS
  <2>3. PICK n : n = WithExhausted(p)
        OBVIOUS
  <2>4. Persist(n, work.time)
        BY <1>3, <1>7, <2>1, <2>2, <2>3 DEF StoreOutcome, WithAttempt
  <2>5. /\ RowOK(m, asked) /\ SameLists(b, m) /\ m.sent = b.sent /\ m.exhausted = b.exhausted
        /\ m.delivery # None
        BY <1>4, <2>1, TryingOK
  <2>6. RowOK(p, asked) /\ SameWork(m, p) /\ Forgets(m, p)
    <3>1. Shrunk(m, p)
          BY <2>2, <2>5, RowFacts, UnsubscribedOK
    <3> QED BY <2>5, <3>1, ShrunkOK DEF Follows
  <2>7. /\ RowOK(n, asked) /\ Aimed(n) /\ n.delivery # None /\ ExhaustedFor(n, n.delivery.request)
        /\ p.sent = n.sent /\ p.exhausted <= n.exhausted /\ Forgets(p, n)
    <3>1. p.delivery # None
          BY <2>5, <2>6 DEF SameWork
    <3> QED BY <1>2, <2>3, <2>6, <3>1, ExhaustedOK
  <2>8. Forgets(b, n)
    <3>1. Tokens(m) = Tokens(b) /\ m.revoked = b.revoked
          BY <1>4, <2>5, RowFacts, SameListsOK DEF SameLists
    <3> QED BY <2>6, <2>7, <3>1 DEF Forgets
  <2>9. b.sent <= n.sent /\ b.exhausted <= n.exhausted
    <3>1. b.sent \in Nat /\ b.exhausted \in Nat
          BY <1>4, RowFacts
    <3> QED BY <2>5, <2>6, <2>7, <3>1 DEF SameWork
  <2>10. Follows(b, n)
        BY <2>7, <2>8, <2>9, FollowsEnd
  <2> QED BY <1>5, <1>7, <2>4, <2>7, <2>10
<1>8. CASE work.then = "terminal"
  <2>1. PICK y : y = Ended(x)
        OBVIOUS
  <2>2. PICK n : n = WithExhausted(WithAttempt(b, y))
        OBVIOUS
  <2>3. Persist(n, work.time)
        BY <1>3, <1>8, <2>1, <2>2 DEF StoreOutcome, WithAttempt
  <2>4. AttemptOK(y)
        BY <1>2, <2>1, EndedOK
  <2>5. RowOK(n, asked) /\ Aimed(n) /\ Follows(b, n)
        BY <1>2, <1>4, <2>2, <2>4, EndedRowOK
  <2> QED BY <1>5, <1>8, <2>3, <2>5
<1>9. CASE work.then = "retryable"
  <2>1. PICK y : y = Retried(x)
        OBVIOUS
  <2>2. PICK m : m = WithAttempt(b, y)
        OBVIOUS
  <2>3. Persist(Restated(m), work.time)
        BY <1>3, <1>9, <2>1, <2>2 DEF StoreOutcome, WithAttempt
  <2>4. AttemptOK(y) /\ y # None /\ y.token = x.token
        BY <1>2, <1>4, <2>1, RetriedOK
  <2>5. /\ RowOK(m, asked) /\ Aimed(m) /\ Follows(rows, m)
        /\ m.delivery # None /\ SameDelivery(rows.delivery, m.delivery)
        BY <1>1, <1>3, <2>2, <2>4, OutcomeRowOK
  <2>6. PICK n : n = Restated(m)
        OBVIOUS
  <2>7. RowOK(n, asked) /\ Aimed(n) /\ Follows(m, n)
        BY <1>2, <2>5, <2>6, RestatedOK
  <2>8. Follows(rows, n)
        BY <1>2, <2>5, <2>7, FollowsTrans
  <2>9. told' = told
        BY <1>9 DEF StoreOutcome
  <2>10. Progress(n)
        BY <2>7, <2>8 DEF Progress
  <2> QED BY <1>1, <1>2, <2>3, <2>6, <2>9, <2>10, PersistOK
<1> QED BY <1>1, <1>6, <1>7, <1>8, <1>9 DEF Results

-----------------------------------------------------------------------------
(* The alarm, evictions and the environment.                                  *)
LEMMA PurgedOK ==
    ASSUME NoticeInv, Purge, work' = Idle, UNCHANGED <<now, asked, pending>>
    PROVE  NoticeInv'
<1>1. /\ rows' = None /\ alarm' = Never /\ target' = {} /\ gone' = {} /\ told' = {}
      /\ UNCHANGED <<now, asked, pending>>
      BY DEF Purge
<1>2. Stored'
      BY <1>1 DEF Stored
<1>3. Clock'
      BY <1>1 DEF NoticeInv, Clock
<1> QED BY <1>2, <1>3, IdleOK DEF NoticeInv

LEMMA WakeType ==
    ASSUME NoticeInv, rows # None
    PROVE  WakeWithoutConfig(rows) \in Nat
<1> DEFINE d == rows.delivery
           all == {d.expiresAt, rows.retention, now + RetryDelays[1]}
<1>1. RowOK(rows, asked) /\ rows.retention \in Nat
      BY Facts, RowFacts
<1>2. CASE d = None
      BY <1>1, <1>2 DEF WakeWithoutConfig
<1>3. CASE d # None
  <2>1. d.expiresAt \in Nat
        BY <1>1, <1>3, RowFacts, DeliveryType DEF DeliveryFields
  <2>2. now + RetryDelays[1] \in Nat
    <3>1. Len(RetryDelays) \in Nat /\ Len(RetryDelays) # 0 /\ RetryDelays \in Seq(Nat \ {0})
          BY NotificationAssumption, EmptySeq, LenProperties
    <3>2. RetryDelays[1] \in Nat \ {0}
          BY <3>1, ElementOfSeq
    <3>3. now \in Nat
          BY Facts
    <3> QED BY <3>2, <3>3
  <2>3. all \subseteq Nat /\ all # {}
        BY <1>1, <2>1, <2>2
  <2> HIDE DEF all
  <2>4. Min(all) \in Nat
        BY <2>3, Least
  <2> QED BY <1>3, <2>4 DEF WakeWithoutConfig, all
<1> QED BY <1>2, <1>3

LEMMA HandleAlarmKeeps ==
    ASSUME NoticeInv, HandleAlarm
    PROVE  NoticeInv'
<1>1. work.at = "idle" /\ UNCHANGED <<now, config, pending, asked, deploys>>
      BY DEF HandleAlarm, At, world
<1>2. now \in Nat
      BY Facts
<1>3. CASE rows = None \/ (rows # None /\ now >= rows.retention)
  <2>1. Purge /\ work' = Idle
    <3>1. rows # None => rows.retention \in Nat
          BY Facts, RowFacts
    <3>2. ~(rows # None /\ now < rows.retention /\ config.mode = "off")
          BY <1>2, <1>3, <3>1
    <3> QED BY <1>3, <3>2 DEF HandleAlarm
  <2> QED BY <1>1, <2>1, PurgedOK
<1>4. CASE /\ ~(rows = None \/ (rows # None /\ now >= rows.retention))
           /\ rows # None /\ now < rows.retention /\ config.mode = "off"
  <2>1. /\ alarm' = WakeWithoutConfig(rows)
        /\ UNCHANGED <<rows, work, target, gone, told>>
        BY <1>4 DEF HandleAlarm, history
  <2>2. Clock'
        BY <1>1, <1>4, <2>1, WakeType DEF NoticeInv, Clock
  <2>3. Working'
        BY <1>1, <2>1 DEF NoticeInv, Working, IsWork
  <2> QED BY <1>1, <2>1, <2>2, <2>3, StoredKept DEF NoticeInv
<1>5. CASE /\ ~(rows = None \/ (rows # None /\ now >= rows.retention))
           /\ ~(rows # None /\ now < rows.retention /\ config.mode = "off")
  <2>1. /\ alarm' = Never /\ work' = [Idle EXCEPT !.at = "attempt", !.call = "alarm", !.time = now]
        /\ UNCHANGED <<rows, target, gone, told>>
        BY <1>5 DEF HandleAlarm, history
  <2>2. Clock'
        BY <1>1, <2>1 DEF NoticeInv, Clock
  <2>3. Working'
        BY <1>2, <1>5, <2>1 DEF Working, IsWork, Idle
  <2> QED BY <1>1, <2>1, <2>2, <2>3, StoredKept DEF NoticeInv
<1> QED BY <1>3, <1>4, <1>5

LEMMA EndKeeps ==
    ASSUME NoticeInv, End
    PROVE  NoticeInv'
<1>1. work' = Idle /\ UNCHANGED <<now, config, pending, asked, deploys>>
      BY DEF End, world
<1>2. CASE Purge
      BY <1>1, <1>2, PurgedOK
<1>3. CASE UNCHANGED <<rows, alarm, history>>
  <2>1. UNCHANGED <<rows, alarm, target, gone, told>>
        BY <1>3 DEF history
  <2>2. Clock'
        BY <1>1, <2>1 DEF NoticeInv, Clock
  <2> QED BY <1>1, <2>1, <2>2, StoredKept, IdleOK DEF NoticeInv
<1> QED BY <1>2, <1>3 DEF End

LEMMA CrashKeeps ==
    ASSUME NoticeInv, Crash
    PROVE  NoticeInv'
<1>1. /\ work' = Idle
      /\ alarm' = (IF work.call = "alarm" /\ alarm = Never THEN work.time ELSE alarm)
      /\ UNCHANGED <<now, config, pending, asked, deploys, rows, target, gone, told>>
      BY DEF Crash, world, history
<1>2. Clock'
      BY <1>1, Facts DEF NoticeInv, Clock
<1> QED BY <1>1, <1>2, StoredKept, IdleOK DEF NoticeInv

LEMMA WorkingKept ==
    ASSUME NoticeInv, UNCHANGED <<rows, work>>
    PROVE  Working'
BY DEF NoticeInv, Working, IsWork, UnderWay, Settled, SentFor, ExhaustedFor, AuthorizedRecovery,
       Tokens, Subscribed

LEMMA RequestAccessKeeps ==
    ASSUME NoticeInv, RequestAccess
    PROVE  NoticeInv'
<1>1. /\ asked < MaxRequest /\ asked' = asked + 1 /\ pending' = asked'
      /\ UNCHANGED <<now, rows, alarm, work, target, gone, told>>
      BY DEF RequestAccess, history
<1>2. asked \in Nat /\ asked' \in Nat /\ asked <= asked'
      BY <1>1, Facts
<1>3. Clock'
      BY <1>1, <1>2, Bounds DEF NoticeInv, Clock
<1>4. rows # None => RowOK(rows, asked')
      BY <1>2, Facts, MoreRequests
<1>5. Stored'
      BY <1>1, <1>4 DEF NoticeInv, Stored, RowOK, Aimed, TargetOK, ExhaustedFor
<1> QED BY <1>1, <1>3, <1>5, WorkingKept DEF NoticeInv

LEMMA EndRequestKeeps ==
    ASSUME NoticeInv, EndRequest
    PROVE  NoticeInv'
<1>1. pending' = 0 /\ UNCHANGED <<now, asked, rows, alarm, work, target, gone, told>>
      BY DEF EndRequest, history
<1>2. Clock'
      BY <1>1, Facts DEF NoticeInv, Clock
<1> QED BY <1>1, <1>2, StoredKept, WorkingKept DEF NoticeInv

LEMMA DeployKeeps ==
    ASSUME NoticeInv, Deploy
    PROVE  NoticeInv'
<1>1. UNCHANGED <<now, pending, asked, rows, alarm, work, target, gone, told>>
      BY DEF Deploy, history
<1>2. Clock'
      BY <1>1 DEF NoticeInv, Clock
<1> QED BY <1>1, <1>2, StoredKept, WorkingKept DEF NoticeInv

LEMMA TickKeeps ==
    ASSUME NoticeInv, Tick
    PROVE  NoticeInv'
<1>1. /\ now < MaxTime /\ now' = now + 1
      /\ UNCHANGED <<pending, asked, rows, alarm, work, target, gone, told>>
      BY DEF Tick, history
<1>2. Clock'
      BY <1>1, Bounds DEF NoticeInv, Clock
<1> QED BY <1>1, <1>2, StoredKept, WorkingKept DEF NoticeInv

LEMMA SameKeeps ==
    ASSUME NoticeInv, UNCHANGED vars
    PROVE  NoticeInv'
<1>1. UNCHANGED <<now, pending, asked, rows, alarm, work, target, gone, told>>
      BY DEF vars, world, history
<1>2. Clock'
      BY <1>1 DEF NoticeInv, Clock
<1> QED BY <1>1, <1>2, StoredKept, WorkingKept DEF NoticeInv

LEMMA InitKeeps ==
    ASSUME Init
    PROVE  NoticeInv
<1>1. /\ now = 0 /\ asked = 0 /\ pending = 0 /\ alarm = Never /\ rows = None
      /\ target = {} /\ gone = {} /\ told = {} /\ work = Idle
      BY DEF Init
<1>2. Clock
      BY <1>1, Bounds DEF Clock
<1>3. Stored
      BY <1>1 DEF Stored
<1>4. Working
      BY <1>1 DEF Working, IsWork, Idle
<1> QED BY <1>2, <1>3, <1>4 DEF NoticeInv

LEMMA NextKeeps ==
    ASSUME NoticeInv, [Next]_vars
    PROVE  NoticeInv'
<1>1. CASE Calls
      BY <1>1, EnableTokenKeeps, DisableAppKeeps, QueueAdmissionKeeps, RecoverAdmissionKeeps,
         RepeatRecoveryKeeps DEF Calls
<1>2. CASE Work
      BY <1>2, ScheduleKeeps, AttemptDeliveryKeeps, VerifyRequestKeeps, SendOneKeeps,
         StoreOutcomeKeeps, EndKeeps DEF Work
<1>3. CASE HandleAlarm
      BY <1>3, HandleAlarmKeeps
<1>4. CASE Crash
      BY <1>4, CrashKeeps
<1>5. CASE RequestAccess \/ EndRequest \/ Deploy \/ Tick
      BY <1>5, RequestAccessKeeps, EndRequestKeeps, DeployKeeps, TickKeeps
<1>6. CASE UNCHANGED vars
      BY <1>6, SameKeeps
<1> QED BY <1>1, <1>2, <1>3, <1>4, <1>5, <1>6 DEF Next

(* The rows are sound and so are the operation that runs on them and the      *)
(* history that follows them.                                                 *)
THEOREM NoticeCorrect == Spec => []NoticeInv
<1>1. Init => NoticeInv
      BY InitKeeps
<1>2. NoticeInv /\ [Next]_vars => NoticeInv'
      BY NextKeeps
<1> QED BY <1>1, <1>2, PTL DEF Spec

LEMMA TypeFollows ==
    ASSUME NoticeInv
    PROVE  TypeOK
<1>1. /\ now \in 0..MaxTime /\ asked \in 0..MaxRequest /\ pending \in 0..asked
      /\ alarm \in Nat \cup {Never}
      /\ work.at \in {"idle", "schedule", "attempt", "verify", "send", "store", "end"}
      BY DEF NoticeInv, Clock, Working
<1>2. ASSUME rows # None
      PROVE  /\ rows \in State /\ Len(rows.seen) <= MaxSeen /\ Len(rows.revoked) <= MaxRevoked
             /\ {rows.sent, rows.exhausted} \subseteq 0..asked
             /\ \A a \in Subscribed(rows) : AppOf[rows.subs[a].token] = a
             /\ LoadsBack(rows)
  <2>1. RowOK(rows, asked) /\ asked \in Nat
        BY <1>2, Facts
  <2>2. rows.sent \in 0..asked /\ rows.exhausted \in 0..asked
        BY <2>1, RowFacts
  <2>3. LoadsBack(rows)
        BY <2>1 DEF RowOK, DeliveryOK, AttemptOK, LoadsBack
  <2> QED BY <2>1, <2>2, <2>3 DEF RowOK, SubsOK, Listed
<1> QED BY <1>1, <1>2 DEF TypeOK

(* Every pair of records that is written is one the object accepts when it    *)
(* loads them again, so that it never throws for good (readState,             *)
(* readPendingState).                                                         *)
THEOREM TypeCorrect == Spec => []TypeOK
<1>1. NoticeInv => TypeOK
      BY TypeFollows
<1> QED BY <1>1, NoticeCorrect, PTL

LEMMA SendFacts ==
    ASSUME NoticeInv, Sends
    PROVE  /\ rows.delivery.request \notin told
           /\ ExhaustedFor(rows, rows.delivery.request) => AuthorizedRecovery(rows)
           /\ rows.delivery.recovery = None => target \subseteq {work.outcome.token}
           /\ Few => work.outcome.token \notin gone
<1>1. rows # None /\ UnderWay
      BY Facts DEF Sends, At, NoticeInv, Working
<1>2. ~Settled(rows) /\ rows.delivery # None /\ work.outcome.token \in Tokens(rows)
      BY <1>1 DEF UnderWay
<1>3. rows.delivery.request \notin told
  <2>1. \A g \in told : g <= rows.sent /\ g \in Nat
        BY <1>1 DEF NoticeInv, Stored
  <2>2. rows.sent \in Nat
        BY <1>1, Facts, RowFacts
  <2> QED BY <1>2, <2>1, <2>2 DEF Settled, SentFor
<1>4. ExhaustedFor(rows, rows.delivery.request) => AuthorizedRecovery(rows)
      BY <1>2 DEF Settled
<1>5. Few => work.outcome.token \notin gone
      BY <1>1, <1>2 DEF NoticeInv, Stored, RowOK, Clean
<1> QED BY <1>1, <1>3, <1>4, <1>5, OneToken

(* No notice is sent for a request that is stored as delivered, and for one   *)
(* that is stored as exhausted only under the recovery an operator has        *)
(* authorized (attemptDelivery, queueAdmission, recoverAdmission).            *)
THEOREM ReceiptsWinAlways == Spec => ReceiptsWin
<1>1. NoticeInv /\ [Next]_vars =>
         [Sends => /\ rows.delivery.request \notin told
                   /\ ExhaustedFor(rows, rows.delivery.request) => AuthorizedRecovery(rows)]_vars
      BY SendFacts
<1> QED BY <1>1, NoticeCorrect, PTL DEF Spec, ReceiptsWin

(* However many tokens there are: a delivery that no operator has recovered   *)
(* is sent to one token only (attemptsForSubscriptions).                      *)
THEOREM OneTargetAlways ==
    Spec => [][Sends => (rows.delivery.recovery = None => target \subseteq {work.outcome.token})]_vars
<1>1. NoticeInv /\ [Next]_vars =>
         [Sends => (rows.delivery.recovery = None => target \subseteq {work.outcome.token})]_vars
      BY SendFacts
<1> QED BY <1>1, NoticeCorrect, PTL DEF Spec

(* As long as the tombstones have room for every token, no notice is sent     *)
(* with one that was taken back, whatever late webhooks arrive                *)
(* (withRevokedTokenIds).                                                     *)
THEOREM OneLiveTargetAlways ==
    ASSUME IsFiniteSet(Token), Cardinality(Token) <= MaxRevoked
    PROVE  Spec => OneLiveTarget
<1>1. Few
      BY DEF Few
<1>2. NoticeInv /\ [Next]_vars =>
         [Sends => /\ work.outcome.token \notin gone
                   /\ rows.delivery.recovery = None => target \subseteq {work.outcome.token}]_vars
      BY <1>1, SendFacts
<1> QED BY <1>2, NoticeCorrect, PTL DEF Spec, OneLiveTarget
=============================================================================

------------------------- MODULE AtlasImportProofs --------------------------
(* A sealed atlas is one approved build, whole and verified to the end, and   *)
(* verification takes in every stored row once and in order, for any builds,  *)
(* sizes of batches, copies of the tool and calls by hand.                    *)
EXTENDS AtlasImport, FiniteSetTheorems, TLAPS

-----------------------------------------------------------------------------
(* Lists. *)
LEMMA ListsType ==
    ASSUME NEW s, IsList(s)
    PROVE  /\ Len(s) \in Nat /\ DOMAIN s = 1..Len(s)
           /\ \A U : ToSet(s) \subseteq U => s \in Seq(U)
<1>1. s \in Seq(ToSet(s))
      BY DEF IsList
<1>2. ASSUME NEW U, ToSet(s) \subseteq U PROVE s \in Seq(U)
      BY <1>1, <1>2
<1> QED BY <1>1, <1>2

LEMMA AppendList ==
    ASSUME NEW s, IsList(s), NEW e
    PROVE  /\ IsList(Append(s, e)) /\ Len(Append(s, e)) = Len(s) + 1
           /\ Append(s, e)[Len(s) + 1] = e
           /\ \A i \in 1..Len(s) : Append(s, e)[i] = s[i]
           /\ ToSet(Append(s, e)) = ToSet(s) \cup {e}
<1> DEFINE U == ToSet(s) \cup {e}
           t == Append(s, e)
<1>1. s \in Seq(U) /\ e \in U /\ Len(s) \in Nat /\ DOMAIN s = 1..Len(s)
      BY ListsType
<1> HIDE DEF U
<1>2. /\ t \in Seq(U) /\ Len(t) = Len(s) + 1 /\ DOMAIN t = 1..(Len(s) + 1)
      /\ t[Len(s) + 1] = e /\ \A i \in 1..Len(s) : t[i] = s[i]
      BY <1>1
<1> HIDE DEF t
<1>3. ToSet(t) = ToSet(s) \cup {e}
      BY <1>1, <1>2 DEF ToSet
<1>4. IsList(t)
      BY <1>2, <1>3 DEF IsList, U
<1> QED BY <1>2, <1>3, <1>4 DEF t

LEMMA DigestItems ==
    ASSUME NEW g, NEW s, IsList(s), NEW m, NEW r
    PROVE  LET a == (<<g>> \o s) \o <<m, r>>
           IN  /\ Len(a) = Len(s) + 3 /\ \A i \in 1..Len(s) : a[i + 1] = s[i]
               /\ a[Len(s) + 2] = m /\ a[Len(s) + 3] = r
<1> DEFINE U == ToSet(s) \cup {g, m, r}
           c == <<g>> \o s
           a == c \o <<m, r>>
           l == Len(s)
           k == Len(c)
<1>1. s \in Seq(U) /\ <<g>> \in Seq(U) /\ <<m, r>> \in Seq(U) /\ l \in Nat
      BY ListsType
<1> HIDE DEF U
<1>2. c \in Seq(U) /\ k = l + 1 /\ \A i \in 1..l : c[i + 1] = s[i]
      BY <1>1
<1> HIDE DEF c
<1>3. Len(a) = k + 2
      BY <1>1, <1>2
<1>4. \A i \in 1..k : a[i] = c[i]
      BY <1>1, <1>2
<1>5. a[k + 1] = m
      BY <1>1, <1>2
<1>6. a[k + 2] = r
      BY <1>1, <1>2
<1> HIDE DEF a, l, k
<1>7. k = l + 1 /\ l \in Nat /\ k + 1 = l + 2 /\ k + 2 = l + 3
      BY <1>1, <1>2
<1>8. Len(a) = l + 3 /\ a[l + 2] = m /\ a[l + 3] = r
      BY <1>3, <1>5, <1>6, <1>7
<1>9. ASSUME NEW i \in 1..l PROVE a[i + 1] = s[i]
  <2>1. i + 1 \in 1..k
        BY <1>7
  <2> QED BY <1>2, <1>4, <2>1
<1> QED BY <1>8, <1>9 DEF a, c, l

DigestOf(g, s, m, r) == (<<g>> \o s) \o <<m, r>>

(* A digest determines the chunks, the components and the regions it was      *)
(* computed from.                                                             *)
LEMMA ShaCancel ==
    ASSUME NEW g, NEW h, NEW s, IsList(s), NEW t, IsList(t), NEW m, NEW n, NEW r, NEW q,
           DigestOf(g, s, m, r) = DigestOf(h, t, n, q)
    PROVE  s = t /\ m = n /\ r = q
<1> DEFINE a == (<<g>> \o s) \o <<m, r>>
           b == (<<h>> \o t) \o <<n, q>>
<1>1. /\ Len(a) = Len(s) + 3 /\ \A i \in 1..Len(s) : a[i + 1] = s[i]
      /\ a[Len(s) + 2] = m /\ a[Len(s) + 3] = r
      BY DigestItems
<1>2. /\ Len(b) = Len(t) + 3 /\ \A i \in 1..Len(t) : b[i + 1] = t[i]
      /\ b[Len(t) + 2] = n /\ b[Len(t) + 3] = q
      BY DigestItems
<1>3. a = b
      BY DEF DigestOf
<1> HIDE DEF a, b
<1>4. /\ Len(s) \in Nat /\ DOMAIN s = 1..Len(s) /\ Len(t) \in Nat /\ DOMAIN t = 1..Len(t)
      BY ListsType
<1>5. Len(s) = Len(t)
  <2> DEFINE k == Len(s)
             l == Len(t)
  <2>1. k + 3 = l + 3
        BY <1>1, <1>2, <1>3
  <2>2. k \in Nat /\ l \in Nat
        BY <1>4
  <2> HIDE DEF k, l
  <2>3. k = l
        BY <2>1, <2>2
  <2> QED BY <2>3 DEF k, l
<1>6. \A i \in 1..Len(s) : s[i] = t[i]
      BY <1>1, <1>2, <1>3, <1>5
<1>7. s \in Seq(ToSet(s)) /\ t \in Seq(ToSet(t))
      BY DEF IsList
<1>8. s = t
      BY <1>4, <1>5, <1>6, <1>7
<1> QED BY <1>1, <1>2, <1>3, <1>5, <1>8

LEMMA AppendDigest ==
    ASSUME NEW g, NEW s, IsList(s), NEW e
    PROVE  Append(<<g>> \o s, e) = <<g>> \o Append(s, e)
<1> DEFINE U == ToSet(s) \cup {g, e}
<1>1. s \in Seq(U) /\ <<g>> \in Seq(U) /\ e \in U /\ Len(s) \in Nat
      BY ListsType
<1> HIDE DEF U
<1> QED BY <1>1
-----------------------------------------------------------------------------
(* A batch, as FoldLeft computes it: the last place of the list is worked     *)
(* through after all others.                                                  *)
LEMMA Smallest ==
    ASSUME NEW S, IsFiniteSet(S), NEW T, T \subseteq SUBSET S, T # {}
    PROVE  \E B \in T : \A C \in T : C \subseteq B => C = B
<1>1. T \subseteq FiniteSubsetsOf(S)
      BY FS_Subset DEF FiniteSubsetsOf
<1>2. PICK B \in T : \A C \in T : <<C, B>> \notin StrictSubsetOrdering(S)
      BY <1>1, FS_StrictSubsetOrderingWellFounded, WFMin
<1>3. ASSUME NEW C \in T, C \subseteq B, C # B PROVE FALSE
  <2>1. <<C, B>> \in StrictSubsetOrdering(S)
        BY <1>3 DEF StrictSubsetOrdering
  <2> QED BY <1>2, <2>1
<1> QED BY <1>3

Places(s) == IsFiniteSet(s) /\ s \subseteq Int

LEMMA FewerPlaces ==
    ASSUME NEW S, Places(S), NEW s, s \subseteq S
    PROVE  Places(s)
BY FS_Subset DEF Places

LEMMA MaxExists ==
    ASSUME NEW S, Places(S), S # {}
    PROVE  \E x \in S : \A y \in S : x >= y
<1> DEFINE T == {u \in SUBSET S : u # {} /\ ~\E x \in u : \A y \in u : x >= y}
<1>1. SUFFICES ASSUME T # {} PROVE FALSE
      OBVIOUS
<1>2. PICK B \in T : \A C \in T : C \subseteq B => C = B
  <2>1. T \subseteq SUBSET S /\ IsFiniteSet(S)
        BY DEF Places
  <2> HIDE DEF T
  <2> QED BY <1>1, <2>1, Smallest
<1>3. PICK p \in B : TRUE
      OBVIOUS
<1> DEFINE C == B \ {p}
<1>4. C \subseteq B /\ C # B /\ C \in SUBSET S /\ p \in Int /\ B \subseteq Int
      BY <1>3 DEF Places
<1>5. C \notin T
  <2> HIDE DEF T, C
  <2> QED BY <1>2, <1>4
<1>6. CASE C = {}
  <2>1. \A y \in B : p >= y
        BY <1>4, <1>6
  <2> QED BY <1>3, <2>1
<1>7. CASE C # {}
  <2>1. PICK x \in C : \A y \in C : x >= y
        BY <1>4, <1>5, <1>7
  <2>2. x \in Int /\ x \in B
        BY <2>1, <1>4
  <2>3. CASE x >= p
    <3>1. \A y \in B : x >= y
          BY <2>1, <2>3
    <3> QED BY <2>2, <3>1
  <2>4. CASE p >= x
    <3>1. \A y \in B : p >= y
      <4> SUFFICES ASSUME NEW y \in B PROVE p >= y
          OBVIOUS
      <4>1. y \in Int
            BY <1>4
      <4>2. y = p \/ x >= y
            BY <2>1
      <4> QED BY <1>4, <2>2, <2>4, <4>1, <4>2
    <3> QED BY <1>3, <3>1
  <2> QED BY <1>4, <2>2, <2>3, <2>4
<1> QED BY <1>6, <1>7

LEMMA MaxIn ==
    ASSUME NEW s, Places(s), s # {}
    PROVE  Max(s) \in s /\ s \ {Max(s)} \subseteq s /\ s \ {Max(s)} # s
<1>1. Max(s) \in s
      BY MaxExists DEF Max
<1> HIDE DEF Max
<1> QED BY <1>1

Batch(F, S, d, y, list) ==
    F = [s \in SUBSET S |-> IF s = {} THEN y ELSE VerifyOne(d, list[Max(s)], F[s \ {Max(s)}])]

LEMMA BatchValues ==
    ASSUME NEW S, NEW d, NEW y, NEW list, NEW F, Batch(F, S, d, y, list)
    PROVE  /\ {} \in SUBSET S /\ F[{}] = y
           /\ \A s \in SUBSET S :
                 s # {} => F[s] = VerifyOne(d, list[Max(s)], F[s \ {Max(s)}])
<1>1. \A s \in SUBSET S :
         F[s] = IF s = {} THEN y ELSE VerifyOne(d, list[Max(s)], F[s \ {Max(s)}])
      BY Zenon DEF Batch
<1> QED BY <1>1

LEMMA BatchSame ==
    ASSUME NEW S, Places(S), NEW U, S \subseteq U, NEW d, NEW y, NEW list,
           NEW F, Batch(F, S, d, y, list), NEW G, Batch(G, U, d, y, list)
    PROVE  \A s \in SUBSET S : F[s] = G[s]
<1> DEFINE T == {s \in SUBSET S : F[s] # G[s]}
<1>1. SUFFICES ASSUME T # {} PROVE FALSE
      OBVIOUS
<1>2. PICK B \in T : \A C \in T : C \subseteq B => C = B
  <2>1. T \subseteq SUBSET S /\ IsFiniteSet(S)
        BY DEF Places
  <2> HIDE DEF T
  <2> QED BY <1>1, <2>1, Smallest
<1>3. F[B] # G[B] /\ B \in SUBSET S /\ B \in SUBSET U /\ Places(B)
      BY FewerPlaces
<1>4. B # {}
  <2>1. F[{}] = y /\ G[{}] = y
        BY BatchValues
  <2> HIDE DEF T
  <2> QED BY <1>3, <2>1
<1> DEFINE p == Max(B)
           C == B \ {p}
<1>5. /\ F[B] = VerifyOne(d, list[p], F[C])
      /\ G[B] = VerifyOne(d, list[p], G[C])
  <2> HIDE DEF T
  <2> QED BY <1>3, <1>4, BatchValues
<1>6. C \subseteq B /\ C # B
  <2> HIDE DEF T
  <2> QED BY <1>3, <1>4, MaxIn
<1> HIDE DEF C
<1>7. F[C] = G[C]
      BY <1>2, <1>3, <1>6
<1> QED BY <1>3, <1>5, <1>7

LEMMA BatchExists ==
    ASSUME NEW S, Places(S), NEW d, NEW y, NEW list
    PROVE  \E F : Batch(F, S, d, y, list)
<1> DEFINE T == {s \in SUBSET S : ~\E F : Batch(F, s, d, y, list)}
<1>1. SUFFICES ASSUME T # {} PROVE FALSE
      BY DEF T
<1>2. PICK B \in T : \A C \in T : C \subseteq B => C = B
  <2>1. T \subseteq SUBSET S /\ IsFiniteSet(S)
        BY DEF Places
  <2> HIDE DEF T
  <2> QED BY <1>1, <2>1, Smallest
<1> DEFINE Of(s) == CHOOSE F : Batch(F, s, d, y, list)
           Value(s) == Of(s)[s]
           Next1(s) == VerifyOne(d, list[Max(s)], Value(s \ {Max(s)}))
<1>3. ASSUME NEW s \in SUBSET B, s # B PROVE Batch(Of(s), s, d, y, list)
  <2>1. s \in SUBSET S /\ s \notin T
        BY <1>2, <1>3
  <2>2. \E F : Batch(F, s, d, y, list)
        BY <2>1
  <2> QED BY <2>2
<1>0. B \in SUBSET S /\ Places(B)
      BY FewerPlaces
<1> HIDE DEF Of, T
<1>4. ASSUME NEW s \in SUBSET B, s # B
      PROVE  Value(s) = IF s = {} THEN y ELSE Next1(s)
  <2>1. Batch(Of(s), s, d, y, list)
        BY <1>3, <1>4
  <2>2. CASE s = {}
    <3>1. Of(s)[{}] = y
          BY <2>1, BatchValues
    <3> QED BY <2>2, <3>1
  <2>3. CASE s # {}
    <3> DEFINE c == s \ {Max(s)}
    <3>1. c \subseteq s /\ c # s
          BY <1>0, <1>4, <2>3, FewerPlaces, MaxIn
    <3>2. Of(s)[s] = VerifyOne(d, list[Max(s)], Of(s)[c])
          BY <2>1, <2>3, BatchValues
    <3> HIDE DEF c
    <3>3. Batch(Of(c), c, d, y, list)
          BY <1>3, <1>4, <3>1
    <3>4. Of(c)[c] = Of(s)[c]
      <4>1. Places(c)
            BY <1>0, <1>4, <3>1, FewerPlaces
      <4>2. \A u \in SUBSET c : Of(c)[u] = Of(s)[u]
            BY <2>1, <3>1, <3>3, <4>1, BatchSame
      <4> QED BY <4>2
    <3>5. Value(s) = VerifyOne(d, list[Max(s)], Value(c))
          BY <3>2, <3>4
    <3> QED BY <2>3, <3>5 DEF c
  <2> QED BY <2>2, <2>3
<1> HIDE DEF Value
<1> DEFINE G == [s \in SUBSET B |-> IF s = {} THEN y ELSE Next1(s)]
<1>5. \A s \in SUBSET B : s # B => G[s] = Value(s)
  <2> HIDE DEF Next1
  <2> QED BY <1>4
<1>6. \A s \in SUBSET B : s # {} => G[s \ {Max(s)}] = Value(s \ {Max(s)})
  <2> SUFFICES ASSUME NEW s \in SUBSET B, s # {}
               PROVE  G[s \ {Max(s)}] = Value(s \ {Max(s)})
      OBVIOUS
  <2> DEFINE c == s \ {Max(s)}
  <2>1. c \subseteq s /\ c # s
        BY <1>0, FewerPlaces, MaxIn
  <2> HIDE DEF c, G
  <2>2. c \in SUBSET B /\ c # B
        BY <2>1
  <2>3. G[c] = Value(c)
        BY <1>5, <2>2
  <2> QED BY <2>3 DEF c
<1>7. Batch(G, B, d, y, list)
  <2>1. \A s \in SUBSET B :
           (IF s = {} THEN y ELSE Next1(s))
             = (IF s = {} THEN y ELSE VerifyOne(d, list[Max(s)], G[s \ {Max(s)}]))
    <3> HIDE DEF G
    <3> QED BY <1>6
  <2>2. G = [s \in SUBSET B |-> IF s = {} THEN y ELSE VerifyOne(d, list[Max(s)], G[s \ {Max(s)}])]
    <3> HIDE DEF Next1
    <3> QED BY <2>1
  <2> HIDE DEF G
  <2> QED BY <2>2 DEF Batch
<1> HIDE DEF G
<1> QED BY <1>2, <1>7 DEF T
-----------------------------------------------------------------------------
(* One row of a batch: verification moves the phase, the counts and the       *)
(* digest of a component, and never which component it is.                    *)
LEMMA ChangedAt ==
    ASSUME NEW f, NEW i, NEW e, NEW j \in DOMAIN f
    PROVE  [f EXCEPT ![i] = e][j] = IF j = i THEN e ELSE f[j]
OBVIOUS

Changed(f, i, e, g) == g = [f EXCEPT ![i] = e]

LEMMA ChangedList ==
    ASSUME NEW f, IsList(f), NEW i, NEW e, NEW g, Changed(f, i, e, g)
    PROVE  /\ IsList(g) /\ Len(g) = Len(f)
           /\ \A j \in 1..Len(f) : g[j] = IF j = i THEN e ELSE f[j]
<1> DEFINE U == ToSet(f) \cup {e}
           l == Len(f)
           D == 1..l
<1>1. /\ f \in Seq(U) /\ e \in U /\ l \in Nat /\ DOMAIN f = D
      BY ListsType
<1>2. f \in [D -> U]
      BY <1>1
<1> HIDE DEF U, D
<1>3. \A j \in D : g[j] = IF j = i THEN e ELSE f[j]
      BY <1>1, ChangedAt DEF Changed
<1>4. g \in [D -> U]
      BY <1>1, <1>2 DEF Changed
<1>5. DOMAIN g = D
      BY <1>4
<1> HIDE DEF l
<1>6. g \in Seq(U) /\ Len(g) = l
      BY <1>1, <1>4 DEF D
<1>7. g \in Seq(ToSet(g))
  <2>1. \A j \in D : g[j] \in ToSet(g)
        BY <1>5 DEF ToSet
  <2> DEFINE V == ToSet(g)
  <2>2. g \in [D -> V]
        BY <1>4, <2>1
  <2> HIDE DEF V
  <2>3. g \in Seq(V)
        BY <1>1, <2>2 DEF D
  <2> QED BY <2>3 DEF V
<1> QED BY <1>3, <1>6, <1>7 DEF IsList, D, l

HasRow(c) == {"row", "phase", "digest"} \subseteq DOMAIN c

(* The components as a batch has them, compared with those it started from.   *)
Follows(list, x) ==
    /\ "components" \in DOMAIN x
    /\ IsList(x.components) /\ Len(x.components) = Len(list)
    /\ \A i \in 1..Len(list) : /\ HasRow(x.components[i])
                               /\ x.components[i].row = list[i].row

LEMMA CountedKeeps ==
    ASSUME NEW x, "components" \in DOMAIN x, NEW k, NEW r
    PROVE  "components" \in DOMAIN Counted(x, k, r) /\ Counted(x, k, r).components = x.components
BY DEF Counted

Swapped(list, x, i, e, y) ==
    /\ \A j \in 1..Len(list) : j # i => y.components[j] = x.components[j]
    /\ i \in 1..Len(list) => y.components[i] = e

(* A component that takes the place of another one with the same row. *)
LEMMA FollowsChanged ==
    ASSUME NEW list, NEW x, Follows(list, x), NEW i, NEW e, NEW y,
           "components" \in DOMAIN y, Changed(x.components, i, e, y.components),
           i \in 1..Len(list) => HasRow(e) /\ e.row = x.components[i].row
    PROVE  /\ Follows(list, y)
           /\ Swapped(list, x, i, e, y)
<1> DEFINE f == x.components
           g == y.components
<1>1. IsList(f) /\ Len(f) = Len(list) /\ Changed(f, i, e, g)
      BY DEF Follows
<1> HIDE DEF f, g
<1>2. /\ IsList(g) /\ Len(g) = Len(f)
      /\ \A j \in 1..Len(f) : g[j] = IF j = i THEN e ELSE f[j]
      BY <1>1, ChangedList
<1> QED BY <1>1, <1>2 DEF Follows, Swapped, f, g

LEMMA RowKeeps ==
    ASSUME NEW d, NEW k, NEW n, NEW list, NEW x, Follows(list, x)
    PROVE  Follows(list, VerifyRow(d, k, n, x))
<1> DEFINE r == RowAt(d, k, n)
           its == {j \in 1..Len(x.components) : x.components[j].row.key = r.component}
           i == CHOOSE j \in its : TRUE
           c == x.components[i]
           u == [x EXCEPT !.ok = FALSE]
           z == [x EXCEPT !.digest = Append(@, <<k, r>>)]
           y == Counted(z, k, r)
           e == [c EXCEPT !.verified[k] = @ + 1, !.digest = Append(@, r)]
           w == [y EXCEPT !.components[i] = e,
                          !.ok = @ /\ c.phase = k /\ c.verified[k] < c.row.expected[k]]
<1>1. VerifyRow(d, k, n, x) = u \/ VerifyRow(d, k, n, x) = y \/ VerifyRow(d, k, n, x) = w
      BY Zenon DEF VerifyRow
<1> HIDE DEF r, i, its
<1>2. "components" \in DOMAIN x
      BY DEF Follows
<1>3. "components" \in DOMAIN z /\ z.components = x.components
      BY <1>2
<1> HIDE DEF z
<1>4. "components" \in DOMAIN y /\ y.components = x.components
      BY <1>3, CountedKeeps
<1> HIDE DEF y
<1>5. Follows(list, y)
      BY <1>4 DEF Follows
<1>6. "components" \in DOMAIN w /\ Changed(x.components, i, e, w.components)
      BY <1>4 DEF Changed
<1>7. i \in 1..Len(list) => HasRow(e) /\ e.row = c.row
  <2>1. i \in 1..Len(list) => HasRow(c)
        BY DEF Follows
  <2> HIDE DEF c
  <2> QED BY <2>1 DEF HasRow
<1>8. Follows(list, w)
  <2> HIDE DEF w, e
  <2> QED BY <1>6, <1>7, FollowsChanged
<1>9. Follows(list, u)
      BY DEF Follows
<1> QED BY <1>1, <1>5, <1>8, <1>9

LEMMA ChunkKeeps ==
    ASSUME NEW d, NEW n, NEW list, NEW x, Follows(list, x)
    PROVE  Follows(list, VerifyChunk(d, n, x))
BY DEF VerifyChunk, Follows

ComponentPhases == {"components", "component-slots", "component-resources", "component-finalize"}

(* The component at row n, and no other, has moved on. *)
MovedOn(phase, n, list, x, y) ==
    \A j \in 1..Len(list) :
       /\ j # n + 1 => y.components[j] = x.components[j]
       /\ j = n + 1 /\ phase = "component-finalize" => y.components[j].phase = "complete"

LEMMA ComponentKeeps ==
    ASSUME NEW phase \in ComponentPhases, NEW n, NEW list, NEW x, Follows(list, x)
    PROVE  /\ Follows(list, VerifyComponent(phase, n, x))
           /\ MovedOn(phase, n, list, x, VerifyComponent(phase, n, x))
<1> DEFINE i == n + 1
           c == x.components[i]
           to(k) == [c EXCEPT !.phase = k, !.digest = Append(@, k)]
           done == [c EXCEPT !.phase = "complete"]
           step(e, ok) == [x EXCEPT !.components[i] = e, !.digest = Append(@, Taken(phase, e)), !.ok = @ /\ ok]
           y == VerifyComponent(phase, n, x)
<1>1. PICK e, ok : /\ y = step(e, ok) /\ e \in {c, to("slots"), to("resources"), done}
                   /\ phase = "component-finalize" => e = done
  <2>1. CASE phase = "components"
    <3>1. y = step(c, c.imported = c.row.expected /\ c.phase = "cells")
          BY <2>1 DEF VerifyComponent
    <3> HIDE DEF y, step
    <3> QED BY <2>1, <3>1
  <2>2. CASE phase = "component-slots"
    <3>1. y = step(to("slots"), c.phase = "cells" /\ c.verified["cells"] = c.row.expected["cells"])
          BY <2>2 DEF VerifyComponent
    <3> HIDE DEF y, step, to
    <3> QED BY <2>2, <3>1
  <2>3. CASE phase = "component-resources"
    <3>1. y = step(to("resources"), c.phase = "slots" /\ c.verified["slots"] = c.row.expected["slots"])
          BY <2>3 DEF VerifyComponent
    <3> HIDE DEF y, step, to
    <3> QED BY <2>3, <3>1
  <2>4. CASE phase = "component-finalize"
    <3>1. y = step(done, c.phase = "resources" /\ c.verified = c.row.expected /\ c.digest = c.row.sha)
          BY <2>4 DEF VerifyComponent
    <3> HIDE DEF y, step, done
    <3> QED BY <2>4, <3>1
  <2> QED BY <2>1, <2>2, <2>3, <2>4 DEF ComponentPhases
<1> HIDE DEF y
<1>2. "components" \in DOMAIN y /\ Changed(x.components, i, e, y.components)
      BY <1>1 DEF Follows, Changed
<1>3. i \in 1..Len(list) => HasRow(e) /\ e.row = c.row
  <2>1. i \in 1..Len(list) => HasRow(c)
        BY DEF Follows
  <2> HIDE DEF c
  <2> QED BY <1>1, <2>1 DEF HasRow
<1>4. i \in 1..Len(list) /\ phase = "component-finalize" => e.phase = "complete"
  <2>1. i \in 1..Len(list) => HasRow(c)
        BY DEF Follows
  <2> HIDE DEF c
  <2> QED BY <1>1, <2>1 DEF HasRow
<1> HIDE DEF i
<1>5. /\ Follows(list, y)
      /\ \A j \in 1..Len(list) : j # i => y.components[j] = x.components[j]
      /\ i \in 1..Len(list) => y.components[i] = e
  <2>1. i \in 1..Len(list) => HasRow(e) /\ e.row = x.components[i].row
        BY <1>3
  <2>2. "components" \in DOMAIN y /\ Changed(x.components, i, e, y.components)
        BY <1>2
  <2> HIDE DEF c, to, done, step
  <2>3. Follows(list, y)
        BY <2>1, <2>2, FollowsChanged
  <2>4. Swapped(list, x, i, e, y)
        BY <2>1, <2>2, FollowsChanged
  <2> QED BY <2>3, <2>4 DEF Swapped
<1> QED BY <1>4, <1>5 DEF i, y, MovedOn

-----------------------------------------------------------------------------
(* A whole batch. *)
Rows(r, end) == 1..(end - r.cursor)

RowNumbers(r, end) == [j \in Rows(r, end) |-> r.cursor + j - 1]

Begun(d) ==
    [components |-> d.components, counted |-> d.release.counted, limit |-> d.release.regions,
     digest |-> d.release.digest, ok |-> TRUE]

LEMMA VerifiedIsBatch ==
    ASSUME NEW d, d.release.cursor \in Nat, NEW end \in Nat
    PROVE  \E F : /\ Batch(F, Rows(d.release, end), d, Begun(d), RowNumbers(d.release, end))
                  /\ Verified(d, end) = F[Rows(d.release, end)]
<1> DEFINE S == Rows(d.release, end)
           list == RowNumbers(d.release, end)
           y == Begun(d)
           P(F) == F = [s \in SUBSET DOMAIN list |->
                          IF s = {} THEN y ELSE VerifyOne(d, list[Max(s)], F[s \ {Max(s)}])]
<1>1. Verified(d, end) = FoldLeft(LAMBDA x, n : VerifyOne(d, n, x), y, list)
      BY DEF Verified, Begun, RowNumbers, Rows
<1>2. DOMAIN list = S
      BY DEF RowNumbers
<1>3. Places(S)
      BY FS_Interval DEF Places, Rows
<1> HIDE DEF y, list, S
<1>4. FoldLeft(LAMBDA x, n : VerifyOne(d, n, x), y, list) = (CHOOSE F : P(F))[DOMAIN list]
      BY Zenon DEF FoldLeft, MapThenFoldSet
<1>5. ASSUME NEW F PROVE P(F) <=> Batch(F, S, d, y, list)
      BY <1>2 DEF Batch
<1>6. \E F : P(F)
      BY <1>3, <1>5, BatchExists
<1> HIDE DEF P
<1>7. P(CHOOSE F : P(F))
      BY <1>6
<1>8. /\ Batch(CHOOSE F : P(F), S, d, y, list)
      /\ Verified(d, end) = (CHOOSE F : P(F))[S]
      BY <1>1, <1>2, <1>4, <1>5, <1>7
<1> QED BY <1>8 DEF S, y, list

(* The components a batch has gone through are complete in the last phase.    *)
Finished(d, x, s, list) ==
    d.release.phase = "component-finalize" =>
        \A j \in 1..Len(d.components) :
            d.components[j].phase = "complete" \/ (\E m \in s : list[m] + 1 = j)
              => x.components[j].phase = "complete"

OpenPhases == Kinds \cup ComponentPhases \cup {"chunks"}

LEMMA OneKeeps ==
    ASSUME NEW d, d.release.phase \in OpenPhases, NEW n, NEW x, Follows(d.components, x)
    PROVE  /\ Follows(d.components, VerifyOne(d, n, x))
           /\ d.release.phase = "component-finalize" =>
                MovedOn(d.release.phase, n, d.components, x, VerifyOne(d, n, x))
<1>1. CASE d.release.phase \in Kinds
  <2>1. VerifyOne(d, n, x) = VerifyRow(d, d.release.phase, n, x)
        BY <1>1 DEF VerifyOne, Kinds
  <2> QED BY <1>1, <2>1, RowKeeps DEF Kinds
<1>2. CASE d.release.phase = "chunks"
  <2>1. VerifyOne(d, n, x) = VerifyChunk(d, n, x)
        BY <1>2 DEF VerifyOne, Kinds
  <2> QED BY <1>2, <2>1, ChunkKeeps
<1>3. CASE d.release.phase \in ComponentPhases
  <2>1. VerifyOne(d, n, x) = VerifyComponent(d.release.phase, n, x)
        BY <1>3 DEF VerifyOne, Kinds, ComponentPhases
  <2> DEFINE phase == d.release.phase
             y == VerifyComponent(phase, n, x)
  <2>2. /\ Follows(d.components, y)
        /\ MovedOn(phase, n, d.components, x, y)
    <3> HIDE DEF phase
    <3>1. phase \in ComponentPhases
          BY <1>3 DEF phase
    <3> QED BY <3>1, ComponentKeeps
  <2> HIDE DEF y
  <2>3. VerifyOne(d, n, x) = y
        BY <2>1 DEF y
  <2> QED BY <2>2, <2>3
<1> QED BY <1>1, <1>2, <1>3 DEF OpenPhases

LEMMA BatchKeeps ==
    ASSUME NEW S, Places(S), NEW d, d.release.phase \in OpenPhases, NEW y, NEW list,
           Follows(d.components, y), y.components = d.components,
           NEW F, Batch(F, S, d, y, list)
    PROVE  Follows(d.components, F[S]) /\ Finished(d, F[S], S, list)
<1> DEFINE Kept(s) == Follows(d.components, F[s]) /\ Finished(d, F[s], s, list)
           T == {s \in SUBSET S : ~Kept(s)}
<1>1. SUFFICES ASSUME T # {} PROVE FALSE
      BY DEF T
<1>2. PICK B \in T : \A C \in T : C \subseteq B => C = B
  <2>1. T \subseteq SUBSET S /\ IsFiniteSet(S)
        BY DEF Places
  <2> HIDE DEF T
  <2> QED BY <1>1, <2>1, Smallest
<1>3. ~Kept(B) /\ B \in SUBSET S /\ Places(B)
      BY FewerPlaces
<1>4. B # {}
  <2>1. F[{}] = y
        BY BatchValues
  <2>2. Finished(d, y, {}, list)
        BY DEF Finished
  <2> HIDE DEF T
  <2> QED BY <1>3, <2>1, <2>2
<1> DEFINE p == Max(B)
           C == B \ {p}
           n == list[p]
<1>5. F[B] = VerifyOne(d, n, F[C])
  <2>1. \A s \in SUBSET S :
           s # {} => F[s] = VerifyOne(d, list[Max(s)], F[s \ {Max(s)}])
        BY BatchValues
  <2>2. B \in SUBSET S
        BY <1>3
  <2> QED BY ONLY <1>4, <2>1, <2>2
<1>6. C \subseteq B /\ C # B /\ p \in B
  <2> HIDE DEF T
  <2> QED BY <1>3, <1>4, MaxIn
<1>7. \A m \in B : m = p \/ m \in C
      OBVIOUS
<1> HIDE DEF C, p
<1>8. Kept(C)
      BY <1>2, <1>3, <1>6
<1> HIDE DEF T, n
<1>9. /\ Follows(d.components, F[B])
      /\ d.release.phase = "component-finalize" =>
           MovedOn(d.release.phase, n, d.components, F[C], F[B])
      BY <1>5, <1>8, OneKeeps
<1>10. Finished(d, F[B], B, list)
  <2> SUFFICES ASSUME d.release.phase = "component-finalize",
                      NEW j \in 1..Len(d.components),
                      d.components[j].phase = "complete" \/ (\E m \in B : list[m] + 1 = j)
               PROVE  F[B].components[j].phase = "complete"
      BY DEF Finished
  <2>1. CASE j = n + 1
        BY <1>9, <2>1 DEF MovedOn
  <2>2. CASE j # n + 1
    <3>1. d.components[j].phase = "complete" \/ (\E m \in C : list[m] + 1 = j)
          BY <1>7, <2>2 DEF n
    <3>2. F[C].components[j].phase = "complete"
          BY <1>8, <3>1 DEF Finished
    <3> QED BY <1>9, <2>2, <3>2 DEF MovedOn
  <2> QED BY <2>1, <2>2
<1> QED BY <1>3, <1>9, <1>10

-----------------------------------------------------------------------------
(* The inductive invariant.  While a release is imported, its digest is that  *)
(* of the chunks that are stored; so what its own digest is compared with     *)
(* (ShaMatches) says that the stored tables are those of the build.  From     *)
(* then on they do not change, but for the phases of the components.          *)
ReleaseFields == {"id", "epoch", "sha", "total", "state", "regions", "counted",
                  "phase", "cursor", "digest", "verified"}

Tabled(d) ==
    /\ DOMAIN d = {"release", "components", "chunks", "rows", "owner"}
    /\ IsList(d.chunks)
    /\ IsList(d.components) /\ \A i \in 1..Len(d.components) : HasRow(d.components[i])
    /\ \A k \in Kinds : d.rows[k] = UNION {ToSet(c.rows[k]) : c \in ToSet(d.chunks)}

CompleteTo(d, n) == \A i \in 1..Len(d.components) : i <= n => d.components[i].phase = "complete"

Progress(d) ==
    LET r == d.release
    IN  /\ r.phase \in OpenPhases \cup {"complete"} /\ r.cursor \in Nat
        /\ r.phase = "component-finalize" => CompleteTo(d, r.cursor)
        /\ r.phase = "complete" => CompleteTo(d, Len(d.components))

Stored(d, a) ==
    /\ Manifest(d) = Content[a].components /\ d.chunks = Content[a].chunks
    /\ d.release.regions = Content[a].regions

Importing(d) ==
    /\ d.release.phase = "components"
    /\ \E a \in Artifact : d.release.digest = <<Sha[a][1]>> \o d.chunks

OneBuild(d) ==
    \E a \in Artifact :
       /\ d.release.sha = Sha[a] /\ d.release.total = Total[a]
       /\ d.release.state # "importing" =>
            Stored(d, a) /\ \A t \in Tables : Total[a][t] \in Nat

ReleaseInv(d) ==
    /\ DOMAIN d.release = ReleaseFields
    /\ d.release.state \in {"importing", "verifying", "ready"}
    /\ Progress(d) /\ OneBuild(d)
    /\ d.release.state = "importing" => Importing(d)
    /\ d.release.state = "ready" => d.release.phase = "complete"

DbInv(d) ==
    /\ Tabled(d)
    /\ d.owner => Ready(d)
    /\ IF d.release.state = "absent" THEN d.release = Absent /\ d.chunks = <<>> ELSE ReleaseInv(d)

Ops == {"stage", "components", "regions", "chunk", "begin", "verify", "finalize"}

CallOk(c) == c.op \in Ops /\ c.artifact \in Artifact /\ c.n \in Nat

ToolOk(t) ==
    /\ DOMAIN t = {"at", "artifact", "status", "call"}
    /\ t.at \in {"off", "plan", "submit", "wait"}
    /\ t.at # "off" => t.artifact \in Artifact /\ (t.call = None \/ CallOk(t.call))
    /\ t.at \in {"submit", "wait"} => CallOk(t.call)

Inv ==
    /\ DbInv(db)
    /\ DOMAIN tool = Operator /\ \A o \in Operator : ToolOk(tool[o])
    /\ \A c \in BagToSet(flight) : CallOk(c)

-----------------------------------------------------------------------------
(* Every reducer keeps the invariant of the database. *)
LEMMA EmptyList == IsList(<<>>) /\ Len(<<>>) = 0 /\ ToSet(<<>>) = {}
BY DEF IsList, ToSet

LEMMA StageKeeps ==
    ASSUME NEW d, DbInv(d), ~d.owner, NEW a \in Artifact
    PROVE  DbInv(StageRelease(d, a))
<1> DEFINE n == StageRelease(d, a)
           r == StagedRelease(a)
<1>1. CASE d.release.state # "absent"
  <2>1. n = d
        BY <1>1 DEF StageRelease
  <2> QED BY <2>1
<1>2. CASE d.release.state = "absent"
  <2>1. d.chunks = <<>> /\ Tabled(d)
        BY <1>2 DEF DbInv
  <2>2. n = [d EXCEPT !.release = r]
        BY <1>2 DEF StageRelease
  <2>3. /\ DOMAIN r = ReleaseFields
        /\ r.sha = Sha[a] /\ r.total = Total[a] /\ r.state = "importing"
        /\ r.phase = "components" /\ r.cursor = 0 /\ r.digest = <<Sha[a][1]>>
        BY DEF StagedRelease, ReleaseFields
  <2> HIDE DEF r
  <2>4. /\ DOMAIN n = DOMAIN d /\ n.release = r /\ n.components = d.components
        /\ n.chunks = d.chunks /\ n.rows = d.rows /\ n.owner = d.owner
        BY <2>1, <2>2 DEF Tabled
  <2> HIDE DEF n
  <2>5. Tabled(n)
        BY <2>1, <2>4 DEF Tabled
  <2>6. Progress(n)
        BY <2>3, <2>4 DEF Progress, OpenPhases, ComponentPhases
  <2>7. OneBuild(n)
        BY <2>3, <2>4 DEF OneBuild
  <2>8. n.release.digest = <<Sha[a][1]>> \o n.chunks
        BY <2>1, <2>3, <2>4
  <2>9. Importing(n)
        BY <2>3, <2>4, <2>8 DEF Importing
  <2>10. n.release.state = "importing" /\ ReleaseInv(n)
        BY <2>3, <2>4, <2>6, <2>7, <2>9 DEF ReleaseInv
  <2>11. ~n.owner
        BY <2>4
  <2>12. DbInv(n)
        BY <2>5, <2>10, <2>11 DEF DbInv
  <2> QED BY <2>12 DEF n
<1> QED BY <1>1, <1>2

(* A release that is imported, after a step that keeps its build.             *)
LEMMA ImportingKeeps ==
    ASSUME NEW d, DbInv(d), ~d.owner, NEW n, Tabled(n), ~n.owner, d.release.state = "importing",
           DOMAIN n.release = ReleaseFields,
           \A f \in {"sha", "total", "state", "phase", "cursor"} : n.release[f] = d.release[f],
           \E a \in Artifact : n.release.digest = <<Sha[a][1]>> \o n.chunks
    PROVE  DbInv(n)
<1>1. ReleaseInv(d)
      BY DEF DbInv
<1>2. /\ n.release.sha = d.release.sha /\ n.release.total = d.release.total
      /\ n.release.state = "importing" /\ n.release.phase = d.release.phase
      /\ n.release.cursor = d.release.cursor
      OBVIOUS
<1>3. d.release.phase = "components" /\ d.release.cursor \in Nat
      BY <1>1 DEF ReleaseInv, Importing, Progress
<1>4. Progress(n) /\ Importing(n)
      BY <1>2, <1>3 DEF Progress, Importing, OpenPhases, ComponentPhases
<1>5. OneBuild(n)
      BY <1>1, <1>2 DEF ReleaseInv, OneBuild
<1> QED BY <1>2, <1>4, <1>5 DEF DbInv, ReleaseInv

LEMMA ImportingFacts ==
    ASSUME NEW d, DbInv(d), d.release.state = "importing"
    PROVE  /\ Tabled(d) /\ DOMAIN d.release = ReleaseFields
           /\ \E a \in Artifact : d.release.digest = <<Sha[a][1]>> \o d.chunks
BY DEF DbInv, ReleaseInv, Importing

Joined(s, t, u) ==
    \A i \in 1..Len(u) : (i \in 1..Len(s) /\ u[i] = s[i]) \/ \E j \in 1..Len(t) : u[i] = t[j]

LEMMA ConcatList ==
    ASSUME NEW s, IsList(s), NEW t, IsList(t)
    PROVE  IsList(s \o t) /\ Joined(s, t, s \o t)
<1> DEFINE U == ToSet(s) \cup ToSet(t)
           u == s \o t
           l == Len(s)
           m == Len(t)
<1>1. s \in Seq(U) /\ t \in Seq(U) /\ l \in Nat /\ m \in Nat
      BY ListsType
<1> HIDE DEF U
<1>2. u \in Seq(U) /\ Len(u) = l + m /\ DOMAIN u = 1..(l + m)
      BY <1>1
<1>3. \A i \in 1..(l + m) : u[i] = IF i <= l THEN s[i] ELSE t[i - l]
      BY <1>1
<1> HIDE DEF u, l, m
<1>4. u \in Seq(ToSet(u))
  <2> DEFINE V == ToSet(u)
             D == 1..(l + m)
  <2>1. \A i \in D : u[i] \in V
        BY <1>2 DEF ToSet
  <2>2. u \in [D -> V]
        BY <1>2, <2>1
  <2>3. l + m \in Nat
        BY <1>1
  <2> HIDE DEF V
  <2>4. u \in Seq(V)
        BY <2>2, <2>3
  <2> QED BY <2>4 DEF V
<1>5. ASSUME NEW i \in 1..(l + m)
      PROVE  (i \in 1..l /\ u[i] = s[i]) \/ \E j \in 1..m : u[i] = t[j]
  <2>1. CASE i <= l
        BY <1>1, <1>3, <2>1
  <2>2. CASE ~(i <= l)
    <3>1. i - l \in 1..m
          BY <1>1, <2>2
    <3> QED BY <1>3, <2>2, <3>1
  <2> QED BY <2>1, <2>2
<1> QED BY <1>2, <1>4, <1>5 DEF IsList, Joined, u, l, m

LEMMA ListOf ==
    ASSUME NEW l \in Nat, NEW f, f = [i \in 1..l |-> f[i]]
    PROVE  IsList(f) /\ Len(f) = l
<1> DEFINE V == ToSet(f)
<1>1. DOMAIN f = 1..l
      OBVIOUS
<1>2. \A i \in 1..l : f[i] \in V
      BY <1>1 DEF ToSet
<1> HIDE DEF V
<1>3. f \in Seq(V) /\ Len(f) = l
      BY <1>2
<1> QED BY <1>3 DEF IsList, V

LEMMA ComponentsKeep ==
    ASSUME NEW d, DbInv(d), ~d.owner, NEW a, NEW batch
    PROVE  DbInv(ImportComponents(d, a, batch))
<1> DEFINE n == ImportComponents(d, a, batch)
           fresh == {c \in ToSet(batch) : c.key \notin {e.key : e \in ToSet(Manifest(d))}}
           count == Cardinality(fresh)
           new(i) == CHOOSE c \in {c \in fresh : c.ord = Len(d.components) + i - 1} : TRUE
           t == [i \in 1..count |-> NewComponent(new(i))]
           u == d.components \o t
           counted == count \in 0..(d.release.total["components"] - Len(d.components))
<1>1. n = d \/ (counted /\ Holds(d, a, "importing") /\ n = [d EXCEPT !.components = u])
      BY Zenon DEF ImportComponents
<1> SUFFICES ASSUME n # d PROVE DbInv(n)
    BY DEF n
<1> HIDE DEF fresh, new, n, u
<1>2. count \in Nat
  <2> HIDE DEF count
  <2> QED BY <1>1
<1> HIDE DEF count
<1>3. IsList(t) /\ Len(t) = count
  <2> DEFINE l == count
  <2>1. l \in Nat /\ t = [i \in 1..l |-> t[i]]
        BY <1>2
  <2> HIDE DEF t, l
  <2>2. IsList(t) /\ Len(t) = l
        BY <2>1, ListOf
  <2> QED BY <2>2 DEF l
<1>4. \A i \in 1..Len(t) : HasRow(t[i])
  <2> SUFFICES ASSUME NEW i \in 1..count PROVE HasRow(t[i])
      BY <1>3
  <2>1. t[i] = NewComponent(new(i))
        OBVIOUS
  <2>2. HasRow(NewComponent(new(i)))
        BY DEF HasRow, NewComponent
  <2> HIDE DEF t
  <2> QED BY <2>1, <2>2
<1> HIDE DEF t
<1>6. Holds(d, a, "importing") /\ n = [d EXCEPT !.components = u]
      BY <1>1
<1> QED
  <2>1. d.release.state = "importing"
        BY <1>6 DEF Holds
  <2>2. /\ Tabled(d) /\ DOMAIN d.release = ReleaseFields
        /\ \E b \in Artifact : d.release.digest = <<Sha[b][1]>> \o d.chunks
        BY <2>1, ImportingFacts
  <2>3. IsList(d.components) /\ \A i \in 1..Len(d.components) : HasRow(d.components[i])
        BY <2>2 DEF Tabled
  <2>4. IsList(u) /\ Joined(d.components, t, u)
        BY <1>3, <2>3, ConcatList DEF u
  <2>5. \A i \in 1..Len(u) : HasRow(u[i])
    <3> SUFFICES ASSUME NEW i \in 1..Len(u) PROVE HasRow(u[i])
        OBVIOUS
    <3> HIDE DEF u
    <3>1. CASE i \in 1..Len(d.components) /\ u[i] = d.components[i]
          BY <2>3, <3>1
    <3>2. CASE \E j \in 1..Len(t) : u[i] = t[j]
      <4>1. PICK j \in 1..Len(t) : u[i] = t[j]
            BY <3>2
      <4>2. HasRow(t[j])
            BY <1>4
      <4> QED BY <4>1, <4>2
    <3> QED BY <2>4, <3>1, <3>2 DEF Joined
  <2> HIDE DEF n, u
  <2>6. /\ DOMAIN n = DOMAIN d /\ n.components = u /\ n.release = d.release
        /\ n.chunks = d.chunks /\ n.rows = d.rows /\ n.owner = d.owner
        BY <1>6, <2>2 DEF Tabled
  <2>7. Tabled(n)
        BY <2>2, <2>4, <2>5, <2>6 DEF Tabled
  <2>8. \E b \in Artifact : n.release.digest = <<Sha[b][1]>> \o n.chunks
        BY <2>2, <2>6
  <2>9. DOMAIN n.release = ReleaseFields /\ ~n.owner
        BY <2>2, <2>6
  <2>10. \A f \in {"sha", "total", "state", "phase", "cursor"} : n.release[f] = d.release[f]
        BY <2>6
  <2>11. DbInv(n)
        BY <2>1, <2>7, <2>8, <2>9, <2>10, ImportingKeeps
  <2> QED BY <2>11

LEMMA RegionsKeep ==
    ASSUME NEW d, DbInv(d), ~d.owner, NEW a
    PROVE  DbInv(ImportRegions(d, a))
<1> DEFINE n == ImportRegions(d, a)
<1>1. CASE ~(Holds(d, a, "importing") /\ d.release.regions = None)
      BY <1>1 DEF ImportRegions
<1>2. CASE Holds(d, a, "importing") /\ d.release.regions = None
  <2>1. d.release.state = "importing"
        BY <1>2 DEF Holds
  <2>2. /\ Tabled(d) /\ DOMAIN d.release = ReleaseFields
        /\ \E b \in Artifact : d.release.digest = <<Sha[b][1]>> \o d.chunks
        BY <2>1, ImportingFacts
  <2>3. n = [d EXCEPT !.release = [d.release EXCEPT !.regions = Content[a].regions]]
        BY <1>2 DEF ImportRegions
  <2> HIDE DEF n
  <2>4. /\ DOMAIN n = DOMAIN d /\ n.components = d.components
        /\ n.release = [d.release EXCEPT !.regions = Content[a].regions]
        /\ n.chunks = d.chunks /\ n.rows = d.rows /\ n.owner = d.owner
        BY <2>2, <2>3 DEF Tabled
  <2>5. /\ DOMAIN n.release = ReleaseFields /\ n.release.digest = d.release.digest
        /\ \A f \in {"sha", "total", "state", "phase", "cursor"} : n.release[f] = d.release[f]
        BY <2>2, <2>4 DEF ReleaseFields
  <2>6. Tabled(n)
        BY <2>2, <2>4 DEF Tabled
  <2>7. (\E b \in Artifact : n.release.digest = <<Sha[b][1]>> \o n.chunks) /\ ~n.owner
        BY <2>2, <2>4, <2>5
  <2>8. DbInv(n)
        BY <2>1, <2>5, <2>6, <2>7, ImportingKeeps
  <2> QED BY <2>8 DEF n
<1> QED BY <1>1, <1>2

LEMMA ChunkImported ==
    ASSUME NEW d, DbInv(d), ~d.owner, NEW a, NEW chunk
    PROVE  DbInv(ImportChunk(d, a, chunk))
<1> DEFINE n == ImportChunk(d, a, chunk)
           f == [i \in 1..Len(d.components) |-> WithRows(d.components[i], chunk)]
           rows == [k \in Kinds |-> d.rows[k] \cup ToSet(chunk.rows[k])]
           r == [d.release EXCEPT !.digest = Append(@, chunk)]
<1>1. n = d \/ (/\ Holds(d, a, "importing")
                /\ n = [d EXCEPT !.chunks = Append(@, chunk), !.rows = rows,
                                 !.components = f, !.release = r])
      BY DEF ImportChunk
<1>2. CASE n = d
      BY <1>2
<1>3. CASE /\ Holds(d, a, "importing")
           /\ n = [d EXCEPT !.chunks = Append(@, chunk), !.rows = rows,
                            !.components = f, !.release = r]
  <2>1. d.release.state = "importing"
        BY <1>3 DEF Holds
  <2>2. /\ Tabled(d) /\ DOMAIN d.release = ReleaseFields
        /\ \E b \in Artifact : d.release.digest = <<Sha[b][1]>> \o d.chunks
        BY <2>1, ImportingFacts
  <2>3. /\ IsList(d.components) /\ Len(d.components) \in Nat /\ IsList(d.chunks)
        /\ \A i \in 1..Len(d.components) : HasRow(d.components[i])
        BY <2>2, ListsType DEF Tabled
  <2>4. IsList(f) /\ Len(f) = Len(d.components)
    <3> DEFINE l == Len(d.components)
    <3>1. l \in Nat /\ f = [i \in 1..l |-> f[i]]
          BY <2>3
    <3> HIDE DEF f, l
    <3>2. IsList(f) /\ Len(f) = l
          BY <3>1, ListOf
    <3> QED BY <3>2 DEF l
  <2>5. \A i \in 1..Len(f) : HasRow(f[i])
    <3> SUFFICES ASSUME NEW i \in 1..Len(d.components) PROVE HasRow(f[i])
        BY <2>4
    <3>1. f[i] = WithRows(d.components[i], chunk)
          OBVIOUS
    <3>2. HasRow(d.components[i])
          BY <2>3
    <3>3. HasRow(WithRows(d.components[i], chunk))
          BY <3>2 DEF HasRow, WithRows
    <3> HIDE DEF f
    <3> QED BY <3>1, <3>3
  <2> HIDE DEF n, f, r, rows
  <2>6. /\ DOMAIN n = DOMAIN d /\ n.components = f /\ n.release = r
        /\ n.chunks = Append(d.chunks, chunk) /\ n.rows = rows /\ n.owner = d.owner
        BY <1>3, <2>2 DEF Tabled
  <2>7. /\ DOMAIN r = ReleaseFields /\ r.digest = Append(d.release.digest, chunk)
        /\ \A g \in {"sha", "total", "state", "phase", "cursor"} : r[g] = d.release[g]
        BY <2>2 DEF r, ReleaseFields
  <2>8. IsList(n.chunks) /\ ToSet(n.chunks) = ToSet(d.chunks) \cup {chunk}
        BY <2>3, <2>6, AppendList
  <2>9. \A k \in Kinds : n.rows[k] = UNION {ToSet(c.rows[k]) : c \in ToSet(n.chunks)}
    <3> SUFFICES ASSUME NEW k \in Kinds
                 PROVE  n.rows[k] = UNION {ToSet(c.rows[k]) : c \in ToSet(n.chunks)}
        OBVIOUS
    <3>1. n.rows[k] = d.rows[k] \cup ToSet(chunk.rows[k])
          BY <2>6 DEF rows
    <3>2. d.rows[k] = UNION {ToSet(c.rows[k]) : c \in ToSet(d.chunks)}
          BY <2>2 DEF Tabled
    <3> QED BY <2>8, <3>1, <3>2
  <2>10. Tabled(n)
        BY <2>2, <2>4, <2>5, <2>6, <2>8, <2>9 DEF Tabled
  <2>11. \E b \in Artifact : n.release.digest = <<Sha[b][1]>> \o n.chunks
    <3>1. PICK b \in Artifact : d.release.digest = <<Sha[b][1]>> \o d.chunks
          BY <2>2
    <3> DEFINE g == Sha[b][1]
    <3> HIDE DEF g
    <3>2. Append(<<g>> \o d.chunks, chunk) = <<g>> \o Append(d.chunks, chunk)
          BY <2>3, AppendDigest
    <3>3. n.release.digest = <<g>> \o n.chunks
          BY <2>6, <2>7, <3>1, <3>2 DEF g
    <3> QED BY <3>3 DEF g
  <2>12. ~n.owner /\ DOMAIN n.release = ReleaseFields
        BY <2>6, <2>7
  <2>13. \A g \in {"sha", "total", "state", "phase", "cursor"} : n.release[g] = d.release[g]
        BY <2>6, <2>7
  <2>14. DbInv(n)
        BY <2>1, <2>10, <2>11, <2>12, <2>13, ImportingKeeps
  <2> QED BY <2>14 DEF n
<1> QED BY <1>1, <1>2, <1>3

LEMMA FiniteImage ==
    ASSUME NEW S, IsFiniteSet(S), NEW f, DOMAIN f = S
    PROVE  IsFiniteSet({f[x] : x \in S})
<1> DEFINE T == {f[x] : x \in S}
           g == [x \in S |-> f[x]]
<1>1. g \in Surjection(S, T)
      BY DEF Surjection
<1> QED BY <1>1, FS_Surjection

LEMMA FiniteRows ==
    ASSUME NEW d, Tabled(d), NEW a \in Artifact, d.chunks = Content[a].chunks, NEW k \in Kinds
    PROVE  IsFiniteSet(d.rows[k])
<1>1. ASSUME NEW s, IsList(s) PROVE IsFiniteSet(ToSet(s))
  <2>1. DOMAIN s = 1..Len(s) /\ Len(s) \in Nat
        BY <1>1, ListsType
  <2>2. IsFiniteSet(DOMAIN s)
        BY <2>1, FS_Interval
  <2> QED BY <2>2, FiniteImage DEF ToSet
<1> DEFINE S == ToSet(d.chunks)
           f == [c \in S |-> ToSet(c.rows[k])]
           T == {f[c] : c \in S}
<1>2. IsFiniteSet(S)
      BY <1>1 DEF Tabled
<1>3. \A c \in S : IsList(c.rows[k])
      BY AtlasAssumption
<1>4. IsFiniteSet(T)
      BY <1>2, FiniteImage
<1>5. \A Q \in T : IsFiniteSet(Q)
  <2> SUFFICES ASSUME NEW c \in S PROVE IsFiniteSet(f[c])
      OBVIOUS
  <2>1. f[c] = ToSet(c.rows[k])
        OBVIOUS
  <2> QED BY <1>1, <1>3, <2>1
<1>6. d.rows[k] = UNION T
      BY DEF Tabled
<1> HIDE DEF T
<1> QED BY <1>4, <1>5, <1>6, FS_UNION

LEMMA BeginKeeps ==
    ASSUME NEW d, DbInv(d), ~d.owner, NEW a0
    PROVE  DbInv(BeginVerification(d, a0))
<1> DEFINE n == BeginVerification(d, a0)
           r == d.release
           q == [r EXCEPT !.state = "verifying", !.digest = <<>>]
<1>1. CASE ~(Holds(d, a0, "importing") /\ ImportsExact(d) /\ RegionTotalsExact(d.release) /\ ShaMatches(d))
      BY <1>1 DEF BeginVerification
<1>2. CASE Holds(d, a0, "importing") /\ ImportsExact(d) /\ RegionTotalsExact(d.release) /\ ShaMatches(d)
  <2>1. r.state = "importing" /\ ReleaseInv(d) /\ Tabled(d)
        BY <1>2 DEF Holds, DbInv
  <2>2. PICK b \in Artifact : r.digest = <<Sha[b][1]>> \o d.chunks
        BY <2>1 DEF ReleaseInv, Importing
  <2>3. PICK a \in Artifact : r.sha = Sha[a] /\ r.total = Total[a]
        BY <2>1 DEF ReleaseInv, OneBuild
  <2>4. Stored(d, a)
    <3> DEFINE g == Sha[b][1]
               h == [id |-> Content[a].id, build |-> Content[a].build]
    <3>1. (r.digest \o <<Manifest(d), r.regions>>) = Sha[a]
          BY <1>2, <2>3 DEF ShaMatches
    <3>2. Sha[a] = (<<h>> \o Content[a].chunks) \o <<Content[a].components, Content[a].regions>>
          BY DEF Sha
    <3> HIDE DEF g, h
    <3>3. DigestOf(g, d.chunks, Manifest(d), r.regions)
            = DigestOf(h, Content[a].chunks, Content[a].components, Content[a].regions)
          BY <2>2, <3>1, <3>2 DEF g, DigestOf
    <3>4. IsList(d.chunks) /\ IsList(Content[a].chunks)
          BY <2>1, AtlasAssumption DEF Tabled
    <3>5. d.chunks = Content[a].chunks /\ Manifest(d) = Content[a].components /\ r.regions = Content[a].regions
          BY <3>3, <3>4, ShaCancel
    <3> QED BY <3>5 DEF Stored
  <2>5. \A t \in Tables : Total[a][t] \in Nat
    <3>1. Total[a]["components"] = Len(Content[a].components) /\ Total[a]["chunks"] = Len(Content[a].chunks)
          BY DEF Total, Tables
    <3>2. Len(Content[a].components) \in Nat /\ Len(Content[a].chunks) \in Nat
          BY AtlasAssumption, ListsType
    <3>3. ASSUME NEW k \in Kinds PROVE Total[a][k] \in Nat
      <4>1. Cardinality(d.rows[k]) = Total[a][k]
            BY <1>2, <2>3 DEF ImportsExact
      <4>2. IsFiniteSet(d.rows[k])
            BY <2>1, <2>4, FiniteRows DEF Stored
      <4> QED BY <4>1, <4>2, FS_CardinalityType
    <3> QED BY <3>1, <3>2, <3>3 DEF Tables
  <2>6. n = [d EXCEPT !.release = q]
        BY <1>2 DEF BeginVerification
  <2>7. /\ DOMAIN q = ReleaseFields /\ q.state = "verifying" /\ q.phase = r.phase
        /\ q.cursor = r.cursor /\ q.sha = r.sha /\ q.total = r.total /\ q.regions = r.regions
        BY <2>1 DEF ReleaseInv, ReleaseFields
  <2> HIDE DEF n, q
  <2>8. /\ DOMAIN n = DOMAIN d /\ n.components = d.components /\ n.release = q
        /\ n.chunks = d.chunks /\ n.rows = d.rows /\ n.owner = d.owner
        BY <2>1, <2>6 DEF Tabled
  <2>9. Tabled(n)
        BY <2>1, <2>8 DEF Tabled
  <2>10. r.phase = "components" /\ r.cursor \in Nat
        BY <2>1 DEF ReleaseInv, Importing, Progress
  <2>11. Progress(n)
        BY <2>7, <2>8, <2>10 DEF Progress, OpenPhases, ComponentPhases
  <2>12. OneBuild(n)
    <3>1. Stored(n, a)
          BY <2>4, <2>7, <2>8 DEF Stored, Manifest
    <3> QED BY <2>3, <2>5, <2>7, <2>8, <3>1 DEF OneBuild
  <2>13. ReleaseInv(n) /\ n.release.state = "verifying" /\ ~n.owner
        BY <2>7, <2>8, <2>11, <2>12 DEF ReleaseInv
  <2>14. DbInv(n)
        BY <2>9, <2>13 DEF DbInv
  <2> QED BY <2>14 DEF n
<1> QED BY <1>1, <1>2

LEMMA FinalizeKeeps ==
    ASSUME NEW d, DbInv(d), ~d.owner, NEW a, NEW digest
    PROVE  DbInv(FinalizeRelease(d, a, digest))
<1> DEFINE n == FinalizeRelease(d, a, digest)
           r == d.release
           q == [r EXCEPT !.state = "ready"]
<1>1. n = d \/ (/\ Holds(d, a, "verifying") /\ r.phase = "complete"
                /\ n = [d EXCEPT !.release = q])
      BY DEF FinalizeRelease
<1>2. CASE n = d
      BY <1>2
<1>3. CASE Holds(d, a, "verifying") /\ r.phase = "complete" /\ n = [d EXCEPT !.release = q]
  <2>1. r.state = "verifying" /\ ReleaseInv(d) /\ Tabled(d)
        BY <1>3 DEF Holds, DbInv
  <2>2. /\ DOMAIN q = ReleaseFields /\ q.state = "ready" /\ q.phase = r.phase
        /\ q.cursor = r.cursor /\ q.sha = r.sha /\ q.total = r.total /\ q.regions = r.regions
        BY <2>1 DEF ReleaseInv, ReleaseFields
  <2> HIDE DEF n, q
  <2>3. /\ DOMAIN n = DOMAIN d /\ n.components = d.components /\ n.release = q
        /\ n.chunks = d.chunks /\ n.rows = d.rows /\ n.owner = d.owner
        BY <1>3, <2>1 DEF Tabled
  <2>4. Tabled(n)
        BY <2>1, <2>3 DEF Tabled
  <2>5. Progress(n)
        BY <2>1, <2>2, <2>3 DEF ReleaseInv, Progress, CompleteTo
  <2>6. OneBuild(n)
    <3>1. PICK b \in Artifact : /\ r.sha = Sha[b] /\ r.total = Total[b] /\ Stored(d, b)
                                /\ \A t \in Tables : Total[b][t] \in Nat
          BY <2>1 DEF ReleaseInv, OneBuild
    <3>2. Stored(n, b)
      <4>1. Manifest(n) = Manifest(d)
            BY <2>3 DEF Manifest
      <4> QED BY <2>2, <2>3, <3>1, <4>1 DEF Stored
    <3> QED BY <2>2, <2>3, <3>1, <3>2 DEF OneBuild
  <2>7. ReleaseInv(n) /\ n.release.state = "ready" /\ ~n.owner
        BY <1>3, <2>2, <2>3, <2>5, <2>6 DEF ReleaseInv
  <2>8. DbInv(n)
        BY <2>4, <2>7 DEF DbInv
  <2> QED BY <2>8 DEF n
<1> QED BY <1>1, <1>2, <1>3

NextPhase(phase) == Phases[1 + CHOOSE j \in 1..Len(Phases) : Phases[j] = phase]

LEMMA NextPhaseIs ==
    ASSUME NEW phase \in OpenPhases
    PROVE  /\ NextPhase(phase) \in OpenPhases \cup {"complete"}
           /\ NextPhase(phase) = "complete" => phase = "component-finalize"
<1> DEFINE j == CHOOSE j \in 1..Len(Phases) : Phases[j] = phase
<1>1. Len(Phases) = 9
      BY DEF Phases
<1>2. \E i \in 1..8 : Phases[i] = phase
      BY DEF OpenPhases, Kinds, ComponentPhases, Phases
<1>3. j \in 1..9 /\ Phases[j] = phase
      BY <1>1, <1>2
<1> HIDE DEF j
<1>4. Phases[9] = "complete" /\ phase # "complete"
      BY DEF OpenPhases, Kinds, ComponentPhases, Phases
<1>5. j \in 1..8
      BY <1>3, <1>4
<1>6. ASSUME NEW i \in 1..8
      PROVE  /\ Phases[1 + i] \in OpenPhases \cup {"complete"}
             /\ Phases[1 + i] = "complete" => Phases[i] = "component-finalize"
  <2>1. i \in {1, 2, 3, 4, 5, 6, 7, 8}
        OBVIOUS
  <2> QED BY <2>1 DEF OpenPhases, Kinds, ComponentPhases, Phases
<1>7. NextPhase(phase) = Phases[1 + j]
      BY DEF NextPhase, j
<1> QED BY <1>3, <1>5, <1>6, <1>7

LEMMA ManifestLength ==
    ASSUME NEW d, Tabled(d), NEW a \in Artifact, Manifest(d) = Content[a].components
    PROVE  Total[a]["components"] = Len(d.components)
<1> DEFINE l == Len(d.components)
           m == Manifest(d)
<1>1. l \in Nat
      BY ListsType DEF Tabled
<1>2. m = [i \in 1..l |-> m[i]]
      BY DEF Manifest
<1> HIDE DEF l, m
<1>3. Len(m) = l
      BY <1>1, <1>2, ListOf
<1>4. Total[a]["components"] = Len(Content[a].components)
      BY DEF Total, Tables
<1> QED BY <1>3, <1>4 DEF l, m

(* The components after the rows from the cursor up to an end.                *)
LEMMA VerifiedKeeps ==
    ASSUME NEW d, Tabled(d), Progress(d), d.release.phase \in OpenPhases, NEW end \in Nat
    PROVE  /\ Follows(d.components, Verified(d, end))
           /\ d.release.phase = "component-finalize" =>
                \A i \in 1..Len(d.components) :
                   i <= end => Verified(d, end).components[i].phase = "complete"
<1> DEFINE r == d.release
           S == Rows(r, end)
           list == RowNumbers(r, end)
           y == Begun(d)
           x == Verified(d, end)
<1>1. r.cursor \in Nat /\ (r.phase = "component-finalize" => CompleteTo(d, r.cursor))
      BY DEF Progress
<1>2. PICK F : Batch(F, S, d, y, list) /\ x = F[S]
      BY <1>1, VerifiedIsBatch
<1>3. Places(S)
  <2> DEFINE m == end - r.cursor
  <2>1. m \in Int /\ 1 \in Int
        BY <1>1
  <2>2. S = 1..m
        BY DEF Rows
  <2> HIDE DEF S, m
  <2>3. IsFiniteSet(1..m) /\ 1..m \subseteq Int
        BY <2>1, FS_Interval
  <2> QED BY <2>2, <2>3 DEF Places
<1>4. y.components = d.components /\ Follows(d.components, y)
      BY DEF Begun, Follows, Tabled
<1> HIDE DEF S, list, y, x
<1>5. Follows(d.components, x) /\ Finished(d, x, S, list)
      BY <1>2, <1>3, <1>4, BatchKeeps
<1>6. ASSUME r.phase = "component-finalize", NEW i \in 1..Len(d.components), i <= end
      PROVE  x.components[i].phase = "complete"
  <2>0. i \in Nat /\ i >= 1
    <3> DEFINE l == Len(d.components)
    <3>1. l \in Nat
          BY ListsType DEF Tabled
    <3> HIDE DEF l
    <3>2. i \in 1..l
          BY DEF l
    <3> QED BY <3>1, <3>2
  <2>1. CASE i <= r.cursor
    <3>1. d.components[i].phase = "complete"
          BY <1>1, <1>6, <2>1 DEF CompleteTo
    <3> QED BY <1>5, <1>6, <3>1 DEF Finished
  <2>2. CASE ~(i <= r.cursor)
    <3> DEFINE m == i - r.cursor
               c == r.cursor
    <3>1. m \in S /\ c + m = i /\ m \in Int
          BY <1>1, <1>6, <2>0, <2>2 DEF S, Rows
    <3>2. list[m] = c + m - 1
          BY <3>1 DEF list, RowNumbers, S
    <3>3. list[m] + 1 = i
      <4> HIDE DEF m, c
      <4>1. c \in Nat
            BY <1>1 DEF c
      <4> QED BY <3>1, <3>2, <4>1
    <3> HIDE DEF m
    <3> QED BY <1>5, <1>6, <3>1, <3>3 DEF Finished
  <2> QED BY <2>1, <2>2
<1> QED BY <1>5, <1>6 DEF x

LEMMA VerifyKeeps ==
    ASSUME NEW d, DbInv(d), ~d.owner, NEW a0, NEW requested \in Nat
    PROVE  DbInv(VerifyBatch(d, a0, requested))
<1> DEFINE n == VerifyBatch(d, a0, requested)
           r == d.release
           table == TableOf(r.phase)
           end == IF r.cursor + requested < r.total[table] THEN r.cursor + requested ELSE r.total[table]
           x == Verified(d, end)
           verified == IF r.phase \in Tables THEN [r.verified EXCEPT ![table] = end] ELSE r.verified
           phase == IF end = r.total[table] THEN NextPhase(r.phase) ELSE r.phase
           q == [r EXCEPT !.counted = CountedAfter(d, x), !.digest = x.digest, !.verified = verified,
                          !.cursor = CursorAfter(r, end), !.phase = phase]
<1>1. n = d \/ (/\ Holds(d, a0, "verifying") /\ r.phase # "complete"
                /\ n = [d EXCEPT !.components = x.components, !.release = q])
      BY DEF VerifyBatch, NextPhase
<1>2. CASE n = d
      BY <1>2
<1>3. CASE /\ Holds(d, a0, "verifying") /\ r.phase # "complete"
           /\ n = [d EXCEPT !.components = x.components, !.release = q]
  <2>1. r.state = "verifying" /\ ReleaseInv(d) /\ Tabled(d)
        BY <1>3 DEF Holds, DbInv
  <2>2. r.phase \in OpenPhases /\ r.cursor \in Nat /\ Progress(d)
        BY <1>3, <2>1 DEF ReleaseInv, Progress
  <2>3. PICK a \in Artifact : /\ r.sha = Sha[a] /\ r.total = Total[a] /\ Stored(d, a)
                              /\ \A t \in Tables : Total[a][t] \in Nat
        BY <2>1 DEF ReleaseInv, OneBuild
  <2>4. r.total["components"] = Len(d.components)
        BY <2>1, <2>3, ManifestLength DEF Stored
  <2>5. table \in Tables /\ (r.phase = "component-finalize" => table = "components")
        BY DEF TableOf, Tables, Kinds
  <2>6. end \in Nat
        BY <2>2, <2>3, <2>5
  <2>7. q.cursor = IF end = r.total[table] THEN 0 ELSE end
        BY <2>1 DEF CursorAfter, ReleaseInv, ReleaseFields
  <2>8. /\ DOMAIN q = ReleaseFields /\ q.state = "verifying" /\ q.phase = phase
        /\ q.sha = r.sha /\ q.total = r.total /\ q.regions = r.regions
        BY <2>1 DEF ReleaseInv, ReleaseFields
  <2> HIDE DEF n, q, x
  <2>9. /\ DOMAIN n = DOMAIN d /\ n.components = x.components /\ n.release = q
        /\ n.chunks = d.chunks /\ n.rows = d.rows /\ n.owner = d.owner
        BY <1>3, <2>1 DEF Tabled
  <2> HIDE DEF end, table
  <2>10. /\ Follows(d.components, x)
         /\ r.phase = "component-finalize" =>
              \A i \in 1..Len(d.components) : i <= end => x.components[i].phase = "complete"
        BY <2>1, <2>2, <2>6, VerifiedKeeps DEF x
  <2>11. /\ IsList(n.components) /\ Len(n.components) = Len(d.components)
         /\ \A i \in 1..Len(d.components) : /\ HasRow(n.components[i])
                                            /\ n.components[i].row = d.components[i].row
        BY <2>9, <2>10 DEF Follows
  <2>12. Tabled(n)
        BY <2>1, <2>9, <2>11 DEF Tabled
  <2>13. Manifest(n) = Manifest(d)
        BY <2>11 DEF Manifest
  <2>14. OneBuild(n)
    <3>1. Stored(n, a)
          BY <2>3, <2>8, <2>9, <2>13 DEF Stored
    <3> QED BY <2>3, <2>8, <2>9, <3>1 DEF OneBuild
  <2>15. r.phase = "component-finalize" => CompleteTo(n, end)
        BY <2>9, <2>10, <2>11 DEF CompleteTo
  <2>16. Progress(n)
    <3>1. CASE end = r.total[table]
      <4>1. q.cursor = 0 /\ q.phase = NextPhase(r.phase)
            BY <2>7, <2>8, <3>1
      <4>2. /\ q.phase \in OpenPhases \cup {"complete"}
            /\ q.phase = "complete" => r.phase = "component-finalize"
            BY <2>2, <4>1, NextPhaseIs
      <4>3. q.phase = "complete" => CompleteTo(n, Len(n.components))
            BY <2>4, <2>5, <2>11, <2>15, <3>1, <4>2
      <4>4. CompleteTo(n, 0)
        <5> DEFINE l == Len(n.components)
        <5>1. l \in Nat
              BY <2>11, ListsType
        <5> HIDE DEF l
        <5>2. \A i \in 1..l : ~(i <= 0)
              BY <5>1
        <5> QED BY <5>2 DEF CompleteTo, l
      <4> QED BY <2>9, <4>1, <4>2, <4>3, <4>4 DEF Progress
    <3>2. CASE end # r.total[table]
      <4>1. q.cursor = end /\ q.phase = r.phase
            BY <2>7, <2>8, <3>2
      <4> QED BY <1>3, <2>2, <2>6, <2>9, <2>15, <4>1 DEF Progress
    <3> QED BY <3>1, <3>2
  <2>17. ReleaseInv(n) /\ n.release.state = "verifying" /\ ~n.owner
        BY <2>8, <2>9, <2>14, <2>16 DEF ReleaseInv
  <2>18. DbInv(n)
        BY <2>12, <2>17 DEF DbInv
  <2> QED BY <2>18 DEF n
<1> QED BY <1>1, <1>2, <1>3

LEMMA RunKeeps ==
    ASSUME NEW d, DbInv(d), NEW c, CallOk(c)
    PROVE  DbInv(Run(d, c))
<1>1. CASE Ready(d) \/ d.owner
      BY <1>1 DEF Run
<1>2. CASE ~(Ready(d) \/ d.owner)
  <2>1. CASE c.op = "stage"
        BY <1>2, <2>1, StageKeeps DEF Run, CallOk
  <2>2. CASE c.op = "components"
        BY <1>2, <2>2, ComponentsKeep DEF Run
  <2>3. CASE c.op = "regions"
        BY <1>2, <2>3, RegionsKeep DEF Run
  <2>4. CASE c.op = "chunk"
        BY <1>2, <2>4, ChunkImported DEF Run
  <2>5. CASE c.op = "begin"
        BY <1>2, <2>5, BeginKeeps DEF Run
  <2>6. CASE c.op = "verify"
        BY <1>2, <2>6, VerifyKeeps DEF Run, CallOk
  <2>7. CASE c.op = "finalize"
        BY <1>2, <2>7, FinalizeKeeps DEF Run
  <2> QED BY <2>1, <2>2, <2>3, <2>4, <2>5, <2>6, <2>7 DEF CallOk, Ops
<1> QED BY <1>1, <1>2

-----------------------------------------------------------------------------
(* What the tool plans are calls of the build it was started with.            *)
LEMMA PlanIsCall ==
    ASSUME NEW d, DbInv(d), NEW a \in Artifact, NEW n \in Nat
    PROVE  Plan(Status(d), a, n) = None \/ CallOk(Plan(Status(d), a, n))
<1> DEFINE s == Status(d)
           p == Plan(s, a, n)
           size == s.size["components"]
           total == Total[a]["components"]
<1>1. /\ s.state \in {"absent", "importing", "verifying", "ready"}
      /\ s.regions \in BOOLEAN
  <2>1. d.release.state \in {"absent", "importing", "verifying", "ready"}
        BY DEF DbInv, ReleaseInv
  <2> QED BY <2>1 DEF Status, Absent
<1>2. size \in Nat /\ total \in Nat
  <2>1. size = Len(d.components) /\ Len(d.components) \in Nat
        BY ListsType DEF Status, DbInv, Tabled
  <2>2. total = Len(Content[a].components) /\ Len(Content[a].components) \in Nat
        BY AtlasAssumption, ListsType DEF Total, Tables
  <2> QED BY <2>1, <2>2
<1>3. \A op \in Ops : \A list, digest : /\ CallOk(Call(op, a, list, 0, digest))
                                         /\ CallOk(Call(op, a, list, n, digest))
      BY DEF CallOk, Call
<1> HIDE DEF s, size, total
<1>4. CASE s.state = "absent"
  <2>1. p = Call("stage", a, <<>>, 0, None)
        BY <1>4 DEF Plan
  <2> QED BY <1>3, <2>1 DEF Ops, s
<1>5. CASE s.state = "importing"
  <2>1. CASE size < total
    <3>1. \E list : p = Call("components", a, list, 0, None)
          BY <1>2, <1>5, <2>1 DEF Plan, size, total
    <3> QED BY <1>3, <3>1 DEF Ops, s
  <2>2. CASE size >= total /\ ~s.regions
    <3>1. p = Call("regions", a, <<>>, 0, None)
          BY <1>2, <1>5, <2>2 DEF Plan, size, total
    <3> QED BY <1>3, <3>1 DEF Ops, s
  <2>3. CASE size >= total /\ s.regions
    <3>1. p = IF s.size["chunks"] < Total[a]["chunks"]
              THEN Call("chunk", a, <<Content[a].chunks[s.size["chunks"] + 1]>>, 0, None)
              ELSE IF s.exact THEN Call("begin", a, <<>>, 0, None) ELSE None
          BY <1>2, <1>5, <2>3 DEF Plan, size, total
    <3> QED BY <1>3, <3>1 DEF Ops, s
  <2> QED BY <1>1, <1>2, <2>1, <2>2, <2>3
<1>6. CASE s.state = "verifying"
  <2>1. CASE s.phase # "complete"
    <3>1. p = Call("verify", a, <<>>, n, None)
          BY <1>6, <2>1 DEF Plan
    <3> QED BY <1>3, <3>1 DEF Ops, s
  <2>2. CASE s.phase = "complete"
    <3>1. p = Call("finalize", a, <<>>, 0, s.digest)
          BY <1>6, <2>2 DEF Plan
    <3> QED BY <1>3, <3>1 DEF Ops, s
  <2> QED BY <2>1, <2>2
<1>7. CASE s.state = "ready"
  <2>1. p = None
        BY <1>7 DEF Plan
  <2> QED BY <2>1 DEF s
<1> QED BY <1>1, <1>4, <1>5, <1>6, <1>7

ToolsOk(t) == DOMAIN t = Operator /\ \A o \in Operator : ToolOk(t[o])

LEMMA ToolMoves ==
    ASSUME NEW t, ToolsOk(t), NEW o \in Operator, NEW e, ToolOk(e), NEW u, u = [t EXCEPT ![o] = e]
    PROVE  ToolsOk(u)
BY DEF ToolsOk

LEMMA GoesOk ==
    ASSUME Inv, NEW o \in Operator, NEW at \in {"plan", "submit"}, NEW a \in Artifact,
           Goes(o, at, a, Status(db)),
           at = "submit" => Plan(Status(db), a, BatchRows[o]) # None
    PROVE  ToolsOk(tool')
<1> DEFINE p == Plan(Status(db), a, BatchRows[o])
           e == [at |-> at, artifact |-> a, status |-> Status(db), call |-> p]
<1>1. p = None \/ CallOk(p)
  <2>1. BatchRows[o] \in Nat
        BY AtlasAssumption
  <2> QED BY <2>1, PlanIsCall DEF Inv
<1> HIDE DEF p
<1>2. ToolOk(e)
      BY <1>1 DEF ToolOk, p
<1>3. tool' = [tool EXCEPT ![o] = e]
      BY DEF Goes, p
<1> HIDE DEF e
<1> QED BY <1>2, <1>3, ToolMoves DEF Inv, ToolsOk

LEMMA OffOk ==
    ASSUME Inv, NEW o \in Operator, TurnsOff(o)
    PROVE  ToolsOk(tool')
<1>1. ToolOk(Off)
      BY DEF ToolOk, Off
<1> QED BY <1>1, ToolMoves DEF Inv, ToolsOk, TurnsOff

FlightOk(f) == \A c \in BagToSet(f) : CallOk(c)

LEMMA InvParts == Inv <=> DbInv(db) /\ ToolsOk(tool) /\ FlightOk(flight)
BY DEF Inv, ToolsOk, FlightOk

LEMMA Sent ==
    ASSUME NEW f, FlightOk(f), NEW c, CallOk(c)
    PROVE  FlightOk(f (+) SetToBag({c}))
<1>1. BagToSet(f (+) SetToBag({c})) = BagToSet(f) \cup {c}
      BY DEF BagToSet, SetToBag, (+)
<1> QED BY <1>1 DEF FlightOk

LEMMA Landed ==
    ASSUME NEW f, FlightOk(f), NEW c
    PROVE  FlightOk(f (-) SetToBag({c}))
<1>1. BagToSet(f (-) SetToBag({c})) \subseteq BagToSet(f)
      BY DEF BagToSet, (-)
<1> QED BY <1>1 DEF FlightOk

LEMMA InitInv == Init => Inv
<1> SUFFICES ASSUME Init PROVE Inv
    OBVIOUS
<1>1. DbInv(db)
  <2>1. /\ DOMAIN db = {"release", "components", "chunks", "rows", "owner"}
        /\ db.release = Absent /\ db.components = <<>> /\ db.chunks = <<>>
        /\ db.rows = [k \in Kinds |-> {}] /\ ~db.owner
        BY DEF Init
  <2>2. Tabled(db)
    <3>1. \A k \in Kinds : db.rows[k] = UNION {ToSet(c.rows[k]) : c \in ToSet(db.chunks)}
          BY <2>1, EmptyList
    <3>2. \A i \in 1..Len(db.components) : HasRow(db.components[i])
          BY <2>1, EmptyList
    <3> QED BY <2>1, <3>1, <3>2, EmptyList DEF Tabled
  <2>3. db.release.state = "absent"
        BY <2>1 DEF Absent
  <2> QED BY <2>1, <2>2, <2>3 DEF DbInv
<1>2. ToolsOk(tool)
      BY DEF Init, ToolsOk, ToolOk, Off
<1>3. FlightOk(flight)
      BY DEF Init, FlightOk, EmptyBag, SetToBag, BagToSet
<1> QED BY <1>1, <1>2, <1>3, InvParts

LEMMA ManualCallsOk ==
    ASSUME NEW a \in Artifact, NEW c \in ManualCalls(a)
    PROVE  CallOk(c)
<1>1. CASE \E chunk : c = Call("chunk", a, <<chunk>>, 0, None)
      BY <1>1 DEF CallOk, Call, Ops
<1>2. CASE c \in {Call("components", a, Content[a].components, 0, None), Call("regions", a, <<>>, 0, None),
                  Call("begin", a, <<>>, 0, None), Call("verify", a, <<>>, 1, None)}
      BY <1>2 DEF CallOk, Call, Ops
<1> QED BY <1>1, <1>2 DEF ManualCalls

LEMMA NextInv == Inv /\ [Next]_vars => Inv'
<1> SUFFICES ASSUME Inv, [Next]_vars PROVE Inv'
    OBVIOUS
<1> USE InvParts
<1>0. DbInv(db) /\ ToolsOk(tool) /\ FlightOk(flight)
      OBVIOUS
<1>1. ASSUME UNCHANGED vars PROVE Inv'
      BY <1>0, <1>1 DEF vars, bounds, Inv, ToolsOk, FlightOk
<1>2. ASSUME DbInv(db'), ToolsOk(tool'), FlightOk(flight') PROVE Inv'
      BY <1>2 DEF Inv, ToolsOk, FlightOk
<1>3. ASSUME NEW o \in Operator, Steps(o) PROVE Inv'
  <2>1. CASE \E a \in Artifact : Start(o, a)
    <3>1. PICK a \in Artifact : Start(o, a)
          BY <2>1
    <3>2. Goes(o, "plan", a, Status(db)) /\ db' = db /\ flight' = flight
          BY <3>1 DEF Start
    <3>3. ToolsOk(tool')
          BY <3>2, GoesOk
    <3> QED BY <1>0, <1>2, <3>2, <3>3
  <2>2. CASE Recheck(o)
    <3> DEFINE a == tool[o].artifact
               at == IF Plan(Status(db), a, BatchRows[o]) = tool[o].call THEN "submit" ELSE "plan"
    <3>1. a \in Artifact /\ db' = db /\ flight' = flight
          BY <1>0, <2>2 DEF Recheck, ToolsOk, ToolOk
    <3>2. TurnsOff(o) \/ (tool[o].call # None /\ Goes(o, at, a, Status(db)))
          BY <2>2 DEF Recheck
    <3>3. CASE TurnsOff(o)
          BY <1>0, <1>2, <3>1, <3>3, OffOk
    <3>4. CASE tool[o].call # None /\ Goes(o, at, a, Status(db))
      <4>1. at \in {"plan", "submit"} /\ (at = "submit" => Plan(Status(db), a, BatchRows[o]) # None)
            BY <3>4
      <4> HIDE DEF at, a
      <4>2. ToolsOk(tool')
            BY <3>1, <3>4, <4>1, GoesOk
      <4> QED BY <1>0, <1>2, <3>1, <4>2
    <3> QED BY <3>2, <3>3, <3>4
  <2>3. CASE Submit(o)
    <3> DEFINE c == tool[o].call
               e == [tool[o] EXCEPT !.at = "wait"]
    <3>1. /\ CallOk(c) /\ ToolOk(tool[o]) /\ tool[o].at = "submit"
          /\ flight' = flight (+) SetToBag({c}) /\ db' = db
          BY <1>0, <2>3 DEF Submit, ToolsOk, ToolOk
    <3>2. FlightOk(flight')
          BY <1>0, <3>1, Sent
    <3>3. ToolOk(e)
          BY <3>1 DEF ToolOk
    <3>4. tool' = [tool EXCEPT ![o] = e]
          BY <2>3 DEF Submit
    <3> HIDE DEF e
    <3>5. ToolsOk(tool')
          BY <1>0, <3>3, <3>4, ToolMoves
    <3> QED BY <1>0, <1>2, <3>1, <3>2, <3>5
  <2>4. CASE Compare(o)
    <3>1. tool[o].artifact \in Artifact /\ db' = db /\ flight' = flight
          BY <1>0, <2>4 DEF Compare, ToolsOk, ToolOk
    <3>2. TurnsOff(o) \/ Goes(o, "plan", tool[o].artifact, Status(db))
          BY <2>4 DEF Compare
    <3>3. ToolsOk(tool')
          BY <3>1, <3>2, OffOk, GoesOk
    <3> QED BY <1>0, <1>2, <3>1, <3>3
  <2> QED BY <1>3, <2>1, <2>2, <2>3, <2>4 DEF Steps
<1>4. ASSUME Execute PROVE Inv'
  <2>1. PICK c \in BagToSet(flight) : Arrives(c) /\ db' = Run(db, c) /\ tool' = tool
        BY <1>4 DEF Execute
  <2>2. CallOk(c)
        BY <1>0 DEF FlightOk
  <2>3. DbInv(db')
        BY <1>0, <2>1, <2>2, RunKeeps
  <2>4. FlightOk(flight')
        BY <1>0, <2>1, Landed DEF Arrives
  <2> QED BY <1>0, <1>2, <2>1, <2>3, <2>4
<1>5. ASSUME LoseCall PROVE Inv'
  <2>1. PICK c \in BagToSet(flight) : Arrives(c) /\ db' = db /\ tool' = tool
        BY <1>5 DEF LoseCall
  <2>2. FlightOk(flight')
        BY <1>0, <2>1, Landed DEF Arrives
  <2> QED BY <1>0, <1>2, <2>1, <2>2
<1>6. ASSUME CallByHand PROVE Inv'
  <2>0. PICK a \in Artifact : \E c \in ManualCalls(a) :
           db' = Run(db, c) /\ tool' = tool /\ flight' = flight
        BY <1>6 DEF CallByHand
  <2>1. PICK c \in ManualCalls(a) : db' = Run(db, c) /\ tool' = tool /\ flight' = flight
        BY <2>0
  <2>2. CallOk(c)
        BY <2>1, ManualCallsOk
  <2>3. DbInv(db')
        BY <1>0, <2>1, <2>2, RunKeeps
  <2> QED BY <1>0, <1>2, <2>1, <2>3
<1>7. ASSUME ProvisionOwner PROVE Inv'
  <2>1. /\ Tabled(db) /\ db.release.state = "ready" /\ ReleaseInv(db)
        /\ db' = [db EXCEPT !.owner = TRUE] /\ tool' = tool /\ flight' = flight
        BY <1>0, <1>7 DEF ProvisionOwner, Ready, DbInv
  <2> DEFINE n == db'
  <2>2. /\ DOMAIN n = DOMAIN db /\ n.components = db.components /\ n.release = db.release
        /\ n.chunks = db.chunks /\ n.rows = db.rows
        BY <2>1 DEF Tabled
  <2> HIDE DEF n
  <2>3. Tabled(n)
        BY <2>1, <2>2 DEF Tabled
  <2>4. ReleaseInv(n) /\ n.release.state = "ready"
    <3>1. Progress(n)
          BY <2>1, <2>2 DEF ReleaseInv, Progress, CompleteTo
    <3>2. OneBuild(n)
      <4>1. PICK a \in Artifact :
               /\ db.release.sha = Sha[a] /\ db.release.total = Total[a]
               /\ Stored(db, a) /\ \A t \in Tables : Total[a][t] \in Nat
            BY <2>1 DEF ReleaseInv, OneBuild
      <4>2. Manifest(n) = Manifest(db)
            BY <2>2 DEF Manifest
      <4>3. Stored(n, a)
            BY <2>2, <4>1, <4>2 DEF Stored
      <4> QED BY Zenon, <2>2, <4>1, <4>3 DEF OneBuild
    <3> QED BY <2>1, <2>2, <3>1, <3>2 DEF ReleaseInv
  <2>5. DbInv(n)
        BY <2>3, <2>4 DEF DbInv, Ready
  <2> QED BY <1>0, <1>2, <2>1, <2>5 DEF n
<1> QED BY <1>1, <1>3, <1>4, <1>5, <1>6, <1>7 DEF Next

LEMMA ApprovedByInv == Inv => ReadyIsApproved
<1> SUFFICES ASSUME Inv PROVE ReadyIsApproved
    OBVIOUS
<1>1. Tabled(db) /\ (db.owner => Ready(db))
      BY DEF Inv, DbInv
<1>2. ASSUME Ready(db)
      PROVE  \E a \in Artifact :
                /\ db.release.sha = Sha[a]
                /\ Manifest(db) = Content[a].components
                /\ db.chunks = Content[a].chunks
                /\ db.release.regions = Content[a].regions
                /\ \A c \in ToSet(db.components) : c.phase = "complete"
                /\ \A k \in Kinds : db.rows[k] = UNION {ToSet(c.rows[k]) : c \in ToSet(Content[a].chunks)}
  <2>1. db.release.state = "ready" /\ ReleaseInv(db)
        BY <1>2 DEF Ready, Inv, DbInv
  <2>2. PICK a \in Artifact : db.release.sha = Sha[a] /\ Stored(db, a)
        BY <2>1 DEF ReleaseInv, OneBuild
  <2>3. \A c \in ToSet(db.components) : c.phase = "complete"
    <3> DEFINE l == Len(db.components)
    <3>1. l \in Nat /\ DOMAIN db.components = 1..l
          BY <1>1, ListsType DEF Tabled
    <3>2. CompleteTo(db, l)
          BY <2>1 DEF ReleaseInv, Progress
    <3>3. ASSUME NEW i \in 1..l PROVE db.components[i].phase = "complete"
      <4> HIDE DEF l
      <4>1. i <= l
            BY <3>1
      <4> QED BY <3>2, <4>1 DEF CompleteTo, l
    <3> HIDE DEF l
    <3> QED BY <3>1, <3>3 DEF ToSet
  <2>4. \A k \in Kinds : db.rows[k] = UNION {ToSet(c.rows[k]) : c \in ToSet(Content[a].chunks)}
        BY <1>1, <2>2 DEF Tabled, Stored
  <2> QED BY <2>2, <2>3, <2>4 DEF Stored
<1> QED BY <1>1, <1>2 DEF ReadyIsApproved

(* A sealed atlas is one approved build, whole and verified to the end, and   *)
(* an owner moves in only then, whichever calls are lost, late, repeated or   *)
(* made by hand and however many copies of the tool run.                      *)
THEOREM ReadyIsApprovedAlways == Spec => []ReadyIsApproved
<1>1. Init => Inv
      BY InitInv
<1>2. Inv /\ [Next]_vars => Inv'
      BY NextInv
<1>3. Inv => ReadyIsApproved
      BY ApprovedByInv
<1> QED BY <1>1, <1>2, <1>3, PTL DEF Spec
-----------------------------------------------------------------------------
(* Verification goes through every row once, in order.  First, what lists    *)
(* have in them when they are put together.                                   *)
LEMMA ConcatNil ==
    ASSUME NEW s, IsList(s)
    PROVE  s \o <<>> = s /\ <<>> \o s = s
<1> DEFINE U == ToSet(s)
<1>1. s \in Seq(U)
      BY DEF IsList
<1> HIDE DEF U
<1> QED BY <1>1

LEMMA ConcatAppend ==
    ASSUME NEW s, IsList(s), NEW t, IsList(t), NEW e
    PROVE  s \o Append(t, e) = Append(s \o t, e)
<1> DEFINE U == ToSet(s) \cup ToSet(t) \cup {e}
<1>1. s \in Seq(U) /\ t \in Seq(U) /\ e \in U
      BY ListsType
<1> HIDE DEF U
<1>2. Len(s) \in Nat /\ Len(t) \in Nat
      BY <1>1
<1> QED BY <1>1, <1>2

LEMMA One == \A e : IsList(<<e>>) /\ Append(<<>>, e) = <<e>> /\ Len(<<e>>) = 1
<1> SUFFICES ASSUME NEW e PROVE IsList(<<e>>) /\ Append(<<>>, e) = <<e>> /\ Len(<<e>>) = 1
    OBVIOUS
<1>1. ToSet(<<e>>) = {e}
      BY DEF ToSet
<1> QED BY <1>1 DEF IsList

LEMMA LongerList ==
    ASSUME NEW n \in Nat, NEW f, f = [i \in 1..(n + 1) |-> f[i]], NEW g, g = [i \in 1..n |-> f[i]]
    PROVE  f = Append(g, f[n + 1])
<1>1. IsList(f) /\ Len(f) = n + 1 
      BY ListOf
<1>2. g = [i \in 1..n |-> g[i]]
      OBVIOUS
<1>3. IsList(g) /\ Len(g) = n
      BY <1>2, ListOf
<1> DEFINE h == Append(g, f[n + 1])
<1>4. /\ IsList(h) /\ Len(h) = n + 1 /\ h[n + 1] = f[n + 1] /\ \A i \in 1..n : h[i] = g[i]
      BY <1>3, AppendList
<1>5. DOMAIN f = 1..(n + 1) /\ DOMAIN h = 1..(n + 1)
      BY <1>1, <1>4, ListsType
<1>6. \A i \in 1..(n + 1) : h[i] = f[i]
  <2> SUFFICES ASSUME NEW i \in 1..(n + 1) PROVE h[i] = f[i]
      OBVIOUS
  <2>1. i = n + 1 \/ i \in 1..n
        OBVIOUS
  <2> HIDE DEF h
  <2> QED BY <1>4, <2>1
<1>7. h = [i \in 1..(n + 1) |-> h[i]]
  <2>1. h \in Seq(ToSet(h))
        BY <1>4 DEF IsList
  <2> HIDE DEF h
  <2> QED BY <1>5, <2>1
<1> HIDE DEF h
<1> QED BY <1>6, <1>7 DEF h

LEMMA LeastIn ==
    ASSUME NEW m \in Nat, NEW T, T \subseteq 0..m, T # {}
    PROVE  \E x \in T : \A y \in T : x <= y
<1> DEFINE Q == {0..x : x \in T}
           S == 0..m
<1>0. IsFiniteSet(S)
  <2>1. 0 \in Int /\ m \in Int
        OBVIOUS
  <2> QED BY <2>1, FS_Interval
<1>1. Q \subseteq SUBSET S /\ Q # {} /\ IsFiniteSet(S)
  <2>1. \A x \in T : 0..x \subseteq S
        OBVIOUS
  <2> HIDE DEF S
  <2> QED BY <1>0, <2>1
<1> HIDE DEF S
<1>2. PICK B \in Q : \A C \in Q : C \subseteq B => C = B
  <2> HIDE DEF Q
  <2> QED BY <1>1, Smallest
<1>3. PICK x \in T : B = 0..x
      OBVIOUS
<1>4. ASSUME NEW y \in T PROVE x <= y
  <2>1. x \in Nat /\ y \in Nat
        OBVIOUS
  <2>2. CASE x <= y
        BY <2>2
  <2>3. CASE y <= x
    <3>1. 0..y \subseteq 0..x
          BY <2>1, <2>3
    <3>2. 0..y = 0..x
          BY <1>2, <1>3, <3>1
    <3>3. x \in 0..y
          BY <2>1, <3>2
    <3> QED BY <2>1, <3>3
  <2> QED BY <2>1, <2>2, <2>3
<1> QED BY <1>4

-----------------------------------------------------------------------------
(* FlattenSeq, by its equation. *)
Flat(s, n, f) == f = [i \in 1..n |-> IF i = 1 THEN s[i] ELSE f[i - 1] \o s[i]]

LEMMA FlatAt ==
    ASSUME NEW s, NEW n \in Nat, NEW f, Flat(s, n, f), NEW i \in 1..n
    PROVE  f[i] = IF i = 1 THEN s[i] ELSE f[i - 1] \o s[i]
BY DEF Flat

LEMMA FlatSame ==
    ASSUME NEW n \in Nat, NEW m \in Nat, n <= m, NEW s, NEW t, \A i \in 1..n : s[i] = t[i],
           NEW f, Flat(s, n, f), NEW g, Flat(t, m, g)
    PROVE  \A i \in 1..n : f[i] = g[i]
<1> DEFINE T == {i \in 1..n : f[i] # g[i]}
<1>1. SUFFICES ASSUME T # {} PROVE FALSE
      OBVIOUS
<1>2. T \subseteq 0..n
      OBVIOUS
<1>3. PICK i \in T : \A j \in T : i <= j
  <2> HIDE DEF T
  <2> QED BY <1>1, <1>2, LeastIn
<1>4. i \in 1..n /\ i \in 1..m /\ f[i] # g[i]
      OBVIOUS
<1>5. CASE i = 1
  <2>1. f[i] = s[i] /\ g[i] = t[i]
        BY <1>4, <1>5, FlatAt
  <2> QED BY <1>4, <2>1
<1>6. CASE i # 1
  <2>1. i - 1 \in 1..n /\ ~(i <= i - 1)
        BY <1>4, <1>6
  <2>2. f[i - 1] = g[i - 1]
        BY <1>3, <2>1
  <2>3. f[i] = IF i = 1 THEN s[i] ELSE f[i - 1] \o s[i]
        BY <1>4, FlatAt
  <2>4. g[i] = IF i = 1 THEN t[i] ELSE g[i - 1] \o t[i]
        BY <1>4, FlatAt
  <2>5. s[i] = t[i]
        BY <1>4
  <2> QED BY <1>4, <1>6, <2>2, <2>3, <2>4, <2>5
<1> QED BY <1>5, <1>6

LEMMA FlatExists ==
    ASSUME NEW m \in Nat, NEW s
    PROVE  \A n \in 0..m : \E f : Flat(s, n, f)
<1> DEFINE T == {n \in 0..m : ~\E f : Flat(s, n, f)}
<1>1. SUFFICES ASSUME T # {} PROVE FALSE
      OBVIOUS
<1>2. PICK n \in T : \A j \in T : n <= j
  <2>1. T \subseteq 0..m
        OBVIOUS
  <2> HIDE DEF T
  <2> QED BY <1>1, <2>1, LeastIn
<1>3. n \in 0..m /\ ~\E f : Flat(s, n, f)
      OBVIOUS
<1>4. CASE n = 0
  <2>1. 1..n = {}
        BY <1>4
  <2>2. Flat(s, n, [i \in 1..n |-> s[i]])
        BY <2>1 DEF Flat
  <2> QED BY <1>3, <2>2
<1>5. CASE n # 0
  <2>1. n - 1 \in 0..m /\ n - 1 \in Nat /\ ~(n <= n - 1)
        BY <1>3, <1>5
  <2>2. PICK f : Flat(s, n - 1, f)
        BY <1>2, <2>1
  <2> DEFINE g == [i \in 1..n |-> IF i = n THEN (IF n = 1 THEN s[n] ELSE f[n - 1] \o s[n]) ELSE f[i]]
  <2> HIDE DEF T
  <2>3. ASSUME NEW i \in 1..n PROVE g[i] = IF i = 1 THEN s[i] ELSE g[i - 1] \o s[i]
    <3>1. CASE i = n
      <4>1. CASE n = 1
            BY <3>1, <4>1
      <4>2. CASE n # 1
        <5>1. g[n - 1] = f[n - 1]
              BY <1>3, <1>5, <4>2
        <5>2. g[n] = f[n - 1] \o s[n]
              BY <3>1, <4>2
        <5> HIDE DEF g
        <5> QED BY <3>1, <4>2, <5>1, <5>2
      <4> QED BY <4>1, <4>2
    <3>2. CASE i # n
      <4>1. i \in 1..(n - 1)
            BY <1>3, <3>2
      <4>2. f[i] = IF i = 1 THEN s[i] ELSE f[i - 1] \o s[i]
            BY <2>1, <2>2, <4>1, FlatAt
      <4>3. g[i] = f[i]
            BY <3>2
      <4>4. i # 1 => g[i - 1] = f[i - 1]
            BY <1>3, <4>1
      <4> HIDE DEF g
      <4> QED BY <4>2, <4>3, <4>4
    <3> QED BY <3>1, <3>2
  <2>4. g = [i \in 1..n |-> g[i]]
        OBVIOUS
  <2> HIDE DEF g
  <2>5. Flat(s, n, g)
        BY <2>3, <2>4 DEF Flat
  <2> QED BY <1>3, <2>5
<1> QED BY <1>4, <1>5

LEMMA FlattenIs ==
    ASSUME NEW n \in Nat, n # 0, NEW s, s = [i \in 1..n |-> s[i]]
    PROVE  \E f : Flat(s, n, f) /\ FlattenSeq(s) = f[n]
<1>1. Len(s) = n
      BY ListOf
<1>2. \E f : Flat(s, n, f)
  <2>1. n \in 0..n
        OBVIOUS
  <2> QED BY <2>1, FlatExists
<1> DEFINE P(f) == f = [i \in 1..Len(s) |-> IF i = 1 THEN s[i] ELSE f[i - 1] \o s[i]]
<1>3. FlattenSeq(s) = (CHOOSE f : P(f))[Len(s)]
      BY Zenon, <1>1 DEF FlattenSeq
<1>4. ASSUME NEW f PROVE P(f) <=> Flat(s, n, f)
      BY <1>1 DEF Flat
<1> HIDE DEF P
<1>5. P(CHOOSE f : P(f))
      BY <1>2, <1>4
<1>6. Flat(s, n, CHOOSE f : P(f))
      BY <1>4, <1>5
<1> QED BY <1>1, <1>3, <1>6

LEMMA FlattenNone == FlattenSeq(<<>>) = <<>>
BY DEF FlattenSeq

LEMMA FlattenNext ==
    ASSUME NEW n \in Nat, NEW s, s = [i \in 1..(n + 1) |-> s[i]], NEW t, t = [i \in 1..n |-> s[i]],
           IsList(s[n + 1])
    PROVE  FlattenSeq(s) = FlattenSeq(t) \o s[n + 1]
<1>0. n + 1 \in Nat /\ n + 1 # 0
      OBVIOUS
<1>1. PICK f : Flat(s, n + 1, f) /\ FlattenSeq(s) = f[n + 1]
  <2> DEFINE m == n + 1
  <2>1. m \in Nat /\ m # 0 /\ s = [i \in 1..m |-> s[i]]
        OBVIOUS
  <2> HIDE DEF m
  <2>2. \E f : Flat(s, m, f) /\ FlattenSeq(s) = f[m]
        BY <2>1, FlattenIs
  <2> QED BY <2>2 DEF m
<1>2. f[n + 1] = IF n + 1 = 1 THEN s[n + 1] ELSE f[(n + 1) - 1] \o s[n + 1]
  <2>1. n + 1 \in 1..(n + 1) /\ n + 1 \in Nat
        OBVIOUS
  <2> QED BY <1>1, <2>1, FlatAt
<1>3. CASE n = 0
  <2>1. t = <<>>
        BY <1>3
  <2>2. FlattenSeq(t) = <<>>
        BY <2>1, FlattenNone
  <2>3. <<>> \o s[n + 1] = s[n + 1]
        BY ConcatNil
  <2>4. f[n + 1] = s[n + 1]
        BY <1>2, <1>3
  <2> QED BY <1>1, <2>2, <2>3, <2>4
<1>4. CASE n # 0
  <2>1. t = [i \in 1..n |-> t[i]]
        OBVIOUS
  <2>2. PICK g : Flat(t, n, g) /\ FlattenSeq(t) = g[n]
        BY <1>4, <2>1, FlattenIs
  <2>3. \A i \in 1..n : g[i] = f[i]
    <3> DEFINE m == n + 1
    <3>1. n <= m /\ m \in Nat /\ \A i \in 1..n : t[i] = s[i]
          OBVIOUS
    <3>2. Flat(t, n, g) /\ Flat(s, m, f)
          BY <1>1, <2>2
    <3> HIDE DEF m
    <3>3. \A i \in 1..n : g[i] = f[i]
          BY ONLY n \in Nat, <3>1, <3>2, FlatSame
    <3> QED BY <3>3
  <2>4. n \in 1..n /\ (n + 1) - 1 = n /\ n + 1 # 1
        BY <1>4
  <2> QED BY <1>1, <1>2, <2>2, <2>3, <2>4
<1> QED BY <1>3, <1>4

-----------------------------------------------------------------------------
(* Rows in order. *)
Below(S, x) == {s \in S : s.ord < x.ord}

At(S, j) == {r \in S : Cardinality(Below(S, r)) = j - 1}

LEMMA InOrderIs ==
    ASSUME NEW S
    PROVE  InOrder(S) = [j \in 1..Cardinality(S) |-> CHOOSE r \in At(S, j) : TRUE]
BY Zenon DEF InOrder, At, Below

LEMMA InOrderList ==
    ASSUME NEW S, IsFiniteSet(S)
    PROVE  IsList(InOrder(S)) /\ Len(InOrder(S)) = Cardinality(S)
<1> DEFINE l == Cardinality(S)
           f == InOrder(S)
<1>1. l \in Nat
      BY FS_CardinalityType
<1>2. f = [j \in 1..l |-> f[j]]
  <2>1. f = [j \in 1..l |-> CHOOSE r \in At(S, j) : TRUE]
        BY InOrderIs
  <2> HIDE DEF f, l
  <2> QED BY <2>1
<1> HIDE DEF f, l
<1> QED BY <1>1, <1>2, ListOf DEF f, l

LEMMA InOrderNone == InOrder({}) = <<>>
<1>1. Cardinality({}) = 0
      BY FS_EmptySet
<1>2. 1..0 = {}
      OBVIOUS
<1> DEFINE f == InOrder({})
<1>3. f = [j \in {} |-> f[j]]
      BY <1>1, <1>2 DEF InOrder
<1> HIDE DEF f
<1>4. f = [j \in 1..0 |-> f[j]]
      BY <1>2, <1>3
<1> QED BY <1>4 DEF f

LEMMA InOrderNext ==
    ASSUME NEW S, IsFiniteSet(S), NEW x, x.ord \in Nat, \A s \in S : s.ord \in Nat /\ s.ord < x.ord
    PROVE  InOrder(S \cup {x}) = Append(InOrder(S), x)
<1> DEFINE R == S \cup {x}
           l == Cardinality(S)
<1>1. x \notin S /\ ~(x.ord < x.ord)
      OBVIOUS
<1>2. l \in Nat /\ Cardinality(R) = l + 1
      BY <1>1, FS_CardinalityType, FS_AddElement
<1>3. Below(R, x) = S
      BY <1>1 DEF Below
<1>4. ASSUME NEW r \in S PROVE Below(R, r) = Below(S, r) /\ Cardinality(Below(S, r)) < l
                                 /\ Cardinality(Below(S, r)) \in Nat
  <2>1. ~(x.ord < r.ord) /\ ~(r.ord < r.ord)
        OBVIOUS
  <2>2. Below(R, r) = Below(S, r) /\ r \notin Below(S, r) /\ Below(S, r) \subseteq S
        BY <2>1 DEF Below
  <2> DEFINE T == Below(S, r)
  <2>3. T \subseteq S /\ T # S
        BY <2>2
  <2> HIDE DEF T
  <2>4. IsFiniteSet(T) /\ Cardinality(T) <= Cardinality(S) /\ Cardinality(T) # Cardinality(S)
        BY <2>3, FS_Subset
  <2>5. Cardinality(T) \in Nat
        BY <2>4, FS_CardinalityType
  <2> HIDE DEF l
  <2>6. Cardinality(T) < l
        BY <1>2, <2>4, <2>5 DEF l
  <2> QED BY <2>2, <2>5, <2>6 DEF T
<1>5. ASSUME NEW j \in 1..l PROVE At(R, j) = At(S, j)
  <2>1. ASSUME NEW r \in R PROVE r \in At(R, j) <=> r \in At(S, j)
    <3>1. CASE r \in S
      <4>1. Below(R, r) = Below(S, r)
            BY <1>4, <3>1
      <4> QED BY <3>1, <4>1 DEF At
    <3>2. CASE r \notin S
      <4>1. r = x /\ x \notin At(S, j)
            BY <3>2 DEF At
      <4>2. Cardinality(Below(R, x)) = l /\ ~(l = j - 1)
            BY <1>2, <1>3
      <4> HIDE DEF l
      <4> QED BY <4>1, <4>2 DEF At
    <3> QED BY <3>1, <3>2
  <2> QED BY <2>1 DEF At
<1>6. At(R, l + 1) = {x}
  <2>1. (l + 1) - 1 = l
        BY <1>2
  <2>2. Cardinality(Below(R, x)) = l
        BY <1>3
  <2>3. \A r \in S : Cardinality(Below(R, r)) # l
    <3> SUFFICES ASSUME NEW r \in S PROVE Cardinality(Below(R, r)) # l
        OBVIOUS
    <3> DEFINE c == Cardinality(Below(R, r))
    <3>1. c < l /\ c \in Nat
          BY <1>4
    <3> HIDE DEF c, l
    <3>2. c # l
          BY <1>2, <3>1
    <3> QED BY <3>2 DEF c
  <2> HIDE DEF l
  <2> QED BY <2>1, <2>2, <2>3 DEF At
<1> DEFINE f == InOrder(R)
           g == InOrder(S)
<1>7. f = [j \in 1..(l + 1) |-> CHOOSE r \in At(R, j) : TRUE]
      BY <1>2, InOrderIs
<1>8. f[l + 1] = x
  <2>1. l + 1 \in 1..(l + 1)
        BY <1>2
  <2>2. f[l + 1] = CHOOSE r \in At(R, l + 1) : TRUE
        BY <1>7, <2>1
  <2>3. f[l + 1] = CHOOSE r \in {x} : TRUE
        BY <1>6, <2>2
  <2> QED BY <2>3
<1>9. g = [j \in 1..l |-> f[j]]
  <2>1. g = [j \in 1..l |-> CHOOSE r \in At(S, j) : TRUE]
        BY InOrderIs
  <2>2. ASSUME NEW j \in 1..l PROVE f[j] = CHOOSE r \in At(S, j) : TRUE
    <3>1. j \in 1..(l + 1)
          BY <1>2
    <3>2. f[j] = CHOOSE r \in At(R, j) : TRUE
          BY <1>7, <3>1
    <3> QED BY <1>5, <3>2
  <2> HIDE DEF f, g
  <2> QED BY <2>1, <2>2
<1>10. f = [j \in 1..(l + 1) |-> f[j]]
      BY <1>7
<1> HIDE DEF f, g, l
<1>11. f = Append(g, f[l + 1])
      BY <1>2, <1>9, <1>10, LongerList
<1> QED BY <1>8, <1>11 DEF f, g

-----------------------------------------------------------------------------
(* The phases by their numbers. *)
LEMMA PhaseNumbers ==
    /\ PhaseNumber("components") = 1 /\ PhaseNumber("chunks") = 2 /\ PhaseNumber("cells") = 3
    /\ PhaseNumber("component-slots") = 4 /\ PhaseNumber("slots") = 5
    /\ PhaseNumber("component-resources") = 6 /\ PhaseNumber("resources") = 7
    /\ PhaseNumber("component-finalize") = 8 /\ PhaseNumber("complete") = 9
<1>1. Len(Phases) = 9
      BY DEF Phases
<1>2. ASSUME NEW i \in 1..9, NEW j \in 1..9, Phases[i] = Phases[j] PROVE i = j
  <2>1. i \in {1, 2, 3, 4, 5, 6, 7, 8, 9} /\ j \in {1, 2, 3, 4, 5, 6, 7, 8, 9}
        OBVIOUS
  <2> QED BY <1>2, <2>1 DEF Phases
<1>3. ASSUME NEW i \in 1..9 PROVE PhaseNumber(Phases[i]) = i
  <2> DEFINE P == Phases[i]
  <2>1. PhaseNumber(P) = CHOOSE j \in 1..9 : Phases[j] = P
        BY <1>1 DEF PhaseNumber
  <2>2. \A j \in 1..9 : Phases[j] = P <=> j = i
        BY <1>2
  <2> HIDE DEF P
  <2>3. (CHOOSE j \in 1..9 : Phases[j] = P) = i
        BY <2>2
  <2> QED BY <2>1, <2>3 DEF P
<1>4. /\ Phases[1] = "components" /\ Phases[2] = "chunks" /\ Phases[3] = "cells"
      /\ Phases[4] = "component-slots" /\ Phases[5] = "slots" /\ Phases[6] = "component-resources"
      /\ Phases[7] = "resources" /\ Phases[8] = "component-finalize" /\ Phases[9] = "complete"
      BY DEF Phases
<1> HIDE DEF Phases
<1>5. \A i \in 1..9 : PhaseNumber(Phases[i]) = i
      BY <1>3
<1>6. /\ PhaseNumber(Phases[1]) = 1 /\ PhaseNumber(Phases[2]) = 2 /\ PhaseNumber(Phases[3]) = 3
      /\ PhaseNumber(Phases[4]) = 4 /\ PhaseNumber(Phases[5]) = 5 /\ PhaseNumber(Phases[6]) = 6
      /\ PhaseNumber(Phases[7]) = 7 /\ PhaseNumber(Phases[8]) = 8 /\ PhaseNumber(Phases[9]) = 9
  <2> HIDE DEF PhaseNumber
  <2> QED BY <1>5
<1> HIDE DEF PhaseNumber
<1> QED BY <1>4, <1>6

LEMMA PhaseOf ==
    ASSUME NEW phase \in OpenPhases
    PROVE  /\ PhaseNumber(phase) \in 1..8 /\ Phases[PhaseNumber(phase)] = phase
           /\ PhaseNumber(NextPhase(phase)) = PhaseNumber(phase) + 1
           /\ NextPhase(phase) # phase
<1> DEFINE p == PhaseNumber(phase)
<1>1. p \in 1..8 /\ Phases[p] = phase
  <2> SUFFICES ASSUME NEW q, q = phase PROVE PhaseNumber(q) \in 1..8 /\ Phases[PhaseNumber(q)] = q
      OBVIOUS
  <2>1. q \in {"components", "chunks", "cells", "component-slots", "slots", "component-resources",
               "resources", "component-finalize"}
        BY DEF OpenPhases, Kinds, ComponentPhases
  <2> QED BY <2>1, PhaseNumbers DEF Phases
<1>2. NextPhase(phase) = Phases[1 + p]
      BY DEF NextPhase, PhaseNumber
<1> HIDE DEF p
<1>3. \A i \in 1..8 : PhaseNumber(Phases[1 + i]) = i + 1
  <2> SUFFICES ASSUME NEW i \in 1..8 PROVE PhaseNumber(Phases[1 + i]) = i + 1
      OBVIOUS
  <2>1. i \in {1, 2, 3, 4, 5, 6, 7, 8}
        OBVIOUS
  <2> QED BY <2>1, PhaseNumbers DEF Phases
<1>4. PhaseNumber(NextPhase(phase)) = p + 1
      BY <1>1, <1>2, <1>3
<1>5. p + 1 # p
      BY <1>1
<1>6. NextPhase(phase) # phase
      BY <1>4, <1>5 DEF p
<1> QED BY <1>1, <1>4, <1>6 DEF p

-----------------------------------------------------------------------------
(* What verification needs of the tables, and what is true of a release at a  *)
(* row of a phase.                                                            *)
KeysDiffer(d) ==
    \A i, j \in 1..Len(d.components) : d.components[i].row.key = d.components[j].row.key => i = j

RowsDiffer(d) ==
    \A k \in Kinds :
       /\ \A r \in d.rows[k] : r.ord \in Nat /\ r.ord < d.release.total[k]
       /\ \A r, s \in d.rows[k] : r.ord = s.ord => r = s

Fresh(d) == \A i \in 1..Len(d.components) : d.components[i].digest = <<d.components[i].row.key>>

DigestsAt(d, list, phase, n) ==
    \A i \in 1..Len(d.components) : list[i].digest = ComponentDigest(d, i, phase, n)

Followed(d) ==
    LET r == d.release
    IN  /\ r.cursor <= r.total[TableOf(r.phase)]
        /\ r.digest = DigestAt(d, r.phase, r.cursor)
        /\ r.counted = CountsAt(d, r.phase, r.cursor)
        /\ DigestsAt(d, d.components, r.phase, r.cursor)

FollowInv(d) ==
    /\ KeysDiffer(d)
    /\ d.release.state # "absent" => RowsDiffer(d)
    /\ d.release.state \in {"absent", "importing"} => Fresh(d)
    /\ d.release.state = "importing" =>
          d.release.cursor = 0 /\ d.release.counted = [g \in DOMAIN d.release.counted |-> NoRows]
    /\ d.release.state \in {"verifying", "ready"} => Followed(d)

LEMMA RowsFinite ==
    ASSUME NEW d, RowsDiffer(d), NEW k \in Kinds, d.release.total[k] \in Nat
    PROVE  IsFiniteSet(d.rows[k])
<1> DEFINE S == d.rows[k]
           t == d.release.total[k]
           f == [r \in S |-> r.ord]
<1>1. /\ t \in Nat /\ \A r \in S : r.ord \in Nat /\ r.ord < t
      /\ \A r, s \in S : r.ord = s.ord => r = s
      BY DEF RowsDiffer
<1> HIDE DEF S, t
<1>2. f \in Injection(S, 0..t)
      BY <1>1 DEF Injection, IsInjective
<1>3. IsFiniteSet(0..t)
  <2>1. 0 \in Int /\ t \in Int
        BY <1>1
  <2> QED BY <2>1, FS_Interval
<1> HIDE DEF f
<1>4. IsFiniteSet(S)
      BY <1>2, <1>3, FS_Injection
<1> QED BY <1>4 DEF S

LEMMA GoneFinite ==
    ASSUME NEW d, NEW k, IsFiniteSet(d.rows[k]), NEW phase, NEW n, NEW S, S \subseteq Gone(d, k, phase, n)
    PROVE  IsFiniteSet(S) /\ Cardinality(S) \in Nat
<1>1. S \subseteq d.rows[k]
      BY DEF Gone
<1>2. IsFiniteSet(S)
      BY <1>1, FS_Subset
<1> QED BY <1>2, FS_CardinalityType

(* Before its phase, none of the rows of a kind is gone through. *)
LEMMA GoneBefore ==
    ASSUME NEW d, NEW k \in Kinds, NEW phase \in OpenPhases, NEW n,
           ~(PhaseNumber(k) <= PhaseNumber(phase))
    PROVE  Gone(d, k, phase, n) = {}
<1>1. PhaseNumber(k) \in Nat /\ PhaseNumber(phase) \in Nat
      BY PhaseOf DEF OpenPhases
<1>2. k # phase
      BY <1>1
<1> HIDE DEF PhaseNumber
<1>3. ~(PhaseNumber(k) < PhaseNumber(phase))
      BY <1>1
<1> QED BY <1>2, <1>3 DEF Gone

LEMMA GoneSame ==
    ASSUME NEW d, NEW k, NEW phase, k # phase, NEW n, NEW m
    PROVE  Gone(d, k, phase, n) = Gone(d, k, phase, m)
BY DEF Gone

LEMMA GoneNext ==
    ASSUME NEW d, RowsDiffer(d), NEW k \in Kinds, NEW n \in Nat, NEW r \in d.rows[k], r.ord = n
    PROVE  /\ Gone(d, k, k, n + 1) = Gone(d, k, k, n) \cup {r} /\ r \notin Gone(d, k, k, n)
           /\ \A x \in Gone(d, k, k, n) : x.ord \in Nat /\ x.ord < r.ord
<1> DEFINE S == d.rows[k]
           p == PhaseNumber(k)
<1>1. /\ \A x \in S : x.ord \in Nat
      /\ \A x, y \in S : x.ord = y.ord => x = y
      BY DEF RowsDiffer
<1>2. p \in Nat
      BY PhaseOf DEF OpenPhases
<1>3. ~(p < p)
      BY <1>2
<1>4. \A m : Gone(d, k, k, m) = {x \in S : x.ord < m}
  <2> HIDE DEF p
  <2> QED BY <1>3 DEF Gone, p
<1> HIDE DEF S
<1>5. r \in S
      BY DEF S
<1>6. ASSUME NEW x \in S PROVE (x.ord < n + 1 <=> (x.ord < n \/ x = r)) /\ ~(r.ord < n)
  <2>1. x.ord \in Nat /\ (x.ord = r.ord <=> x = r)
        BY <1>1, <1>5
  <2> QED BY <2>1
<1> QED BY <1>1, <1>4, <1>5, <1>6

-----------------------------------------------------------------------------
(* A component's digest is put together from five parts; it grows at the last *)
(* part that is not empty.                                                    *)
Nested(g, s, t, u, v, w) == <<g>> \o s \o t \o u \o v \o w

LEMMA Grows ==
    ASSUME NEW s, IsList(s), NEW t, IsList(t), NEW e
    PROVE  /\ IsList(s \o t) /\ s \o Append(t, e) = Append(s \o t, e)
           /\ (s \o t) \o <<>> = s \o t
           /\ Append(s \o t, e) \o <<>> = Append(s \o t, e)
<1> DEFINE u == s \o t
<1>1. IsList(u) /\ s \o Append(t, e) = Append(u, e)
      BY ConcatAppend, ConcatList
<1> HIDE DEF u
<1>2. IsList(Append(u, e))
      BY <1>1, AppendList
<1>3. u \o <<>> = u
      BY <1>1, ConcatNil
<1>4. Append(u, e) \o <<>> = Append(u, e)
      BY <1>2, ConcatNil
<1> QED BY <1>1, <1>3, <1>4 DEF u

LEMMA GrowCells ==
    ASSUME NEW g, NEW s, IsList(s),
           NEW e
    PROVE  Nested(g, Append(s, e), <<>>, <<>>, <<>>, <<>>) = Append(Nested(g, s, <<>>, <<>>, <<>>, <<>>), e)
<1> DEFINE p0 == <<g>>
           p1 == p0 \o s
<1>1. IsList(p0)
      BY One
<1> HIDE DEF p0
<1>2. /\ p0 \o Append(s, e) = Append(p1, e)
      /\ p1 \o <<>> = p1 /\ Append(p1, e) \o <<>> = Append(p1, e)
      BY <1>1, Grows
<1> QED BY Zenon, <1>2 DEF Nested, p0, p1

LEMMA GrowSlotMark ==
    ASSUME NEW g, NEW s, IsList(s), NEW t, IsList(t),
           NEW e
    PROVE  Nested(g, s, Append(t, e), <<>>, <<>>, <<>>) = Append(Nested(g, s, t, <<>>, <<>>, <<>>), e)
<1> DEFINE p0 == <<g>>
           p1 == p0 \o s
           p2 == p1 \o t
<1>1. IsList(p0)
      BY One
<1> HIDE DEF p0
<1>2. IsList(p1)
      BY <1>1, Grows
<1> HIDE DEF p1
<1>3. /\ p1 \o Append(t, e) = Append(p2, e)
      /\ p2 \o <<>> = p2 /\ Append(p2, e) \o <<>> = Append(p2, e)
      BY <1>2, Grows
<1> QED BY Zenon, <1>3 DEF Nested, p0, p1, p2

LEMMA GrowSlots ==
    ASSUME NEW g, NEW s, IsList(s), NEW t, IsList(t), NEW u, IsList(u),
           NEW e
    PROVE  Nested(g, s, t, Append(u, e), <<>>, <<>>) = Append(Nested(g, s, t, u, <<>>, <<>>), e)
<1> DEFINE p0 == <<g>>
           p1 == p0 \o s
           p2 == p1 \o t
           p3 == p2 \o u
<1>1. IsList(p0)
      BY One
<1> HIDE DEF p0
<1>2. IsList(p1)
      BY <1>1, Grows
<1> HIDE DEF p1
<1>3. IsList(p2)
      BY <1>2, Grows
<1> HIDE DEF p2
<1>4. /\ p2 \o Append(u, e) = Append(p3, e)
      /\ p3 \o <<>> = p3 /\ Append(p3, e) \o <<>> = Append(p3, e)
      BY <1>3, Grows
<1> QED BY Zenon, <1>4 DEF Nested, p0, p1, p2, p3

LEMMA GrowResourceMark ==
    ASSUME NEW g, NEW s, IsList(s), NEW t, IsList(t), NEW u, IsList(u), NEW v, IsList(v),
           NEW e
    PROVE  Nested(g, s, t, u, Append(v, e), <<>>) = Append(Nested(g, s, t, u, v, <<>>), e)
<1> DEFINE p0 == <<g>>
           p1 == p0 \o s
           p2 == p1 \o t
           p3 == p2 \o u
           p4 == p3 \o v
<1>1. IsList(p0)
      BY One
<1> HIDE DEF p0
<1>2. IsList(p1)
      BY <1>1, Grows
<1> HIDE DEF p1
<1>3. IsList(p2)
      BY <1>2, Grows
<1> HIDE DEF p2
<1>4. IsList(p3)
      BY <1>3, Grows
<1> HIDE DEF p3
<1>5. /\ p3 \o Append(v, e) = Append(p4, e)
      /\ p4 \o <<>> = p4 /\ Append(p4, e) \o <<>> = Append(p4, e)
      BY <1>4, Grows
<1> QED BY Zenon, <1>5 DEF Nested, p0, p1, p2, p3, p4

LEMMA GrowResources ==
    ASSUME NEW g, NEW s, IsList(s), NEW t, IsList(t), NEW u, IsList(u), NEW v, IsList(v), NEW w, IsList(w),
           NEW e
    PROVE  Nested(g, s, t, u, v, Append(w, e)) = Append(Nested(g, s, t, u, v, w), e)
<1> DEFINE p0 == <<g>>
           p1 == p0 \o s
           p2 == p1 \o t
           p3 == p2 \o u
           p4 == p3 \o v
           p5 == p4 \o w
<1>1. IsList(p0)
      BY One
<1> HIDE DEF p0
<1>2. IsList(p1)
      BY <1>1, Grows
<1> HIDE DEF p1
<1>3. IsList(p2)
      BY <1>2, Grows
<1> HIDE DEF p2
<1>4. IsList(p3)
      BY <1>3, Grows
<1> HIDE DEF p3
<1>5. IsList(p4)
      BY <1>4, Grows
<1> HIDE DEF p4
<1>6. /\ p4 \o Append(w, e) = Append(p5, e)
      /\ p5 \o <<>> = p5 /\ Append(p5, e) \o <<>> = Append(p5, e)
      BY <1>5, Grows
<1> QED BY Zenon, <1>6 DEF Nested, p0, p1, p2, p3, p4, p5

OwnRows(d, i, k, phase, n) == {x \in Gone(d, k, phase, n) : x.component = Manifest(d)[i].key}

Marked(i, at, m, phase, n) ==
    IF PhaseNumber(at) < PhaseNumber(phase) \/ (at = phase /\ i <= n) THEN <<m>> ELSE <<>>

LEMMA DigestParts ==
    ASSUME NEW d, NEW i, NEW phase, NEW n
    PROVE  ComponentDigest(d, i, phase, n) =
             Nested(Manifest(d)[i].key, InOrder(OwnRows(d, i, "cells", phase, n)),
                    Marked(i, "component-slots", "slots", phase, n),
                    InOrder(OwnRows(d, i, "slots", phase, n)),
                    Marked(i, "component-resources", "resources", phase, n),
                    InOrder(OwnRows(d, i, "resources", phase, n)))
BY Zenon DEF ComponentDigest, Nested, OwnRows, Marked

LEMMA MarkedList ==
    ASSUME NEW i, NEW at, NEW m, NEW phase, NEW n
    PROVE  IsList(Marked(i, at, m, phase, n))
BY One, EmptyList DEF Marked

LEMMA OwnList ==
    ASSUME NEW d, RowsDiffer(d), NEW k \in Kinds, d.release.total[k] \in Nat, NEW i, NEW phase, NEW n
    PROVE  IsList(InOrder(OwnRows(d, i, k, phase, n))) /\ IsFiniteSet(OwnRows(d, i, k, phase, n))
<1>1. OwnRows(d, i, k, phase, n) \subseteq Gone(d, k, phase, n)
      BY DEF OwnRows
<1>2. IsFiniteSet(OwnRows(d, i, k, phase, n))
      BY <1>1, RowsFinite, GoneFinite
<1> QED BY <1>2, InOrderList

LEMMA OwnBefore ==
    ASSUME NEW d, NEW k \in Kinds, NEW phase \in OpenPhases, NEW n,
           ~(PhaseNumber(k) <= PhaseNumber(phase)), NEW i
    PROVE  InOrder(OwnRows(d, i, k, phase, n)) = <<>>
<1>1. OwnRows(d, i, k, phase, n) = {}
      BY GoneBefore DEF OwnRows
<1> QED BY <1>1, InOrderNone

LEMMA MarkedBefore ==
    ASSUME NEW at \in OpenPhases, NEW phase \in OpenPhases, NEW n, NEW i, NEW m,
           ~(PhaseNumber(at) <= PhaseNumber(phase))
    PROVE  Marked(i, at, m, phase, n) = <<>>
<1>1. PhaseNumber(at) \in Nat /\ PhaseNumber(phase) \in Nat
      BY PhaseOf
<1>2. at # phase /\ ~(PhaseNumber(at) < PhaseNumber(phase))
      BY <1>1
<1> QED BY <1>2 DEF Marked

LEMMA OwnNext ==
    ASSUME NEW d, RowsDiffer(d), NEW k \in Kinds, d.release.total[k] \in Nat, NEW n \in Nat,
           NEW r \in d.rows[k], r.ord = n, NEW i
    PROVE  InOrder(OwnRows(d, i, k, k, n + 1)) =
             IF r.component = Manifest(d)[i].key THEN Append(InOrder(OwnRows(d, i, k, k, n)), r)
             ELSE InOrder(OwnRows(d, i, k, k, n))
<1> DEFINE S == OwnRows(d, i, k, k, n)
<1>1. /\ Gone(d, k, k, n + 1) = Gone(d, k, k, n) \cup {r} /\ r \notin Gone(d, k, k, n)
      /\ \A x \in Gone(d, k, k, n) : x.ord \in Nat /\ x.ord < r.ord
      BY GoneNext
<1>2. CASE r.component = Manifest(d)[i].key
  <2>1. OwnRows(d, i, k, k, n + 1) = S \cup {r} /\ \A x \in S : x.ord \in Nat /\ x.ord < r.ord
        BY <1>1, <1>2 DEF OwnRows
  <2>2. IsFiniteSet(S)
        BY OwnList
  <2> HIDE DEF S
  <2>3. InOrder(S \cup {r}) = Append(InOrder(S), r)
        BY <2>1, <2>2, InOrderNext
  <2> QED BY <1>2, <2>1, <2>3 DEF S
<1>3. CASE r.component # Manifest(d)[i].key
  <2>1. OwnRows(d, i, k, k, n + 1) = S
        BY <1>1, <1>3 DEF OwnRows
  <2> QED BY <1>3, <2>1
<1> QED BY <1>2, <1>3

-----------------------------------------------------------------------------
(* How a component's digest moves with the rows. *)
TotalsOk(d) == \A k \in Kinds : d.release.total[k] \in Nat

LEMMA KindList == "cells" \in Kinds /\ "slots" \in Kinds /\ "resources" \in Kinds
BY DEF Kinds

LEMMA MarkedSame ==
    ASSUME NEW at, NEW phase, at # phase, NEW n, NEW l, NEW i, NEW m
    PROVE  Marked(i, at, m, phase, n) = Marked(i, at, m, phase, l)
BY DEF Marked

LEMMA OwnSame ==
    ASSUME NEW d, NEW k, NEW phase, k # phase, NEW n, NEW l, NEW i
    PROVE  OwnRows(d, i, k, phase, n) = OwnRows(d, i, k, phase, l)
BY GoneSame DEF OwnRows

LEMMA RowDigest ==
    ASSUME NEW d, RowsDiffer(d), TotalsOk(d), NEW k \in Kinds, NEW n \in Nat,
           NEW r \in d.rows[k], r.ord = n, NEW i
    PROVE  ComponentDigest(d, i, k, n + 1) =
             IF r.component = Manifest(d)[i].key THEN Append(ComponentDigest(d, i, k, n), r)
             ELSE ComponentDigest(d, i, k, n)
<1> DEFINE g == Manifest(d)[i].key
           own(h, m) == InOrder(OwnRows(d, i, h, k, m))
           ms(m) == Marked(i, "component-slots", "slots", k, m)
           mr(m) == Marked(i, "component-resources", "resources", k, m)
           digest(m) == Nested(g, own("cells", m), ms(m), own("slots", m), mr(m), own("resources", m))
<1>1. \A m : ComponentDigest(d, i, k, m) = digest(m)
      BY DigestParts
<1>2. \A h \in Kinds : \A m : IsList(own(h, m))
      BY OwnList DEF TotalsOk
<1>3. \A m : IsList(ms(m)) /\ IsList(mr(m))
      BY MarkedList
<1>4. \A h : h # k => own(h, n + 1) = own(h, n)
      BY OwnSame
<1>5. ms(n + 1) = ms(n) /\ mr(n + 1) = mr(n)
  <2>1. k # "component-slots" /\ k # "component-resources"
        BY DEF Kinds
  <2> QED BY <2>1, MarkedSame
<1>6. own(k, n + 1) = IF r.component = g THEN Append(own(k, n), r) ELSE own(k, n)
      BY OwnNext DEF TotalsOk
<1>7. k \in OpenPhases /\ "component-slots" \in OpenPhases /\ "component-resources" \in OpenPhases
      BY DEF OpenPhases, ComponentPhases
<1>8. \A h \in Kinds : ~(PhaseNumber(h) <= PhaseNumber(k)) => \A m : own(h, m) = <<>>
      BY <1>7, OwnBefore
<1>9. \A m : /\ ~(PhaseNumber("component-slots") <= PhaseNumber(k)) => ms(m) = <<>>
             /\ ~(PhaseNumber("component-resources") <= PhaseNumber(k)) => mr(m) = <<>>
      BY <1>7, MarkedBefore
<1> HIDE DEF own, ms, mr, g
<1>10. CASE r.component = g
  <2>1. own(k, n + 1) = Append(own(k, n), r)
        BY <1>6, <1>10
  <2>2. digest(n + 1) = Append(digest(n), r)
    <3>1. CASE k = "cells"
      <4>1. /\ ~(PhaseNumber("slots") <= PhaseNumber(k)) /\ ~(PhaseNumber("resources") <= PhaseNumber(k))
            /\ ~(PhaseNumber("component-slots") <= PhaseNumber(k))
            /\ ~(PhaseNumber("component-resources") <= PhaseNumber(k))
            BY <3>1, PhaseNumbers
      <4>2. \A m : own("slots", m) = <<>> /\ own("resources", m) = <<>> /\ ms(m) = <<>> /\ mr(m) = <<>>
            BY <1>8, <1>9, <4>1, KindList
      <4>3. \A m : digest(m) = Nested(g, own("cells", m), <<>>, <<>>, <<>>, <<>>)
            BY <4>2
      <4>4. IsList(own("cells", n)) /\ own("cells", n + 1) = Append(own("cells", n), r)
            BY <1>2, <2>1, <3>1, KindList
      <4>5. Nested(g, Append(own("cells", n), r), <<>>, <<>>, <<>>, <<>>)
              = Append(Nested(g, own("cells", n), <<>>, <<>>, <<>>, <<>>), r)
            BY <4>4, GrowCells
      <4> HIDE DEF digest
      <4> QED BY <4>3, <4>4, <4>5
    <3>2. CASE k = "slots"
      <4>1. /\ ~(PhaseNumber("resources") <= PhaseNumber(k))
            /\ ~(PhaseNumber("component-resources") <= PhaseNumber(k))
            BY <3>2, PhaseNumbers
      <4>2. \A m : own("resources", m) = <<>> /\ mr(m) = <<>>
            BY <1>8, <1>9, <4>1, KindList
      <4>3. \A m : digest(m) = Nested(g, own("cells", m), ms(m), own("slots", m), <<>>, <<>>)
            BY <4>2
      <4>4. /\ own("cells", n + 1) = own("cells", n) /\ IsList(own("cells", n)) /\ IsList(ms(n))
            /\ IsList(own("slots", n)) /\ own("slots", n + 1) = Append(own("slots", n), r)
            BY <1>2, <1>3, <1>4, <2>1, <3>2, KindList
      <4>5. Nested(g, own("cells", n), ms(n), Append(own("slots", n), r), <<>>, <<>>)
              = Append(Nested(g, own("cells", n), ms(n), own("slots", n), <<>>, <<>>), r)
            BY <4>4, GrowSlots
      <4> HIDE DEF digest
      <4> QED BY <1>5, <4>3, <4>4, <4>5
    <3>3. CASE k = "resources"
      <4>1. /\ own("cells", n + 1) = own("cells", n) /\ own("slots", n + 1) = own("slots", n)
            /\ own("resources", n + 1) = Append(own("resources", n), r)
            BY <1>4, <2>1, <3>3
      <4>2. /\ IsList(own("cells", n)) /\ IsList(own("slots", n)) /\ IsList(own("resources", n))
            /\ IsList(ms(n)) /\ IsList(mr(n))
            BY <1>2, <1>3, KindList
      <4>3. Nested(g, own("cells", n), ms(n), own("slots", n), mr(n), Append(own("resources", n), r))
              = Append(Nested(g, own("cells", n), ms(n), own("slots", n), mr(n), own("resources", n)), r)
            BY <4>2, GrowResources
      <4> QED BY <1>5, <4>1, <4>3
    <3> QED BY <3>1, <3>2, <3>3 DEF Kinds
  <2> HIDE DEF digest
  <2> QED BY <1>1, <1>10, <2>2 DEF g
<1>11. CASE r.component # g
  <2>1. \A h : own(h, n + 1) = own(h, n)
        BY <1>4, <1>6, <1>11
  <2>2. digest(n + 1) = digest(n)
        BY <1>5, <2>1
  <2> HIDE DEF digest
  <2> QED BY <1>1, <1>11, <2>2 DEF g
<1> QED BY <1>10, <1>11

LEMMA ChunkDigest ==
    ASSUME NEW d, NEW n, NEW l, NEW i
    PROVE  ComponentDigest(d, i, "chunks", n) = ComponentDigest(d, i, "chunks", l)
<1>1. \A k \in Kinds : OwnRows(d, i, k, "chunks", n) = OwnRows(d, i, k, "chunks", l)
  <2>1. \A k \in Kinds : k # "chunks"
        BY DEF Kinds
  <2> QED BY <2>1, OwnSame
<1>2. \A at \in {"component-slots", "component-resources"} : \A m :
         Marked(i, at, m, "chunks", n) = Marked(i, at, m, "chunks", l)
      BY MarkedSame
<1> QED BY <1>1, <1>2, KindList, DigestParts

(* What a component's step adds to its digest. *)
Step(phase, s) ==
    IF phase = "component-slots" THEN Append(s, "slots")
    ELSE IF phase = "component-resources" THEN Append(s, "resources") ELSE s

LEMMA StepDigest ==
    ASSUME NEW d, RowsDiffer(d), TotalsOk(d), NEW phase \in ComponentPhases, NEW n \in Nat, NEW i \in Nat
    PROVE  ComponentDigest(d, i, phase, n + 1) =
             IF i = n + 1 THEN Step(phase, ComponentDigest(d, i, phase, n))
             ELSE ComponentDigest(d, i, phase, n)
<1> DEFINE g == Manifest(d)[i].key
           own(h, m) == InOrder(OwnRows(d, i, h, phase, m))
           ms(m) == Marked(i, "component-slots", "slots", phase, m)
           mr(m) == Marked(i, "component-resources", "resources", phase, m)
           digest(m) == Nested(g, own("cells", m), ms(m), own("slots", m), mr(m), own("resources", m))
           p == PhaseNumber(phase)
<1>1. \A m : ComponentDigest(d, i, phase, m) = digest(m)
      BY DigestParts
<1>2. \A h \in Kinds : \A m : IsList(own(h, m))
      BY OwnList DEF TotalsOk
<1>3. \A m : IsList(ms(m)) /\ IsList(mr(m))
      BY MarkedList
<1>4. \A h \in Kinds : own(h, n + 1) = own(h, n)
  <2>1. \A h \in Kinds : h # phase
        BY DEF Kinds, ComponentPhases
  <2> QED BY <2>1, OwnSame
<1>5. phase \in OpenPhases /\ "component-resources" \in OpenPhases
      BY DEF OpenPhases, ComponentPhases
<1>6. \A h \in Kinds : ~(PhaseNumber(h) <= p) => \A m : own(h, m) = <<>>
      BY <1>5, OwnBefore
<1>7. /\ phase # "component-slots" => ms(n + 1) = ms(n)
      /\ phase # "component-resources" => mr(n + 1) = mr(n)
      BY MarkedSame
<1>8. ~(p < p) /\ (i <= n + 1 <=> (i <= n \/ i = n + 1)) /\ ~(n + 1 <= n)
  <2>1. p \in Nat
        BY <1>5, PhaseOf
  <2> HIDE DEF p
  <2> QED BY <2>1
<1>9. CASE i # n + 1
  <2>1. ms(n + 1) = ms(n) /\ mr(n + 1) = mr(n)
    <3> HIDE DEF p
    <3> QED BY <1>8, <1>9 DEF Marked
  <2> HIDE DEF own, ms, mr, g
  <2>2. digest(n + 1) = digest(n)
        BY <1>4, <2>1, KindList
  <2> HIDE DEF digest
  <2> QED BY <1>1, <1>9, <2>2
<1>10. CASE i = n + 1 /\ phase = "component-slots"
  <2>1. ms(n) = <<>> /\ ms(n + 1) = <<"slots">>
    <3>1. PhaseNumber("component-slots") = p
          BY <1>10
    <3> HIDE DEF p
    <3> QED BY <1>8, <1>10, <3>1 DEF Marked
  <2>2. ms(n + 1) = Append(ms(n), "slots")
        BY <2>1, One
  <2>3. /\ ~(PhaseNumber("slots") <= p) /\ ~(PhaseNumber("resources") <= p)
        /\ ~(PhaseNumber("component-resources") <= p)
        BY <1>10, PhaseNumbers
  <2>4. \A m : mr(m) = <<>>
        BY <1>5, <2>3, MarkedBefore
  <2> HIDE DEF own, ms, mr, g, p
  <2>5. \A m : own("slots", m) = <<>> /\ own("resources", m) = <<>>
        BY <1>6, <2>3, KindList
  <2>6. \A m : digest(m) = Nested(g, own("cells", m), ms(m), <<>>, <<>>, <<>>)
        BY <2>4, <2>5
  <2> HIDE DEF digest
  <2>7. IsList(own("cells", n)) /\ IsList(ms(n)) /\ own("cells", n + 1) = own("cells", n)
        BY <1>2, <1>3, <1>4, KindList
  <2>8. Nested(g, own("cells", n), Append(ms(n), "slots"), <<>>, <<>>, <<>>)
          = Append(Nested(g, own("cells", n), ms(n), <<>>, <<>>, <<>>), "slots")
        BY <2>7, GrowSlotMark
  <2>9. digest(n + 1) = Append(digest(n), "slots")
        BY <2>2, <2>6, <2>7, <2>8
  <2> QED BY <1>1, <1>10, <2>9 DEF Step
<1>11. CASE i = n + 1 /\ phase = "component-resources"
  <2>1. mr(n) = <<>> /\ mr(n + 1) = <<"resources">>
    <3>1. PhaseNumber("component-resources") = p
          BY <1>11
    <3> HIDE DEF p
    <3> QED BY <1>8, <1>11, <3>1 DEF Marked
  <2>2. mr(n + 1) = Append(mr(n), "resources")
        BY <2>1, One
  <2>3. ~(PhaseNumber("resources") <= p)
        BY <1>11, PhaseNumbers
  <2>4. ms(n + 1) = ms(n)
        BY <1>7, <1>11
  <2> HIDE DEF own, ms, mr, g, p
  <2>5. \A m : own("resources", m) = <<>>
        BY <1>6, <2>3, KindList
  <2>6. \A m : digest(m) = Nested(g, own("cells", m), ms(m), own("slots", m), mr(m), <<>>)
        BY <2>5
  <2> HIDE DEF digest
  <2>7. /\ IsList(own("cells", n)) /\ IsList(ms(n)) /\ own("cells", n + 1) = own("cells", n)
        /\ IsList(own("slots", n)) /\ IsList(mr(n)) /\ own("slots", n + 1) = own("slots", n)
        BY <1>2, <1>3, <1>4, KindList
  <2>8. Nested(g, own("cells", n), ms(n), own("slots", n), Append(mr(n), "resources"), <<>>)
          = Append(Nested(g, own("cells", n), ms(n), own("slots", n), mr(n), <<>>), "resources")
        BY <2>7, GrowResourceMark
  <2>9. digest(n + 1) = Append(digest(n), "resources")
        BY <2>2, <2>4, <2>6, <2>7, <2>8
  <2> QED BY <1>1, <1>11, <2>9 DEF Step
<1>12. CASE i = n + 1 /\ phase \notin {"component-slots", "component-resources"}
  <2>1. ms(n + 1) = ms(n) /\ mr(n + 1) = mr(n)
        BY <1>7, <1>12
  <2> HIDE DEF own, ms, mr, g
  <2>2. digest(n + 1) = digest(n)
        BY <1>4, <2>1, KindList
  <2> HIDE DEF digest
  <2> QED BY <1>1, <1>12, <2>2 DEF Step
<1> QED BY <1>9, <1>10, <1>11, <1>12

-----------------------------------------------------------------------------
(* Where the verification starts. *)
LEMMA DigestStarts ==
    ASSUME NEW d, NEW i
    PROVE  ComponentDigest(d, i, "components", 0) = <<Manifest(d)[i].key>>
<1> DEFINE phase == "components"
           g == Manifest(d)[i].key
           p == <<g>>
<1>1. phase \in OpenPhases /\ "component-slots" \in OpenPhases /\ "component-resources" \in OpenPhases
      BY DEF OpenPhases, ComponentPhases
<1>2. /\ \A k \in Kinds : ~(PhaseNumber(k) <= PhaseNumber(phase))
      /\ ~(PhaseNumber("component-slots") <= PhaseNumber(phase))
      /\ ~(PhaseNumber("component-resources") <= PhaseNumber(phase))
      BY PhaseNumbers DEF Kinds
<1>3. \A k \in Kinds : InOrder(OwnRows(d, i, k, phase, 0)) = <<>>
  <2> HIDE DEF phase
  <2> QED BY <1>1, <1>2, OwnBefore
<1>4. /\ Marked(i, "component-slots", "slots", phase, 0) = <<>>
      /\ Marked(i, "component-resources", "resources", phase, 0) = <<>>
  <2> HIDE DEF phase
  <2> QED BY <1>1, <1>2, MarkedBefore
<1>5. ComponentDigest(d, i, phase, 0) = Nested(g, <<>>, <<>>, <<>>, <<>>, <<>>)
  <2> HIDE DEF phase
  <2> QED BY <1>3, <1>4, KindList, DigestParts
<1>6. p \o <<>> = p
      BY One, ConcatNil
<1>7. Nested(g, <<>>, <<>>, <<>>, <<>>, <<>>) = p \o <<>> \o <<>> \o <<>> \o <<>> \o <<>>
      BY Zenon DEF Nested
<1> HIDE DEF p
<1>8. Nested(g, <<>>, <<>>, <<>>, <<>>, <<>>) = p
      BY Zenon, <1>6, <1>7
<1> QED BY <1>5, <1>8 DEF p

LEMMA CountsStart ==
    ASSUME NEW d
    PROVE  CountsAt(d, "components", 0) = [g \in DOMAIN d.release.counted |-> NoRows]
<1>1. \A k \in Kinds : Gone(d, k, "components", 0) = {}
  <2>1. "components" \in OpenPhases
        BY DEF OpenPhases, ComponentPhases
  <2>2. \A k \in Kinds : ~(PhaseNumber(k) <= PhaseNumber("components"))
        BY PhaseNumbers DEF Kinds
  <2> QED BY <2>1, <2>2, GoneBefore
<1>2. Cardinality({}) = 0
      BY FS_EmptySet
<1>3. \A k \in Kinds : \A g : Cardinality({x \in Gone(d, k, "components", 0) : x.region = g}) = 0
  <2> SUFFICES ASSUME NEW k \in Kinds, NEW g
               PROVE  Cardinality({x \in Gone(d, k, "components", 0) : x.region = g}) = 0
      OBVIOUS
  <2>1. {x \in Gone(d, k, "components", 0) : x.region = g} = {}
        BY <1>1
  <2> QED BY <1>2, <2>1
<1> QED BY <1>3 DEF CountsAt, NoRows

LEMMA NoLines == \A d, phase : Lines(d, phase, 0) = <<>>
<1> SUFFICES ASSUME NEW d, NEW phase PROVE Lines(d, phase, 0) = <<>>
    OBVIOUS
<1>1. 1..0 = {}
      OBVIOUS
<1> QED BY <1>1 DEF Lines

LEMMA ReleaseStarts ==
    ASSUME NEW d
    PROVE  DigestAt(d, "components", 0) = <<>>
<1> DEFINE s == [j \in 1..(PhaseNumber("components") - 1) |-> AllLines(d, j)]
<1>1. s = <<>>
  <2>1. 1..(PhaseNumber("components") - 1) = {}
        BY PhaseNumbers
  <2> QED BY <2>1
<1>2. DigestAt(d, "components", 0) = FlattenSeq(s) \o Lines(d, "components", 0)
      BY DEF DigestAt
<1> HIDE DEF s
<1>3. <<>> \o <<>> = <<>>
      BY EmptyList, ConcatNil
<1> QED BY <1>1, <1>2, <1>3, FlattenNone, NoLines

-----------------------------------------------------------------------------
(* The end of a phase is the start of the next one. *)
LEMMA TableIs ==
    ASSUME NEW phase
    PROVE  /\ TableOf(phase) \in Tables
           /\ phase \in Kinds => TableOf(phase) = phase
           /\ phase \in ComponentPhases => TableOf(phase) = "components"
BY DEF TableOf, Tables, Kinds, ComponentPhases

LEMMA GoneOver ==
    ASSUME NEW d, RowsDiffer(d), NEW k \in Kinds, NEW phase \in OpenPhases
    PROVE  Gone(d, k, NextPhase(phase), 0) = Gone(d, k, phase, d.release.total[TableOf(phase)])
<1> DEFINE next == NextPhase(phase)
           end == d.release.total[TableOf(phase)]
           p == PhaseNumber(phase)
           q == PhaseNumber(k)
<1>1. p \in 1..8 /\ q \in 1..8 /\ PhaseNumber(next) = p + 1
      BY PhaseOf DEF OpenPhases
<1>2. q = p <=> k = phase
      BY PhaseOf DEF OpenPhases
<1>3. \A x \in d.rows[k] : x.ord \in Nat /\ x.ord < d.release.total[k]
      BY DEF RowsDiffer
<1>4. k = phase => end = d.release.total[k]
      BY TableIs
<1> HIDE DEF p, q, next, end
<1>5. ASSUME NEW x \in d.rows[k]
      PROVE  (q < p + 1 \/ (k = next /\ x.ord < 0)) <=> (q < p \/ (k = phase /\ x.ord < end))
      BY <1>1, <1>2, <1>3, <1>4
<1>6. \A x \in d.rows[k] :
         (q < PhaseNumber(next) \/ (k = next /\ x.ord < 0)) <=> (q < p \/ (k = phase /\ x.ord < end))
      BY <1>1, <1>5
<1> QED BY <1>6 DEF Gone, p, q, next, end

LEMMA MarkedOver ==
    ASSUME NEW d, NEW at \in ComponentPhases, NEW phase \in OpenPhases, NEW m,
           NEW l, l = d.release.total["components"], l \in Nat, NEW i \in 1..l
    PROVE  Marked(i, at, m, NextPhase(phase), 0) = Marked(i, at, m, phase, d.release.total[TableOf(phase)])
<1> DEFINE next == NextPhase(phase)
           end == d.release.total[TableOf(phase)]
           p == PhaseNumber(phase)
           q == PhaseNumber(at)
<1>1. p \in 1..8 /\ q \in 1..8 /\ PhaseNumber(next) = p + 1
      BY PhaseOf DEF OpenPhases
<1>2. q = p <=> at = phase
      BY PhaseOf DEF OpenPhases
<1>3. at = phase => end = l
      BY TableIs
<1> HIDE DEF p, q, next, end
<1>4. (q < PhaseNumber(next) \/ (at = next /\ i <= 0)) <=> (q < p \/ (at = phase /\ i <= end))
      BY <1>1, <1>2, <1>3
<1> QED BY <1>4 DEF Marked, p, q, next, end

LEMMA ComponentOver ==
    ASSUME NEW d, RowsDiffer(d), NEW phase \in OpenPhases,
           NEW l, l = d.release.total["components"], l \in Nat, NEW i \in 1..l
    PROVE  ComponentDigest(d, i, NextPhase(phase), 0)
             = ComponentDigest(d, i, phase, d.release.total[TableOf(phase)])
<1> DEFINE next == NextPhase(phase)
           end == d.release.total[TableOf(phase)]
<1>1. \A k \in Kinds : OwnRows(d, i, k, next, 0) = OwnRows(d, i, k, phase, end)
      BY GoneOver DEF OwnRows
<1>2. \A at \in ComponentPhases : \A m : Marked(i, at, m, next, 0) = Marked(i, at, m, phase, end)
      BY MarkedOver
<1>3. "component-slots" \in ComponentPhases /\ "component-resources" \in ComponentPhases
      BY DEF ComponentPhases
<1> HIDE DEF next, end
<1>4. ComponentDigest(d, i, next, 0) = ComponentDigest(d, i, phase, end)
      BY <1>1, <1>2, <1>3, KindList, DigestParts
<1> QED BY <1>4 DEF next, end

LEMMA CountsOver ==
    ASSUME NEW d, RowsDiffer(d), NEW phase \in OpenPhases
    PROVE  CountsAt(d, NextPhase(phase), 0) = CountsAt(d, phase, d.release.total[TableOf(phase)])
BY GoneOver DEF CountsAt

-----------------------------------------------------------------------------
(* Lists that are flattened are a list. *)
LEMMA FlattenList ==
    ASSUME NEW n \in Nat, NEW s, s = [i \in 1..n |-> s[i]], \A i \in 1..n : IsList(s[i])
    PROVE  IsList(FlattenSeq(s))
<1>1. CASE n = 0
  <2>1. s = <<>>
        BY <1>1
  <2> QED BY <2>1, FlattenNone, EmptyList
<1>2. CASE n # 0
  <2>1. PICK f : Flat(s, n, f) /\ FlattenSeq(s) = f[n]
        BY <1>2, FlattenIs
  <2> DEFINE T == {i \in 1..n : ~IsList(f[i])}
  <2>2. ASSUME T # {} PROVE FALSE
    <3>1. T \subseteq 0..n
          OBVIOUS
    <3>2. PICK i \in T : \A j \in T : i <= j
      <4> HIDE DEF T
      <4> QED BY <2>2, <3>1, LeastIn
    <3>3. i \in 1..n /\ ~IsList(f[i])
          OBVIOUS
    <3>4. f[i] = IF i = 1 THEN s[i] ELSE f[i - 1] \o s[i]
          BY <2>1, <3>3, FlatAt
    <3>5. CASE i = 1
          BY <3>3, <3>4, <3>5
    <3>6. CASE i # 1
      <4>1. i - 1 \in 1..n /\ ~(i <= i - 1)
            BY <3>3, <3>6
      <4>2. IsList(f[i - 1]) /\ IsList(s[i])
            BY <3>2, <3>3, <4>1
      <4> DEFINE a == f[i - 1]
                 b == s[i]
      <4> HIDE DEF a, b
      <4>3. IsList(a \o b)
            BY <4>2, ConcatList DEF a, b
      <4> QED BY <3>3, <3>4, <3>6, <4>3 DEF a, b
    <3> QED BY <3>5, <3>6
  <2>3. n \in 1..n
        BY <1>2
  <2> QED BY <2>1, <2>2, <2>3
<1> QED BY <1>1, <1>2

TotalsNat(d) == \A t \in Tables : d.release.total[t] \in Nat

(* What the phases before number p have added to the digest. *)
Before(d, p) == FlattenSeq([j \in 1..(p - 1) |-> AllLines(d, j)])

LEMMA LinesList ==
    ASSUME NEW d, NEW phase, NEW n \in Nat
    PROVE  IsList(Lines(d, phase, n))
<1> DEFINE s == Lines(d, phase, n)
<1>1. s = [i \in 1..n |-> s[i]]
      BY DEF Lines
<1> HIDE DEF s
<1>2. IsList(s)
      BY <1>1, ListOf
<1> QED BY <1>2 DEF s

LEMMA AllLinesList ==
    ASSUME NEW d, TotalsNat(d), NEW j
    PROVE  IsList(AllLines(d, j))
BY TableIs, LinesList DEF AllLines, TotalsNat

LEMMA BeforeList ==
    ASSUME NEW d, TotalsNat(d), NEW p \in Nat \ {0}
    PROVE  IsList(Before(d, p))
<1> DEFINE n == p - 1
           s == [j \in 1..n |-> AllLines(d, j)]
<1>1. n \in Nat
      OBVIOUS
<1>2. \A j \in 1..n : IsList(s[j])
      BY AllLinesList
<1>3. s = [j \in 1..n |-> s[j]]
      OBVIOUS
<1> HIDE DEF s, n
<1>4. IsList(FlattenSeq(s))
      BY <1>1, <1>2, <1>3, FlattenList
<1> QED BY <1>4 DEF s, n, Before

LEMMA BeforeNext ==
    ASSUME NEW d, TotalsNat(d), NEW p \in Nat \ {0}
    PROVE  Before(d, p + 1) = Before(d, p) \o AllLines(d, p)
<1> DEFINE n == p - 1
           m == (p + 1) - 1
           s == [j \in 1..(n + 1) |-> AllLines(d, j)]
           t == [j \in 1..n |-> AllLines(d, j)]
<1>1. n \in Nat /\ n + 1 = p /\ m = n + 1
      OBVIOUS
<1>2. Before(d, p + 1) = FlattenSeq([j \in 1..m |-> AllLines(d, j)])
      BY DEF Before
<1>3. Before(d, p) = FlattenSeq(t)
      BY DEF Before
<1> HIDE DEF n, m
<1>4. /\ s = [j \in 1..(n + 1) |-> s[j]] /\ t = [j \in 1..n |-> s[j]] /\ s[n + 1] = AllLines(d, n + 1)
      BY <1>1
<1>5. IsList(s[n + 1])
      BY <1>4, AllLinesList
<1> HIDE DEF s, t
<1>6. FlattenSeq(s) = FlattenSeq(t) \o s[n + 1]
      BY <1>1, <1>4, <1>5, FlattenNext
<1>7. Before(d, p + 1) = FlattenSeq(s)
      BY <1>1, <1>2 DEF s
<1> QED BY <1>1, <1>3, <1>4, <1>6, <1>7

LEMMA DigestIs ==
    ASSUME NEW d, NEW phase, NEW n
    PROVE  DigestAt(d, phase, n) = Before(d, PhaseNumber(phase)) \o Lines(d, phase, n)
BY DEF DigestAt, Before

(* The release's digest takes in one row after another, *)
LEMMA DigestNext ==
    ASSUME NEW d, TotalsNat(d), NEW phase \in OpenPhases, NEW n \in Nat
    PROVE  DigestAt(d, phase, n + 1) = Append(DigestAt(d, phase, n), Line(d, phase, n + 1))
<1> DEFINE s == Before(d, PhaseNumber(phase))
           f == Lines(d, phase, n + 1)
           g == Lines(d, phase, n)
           e == Line(d, phase, n + 1)
<1>1. IsList(s)
  <2>1. PhaseNumber(phase) \in Nat \ {0}
        BY PhaseOf
  <2> QED BY <2>1, BeforeList
<1>2. IsList(g)
      BY LinesList
<1>3. f = Append(g, e)
  <2>1. /\ f = [i \in 1..(n + 1) |-> f[i]] /\ f[n + 1] = e /\ g = [i \in 1..n |-> f[i]]
        BY DEF Lines
  <2> HIDE DEF e, f, g
  <2>2. f = Append(g, f[n + 1])
        BY <2>1, LongerList
  <2> QED BY <2>1, <2>2
<1>4. DigestAt(d, phase, n + 1) = s \o f /\ DigestAt(d, phase, n) = s \o g
      BY DigestIs
<1> HIDE DEF s, e, f, g
<1>5. DigestAt(d, phase, n + 1) = Append(DigestAt(d, phase, n), e)
  <2>1. s \o Append(g, e) = Append(s \o g, e)
        BY <1>1, <1>2, ConcatAppend
  <2> QED BY Zenon, <1>3, <1>4, <2>1
<1> QED BY <1>5 DEF e

(* and one phase after another. *)
LEMMA DigestOver ==
    ASSUME NEW d, TotalsNat(d), NEW phase \in OpenPhases
    PROVE  DigestAt(d, NextPhase(phase), 0) = DigestAt(d, phase, d.release.total[TableOf(phase)])
<1> DEFINE p == PhaseNumber(phase)
           s == Before(d, p)
           t == AllLines(d, p)
<1>1. p \in Nat \ {0} /\ Phases[p] = phase /\ PhaseNumber(NextPhase(phase)) = p + 1
      BY PhaseOf
<1>2. t = Lines(d, phase, d.release.total[TableOf(phase)])
      BY <1>1 DEF AllLines
<1>3. IsList(s) /\ IsList(t) /\ Before(d, p + 1) = s \o t
      BY <1>1, BeforeList, AllLinesList, BeforeNext
<1>4. DigestAt(d, NextPhase(phase), 0) = Before(d, p + 1) \o <<>>
      BY <1>1, DigestIs, NoLines
<1>5. DigestAt(d, phase, d.release.total[TableOf(phase)]) = s \o t
      BY <1>2, DigestIs
<1> HIDE DEF s, t
<1>6. (s \o t) \o <<>> = s \o t
      BY <1>3, ConcatList, ConcatNil
<1> QED BY <1>3, <1>4, <1>5, <1>6

(* A row is counted once, for its region. *)
LEMMA CountsNext ==
    ASSUME NEW d, RowsDiffer(d), NEW k \in Kinds, d.release.total[k] \in Nat, NEW n \in Nat,
           NEW r \in d.rows[k], r.ord = n
    PROVE  [CountsAt(d, k, n) EXCEPT ![r.region][k] = @ + 1] = CountsAt(d, k, n + 1)
<1> DEFINE in(h, g, m) == {x \in Gone(d, h, k, m) : x.region = g}
           count(g, h, m) == Cardinality(in(h, g, m))
           D == DOMAIN d.release.counted
<1>1. \A m : CountsAt(d, k, m) = [g \in D |-> [h \in Kinds |-> count(g, h, m)]]
      BY DEF CountsAt
<1>2. ASSUME NEW h \in Kinds, NEW g, ~(h = k /\ g = r.region) PROVE count(g, h, n + 1) = count(g, h, n)
  <2>1. in(h, g, n + 1) = in(h, g, n)
    <3>1. CASE h # k
          BY <3>1, GoneSame
    <3>2. CASE h = k
      <4>1. Gone(d, k, k, n + 1) = Gone(d, k, k, n) \cup {r} /\ g # r.region
            BY <1>2, <3>2, GoneNext
      <4> QED BY <3>2, <4>1
    <3> QED BY <3>1, <3>2
  <2> QED BY <2>1
<1>3. count(r.region, k, n + 1) = count(r.region, k, n) + 1
  <2> DEFINE S == in(k, r.region, n)
             R == in(k, r.region, n + 1)
  <2>1. Gone(d, k, k, n + 1) = Gone(d, k, k, n) \cup {r} /\ r \notin Gone(d, k, k, n)
        BY GoneNext
  <2>2. R = S \cup {r} /\ r \notin S
        BY <2>1
  <2>3. IsFiniteSet(S)
        BY RowsFinite, GoneFinite
  <2> HIDE DEF S, R
  <2>4. Cardinality(R) = Cardinality(S) + 1
        BY <2>2, <2>3, FS_AddElement
  <2> QED BY <2>4 DEF S, R
<1> HIDE DEF count, D
<1> DEFINE a == CountsAt(d, k, n)
           b == [h \in Kinds |-> count(r.region, h, n)]
           c == [h \in Kinds |-> count(r.region, h, n + 1)]
<1>4. c = [b EXCEPT ![k] = @ + 1]
      BY <1>2, <1>3
<1>5. [a EXCEPT ![r.region][k] = @ + 1] = [a EXCEPT ![r.region] = [a[r.region] EXCEPT ![k] = @ + 1]]
      OBVIOUS
<1>6. \A g \in D : g # r.region =>
         [h \in Kinds |-> count(g, h, n + 1)] = [h \in Kinds |-> count(g, h, n)]
      BY <1>2
<1>7. [a EXCEPT ![r.region] = [a[r.region] EXCEPT ![k] = @ + 1]] = CountsAt(d, k, n + 1)
  <2>1. a = [g \in D |-> [h \in Kinds |-> count(g, h, n)]]
        BY <1>1
  <2>2. CountsAt(d, k, n + 1) = [g \in D |-> [h \in Kinds |-> count(g, h, n + 1)]]
        BY <1>1
  <2> DEFINE e == [a[r.region] EXCEPT ![k] = @ + 1]
  <2>3. r.region \in D => e = c
        BY <1>4, <2>1
  <2> HIDE DEF e, a, c
  <2>4. \A g \in D : [h \in Kinds |-> count(g, h, n + 1)] = IF g = r.region THEN e ELSE a[g]
        BY <1>6, <2>1, <2>3 DEF c
  <2>5. [a EXCEPT ![r.region] = e] = [g \in D |-> IF g = r.region THEN e ELSE a[g]]
        BY <2>1
  <2>6. [a EXCEPT ![r.region] = e] = CountsAt(d, k, n + 1)
        BY <2>2, <2>4, <2>5
  <2> QED BY <2>6 DEF e
<1> QED BY <1>5, <1>7

LEMMA CountsSame ==
    ASSUME NEW d, NEW phase, phase \notin Kinds, NEW n, NEW l
    PROVE  CountsAt(d, phase, n) = CountsAt(d, phase, l)
<1>1. \A k \in Kinds : Gone(d, k, phase, n) = Gone(d, k, phase, l)
      BY GoneSame
<1> QED BY <1>1 DEF CountsAt

-----------------------------------------------------------------------------
(* Verification of one row.  The tables it may rely on: *)
Sound(d) ==
    /\ RowsDiffer(d) /\ TotalsNat(d)
    /\ Len(d.components) \in Nat /\ d.release.total["components"] = Len(d.components)
    /\ KeysDiffer(d)
    /\ \A i \in 1..Len(d.components) : d.components[i].row.key # None

BatchFields == {"components", "counted", "limit", "digest", "ok"}

(* What a batch has at row n of the release's phase, unless it has failed.    *)
Good(d, x, n) ==
    /\ Follows(d.components, x) /\ BatchFields \subseteq DOMAIN x
    /\ x.ok => /\ x.digest = DigestAt(d, d.release.phase, n)
               /\ x.counted = CountsAt(d, d.release.phase, n)
               /\ DigestsAt(d, x.components, d.release.phase, n)

LEMMA SoundTotals ==
    ASSUME NEW d, Sound(d)
    PROVE  TotalsOk(d)
BY DEF Sound, TotalsNat, TotalsOk, Tables

LEMMA ManifestAt ==
    ASSUME NEW d, NEW i \in 1..Len(d.components)
    PROVE  Manifest(d)[i] = d.components[i].row
BY DEF Manifest

LEMMA ChunkGood ==
    ASSUME NEW d, Sound(d), d.release.phase = "chunks", NEW n \in Nat, NEW x, Good(d, x, n)
    PROVE  Good(d, VerifyChunk(d, n, x), n + 1)
<1> DEFINE y == VerifyChunk(d, n, x)
           e == <<"chunks", d.chunks[n + 1]>>
           ok == \A k \in Kinds : ToSet(d.chunks[n + 1].rows[k]) \subseteq d.rows[k]
<1>1. y = [x EXCEPT !.digest = Append(@, e), !.ok = @ /\ ok]
      BY DEF VerifyChunk
<1>2. BatchFields \subseteq DOMAIN x
      BY DEF Good
<1> HIDE DEF y
<1>3. /\ y.digest = Append(x.digest, e) /\ y.counted = x.counted /\ y.components = x.components
      /\ BatchFields \subseteq DOMAIN y /\ (y.ok => x.ok)
  <2> HIDE DEF e, ok
  <2> QED BY <1>1, <1>2 DEF BatchFields
<1>4. Follows(d.components, y)
      BY ChunkKeeps DEF y, Good
<1>5. ASSUME x.ok
      PROVE  /\ y.digest = DigestAt(d, "chunks", n + 1) /\ y.counted = CountsAt(d, "chunks", n + 1)
             /\ DigestsAt(d, y.components, "chunks", n + 1)
  <2>1. "chunks" \in OpenPhases /\ "chunks" \notin Kinds
        BY DEF OpenPhases, Kinds
  <2>2. Line(d, "chunks", n + 1) = e
        BY DEF Line, Kinds
  <2>3. DigestAt(d, "chunks", n + 1) = Append(DigestAt(d, "chunks", n), Line(d, "chunks", n + 1))
        BY <2>1, DigestNext DEF Sound
  <2>4. CountsAt(d, "chunks", n + 1) = CountsAt(d, "chunks", n)
        BY <2>1, CountsSame
  <2>5. \A i : ComponentDigest(d, i, "chunks", n + 1) = ComponentDigest(d, i, "chunks", n)
        BY ChunkDigest
  <2> QED BY <1>3, <1>5, <2>2, <2>3, <2>4, <2>5 DEF Good, DigestsAt
<1> QED BY <1>3, <1>4, <1>5 DEF Good, y

(* A component's step, as a change of its record. *)
Stepped(x, i, phase, e, ok) ==
    [x EXCEPT !.components[i] = e, !.digest = Append(@, Taken(phase, e)), !.ok = @ /\ ok]

StepOf(phase, c, e, ok) ==
    /\ HasRow(e) /\ e.row = c.row /\ e.digest = Step(phase, c.digest)
    /\ ok => e.phase = PhaseAfter(phase)

LEMMA StepIs ==
    ASSUME NEW phase \in ComponentPhases, NEW n, NEW x, HasRow(x.components[n + 1])
    PROVE  \E e, ok :
             /\ VerifyComponent(phase, n, x) = Stepped(x, n + 1, phase, e, ok)
             /\ StepOf(phase, x.components[n + 1], e, ok)
<1> DEFINE i == n + 1
           c == x.components[i]
           to(k) == [c EXCEPT !.phase = k, !.digest = Append(@, k)]
           y == VerifyComponent(phase, n, x)
<1>0. HasRow(c)
      OBVIOUS
<1>1. CASE phase = "components"
  <2> DEFINE ok == c.imported = c.row.expected /\ c.phase = "cells"
  <2>1. y = Stepped(x, i, phase, c, ok)
        BY <1>1 DEF VerifyComponent, Stepped
  <2>2. Step(phase, c.digest) = c.digest /\ PhaseAfter(phase) = "cells"
        BY <1>1 DEF Step, PhaseAfter
  <2>3. ok => c.phase = "cells"
        OBVIOUS
  <2> HIDE DEF y, c, ok
  <2> QED BY <1>0, <2>1, <2>2, <2>3 DEF StepOf, c, y
<1>2. CASE phase = "component-slots"
  <2> DEFINE e == to("slots")
             ok == c.phase = "cells" /\ c.verified["cells"] = c.row.expected["cells"]
  <2>1. y = Stepped(x, i, phase, e, ok)
        BY <1>2 DEF VerifyComponent, Stepped
  <2>2. Step(phase, c.digest) = Append(c.digest, "slots") /\ PhaseAfter(phase) = "slots"
        BY <1>2 DEF Step, PhaseAfter
  <2>3. HasRow(e) /\ e.row = c.row /\ e.digest = Append(c.digest, "slots") /\ e.phase = "slots"
    <3> HIDE DEF c
    <3> QED BY <1>0 DEF HasRow
  <2> HIDE DEF y, c, ok, e
  <2> QED BY <2>1, <2>2, <2>3 DEF StepOf, c, y
<1>3. CASE phase = "component-resources"
  <2> DEFINE e == to("resources")
             ok == c.phase = "slots" /\ c.verified["slots"] = c.row.expected["slots"]
  <2>1. y = Stepped(x, i, phase, e, ok)
        BY <1>3 DEF VerifyComponent, Stepped
  <2>2. Step(phase, c.digest) = Append(c.digest, "resources") /\ PhaseAfter(phase) = "resources"
        BY <1>3 DEF Step, PhaseAfter
  <2>3. HasRow(e) /\ e.row = c.row /\ e.digest = Append(c.digest, "resources") /\ e.phase = "resources"
    <3> HIDE DEF c
    <3> QED BY <1>0 DEF HasRow
  <2> HIDE DEF y, c, ok, e
  <2> QED BY <2>1, <2>2, <2>3 DEF StepOf, c, y
<1>4. CASE phase = "component-finalize"
  <2> DEFINE e == [c EXCEPT !.phase = "complete"]
             ok == c.phase = "resources" /\ c.verified = c.row.expected /\ c.digest = c.row.sha
  <2>1. y = Stepped(x, i, phase, e, ok)
        BY <1>4 DEF VerifyComponent, Stepped
  <2>2. Step(phase, c.digest) = c.digest /\ PhaseAfter(phase) = "complete"
        BY <1>4 DEF Step, PhaseAfter
  <2>3. HasRow(e) /\ e.row = c.row /\ e.digest = c.digest /\ e.phase = "complete"
    <3> HIDE DEF c
    <3> QED BY <1>0 DEF HasRow
  <2> HIDE DEF y, c, ok, e
  <2> QED BY <2>1, <2>2, <2>3 DEF StepOf, c, y
<1> QED BY <1>1, <1>2, <1>3, <1>4 DEF ComponentPhases

LEMMA ComponentGood ==
    ASSUME NEW d, Sound(d), NEW phase \in ComponentPhases, d.release.phase = phase,
           NEW n \in Nat, n < Len(d.components), NEW x, Good(d, x, n)
    PROVE  Good(d, VerifyComponent(phase, n, x), n + 1)
<1> DEFINE i == n + 1
           c == x.components[i]
           y == VerifyComponent(phase, n, x)
           l == Len(d.components)
<1>1. Follows(d.components, x) /\ BatchFields \subseteq DOMAIN x
      BY DEF Good
<1>2. i \in 1..l /\ l \in Nat
      BY DEF Sound
<1>3. HasRow(c) /\ c.row = d.components[i].row
      BY <1>1, <1>2 DEF Follows
<1>4. PICK e, ok : y = Stepped(x, i, phase, e, ok) /\ StepOf(phase, c, e, ok)
  <2>1. HasRow(x.components[n + 1])
        BY <1>3
  <2>2. \E e, ok : /\ VerifyComponent(phase, n, x) = Stepped(x, n + 1, phase, e, ok)
                    /\ StepOf(phase, x.components[n + 1], e, ok)
        BY Zenon, <2>1, StepIs
  <2> QED BY Zenon, <2>2
<1>5. Follows(d.components, y)
      BY <1>1, ComponentKeeps
<1> HIDE DEF y, c
<1>6. /\ y.digest = Append(x.digest, Taken(phase, e)) /\ y.counted = x.counted
      /\ y.components = [x.components EXCEPT ![i] = e]
      /\ BatchFields \subseteq DOMAIN y /\ (y.ok => x.ok /\ ok)
  <2> HIDE DEF i
  <2>1. y = [x EXCEPT !.components = [x.components EXCEPT ![i] = e],
                      !.digest = Append(x.digest, Taken(phase, e)), !.ok = x.ok /\ ok]
        BY <1>4 DEF Stepped
  <2> QED BY <1>1, <2>1 DEF BatchFields
<1>7. \A j \in 1..l : y.components[j] = IF j = i THEN e ELSE x.components[j]
  <2>1. IsList(x.components) /\ Len(x.components) = l /\ Changed(x.components, i, e, y.components)
        BY <1>1, <1>6 DEF Follows, Changed
  <2> HIDE DEF i, l
  <2> QED BY <2>1, ChangedList
<1>8. ASSUME x.ok, ok
      PROVE  /\ y.digest = DigestAt(d, phase, n + 1) /\ y.counted = CountsAt(d, phase, n + 1)
             /\ DigestsAt(d, y.components, phase, n + 1)
  <2>1. phase \in OpenPhases /\ phase \notin Kinds /\ phase # "chunks"
        BY DEF OpenPhases, Kinds, ComponentPhases
  <2>2. \A j \in 1..l : ComponentDigest(d, j, phase, n + 1) =
                           IF j = i THEN Step(phase, ComponentDigest(d, j, phase, n))
                           ELSE ComponentDigest(d, j, phase, n)
    <3> SUFFICES ASSUME NEW j \in 1..l
                 PROVE  ComponentDigest(d, j, phase, n + 1) =
                           IF j = i THEN Step(phase, ComponentDigest(d, j, phase, n))
                           ELSE ComponentDigest(d, j, phase, n)
        OBVIOUS
    <3>1. j \in Nat /\ RowsDiffer(d) /\ TotalsOk(d)
          BY <1>2, SoundTotals DEF Sound
    <3> HIDE DEF l
    <3> QED BY <3>1, StepDigest
  <2>3. \A j \in 1..l : x.components[j].digest = ComponentDigest(d, j, phase, n)
        BY <1>8 DEF Good, DigestsAt
  <2>4. DigestsAt(d, y.components, phase, n + 1)
    <3> SUFFICES ASSUME NEW j \in 1..l
                 PROVE  y.components[j].digest = ComponentDigest(d, j, phase, n + 1)
        BY DEF DigestsAt
    <3> HIDE DEF i, l
    <3> QED BY <1>4, <1>7, <2>2, <2>3 DEF StepOf, c
  <2>5. Line(d, phase, i) = <<phase, Manifest(d)[i].key, PhaseAfter(phase), ComponentDigest(d, i, phase, i)>>
        BY <2>1 DEF Line
  <2>6. e.digest = ComponentDigest(d, i, phase, i)
    <3> HIDE DEF l
    <3> QED BY <1>2, <1>4, <2>2, <2>3 DEF StepOf, c
  <2>7. Taken(phase, e) = Line(d, phase, i)
    <3>1. e.row = Manifest(d)[i] /\ e.phase = PhaseAfter(phase)
          BY <1>2, <1>3, <1>4, <1>8, ManifestAt DEF StepOf
    <3> HIDE DEF i
    <3> QED BY <2>5, <2>6, <3>1 DEF Taken
  <2>8. y.digest = DigestAt(d, phase, n + 1)
    <3>1. DigestAt(d, phase, n + 1) = Append(DigestAt(d, phase, n), Line(d, phase, n + 1))
          BY <2>1, DigestNext DEF Sound
    <3> QED BY <1>6, <1>8, <2>7, <3>1 DEF Good
  <2>9. y.counted = CountsAt(d, phase, n + 1)
    <3>1. CountsAt(d, phase, n + 1) = CountsAt(d, phase, n)
          BY <2>1, CountsSame
    <3> QED BY <1>6, <1>8, <3>1 DEF Good
  <2> QED BY <2>4, <2>8, <2>9
<1> QED BY <1>5, <1>6, <1>8 DEF Good, y

-----------------------------------------------------------------------------
LEMMA RowAtIs ==
    ASSUME NEW d, NEW k, NEW n, ~\A s \in d.rows[k] : s.ord # n
    PROVE  RowAt(d, k, n) \in d.rows[k] /\ RowAt(d, k, n).ord = n
BY DEF RowAt

Its(d, r) == {j \in 1..Len(d.components) : d.components[j].row.key = r.component}

LEMMA ItsOne ==
    ASSUME NEW d, Sound(d), NEW r, NEW i \in Its(d, r), NEW j \in 1..Len(d.components)
    PROVE  r.component # None /\ (r.component = Manifest(d)[j].key <=> j = i)
<1>1. i \in 1..Len(d.components) /\ d.components[i].row.key = r.component
      BY DEF Its
<1>2. Manifest(d)[j].key = d.components[j].row.key
      BY ManifestAt
<1> QED BY <1>1, <1>2 DEF Sound, KeysDiffer

(* The digests after a row: its component's has grown, if it is of one. *)
LEMMA RowDigests ==
    ASSUME NEW d, Sound(d), NEW k \in Kinds, NEW n \in Nat, NEW r \in d.rows[k], r.ord = n,
           NEW i \in 1..Len(d.components)
    PROVE  /\ r.component = None => ComponentDigest(d, i, k, n + 1) = ComponentDigest(d, i, k, n)
           /\ \A j \in Its(d, r) :
                 ComponentDigest(d, i, k, n + 1) = IF i = j THEN Append(ComponentDigest(d, i, k, n), r)
                                                   ELSE ComponentDigest(d, i, k, n)
<1>1. ComponentDigest(d, i, k, n + 1) =
             IF r.component = Manifest(d)[i].key THEN Append(ComponentDigest(d, i, k, n), r)
             ELSE ComponentDigest(d, i, k, n)
  <2>1. RowsDiffer(d) /\ TotalsOk(d)
        BY SoundTotals DEF Sound
  <2> QED BY <2>1, RowDigest
<1>2. Manifest(d)[i].key # None
      BY ManifestAt DEF Sound
<1>3. \A j \in Its(d, r) : r.component = Manifest(d)[i].key <=> i = j
      BY ItsOne
<1> QED BY <1>1, <1>2, <1>3

(* What a row adds to the release's digest and counts. *)
OneMore(f, g, k) == [f EXCEPT ![g][k] = @ + 1]

LEMMA RowAdds ==
    ASSUME NEW d, Sound(d), NEW k \in Kinds, NEW n \in Nat,
           NEW r \in d.rows[k], r.ord = n, r = RowAt(d, k, n)
    PROVE  /\ DigestAt(d, k, n + 1) = Append(DigestAt(d, k, n), <<k, r>>)
           /\ CountsAt(d, k, n + 1) = OneMore(CountsAt(d, k, n), r.region, k)
<1>2. k \in OpenPhases /\ d.release.total[k] \in Nat
      BY SoundTotals DEF OpenPhases, TotalsOk
<1>3. Line(d, k, n + 1) = <<k, r>>
  <2>1. (n + 1) - 1 = n
        OBVIOUS
  <2>2. Line(d, k, n + 1) = <<k, RowAt(d, k, (n + 1) - 1)>>
        BY DEF Line, Kinds
  <2> QED BY <2>1, <2>2
<1>4. DigestAt(d, k, n + 1) = Append(DigestAt(d, k, n), Line(d, k, n + 1))
      BY <1>2, DigestNext DEF Sound
<1>5. [CountsAt(d, k, n) EXCEPT ![r.region][k] = @ + 1] = CountsAt(d, k, n + 1)
  <2>1. RowsDiffer(d)
        BY DEF Sound
  <2> QED BY <1>2, <2>1, CountsNext
<1> QED BY <1>3, <1>4, <1>5 DEF OneMore

LEMMA RowGood ==
    ASSUME NEW d, Sound(d), NEW k \in Kinds, d.release.phase = k, NEW n \in Nat, NEW x, Good(d, x, n)
    PROVE  Good(d, VerifyRow(d, k, n, x), n + 1)
<1> DEFINE r == RowAt(d, k, n)
           its == {j \in 1..Len(x.components) : x.components[j].row.key = r.component}
           i == CHOOSE j \in its : TRUE
           c == x.components[i]
           u == [x EXCEPT !.ok = FALSE]
           y == Counted([x EXCEPT !.digest = Append(@, <<k, r>>)], k, r)
           e == [c EXCEPT !.verified[k] = @ + 1, !.digest = Append(@, r)]
           ok == c.phase = k /\ c.verified[k] < c.row.expected[k]
           w == [y EXCEPT !.components[i] = e, !.ok = @ /\ ok]
           z == VerifyRow(d, k, n, x)
           missing == \A s \in d.rows[k] : s.ord # n
           astray == k = "resources" /\ ~ResourceFollows(d, n)
<1>1. z = IF missing THEN u ELSE IF r.component = None THEN y ELSE IF its = {} \/ astray THEN u ELSE w
      BY Zenon DEF VerifyRow
<1>2. Follows(d.components, x) /\ BatchFields \subseteq DOMAIN x
      BY DEF Good
<1>3. Follows(d.components, z)
      BY <1>2, RowKeeps
<1> HIDE DEF z
<1>4. CASE z = u
  <2>1. BatchFields \subseteq DOMAIN z /\ ~z.ok
        BY <1>2, <1>4 DEF BatchFields
  <2> QED BY <1>3, <2>1 DEF Good, z
<1>5. /\ y.digest = Append(x.digest, <<k, r>>) /\ y.components = x.components
      /\ y.counted = OneMore(x.counted, r.region, k)
      /\ BatchFields \subseteq DOMAIN y /\ (y.ok => x.ok)
  <2> DEFINE f == OneMore(x.counted, r.region, k)
             b == x.counted[r.region][k] < x.limit[r.region][k]
             t == <<k, r>>
  <2>1. y = [x EXCEPT !.digest = Append(x.digest, t), !.counted = f, !.ok = x.ok /\ b]
        BY <1>2 DEF Counted, OneMore, BatchFields
  <2> HIDE DEF y, r, f, b, t
  <2>2. /\ y.digest = Append(x.digest, t) /\ y.components = x.components /\ y.counted = f
        /\ BatchFields \subseteq DOMAIN y /\ (y.ok => x.ok)
        BY <1>2, <2>1 DEF BatchFields
  <2> QED BY <2>2 DEF t, f
<1>6. ASSUME ~missing, x.ok
      PROVE  /\ Append(x.digest, <<k, r>>) = DigestAt(d, k, n + 1)
             /\ OneMore(x.counted, r.region, k) = CountsAt(d, k, n + 1)
             /\ r \in d.rows[k] /\ r.ord = n
             /\ \A j \in 1..Len(d.components) : x.components[j].digest = ComponentDigest(d, j, k, n)
  <2>1. x.digest = DigestAt(d, k, n) /\ x.counted = CountsAt(d, k, n) /\ DigestsAt(d, x.components, k, n)
        BY <1>6 DEF Good
  <2> HIDE DEF r
  <2>2. r \in d.rows[k] /\ r.ord = n /\ r = RowAt(d, k, n)
        BY <1>6, RowAtIs DEF r
  <2>3. /\ DigestAt(d, k, n + 1) = Append(DigestAt(d, k, n), <<k, r>>)
        /\ CountsAt(d, k, n + 1) = OneMore(CountsAt(d, k, n), r.region, k)
        BY <2>2, RowAdds
  <2> QED BY <2>1, <2>2, <2>3 DEF DigestsAt
<1>7. CASE ~missing /\ r.component = None /\ z = y
  <2>1. ASSUME x.ok PROVE DigestsAt(d, z.components, k, n + 1)
    <3> SUFFICES ASSUME NEW j \in 1..Len(d.components)
                 PROVE  z.components[j].digest = ComponentDigest(d, j, k, n + 1)
        BY DEF DigestsAt
    <3> HIDE DEF r, y
    <3>1. ComponentDigest(d, j, k, n + 1) = ComponentDigest(d, j, k, n)
          BY <1>6, <1>7, <2>1, RowDigests
    <3> QED BY <1>5, <1>6, <1>7, <2>1, <3>1
  <2> HIDE DEF r, y
  <2> QED BY <1>3, <1>5, <1>6, <1>7, <2>1 DEF Good, z
<1>8. CASE ~missing /\ its # {} /\ z = w
  <2> DEFINE l == Len(d.components)
  <2>1. its = Its(d, r)
    <3>1. Len(x.components) = l /\ \A j \in 1..l : x.components[j].row = d.components[j].row
          BY <1>2 DEF Follows
    <3> HIDE DEF r
    <3> QED BY <3>1 DEF Its
  <2>2. i \in its
        BY <1>8
  <2> HIDE DEF its, i
  <2>3. i \in Its(d, r) /\ i \in 1..l
        BY <2>1, <2>2 DEF Its
  <2>4. HasRow(c) /\ e.digest = Append(c.digest, r)
    <3>1. HasRow(c)
          BY <1>2, <2>3 DEF Follows
    <3> HIDE DEF c, r
    <3> QED BY <3>1 DEF HasRow
  <2> HIDE DEF e, ok, r, c, y
  <2>5. /\ z.digest = y.digest /\ z.counted = y.counted /\ z.components = [x.components EXCEPT ![i] = e]
        /\ BatchFields \subseteq DOMAIN z /\ (z.ok => y.ok)
    <3>1. z = [y EXCEPT !.components = [x.components EXCEPT ![i] = e], !.ok = y.ok /\ ok]
          BY <1>5, <1>8
    <3> QED BY <1>5, <3>1 DEF BatchFields
  <2>6. \A j \in 1..l : z.components[j] = IF j = i THEN e ELSE x.components[j]
    <3>1. IsList(x.components) /\ Len(x.components) = l /\ Changed(x.components, i, e, z.components)
          BY <1>2, <2>5 DEF Follows, Changed
    <3> HIDE DEF l
    <3> QED BY <3>1, ChangedList
  <2>7. ASSUME x.ok PROVE DigestsAt(d, z.components, k, n + 1)
    <3> SUFFICES ASSUME NEW j \in 1..l
                 PROVE  z.components[j].digest = ComponentDigest(d, j, k, n + 1)
        BY DEF DigestsAt
    <3>1. r \in d.rows[k] /\ r.ord = n /\ x.components[j].digest = ComponentDigest(d, j, k, n)
          BY <1>6, <1>8, <2>7
    <3>2. ComponentDigest(d, j, k, n + 1) = IF j = i THEN Append(ComponentDigest(d, j, k, n), r)
                                            ELSE ComponentDigest(d, j, k, n)
          BY <2>3, <3>1, RowDigests
    <3> HIDE DEF l
    <3> QED BY <2>4, <2>6, <3>1, <3>2 DEF c
  <2> QED BY <1>3, <1>5, <1>6, <1>8, <2>5, <2>7 DEF Good, z
<1> QED BY <1>1, <1>4, <1>7, <1>8

LEMMA OneGood ==
    ASSUME NEW d, Sound(d), d.release.phase \in OpenPhases, NEW n \in Nat,
           n < d.release.total[TableOf(d.release.phase)], NEW x, Good(d, x, n)
    PROVE  Good(d, VerifyOne(d, n, x), n + 1)
<1> DEFINE phase == d.release.phase
<1>1. CASE phase \in Kinds
  <2>1. VerifyOne(d, n, x) = VerifyRow(d, phase, n, x)
        BY <1>1 DEF VerifyOne, Kinds
  <2> QED BY <1>1, <2>1, RowGood
<1>2. CASE phase = "chunks"
  <2>1. VerifyOne(d, n, x) = VerifyChunk(d, n, x)
        BY <1>2 DEF VerifyOne, Kinds
  <2> QED BY <1>2, <2>1, ChunkGood
<1>3. CASE phase \in ComponentPhases
  <2>1. VerifyOne(d, n, x) = VerifyComponent(phase, n, x)
        BY <1>3 DEF VerifyOne, Kinds, ComponentPhases
  <2>2. n < Len(d.components)
        BY <1>3, TableIs DEF Sound
  <2> DEFINE y == VerifyComponent(phase, n, x)
  <2>3. Good(d, y, n + 1)
    <3>1. phase \in ComponentPhases /\ d.release.phase = phase
          BY <1>3
    <3> HIDE DEF phase
    <3> QED BY <2>2, <3>1, ComponentGood
  <2> HIDE DEF y
  <2>4. VerifyOne(d, n, x) = y
        BY <2>1 DEF y
  <2> QED BY <2>3, <2>4
<1> QED BY <1>1, <1>2, <1>3 DEF OpenPhases

-----------------------------------------------------------------------------
(* A batch, row after row. *)
LEMMA MaxUpTo ==
    ASSUME NEW j \in Nat \ {0}
    PROVE  Max(1..j) = j /\ (1..j) \ {j} = 1..(j - 1)
<1>1. j \in 1..j /\ \A y \in 1..j : j >= y
      OBVIOUS
<1>2. \A x \in 1..j : x >= j => x = j
      OBVIOUS
<1>3. Max(1..j) = j
      BY <1>1, <1>2 DEF Max
<1>4. (1..j) \ {j} = 1..(j - 1)
      OBVIOUS
<1> QED BY <1>3, <1>4

LEMMA BatchGood ==
    ASSUME NEW d, Sound(d), d.release.phase \in OpenPhases, d.release.cursor \in Nat,
           NEW end \in Nat, d.release.cursor <= end, end <= d.release.total[TableOf(d.release.phase)],
           Good(d, Begun(d), d.release.cursor)
    PROVE  Good(d, Verified(d, end), end)
<1> DEFINE c == d.release.cursor
           m == end - c
           list == RowNumbers(d.release, end)
           total == d.release.total[TableOf(d.release.phase)]
           y == Begun(d)
<1>1. m \in Nat /\ c \in Nat /\ c + m = end /\ total \in Nat /\ end <= total
      BY TableIs DEF Sound, TotalsNat
<1>2. Rows(d.release, end) = 1..m /\ \A j \in 1..m : list[j] = c + j - 1
      BY DEF Rows, RowNumbers
<1>3. PICK F : Batch(F, 1..m, d, y, list) /\ Verified(d, end) = F[1..m]
      BY <1>2, VerifiedIsBatch
<1> DEFINE T == {j \in 0..m : ~Good(d, F[1..j], c + j)}
<1>4. ASSUME T # {} PROVE FALSE
  <2>1. T \subseteq 0..m
        OBVIOUS
  <2>2. PICK j \in T : \A i \in T : j <= i
    <3> HIDE DEF T, m
    <3> QED BY <1>1, <1>4, <2>1, LeastIn
  <2>3. j \in 0..m /\ ~Good(d, F[1..j], c + j)
        OBVIOUS
  <2>4. CASE j = 0
    <3>1. 1..j = {}
          BY <2>4
    <3>2. F[1..j] = y
          BY <1>3, <3>1, BatchValues
    <3>3. c + j = c
          BY <1>1, <2>4
    <3> QED BY <2>3, <3>2, <3>3
  <2>5. CASE j # 0
    <3> DEFINE i == j - 1
               n == c + j - 1
    <3>1. i \in 0..m /\ ~(j <= i) /\ j \in Nat \ {0} /\ j \in 1..m /\ 1..j \subseteq 1..m /\ 1..j # {}
      <4> HIDE DEF m, T
      <4>1. i \in 0..m /\ ~(j <= i) /\ j \in Nat \ {0} /\ j \in 1..m
            BY <1>1, <2>3, <2>5
      <4>2. \A h \in 1..j : h \in 1..m
            BY <1>1, <4>1
      <4>3. j \in 1..j
            BY <4>1
      <4> QED BY <4>1, <4>2, <4>3
    <3>2. Good(d, F[1..i], c + i)
          BY <2>2, <3>1
    <3>3. n \in Nat /\ n < total /\ c + i = n /\ n + 1 = c + j
      <4> HIDE DEF m, c, total
      <4> QED BY <1>1, <3>1
    <3>4. F[1..j] = VerifyOne(d, list[Max(1..j)], F[(1..j) \ {Max(1..j)}])
      <4> DEFINE S == 1..m
                 s == 1..j
      <4>1. Batch(F, S, d, y, list) /\ s \in SUBSET S /\ s # {}
            BY <1>3, <3>1
      <4> HIDE DEF S, s, list, y, T
      <4>2. \A t \in SUBSET S : t # {} => F[t] = VerifyOne(d, list[Max(t)], F[t \ {Max(t)}])
            BY ONLY <4>1, BatchValues
      <4>3. F[s] = VerifyOne(d, list[Max(s)], F[s \ {Max(s)}])
            BY ONLY <4>1, <4>2
      <4> QED BY <4>3 DEF s
    <3>5. Max(1..j) = j /\ (1..j) \ {j} = 1..i
          BY <3>1, MaxUpTo
    <3>6. list[j] = n
          BY <1>2, <3>1
    <3>7. F[1..j] = VerifyOne(d, n, F[1..i])
          BY <3>4, <3>5, <3>6
    <3> HIDE DEF n, i, T, list, y
    <3>8. Good(d, F[1..j], n + 1)
          BY <3>2, <3>3, <3>7, OneGood
    <3> QED BY <2>3, <3>3, <3>8
  <2> QED BY <2>4, <2>5
<1>5. m \in 0..m
      BY <1>1
<1>6. Good(d, F[1..m], c + m)
      BY <1>4, <1>5
<1> QED BY <1>1, <1>3, <1>6

(* What is taken in depends on the tables, not on how far verification is.    *)
SameTables(d, n) ==
    /\ n.rows = d.rows /\ n.chunks = d.chunks /\ Manifest(n) = Manifest(d)
    /\ n.release.total = d.release.total /\ DOMAIN n.release.counted = DOMAIN d.release.counted

LEMMA SameGone ==
    ASSUME NEW d, NEW n, SameTables(d, n)
    PROVE  \A k, phase, m : Gone(n, k, phase, m) = Gone(d, k, phase, m)
BY DEF SameTables, Gone

LEMMA SameDigests ==
    ASSUME NEW d, NEW n, SameTables(d, n)
    PROVE  /\ \A i, phase, m : ComponentDigest(n, i, phase, m) = ComponentDigest(d, i, phase, m)
           /\ \A phase, m : DigestAt(n, phase, m) = DigestAt(d, phase, m)
           /\ \A phase, m : CountsAt(n, phase, m) = CountsAt(d, phase, m)
           /\ RowsDiffer(d) => RowsDiffer(n)
<1>1. \A i, phase, m : ComponentDigest(n, i, phase, m) = ComponentDigest(d, i, phase, m)
  <2> SUFFICES ASSUME NEW i, NEW phase, NEW m
               PROVE  ComponentDigest(n, i, phase, m) = ComponentDigest(d, i, phase, m)
      OBVIOUS
  <2>1. \A k : OwnRows(n, i, k, phase, m) = OwnRows(d, i, k, phase, m)
        BY SameGone DEF OwnRows, SameTables
  <2>2. Manifest(n)[i] = Manifest(d)[i]
        BY DEF SameTables
  <2> QED BY <2>1, <2>2, DigestParts
<1>2. \A phase, i : Line(n, phase, i) = Line(d, phase, i)
  <2> SUFFICES ASSUME NEW phase, NEW i PROVE Line(n, phase, i) = Line(d, phase, i)
      OBVIOUS
  <2>1. \A k, j : RowAt(n, k, j) = RowAt(d, k, j)
        BY DEF RowAt, SameTables
  <2>2. Manifest(n) = Manifest(d) /\ n.chunks = d.chunks
        BY DEF SameTables
  <2>3. CASE phase \in Kinds
        BY <2>1, <2>3 DEF Line, Kinds
  <2>4. CASE phase = "chunks"
        BY <2>2, <2>4 DEF Line, Kinds
  <2>5. CASE phase \notin Kinds /\ phase # "chunks"
        BY <1>1, <2>2, <2>5 DEF Line
  <2> QED BY <2>3, <2>4, <2>5
<1>3. \A phase, m : Lines(n, phase, m) = Lines(d, phase, m)
      BY <1>2 DEF Lines
<1>4. \A j : AllLines(n, j) = AllLines(d, j)
      BY <1>3 DEF AllLines, SameTables
<1>5. \A phase, m : DigestAt(n, phase, m) = DigestAt(d, phase, m)
      BY <1>3, <1>4 DEF DigestAt
<1>6. \A phase, m : CountsAt(n, phase, m) = CountsAt(d, phase, m)
      BY SameGone DEF CountsAt, SameTables
<1>7. RowsDiffer(d) => RowsDiffer(n)
      BY DEF RowsDiffer, SameTables
<1> QED BY <1>1, <1>5, <1>6, <1>7

-----------------------------------------------------------------------------
(* The invariant of the verification, relative to that of the database. *)
LEMMA FollowSame ==
    ASSUME NEW d, FollowInv(d), NEW n, n.components = d.components, n.rows = d.rows,
           n.release = d.release, n.chunks = d.chunks
    PROVE  FollowInv(n)
<1>1. Manifest(n) = Manifest(d)
      BY DEF Manifest
<1>2. SameTables(d, n)
      BY <1>1 DEF SameTables
<1>3. /\ \A i, phase, m : ComponentDigest(n, i, phase, m) = ComponentDigest(d, i, phase, m)
      /\ \A phase, m : DigestAt(n, phase, m) = DigestAt(d, phase, m)
      /\ \A phase, m : CountsAt(n, phase, m) = CountsAt(d, phase, m)
      /\ RowsDiffer(d) => RowsDiffer(n)
      BY <1>2, SameDigests
<1>4. KeysDiffer(n) /\ (Fresh(d) => Fresh(n))
      BY DEF FollowInv, KeysDiffer, Fresh
<1>5. Followed(d) => Followed(n)
      BY <1>3 DEF Followed, DigestsAt
<1> QED BY <1>3, <1>4, <1>5 DEF FollowInv

(* While a release is imported its digests are not touched. *)
LEMMA FollowImporting ==
    ASSUME NEW d, FollowInv(d), d.release.state = "importing", NEW n,
           n.release.state = "importing", n.release.cursor = d.release.cursor,
           n.release.counted = d.release.counted, KeysDiffer(n), Fresh(n), RowsDiffer(n)
    PROVE  FollowInv(n)
BY DEF FollowInv

LEMMA StageFollows ==
    ASSUME NEW d, DbInv(d), FollowInv(d), NEW a \in Artifact
    PROVE  FollowInv(StageRelease(d, a))
<1> DEFINE n == StageRelease(d, a)
           r == StagedRelease(a)
<1>1. CASE d.release.state # "absent"
      BY <1>1 DEF StageRelease
<1>2. CASE d.release.state = "absent"
  <2>1. Tabled(d) /\ d.chunks = <<>>
        BY <1>2 DEF DbInv
  <2>2. n = [d EXCEPT !.release = r]
        BY <1>2 DEF StageRelease
  <2>3. /\ r.state = "importing" /\ r.cursor = 0
        /\ r.counted = [g \in DOMAIN r.counted |-> NoRows]
        BY DEF StagedRelease
  <2> HIDE DEF n, r
  <2>4. n.release = r /\ n.components = d.components /\ n.rows = d.rows
        BY <2>1, <2>2 DEF Tabled
  <2>5. \A k \in Kinds : n.rows[k] = {}
    <3>1. ToSet(d.chunks) = {}
          BY <2>1, EmptyList
    <3> QED BY <2>1, <2>4, <3>1 DEF Tabled
  <2>6. RowsDiffer(n)
        BY <2>5 DEF RowsDiffer
  <2>7. KeysDiffer(n) /\ Fresh(n)
        BY <1>2, <2>4 DEF FollowInv, KeysDiffer, Fresh
  <2>8. FollowInv(n)
        BY <2>3, <2>4, <2>6, <2>7 DEF FollowInv
  <2> QED BY <2>8 DEF n
<1> QED BY <1>1, <1>2

LEMMA ComponentsFollow ==
    ASSUME NEW d, DbInv(d), FollowInv(d), NEW a, NEW batch
    PROVE  FollowInv(ImportComponents(d, a, batch))
<1> DEFINE n == ImportComponents(d, a, batch)
           fresh == {c \in ToSet(batch) : c.key \notin {e.key : e \in ToSet(Manifest(d))}}
           count == Cardinality(fresh)
           new(i) == CHOOSE c \in {c \in fresh : c.ord = Len(d.components) + i - 1} : TRUE
           t == [i \in 1..count |-> NewComponent(new(i))]
           u == d.components \o t
           differ == \A i, j \in DOMAIN u : u[i].row.key = u[j].row.key => i = j
           counted == count \in 0..(d.release.total["components"] - Len(d.components))
<1>1. n = d \/ (counted /\ Holds(d, a, "importing") /\ differ /\ n = [d EXCEPT !.components = u])
      BY Zenon DEF ImportComponents
<1> SUFFICES ASSUME n # d PROVE FollowInv(n)
    BY DEF n
<1> HIDE DEF fresh, new, n, u
<1>2. count \in Nat
  <2> HIDE DEF count
  <2> QED BY <1>1
<1> HIDE DEF count
<1>3. IsList(t) /\ Len(t) = count
  <2> DEFINE l == count
  <2>1. l \in Nat /\ t = [i \in 1..l |-> t[i]]
        BY <1>2
  <2> HIDE DEF t, l
  <2>2. IsList(t) /\ Len(t) = l
        BY <2>1, ListOf
  <2> QED BY <2>2 DEF l
<1>4. \A i \in 1..Len(t) : t[i].digest = <<t[i].row.key>>
  <2> SUFFICES ASSUME NEW i \in 1..count PROVE t[i].digest = <<t[i].row.key>>
      BY <1>3
  <2>1. t[i] = NewComponent(new(i))
        OBVIOUS
  <2>2. \A c : NewComponent(c).row = c /\ NewComponent(c).digest = <<c.key>>
        BY DEF NewComponent
  <2> HIDE DEF t
  <2> QED BY <2>1, <2>2
<1> HIDE DEF t
<1>6. Holds(d, a, "importing") /\ differ /\ n = [d EXCEPT !.components = u]
      BY <1>1
<1> QED
  <2>1. d.release.state = "importing" /\ Tabled(d)
        BY <1>6 DEF Holds, DbInv
  <2>2. IsList(u) /\ Joined(d.components, t, u)
        BY <1>3, <2>1, ConcatList DEF u, Tabled
  <2>3. DOMAIN u = 1..Len(u)
        BY <2>2, ListsType
  <2> HIDE DEF n, u
  <2>4. n.components = u /\ n.release = d.release /\ n.rows = d.rows
        BY <1>6, <2>1 DEF Tabled
  <2>5. KeysDiffer(n)
        BY <1>6, <2>3, <2>4 DEF KeysDiffer
  <2>6. Fresh(n)
    <3> SUFFICES ASSUME NEW i \in 1..Len(u) PROVE u[i].digest = <<u[i].row.key>>
        BY <2>4 DEF Fresh
    <3>1. CASE i \in 1..Len(d.components) /\ u[i] = d.components[i]
          BY <2>1, <3>1 DEF FollowInv, Fresh
    <3>2. CASE \E j \in 1..Len(t) : u[i] = t[j]
      <4>1. PICK j \in 1..Len(t) : u[i] = t[j]
            BY <3>2
      <4>2. t[j].digest = <<t[j].row.key>>
            BY <1>4
      <4> QED BY <4>1, <4>2
    <3> QED BY <2>2, <3>1, <3>2 DEF Joined
  <2>7. RowsDiffer(n)
        BY <2>1, <2>4 DEF FollowInv, RowsDiffer
  <2>8. FollowInv(n)
        BY <2>1, <2>4, <2>5, <2>6, <2>7, FollowImporting
  <2> QED BY <2>8

LEMMA RegionsFollow ==
    ASSUME NEW d, DbInv(d), FollowInv(d), NEW a
    PROVE  FollowInv(ImportRegions(d, a))
<1> DEFINE n == ImportRegions(d, a)
<1>1. CASE ~(Holds(d, a, "importing") /\ d.release.regions = None)
      BY <1>1 DEF ImportRegions
<1>2. CASE Holds(d, a, "importing") /\ d.release.regions = None
  <2>1. d.release.state = "importing" /\ Tabled(d) /\ DOMAIN d.release = ReleaseFields
        BY <1>2 DEF Holds, DbInv, ReleaseInv
  <2>2. n = [d EXCEPT !.release = [d.release EXCEPT !.regions = Content[a].regions]]
        BY <1>2 DEF ImportRegions
  <2> HIDE DEF n
  <2>3. /\ n.components = d.components /\ n.rows = d.rows
        /\ n.release = [d.release EXCEPT !.regions = Content[a].regions]
        BY <2>1, <2>2 DEF Tabled
  <2>4. /\ n.release.state = "importing" /\ n.release.cursor = d.release.cursor
        /\ n.release.counted = d.release.counted /\ n.release.total = d.release.total
        BY <2>1, <2>3 DEF ReleaseFields
  <2>5. KeysDiffer(n) /\ Fresh(n) /\ RowsDiffer(n)
        BY <2>1, <2>3, <2>4 DEF FollowInv, KeysDiffer, Fresh, RowsDiffer
  <2>6. FollowInv(n)
        BY <2>1, <2>4, <2>5, FollowImporting
  <2> QED BY <2>6 DEF n
<1> QED BY <1>1, <1>2

LEMMA ChunkFollows ==
    ASSUME NEW d, DbInv(d), FollowInv(d), NEW a, NEW chunk
    PROVE  FollowInv(ImportChunk(d, a, chunk))
<1> DEFINE n == ImportChunk(d, a, chunk)
           f == [i \in 1..Len(d.components) |-> WithRows(d.components[i], chunk)]
           rows == [k \in Kinds |-> d.rows[k] \cup ToSet(chunk.rows[k])]
           r == [d.release EXCEPT !.digest = Append(@, chunk)]
<1>1. n = d \/ (/\ Holds(d, a, "importing") /\ RowsFit(d, chunk)
                /\ n = [d EXCEPT !.chunks = Append(@, chunk), !.rows = rows,
                                 !.components = f, !.release = r])
      BY DEF ImportChunk
<1>2. CASE n = d
      BY <1>2
<1>3. CASE /\ Holds(d, a, "importing") /\ RowsFit(d, chunk)
           /\ n = [d EXCEPT !.chunks = Append(@, chunk), !.rows = rows,
                            !.components = f, !.release = r]
  <2>1. d.release.state = "importing" /\ Tabled(d) /\ DOMAIN d.release = ReleaseFields
        BY <1>3 DEF Holds, DbInv, ReleaseInv
  <2>2. /\ IsList(d.components) /\ Len(d.components) \in Nat
        /\ \A i \in 1..Len(d.components) : HasRow(d.components[i])
        BY <2>1, ListsType DEF Tabled
  <2>3. Len(f) = Len(d.components)
    <3> DEFINE l == Len(d.components)
    <3>1. l \in Nat /\ f = [i \in 1..l |-> f[i]]
          BY <2>2
    <3> HIDE DEF f, l
    <3>2. Len(f) = l
          BY <3>1, ListOf
    <3> QED BY <3>2 DEF l
  <2>4. \A i \in 1..Len(d.components) : /\ f[i].row = d.components[i].row
                                        /\ f[i].digest = d.components[i].digest
    <3> SUFFICES ASSUME NEW i \in 1..Len(d.components)
                 PROVE  f[i].row = d.components[i].row /\ f[i].digest = d.components[i].digest
        OBVIOUS
    <3>1. f[i] = WithRows(d.components[i], chunk)
          OBVIOUS
    <3>2. HasRow(d.components[i])
          BY <2>2
    <3>3. \A c : HasRow(c) => WithRows(c, chunk).row = c.row /\ WithRows(c, chunk).digest = c.digest
          BY DEF HasRow, WithRows
    <3> HIDE DEF f
    <3> QED BY <3>1, <3>2, <3>3
  <2> HIDE DEF n, f, r
  <2>5. n.components = f /\ n.release = r /\ n.rows = rows
        BY <1>3, <2>1 DEF Tabled
  <2>6. /\ r.state = "importing" /\ r.cursor = d.release.cursor
        /\ r.counted = d.release.counted /\ r.total = d.release.total
        BY <2>1 DEF r, ReleaseFields
  <2>7. KeysDiffer(n) /\ Fresh(n)
        BY <2>1, <2>3, <2>4, <2>5 DEF FollowInv, KeysDiffer, Fresh
  <2>8. RowsDiffer(n)
    <3> SUFFICES ASSUME NEW k \in Kinds
                 PROVE  /\ \A x \in n.rows[k] : x.ord \in Nat /\ x.ord < d.release.total[k]
                        /\ \A x, y \in n.rows[k] : x.ord = y.ord => x = y
        BY <2>5, <2>6 DEF RowsDiffer
    <3> DEFINE s == chunk.rows[k]
               S == d.rows[k]
               total == d.release.total[k]
    <3>1. n.rows[k] = S \cup {s[i] : i \in DOMAIN s}
          BY <2>5 DEF ToSet
    <3>2. /\ \A x \in S : x.ord \in Nat /\ x.ord < total
          /\ \A x, y \in S : x.ord = y.ord => x = y
          BY <2>1 DEF FollowInv, RowsDiffer
    <3>3. \A i \in DOMAIN s : /\ s[i].ord \in Nat /\ s[i].ord < total
                              /\ \A y \in S : y.ord # s[i].ord
          BY <1>3 DEF RowsFit, ToSet
    <3>4. \A i, j \in DOMAIN s : i # j => s[i].ord # s[j].ord
          BY <1>3 DEF RowsFit
    <3> HIDE DEF s, S, total
    <3>5. \A x \in n.rows[k] : x.ord \in Nat /\ x.ord < total
          BY <3>1, <3>2, <3>3
    <3>6. ASSUME NEW x \in n.rows[k], NEW y \in n.rows[k], x.ord = y.ord PROVE x = y
          BY <3>1, <3>2, <3>3, <3>4, <3>6
    <3> QED BY <3>5, <3>6 DEF total
  <2>9. FollowInv(n)
        BY <2>1, <2>5, <2>6, <2>7, <2>8, FollowImporting
  <2> QED BY <2>9 DEF n
<1> QED BY <1>1, <1>2, <1>3

-----------------------------------------------------------------------------
(* The tables of a release that is verified are those of a build. *)
LEMMA VerifyingFacts ==
    ASSUME NEW d, DbInv(d), FollowInv(d), d.release.state \in {"verifying", "ready"}
    PROVE  /\ Sound(d) /\ Followed(d) /\ Tabled(d) /\ DOMAIN d.release = ReleaseFields
           /\ d.release.phase \in OpenPhases \cup {"complete"} /\ d.release.cursor \in Nat
<1>1. Tabled(d) /\ ReleaseInv(d)
      BY DEF DbInv
<1>2. /\ DOMAIN d.release = ReleaseFields
      /\ d.release.phase \in OpenPhases \cup {"complete"} /\ d.release.cursor \in Nat
      BY <1>1 DEF ReleaseInv, Progress
<1>3. PICK a \in Artifact : /\ d.release.total = Total[a] /\ Stored(d, a)
                            /\ \A t \in Tables : Total[a][t] \in Nat
      BY <1>1 DEF ReleaseInv, OneBuild
<1>4. Len(d.components) \in Nat /\ d.release.total["components"] = Len(d.components)
      BY <1>1, <1>3, ListsType, ManifestLength DEF Tabled, Stored
<1>5. \A i \in 1..Len(d.components) : d.components[i].row.key # None
  <2> DEFINE l == Len(d.components)
             s == Content[a].components
  <2>1. l \in Nat /\ s = [i \in 1..l |-> d.components[i].row]
        BY <1>3, <1>4 DEF Stored, Manifest
  <2>2. \A c \in ToSet(s) : c.key # None
        BY AtlasAssumption
  <2> HIDE DEF l, s
  <2>3. DOMAIN s = 1..l /\ \A i \in 1..l : s[i] = d.components[i].row
        BY <2>1
  <2>4. \A i \in 1..l : d.components[i].row.key # None
        BY <2>2, <2>3 DEF ToSet
  <2> QED BY <2>4 DEF l
<1>6. RowsDiffer(d) /\ KeysDiffer(d) /\ Followed(d)
      BY DEF FollowInv
<1>7. TotalsNat(d)
      BY <1>3 DEF TotalsNat
<1> QED BY <1>1, <1>2, <1>4, <1>5, <1>6, <1>7 DEF Sound

LEMMA BeginFollows ==
    ASSUME NEW d, DbInv(d), FollowInv(d), ~d.owner, NEW a0
    PROVE  FollowInv(BeginVerification(d, a0))
<1> DEFINE n == BeginVerification(d, a0)
           r == d.release
           q == [r EXCEPT !.state = "verifying", !.digest = <<>>]
           go == Holds(d, a0, "importing") /\ ImportsExact(d) /\ RegionTotalsExact(r) /\ ShaMatches(d)
<1>1. CASE ~go
      BY <1>1 DEF BeginVerification
<1>2. CASE go
  <2>1. r.state = "importing" /\ Tabled(d) /\ DOMAIN r = ReleaseFields /\ r.phase = "components"
        BY <1>2 DEF Holds, DbInv, ReleaseInv, Importing
  <2>2. n = [d EXCEPT !.release = q]
        BY <1>2 DEF BeginVerification
  <2>3. DbInv(n)
        BY BeginKeeps
  <2> HIDE DEF n, q, go
  <2>4. n.release = q /\ n.components = d.components /\ n.rows = d.rows
        BY <2>1, <2>2 DEF Tabled
  <2>5. /\ q.state = "verifying" /\ q.phase = "components" /\ q.cursor = 0 /\ q.digest = <<>>
        /\ q.counted = [g \in DOMAIN q.counted |-> NoRows] /\ q.total = r.total
        BY <2>1 DEF q, ReleaseFields, FollowInv
  <2>6. KeysDiffer(n) /\ RowsDiffer(n) /\ Fresh(n)
        BY <2>1, <2>4, <2>5 DEF FollowInv, KeysDiffer, RowsDiffer, Fresh
  <2>7. 0 <= q.total[TableOf("components")]
    <3>1. ReleaseInv(n) /\ Tabled(n)
          BY <2>3, <2>4, <2>5 DEF DbInv
    <3>2. \A t \in Tables : n.release.total[t] \in Nat
          BY <2>4, <2>5, <3>1 DEF ReleaseInv, OneBuild
    <3> QED BY <2>4, <3>2, TableIs
  <2>8. DigestAt(n, "components", 0) = <<>>
        BY ReleaseStarts
  <2>9. CountsAt(n, "components", 0) = [g \in DOMAIN n.release.counted |-> NoRows]
        BY CountsStart
  <2>10. DigestsAt(n, n.components, "components", 0)
    <3> SUFFICES ASSUME NEW i \in 1..Len(n.components)
                 PROVE  n.components[i].digest = ComponentDigest(n, i, "components", 0)
        BY DEF DigestsAt
    <3>1. n.components[i].digest = <<Manifest(n)[i].key>>
          BY <2>6, ManifestAt DEF Fresh
    <3> QED BY <3>1, DigestStarts
  <2>11. Followed(n)
        BY <2>4, <2>5, <2>7, <2>8, <2>9, <2>10 DEF Followed
  <2>12. FollowInv(n)
        BY <2>4, <2>5, <2>6, <2>11 DEF FollowInv
  <2> QED BY <2>12 DEF n
<1> QED BY <1>1, <1>2

LEMMA FinalizeFollows ==
    ASSUME NEW d, DbInv(d), FollowInv(d), NEW a, NEW digest
    PROVE  FollowInv(FinalizeRelease(d, a, digest))
<1> DEFINE n == FinalizeRelease(d, a, digest)
           r == d.release
           q == [r EXCEPT !.state = "ready"]
<1>1. n = d \/ (Holds(d, a, "verifying") /\ n = [d EXCEPT !.release = q])
      BY DEF FinalizeRelease
<1>2. CASE n = d
      BY <1>2
<1>3. CASE Holds(d, a, "verifying") /\ n = [d EXCEPT !.release = q]
  <2>1. /\ r.state = "verifying" /\ Tabled(d) /\ DOMAIN r = ReleaseFields
        BY <1>3 DEF Holds, DbInv, ReleaseInv
  <2> HIDE DEF n, q
  <2>2. n.release = q /\ n.components = d.components /\ n.rows = d.rows /\ n.chunks = d.chunks
        BY <1>3, <2>1 DEF Tabled
  <2>3. /\ q.state = "ready" /\ q.phase = r.phase /\ q.cursor = r.cursor /\ q.digest = r.digest
        /\ q.counted = r.counted /\ q.total = r.total
        BY <2>1 DEF q, ReleaseFields
  <2>4. SameTables(d, n)
        BY <2>2, <2>3 DEF SameTables, Manifest
  <2>5. /\ \A i, phase, m : ComponentDigest(n, i, phase, m) = ComponentDigest(d, i, phase, m)
        /\ \A phase, m : DigestAt(n, phase, m) = DigestAt(d, phase, m)
        /\ \A phase, m : CountsAt(n, phase, m) = CountsAt(d, phase, m)
        /\ RowsDiffer(d) => RowsDiffer(n)
        BY <2>4, SameDigests
  <2>6. Followed(n)
        BY <2>1, <2>2, <2>3, <2>5 DEF FollowInv, Followed, DigestsAt
  <2>7. KeysDiffer(n) /\ RowsDiffer(n)
        BY <2>1, <2>2, <2>5 DEF FollowInv, KeysDiffer
  <2>8. FollowInv(n)
        BY <2>2, <2>3, <2>6, <2>7 DEF FollowInv
  <2> QED BY <2>8 DEF n
<1> QED BY <1>1, <1>2, <1>3

LEMMA VerifyFollows ==
    ASSUME NEW d, DbInv(d), FollowInv(d), NEW a0, NEW requested \in Nat
    PROVE  FollowInv(VerifyBatch(d, a0, requested))
<1> DEFINE n == VerifyBatch(d, a0, requested)
           r == d.release
           table == TableOf(r.phase)
           end == IF r.cursor + requested < r.total[table] THEN r.cursor + requested ELSE r.total[table]
           x == Verified(d, end)
           verified == IF r.phase \in Tables THEN [r.verified EXCEPT ![table] = end] ELSE r.verified
           phase == IF end = r.total[table] THEN NextPhase(r.phase) ELSE r.phase
           q == [r EXCEPT !.counted = CountedAfter(d, x), !.digest = x.digest, !.verified = verified,
                          !.cursor = CursorAfter(r, end), !.phase = phase]
<1>1. n = d \/ (/\ Holds(d, a0, "verifying") /\ r.phase # "complete" /\ x.ok
                /\ n = [d EXCEPT !.components = x.components, !.release = q])
      BY DEF VerifyBatch, NextPhase
<1>2. CASE n = d
      BY <1>2
<1>3. CASE /\ Holds(d, a0, "verifying") /\ r.phase # "complete" /\ x.ok
           /\ n = [d EXCEPT !.components = x.components, !.release = q]
  <2>1. r.state = "verifying"
        BY <1>3 DEF Holds
  <2>2. /\ Sound(d) /\ Followed(d) /\ Tabled(d) /\ DOMAIN r = ReleaseFields
        /\ r.phase \in OpenPhases /\ r.cursor \in Nat
    <3> HIDE DEF n, x, q, end, table, phase
    <3> QED BY <1>3, <2>1, VerifyingFacts
  <2>3. r.cursor <= r.total[table] /\ r.total[table] \in Nat
    <3>1. r.total[table] \in Nat
          BY <2>2, TableIs DEF Sound, TotalsNat
    <3> QED BY <2>2, <3>1 DEF Followed
  <2>4. end \in Nat /\ r.cursor <= end /\ end <= r.total[table]
    <3> DEFINE t == r.total[table]
               c == r.cursor
    <3>1. t \in Nat /\ c \in Nat /\ c <= t
          BY <2>2, <2>3
    <3> HIDE DEF t, c
    <3> QED BY <3>1 DEF t, c
  <2> HIDE DEF n, q, x, end
  <2>5. Good(d, Begun(d), r.cursor)
    <3>1. BatchFields \subseteq DOMAIN Begun(d) /\ Follows(d.components, Begun(d))
          BY <2>2 DEF Begun, BatchFields, Follows, Tabled
    <3>2. /\ Begun(d).digest = r.digest /\ Begun(d).counted = r.counted
          /\ Begun(d).components = d.components
          BY DEF Begun
    <3> QED BY <2>2, <3>1, <3>2 DEF Good, Followed
  <2>6. Good(d, x, end)
        BY <2>2, <2>4, <2>5, BatchGood DEF x
  <2>7. /\ Follows(d.components, x)
        /\ x.digest = DigestAt(d, r.phase, end) /\ x.counted = CountsAt(d, r.phase, end)
        /\ DigestsAt(d, x.components, r.phase, end)
        BY <1>3, <2>6 DEF Good
  <2>8. /\ n.release = q /\ n.components = x.components
        /\ n.chunks = d.chunks /\ n.rows = d.rows
        BY <1>3, <2>2 DEF Tabled
  <2>9. /\ q.state = "verifying" /\ q.phase = phase /\ q.total = r.total
        /\ q.cursor = CursorAfter(r, end) /\ q.digest = x.digest /\ q.counted = x.counted
    <3> HIDE DEF verified, phase
    <3> QED BY <2>1, <2>2 DEF q, ReleaseFields, CountedAfter
  <2>10. /\ Len(n.components) = Len(d.components)
         /\ \A i \in 1..Len(d.components) : n.components[i].row = d.components[i].row
        BY <2>7, <2>8 DEF Follows
  <2>11. SameTables(d, n)
    <3>1. Manifest(n) = Manifest(d)
          BY <2>10 DEF Manifest
    <3>2. DOMAIN n.release.counted = DOMAIN r.counted
          BY <2>7, <2>8, <2>9 DEF CountsAt
    <3> QED BY <2>8, <2>9, <3>1, <3>2 DEF SameTables
  <2>12. /\ \A i, p, m : ComponentDigest(n, i, p, m) = ComponentDigest(d, i, p, m)
         /\ \A p, m : DigestAt(n, p, m) = DigestAt(d, p, m)
         /\ \A p, m : CountsAt(n, p, m) = CountsAt(d, p, m)
         /\ RowsDiffer(d) => RowsDiffer(n)
        BY <2>11, SameDigests
  <2>13. KeysDiffer(n) /\ RowsDiffer(n)
        BY <2>2, <2>10, <2>12 DEF Sound, KeysDiffer
  <2>14. /\ DigestAt(d, r.phase, end) = DigestAt(d, phase, q.cursor)
         /\ CountsAt(d, r.phase, end) = CountsAt(d, phase, q.cursor)
         /\ \A i \in 1..Len(d.components) :
               ComponentDigest(d, i, r.phase, end) = ComponentDigest(d, i, phase, q.cursor)
         /\ q.cursor <= r.total[TableOf(phase)]
    <3>1. CASE end = r.total[table]
      <4>1. phase = NextPhase(r.phase) /\ q.cursor = 0
            BY <2>9, <3>1 DEF CursorAfter
      <4> HIDE DEF phase
      <4>2. DigestAt(d, phase, 0) = DigestAt(d, r.phase, end)
            BY <2>2, <3>1, <4>1, DigestOver DEF Sound
      <4>3. RowsDiffer(d)
            BY <2>2 DEF Sound
      <4>4. CountsAt(d, phase, 0) = CountsAt(d, r.phase, end)
            BY <2>2, <3>1, <4>1, <4>3, CountsOver
      <4>5. \A i \in 1..Len(d.components) : ComponentDigest(d, i, phase, 0) = ComponentDigest(d, i, r.phase, end)
        <5> DEFINE l == Len(d.components)
        <5>1. l = r.total["components"] /\ l \in Nat
              BY <2>2 DEF Sound
        <5> HIDE DEF l
        <5>2. \A i \in 1..l : ComponentDigest(d, i, phase, 0) = ComponentDigest(d, i, r.phase, end)
              BY <2>2, <3>1, <4>1, <4>3, <5>1, ComponentOver
        <5> QED BY <5>2 DEF l
      <4>6. 0 <= r.total[TableOf(phase)]
        <5>1. r.total[TableOf(phase)] \in Nat
              BY <2>2, TableIs DEF Sound, TotalsNat
        <5> QED BY <5>1
      <4> QED BY <4>1, <4>2, <4>4, <4>5, <4>6
    <3>2. CASE end # r.total[table]
      <4>1. phase = r.phase /\ q.cursor = end
            BY <2>9, <3>2 DEF CursorAfter
      <4> HIDE DEF phase
      <4> QED BY <2>4, <4>1
    <3> QED BY <3>1, <3>2
  <2>15. Followed(n)
    <3> HIDE DEF phase
    <3>1. n.release.digest = DigestAt(n, phase, q.cursor) /\ n.release.counted = CountsAt(n, phase, q.cursor)
          BY <2>7, <2>8, <2>9, <2>12, <2>14
    <3>2. DigestsAt(n, n.components, phase, q.cursor)
          BY <2>7, <2>8, <2>10, <2>12, <2>14 DEF DigestsAt
    <3> QED BY <2>8, <2>9, <2>14, <3>1, <3>2 DEF Followed
  <2>16. FollowInv(n)
        BY <2>8, <2>9, <2>13, <2>15 DEF FollowInv
  <2> QED BY <2>16 DEF n
<1> QED BY <1>1, <1>2, <1>3

LEMMA RunFollows ==
    ASSUME NEW d, DbInv(d), FollowInv(d), NEW c, CallOk(c)
    PROVE  FollowInv(Run(d, c))
<1>1. CASE Ready(d) \/ d.owner
      BY <1>1 DEF Run
<1>2. CASE ~(Ready(d) \/ d.owner)
  <2>1. CASE c.op = "stage"
        BY <1>2, <2>1, StageFollows DEF Run, CallOk
  <2>2. CASE c.op = "components"
        BY <1>2, <2>2, ComponentsFollow DEF Run
  <2>3. CASE c.op = "regions"
        BY <1>2, <2>3, RegionsFollow DEF Run
  <2>4. CASE c.op = "chunk"
        BY <1>2, <2>4, ChunkFollows DEF Run
  <2>5. CASE c.op = "begin"
        BY <1>2, <2>5, BeginFollows DEF Run
  <2>6. CASE c.op = "verify"
        BY <1>2, <2>6, VerifyFollows DEF Run, CallOk
  <2>7. CASE c.op = "finalize"
        BY <1>2, <2>7, FinalizeFollows DEF Run
  <2> QED BY <2>1, <2>2, <2>3, <2>4, <2>5, <2>6, <2>7 DEF CallOk, Ops
<1> QED BY <1>1, <1>2

LEMMA InitFollows == Init => FollowInv(db)
<1> SUFFICES ASSUME Init PROVE FollowInv(db)
    OBVIOUS
<1>1. db.release.state = "absent" /\ db.components = <<>>
      BY DEF Init, Absent
<1>2. KeysDiffer(db) /\ Fresh(db)
      BY <1>1, EmptyList DEF KeysDiffer, Fresh
<1> QED BY <1>1, <1>2 DEF FollowInv

LEMMA NextFollows == Inv /\ FollowInv(db) /\ [Next]_vars => FollowInv(db')
<1> SUFFICES ASSUME Inv, FollowInv(db), [Next]_vars PROVE FollowInv(db')
    OBVIOUS
<1>1. DbInv(db) /\ ToolsOk(tool) /\ FlightOk(flight)
      BY InvParts
<1>2. CASE db' = db
      BY <1>2
<1>3. ASSUME NEW c, CallOk(c), db' = Run(db, c) PROVE FollowInv(db')
      BY <1>1, <1>3, RunFollows
<1>4. CASE Execute
  <2>1. PICK c \in BagToSet(flight) : db' = Run(db, c)
        BY <1>4 DEF Execute
  <2> QED BY <1>1, <1>3, <2>1 DEF FlightOk
<1>5. CASE CallByHand
  <2>1. PICK a \in Artifact : \E c \in ManualCalls(a) : db' = Run(db, c)
        BY <1>5 DEF CallByHand
  <2>2. PICK c \in ManualCalls(a) : db' = Run(db, c)
        BY <2>1
  <2> QED BY <1>3, <2>2, ManualCallsOk
<1>6. CASE ProvisionOwner
  <2>1. Tabled(db) /\ db' = [db EXCEPT !.owner = TRUE]
        BY <1>1, <1>6 DEF ProvisionOwner, DbInv
  <2>2. /\ db'.components = db.components /\ db'.release = db.release
        /\ db'.chunks = db.chunks /\ db'.rows = db.rows
        BY <2>1 DEF Tabled
  <2> QED BY <2>2, FollowSame
<1>7. ASSUME NEW o \in Operator, Steps(o) PROVE db' = db
      BY <1>7 DEF Steps, Start, Recheck, Submit, Compare
<1>8. LoseCall => db' = db
      BY DEF LoseCall
<1>9. UNCHANGED vars => db' = db
      BY DEF vars
<1> QED BY <1>2, <1>4, <1>5, <1>6, <1>7, <1>8, <1>9 DEF Next

LEMMA OnceByInv == Inv /\ FollowInv(db) => VerifiedOnce
<1> SUFFICES ASSUME Inv, FollowInv(db), db.release.state \notin {"absent", "importing"}
             PROVE  /\ db.release.digest = DigestAt(db, db.release.phase, db.release.cursor)
                    /\ db.release.counted = CountsAt(db, db.release.phase, db.release.cursor)
                    /\ \A i \in 1..Len(db.components) : db.components[i].digest =
                          ComponentDigest(db, i, db.release.phase, db.release.cursor)
    BY DEF VerifiedOnce
<1>1. db.release.state \in {"verifying", "ready"}
      BY DEF Inv, DbInv, ReleaseInv
<1>2. Followed(db)
      BY <1>1 DEF FollowInv
<1> QED BY <1>2 DEF Followed, DigestsAt

(* However it is split into batches, repeated, lost or taken over by another  *)
(* copy of the tool, the verification takes in every stored row once and in   *)
(* order, for the release, for the row's component and for its region.        *)
THEOREM VerifiedOnceAlways == Spec => []VerifiedOnce
<1>1. Init => Inv /\ FollowInv(db)
      BY InitInv, InitFollows
<1>2. Inv /\ FollowInv(db) /\ [Next]_vars => Inv' /\ FollowInv(db)'
      BY NextInv, NextFollows
<1>3. Inv /\ FollowInv(db) => VerifiedOnce
      BY OnceByInv
<1> QED BY <1>1, <1>2, <1>3, PTL DEF Spec
=============================================================================

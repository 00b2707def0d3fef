---------------------------- MODULE AtlasImport -----------------------------
(* The import of the atlas into the PTR realm.  Administrators' reducers      *)
(* (spacetimedb/ptr/src/atlasImportReducers.ts, atlasAuthority.ts) stage a    *)
(* release, take its components, regions and chunks in order, verify the      *)
(* stored rows in batches and seal the release.  The tool that calls them     *)
(* (scripts/ptr-production-import-core.ts) plans one call at a time from the  *)
(* status it reads, reads it once more, submits, and compares the status      *)
(* afterwards with what the call should have done.                            *)
(*                                                                            *)
(* A reducer is one transaction: here a function of the database that returns *)
(* it unchanged when the reducer throws or finds its work done.  Calls time   *)
(* out, get lost and arrive late, the tool is stopped and started again, and  *)
(* several may run.  A digest is the sequence of what it was computed from.   *)
EXTENDS Integers, FiniteSets, Bags, SequencesExt

CONSTANTS
    None,
    Operator,   \* the running copies of the tool
    Artifact,   \* the builds of the release an operator may have been given
    Content,    \* what a build consists of
    BatchRows,  \* how many rows a copy of the tool asks for in a call
    MaxFlight,  \* BOUND on the calls under way
    MaxLost,    \* BOUND on the calls that are lost
    MaxManual   \* BOUND on the calls administrators make by hand

Kinds == {"cells", "slots", "resources"}
Tables == Kinds \cup {"components", "chunks"}

Regions(a) == DOMAIN Content[a].regions

IsList(s) == s \in Seq(ToSet(s))

ASSUME AtlasAssumption ==
    /\ BatchRows \in [Operator -> Nat \ {0}]
    /\ {MaxFlight, MaxLost, MaxManual} \subseteq Nat
    /\ \A a, b \in Artifact : Regions(a) = Regions(b)
    /\ \A a \in Artifact :
          /\ IsList(Content[a].components) /\ IsList(Content[a].chunks)
          /\ \A c \in ToSet(Content[a].components) : c.key # None
          /\ \A c \in ToSet(Content[a].chunks) : \A k \in Kinds : IsList(c.rows[k])

VARIABLES
    db,       \* the release, the tables it fills, and whether there is an owner
    tool,     \* the state of each copy of the tool
    flight,   \* the calls that were submitted and have not run
    lost, manual

bounds == <<lost, manual>>
vars == <<db, tool, flight, bounds>>

-----------------------------------------------------------------------------
(* A build: its components, its regions' totals, and its chunks, which hold   *)
(* the cells, slots and resources.                                            *)
Total ==
    [a \in Artifact |->
        [t \in Tables |->
            CASE t = "components" -> Len(Content[a].components)
              [] t = "chunks"     -> Len(Content[a].chunks)
              [] OTHER -> FoldLeft(LAMBDA n, c : n + Len(c.rows[t]), 0, Content[a].chunks)]]

Sha ==
    [a \in Artifact |->
        <<[id |-> Content[a].id, build |-> Content[a].build]>> \o Content[a].chunks
           \o <<Content[a].components, Content[a].regions>>]

NoRows == [k \in Kinds |-> 0]

StagedRelease(a) ==
    [id |-> Content[a].id, epoch |-> Content[a].epoch, sha |-> Sha[a],
     total |-> Total[a], state |-> "importing",
     regions |-> None, counted |-> [r \in Regions(a) |-> NoRows],
     phase |-> "components", cursor |-> 0, digest |-> <<Sha[a][1]>>,
     verified |-> [t \in Tables |-> 0]]

Absent == [state |-> "absent"]

StageRelease(d, a) ==
    IF d.release.state = "absent" THEN [d EXCEPT !.release = StagedRelease(a)] ELSE d

(* requireRelease *)
Holds(d, a, state) == d.release.state = state /\ d.release.epoch = Content[a].epoch

-----------------------------------------------------------------------------
(* The rows come in. *)
Manifest(d) == [i \in 1..Len(d.components) |-> d.components[i].row]

Expected(list, k) == FoldLeft(LAMBDA n, c : n + c.expected[k], 0, list)

Planned(d, k) == FoldLeft(LAMBDA n, c : n + c.row.expected[k], 0, d.components)

NewComponent(c) ==
    [row |-> c, imported |-> NoRows, verified |-> NoRows, phase |-> "cells", digest |-> <<c.key>>]

(* A batch is taken as a whole, in the order of the ordinals; what is stored  *)
(* or comes twice is passed over, and refused if it differs.                  *)
ImportComponents(d, a, batch) ==
    LET stored == ToSet(Manifest(d))
        fresh == {c \in ToSet(batch) : c.key \notin {e.key : e \in stored}}
        count == Cardinality(fresh)
        of(i) == {c \in fresh : c.ord = Len(d.components) + i - 1}
        new(i) == CHOOSE c \in of(i) : TRUE
        all == d.components \o [i \in 1..count |-> NewComponent(new(i))]
    IN  IF /\ Holds(d, a, "importing")
           /\ ToSet(batch) \ fresh \subseteq stored
           /\ count \in 0..(d.release.total["components"] - Len(d.components))
           /\ \A i \in 1..count : of(i) # {}
           /\ \A i, j \in DOMAIN all : all[i].row.key = all[j].row.key => i = j
           /\ \A k \in Kinds : Planned([d EXCEPT !.components = all], k) <= d.release.total[k]
        THEN [d EXCEPT !.components = all]
        ELSE d

ImportRegions(d, a) ==
    IF Holds(d, a, "importing") /\ d.release.regions = None
    THEN [d EXCEPT !.release.regions = Content[a].regions] ELSE d

OfComponent(list, c) == Len(SelectSeq(list, LAMBDA r : r.component = c.row.key))

WithRows(c, chunk) ==
    [c EXCEPT !.imported = [k \in Kinds |-> @[k] + OfComponent(chunk.rows[k], c)]]

RowsFit(d, chunk) ==
    /\ \A i \in 1..Len(chunk.rows["cells"]) :
          chunk.rows["cells"][i].ord = Cardinality(d.rows["cells"]) + i - 1
    /\ \A k \in Kinds : \A r \in ToSet(chunk.rows[k]) :
          /\ r.ord \in Nat /\ r.ord < d.release.total[k]
          /\ \A s \in d.rows[k] : s.ord # r.ord /\ s.id # r.id
          /\ \/ k = "cells" /\ r.component = None
             \/ \E c \in ToSet(Manifest(d)) : c.key = r.component
    /\ \A k \in Kinds : \A i, j \in DOMAIN chunk.rows[k] :
          i # j => /\ chunk.rows[k][i].ord # chunk.rows[k][j].ord
                   /\ chunk.rows[k][i].id # chunk.rows[k][j].id
    /\ \A c \in ToSet(d.components) : \A k \in Kinds : WithRows(c, chunk).imported[k] <= c.row.expected[k]

ImportChunk(d, a, chunk) ==
    IF /\ Holds(d, a, "importing")
       /\ chunk.release = d.release.id
       /\ chunk.ord < d.release.total["chunks"]
       /\ \A c \in ToSet(d.chunks) : c.handle # chunk.handle
       /\ chunk.ord = Len(d.chunks)
       /\ RowsFit(d, chunk)
    THEN [d EXCEPT !.chunks = Append(@, chunk),
                   !.rows = [k \in Kinds |-> @[k] \cup ToSet(chunk.rows[k])],
                   !.components = [i \in 1..Len(@) |-> WithRows(@[i], chunk)],
                   !.release.digest = Append(@, chunk)]
    ELSE d

-----------------------------------------------------------------------------
(* aggregateImportsExact *)
Passable(rows) == {c \in rows : c.component # None}

ImportsExact(d) ==
    LET r == d.release
    IN  /\ r.state # "absent" /\ r.regions # None
        /\ Len(d.components) = r.total["components"]
        /\ Len(d.chunks) = r.total["chunks"]
        /\ \A k \in Kinds : Cardinality(d.rows[k]) = r.total[k]
        /\ Planned(d, "cells") = Cardinality(Passable(d.rows["cells"]))
        /\ \A k \in Kinds \ {"cells"} : Planned(d, k) = r.total[k]

SumOf(f) == FoldFunction(+, 0, f)

RegionTotalsExact(r) ==
    \A k \in Kinds : SumOf([x \in DOMAIN r.regions |-> r.regions[x][k]]) = r.total[k]

(* Mutant: the counts are thought to be enough. *)
AnySha(d) == TRUE

ShaMatches(d) == d.release.digest \o <<Manifest(d), d.release.regions>> = d.release.sha

BeginVerification(d, a) ==
    IF Holds(d, a, "importing") /\ ImportsExact(d) /\ RegionTotalsExact(d.release) /\ ShaMatches(d)
    THEN [d EXCEPT !.release.state = "verifying", !.release.digest = <<>>] ELSE d

Phases == <<"components", "chunks", "cells", "component-slots", "slots",
            "component-resources", "resources", "component-finalize", "complete">>

(* The table a phase goes through. *)
TableOf(phase) == IF phase \in Tables THEN phase ELSE "components"

RowAt(d, k, n) == CHOOSE r \in d.rows[k] : r.ord = n

(* A batch goes through its rows with the components, the regions' counts and *)
(* the digest it has so far, and fails as a whole.                            *)
Counted(x, k, r) == [x EXCEPT !.counted[r.region][k] = @ + 1,
                              !.ok = @ /\ x.counted[r.region][k] < x.limit[r.region][k]]

(* Of a component's record the digest takes in what verification moves. *)
Taken(phase, c) == <<phase, c.row.key, c.phase, c.digest>>

(* A resource is the next node of the group of the one before it, or the      *)
(* first one of a later group.                                                *)
Group(d, r) == <<(CHOOSE c \in ToSet(Manifest(d)) : c.key = r.component).ord, r.region, r.kind>>

Later(g, h) == \E i \in 1..3 : g[i] < h[i] /\ \A j \in 1..(i - 1) : g[j] = h[j]

ResourceFollows(d, n) ==
    LET r == RowAt(d, "resources", n)
        before == RowAt(d, "resources", n - 1)
    IN  IF n = 0 THEN r.node = 0
        ELSE /\ \E s \in d.rows["resources"] : s.ord = n - 1
             /\ \/ Group(d, before) = Group(d, r) /\ r.node = before.node + 1
                \/ Later(Group(d, before), Group(d, r)) /\ r.node = 0

VerifyRow(d, k, n, x) ==
    LET r == RowAt(d, k, n)
        its == {j \in 1..Len(x.components) : x.components[j].row.key = r.component}
        i == CHOOSE j \in its : TRUE
        c == x.components[i]
        y == Counted([x EXCEPT !.digest = Append(@, <<k, r>>)], k, r)
    IN  IF \A s \in d.rows[k] : s.ord # n THEN [x EXCEPT !.ok = FALSE]
        ELSE IF r.component = None THEN y
        ELSE IF its = {} \/ (k = "resources" /\ ~ResourceFollows(d, n)) THEN [x EXCEPT !.ok = FALSE]
        ELSE [y EXCEPT !.components[i] = [c EXCEPT !.verified[k] = @ + 1, !.digest = Append(@, r)],
                       !.ok = @ /\ c.phase = k /\ c.verified[k] < c.row.expected[k]]

VerifyComponent(phase, n, x) ==
    LET i == n + 1
        c == x.components[i]
        to(k) == [c EXCEPT !.phase = k, !.digest = Append(@, k)]
        step(y, ok) == [x EXCEPT !.components[i] = y, !.digest = Append(@, Taken(phase, y)), !.ok = @ /\ ok]
    IN  CASE phase = "components" -> step(c, c.imported = c.row.expected /\ c.phase = "cells")
          [] phase = "component-slots" ->
               step(to("slots"), c.phase = "cells" /\ c.verified["cells"] = c.row.expected["cells"])
          [] phase = "component-resources" ->
               step(to("resources"), c.phase = "slots" /\ c.verified["slots"] = c.row.expected["slots"])
          [] phase = "component-finalize" ->
               step([c EXCEPT !.phase = "complete"],
                    c.phase = "resources" /\ c.verified = c.row.expected /\ c.digest = c.row.sha)

VerifyChunk(d, n, x) ==
    LET c == d.chunks[n + 1]
    IN  [x EXCEPT !.digest = Append(@, <<"chunks", c>>),
                  !.ok = @ /\ \A k \in Kinds : ToSet(c.rows[k]) \subseteq d.rows[k]]

(* Mutant: the release is written as it was read before the batch. *)
CountedBefore(d, x) == d.release.counted

CountedAfter(d, x) == x.counted

(* Mutant: the cursor goes on into the next phase. *)
CursorKept(r, end) == end

CursorAfter(r, end) == IF end = r.total[TableOf(r.phase)] THEN 0 ELSE end

VerifyOne(d, n, x) ==
    CASE d.release.phase \in Kinds  -> VerifyRow(d, d.release.phase, n, x)
      [] d.release.phase = "chunks" -> VerifyChunk(d, n, x)
      [] OTHER                      -> VerifyComponent(d.release.phase, n, x)

(* The rows from the cursor up to an end, one after another.                  *)
Verified(d, end) ==
    LET r == d.release
    IN  FoldLeft(LAMBDA x, n : VerifyOne(d, n, x),
                 [components |-> d.components, counted |-> r.counted, limit |-> r.regions,
                  digest |-> r.digest, ok |-> TRUE],
                 [j \in 1..(end - r.cursor) |-> r.cursor + j - 1])

VerifyBatch(d, a, requested) ==
    LET r == d.release
        table == TableOf(r.phase)
        end == IF r.cursor + requested < r.total[table] THEN r.cursor + requested ELSE r.total[table]
        x == Verified(d, end)
        next == Phases[1 + CHOOSE j \in 1..Len(Phases) : Phases[j] = r.phase]
    IN  IF ~Holds(d, a, "verifying") \/ r.phase = "complete" \/ ~x.ok THEN d
        ELSE [d EXCEPT !.components = x.components,
                       !.release = [r EXCEPT !.counted = CountedAfter(d, x), !.digest = x.digest,
                                             !.verified = IF r.phase \in Tables THEN [@ EXCEPT ![table] = end] ELSE @,
                                             !.cursor = CursorAfter(r, end),
                                             !.phase = IF end = r.total[table] THEN next ELSE @]]

FinalizeRelease(d, a, digest) ==
    LET r == d.release
    IN  IF /\ Holds(d, a, "verifying")
           /\ r.sha = Sha[a]
           /\ r.digest = digest
           /\ r.phase = "complete"
           /\ r.verified = r.total
           /\ r.counted = r.regions
        THEN [d EXCEPT !.release.state = "ready"] ELSE d

-----------------------------------------------------------------------------
(* A call of the reducers, behind importBoundary. *)
Ready(d) == d.release.state = "ready"

Call(op, a, list, n, digest) == [op |-> op, artifact |-> a, list |-> list, n |-> n, digest |-> digest]

Run(d, c) ==
    IF Ready(d) \/ d.owner THEN d
    ELSE CASE c.op = "stage"      -> StageRelease(d, c.artifact)
           [] c.op = "components" -> ImportComponents(d, c.artifact, c.list)
           [] c.op = "regions"    -> ImportRegions(d, c.artifact)
           [] c.op = "chunk"      -> ImportChunk(d, c.artifact, c.list[1])
           [] c.op = "begin"      -> BeginVerification(d, c.artifact)
           [] c.op = "verify"     -> VerifyBatch(d, c.artifact, c.n)
           [] c.op = "finalize"   -> FinalizeRelease(d, c.artifact, c.digest)

-----------------------------------------------------------------------------
(* The tool.  The status it reads: *)
Binding(a) == [id |-> Content[a].id, epoch |-> Content[a].epoch, sha |-> Sha[a],
               total |-> Total[a]]

Status(d) ==
    LET r == IF d.release = Absent THEN [state |-> "absent", phase |-> "components", cursor |-> 0,
                                         digest |-> <<>>, regions |-> None, verified |-> [t \in Tables |-> 0]]
             ELSE d.release
    IN  [owner |-> d.owner,
         binding |-> IF d.release = Absent THEN None
                     ELSE [id |-> r.id, epoch |-> r.epoch, sha |-> r.sha, total |-> r.total],
         state |-> r.state, phase |-> r.phase, cursor |-> r.cursor, digest |-> r.digest,
         verified |-> r.verified, regions |-> r.regions # None, exact |-> ImportsExact(d),
         size |-> [components |-> Len(d.components), chunks |-> Len(d.chunks),
                   cells |-> Cardinality(d.rows.cells), slots |-> Cardinality(d.rows.slots),
                   resources |-> Cardinality(d.rows.resources)],
         expected |-> [cells |-> Planned(d, "cells"), slots |-> Planned(d, "slots"),
                       resources |-> Planned(d, "resources")],
         passable |-> Cardinality(Passable(d.rows["cells"]))]

(* assertBoundStatus *)
Bound(s, a) == ~s.owner /\ s.binding \in {None, Binding(a)}

(* planNextOperation; None when there is nothing to do or no way to go on.    *)
Plan(s, a, n) ==
    LET size == s.size["components"]
        upto == IF size + n < Total[a]["components"] THEN size + n ELSE Total[a]["components"]
    IN  CASE s.state = "absent" -> Call("stage", a, <<>>, 0, None)
          [] s.state = "importing" /\ size < Total[a]["components"] ->
               Call("components", a, SubSeq(Content[a].components, size + 1, upto), 0, None)
          [] s.state = "importing" /\ size >= Total[a]["components"] /\ ~s.regions ->
               Call("regions", a, <<>>, 0, None)
          [] s.state = "importing" /\ size >= Total[a]["components"] /\ s.regions ->
               IF s.size["chunks"] < Total[a]["chunks"]
               THEN Call("chunk", a, <<Content[a].chunks[s.size["chunks"] + 1]>>, 0, None)
               ELSE IF s.exact THEN Call("begin", a, <<>>, 0, None) ELSE None
          [] s.state = "verifying" /\ s.phase # "complete" -> Call("verify", a, <<>>, n, None)
          [] s.state = "verifying" /\ s.phase = "complete" -> Call("finalize", a, <<>>, 0, s.digest)
          [] s.state = "ready" -> None

(* importOperationPostcondition: t is what s must have become. *)
Advanced(c, s, t) ==
    LET only(fields) == \A f \in DOMAIN s \ (fields \cup {"expected", "passable"}) : t[f] = s[f]
        more(k) == IF k \in Kinds THEN Len(c.list[1].rows[k]) ELSE IF k = "chunks" THEN 1 ELSE 0
    IN  CASE c.op = "stage" ->
               /\ only({"binding", "state", "digest"})
               /\ t.state = "importing" /\ t.binding = Binding(c.artifact)
               /\ t.digest # s.digest /\ ~t.exact
               /\ t.passable = 0 /\ \A k \in Kinds : t.expected[k] = 0
          [] c.op = "components" ->
               /\ only({"size"})
               /\ t.size = [s.size EXCEPT !["components"] = @ + Len(c.list)]
               /\ \A k \in Kinds : t.expected[k] = s.expected[k] + Expected(c.list, k)
          [] c.op = "regions" -> only({"regions"}) /\ t.regions /\ ~s.regions
          [] c.op = "chunk" ->
               /\ only({"size", "exact", "digest"})
               /\ t.size = [k \in Tables |-> s.size[k] + more(k)]
               /\ t.exact = (t.regions /\ t.size = Total[c.artifact])
               /\ t.digest # s.digest
               /\ t.passable = s.passable + Cardinality(Passable(ToSet(c.list[1].rows["cells"])))
          [] c.op = "begin" ->
               /\ only({"state", "phase", "cursor", "digest"})
               /\ s.state = "importing" /\ s.exact
               /\ t.state = "verifying" /\ t.phase = "components" /\ t.cursor = 0
               /\ t.digest # s.digest
          [] c.op = "verify" ->
               LET total == s.binding.total[TableOf(s.phase)]
                   end == IF s.cursor + c.n < total THEN s.cursor + c.n ELSE total
               IN  /\ only({"phase", "cursor", "digest", "verified"})
                   /\ s.state = "verifying" /\ s.phase # "complete" /\ s.cursor <= total
                   /\ t.cursor = (IF end = total THEN 0 ELSE end)
                   /\ t.phase = (IF end = total THEN Phases[1 + CHOOSE j \in 1..Len(Phases) : Phases[j] = s.phase]
                                 ELSE s.phase)
                   /\ end > s.cursor => t.digest # s.digest
                   /\ s.phase \in Tables => s.verified[s.phase] = s.cursor
                   /\ t.verified = [f \in Tables |-> IF f = s.phase THEN end ELSE s.verified[f]]
          [] c.op = "finalize" ->
               /\ only({"state"})
               /\ s.state = "verifying" /\ s.phase = "complete" /\ t.state = "ready"

Off == [at |-> "off", artifact |-> None, status |-> None, call |-> None]

(* A copy has planned its next call from a status. *)
Goes(o, at, a, status) ==
    tool' = [tool EXCEPT ![o] = [at |-> at, artifact |-> a, status |-> status,
                                 call |-> Plan(status, a, BatchRows[o])]]

TurnsOff(o) == tool' = [tool EXCEPT ![o] = Off]

(* The tool is started with a build, unless the status speaks of another one  *)
(* or says that it is done.                                                   *)
Start(o, a) ==
    /\ tool[o].at = "off"
    /\ UNCHANGED <<db, flight, bounds>>
    /\ \E s \in {Status(db)} : Bound(s, a) /\ s.state # "ready" /\ Goes(o, "plan", a, s)

(* Before it submits it reads the status again and plans again.               *)
Recheck(o) ==
    LET a == tool[o].artifact
    IN  /\ tool[o].at = "plan"
        /\ UNCHANGED <<db, flight, bounds>>
        /\ \E fresh \in {Status(db)} :
              IF ~Bound(fresh, a) \/ tool[o].call = None THEN TurnsOff(o)
              ELSE Goes(o, IF Plan(fresh, a, BatchRows[o]) = tool[o].call THEN "submit" ELSE "plan", a, fresh)

Submit(o) ==
    /\ tool[o].at = "submit"
    /\ BagCardinality(flight) < MaxFlight
    /\ UNCHANGED <<db, bounds>>
    /\ flight' = flight (+) SetToBag({tool[o].call})
    /\ tool' = [tool EXCEPT ![o].at = "wait"]

(* The call has answered, or timed out and may still arrive; either way the   *)
(* status has to show what it was for, else the tool ends.  (A tool that is   *)
(* stopped elsewhere is one that ends here without having submitted.)         *)
Compare(o) ==
    /\ tool[o].at = "wait"
    /\ UNCHANGED <<db, flight, bounds>>
    /\ \E after \in {Status(db)} :
          IF /\ Bound(after, tool[o].artifact)
             /\ Advanced(tool[o].call, tool[o].status, after)
             /\ after.state # "ready"
          THEN Goes(o, "plan", tool[o].artifact, after) ELSE TurnsOff(o)

-----------------------------------------------------------------------------
(* The realm runs the calls in any order. *)
Arrives(c) == flight' = flight (-) SetToBag({c})

Execute ==
    \E c \in BagToSet(flight) :
        /\ Arrives(c)
        /\ db' = Run(db, c)
        /\ UNCHANGED <<tool, bounds>>

LoseCall ==
    \E c \in BagToSet(flight) :
        /\ lost < MaxLost
        /\ lost' = lost + 1
        /\ Arrives(c)
        /\ UNCHANGED <<db, tool, manual>>

(* An administrator calls a reducer without the tool. *)
ManualCalls(a) ==
    {Call("components", a, Content[a].components, 0, None), Call("regions", a, <<>>, 0, None),
     Call("begin", a, <<>>, 0, None), Call("verify", a, <<>>, 1, None)}
        \cup {Call("chunk", a, <<chunk>>, 0, None) : chunk \in ToSet(Content[a].chunks)}

CallByHand ==
    \E a \in Artifact : \E c \in ManualCalls(a) :
        /\ manual < MaxManual
        /\ manual' = manual + 1
        /\ db' = Run(db, c)
        /\ UNCHANGED <<tool, flight, lost>>

(* adminProvisionPtrOwnerV1 *)
ProvisionOwner ==
    /\ Ready(db) /\ ImportsExact(db) /\ ~db.owner
    /\ db' = [db EXCEPT !.owner = TRUE]
    /\ UNCHANGED <<tool, flight, bounds>>

Init ==
    /\ db = [release |-> Absent, components |-> <<>>, chunks |-> <<>>,
             rows |-> [k \in Kinds |-> {}], owner |-> FALSE]
    /\ tool = [o \in Operator |-> Off]
    /\ flight = EmptyBag
    /\ lost = 0 /\ manual = 0

Steps(o) == (\E a \in Artifact : Start(o, a)) \/ Recheck(o) \/ Submit(o) \/ Compare(o)

Next ==
    \/ \E o \in Operator : Steps(o)
    \/ Execute \/ LoseCall \/ CallByHand \/ ProvisionOwner

Spec == Init /\ [][Next]_vars

(* The tool is started again until the release is ready, and a call that was *)
(* submitted is under way for a finite time: in the end it runs or is lost.   *)
FairSpec ==
    Spec /\ (\A o \in Operator : WF_vars(Steps(o)))
         /\ WF_flight(\E c \in BagToSet(flight) : Arrives(c))

-----------------------------------------------------------------------------
(* What the verification has gone through at row n of a phase.                *)
PhaseNumber(phase) == CHOOSE j \in 1..Len(Phases) : Phases[j] = phase

Gone(d, k, phase, n) ==
    {x \in d.rows[k] : PhaseNumber(k) < PhaseNumber(phase) \/ (k = phase /\ x.ord < n)}

(* The rows of S by their ordinals: row j has j - 1 rows of S before it. *)
InOrder(S) ==
    LET place(j) == {r \in S : Cardinality({s \in S : s.ord < r.ord}) = j - 1}
    IN  [j \in 1..Cardinality(S) |-> CHOOSE r \in place(j) : TRUE]

(* Component i's own digest: its rows, and the phases it has been taken to.   *)
ComponentDigest(d, i, phase, n) ==
    LET key == Manifest(d)[i].key
        own(k) == InOrder({x \in Gone(d, k, phase, n) : x.component = key})
        mark(at, m) == IF PhaseNumber(at) < PhaseNumber(phase) \/ (at = phase /\ i <= n) THEN <<m>> ELSE <<>>
    IN  <<key>> \o own("cells") \o mark("component-slots", "slots") \o own("slots")
          \o mark("component-resources", "resources") \o own("resources")

PhaseAfter(phase) ==
    CASE phase = "components" -> "cells" [] phase = "component-slots" -> "slots"
      [] phase = "component-resources" -> "resources" [] phase = "component-finalize" -> "complete"

Line(d, phase, i) ==
    CASE phase \in Kinds -> <<phase, RowAt(d, phase, i - 1)>>
      [] phase = "chunks" -> <<phase, d.chunks[i]>>
      [] OTHER -> <<phase, Manifest(d)[i].key, PhaseAfter(phase), ComponentDigest(d, i, phase, i)>>

Lines(d, phase, n) == [i \in 1..n |-> Line(d, phase, i)]

AllLines(d, j) == Lines(d, Phases[j], d.release.total[TableOf(Phases[j])])

DigestAt(d, phase, n) ==
    FlattenSeq([j \in 1..(PhaseNumber(phase) - 1) |-> AllLines(d, j)]) \o Lines(d, phase, n)

CountsAt(d, phase, n) ==
    [g \in DOMAIN d.release.counted |->
        [k \in Kinds |-> Cardinality({x \in Gone(d, k, phase, n) : x.region = g})]]

(* However it was split into batches, repeated or taken over by another copy, *)
(* the verification takes in every stored row once and in order, for the      *)
(* release and for the row's component, and counts it once for its region:    *)
(* the digest the operator approves is that of the tables                     *)
(* (verifyGreaterRealmBatchV1).                                               *)
VerifiedOnce ==
    LET r == db.release
    IN  r.state \notin {"absent", "importing"} =>
          /\ r.digest = DigestAt(db, r.phase, r.cursor)
          /\ r.counted = CountsAt(db, r.phase, r.cursor)
          /\ \A i \in 1..Len(db.components) :
                db.components[i].digest = ComponentDigest(db, i, r.phase, r.cursor)

(* A sealed atlas is one approved build, whole, and verified to the end; an   *)
(* owner moves in only then (finalizeGreaterRealmReleaseV1, importBoundary).  *)
ReadyIsApproved ==
    /\ db.owner => Ready(db)
    /\ Ready(db) =>
         \E a \in Artifact :
            /\ db.release.sha = Sha[a]
            /\ Manifest(db) = Content[a].components
            /\ db.chunks = Content[a].chunks
            /\ db.release.regions = Content[a].regions
            /\ \A c \in ToSet(db.components) : c.phase = "complete"
            /\ \A k \in Kinds : db.rows[k] = UNION {ToSet(c.rows[k]) : c \in ToSet(Content[a].chunks)}

(* A row of another build that a call by hand has put in can never be taken   *)
(* out; without one, whatever is lost, late or stopped, a staged release gets *)
(* ready in the end (planNextOperation, the retries of the reducers).         *)
Foreign ==
    db.release # Absent /\ ~\E a \in Artifact :
        /\ db.release.sha = Sha[a]
        /\ db.chunks = SubSeq(Content[a].chunks, 1, Len(db.chunks))
        /\ Manifest(db) = SubSeq(Content[a].components, 1, Len(db.components))
        /\ db.release.regions \in {None, Content[a].regions}

ImportGetsReady == (db.release # Absent) ~> (Ready(db) \/ Foreign)
=============================================================================

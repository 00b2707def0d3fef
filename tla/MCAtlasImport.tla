--------------------------- MODULE MCAtlasImport ----------------------------
(* A small instance of AtlasImport for TLC: two builds under the same public  *)
(* name with the same rows, which differ in a chunk's levels of detail.       *)
EXTENDS AtlasImport

CONSTANTS o1, o2, b1, b2

North == 0
South == 1

Row(id, ord, component, region) ==
    [id |-> id, ord |-> ord, component |-> component, region |-> region]

CellsOf == << <<Row("w1", 0, "c1", North), Row("w2", 1, None, North)>>, <<Row("w3", 2, "c2", South)>> >>
SlotsOf == << <<Row("s1", 0, "c1", North)>>, <<Row("s2", 1, "c2", South)>> >>
Node(id, ord, component, region) ==
    [id |-> id, ord |-> ord, component |-> component, region |-> region, kind |-> 0, node |-> 0]

NodesOf == << <<Node("n1", 0, "c1", North)>>, <<Node("n2", 1, "c2", South)>> >>

Chunk(build, i) ==
    [release |-> "atlas", handle |-> i, ord |-> i - 1, detail |-> IF i = 2 THEN build ELSE b1,
     rows |-> [k \in Kinds |-> CASE k = "cells" -> CellsOf[i] [] k = "slots" -> SlotsOf[i]
                                 [] k = "resources" -> NodesOf[i]]]

OneEach == [k \in Kinds |-> 1]

Component(i, key) ==
    [key |-> key, ord |-> i - 1, expected |-> OneEach,
     sha |-> <<key, CellsOf[i][1], "slots", SlotsOf[i][1], "resources", NodesOf[i][1]>>]

MCContent ==
    [a \in Artifact |->
        [id |-> "atlas", epoch |-> 1, build |-> a,
         components |-> <<Component(1, "c1"), Component(2, "c2")>>,
         chunks |-> <<Chunk(a, 1), Chunk(a, 2)>>,
         regions |-> [g \in {North, South} |->
                        IF g = North THEN [OneEach EXCEPT !["cells"] = 2] ELSE OneEach]]]

MCBatchRows == [o \in Operator |-> IF o = o1 THEN 2 ELSE 3]
=============================================================================

----------------------------- MODULE MCDagWalks -----------------------------
(* Model-checking instance of DagWalks: every map over three IDs with up to *)
(* two parents each, and every map of two events with one parent and one    *)
(* child each whose references can also lead to a third, missing one; and   *)
(* one map for what the documents promise.                                  *)
EXTENDS DagWalks

CONSTANTS a, b, c

Events(types, spawners, parents, children) ==
    [type : types, parentID : spawners, parents : parents, children : children, beacon : {NoAnchor}]

Maps(ids, records) == UNION {[S -> records] : S \in SUBSET ids}

\* Cycles and diamonds through Parents.
SearchStores ==
    Maps(ID, Events({"MainEvent"}, {NoID}, BoundedSeq(ID, 2), {<< >>}))

\* Types, spawners and children, dangling ones included.
MixedStores ==
    Maps({a, b}, Events({"MainEvent"}, {NoID}, BoundedSeq(ID, 1), BoundedSeq(ID, 1))
                 \cup Events({"SubEvent"}, {NoID, a, b}, BoundedSeq({a, b}, 1), BoundedSeq(ID, 1)))

\* Families of sub-events with shared and repeated children.
FamilyStores ==
    Maps(ID, Events({"MainEvent"}, {NoID}, {<< >>}, BoundedSeq(ID, 2))
             \cup Events({"SubEvent"}, {a}, {<< >>}, BoundedSeq(ID, 2)))

MCStores == SearchStores \cup MixedStores \cup FamilyStores

\* What an import can bring in: event a refers to c, which it spawned, and b to
\* a, which has the later anchor.
FaultyStore ==
    (a :> [type |-> "MainEvent", parentID |-> NoID, parents |-> <<c>>,
           children |-> <<c, b>>, beacon |-> 2])
    @@ (b :> [type |-> "MainEvent", parentID |-> NoID, parents |-> <<a>>,
              children |-> << >>, beacon |-> 1])
    @@ (c :> [type |-> "SubEvent", parentID |-> a, parents |-> << >>,
              children |-> <<a>>, beacon |-> NoAnchor])

FaultyStores == {FaultyStore}

IDSet == {a, b, c}

=============================================================================

----------------------------- MODULE EventGraph -----------------------------
(***************************************************************************)
(* What a DAG of events promises whoever uses it: events enter one after   *)
(* the other, each after all it refers to, and are never taken out or      *)
(* changed, unless the whole graph is replaced by a copy made of it        *)
(* earlier.                                                                *)
(*                                                                         *)
(* MemoryDAG implements this specification, its snapshots being the        *)
(* copies; EventPool implements it without copies, since its run loop is   *)
(* the only writer.                                                        *)
(***************************************************************************)
EXTENDS DagStore

VARIABLES
    graph,   \* the events, a store
    copies   \* earlier graphs that can be brought back

Init == graph = EmptyStore /\ copies = {}

\* A call that adds an event, or fails and leaves links, or anchors an event.
Grow == Grows(graph, graph') /\ UNCHANGED copies

Copy == copies' = copies \cup {graph} /\ UNCHANGED graph

Restore == graph' \in copies /\ UNCHANGED copies

Next == Grow \/ Copy \/ Restore

Spec == Init /\ [][Next]_<<graph, copies>>

=============================================================================

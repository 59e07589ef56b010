------------------------------ MODULE DagWalks ------------------------------
(***************************************************************************)
(* The two recursive walks of memoryDAG (dag/memory.go): Verify, a scan of *)
(* every reference and a depth-first search for cycles, and GetSubEvents.  *)
(*                                                                         *)
(* Both hold the read lock from the first line to the last, so the map is  *)
(* fixed while they walk; what varies is the order in which Go iterates    *)
(* over it.  A map can hold anything: Import takes what the snapshot says  *)
(* without looking at it, and callers hold pointers to the stored events.  *)
(* A step is one round of a loop or one return of the recursion.           *)
(***************************************************************************)
EXTENDS DagStore

CONSTANTS
    ID,        \* event IDs, those of events that are not there included
    Stores     \* the maps the walks are started on

ASSUME StoresAssumption == \A s \in Stores : IsStore(s, ID)

VARIABLES
    store,     \* d.events
    call,      \* "verify", or "subEvents": GetSubEvents(root)
    root,
    pc,        \* "scan", "walk", or what was returned: "ok", "dangling", "cycle"
    scanned,   \* the events that Verify's first loop has checked
    visited,   \* visited
    stack,     \* the recursion: <<[of, next], ...>>, next into Parents or Children
    result     \* subEvents

vars == <<store, call, root, pc, scanned, visited, stack, result>>

Frame(id) == [of |-> id, next |-> 1]

Top == stack[Len(stack)]

\* The loop that the innermost call is in has reached x.
Advanced == [stack EXCEPT ![Len(stack)].next = @ + 1]

Init ==
    /\ store \in Stores
    /\ scanned = {} /\ visited = {} /\ result = << >>
    /\ \/ call = "verify" /\ root = NoID /\ pc = "scan" /\ stack = << >>
       \/ /\ call = "subEvents" /\ root \in DOMAIN store
          /\ pc = "walk" /\ stack = <<Frame(root)>>

-----------------------------------------------------------------------------
(* Verify                                                                  *)

RefsHold(id) ==
    /\ Refs(store[id]) \subseteq DOMAIN store
    /\ ToSet(store[id].children) \subseteq DOMAIN store

\* The first loop, in the order of the map: it stops at a reference that
\* leads nowhere.
Scan(id) ==
    /\ pc = "scan"
    /\ id \in DOMAIN store \ scanned
    /\ IF RefsHold(id)
       THEN scanned' = scanned \cup {id} /\ UNCHANGED pc
       ELSE pc' = "dangling" /\ UNCHANGED scanned
    /\ UNCHANGED <<store, call, root, visited, stack, result>>

ScanEnd ==
    /\ pc = "scan"
    /\ scanned = DOMAIN store
    /\ pc' = "walk"
    /\ UNCHANGED <<store, call, root, scanned, visited, stack, result>>

Searching == call = "verify" /\ pc = "walk"

\* The second loop: checkCycle from each event that no search has met.
Search(id) ==
    /\ Searching
    /\ stack = << >>
    /\ id \in DOMAIN store \ visited
    /\ visited' = visited \cup {id}
    /\ stack' = <<Frame(id)>>
    /\ UNCHANGED <<store, call, root, pc, scanned, result>>

\* The parent that the innermost checkCycle looks at, if there is one left.
AtParent ==
    /\ Searching /\ stack # << >>
    /\ Top.next \in DOMAIN store[Top.of].parents

Parent == store[Top.of].parents[Top.next]

\* Mutated form: inStack is never reset.
InStack_Visited(id) == id \in visited

InStack(id) == \E i \in DOMAIN stack : stack[i].of = id

\* Mutated form: visited is set when the call returns.
Descend_Late ==
    /\ AtParent
    /\ Parent \notin visited
    /\ stack' = Append(Advanced, Frame(Parent))
    /\ UNCHANGED <<store, call, root, pc, scanned, visited, result>>

Descend ==
    /\ AtParent
    /\ Parent \notin visited
    /\ visited' = visited \cup {Parent}
    /\ stack' = Append(Advanced, Frame(Parent))
    /\ UNCHANGED <<store, call, root, pc, scanned, result>>

PassBy ==
    /\ AtParent
    /\ Parent \in visited
    /\ ~InStack(Parent)
    /\ stack' = Advanced
    /\ UNCHANGED <<store, call, root, pc, scanned, visited, result>>

\* The error goes through all calls of checkCycle.
CycleFound ==
    /\ AtParent
    /\ Parent \in visited
    /\ InStack(Parent)
    /\ pc' = "cycle"
    /\ UNCHANGED <<store, call, root, scanned, visited, stack, result>>

SearchReturn ==
    /\ Searching /\ stack # << >>
    /\ Top.next \notin DOMAIN store[Top.of].parents
    /\ stack' = Front(stack)
    /\ UNCHANGED <<store, call, root, pc, scanned, visited, result>>

SearchEnd ==
    /\ Searching /\ stack = << >>
    /\ visited = DOMAIN store
    /\ pc' = "ok"
    /\ UNCHANGED <<store, call, root, scanned, visited, stack, result>>

Verify ==
    \/ \E id \in DOMAIN store : Scan(id) \/ Search(id)
    \/ ScanEnd \/ Descend \/ PassBy \/ CycleFound \/ SearchReturn \/ SearchEnd

-----------------------------------------------------------------------------
(* GetSubEvents(root): the outermost frame is the loop over root's         *)
(* Children, which does not mark root itself.                              *)

Walking == call = "subEvents" /\ pc = "walk"

AtChild ==
    /\ Walking /\ stack # << >>
    /\ Top.next \in DOMAIN store[Top.of].children

Child == store[Top.of].children[Top.next]

\* A sub-event that root spawned.
IsOwn(id) == store[id].type = "SubEvent" /\ store[id].parentID = root

SeenBefore ==
    /\ AtChild
    /\ Child \in visited
    /\ stack' = Advanced
    /\ UNCHANGED <<store, call, root, pc, scanned, visited, result>>

ChildMissing ==
    /\ AtChild
    /\ Child \notin visited \cup DOMAIN store
    /\ pc' = "dangling"
    /\ visited' = visited \cup {Child}
    /\ UNCHANGED <<store, call, root, scanned, stack, result>>

NotOwn ==
    /\ AtChild
    /\ Child \in DOMAIN store \ visited
    /\ ~IsOwn(Child)
    /\ visited' = visited \cup {Child}
    /\ stack' = Advanced
    /\ UNCHANGED <<store, call, root, pc, scanned, result>>

\* Mutated form: the sub-event is not marked.
Collect_Unmarked ==
    /\ AtChild
    /\ Child \in DOMAIN store \ visited
    /\ IsOwn(Child)
    /\ result' = Append(result, Child)
    /\ stack' = Append(Advanced, Frame(Child))
    /\ UNCHANGED <<store, call, root, pc, scanned, visited>>

Collect ==
    /\ AtChild
    /\ Child \in DOMAIN store \ visited
    /\ IsOwn(Child)
    /\ visited' = visited \cup {Child}
    /\ result' = Append(result, Child)
    /\ stack' = Append(Advanced, Frame(Child))
    /\ UNCHANGED <<store, call, root, pc, scanned>>

WalkReturn ==
    /\ Walking /\ stack # << >>
    /\ Top.next \notin DOMAIN store[Top.of].children
    /\ stack' = Front(stack)
    /\ pc' = IF Len(stack) = 1 THEN "ok" ELSE pc
    /\ UNCHANGED <<store, call, root, scanned, visited, result>>

GetSubEvents == SeenBefore \/ ChildMissing \/ NotOwn \/ Collect \/ WalkReturn

-----------------------------------------------------------------------------
Next == Verify \/ GetSubEvents

Spec == Init /\ [][Next]_vars

-----------------------------------------------------------------------------
(* Properties                                                              *)

\* What the code of Verify looks for it finds, in whatever order the maps are
\* iterated: nil when every reference leads somewhere and no cycle goes through
\* Parents alone, and otherwise the error that says which of the two failed.
\* VerifyAsPromised is about what it does not look for.
VerdictExact ==
    call = "verify" =>
        /\ pc = "ok"       => Verified(store)
        /\ pc = "dangling" => ~(RefsPresent(store) /\ ChildrenPresent(store))
        /\ pc = "cycle"    => RefsPresent(store) /\ ChildrenPresent(store) /\ ~ParentsAcyclic(store)

\* Neither recursion is in the same event twice, whatever cycles the map
\* holds, so its depth is bounded by the number of events.  (The outermost loop
\* of GetSubEvents is over root, which an event that spawned itself re-enters.)
RecursionBounded ==
    \A i, j \in DOMAIN stack :
        i < j /\ (i > 1 \/ call = "verify") => stack[i].of # stack[j].of

SubEventsOf(id) == {e \in DOMAIN store : store[e].type = "SubEvent" /\ store[e].parentID = id}

\* GetSubEvents returns no event twice, only events that root spawned, and all
\* of them when the back-references are in place, although it does not follow
\* the children of events that others spawned; it fails only on a missing child.
SubEventsExact ==
    call = "subEvents" =>
        /\ IsInjective(result) /\ ToSet(result) \subseteq SubEventsOf(root)
        /\ pc = "ok" /\ BackLinked(store) => ToSet(result) = SubEventsOf(root)
        /\ pc = "dangling" => ~ChildrenPresent(store)

\* --- what the documents say and the code does not do ---

\* Along every reference between two anchored events the rounds increase.
AnchorsAlongRefs ==
    \A id \in DOMAIN store : \A p \in Refs(store[id]) \cap DOMAIN store :
        store[id].beacon # NoAnchor => store[p].beacon < store[id].beacon

\* "Verify checks the integrity of the DAG including: - No cycles in event
\* relationships ... - Beacon anchors are properly ordered" (dag.go:92-97): maps with
\* either fault are not passed.
VerifyAsPromised ==
    call = "verify" /\ pc = "ok" => Acyclic(store) /\ AnchorsAlongRefs

=============================================================================

------------------------------ MODULE DagStore ------------------------------
(***************************************************************************)
(* The value kept by memoryDAG (dag/memory.go) and the operators on it.    *)
(*                                                                         *)
(* A store is a function from event IDs to event records, the Go map       *)
(* d.events.  The module has no variables: MemoryDAG gives it a state of   *)
(* its own, EventPool keeps one as the DAG that its run loop writes.       *)
(*                                                                         *)
(* An event offered to AddEvent is a record                                *)
(*     [id, type, parentID, parents]                                       *)
(* and a stored one is a record                                            *)
(*     [type, parentID, parents, children, beacon]                         *)
(* with parents and children sequences of IDs (the Go slices: order and    *)
(* repetitions are kept) and beacon the drand round of the anchor.  The    *)
(* payload is not here: the DAG never reads it.                            *)
(***************************************************************************)
EXTENDS Naturals, FiniteSets, SequencesExt

CONSTANT NoID    \* the empty string as an event ID

\* dag.EventType
EventTypes == {"MainEvent", "SubEvent"}

\* event.Beacon == nil; drand rounds start at 1.
NoAnchor == 0

EmptyStore == [id \in {} |-> id]

-----------------------------------------------------------------------------
(* References of an event: what must be in the store before it.            *)

\* The IDs that event v depends on: its Parents and, when it is a sub-event,
\* the event that spawned it.
Refs(v) == ToSet(v.parents) \cup (IF v.type = "SubEvent" THEN {v.parentID} ELSE {})

-----------------------------------------------------------------------------
(* AddEvent                                                                *)

\* Mutated form: a known ID is stored again over the first event.
Admissible_Overwrite(store, e) ==
    /\ e.id # NoID
    /\ e.type = "SubEvent" => e.parentID \in DOMAIN store

\* Mutated form: the empty ID is not refused.
Admissible_EmptyID(store, e) ==
    /\ e.id \notin DOMAIN store
    /\ e.type = "SubEvent" => e.parentID \in DOMAIN store

\* The checks made before the loop over Parents.  NoID is never a key, so a
\* sub-event without a ParentID is refused by the last conjunct.
Admissible(store, e) ==
    /\ e.id # NoID
    /\ e.id \notin DOMAIN store
    /\ e.type = "SubEvent" => e.parentID \in DOMAIN store

\* Mutated form: the existence of Parents is not checked.
Accepts_AnyParents(store, e) == Admissible(store, e)

Accepts(store, e) ==
    /\ Admissible(store, e)
    /\ ToSet(e.parents) \subseteq DOMAIN store

\* The indices of Parents that the loop reaches with the parent present: it
\* stops at the first missing one.
LinkedParents(store, e) ==
    {i \in DOMAIN e.parents : \A j \in 1 .. i : e.parents[j] \in DOMAIN store}

\* How many times the call appends e.id to the Children of event p.
LinkCount(store, e, p) ==
    Cardinality({i \in LinkedParents(store, e) : e.parents[i] = p})
      + (IF e.type = "SubEvent" /\ e.parentID = p THEN 1 ELSE 0)

Repeat(id, n) == [i \in 1 .. n |-> id]

\* The event record as it enters the map.
Stored(e) == [type     |-> e.type,
              parentID |-> e.parentID,
              parents  |-> e.parents,
              children |-> << >>,
              beacon   |-> NoAnchor]

\* Mutated form: the newest child goes first.
WithLinks_Prepend(store, e) ==
    [p \in DOMAIN store |->
        [store[p] EXCEPT !.children = Repeat(e.id, LinkCount(store, e, p)) \o @]]

\* d.events with the back-references appended.  They are appended while
\* Parents is being checked, so a call that fails half-way leaves the links it
\* has made.
WithLinks(store, e) ==
    [p \in DOMAIN store |->
        [store[p] EXCEPT !.children = @ \o Repeat(e.id, LinkCount(store, e, p))]]

\* Mutated form: the links are made before the checks on the event itself.
AfterAdd_LinkFirst(store, e) ==
    LET linked == WithLinks(store, e)
    IN  IF Accepts(store, e)
        THEN [p \in DOMAIN store \cup {e.id} |->
                 IF p = e.id THEN Stored(e) ELSE linked[p]]
        ELSE linked

\* The store after AddEvent(e), whatever the call returns.
AfterAdd(store, e) ==
    IF ~Admissible(store, e) THEN store
    ELSE LET linked == WithLinks(store, e)
         IN  IF Accepts(store, e)
             THEN [p \in DOMAIN store \cup {e.id} |->
                      IF p = e.id THEN Stored(e) ELSE linked[p]]
             ELSE linked

-----------------------------------------------------------------------------
(* Properties of a store                                                   *)

EventRecords(IDs) ==
    [type : EventTypes, parentID : IDs \cup {NoID}, parents : Seq(IDs),
     children : Seq(IDs), beacon : Nat]

IsStore(store, IDs) ==
    /\ DOMAIN store \subseteq IDs
    /\ store \in [DOMAIN store -> EventRecords(IDs)]

\* Every reference leads to a stored event.
RefsPresent(store) ==
    \A id \in DOMAIN store : Refs(store[id]) \subseteq DOMAIN store

\* No cycle through Parents and ParentID: every non-empty set of events has a
\* member that refers to none of them.
Acyclic(store) ==
    \A S \in SUBSET DOMAIN store :
        S # {} => \E id \in S : Refs(store[id]) \cap S = {}

\* Every reference can be followed backwards.
BackLinked(store) ==
    \A id \in DOMAIN store : \A p \in Refs(store[id]) :
        p \in DOMAIN store => id \in ToSet(store[p].children)

\* Every child ID leads to a stored event.
ChildrenPresent(store) ==
    \A id \in DOMAIN store : ToSet(store[id].children) \subseteq DOMAIN store

\* No cycle through Parents alone, which is all that Verify's depth-first
\* search follows.
ParentsAcyclic(store) ==
    \A S \in SUBSET DOMAIN store :
        S # {} => \E id \in S : ToSet(store[id].parents) \cap S = {}

\* Verify returns nil.
Verified(store) ==
    /\ RefsPresent(store)
    /\ ChildrenPresent(store)
    /\ ParentsAcyclic(store)

-----------------------------------------------------------------------------
(* What a call may make of a store                                         *)

\* Event id stays what it is: its children only grow at the end, and an anchor
\* is not changed once it is there.
Keeps(old, new, id) ==
    /\ id \in DOMAIN new
    /\ new[id].type = old[id].type
    /\ new[id].parentID = old[id].parentID
    /\ new[id].parents = old[id].parents
    /\ \A i \in DOMAIN old[id].children :
          i \in DOMAIN new[id].children /\ new[id].children[i] = old[id].children[i]
    /\ old[id].beacon # NoAnchor => new[id].beacon = old[id].beacon

\* Event id enters after all it refers to, among whose children it is then.
Enters(old, new, id) ==
    /\ Refs(new[id]) \subseteq DOMAIN old
    /\ \A p \in Refs(new[id]) : id \in ToSet(new[p].children)
    /\ new[id].children = << >>
    /\ new[id].beacon = NoAnchor

Grows(old, new) ==
    /\ \A id \in DOMAIN old : Keeps(old, new, id)
    /\ \A id \in DOMAIN new \ DOMAIN old : Enters(old, new, id)

=============================================================================

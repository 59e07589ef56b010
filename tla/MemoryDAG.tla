----------------------------- MODULE MemoryDAG -----------------------------
(***************************************************************************)
(* memoryDAG as a shared object (dag/memory.go, dag/export.go).            *)
(*                                                                         *)
(* Every operation holds d.mu for its whole body, so each is one step.     *)
(* Callers hand AddEvent any event over the IDs: IDs are computed by the   *)
(* caller, can be named before the event they stand for exists, and a      *)
(* refused event can be offered again.  Export writes a copy of the map    *)
(* (JSON); Import replaces the map with a copy made earlier, whose child   *)
(* lists are restored from the snapshot.                                   *)
(***************************************************************************)
EXTENDS DagStore

CONSTANTS
    ID,            \* the event IDs callers use
    MaxParents,    \* longest Parents slice offered
    MaxLinks,      \* bound: longest Children slice
    MaxSnapshots   \* bound: exports taken

ASSUME NoIDAssumption == NoID \notin ID
ASSUME BoundsAssumption == MaxParents \in Nat /\ MaxLinks \in Nat /\ MaxSnapshots \in Nat

VARIABLES
    events,      \* d.events
    snapshots,   \* what Export has written
    rejected     \* history: the IDs that AddEvent has refused while they were not stored

vars == <<events, snapshots, rejected>>

\* Every *Event a caller can offer.  A main event has no ParentID; a
\* sub-event may lack its one.
Offers ==
    {e \in [id : ID \cup {NoID}, type : EventTypes, parentID : ID \cup {NoID},
            parents : BoundedSeq(ID, MaxParents)] :
        e.type = "MainEvent" => e.parentID = NoID}

-----------------------------------------------------------------------------
Init ==
    /\ events = EmptyStore
    /\ snapshots = {}
    /\ rejected = {}

AddEvent(e) ==
    LET after == AfterAdd(events, e)
    IN  /\ \A id \in DOMAIN after : Len(after[id].children) <= MaxLinks
        /\ events' = after
        /\ rejected' = IF e.id \in DOMAIN after THEN rejected ELSE rejected \cup {e.id}
        /\ UNCHANGED snapshots

Export ==
    /\ Cardinality(snapshots) < MaxSnapshots
    /\ snapshots' = snapshots \cup {events}
    /\ UNCHANGED <<events, rejected>>

\* Mutated form: the imported events are merged over the ones in memory.
Import_Merge ==
    /\ \E s \in snapshots :
          events' = [id \in DOMAIN events \cup DOMAIN s |->
                        IF id \in DOMAIN s THEN s[id] ELSE events[id]]
    /\ UNCHANGED <<snapshots, rejected>>

Import ==
    /\ \E s \in snapshots : events' = s
    /\ UNCHANGED <<snapshots, rejected>>

Next == (\E e \in Offers : AddEvent(e)) \/ Export \/ Import

Spec == Init /\ [][Next]_vars

-----------------------------------------------------------------------------
(* Properties                                                              *)

\* The map holds well-formed events under non-empty IDs, and so do the
\* snapshots (AddEvent's argument checks).
TypeOK ==
    /\ IsStore(events, ID)
    /\ \A s \in snapshots : IsStore(s, ID)
    /\ rejected \subseteq ID \cup {NoID}

\* No reference ever dangles, since an event enters the map only after everything
\* it refers to and an import cannot separate them; and the references, Parents
\* and ParentID together, which is more than Verify looks at, form no cycle.
AlwaysDAG == RefsPresent(events) /\ Acyclic(events)

\* Every reference has its back-reference, whatever was refused, retried or
\* re-imported in between.
ReferencesBackLinked == BackLinked(events)

RefCount(v, p) ==
    Cardinality({i \in DOMAIN v.parents : v.parents[i] = p})
      + (IF v.type = "SubEvent" /\ v.parentID = p THEN 1 ELSE 0)

\* Every child entry is explained.  An ID whose event was never refused for a
\* missing reference is listed exactly as often as the event refers to the
\* parent, and not at all before it is stored, however often it is offered
\* again: refusing a duplicate leaves no trace.
LinksAccounted ==
    \A p \in DOMAIN events : \A c \in ID \ rejected :
        Cardinality({i \in DOMAIN events[p].children : events[p].children[i] = c})
          = (IF c \in DOMAIN events THEN RefCount(events[c], p) ELSE 0)

G == INSTANCE EventGraph WITH graph <- events, copies <- snapshots

\* The map is an event graph: but for Import, which brings back an earlier one, a
\* stored event keeps its identity, its references, its anchor and the order of
\* its Children, and an event that enters is linked to all it refers to.
ImplementsGraph == G!Spec

\* "Children are the IDs of events that reference this event" (dag.go:48):
\* every listed child is a stored event that refers to this one.  AddEvent
\* breaks it when it fails after the first links are made.
ChildrenReferToParent ==
    \A p \in DOMAIN events : \A c \in ToSet(events[p].children) :
        c \in DOMAIN events /\ p \in Refs(events[c])

=============================================================================

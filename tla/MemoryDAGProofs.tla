-------------------------- MODULE MemoryDAGProofs --------------------------
(***************************************************************************)
(* The invariants of MemoryDAG, for every set of IDs and every bound.      *)
(***************************************************************************)
EXTENDS MemoryDAG, DagStoreProofs

-----------------------------------------------------------------------------
(* Types                                                                   *)

\* The inductive invariant of types: the map, and each copy an Import can bring
\* back, is a store.
IInv ==
    /\ IsStore(events, ID)
    /\ \A s \in snapshots : IsStore(s, ID)
    /\ rejected \subseteq ID \cup {NoID}

LEMMA InitInv == Init => IInv
BY DEF Init, IInv, EmptyStore, IsStore

\* What callers offer.
LEMMA OfferType ==
    ASSUME NEW e \in Offers
    PROVE  /\ e.id \in ID \cup {NoID}
           /\ e.type \in EventTypes
           /\ e.parentID \in ID \cup {NoID}
           /\ e.parents \in Seq(ID)
<1>1. BoundedSeq(ID, MaxParents) \subseteq Seq(ID)
    BY BoundsAssumption DEF BoundedSeq, SeqOf
<1> QED BY <1>1 DEF Offers

LEMMA StoreLists ==
    ASSUME NEW store, IsStore(store, ID)
    PROVE  Shaped(store) /\ Lists(store)
BY IsStoreShaped DEF IsStore, EventRecords, Lists, IsSeq

\* AddEvent, the one step that builds new stores.
LEMMA AddEventInv ==
    ASSUME IInv, NEW e \in Offers, AddEvent(e)
    PROVE  IInv'
<1>1. events' = AfterAdd(events, e) /\ snapshots' = snapshots
    BY DEF AddEvent
<1>2. IsStore(AfterAdd(events, e), ID)
    BY OfferType, AfterAddIsStore DEF IInv, Admissible
<1>3. rejected' \subseteq ID \cup {NoID}
    BY OfferType DEF AddEvent, IInv
<1> QED BY <1>1, <1>2, <1>3 DEF IInv

LEMMA NextInv == IInv /\ [Next]_vars => IInv'
<1> SUFFICES ASSUME IInv, [Next]_vars PROVE IInv'
    OBVIOUS
<1>1. ASSUME NEW e \in Offers, AddEvent(e) PROVE IInv'
    BY <1>1, AddEventInv
<1>2. CASE Export
    BY <1>2 DEF Export, IInv
<1>3. CASE Import
    BY <1>3 DEF Import, IInv
<1>4. CASE UNCHANGED vars
    BY <1>4 DEF vars, IInv
<1> QED BY <1>1, <1>2, <1>3, <1>4 DEF Next

\* The inductive invariant holds in every reachable state.
THEOREM Invariance == Spec => []IInv
<1> QED BY InitInv, NextInv, PTL DEF Spec

\* The map and the snapshots hold well-formed events under non-empty IDs.
THEOREM TypeCorrect == Spec => []TypeOK
<1>1. IInv => TypeOK
    BY DEF IInv, TypeOK
<1> QED BY <1>1, Invariance, PTL

-----------------------------------------------------------------------------
(* The map as an event graph                                               *)

LEMMA AddEventGrows ==
    ASSUME IInv, NEW e \in Offers, AddEvent(e)
    PROVE  Grows(events, events')
<1>1. events' = AfterAdd(events, e) /\ IsSeq(e.parents)
    BY OfferType DEF AddEvent, IsSeq
<1>2. Shaped(events) /\ Lists(events)
    BY StoreLists DEF IInv
<1> QED BY <1>1, <1>2, AfterAddGrows

\* The operators of DagStore are those of the instance of EventGraph.
LEMMA SameGrows == G!Grows(events, events') <=> Grows(events, events')
BY DEF Grows, Keeps, Enters, Refs, NoAnchor, ToSet,
       G!Grows, G!Keeps, G!Enters, G!Refs, G!NoAnchor, G!ToSet

\* Every step of the map is one that an event graph can take: events enter after
\* what they refer to and are linked to it, and only Import takes any of it back.
THEOREM MapImplementsGraph == Spec => ImplementsGraph
<1>1. Init => G!Init
    BY DEF Init, G!Init, EmptyStore, G!EmptyStore
<1>2. ASSUME IInv, [Next]_vars PROVE [G!Next]_<<events, snapshots>>
    <2>1. ASSUME NEW e \in Offers, AddEvent(e) PROVE G!Next
        BY <1>2, <2>1, AddEventGrows, SameGrows DEF AddEvent, G!Next, G!Grow
    <2>2. CASE Export
        BY <2>2 DEF Export, G!Next, G!Copy
    <2>3. CASE Import
        BY <2>3 DEF Import, G!Next, G!Restore
    <2>4. CASE UNCHANGED vars
        BY <2>4 DEF vars
    <2> QED BY <1>2, <2>1, <2>2, <2>3, <2>4 DEF Next
<1> QED BY <1>1, <1>2, Invariance, PTL DEF Spec, ImplementsGraph, G!Spec

\* What an event graph promises is enough for a sound DAG, of which the copies are
\* sound too: whatever grows like that, no reference dangles, none can be followed
\* round, and each can be followed backwards.
THEOREM GraphStaysSound == G!Spec => [](Sound(events) /\ \A s \in snapshots : Sound(s))
<1> DEFINE GInv == Sound(events) /\ \A s \in snapshots : Sound(s)
<1>1. G!Init => GInv
    BY EmptySound DEF G!Init, EmptyStore, G!EmptyStore
<1>2. ASSUME GInv, [G!Next]_<<events, snapshots>> PROVE GInv'
    <2>1. CASE G!Grow
        <3>1. Sound(events')
            BY <1>2, <2>1, SameGrows, GrowsSound DEF G!Grow
        <3> QED BY <1>2, <2>1, <3>1 DEF G!Grow
    <2>2. CASE G!Copy
        BY <1>2, <2>2 DEF G!Copy
    <2>3. CASE G!Restore
        BY <1>2, <2>3 DEF G!Restore
    <2> QED BY <1>2, <2>1, <2>2, <2>3 DEF G!Next
<1> QED BY <1>1, <1>2, PTL DEF G!Spec

\* So is the map of dag/memory.go, through refused and retried adds and imports.
THEOREM MapSound == Spec => []Sound(events)
<1> QED BY MapImplementsGraph, GraphStaysSound, PTL DEF ImplementsGraph

-----------------------------------------------------------------------------
(* The accounting of links                                                 *)

\* What LinksAccounted says of the map, said of any store; RefCount is local to
\* an event, and refused is the history that goes with the store.
Accounted(store, refused) ==
    \A p \in DOMAIN store : \A c \in ID \ refused :
        Occurs(c, store[p].children) = (IF c \in DOMAIN store THEN RefCount(store[c], p) ELSE 0)

\* An exported copy stays accounted for, because IDs are only ever added to
\* what was refused.
LinkInv ==
    /\ Accounted(events, rejected)
    /\ \A s \in snapshots : Accounted(s, rejected)

LEMMA RefCountNot ==
    ASSUME NEW v, NEW p, p \notin Refs(v)
    PROVE  RefCount(v, p) = 0
<1>1. p \notin ToSet(v.parents) /\ ~(v.type = "SubEvent" /\ v.parentID = p)
    BY DEF Refs
<1>2. Occurs(p, v.parents) = 0
    BY <1>1, OccursNot
<1> QED BY <1>1, <1>2 DEF RefCount, Occurs

\* The events a step keeps refer to each other as before.
LEMMA RefCountSame ==
    ASSUME NEW v, NEW w, NEW p,
           v.type = w.type, v.parentID = w.parentID, v.parents = w.parents
    PROVE  RefCount(v, p) = RefCount(w, p)
BY DEF RefCount

LEMMA AddEventLinks ==
    ASSUME IInv, Sound(events), LinkInv, NEW e \in Offers, AddEvent(e)
    PROVE  Accounted(events', rejected')
<1> DEFINE after == AfterAdd(events, e)
<1>0. /\ IsStore(events, ID) /\ Shaped(events) /\ RefsPresent(events)
      /\ e.parents \in Seq(ID)
      /\ Admissible(events, e) => e.id \in ID
    BY IsStoreShaped, OfferType DEF IInv, Sound, Admissible
<1>1. /\ events' = after /\ rejected \subseteq rejected'
      /\ e.id \notin DOMAIN after => e.id \in rejected'
    BY DEF AddEvent
<1>2. DOMAIN after = IF Accepts(events, e) THEN DOMAIN events \cup {e.id} ELSE DOMAIN events
    BY AfterAddDomain
<1> HIDE DEF after
<1>3. SUFFICES ASSUME NEW p \in DOMAIN after, NEW c \in ID \ rejected'
               PROVE  Occurs(c, after[p].children)
                         = (IF c \in DOMAIN after THEN RefCount(after[c], p) ELSE 0)
    BY <1>1 DEF Accounted
\* How often the event of c refers to p, before and after.
<1>4. c \in DOMAIN events => RefCount(after[c], p) = RefCount(events[c], p)
    BY <1>0, AfterAddOld, RefCountSame DEF after
<1>5. Accepts(events, e) => /\ after[e.id] = Stored(e) /\ Refs(Stored(e)) \subseteq DOMAIN events
                            /\ e.id \notin DOMAIN events
    BY AfterAddNew DEF after
<1>6. CASE p \in DOMAIN events
    <2>1. Occurs(c, events[p].children)
             = IF c \in DOMAIN events THEN RefCount(events[c], p) ELSE 0
        BY <1>1, <1>6 DEF LinkInv, Accounted
    <2>2. Occurs(c, after[p].children)
             = IF Admissible(events, e) /\ c = e.id
               THEN Occurs(c, events[p].children) + LinkCount(events, e, p)
               ELSE Occurs(c, events[p].children)
        BY <1>0, <1>6, AfterAddOccurs DEF after
    <2>3. CASE ~(Admissible(events, e) /\ c = e.id)
        <3>1. c \in DOMAIN after <=> c \in DOMAIN events
            BY <1>2, <2>3 DEF Accepts
        <3> QED BY <1>4, <2>1, <2>2, <2>3, <3>1
    <2>4. CASE Admissible(events, e) /\ c = e.id
        <3>1. Accepts(events, e) /\ c \notin DOMAIN events
            BY <1>1, <1>2, <2>4 DEF Admissible
        <3>2. LinkCount(events, e, p) \in Nat
            BY <1>0, LinkCountPositive
        <3>3. Occurs(c, after[p].children) = LinkCount(events, e, p)
            BY <2>1, <2>2, <2>4, <3>1, <3>2
        <3>4. LinkCount(events, e, p) = RefCount(Stored(e), p)
            BY <1>0, <3>1, LinkCountAccepted DEF RefCount, Stored, Occurs
        <3> QED BY <1>2, <1>5, <2>4, <3>1, <3>3, <3>4
    <2> QED BY <2>3, <2>4
<1>7. CASE p \notin DOMAIN events
    <2>1. Accepts(events, e) /\ p = e.id /\ after[p] = Stored(e)
        BY <1>2, <1>5, <1>7
    <2>2. Occurs(c, after[p].children) = 0
        <3>1. after[p].children = << >>
            BY <2>1 DEF Stored
        <3> QED BY <3>1, OccursNot DEF ToSet
    <2>3. c \in DOMAIN after => p \notin Refs(after[c])
        <3>1. c \in DOMAIN events => Refs(after[c]) = Refs(events[c])
            BY <1>0, AfterAddOld DEF after
        <3> QED BY <1>0, <1>2, <1>5, <1>7, <2>1, <3>1 DEF RefsPresent
    <2> QED BY <2>2, <2>3, RefCountNot
<1> QED BY <1>6, <1>7

LEMMA NextLinks == IInv /\ Sound(events) /\ LinkInv /\ [Next]_vars => LinkInv'
<1> SUFFICES ASSUME IInv, Sound(events), LinkInv, [Next]_vars PROVE LinkInv'
    OBVIOUS
<1>1. ASSUME NEW e \in Offers, AddEvent(e) PROVE LinkInv'
    <2>1. rejected \subseteq rejected' /\ snapshots' = snapshots
        BY <1>1 DEF AddEvent
    <2>2. \A s \in snapshots : Accounted(s, rejected')
        BY <2>1 DEF LinkInv, Accounted
    <2> QED BY <1>1, <2>1, <2>2, AddEventLinks DEF LinkInv
<1>2. CASE Export
    BY <1>2 DEF Export, LinkInv
<1>3. CASE Import
    BY <1>3 DEF Import, LinkInv
<1>4. CASE UNCHANGED vars
    BY <1>4 DEF vars, LinkInv
<1> QED BY <1>1, <1>2, <1>3, <1>4 DEF Next

LEMMA InitLinks == Init => LinkInv
BY DEF Init, LinkInv, Accounted, EmptyStore

-----------------------------------------------------------------------------
(* The theorems                                                            *)

\* No reference of a stored event ever dangles, and the stored events never form
\* a cycle, through Parents and ParentID alike.
THEOREM StaysDAG == Spec => []AlwaysDAG
<1>1. Sound(events) => AlwaysDAG
    BY DEF Sound, AlwaysDAG
<1> QED BY <1>1, MapSound, PTL

\* Every reference can be followed backwards, whatever calls failed.
THEOREM BackLinks == Spec => []ReferencesBackLinked
<1>1. Sound(events) => ReferencesBackLinked
    BY DEF Sound, ReferencesBackLinked
<1> QED BY <1>1, MapSound, PTL

\* An ID that was never refused is listed as often as its event refers to the
\* parent, whatever was offered again, exported and imported in between.
THEOREM LinksAlwaysAccounted == Spec => []LinksAccounted
<1>1. LinkInv => LinksAccounted
    BY DEF LinkInv, Accounted, LinksAccounted, Occurs
<1> QED BY <1>1, InitLinks, NextLinks, Invariance, MapSound, PTL DEF Spec

=============================================================================

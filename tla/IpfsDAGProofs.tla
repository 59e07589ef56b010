--------------------------- MODULE IpfsDAGProofs ---------------------------
(***************************************************************************)
(* The IPFS-backed DAG, for every number of clients, set of IDs and CIDs,  *)
(* and bound: what AddEvent has put in the index, what is saved of it.     *)
(***************************************************************************)
EXTENDS IpfsDAG, DagStoreProofs

-----------------------------------------------------------------------------
(* The index                                                               *)

\* An index, in memory or on disk: the added events refer to indexed ones and
\* not in a cycle.
IndexOK(x) ==
    /\ x = [events |-> x.events, added |-> x.added]
    /\ IsStore(x.events, Names)
    /\ x.added \subseteq DOMAIN x.events
    /\ \A id \in x.added : Refs(x.events[id]) \subseteq DOMAIN x.events
    /\ \A S \in SUBSET x.added :
          S # {} => \E id \in S : Refs(x.events[id]) \cap S = {}

\* What is indexed under a CID is what the daemon has under it.
Honest(x, map) ==
    \A id \in DOMAIN x.events : id \in Cid => id \in DOMAIN map /\ map[id] = Content(x.events[id])

\* What a step may do to the index without spoiling an event in it.
KeepsIndex(x, y) ==
    /\ x.added \subseteq y.added
    /\ \A id \in DOMAIN x.events :
          /\ id \in DOMAIN y.events
          /\ Content(y.events[id]) = Content(x.events[id])
          /\ IsPrefix(x.events[id].children, y.events[id].children)

LEMMA EventType ==
    ASSUME NEW e \in Events
    PROVE  /\ e.id \in Names /\ e.type \in EventTypes /\ e.parentID \in Names \cup {NoID}
           /\ e.parents \in Seq(Names)
<1>1. BoundedSeq(Names, MaxParents) \subseteq Seq(Names)
    BY BoundsAssumption DEF BoundedSeq, SeqOf
<1> QED BY <1>1 DEF Events

LEMMA ContentRefs ==
    ASSUME NEW v, NEW w, Content(v) = Content(w)
    PROVE  Refs(v) = Refs(w)
<1>1. v.type = w.type /\ v.parentID = w.parentID /\ v.parents = w.parents
    BY DEF Content
<1> QED BY <1>1 DEF Refs

LEMMA PrefixOfSelf == ASSUME NEW s \in Seq(Names) PROVE IsPrefix(s, s)
BY DEF IsPrefix

LEMMA PutStore ==
    ASSUME NEW store, IsStore(store, Names), NEW id \in Names, NEW v \in EventRecords(Names)
    PROVE  IsStore(Put(store, id, v), Names)
<1> DEFINE after == Put(store, id, v)
<1>0. /\ DOMAIN after = DOMAIN store \cup {id}
      /\ after[id] = v
      /\ \A x \in DOMAIN store : x # id => after[x] = store[x]
    BY DEF Put
<1>3. after = [x \in DOMAIN after |-> after[x]]
    BY DEF Put
<1> HIDE DEF after
<1>1. DOMAIN after \subseteq Names
    BY <1>0 DEF IsStore
<1>2. \A x \in DOMAIN after : after[x] \in EventRecords(Names)
    BY <1>0 DEF IsStore
<1>4. after \in [DOMAIN after -> EventRecords(Names)]
    BY <1>2, <1>3
<1> QED BY <1>1, <1>4 DEF IsStore, after

\* A step that keeps what is added and adds nothing.
LEMMA KeptIndex ==
    ASSUME NEW x, IndexOK(x), NEW s, IsStore(s, Names),
           KeepsIndex(x, [events |-> s, added |-> x.added])
    PROVE  IndexOK([events |-> s, added |-> x.added])
<1> DEFINE y == [events |-> s, added |-> x.added]
<1>1. y.events = s /\ y.added = x.added /\ y = [events |-> y.events, added |-> y.added]
    OBVIOUS
<1> HIDE DEF y
<1>2. \A id \in x.added : id \in DOMAIN s /\ Refs(s[id]) = Refs(x.events[id])
    <2> SUFFICES ASSUME NEW id \in x.added
                 PROVE  id \in DOMAIN s /\ Refs(s[id]) = Refs(x.events[id])
        OBVIOUS
    <2>1. id \in DOMAIN s /\ Content(s[id]) = Content(x.events[id])
        BY <1>1 DEF IndexOK, KeepsIndex, y
    <2> QED BY <2>1, ContentRefs
<1>3. DOMAIN x.events \subseteq DOMAIN s
    BY <1>1 DEF KeepsIndex, y
<1>4. \A id \in x.added : Refs(s[id]) \subseteq DOMAIN s
    BY <1>2, <1>3 DEF IndexOK
<1>5. ASSUME NEW S \in SUBSET x.added, S # {}
      PROVE  \E id \in S : Refs(s[id]) \cap S = {}
    <2>1. PICK id \in S : Refs(x.events[id]) \cap S = {}
        BY <1>5 DEF IndexOK
    <2> QED BY <1>2, <2>1
<1>6. x.added \subseteq DOMAIN s
    BY <1>2
<1> QED BY <1>1, <1>4, <1>5, <1>6 DEF IndexOK, y

\* AddEvent's links.
Linked(x, e) == IF Admissible(x.events, e) THEN WithLinks(x.events, e) ELSE x.events

LEMMA LinkedEffect ==
    ASSUME NEW x, IndexOK(x), NEW e \in Events
    PROVE  /\ DOMAIN Linked(x, e) = DOMAIN x.events
           /\ IndexOK([events |-> Linked(x, e), added |-> x.added])
           /\ KeepsIndex(x, [events |-> Linked(x, e), added |-> x.added])
<1> DEFINE s == Linked(x, e)
           after == AfterAdd(x.events, e)
<1>0. IsStore(x.events, Names) /\ Shaped(x.events)
    BY IsStoreShaped DEF IndexOK
<1>1. DOMAIN s = DOMAIN x.events
    BY DEF Linked, WithLinks
<1>2. \A p \in DOMAIN s : s[p] = after[p]
    BY <1>1 DEF Linked, AfterAdd, Admissible, WithLinks
<1>3. IsStore(after, Names) /\ DOMAIN s \subseteq DOMAIN after
    BY <1>0, <1>1, EventType, AfterAddIsStore, AfterAddDomain
<1>4. s = [p \in DOMAIN s |-> s[p]]
    BY <1>0 DEF Linked, WithLinks, IsStore
<1>5. \A p \in DOMAIN x.events : /\ Content(s[p]) = Content(x.events[p])
                                 /\ IsPrefix(x.events[p].children, s[p].children)
    <2> SUFFICES ASSUME NEW p \in DOMAIN x.events
                 PROVE  /\ Content(s[p]) = Content(x.events[p])
                        /\ IsPrefix(x.events[p].children, s[p].children)
        OBVIOUS
    <2>1. s[p] = after[p]
        BY <1>1, <1>2
    <2> HIDE DEF s
    <2>2. IsPrefix(x.events[p].children, after[p].children)
        BY <1>0, EventType, AfterAddPrefix
    <2>3. /\ after[p].type = x.events[p].type
          /\ after[p].parentID = x.events[p].parentID
          /\ after[p].parents = x.events[p].parents
        BY <1>0, AfterAddOld
    <2> QED BY <2>1, <2>2, <2>3 DEF Content
<1> HIDE DEF s, after
<1>6. IsStore(s, Names)
    <2>1. \A p \in DOMAIN s : s[p] \in EventRecords(Names)
        BY <1>2, <1>3 DEF IsStore
    <2>2. s \in [DOMAIN s -> EventRecords(Names)]
        BY <1>4, <2>1
    <2> QED BY <1>0, <1>1, <2>2 DEF IsStore
<1>7. KeepsIndex(x, [events |-> s, added |-> x.added])
    BY <1>1, <1>5 DEF KeepsIndex
<1>8. IndexOK([events |-> s, added |-> x.added])
    BY <1>6, <1>7, KeptIndex
<1> QED BY <1>1, <1>7, <1>8 DEF s

\* The content as the daemon has it.
LEMMA StoredContent ==
    ASSUME NEW e \in Events
    PROVE  Stored(e) \in EventRecords(Names) /\ Content(Stored(e)) = Content(e)
<1>1. << >> \in Seq(Names)
    OBVIOUS
<1> QED BY <1>1, EventType DEF Stored, EventRecords, Content, NoAnchor

\* AddReturn: nothing that was added can refer to the new event.
LEMMA AddedEffect ==
    ASSUME NEW x, IndexOK(x), NEW e \in Events, Accepts(x.events, e)
    PROVE  LET y == [events |-> Put(x.events, e.id, Stored(e)), added |-> x.added \cup {e.id}]
           IN  IndexOK(y) /\ KeepsIndex(x, y)
<1> DEFINE s == Put(x.events, e.id, Stored(e))
           y == [events |-> s, added |-> x.added \cup {e.id}]
<1>0. y.events = s /\ y.added = x.added \cup {e.id} /\ y = [events |-> y.events, added |-> y.added]
    OBVIOUS
<1>1. /\ DOMAIN s = DOMAIN x.events \cup {e.id}
      /\ s[e.id] = Stored(e)
      /\ \A p \in DOMAIN x.events : p # e.id => s[p] = x.events[p]
    BY DEF Put
<1>2. e.id \notin DOMAIN x.events /\ Refs(Stored(e)) \subseteq DOMAIN x.events
    BY AfterAddNew
<1>3. IsStore(s, Names)
    BY EventType, StoredContent, PutStore DEF IndexOK
<1> HIDE DEF s
<1>4. \A p \in DOMAIN x.events : s[p] = x.events[p]
    BY <1>1, <1>2
<1>5. \A id \in y.added : Refs(s[id]) \subseteq DOMAIN x.events
    BY <1>0, <1>1, <1>2, <1>4 DEF IndexOK
<1>6. ASSUME NEW S \in SUBSET y.added, S # {}
      PROVE  \E id \in S : Refs(s[id]) \cap S = {}
    <2>1. CASE S \subseteq {e.id}
        BY <1>1, <1>2, <1>6, <2>1
    <2>2. CASE ~(S \subseteq {e.id})
        <3>1. S \ {e.id} \in SUBSET x.added /\ S \ {e.id} # {}
            BY <1>0, <1>6, <2>2
        <3>2. PICK id \in S \ {e.id} : Refs(x.events[id]) \cap (S \ {e.id}) = {}
            BY <3>1 DEF IndexOK
        <3>3. id \in x.added /\ Refs(x.events[id]) \subseteq DOMAIN x.events
            BY <3>1, <3>2 DEF IndexOK
        <3>4. Refs(s[id]) = Refs(x.events[id])
            BY <1>4, <3>3 DEF IndexOK
        <3> QED BY <1>2, <3>2, <3>3, <3>4
    <2> QED BY <2>1, <2>2
<1>7. y.added \subseteq DOMAIN s
    BY <1>0, <1>1 DEF IndexOK
<1>8. IndexOK(y)
    <2>1. IsStore(y.events, Names)
        BY <1>0, <1>3
    <2>2. \A id \in y.added : Refs(y.events[id]) \subseteq DOMAIN y.events
        BY <1>0, <1>1, <1>5
    <2>3. \A S \in SUBSET y.added : S # {} => \E id \in S : Refs(y.events[id]) \cap S = {}
        BY <1>0, <1>6
    <2> HIDE DEF y
    <2> QED BY <1>0, <1>7, <2>1, <2>2, <2>3 DEF IndexOK
<1>9. KeepsIndex(x, y)
    <2>1. \A p \in DOMAIN x.events : x.events[p].children \in Seq(Names)
        BY DEF IndexOK, IsStore, EventRecords
    <2>2. \A p \in DOMAIN x.events : IsPrefix(x.events[p].children, s[p].children)
        BY <1>4, <2>1, PrefixOfSelf
    <2> HIDE DEF y
    <2> QED BY <1>0, <1>1, <1>4, <2>2 DEF KeepsIndex
<1> QED BY <1>8, <1>9 DEF s

\* Fetched: what is in the index already has the content that is fetched.
LEMMA FetchedEffect ==
    ASSUME NEW x, IndexOK(x), NEW id \in Names, NEW v \in Contents,
           id \in DOMAIN x.events => Content(x.events[id]) = v
    PROVE  LET y == [events |-> WithFetched(x.events, id, v), added |-> x.added]
           IN  /\ IndexOK(y) /\ KeepsIndex(x, y)
               /\ DOMAIN y.events = DOMAIN x.events \cup {id}
               /\ Content(y.events[id]) = v
<1> DEFINE children == IF id \in DOMAIN x.events THEN x.events[id].children ELSE << >>
           w == [Stored(v) EXCEPT !.children = children]
           s == WithFetched(x.events, id, v)
<1>1. s = Put(x.events, id, w)
    BY DEF WithFetched
<1>2. children \in Seq(Names)
    BY DEF IndexOK, IsStore, EventRecords
<1>3. /\ v = [type |-> v.type, parentID |-> v.parentID, parents |-> v.parents]
      /\ v.type \in EventTypes /\ v.parentID \in Names \cup {NoID} /\ v.parents \in Seq(Names)
    BY DEF Contents
<1> HIDE DEF children
<1>4. w = [type |-> v.type, parentID |-> v.parentID, parents |-> v.parents,
           children |-> children, beacon |-> 0]
    BY DEF Stored, NoAnchor
<1> HIDE DEF w
<1>5. w \in EventRecords(Names) /\ Content(w) = v /\ w.children = children
    BY <1>2, <1>3, <1>4 DEF EventRecords, Content
<1>6. IsStore(s, Names)
    BY <1>1, <1>5, PutStore DEF IndexOK
<1>7. /\ DOMAIN s = DOMAIN x.events \cup {id}
      /\ s[id] = w
      /\ \A p \in DOMAIN x.events : p # id => s[p] = x.events[p]
    BY <1>1 DEF Put
<1> HIDE DEF s
<1>8. \A p \in DOMAIN x.events : /\ Content(s[p]) = Content(x.events[p])
                                 /\ s[p].children = x.events[p].children
    BY <1>5, <1>7 DEF children
<1>9. \A p \in DOMAIN x.events : x.events[p].children \in Seq(Names)
    BY DEF IndexOK, IsStore, EventRecords
<1>10. \A p \in DOMAIN x.events : IsPrefix(x.events[p].children, s[p].children)
    BY <1>8, <1>9, PrefixOfSelf
<1>11. KeepsIndex(x, [events |-> s, added |-> x.added])
    BY <1>7, <1>8, <1>10 DEF KeepsIndex
<1>12. IndexOK([events |-> s, added |-> x.added])
    BY <1>6, <1>11, KeptIndex
<1> QED BY <1>5, <1>7, <1>11, <1>12 DEF s

-----------------------------------------------------------------------------
(* The calls                                                               *)

Adding == [pc : {"storing", "stored"}, ev : Events]

Querying == [pc : {"get", "fetch"}, op : Queries \cup {"rest"}, id : Names,
             todo : Seq(Names) \ {<< >>}, known : BOOLEAN]

SavingCall == [pc : {"saving"}, had : SUBSET Names]

Calls == {Idle} \cup SavingCall \cup Adding \cup Querying

LEMMA CallKinds ==
    ASSUME NEW r \in Calls
    PROVE  /\ r = Idle <=> r.pc = "idle"
           /\ r \in Adding <=> r.pc \in {"storing", "stored"}
           /\ r \in Querying <=> r.pc \in {"get", "fetch"}
           /\ r \in SavingCall <=> r.pc = "saving"
BY DEF Calls, Idle, SavingCall, Adding, Querying

\* An AddEvent has passed its checks, and offers the content that a CID names.
AddReady(r, store, map) ==
    r.pc \in {"storing", "stored"} =>
        /\ Accepts(store, r.ev)
        /\ r.ev.id \in Cid => r.ev.id \in DOMAIN map /\ map[r.ev.id] = Content(r.ev)

\* A GetParents of an added event has its IDs in the index, and does not wait
\* for the daemon.
ParentsReady(r, x) ==
    r.pc \in {"get", "fetch"} /\ r.known /\ r.op \in {"parents", "rest"} =>
        /\ r.pc = "get"
        /\ r.op = "parents" => r.id \in x.added /\ r.todo = << r.id >>
        /\ r.op = "rest" => ToSet(r.todo) \subseteq DOMAIN x.events

CallOK(r, x, map) == r \in Calls /\ AddReady(r, x.events, map) /\ ParentsReady(r, x)

\* Calls that need nothing of the index.
LEMMA EasyCalls ==
    ASSUME NEW x, NEW map
    PROVE  CallOK(Idle, x, map) /\ \A r \in SavingCall : CallOK(r, x, map)
BY DEF CallOK, Calls, AddReady, ParentsReady, Idle, SavingCall

\* The checks look at the IDs in the index only.
LEMMA AcceptsDomain ==
    ASSUME NEW s, NEW t, DOMAIN s = DOMAIN t, NEW e, Accepts(s, e)
    PROVE  Accepts(t, e)
BY DEF Accepts, Admissible

\* A call is not disturbed by what others add to the index and the daemon, unless
\* it holds the lock and the index gets a new ID.
LEMMA CallKept ==
    ASSUME NEW r, NEW x, NEW y, NEW map, NEW new, CallOK(r, x, map), KeepsIndex(x, y),
           \A id \in DOMAIN map : id \in DOMAIN new /\ new[id] = map[id],
           r.pc \in {"storing", "stored"} => DOMAIN x.events = DOMAIN y.events
    PROVE  CallOK(r, y, new)
<1>1. AddReady(r, y.events, new)
    BY AcceptsDomain DEF CallOK, AddReady
<1>2. DOMAIN x.events \subseteq DOMAIN y.events /\ x.added \subseteq y.added
    BY DEF KeepsIndex
<1>3. ParentsReady(r, y)
    BY <1>2 DEF CallOK, ParentsReady
<1> QED BY <1>1, <1>3 DEF CallOK

LEMMA TailParts ==
    ASSUME NEW s \in Seq(Names) \ {<< >>}
    PROVE  /\ Head(s) \in Names /\ Head(s) \in ToSet(s)
           /\ Tail(s) \in Seq(Names) /\ ToSet(Tail(s)) \subseteq ToSet(s)
<1>1. Len(s) > 0 /\ Len(s) \in Nat /\ DOMAIN s = 1 .. Len(s) /\ Head(s) = s[1]
    OBVIOUS
<1>2. /\ Tail(s) \in Seq(Names) /\ Len(Tail(s)) = Len(s) - 1
      /\ \A i \in 1 .. Len(s) - 1 : Tail(s)[i] = s[i + 1]
    BY <1>1
<1>3. DOMAIN Tail(s) = 1 .. Len(s) - 1
    BY <1>1, <1>2
<1>4. \A i \in DOMAIN Tail(s) : i + 1 \in DOMAIN s /\ Tail(s)[i] = s[i + 1]
    BY <1>1, <1>2, <1>3
<1>5. ToSet(Tail(s)) \subseteq ToSet(s)
    BY <1>4 DEF ToSet
<1>6. Head(s) \in ToSet(s) /\ Head(s) \in Names
    BY <1>1 DEF ToSet
<1> QED BY <1>2, <1>5, <1>6

\* A query that goes on.
LEMMA AdvanceKind ==
    ASSUME NEW r \in Querying, NEW v, v.parents \in Seq(Names)
    PROVE  \/ Advance(r, v) = Idle
           \/ /\ Advance(r, v) \in Querying /\ Advance(r, v).pc = "get"
              /\ Advance(r, v).known = r.known
              /\ Advance(r, v).op # "parents"
              /\ Advance(r, v).op = "rest" =>
                    /\ r.op \in {"parents", "rest"}
                    /\ ToSet(Advance(r, v).todo) \subseteq
                          IF r.op = "parents" THEN ToSet(v.parents) ELSE ToSet(r.todo)
<1> DEFINE todo == IF r.op = "parents" THEN v.parents ELSE Tail(r.todo)
           op   == IF r.op = "parents" THEN "rest" ELSE r.op
           next == [r EXCEPT !.pc = "get", !.op = op, !.todo = todo]
<1>1. Advance(r, v) = IF todo = << >> THEN Idle ELSE next
    BY DEF Advance
<1>2. /\ r = [pc |-> r.pc, op |-> r.op, id |-> r.id, todo |-> r.todo, known |-> r.known]
      /\ r.op \in Queries \cup {"rest"} /\ r.id \in Names /\ r.known \in BOOLEAN
      /\ r.todo \in Seq(Names) \ {<< >>}
    BY DEF Querying
<1>3. todo \in Seq(Names) /\ op \in (Queries \cup {"rest"}) \ {"parents"}
    BY <1>2, TailParts DEF Queries
<1>4. op = "rest" => r.op \in {"parents", "rest"}
    OBVIOUS
<1>5. op = "rest" =>
         ToSet(todo) \subseteq IF r.op = "parents" THEN ToSet(v.parents) ELSE ToSet(r.todo)
    BY <1>2, TailParts
<1> HIDE DEF todo, op
<1>7. ASSUME todo # << >>
      PROVE  next \in Querying
    BY <1>3, <1>7 DEF Querying
<1>8. next.pc = "get" /\ next.known = r.known /\ next.op = op /\ next.todo = todo
    BY DEF Querying
<1> HIDE DEF next
<1> QED BY <1>1, <1>3, <1>4, <1>5, <1>7, <1>8

-----------------------------------------------------------------------------
(* The invariant                                                           *)

\* Whatever Import and a start can bring back is as sound as the index.
DataInv ==
    /\ IndexOK(index) /\ Honest(index, ipfs)
    /\ IndexOK(disk.index) /\ Honest(disk.index, ipfs)
    /\ disk = [whole |-> disk.whole, index |-> disk.index] /\ disk.whole \in BOOLEAN
    /\ DOMAIN ipfs \subseteq Cid /\ ipfs \in [DOMAIN ipfs -> Contents]
    /\ failed \cup kept \subseteq Names /\ missed = {}

\* One client holds the lock; nothing runs in a program that does not.
CallsInv ==
    /\ up \in BOOLEAN
    /\ call = [c \in Client |-> call[c]]
    /\ \A c \in Client : CallOK(call[c], index, ipfs)
    /\ \A c, d \in Client :
          call[c].pc \in {"storing", "stored"} /\ call[d].pc \in {"storing", "stored"} => c = d
    /\ ~up => \A c \in Client : call[c] = Idle

IInv == DataInv /\ CallsInv

\* The daemon's contents stay.
Extends(new, map) == \A id \in DOMAIN map : id \in DOMAIN new /\ new[id] = map[id]

LEMMA KeepsSelf == ASSUME NEW x, IndexOK(x) PROVE KeepsIndex(x, x)
<1>1. \A id \in DOMAIN x.events : x.events[id].children \in Seq(Names)
    BY DEF IndexOK, IsStore, EventRecords
<1> QED BY <1>1, PrefixOfSelf DEF KeepsIndex

\* Client c goes on with r while the others stay where they are.
OneCall(c, r) == call' = [d \in Client |-> IF d = c THEN r ELSE call[d]]

LEMMA OneCallInv ==
    ASSUME CallsInv, NEW c \in Client, NEW r, OneCall(c, r), UNCHANGED up, up \/ r = Idle,
           KeepsIndex(index, index'), Extends(ipfs', ipfs), CallOK(r, index', ipfs'),
           r.pc \in {"storing", "stored"} \/ DOMAIN index'.events # DOMAIN index.events
              => ~Locked \/ call[c].pc \in {"storing", "stored"}
    PROVE  CallsInv'
<1>1. call'[c] = r /\ \A d \in Client : d # c => call'[d] = call[d]
    BY DEF OneCall
<1>2. call' = [d \in Client |-> call'[d]]
    BY DEF OneCall
<1>3. ASSUME NEW d \in Client, d # c,
             r.pc \in {"storing", "stored"} \/ DOMAIN index'.events # DOMAIN index.events
      PROVE  call[d].pc \notin {"storing", "stored"}
    BY <1>3 DEF CallsInv, Locked
<1>4. ASSUME NEW d \in Client, d # c
      PROVE  CallOK(call[d], index', ipfs')
    <2>1. CallOK(call[d], index, ipfs)
        BY DEF CallsInv
    <2>2. call[d].pc \in {"storing", "stored"} => DOMAIN index.events = DOMAIN index'.events
        BY <1>3, <1>4
    <2> QED BY <2>1, <2>2, CallKept DEF Extends
<1>5. \A d \in Client : CallOK(call'[d], index', ipfs')
    BY <1>1, <1>4
<1>6. ASSUME NEW d \in Client, NEW e \in Client,
             call'[d].pc \in {"storing", "stored"}, call'[e].pc \in {"storing", "stored"}
      PROVE  d = e
    BY <1>1, <1>3, <1>6 DEF CallsInv
<1>7. ~up' => \A d \in Client : call'[d] = Idle
    BY <1>1 DEF CallsInv
<1> HIDE DEF OneCall
<1> QED BY <1>2, <1>5, <1>6, <1>7 DEF CallsInv

\* A call that goes on and leaves the index and the daemon as they are.
LEMMA CallOnlyInv ==
    ASSUME IInv, NEW c \in Client, NEW r, OneCall(c, r), UNCHANGED <<up, index, ipfs>>,
           up \/ r = Idle, CallOK(r, index, ipfs),
           r.pc \in {"storing", "stored"} => call[c].pc \in {"storing", "stored"}
    PROVE  CallsInv'
<1>1. KeepsIndex(index, index') /\ Extends(ipfs', ipfs)
    BY KeepsSelf DEF IInv, DataInv, Extends
<1>2. CallOK(r, index', ipfs')
    OBVIOUS
<1> QED BY <1>1, <1>2, OneCallInv DEF IInv

LEMMA RunningCall ==
    ASSUME CallsInv, NEW c \in Client, call[c].pc # "idle"
    PROVE  up
BY DEF CallsInv, Idle

\* The assignment of a call.
LEMMA Assigned ==
    ASSUME CallsInv, NEW c \in Client, NEW r, call' = [call EXCEPT ![c] = r]
    PROVE  OneCall(c, r)
BY DEF CallsInv, OneCall

-----------------------------------------------------------------------------
(* AddEvent                                                                *)

LEMMA AddEventInv ==
    ASSUME IInv, NEW c \in Client, NEW e \in Offers, AddEvent(c, e)
    PROVE  IInv' /\ KeepsIndex(index, index')
<1> DEFINE s == Linked(index, e)
<1>0. e \in Events /\ (e.id \in Cid => e.id \in DOMAIN ipfs /\ ipfs[e.id] = Content(e))
    BY DEF Offers
<1>1. up /\ call[c] = Idle /\ ~Locked /\ UNCHANGED <<up, disk, ipfs, missed, kept>>
    BY DEF AddEvent
<1>2. index' = [index EXCEPT !.events = s]
    BY DEF AddEvent, Linked
<1>3. index = [events |-> index.events, added |-> index.added]
    BY DEF IInv, DataInv, IndexOK
<1>4. index' = [events |-> s, added |-> index.added]
    BY <1>2, <1>3
<1>5. DOMAIN s = DOMAIN index.events /\ IndexOK(index') /\ KeepsIndex(index, index')
    BY <1>0, <1>4, LinkedEffect DEF IInv, DataInv
<1> HIDE DEF s
<1>6. DOMAIN index'.events = DOMAIN index.events
    BY <1>4, <1>5
<1>7. Honest(index', ipfs')
    BY <1>1, <1>5, <1>6 DEF IInv, DataInv, Honest, KeepsIndex
<1>8. failed' \subseteq Names
    <2>1. e.id \in Names
        BY <1>0, EventType
    <2> QED BY <2>1 DEF AddEvent, Failed, IInv, DataInv
<1>9. DataInv'
    BY <1>1, <1>5, <1>7, <1>8 DEF IInv, DataInv
<1>10. CallsInv'
    <2>1. CASE Accepts(index.events, e)
        <3> DEFINE r == [pc |-> "storing", ev |-> e]
        <3>1. OneCall(c, r)
            BY <2>1, Assigned DEF AddEvent, IInv
        <3>2. r \in Calls /\ r.pc = "storing" /\ r.ev = e
            BY <1>0 DEF Calls, Adding
        <3> HIDE DEF r
        <3>3. Accepts(index'.events, e)
            BY <1>6, <2>1, AcceptsDomain
        <3>4. CallOK(r, index', ipfs')
            BY <1>0, <1>1, <3>2, <3>3 DEF CallOK, AddReady, ParentsReady
        <3>5. Extends(ipfs', ipfs)
            BY <1>1 DEF Extends
        <3> QED BY <1>1, <1>5, <3>1, <3>4, <3>5, OneCallInv DEF IInv
    <2>2. CASE ~Accepts(index.events, e)
        <3>1. call' = call
            BY <2>2 DEF AddEvent
        <3>2. OneCall(c, Idle)
            BY <1>1, <3>1 DEF OneCall, IInv, CallsInv
        <3>3. CallOK(Idle, index', ipfs') /\ Extends(ipfs', ipfs)
            BY <1>1, EasyCalls DEF Extends
        <3> QED BY <1>1, <1>5, <3>2, <3>3, OneCallInv DEF IInv
    <2> QED BY <2>1, <2>2
<1> QED BY <1>5, <1>9, <1>10 DEF IInv

LEMMA DaemonAddInv ==
    ASSUME IInv, NEW c \in Client, DaemonAdd(c)
    PROVE  IInv' /\ UNCHANGED index
<1> DEFINE r == [call[c] EXCEPT !.pc = "stored"]
<1>1. call[c].pc = "storing" /\ UNCHANGED <<up, index, disk, failed, missed, kept>>
    BY DEF DaemonAdd
<1>2. CallOK(call[c], index, ipfs)
    BY DEF IInv, CallsInv
<1>3. call[c] \in Adding
    BY <1>1, <1>2, CallKinds DEF CallOK
<1>4. r \in Adding /\ r.pc = "stored" /\ r.ev = call[c].ev
    BY <1>3 DEF Adding
<1>5. OneCall(c, r)
    BY DEF DaemonAdd, OneCall, IInv, CallsInv
<1> HIDE DEF r
<1>6. Content(call[c].ev) \in Contents
    <2>1. call[c].ev \in Events
        BY <1>3 DEF Adding
    <2> QED BY <2>1, EventType DEF Content, Contents
<1>7. /\ Extends(ipfs', ipfs)
      /\ DOMAIN ipfs' \subseteq Cid /\ ipfs' \in [DOMAIN ipfs' -> Contents]
    <2>1. CASE UNCHANGED ipfs
        BY <2>1 DEF Extends, IInv, DataInv
    <2>2. ASSUME NEW x \in Cid \ DOMAIN ipfs, ipfs' = Put(ipfs, x, Content(call[c].ev))
          PROVE  /\ Extends(ipfs', ipfs)
                 /\ DOMAIN ipfs' \subseteq Cid /\ ipfs' \in [DOMAIN ipfs' -> Contents]
        BY <1>6, <2>2 DEF Put, Extends, IInv, DataInv
    <2> QED BY <2>1, <2>2 DEF DaemonAdd
<1>8. \A x : Honest(x, ipfs) => Honest(x, ipfs')
    BY <1>7 DEF Honest, Extends
<1>9. DataInv'
    BY <1>1, <1>7, <1>8 DEF IInv, DataInv
<1>10. CallOK(r, index', ipfs')
    <2>1. r \in Calls
        BY <1>4 DEF Calls
    <2>2. AddReady(r, index.events, ipfs')
        BY <1>1, <1>2, <1>4, <1>7 DEF CallOK, AddReady, Extends
    <2> QED BY <1>1, <1>4, <2>1, <2>2 DEF CallOK, ParentsReady
<1>11. KeepsIndex(index, index')
    BY <1>1, KeepsSelf DEF IInv, DataInv
<1>12. up
    BY <1>1, RunningCall DEF IInv
<1>13. CallsInv'
    BY <1>1, <1>5, <1>7, <1>10, <1>11, <1>12, OneCallInv DEF IInv
<1> QED BY <1>1, <1>9, <1>13 DEF IInv

LEMMA AddReturnInv ==
    ASSUME IInv, NEW c \in Client, AddReturn(c)
    PROVE  IInv' /\ KeepsIndex(index, index')
<1> DEFINE e == call[c].ev
<1>1. /\ call[c].pc = "stored" /\ call' = [call EXCEPT ![c] = Idle]
      /\ UNCHANGED <<up, disk, ipfs, failed, missed, kept>>
      /\ index' = [events |-> Put(index.events, e.id, Stored(e)),
                   added  |-> index.added \cup {e.id}]
    BY DEF AddReturn
<1>2. CallOK(call[c], index, ipfs)
    BY DEF IInv, CallsInv
<1>3. /\ e \in Events /\ Accepts(index.events, e)
      /\ e.id \in Cid => e.id \in DOMAIN ipfs /\ ipfs[e.id] = Content(e)
    BY <1>1, <1>2, CallKinds DEF CallOK, AddReady, Adding
<1> HIDE DEF e
<1>4. IndexOK(index') /\ KeepsIndex(index, index')
    BY <1>1, <1>3, AddedEffect DEF IInv, DataInv
<1>5. Honest(index', ipfs')
    <2> DEFINE s == Put(index.events, e.id, Stored(e))
    <2>1. /\ DOMAIN s = DOMAIN index.events \cup {e.id}
          /\ s[e.id] = Stored(e)
          /\ \A p \in DOMAIN index.events : p # e.id => s[p] = index.events[p]
        BY DEF Put
    <2>2. index'.events = s
        BY <1>1
    <2>3. Content(Stored(e)) = Content(e)
        BY <1>3, StoredContent
    <2> HIDE DEF s
    <2> QED BY <1>1, <1>3, <2>1, <2>2, <2>3 DEF Honest, IInv, DataInv
<1>6. DataInv'
    BY <1>1, <1>4, <1>5 DEF IInv, DataInv
<1>7. OneCall(c, Idle)
    BY <1>1, Assigned DEF IInv
<1>8. CallOK(Idle, index', ipfs') /\ Extends(ipfs', ipfs)
    BY <1>1, EasyCalls DEF Extends
<1>9. CallsInv'
    BY <1>1, <1>4, <1>7, <1>8, OneCallInv DEF IInv
<1> QED BY <1>4, <1>6, <1>9 DEF IInv

LEMMA AddFailInv ==
    ASSUME IInv, NEW c \in Client, AddFail(c)
    PROVE  IInv' /\ UNCHANGED index
<1>1. /\ call[c].pc \in {"storing", "stored"} /\ call' = [call EXCEPT ![c] = Idle]
      /\ UNCHANGED <<up, index, disk, ipfs, missed, kept>>
      /\ failed' = failed \cup {call[c].ev.id}
    BY DEF AddFail
<1>2. call[c].ev.id \in Names
    BY <1>1, CallKinds, EventType DEF IInv, CallsInv, CallOK, Adding
<1>3. DataInv'
    BY <1>1, <1>2 DEF IInv, DataInv
<1>4. CallsInv'
    <2>1. OneCall(c, Idle)
        BY <1>1, Assigned DEF IInv
    <2>2. CallOK(Idle, index, ipfs) /\ Idle.pc = "idle"
        BY EasyCalls DEF Idle
    <2> QED BY <1>1, <2>1, <2>2, CallOnlyInv
<1> QED BY <1>1, <1>3, <1>4 DEF IInv

-----------------------------------------------------------------------------
(* GetEvent and the queries made of it                                     *)

\* The parents of an event that was added are in the index.
LEMMA AddedParents ==
    ASSUME NEW x, IndexOK(x), NEW id \in x.added
    PROVE  ToSet(x.events[id].parents) \subseteq DOMAIN x.events
BY DEF IndexOK, Refs

LEMMA GetInv ==
    ASSUME IInv, NEW c \in Client, NEW op \in Queries, NEW id \in Names, Get(c, op, id)
    PROVE  IInv' /\ UNCHANGED index
<1> DEFINE todo == IF op # "children" THEN << id >>
                   ELSE IF id \in DOMAIN index.events THEN index.events[id].children
                   ELSE << >>
           known == id \in index.added
           r == [pc |-> "get", op |-> op, id |-> id, todo |-> todo, known |-> known]
<1>1. /\ up /\ call[c] = Idle /\ todo # << >>
      /\ UNCHANGED <<up, index, disk, ipfs, failed, missed, kept>>
      /\ call' = [call EXCEPT ![c] = r]
    BY DEF Get
<1>2. todo \in Seq(Names)
    <2>1. id \in DOMAIN index.events => index.events[id].children \in Seq(Names)
        BY DEF IInv, DataInv, IndexOK, IsStore, EventRecords
    <2> QED BY <2>1
<1>3. op = "parents" => todo = << id >>
    OBVIOUS
<1>4. known \in BOOLEAN
    OBVIOUS
<1>5. known => id \in index.added
    OBVIOUS
<1>6. OneCall(c, r)
    BY <1>1, Assigned DEF IInv
<1> HIDE DEF todo, known
<1>7. r \in Querying
    BY <1>1, <1>2, <1>4 DEF Querying
<1>8. r.pc = "get" /\ r.op = op /\ r.id = id /\ r.todo = todo /\ r.known = known
    OBVIOUS
<1> HIDE DEF r
<1>9. ParentsReady(r, index)
    BY <1>3, <1>5, <1>8 DEF ParentsReady, Queries
<1>10. CallOK(r, index, ipfs)
    BY <1>7, <1>8, <1>9 DEF CallOK, AddReady, Calls
<1>11. CallsInv'
    BY <1>1, <1>6, <1>8, <1>10, CallOnlyInv
<1> QED BY <1>1, <1>11 DEF IInv, DataInv

\* A query in hand.
LEMMA QueryInHand ==
    ASSUME IInv, NEW c \in Client, call[c].pc \in {"get", "fetch"}
    PROVE  /\ call[c] \in Querying /\ ParentsReady(call[c], index) /\ up
           /\ Head(call[c].todo) \in Names /\ Head(call[c].todo) \in ToSet(call[c].todo)
<1>1. call[c] \in Querying /\ ParentsReady(call[c], index)
    BY CallKinds DEF IInv, CallsInv, CallOK
<1>2. call[c].todo \in Seq(Names) \ {<< >>}
    BY <1>1 DEF Querying
<1>3. up
    BY RunningCall DEF IInv
<1> QED BY <1>1, <1>2, <1>3, TailParts

LEMMA LookupInv ==
    ASSUME IInv, NEW c \in Client, Lookup(c)
    PROVE  IInv' /\ UNCHANGED index
<1> DEFINE r == call[c]
           id == Head(r.todo)
           found == Advance(r, index.events[id])
           fetch == [r EXCEPT !.pc = "fetch"]
<1>1. r.pc = "get" /\ UNCHANGED <<up, index, disk, ipfs, failed, missed, kept>>
    BY DEF Lookup
<1>2. r \in Querying /\ ParentsReady(r, index) /\ up /\ id \in Names /\ id \in ToSet(r.todo)
    BY <1>1, QueryInHand
<1>3. call' = [call EXCEPT ![c] = IF id \in DOMAIN index.events THEN found ELSE fetch]
    BY DEF Lookup
<1> HIDE DEF found, fetch
<1>4. CASE id \in DOMAIN index.events
    <2>1. index.events[id].parents \in Seq(Names)
        BY <1>4 DEF IInv, DataInv, IndexOK, IsStore, EventRecords
    <2>2. CASE found = Idle
        <3>1. CallOK(found, index, ipfs) /\ found.pc = "idle"
            BY <2>2, EasyCalls DEF Idle
        <3> QED BY <1>1, <1>2, <1>3, <1>4, <3>1, Assigned, CallOnlyInv DEF IInv, DataInv
    <2>3. CASE found # Idle
        <3>1. /\ found \in Querying /\ found.pc = "get"
              /\ found.known = r.known /\ found.op # "parents"
              /\ found.op = "rest" =>
                    /\ r.op \in {"parents", "rest"}
                    /\ ToSet(found.todo) \subseteq
                          IF r.op = "parents" THEN ToSet(index.events[id].parents)
                                              ELSE ToSet(r.todo)
            BY <1>2, <2>1, <2>3, AdvanceKind DEF found
        <3>2. ASSUME r.known, r.op = "parents"
              PROVE  ToSet(index.events[id].parents) \subseteq DOMAIN index.events
            <4>1. r.id \in index.added /\ r.todo = << r.id >>
                BY <1>1, <3>2, <1>2 DEF ParentsReady
            <4>2. id = r.id
                BY <4>1
            <4> QED BY <4>1, <4>2, AddedParents DEF IInv, DataInv
        <3>3. ParentsReady(found, index)
            BY <1>1, <1>2, <3>1, <3>2 DEF ParentsReady
        <3>4. CallOK(found, index, ipfs)
            BY <3>1, <3>3 DEF CallOK, AddReady, Calls
        <3>5. OneCall(c, found)
            BY <1>3, <1>4, Assigned DEF IInv
        <3>6. CallsInv'
            BY <1>1, <1>2, <3>1, <3>4, <3>5, CallOnlyInv
        <3> QED BY <1>1, <3>6 DEF IInv, DataInv
    <2> QED BY <2>2, <2>3
<1>5. CASE id \notin DOMAIN index.events
    <2>1. fetch \in Querying /\ fetch.pc = "fetch" /\ fetch.op = r.op /\ fetch.known = r.known
        BY <1>2 DEF Querying, fetch
    <2>2. ~(r.known /\ r.op \in {"parents", "rest"})
        <3>1. ASSUME r.known, r.op = "parents" PROVE FALSE
            <4>1. r.id \in index.added /\ id = r.id
                BY <1>1, <1>2, <3>1 DEF ParentsReady
            <4> QED BY <1>5, <4>1 DEF IInv, DataInv, IndexOK
        <3>2. ASSUME r.known, r.op = "rest" PROVE FALSE
            BY <1>1, <1>2, <1>5, <3>2 DEF ParentsReady
        <3> QED BY <3>1, <3>2
    <2>3. CallOK(fetch, index, ipfs)
        BY <2>1, <2>2 DEF CallOK, AddReady, Calls, ParentsReady
    <2>4. OneCall(c, fetch)
        BY <1>3, <1>5, Assigned DEF IInv
    <2>5. CallsInv'
        BY <1>1, <1>2, <2>1, <2>3, <2>4, CallOnlyInv
    <2> QED BY <1>1, <2>5 DEF IInv, DataInv
<1> QED BY <1>1, <1>4, <1>5

LEMMA FetchedInv ==
    ASSUME IInv, NEW c \in Client, Fetched(c)
    PROVE  IInv' /\ KeepsIndex(index, index')
<1> DEFINE r == call[c]
           id == Head(r.todo)
           v == ipfs[id]
           y == [events |-> WithFetched(index.events, id, v), added |-> index.added]
           next == Advance(r, v)
<1>1. /\ r.pc = "fetch" /\ ~Locked /\ id \in DOMAIN ipfs
      /\ UNCHANGED <<up, disk, ipfs, failed, missed, kept>>
    BY DEF Fetched
<1>2. r \in Querying /\ ParentsReady(r, index) /\ up
    BY <1>1, QueryInHand
<1>3. id \in Cid /\ id \in Names /\ v \in Contents /\ v.parents \in Seq(Names)
    BY <1>1 DEF IInv, DataInv, Names, Contents
<1>4. index' = y
    <2>1. index' = [index EXCEPT !.events = WithFetched(@, id, v)]
        BY DEF Fetched
    <2>2. index = [events |-> index.events, added |-> index.added]
        BY DEF IInv, DataInv, IndexOK
    <2> QED BY <2>1, <2>2
<1>5. OneCall(c, next)
    <2>1. call' = [call EXCEPT ![c] = next]
        BY DEF Fetched
    <2> QED BY <2>1, Assigned DEF IInv
<1>6. id \in DOMAIN index.events => Content(index.events[id]) = v
    BY <1>3 DEF IInv, DataInv, Honest
<1>7. next = Idle \/ /\ next \in Querying /\ next.pc = "get" /\ next.known = r.known
                     /\ next.op # "parents"
                     /\ next.op = "rest" => r.op \in {"parents", "rest"}
    BY <1>2, <1>3, AdvanceKind
<1> HIDE DEF next, y
<1>8. /\ IndexOK(index') /\ KeepsIndex(index, index')
      /\ DOMAIN index'.events = DOMAIN index.events \cup {id}
      /\ Content(index'.events[id]) = v
    <2>1. IndexOK(index) /\ v \in Contents /\ id \in Names
        BY <1>3 DEF IInv, DataInv
    <2>2. /\ IndexOK(y) /\ KeepsIndex(index, y)
          /\ DOMAIN y.events = DOMAIN index.events \cup {id}
          /\ Content(y.events[id]) = v
        BY <1>6, <2>1, FetchedEffect DEF y
    <2> QED BY <1>4, <2>2
<1>9. Honest(index', ipfs')
    BY <1>1, <1>8 DEF Honest, IInv, DataInv, KeepsIndex
<1>10. DataInv'
    BY <1>1, <1>8, <1>9 DEF IInv, DataInv
<1>11. ~(r.known /\ r.op \in {"parents", "rest"})
    BY <1>1, <1>2 DEF ParentsReady
<1>12. CallOK(next, index', ipfs') /\ next.pc \notin {"storing", "stored"}
    <2>1. CASE next = Idle
        BY <2>1, EasyCalls DEF Idle
    <2>2. CASE next # Idle
        BY <1>7, <1>11, <2>2 DEF CallOK, AddReady, Calls, ParentsReady
    <2> QED BY <2>1, <2>2
<1>13. Extends(ipfs', ipfs)
    BY <1>1 DEF Extends
<1>14. CallsInv'
    BY <1>1, <1>2, <1>5, <1>8, <1>12, <1>13, OneCallInv DEF IInv
<1> QED BY <1>8, <1>10, <1>14 DEF IInv

LEMMA FetchFailInv ==
    ASSUME IInv, NEW c \in Client, FetchFail(c)
    PROVE  IInv' /\ UNCHANGED index
<1>1. /\ call[c].pc = "fetch" /\ call' = [call EXCEPT ![c] = Idle]
      /\ UNCHANGED <<up, index, disk, ipfs, failed, kept>>
    BY DEF FetchFail
<1>2. ~(call[c].known /\ call[c].op \in {"parents", "rest"})
    BY <1>1, QueryInHand DEF ParentsReady
<1>3. missed' = missed
    BY <1>2 DEF FetchFail
<1>4. CallsInv'
    <2>1. OneCall(c, Idle)
        BY <1>1, Assigned DEF IInv
    <2>2. CallOK(Idle, index, ipfs) /\ Idle.pc = "idle"
        BY EasyCalls DEF Idle
    <2> QED BY <1>1, <2>1, <2>2, CallOnlyInv
<1> QED BY <1>1, <1>3, <1>4 DEF IInv, DataInv

-----------------------------------------------------------------------------
(* SaveIndex, Import and the life of the process                           *)

LEMMA TornInv ==
    ASSUME DataInv, disk' \in {disk, Torn}, UNCHANGED <<index, ipfs, failed, missed, kept>>
    PROVE  DataInv'
<1>1. CASE disk' = disk
    BY <1>1 DEF DataInv
<1>2. CASE disk' = Torn
    <2>1. disk' = [whole |-> FALSE, index |-> disk.index]
        BY <1>2 DEF Torn
    <2>2. disk'.whole = FALSE /\ disk'.index = disk.index
        BY <2>1
    <2> QED BY <2>1, <2>2 DEF DataInv
<1> QED BY <1>1, <1>2

LEMMA SaveIndexInv ==
    ASSUME IInv, NEW c \in Client, SaveIndex(c)
    PROVE  IInv' /\ UNCHANGED index
<1> DEFINE r == [pc |-> "saving", had |-> index.added]
<1>1. /\ up /\ disk' = Torn /\ call' = [call EXCEPT ![c] = r]
      /\ UNCHANGED <<up, index, ipfs, failed, missed, kept>>
    BY DEF SaveIndex
<1>2. OneCall(c, r)
    BY <1>1, Assigned DEF IInv
<1>3. CallOK(r, index, ipfs) /\ r.pc = "saving"
    <2>1. index.added \subseteq Names
        BY DEF IInv, DataInv, IndexOK, IsStore
    <2>2. r \in SavingCall
        BY <2>1 DEF SavingCall
    <2> QED BY <2>2, EasyCalls
<1> HIDE DEF r
<1>4. CallsInv'
    BY <1>1, <1>2, <1>3, CallOnlyInv
<1>5. DataInv'
    BY <1>1, TornInv DEF IInv
<1> QED BY <1>1, <1>4, <1>5 DEF IInv

\* A call that ends and leaves the index and the daemon as they are.
LEMMA EndsInv ==
    ASSUME IInv, NEW c \in Client, call' = [call EXCEPT ![c] = Idle],
           UNCHANGED <<up, index, ipfs>>
    PROVE  CallsInv'
<1>1. OneCall(c, Idle)
    BY Assigned DEF IInv
<1>2. CallOK(Idle, index, ipfs) /\ Idle.pc = "idle"
    BY EasyCalls DEF Idle
<1> QED BY <1>1, <1>2, CallOnlyInv

LEMMA SaveWriteInv ==
    ASSUME IInv, NEW c \in Client, SaveWrite(c)
    PROVE  IInv' /\ UNCHANGED index
<1>1. /\ disk' = [whole |-> TRUE, index |-> index] /\ kept' = kept \cup call[c].had
      /\ call[c].pc = "saving" /\ call' = [call EXCEPT ![c] = Idle]
      /\ UNCHANGED <<up, index, ipfs, failed, missed>>
    BY DEF SaveWrite, Exported, Saving
<1>2. CallsInv'
    BY <1>1, EndsInv
<1>3. disk'.whole = TRUE /\ disk'.index = index
    BY <1>1
<1>4. call[c].had \subseteq Names
    <2>1. call[c] \in SavingCall
        BY <1>1, CallKinds DEF IInv, CallsInv, CallOK
    <2> QED BY <2>1 DEF SavingCall
<1>5. DataInv'
    BY <1>1, <1>3, <1>4 DEF IInv, DataInv
<1> QED BY <1>1, <1>2, <1>5 DEF IInv

LEMMA SaveFailInv ==
    ASSUME IInv, NEW c \in Client, SaveFail(c)
    PROVE  IInv' /\ UNCHANGED index
<1>1. /\ disk' \in {disk, Torn} /\ call' = [call EXCEPT ![c] = Idle]
      /\ UNCHANGED <<up, index, ipfs, failed, missed, kept>>
    BY DEF SaveFail
<1>2. CallsInv'
    BY <1>1, EndsInv
<1>3. DataInv'
    BY <1>1, TornInv DEF IInv
<1> QED BY <1>1, <1>2, <1>3 DEF IInv

\* Queries in hand lose what they knew of the index.
LEMMA ImportInv ==
    ASSUME IInv, NEW c \in Client, Import(c)
    PROVE  IInv'
<1>1. /\ up /\ ~Locked /\ index' = disk.index
      /\ UNCHANGED <<up, disk, ipfs, failed, missed, kept>>
    BY DEF Import, Imported
<1>2. DataInv'
    BY <1>1 DEF IInv, DataInv
<1>3. call' = [d \in Client |-> IF call[d].pc \in {"get", "fetch"}
                                THEN [call[d] EXCEPT !.known = FALSE] ELSE call[d]]
    BY DEF Import
<1>4. ASSUME NEW d \in Client
      PROVE  CallOK(call'[d], index', ipfs') /\ call'[d].pc \notin {"storing", "stored"}
    <2>1. call[d] \in Calls /\ call[d].pc \notin {"storing", "stored"}
        BY <1>1 DEF Locked, IInv, CallsInv, CallOK
    <2>2. CASE call[d].pc \in {"get", "fetch"}
        <3> DEFINE r == [call[d] EXCEPT !.known = FALSE]
        <3>1. call[d] \in Querying
            BY <2>1, <2>2, CallKinds
        <3>2. r \in Querying /\ r.pc = call[d].pc /\ r.known = FALSE
            BY <3>1 DEF Querying
        <3>3. call'[d] = r
            BY <1>3, <2>2
        <3> HIDE DEF r
        <3> QED BY <2>2, <3>2, <3>3 DEF CallOK, Calls, AddReady, ParentsReady
    <2>3. CASE call[d].pc \notin {"get", "fetch"}
        <3>1. call'[d] = call[d]
            BY <1>3, <2>3
        <3> QED BY <2>1, <2>3, <3>1 DEF CallOK, AddReady, ParentsReady
    <2> QED BY <2>2, <2>3
<1>5. call' = [d \in Client |-> call'[d]]
    BY <1>3
<1>6. CallsInv'
    BY <1>1, <1>4, <1>5 DEF IInv, CallsInv
<1> QED BY <1>2, <1>6 DEF IInv

\* A program whose clients have not started.
LEMMA IdleCallsInv ==
    ASSUME call' = [c \in Client |-> Idle], up' \in BOOLEAN
    PROVE  CallsInv'
<1>1. \A c \in Client : call'[c] = Idle
    OBVIOUS
<1>2. \A c \in Client : CallOK(call'[c], index', ipfs')
    BY <1>1, EasyCalls
<1>3. \A c \in Client : call'[c].pc = "idle"
    BY <1>1 DEF Idle
<1>4. call' = [c \in Client |-> call'[c]]
    OBVIOUS
<1> QED BY <1>1, <1>2, <1>3, <1>4 DEF CallsInv

LEMMA NewInv ==
    ASSUME IInv, NewIPFSDAG
    PROVE  IInv'
<1>1. /\ ~up /\ up' = TRUE /\ index' = disk.index
      /\ UNCHANGED <<disk, ipfs, call, failed, missed, kept>>
    BY DEF NewIPFSDAG, Imported
<1>2. DataInv'
    BY <1>1 DEF IInv, DataInv
<1>3. call' = [c \in Client |-> Idle]
    <2>1. call = [c \in Client |-> call[c]] /\ \A c \in Client : call[c] = Idle
        BY <1>1 DEF IInv, CallsInv
    <2> QED BY <1>1, <2>1
<1> QED BY <1>1, <1>2, <1>3, IdleCallsInv DEF IInv

LEMMA EmptyIndexOK ==
    ASSUME NEW map
    PROVE  IndexOK(EmptyIndex) /\ Honest(EmptyIndex, map)
BY DEF IndexOK, Honest, EmptyIndex, EmptyStore, IsStore

LEMMA ExitInv ==
    ASSUME IInv, Exit
    PROVE  IInv'
<1>1. /\ up' = FALSE /\ index' = EmptyIndex /\ call' = [c \in Client |-> Idle]
      /\ UNCHANGED <<ipfs, failed, missed, kept>>
      /\ disk' \in {disk, Torn}
    BY DEF Exit
<1>2. DataInv'
    <2>1. IndexOK(index') /\ Honest(index', ipfs')
        BY <1>1, EmptyIndexOK
    <2>2. CASE disk' = disk
        BY <1>1, <2>1, <2>2 DEF IInv, DataInv
    <2>3. CASE disk' = Torn
        <3>1. disk' = [whole |-> FALSE, index |-> disk.index]
            BY <2>3 DEF IInv, Torn
        <3>2. disk'.whole = FALSE /\ disk'.index = disk.index
            BY <3>1
        <3> QED BY <1>1, <2>1, <3>1, <3>2 DEF IInv, DataInv
    <2> QED BY <1>1, <2>2, <2>3
<1>3. CallsInv'
    BY <1>1, IdleCallsInv
<1> QED BY <1>2, <1>3 DEF IInv

LEMMA InitInv == Init => IInv
<1> SUFFICES ASSUME Init PROVE IInv
    OBVIOUS
<1>1. /\ up = FALSE /\ index = EmptyIndex /\ disk = [whole |-> TRUE, index |-> EmptyIndex]
      /\ ipfs = << >> /\ call = [c \in Client |-> Idle]
      /\ failed = {} /\ missed = {} /\ kept = {}
    BY DEF Init
<1>2. disk.whole = TRUE /\ disk.index = EmptyIndex
    BY <1>1
<1>3. DOMAIN ipfs = {} /\ ipfs \in [DOMAIN ipfs -> Contents]
    BY <1>1
<1>4. DataInv
    BY <1>1, <1>2, <1>3, EmptyIndexOK DEF DataInv
<1>5. \A c \in Client : call[c] = Idle /\ CallOK(call[c], index, ipfs) /\ call[c].pc = "idle"
    BY <1>1, EasyCalls DEF Idle
<1>6. call = [c \in Client |-> call[c]]
    BY <1>1
<1>7. CallsInv
    BY <1>1, <1>5, <1>6 DEF CallsInv
<1> QED BY <1>4, <1>7 DEF IInv

\* Every step keeps the invariant, and all but Import, the start and the end of
\* the program keep what is indexed.
LEMMA StepInv ==
    ASSUME IInv, [Next]_vars
    PROVE  /\ IInv'
           /\ (\E c \in Client : Import(c)) \/ NewIPFSDAG \/ Exit \/ KeepsIndex(index, index')
<1>0. KeepsIndex(index, index)
    BY KeepsSelf DEF IInv, DataInv
<1>1. ASSUME NEW c \in Client, NEW e \in Offers, AddEvent(c, e)
      PROVE  IInv' /\ KeepsIndex(index, index')
    BY <1>1, AddEventInv
<1>2. ASSUME NEW c \in Client, NEW op \in Queries, NEW id \in Names, Get(c, op, id)
      PROVE  IInv' /\ KeepsIndex(index, index')
    BY <1>0, <1>2, GetInv
<1>3. ASSUME NEW c \in Client,
             DaemonAdd(c) \/ AddReturn(c) \/ AddFail(c) \/ Lookup(c) \/ Fetched(c)
               \/ FetchFail(c) \/ SaveIndex(c) \/ SaveWrite(c) \/ SaveFail(c)
      PROVE  IInv' /\ KeepsIndex(index, index')
    BY <1>0, <1>3, DaemonAddInv, AddReturnInv, AddFailInv, LookupInv, FetchedInv, FetchFailInv,
       SaveIndexInv, SaveWriteInv, SaveFailInv
<1>4. ASSUME NEW c \in Client, Import(c)
      PROVE  IInv'
    BY <1>4, ImportInv
<1>5. CASE NewIPFSDAG
    BY <1>5, NewInv
<1>6. CASE Exit
    BY <1>6, ExitInv
<1>7. CASE UNCHANGED vars
    <2>1. IInv'
        BY <1>7 DEF vars, IInv, DataInv, CallsInv
    <2> QED BY <1>0, <1>7, <2>1 DEF vars
<1> QED BY <1>1, <1>2, <1>3, <1>4, <1>5, <1>6, <1>7 DEF Next

\* The inductive invariant holds in every reachable state.
THEOREM Invariant == Spec => []IInv
<1>1. IInv /\ [Next]_vars => IInv'
    BY StepInv
<1> QED BY <1>1, InitInv, PTL DEF Spec

-----------------------------------------------------------------------------
(* The accounting of links                                                 *)

\* How often the event of id, if it was added to index x, refers to event p.
Due(x, id, p) == IF id \in x.added THEN RefCount(x.events[id], p) ELSE 0

\* A list holds an ID as often as it is due, or more often if its AddEvent failed.
Balanced(listed, due, id, refused) == listed >= due /\ (listed = due \/ id \in refused)

\* The lists of index x are balanced but for the IDs in hand.
Accounted(x, refused, inHand) ==
    \A p \in DOMAIN x.events : \A id \in Names \ inHand :
        Balanced(Count(id, x.events[p].children), Due(x, id, p), id, refused)

\* The clients that hold the lock for an event.
Adders == {c \in Client : call[c].pc \in {"storing", "stored"}}

InHand == {call[c].ev.id : c \in Adders}

\* Nothing is in hand in what was saved; the links of an event in hand are made,
\* and it is not indexed yet.
LinkInv ==
    /\ Accounted(index, failed, InHand)
    /\ \A c \in Adders : \A p \in DOMAIN index.events :
          Balanced(Count(call[c].ev.id, index.events[p].children),
                   RefCount(Stored(call[c].ev), p), call[c].ev.id, failed)
    /\ Accounted(disk.index, failed, {})

LEMMA CountOccurs == \A id, seq : Count(id, seq) = Occurs(id, seq)
BY DEF Count, Occurs

LEMMA RefCountNot ==
    ASSUME NEW v, NEW p, p \notin Refs(v)
    PROVE  RefCount(v, p) = 0
<1>1. p \notin ToSet(v.parents) /\ ~(v.type = "SubEvent" /\ v.parentID = p)
    BY DEF Refs
<1>2. Count(p, v.parents) = 0
    BY <1>1, OccursNot, CountOccurs
<1> QED BY <1>1, <1>2 DEF RefCount

\* Events with the same content refer to each other alike.
LEMMA RefCountSame ==
    ASSUME NEW v, NEW w, NEW p, Content(v) = Content(w)
    PROVE  RefCount(v, p) = RefCount(w, p)
<1>1. v.type = w.type /\ v.parentID = w.parentID /\ v.parents = w.parents
    BY DEF Content
<1> QED BY <1>1 DEF RefCount

\* More failures excuse more.
LEMMA MoreRefused ==
    ASSUME NEW x, NEW refused, NEW more, refused \subseteq more, NEW inHand,
           Accounted(x, refused, inHand)
    PROVE  Accounted(x, more, inHand)
BY DEF Accounted, Balanced

\* One event may come to the index, or be replaced by itself: nothing that was
\* added refers to an event that was not there.
LEMMA OneMoreEvent ==
    ASSUME NEW x, IndexOK(x), NEW y, NEW new, NEW refused, NEW inHand,
           Accounted(x, refused, inHand),
           DOMAIN y.events \subseteq DOMAIN x.events \cup {new},
           \A p \in DOMAIN x.events :
              /\ p \in DOMAIN y.events
              /\ Content(y.events[p]) = Content(x.events[p])
              /\ y.events[p].children = x.events[p].children,
           new \notin DOMAIN x.events => y.events[new].children = << >>,
           x.added \subseteq y.added, y.added \subseteq x.added \cup inHand
    PROVE  Accounted(y, refused, inHand)
<1> SUFFICES ASSUME NEW p \in DOMAIN y.events, NEW id \in Names \ inHand
             PROVE  Balanced(Count(id, y.events[p].children), Due(y, id, p), id, refused)
    BY DEF Accounted
<1>1. Due(y, id, p) = Due(x, id, p)
    <2>1. CASE id \in x.added
        <3>1. Content(y.events[id]) = Content(x.events[id])
            BY <2>1 DEF IndexOK
        <3> QED BY <2>1, <3>1, RefCountSame DEF Due
    <2>2. CASE id \notin x.added
        BY <2>2 DEF Due
    <2> QED BY <2>1, <2>2
<1>2. CASE p \in DOMAIN x.events
    BY <1>1, <1>2 DEF Accounted
<1>3. CASE p \notin DOMAIN x.events
    <2>1. Due(x, id, p) = 0
        BY <1>3, RefCountNot DEF Due, IndexOK
    <2>2. y.events[p].children = << >>
        BY <1>3
    <2>3. ToSet(<< >>) = {}
        BY DEF ToSet
    <2>4. Count(id, << >>) = 0
        BY <2>3, OccursNot, CountOccurs
    <2> QED BY <1>1, <2>1, <2>2, <2>4 DEF Balanced
<1> QED BY <1>2, <1>3

\* Steps that leave the index and the events in hand alone.
LEMMA SameLinks ==
    ASSUME LinkInv, UNCHANGED index, disk'.index = disk.index,
           failed \subseteq failed', Adders' = Adders,
           \A c \in Adders : call'[c].ev = call[c].ev
    PROVE  LinkInv'
<1>1. InHand' = InHand
    BY DEF InHand
<1>2. /\ Accounted(index, failed', InHand)
      /\ Accounted(disk.index, failed', {})
    BY MoreRefused DEF LinkInv
<1>3. \A c \in Adders : \A p \in DOMAIN index.events :
          Balanced(Count(call[c].ev.id, index.events[p].children),
                   RefCount(Stored(call[c].ev), p), call[c].ev.id, failed')
    BY DEF LinkInv, Balanced
<1> QED BY <1>1, <1>2, <1>3 DEF LinkInv

\* A call that is no AddEvent goes on, and the index stays.
LEMMA OtherCall ==
    ASSUME IInv, LinkInv, NEW c \in Client, c \notin Adders, NEW r, OneCall(c, r),
           r.pc \notin {"storing", "stored"},
           UNCHANGED index, disk'.index = disk.index, failed' = failed
    PROVE  LinkInv'
<1>1. call'[c] = r /\ \A d \in Client : d # c => call'[d] = call[d]
    BY DEF OneCall
<1>2. Adders' = Adders
    BY <1>1 DEF Adders
<1>3. \A d \in Adders : call'[d].ev = call[d].ev
    BY <1>1 DEF Adders
<1> QED BY <1>2, <1>3, SameLinks

\* AddEvent links the event it is given, and nothing else.
LEMMA LinkedOccurs ==
    ASSUME NEW x, IndexOK(x), NEW e \in Events, NEW p \in DOMAIN x.events, NEW id
    PROVE  /\ Count(id, x.events[p].children) \in Nat
           /\ LinkCount(x.events, e, p) \in Nat
           /\ Count(id, Linked(x, e)[p].children)
                 = IF Admissible(x.events, e) /\ id = e.id
                   THEN Count(id, x.events[p].children) + LinkCount(x.events, e, p)
                   ELSE Count(id, x.events[p].children)
<1> DEFINE after == AfterAdd(x.events, e)
<1>1. Linked(x, e)[p] = after[p]
    BY DEF Linked, AfterAdd, Admissible, WithLinks
<1>2. IsStore(x.events, Names) /\ e.id \in Names /\ e.parents \in Seq(Names)
    BY EventType DEF IndexOK
<1>3. /\ Occurs(id, x.events[p].children) \in Nat
      /\ Occurs(id, after[p].children)
            = IF Admissible(x.events, e) /\ id = e.id
              THEN Occurs(id, x.events[p].children) + LinkCount(x.events, e, p)
              ELSE Occurs(id, x.events[p].children)
    BY <1>2, AfterAddOccurs
<1>4. LinkCount(x.events, e, p) \in Nat
    BY <1>2, LinkCountPositive
<1> QED BY <1>1, <1>3, <1>4, CountOccurs

LEMMA AddEventLinks ==
    ASSUME IInv, LinkInv, NEW c \in Client, NEW e \in Offers, AddEvent(c, e)
    PROVE  LinkInv'
<1>1. /\ e \in Events /\ IndexOK(index) /\ Adders = {} /\ InHand = {}
      /\ UNCHANGED disk
    BY DEF Offers, AddEvent, Locked, Adders, InHand, IInv, DataInv
<1>2. /\ index' = [events |-> Linked(index, e), added |-> index.added]
      /\ DOMAIN index'.events = DOMAIN index.events
      /\ \A p \in DOMAIN index.events : Content(index'.events[p]) = Content(index.events[p])
    <2>1. index = [events |-> index.events, added |-> index.added]
        BY <1>1 DEF IndexOK
    <2>2. index' = [index EXCEPT !.events = Linked(index, e)]
        BY DEF AddEvent, Linked
    <2>3. index' = [events |-> Linked(index, e), added |-> index.added]
        BY <2>1, <2>2
    <2> QED BY <1>1, <2>3, LinkedEffect DEF KeepsIndex
<1>3. failed \subseteq failed'
    BY DEF AddEvent, Failed
<1>4. ASSUME NEW p \in DOMAIN index.events, NEW id \in Names
      PROVE  /\ Due(index', id, p) = Due(index, id, p)
             /\ Balanced(Count(id, index.events[p].children), Due(index, id, p), id, failed')
             /\ Count(id, index.events[p].children) \in Nat
    <2>1. Due(index', id, p) = Due(index, id, p)
        BY <1>1, <1>2, RefCountSame DEF Due, IndexOK
    <2>2. Balanced(Count(id, index.events[p].children), Due(index, id, p), id, failed)
        BY <1>1 DEF LinkInv, Accounted
    <2> QED BY <1>1, <1>3, <2>1, <2>2, LinkedOccurs DEF Balanced
<1>5. ASSUME NEW p \in DOMAIN index.events, NEW id \in Names,
             ~(Admissible(index.events, e) /\ id = e.id)
      PROVE  Balanced(Count(id, index'.events[p].children), Due(index', id, p), id, failed')
    <2>1. Count(id, index'.events[p].children) = Count(id, index.events[p].children)
        BY <1>1, <1>2, <1>5, LinkedOccurs
    <2> QED BY <1>4, <2>1
<1>6. ASSUME NEW p \in DOMAIN index.events, Admissible(index.events, e)
      PROVE  /\ Count(e.id, index'.events[p].children)
                   = Count(e.id, index.events[p].children) + LinkCount(index.events, e, p)
             /\ Count(e.id, index.events[p].children) \in Nat
             /\ LinkCount(index.events, e, p) \in Nat
             /\ Due(index', e.id, p) = 0
             /\ Count(e.id, index.events[p].children) = 0 \/ e.id \in failed'
    <2>1. e.id \in Names /\ e.id \notin index.added
        BY <1>1, <1>6, EventType DEF Admissible, IndexOK
    <2>2. Due(index', e.id, p) = 0 /\ Due(index, e.id, p) = 0
        BY <1>2, <2>1 DEF Due
    <2>3. Count(e.id, index.events[p].children) = 0 \/ e.id \in failed'
        BY <1>4, <2>1, <2>2 DEF Balanced
    <2> QED BY <1>1, <1>2, <1>6, <2>2, <2>3, LinkedOccurs
<1>7. Accounted(disk'.index, failed', {})
    BY <1>1, <1>3, MoreRefused DEF LinkInv
<1>8. CASE Accepts(index.events, e)
    <2>1. call' = [call EXCEPT ![c] = [pc |-> "storing", ev |-> e]]
        BY <1>8 DEF AddEvent
    <2>2. OneCall(c, [pc |-> "storing", ev |-> e])
        BY <2>1, Assigned DEF IInv
    <2>3. Adders' = {c} /\ call'[c].ev = e
        BY <1>1, <2>2 DEF OneCall, Adders
    <2>4. InHand' = {e.id}
        BY <2>3 DEF InHand
    <2>5. Accounted(index', failed', {e.id})
        BY <1>2, <1>5 DEF Accounted
    <2>6. ASSUME NEW p \in DOMAIN index.events
          PROVE  Balanced(Count(e.id, index'.events[p].children), RefCount(Stored(e), p),
                          e.id, failed')
        <3>1. Admissible(index.events, e) /\ e.parents \in Seq(Names)
            BY <1>1, <1>8, EventType DEF Accepts
        <3>2. LinkCount(index.events, e, p) = RefCount(Stored(e), p)
            BY <1>8, <3>1, CountOccurs, LinkCountAccepted DEF RefCount, Stored
        <3> QED BY <1>6, <3>1, <3>2 DEF Balanced
    <2> QED BY <1>2, <1>7, <2>3, <2>4, <2>5, <2>6 DEF LinkInv
<1>9. CASE ~Accepts(index.events, e)
    <2>1. call' = call /\ failed' = Failed(e.id)
        BY <1>9 DEF AddEvent
    <2>2. Adders' = {} /\ InHand' = {}
        BY <1>1, <2>1 DEF Adders, InHand
    <2>3. ASSUME NEW p \in DOMAIN index.events, Admissible(index.events, e)
          PROVE  Balanced(Count(e.id, index'.events[p].children), Due(index', e.id, p),
                          e.id, failed')
        <3>1. e.id \in failed'
            BY <2>1, <2>3 DEF Failed, Admissible
        <3> QED BY <1>6, <2>3, <3>1 DEF Balanced
    <2>4. Accounted(index', failed', {})
        BY <1>2, <1>5, <2>3 DEF Accounted
    <2> QED BY <1>7, <2>2, <2>4 DEF LinkInv
<1> QED BY <1>8, <1>9

\* What a client with an event in hand can count on.
LEMMA InTheHand ==
    ASSUME IInv, NEW c \in Client, c \in Adders
    PROVE  /\ call[c].ev \in Events /\ Accepts(index.events, call[c].ev)
           /\ Adders = {c} /\ InHand = {call[c].ev.id}
<1>1. call[c] \in Adding /\ Accepts(index.events, call[c].ev)
    BY CallKinds DEF Adders, IInv, CallsInv, CallOK, AddReady
<1>2. Adders = {c}
    BY DEF Adders, IInv, CallsInv
<1> QED BY <1>1, <1>2 DEF Adding, InHand

\* The lock is given up.
LEMMA AddEnds ==
    ASSUME IInv, NEW c \in Client, c \in Adders, call' = [call EXCEPT ![c] = Idle]
    PROVE  Adders' = {} /\ InHand' = {}
<1>1. \A d \in Client : call'[d] = IF d = c THEN Idle ELSE call[d]
    BY Assigned DEF IInv, OneCall
<1>2. Adders = {c}
    BY InTheHand
<1>3. Adders' = {}
    BY <1>1, <1>2 DEF Adders, Idle
<1> QED BY <1>3 DEF InHand

LEMMA AddReturnLinks ==
    ASSUME IInv, LinkInv, NEW c \in Client, AddReturn(c)
    PROVE  LinkInv'
<1> DEFINE e == call[c].ev
           s == Put(index.events, e.id, Stored(e))
<1>1. /\ c \in Adders /\ call' = [call EXCEPT ![c] = Idle]
      /\ UNCHANGED <<disk, failed>>
      /\ index' = [events |-> s, added |-> index.added \cup {e.id}]
    BY DEF AddReturn, Adders
<1>2. /\ e \in Events /\ Accepts(index.events, e) /\ InHand = {e.id}
      /\ IndexOK(index) /\ Adders' = {} /\ InHand' = {}
    BY <1>1, InTheHand, AddEnds DEF IInv, DataInv
<1>3. /\ DOMAIN s = DOMAIN index.events \cup {e.id} /\ s[e.id] = Stored(e)
      /\ \A p \in DOMAIN index.events : p # e.id => s[p] = index.events[p]
    BY DEF Put
<1>4. e.id \notin DOMAIN index.events /\ Refs(Stored(e)) \subseteq DOMAIN index.events
    BY <1>2, AfterAddNew
<1>5. index'.events = s /\ index'.added = index.added \cup {e.id}
    BY <1>1
<1>6. \A p \in DOMAIN index.events :
          Balanced(Count(e.id, index.events[p].children), RefCount(Stored(e), p), e.id, failed)
    BY <1>1 DEF LinkInv
<1> HIDE DEF s, e
<1>7. Accounted(index', failed, {e.id})
    <2>1. s[e.id].children = << >>
        BY <1>3 DEF Stored
    <2>2. Accounted(index, failed, {e.id})
        BY <1>2 DEF LinkInv
    <2> QED BY <1>2, <1>3, <1>4, <1>5, <2>1, <2>2, OneMoreEvent
<1>8. ASSUME NEW p \in DOMAIN s
      PROVE  Balanced(Count(e.id, s[p].children), RefCount(Stored(e), p), e.id, failed)
    <2>1. CASE p \in DOMAIN index.events
        BY <1>3, <1>4, <1>6, <2>1
    <2>2. CASE p \notin DOMAIN index.events
        <3>1. p = e.id /\ s[p].children = << >>
            BY <1>3, <2>2 DEF Stored
        <3>2. Count(e.id, << >>) = 0
            BY OccursNot, CountOccurs DEF ToSet
        <3>3. RefCount(Stored(e), p) = 0
            BY <1>4, <2>2, RefCountNot
        <3> QED BY <3>1, <3>2, <3>3 DEF Balanced
    <2> QED BY <2>1, <2>2
<1>9. Accounted(index', failed, {})
    <2> SUFFICES ASSUME NEW p \in DOMAIN index'.events, NEW id \in Names
                 PROVE  Balanced(Count(id, index'.events[p].children), Due(index', id, p),
                                 id, failed)
        BY DEF Accounted
    <2>1. CASE id # e.id
        BY <1>7, <2>1 DEF Accounted
    <2>2. CASE id = e.id
        BY <1>3, <1>5, <1>8, <2>2 DEF Due
    <2> QED BY <2>1, <2>2
<1> QED BY <1>1, <1>2, <1>9 DEF LinkInv

LEMMA AddFailLinks ==
    ASSUME IInv, LinkInv, NEW c \in Client, AddFail(c)
    PROVE  LinkInv'
<1> DEFINE e == call[c].ev
<1>1. /\ c \in Adders /\ call' = [call EXCEPT ![c] = Idle]
      /\ UNCHANGED <<index, disk>> /\ failed' = failed \cup {e.id}
    BY DEF AddFail, Adders
<1>2. /\ e \in Events /\ Accepts(index.events, e) /\ InHand = {e.id}
      /\ IndexOK(index) /\ Adders' = {} /\ InHand' = {}
    BY <1>1, InTheHand, AddEnds DEF IInv, DataInv
<1> HIDE DEF e
<1>3. Accounted(index, failed', {e.id}) /\ Accounted(disk.index, failed', {})
    BY <1>1, <1>2, MoreRefused DEF LinkInv
<1>4. ASSUME NEW p \in DOMAIN index.events
      PROVE  Balanced(Count(e.id, index.events[p].children), Due(index, e.id, p), e.id, failed')
    <2>1. e.id \notin index.added
        BY <1>2 DEF Accepts, Admissible, IndexOK
    <2>2. Count(e.id, index.events[p].children) \in Nat
        BY <1>2, LinkedOccurs
    <2> QED BY <1>1, <2>1, <2>2 DEF Due, Balanced
<1>5. Accounted(index, failed', {})
    BY <1>3, <1>4 DEF Accounted
<1> QED BY <1>1, <1>2, <1>3, <1>5 DEF LinkInv

\* The steps of queries and saves, but for the index that GetEvent fills.
LEMMA FetchedLinks ==
    ASSUME IInv, LinkInv, NEW c \in Client, Fetched(c)
    PROVE  LinkInv'
<1> DEFINE id == Head(call[c].todo)
           v == ipfs[id]
           s == WithFetched(index.events, id, v)
           r == Advance(call[c], v)
<1>1. /\ call[c].pc = "fetch" /\ ~Locked /\ id \in DOMAIN ipfs
      /\ UNCHANGED <<disk, failed>>
      /\ index' = [index EXCEPT !.events = s] /\ call' = [call EXCEPT ![c] = r]
    BY DEF Fetched
<1>2. /\ IndexOK(index) /\ Adders = {} /\ InHand = {}
      /\ index = [events |-> index.events, added |-> index.added]
    BY <1>1 DEF Locked, Adders, InHand, IInv, DataInv, IndexOK
<1>3. /\ id \in Cid /\ id \in Names /\ v \in Contents
      /\ v.parents \in Seq(Names)
      /\ id \in DOMAIN index.events => Content(index.events[id]) = v
    BY <1>1 DEF IInv, DataInv, Names, Contents, Honest
<1>4. r.pc \notin {"storing", "stored"}
    <2>1. call[c] \in Querying
        BY <1>1, QueryInHand
    <2> QED BY <1>3, <2>1, AdvanceKind DEF Idle
<1>5. \A d \in Client : call'[d] = IF d = c THEN r ELSE call[d]
    BY <1>1, Assigned DEF IInv, OneCall
<1> HIDE DEF r
<1>6. Adders' = {} /\ InHand' = {}
    <2>1. Adders' = {}
        BY <1>2, <1>4, <1>5 DEF Adders
    <2> QED BY <2>1 DEF InHand
<1>7. index' = [events |-> s, added |-> index.added]
    BY <1>1, <1>2
<1>8. /\ DOMAIN s = DOMAIN index.events \cup {id}
      /\ \A p \in DOMAIN index.events : Content(s[p]) = Content(index.events[p])
    <2> DEFINE y == [events |-> s, added |-> index.added]
    <2>1. KeepsIndex(index, y) /\ DOMAIN y.events = DOMAIN index.events \cup {id}
        <3> HIDE DEF v
        <3> QED BY <1>2, <1>3, FetchedEffect
    <2>2. y.events = s
        OBVIOUS
    <2> HIDE DEF y, s
    <2> QED BY <2>1, <2>2 DEF KeepsIndex
<1>9. s[id].children = IF id \in DOMAIN index.events THEN index.events[id].children ELSE << >>
    BY DEF WithFetched, Put, Stored
<1>10. \A p \in DOMAIN index.events : p # id => s[p] = index.events[p]
    BY DEF WithFetched, Put
<1> HIDE DEF s
<1>11. \A p \in DOMAIN index.events : s[p].children = index.events[p].children
    BY <1>9, <1>10
<1>12. index'.events = s /\ index'.added = index.added
    BY <1>7
<1>13. Accounted(index, failed, {})
    BY <1>2 DEF LinkInv
<1>14. Accounted(index', failed, {})
    BY <1>2, <1>8, <1>9, <1>11, <1>12, <1>13, OneMoreEvent
<1> QED BY <1>1, <1>6, <1>14 DEF LinkInv

\* The calls that do not touch the index.
LEMMA OtherLinks ==
    ASSUME IInv, LinkInv, NEW c \in Client,
           \/ \E op \in Queries, id \in Names : Get(c, op, id)
           \/ Lookup(c) \/ FetchFail(c) \/ SaveIndex(c) \/ SaveFail(c)
    PROVE  LinkInv'
<1>1. CASE \E op \in Queries, id \in Names : Get(c, op, id)
    <2>1. PICK r : r.pc = "get" /\ call' = [call EXCEPT ![c] = r]
        BY <1>1 DEF Get
    <2>2. OneCall(c, r) /\ r.pc \notin {"storing", "stored"}
        BY <2>1, Assigned DEF IInv
    <2>3. c \notin Adders /\ UNCHANGED <<index, disk, failed>>
        BY <1>1 DEF Get, Adders, Idle
    <2> QED BY <2>2, <2>3, OtherCall
<1>2. CASE Lookup(c)
    <2>1. call[c] \in Querying /\ call[c].pc = "get"
        BY <1>2, QueryInHand DEF Lookup
    <2> DEFINE id == Head(call[c].todo)
               fetch == [call[c] EXCEPT !.pc = "fetch"]
               found == Advance(call[c], index.events[id])
               r == IF id \in DOMAIN index.events THEN found ELSE fetch
    <2>2. OneCall(c, r)
        BY <1>2, Assigned DEF Lookup, IInv
    <2>3. fetch.pc = "fetch"
        BY <2>1 DEF Querying
    <2>4. id \in DOMAIN index.events => found.pc \in {"idle", "get"}
        <3>1. id \in DOMAIN index.events => index.events[id].parents \in Seq(Names)
            BY DEF IInv, DataInv, IndexOK, IsStore, EventRecords
        <3> QED BY <2>1, <3>1, AdvanceKind DEF Idle
    <2> HIDE DEF found, fetch
    <2>5. r.pc \notin {"storing", "stored"}
        BY <2>3, <2>4
    <2>6. c \notin Adders /\ UNCHANGED <<index, disk, failed>>
        BY <1>2 DEF Lookup, Adders
    <2> QED BY <2>2, <2>5, <2>6, OtherCall
<1>3. CASE FetchFail(c)
    <2>1. OneCall(c, Idle) /\ Idle.pc \notin {"storing", "stored"}
        BY <1>3, Assigned DEF FetchFail, Idle, IInv
    <2>2. c \notin Adders /\ UNCHANGED <<index, disk, failed>>
        BY <1>3 DEF FetchFail, Adders
    <2> QED BY <2>1, <2>2, OtherCall
<1>4. CASE SaveIndex(c) \/ SaveFail(c)
    <2>1. PICK r \in {Idle, [pc |-> "saving", had |-> index.added]} :
              call' = [call EXCEPT ![c] = r]
        BY <1>4 DEF SaveIndex, SaveFail
    <2>2. OneCall(c, r) /\ r.pc \notin {"storing", "stored"}
        <3>1. OneCall(c, r)
            BY <2>1, Assigned DEF IInv
        <3>2. r.pc \in {"idle", "saving"}
            BY DEF Idle
        <3> QED BY <3>1, <3>2
    <2>3. disk'.index = disk.index
        BY <1>4 DEF SaveIndex, SaveFail, Torn
    <2>4. c \notin Adders /\ UNCHANGED <<index, failed>>
        BY <1>4 DEF SaveIndex, SaveFail, Saving, Adders, Idle
    <2> QED BY <2>2, <2>3, <2>4, OtherCall
<1> QED BY <1>1, <1>2, <1>3, <1>4

LEMMA DaemonAddLinks ==
    ASSUME IInv, LinkInv, NEW c \in Client, DaemonAdd(c)
    PROVE  LinkInv'
<1>1. c \in Adders /\ UNCHANGED <<index, disk, failed>>
    BY DEF DaemonAdd, Adders
<1>2. call[c] \in Adding
    BY <1>1, CallKinds DEF Adders, IInv, CallsInv, CallOK
<1>3. \A d \in Client : call'[d] = IF d = c THEN [call[c] EXCEPT !.pc = "stored"] ELSE call[d]
    BY DEF DaemonAdd, IInv, CallsInv
<1>4. call'[c].pc = "stored" /\ call'[c].ev = call[c].ev
    BY <1>2, <1>3 DEF Adding
<1>5. Adders' = Adders /\ \A d \in Adders : call'[d].ev = call[d].ev
    BY <1>1, <1>3, <1>4 DEF Adders
<1> QED BY <1>1, <1>5, SameLinks

\* Nothing is in hand when the index is written, loaded or lost.
LEMMA WholeIndexLinks ==
    ASSUME IInv, LinkInv,
           (\E c \in Client : SaveWrite(c) \/ Import(c)) \/ NewIPFSDAG \/ Exit
    PROVE  LinkInv'
<1>1. CASE \E c \in Client : SaveWrite(c)
    <2>1. PICK c \in Client : SaveWrite(c)
        BY <1>1
    <2>2. /\ Adders = {} /\ InHand = {} /\ UNCHANGED <<index, failed>>
          /\ disk' = [whole |-> TRUE, index |-> index]
          /\ call' = [call EXCEPT ![c] = Idle]
        BY <2>1 DEF SaveWrite, Exported, Locked, Adders, InHand
    <2>3. \A d \in Client : call'[d] = IF d = c THEN Idle ELSE call[d]
        BY <2>2, Assigned DEF IInv, OneCall
    <2>4. Adders' = {}
        BY <2>2, <2>3 DEF Adders, Idle
    <2>5. InHand' = {}
        BY <2>4 DEF InHand
    <2>6. disk'.index = index
        BY <2>2
    <2> QED BY <2>2, <2>4, <2>5, <2>6 DEF LinkInv
<1>2. CASE \E c \in Client : Import(c)
    <2>1. /\ Adders = {} /\ UNCHANGED <<disk, failed>> /\ index' = disk.index
          /\ call' = [d \in Client |-> IF call[d].pc \in {"get", "fetch"}
                                       THEN [call[d] EXCEPT !.known = FALSE] ELSE call[d]]
        BY <1>2 DEF Import, Imported, Locked, Adders
    <2>2. ASSUME NEW d \in Client PROVE call'[d].pc \notin {"storing", "stored"}
        <3>1. CASE call[d].pc \in {"get", "fetch"}
            <4>1. call[d] \in Querying
                BY <3>1, CallKinds DEF IInv, CallsInv, CallOK
            <4>2. call'[d] = [call[d] EXCEPT !.known = FALSE]
                BY <2>1, <3>1
            <4>3. call'[d].pc = call[d].pc
                BY <4>1, <4>2 DEF Querying
            <4> QED BY <3>1, <4>3
        <3>2. CASE call[d].pc \notin {"get", "fetch"}
            BY <2>1, <3>2 DEF Adders
        <3> QED BY <3>1, <3>2
    <2>3. Adders' = {}
        BY <2>2 DEF Adders
    <2>4. InHand' = {}
        BY <2>3 DEF InHand
    <2> QED BY <2>1, <2>3, <2>4 DEF LinkInv
<1>3. CASE NewIPFSDAG
    <2>1. \A c \in Client : call[c] = Idle /\ call' = call
        BY <1>3 DEF NewIPFSDAG, IInv, CallsInv
    <2>2. Adders' = {}
        BY <2>1 DEF Adders, Idle
    <2>3. InHand' = {}
        BY <2>2 DEF InHand
    <2> QED BY <1>3, <2>2, <2>3 DEF NewIPFSDAG, Imported, LinkInv
<1>4. CASE Exit
    <2>1. /\ index' = EmptyIndex /\ call' = [c \in Client |-> Idle]
          /\ UNCHANGED failed /\ disk' \in {disk, Torn}
        BY <1>4 DEF Exit
    <2>2. Adders' = {}
        BY <2>1 DEF Adders, Idle
    <2>3. InHand' = {}
        BY <2>2 DEF InHand
    <2>4. disk'.index = disk.index
        BY <2>1 DEF Torn
    <2>5. Accounted(index', failed, {})
        BY <2>1 DEF Accounted, EmptyIndex, EmptyStore
    <2> QED BY <2>1, <2>2, <2>3, <2>4, <2>5 DEF LinkInv
<1> QED BY <1>1, <1>2, <1>3, <1>4

LEMMA StepLinks ==
    ASSUME IInv, LinkInv, [Next]_vars
    PROVE  LinkInv'
<1>1. CASE UNCHANGED vars
    BY <1>1 DEF vars, LinkInv, Adders, InHand
<1> QED BY <1>1, AddEventLinks, DaemonAddLinks, AddReturnLinks, AddFailLinks, FetchedLinks,
           OtherLinks, WholeIndexLinks DEF Next

LEMMA InitLinks == Init => LinkInv
<1> SUFFICES ASSUME Init PROVE LinkInv
    OBVIOUS
<1>1. Adders = {} /\ InHand = {}
    BY DEF Init, Adders, InHand, Idle
<1>2. Accounted(EmptyIndex, failed, {})
    BY DEF Accounted, EmptyIndex, EmptyStore
<1>3. index = EmptyIndex /\ disk.index = EmptyIndex
    BY DEF Init
<1> QED BY <1>1, <1>2, <1>3 DEF LinkInv

-----------------------------------------------------------------------------
(* What saves keep                                                         *)

\* What a save was begun with stays in the index until that save ends, and is in
\* whatever another save has written meanwhile: the file has been empty since.
KeptInv ==
    /\ disk.whole => kept \subseteq disk.index.added
    /\ up => kept \subseteq index.added
    /\ \A c \in Saving : /\ call[c].had \subseteq index.added
                         /\ disk.whole => call[c].had \subseteq disk.index.added

LEMMA InitKept == Init => KeptInv
BY DEF Init, KeptInv, Saving, Idle

\* The index loses nothing, the file stays or is torn, and nobody begins to save.
LEMMA SameKept ==
    ASSUME KeptInv, UNCHANGED kept, up' => up, index.added \subseteq index'.added,
           disk' \in {disk, Torn}, \A c \in Saving' : c \in Saving /\ call'[c] = call[c]
    PROVE  KeptInv'
<1>1. disk'.whole => disk'.index = disk.index /\ disk.whole
    BY DEF Torn
<1> QED BY <1>1 DEF KeptInv

\* One call goes on, and is not a save, or no longer.
LEMMA QuietKept ==
    ASSUME KeptInv, NEW c \in Client, NEW r, OneCall(c, r), r.pc # "saving",
           UNCHANGED <<up, kept>>, disk' \in {disk, Torn}, index.added \subseteq index'.added
    PROVE  KeptInv'
<1>1. \A d \in Saving' : d \in Saving /\ call'[d] = call[d]
    BY DEF OneCall, Saving
<1> QED BY <1>1, SameKept

LEMMA AddEventKept ==
    ASSUME IInv, KeptInv, NEW c \in Client, NEW e \in Offers, AddEvent(c, e)
    PROVE  KeptInv'
<1>1. /\ call[c] = Idle /\ UNCHANGED <<up, disk, kept>> /\ index.added \subseteq index'.added
    BY AddEventInv DEF AddEvent, KeepsIndex
<1>2. CASE Accepts(index.events, e)
    <2> DEFINE r == [pc |-> "storing", ev |-> e]
    <2>1. OneCall(c, r)
        BY <1>2, Assigned DEF AddEvent, IInv
    <2> QED BY <1>1, <2>1, QuietKept
<1>3. CASE ~Accepts(index.events, e)
    <2>1. call' = call
        BY <1>3 DEF AddEvent
    <2>2. \A d \in Saving' : d \in Saving /\ call'[d] = call[d]
        BY <2>1 DEF Saving
    <2> QED BY <1>1, <2>2, SameKept
<1> QED BY <1>2, <1>3

\* The calls that neither begin nor finish a save.
LEMMA OtherKept ==
    ASSUME IInv, KeptInv, NEW c \in Client,
           \/ \E op \in Queries, id \in Names : Get(c, op, id)
           \/ DaemonAdd(c) \/ AddReturn(c) \/ AddFail(c)
           \/ Lookup(c) \/ Fetched(c) \/ FetchFail(c) \/ SaveFail(c)
    PROVE  KeptInv'
<1>1. UNCHANGED <<up, kept>> /\ disk' \in {disk, Torn}
    BY DEF Get, DaemonAdd, AddReturn, AddFail, Lookup, Fetched, FetchFail, SaveFail
<1>2. index.added \subseteq index'.added
    BY GetInv, DaemonAddInv, AddReturnInv, AddFailInv, LookupInv, FetchedInv, FetchFailInv,
       SaveFailInv DEF KeepsIndex
<1>3. CASE \E op \in Queries, id \in Names : Get(c, op, id)
    <2>1. PICK r : r.pc = "get" /\ call' = [call EXCEPT ![c] = r]
        BY <1>3 DEF Get
    <2> QED BY <1>1, <1>2, <2>1, Assigned, QuietKept DEF IInv
<1>4. CASE DaemonAdd(c)
    <2> DEFINE r == [call[c] EXCEPT !.pc = "stored"]
    <2>1. call[c] \in Adding
        BY <1>4, CallKinds DEF DaemonAdd, IInv, CallsInv, CallOK
    <2>2. r.pc = "stored"
        BY <2>1 DEF Adding
    <2>3. OneCall(c, r)
        BY <1>4 DEF DaemonAdd, OneCall, IInv, CallsInv
    <2> QED BY <1>1, <1>2, <2>2, <2>3, QuietKept
<1>5. CASE AddReturn(c) \/ AddFail(c) \/ FetchFail(c) \/ SaveFail(c)
    <2>1. OneCall(c, Idle) /\ Idle.pc # "saving"
        BY <1>5, Assigned DEF AddReturn, AddFail, FetchFail, SaveFail, Idle, IInv
    <2> QED BY <1>1, <1>2, <2>1, QuietKept
<1>6. CASE Lookup(c)
    <2>1. call[c] \in Querying /\ call[c].pc = "get"
        BY <1>6, QueryInHand DEF Lookup
    <2> DEFINE id == Head(call[c].todo)
               fetch == [call[c] EXCEPT !.pc = "fetch"]
               found == Advance(call[c], index.events[id])
               r == IF id \in DOMAIN index.events THEN found ELSE fetch
    <2>2. OneCall(c, r)
        BY <1>6, Assigned DEF Lookup, IInv
    <2>3. fetch.pc = "fetch"
        BY <2>1 DEF Querying
    <2>4. id \in DOMAIN index.events => found.pc \in {"idle", "get"}
        <3>1. id \in DOMAIN index.events => index.events[id].parents \in Seq(Names)
            BY DEF IInv, DataInv, IndexOK, IsStore, EventRecords
        <3> QED BY <2>1, <3>1, AdvanceKind DEF Idle
    <2> HIDE DEF found, fetch
    <2>5. r.pc # "saving"
        BY <2>3, <2>4
    <2> HIDE DEF r
    <2> QED BY <1>1, <1>2, <2>2, <2>5, QuietKept
<1>7. CASE Fetched(c)
    <2> DEFINE r == Advance(call[c], ipfs[Head(call[c].todo)])
    <2>1. /\ call[c].pc = "fetch" /\ Head(call[c].todo) \in DOMAIN ipfs
          /\ call' = [call EXCEPT ![c] = r]
        BY <1>7 DEF Fetched
    <2>2. call[c] \in Querying /\ ipfs[Head(call[c].todo)].parents \in Seq(Names)
        BY <2>1, QueryInHand DEF IInv, DataInv, Contents
    <2>3. r.pc # "saving"
        BY <2>2, AdvanceKind DEF Idle
    <2>4. OneCall(c, r)
        BY <2>1, Assigned DEF IInv
    <2> HIDE DEF r
    <2> QED BY <1>1, <1>2, <2>3, <2>4, QuietKept
<1> QED BY <1>3, <1>4, <1>5, <1>6, <1>7

LEMMA SaveIndexKept ==
    ASSUME IInv, KeptInv, NEW c \in Client, SaveIndex(c)
    PROVE  KeptInv'
<1> DEFINE r == [pc |-> "saving", had |-> index.added]
<1>1. UNCHANGED <<up, index, kept>> /\ disk' = Torn /\ disk'.whole = FALSE
    BY DEF SaveIndex, Torn
<1>2. OneCall(c, r)
    BY Assigned DEF SaveIndex, IInv
<1>3. \A d \in Saving' : call'[d].had \subseteq index.added
    BY <1>2 DEF OneCall, Saving, KeptInv
<1> QED BY <1>1, <1>3 DEF KeptInv

LEMMA SaveWriteKept ==
    ASSUME IInv, KeptInv, NEW c \in Client, SaveWrite(c)
    PROVE  KeptInv'
<1>1. /\ c \in Saving /\ UNCHANGED <<up, index>> /\ kept' = kept \cup call[c].had
      /\ disk'.index = index /\ call' = [call EXCEPT ![c] = Idle]
    BY DEF SaveWrite, Exported
<1>2. up
    BY <1>1, RunningCall DEF Saving, IInv
<1>3. OneCall(c, Idle)
    BY <1>1, Assigned DEF IInv
<1>4. \A d \in Saving' : d \in Saving /\ call'[d] = call[d]
    BY <1>3 DEF OneCall, Saving, Idle
<1>5. kept' \subseteq index.added
    BY <1>1, <1>2 DEF KeptInv
<1> QED BY <1>1, <1>4, <1>5 DEF KeptInv

\* The index is loaded from a file that decodes, or lost with the program.
LEMMA WholeIndexKept ==
    ASSUME IInv, KeptInv, (\E c \in Client : Import(c)) \/ NewIPFSDAG \/ Exit
    PROVE  KeptInv'
<1>1. CASE \E c \in Client : Import(c)
    <2>1. /\ UNCHANGED <<up, disk, kept>> /\ disk.whole /\ index' = disk.index
          /\ call' = [d \in Client |-> IF call[d].pc \in {"get", "fetch"}
                                       THEN [call[d] EXCEPT !.known = FALSE] ELSE call[d]]
        BY <1>1 DEF Import, Imported
    <2>2. ASSUME NEW d \in Saving' PROVE d \in Saving /\ call'[d] = call[d]
        <3>1. d \in Client /\ call'[d].pc = "saving"
            BY DEF Saving
        <3>2. CASE call[d].pc \in {"get", "fetch"}
            <4>1. call[d] \in Querying
                BY <3>1, <3>2, CallKinds DEF IInv, CallsInv, CallOK
            <4>2. call'[d] = [call[d] EXCEPT !.known = FALSE]
                BY <2>1, <3>1, <3>2
            <4>3. call'[d].pc = call[d].pc
                BY <4>1, <4>2 DEF Querying
            <4> QED BY <3>1, <3>2, <4>3
        <3>3. CASE call[d].pc \notin {"get", "fetch"}
            BY <2>1, <3>1, <3>3 DEF Saving
        <3> QED BY <3>2, <3>3
    <2> QED BY <2>1, <2>2 DEF KeptInv
<1>2. CASE NewIPFSDAG
    <2>1. UNCHANGED <<disk, call, kept>> /\ disk.whole /\ index' = disk.index /\ ~up
        BY <1>2 DEF NewIPFSDAG, Imported
    <2>2. Saving' = {}
        BY <2>1 DEF Saving, Idle, IInv, CallsInv
    <2> QED BY <2>1, <2>2 DEF KeptInv
<1>3. CASE Exit
    <2>1. /\ up' = FALSE /\ call' = [c \in Client |-> Idle] /\ UNCHANGED kept
          /\ disk' \in {disk, Torn}
        BY <1>3 DEF Exit
    <2>2. Saving' = {}
        BY <2>1 DEF Saving, Idle
    <2>3. disk'.whole => disk'.index = disk.index /\ disk.whole
        BY <2>1 DEF Torn
    <2> QED BY <2>1, <2>2, <2>3 DEF KeptInv
<1> QED BY <1>1, <1>2, <1>3

LEMMA StepKept ==
    ASSUME IInv, KeptInv, [Next]_vars
    PROVE  KeptInv'
<1>1. CASE UNCHANGED vars
    BY <1>1 DEF vars, KeptInv, Saving
<1> QED BY <1>1, AddEventKept, OtherKept, SaveIndexKept, SaveWriteKept, WholeIndexKept DEF Next

-----------------------------------------------------------------------------
(* The theorems                                                            *)

\* What is in memory, on disk and in flight is well-formed.
THEOREM TypeCorrect == Spec => []TypeOK
<1>1. IInv => TypeOK
    <2> SUFFICES ASSUME IInv PROVE TypeOK
        OBVIOUS
    <2>1. \A x \in {index, disk.index} :
              IsStore(x.events, Names) /\ x.added \subseteq DOMAIN x.events
        BY DEF IInv, DataInv, IndexOK
    <2>2. \A c \in Client :
              call[c].pc \in {"storing", "stored"} => Accepts(index.events, call[c].ev)
        BY DEF IInv, CallsInv, CallOK, AddReady
    <2> QED BY <2>1, <2>2 DEF IInv, DataInv, CallsInv, TypeOK
<1> QED BY <1>1, Invariant, PTL

\* AddEvent, GetEvent, Import: what AddEvent has put in the index is a DAG.
THEOREM AddedAlwaysDAG == Spec => []AddedIsDAG
<1>1. IInv => AddedIsDAG
    BY DEF IInv, DataInv, IndexOK, AddedIsDAG
<1> QED BY <1>1, Invariant, PTL

\* GetParents: the parents of an added event are found without the daemon.
THEOREM AddedParentsAlwaysFound == Spec => []AddedParentsFound
<1>1. IInv => AddedParentsFound
    BY DEF IInv, DataInv, AddedParentsFound
<1> QED BY <1>1, Invariant, PTL

\* GetEvent and AddEvent: an indexed event keeps its content and its children.
THEOREM IndexOnlyGrows == Spec => IndexAppendOnly
<1>1. IInv /\ [Next]_vars =>
         [\/ \E c \in Client : Import(c)
          \/ NewIPFSDAG \/ Exit
          \/ /\ index.added \subseteq index'.added
             /\ \A id \in DOMAIN index.events :
                  /\ id \in DOMAIN index'.events
                  /\ Content(index'.events[id]) = Content(index.events[id])
                  /\ IsPrefix(index.events[id].children, index'.events[id].children)]_vars
    BY StepInv DEF KeepsIndex
<1> QED BY <1>1, Invariant, PTL DEF Spec, IndexAppendOnly

\* SaveIndex, Import and NewIPFSDAG: what a save has promised to keep is there
\* in every program that runs.
THEOREM SavedAlwaysSurvive == Spec => []SavedSurvive
<1>1. IInv /\ KeptInv /\ [Next]_vars => KeptInv'
    BY StepKept
<1>2. KeptInv => SavedSurvive
    BY DEF KeptInv, SavedSurvive
<1> QED BY <1>1, <1>2, InitKept, Invariant, PTL DEF Spec

\* AddEvent and GetEvent: an added event is listed by what it refers to, exactly
\* as often unless an AddEvent of its ID has failed.
THEOREM LinksAlwaysAccounted == Spec => []LinksAccounted
<1>1. IInv /\ LinkInv => LinksAccounted
    <2> SUFFICES ASSUME IInv, LinkInv, NEW p \in DOMAIN index.events, NEW id \in Names
                 PROVE  LET listed == Count(id, index.events[p].children)
                            due == IF id \in index.added
                                   THEN RefCount(index.events[id], p) ELSE 0
                        IN  /\ listed >= due
                            /\ \/ listed = due
                               \/ id \in failed
                               \/ \E c \in Client : /\ call[c].pc \in {"storing", "stored"}
                                                    /\ call[c].ev.id = id
        BY DEF LinksAccounted
    <2>1. CASE id \notin InHand
        BY <2>1 DEF LinkInv, Accounted, Balanced, Due
    <2>2. CASE id \in InHand
        <3>1. PICK c \in Adders : call[c].ev.id = id
            BY <2>2 DEF InHand
        <3>2. c \in Client /\ call[c].pc \in {"storing", "stored"}
            BY DEF Adders
        <3>3. call[c].ev \in Events /\ Accepts(index.events, call[c].ev) /\ IndexOK(index)
            BY <3>2, InTheHand DEF IInv, DataInv
        <3>4. id \notin index.added
            BY <3>1, <3>3 DEF Accepts, Admissible, IndexOK
        <3>5. Count(id, index.events[p].children) \in Nat
            BY <3>3, LinkedOccurs
        <3> QED BY <3>1, <3>2, <3>4, <3>5
    <2> QED BY <2>1, <2>2
<1>2. IInv /\ LinkInv /\ [Next]_vars => LinkInv'
    BY StepLinks
<1>3. Spec => []LinkInv
    BY <1>2, InitLinks, Invariant, PTL DEF Spec
<1> QED BY <1>1, <1>3, Invariant, PTL

=============================================================================

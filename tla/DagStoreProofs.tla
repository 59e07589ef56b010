--------------------------- MODULE DagStoreProofs ---------------------------
(***************************************************************************)
(* What one AddEvent does to any store: lemmas about AfterAdd, cited by    *)
(* the proofs of MemoryDAG and EventPool.                                  *)
(***************************************************************************)
EXTENDS DagStore, FiniteSetTheorems, TLAPS

\* Sequences over any set: content IDs form no set fixed in advance.
IsSeq(s) == \E S : s \in Seq(S)

LEMMA SeqDomain ==
    ASSUME NEW s, IsSeq(s)
    PROVE  Len(s) \in Nat /\ DOMAIN s = 1 .. Len(s)
BY DEF IsSeq

LEMMA AppendSeq ==
    ASSUME NEW s, NEW x, IsSeq(s)
    PROVE  /\ IsSeq(Append(s, x))
           /\ Len(Append(s, x)) = Len(s) + 1
           /\ \A i \in 1 .. Len(s) : Append(s, x)[i] = s[i]
           /\ Append(s, x)[Len(s) + 1] = x
<1>1. PICK S : s \in Seq(S)
    BY DEF IsSeq
<1>2. s \in Seq(S \cup {x})
    BY <1>1
<1>3. Append(s, x) \in Seq(S \cup {x})
    BY <1>2
<1> QED BY <1>2, <1>3 DEF IsSeq

LEMMA TailSeq ==
    ASSUME NEW s, IsSeq(s), s # << >>
    PROVE  /\ IsSeq(Tail(s))
           /\ Head(s) = s[1] /\ 1 \in DOMAIN s
           /\ \A i \in DOMAIN Tail(s) : i + 1 \in DOMAIN s /\ Tail(s)[i] = s[i + 1]
<1>1. PICK S : s \in Seq(S)
    BY DEF IsSeq
<1>2. Tail(s) \in Seq(S) /\ Len(Tail(s)) = Len(s) - 1 /\ Len(s) \in Nat \ {0}
    BY <1>1
<1>3. \A i \in 1 .. Len(s) - 1 : Tail(s)[i] = s[i + 1]
    BY <1>1, <1>2
<1> QED BY <1>1, <1>2, <1>3 DEF IsSeq

-----------------------------------------------------------------------------
(* AddEvent                                                                *)

\* The values of a store are event records: what the lemmas need of IsStore.
Shaped(store) ==
    \A p \in DOMAIN store :
        store[p] = [type     |-> store[p].type,
                    parentID |-> store[p].parentID,
                    parents  |-> store[p].parents,
                    children |-> store[p].children,
                    beacon   |-> store[p].beacon]

\* A store of MemoryDAG is shaped.
LEMMA IsStoreShaped ==
    ASSUME NEW store, NEW IDs, IsStore(store, IDs)
    PROVE  Shaped(store)
BY DEF IsStore, Shaped, EventRecords

\* AddEvent stores the event exactly when it accepts it, and removes nothing.
LEMMA AfterAddDomain ==
    ASSUME NEW store, NEW e
    PROVE  DOMAIN AfterAdd(store, e)
              = IF Accepts(store, e) THEN DOMAIN store \cup {e.id} ELSE DOMAIN store
BY DEF AfterAdd, Accepts, WithLinks

\* AddEvent changes nothing but Children of the events already stored.
LEMMA AfterAddOld ==
    ASSUME NEW store, NEW e, Shaped(store), NEW p \in DOMAIN store
    PROVE  /\ AfterAdd(store, e)[p].type = store[p].type
           /\ AfterAdd(store, e)[p].parentID = store[p].parentID
           /\ AfterAdd(store, e)[p].parents = store[p].parents
           /\ AfterAdd(store, e)[p].beacon = store[p].beacon
           /\ Refs(AfterAdd(store, e)[p]) = Refs(store[p])
BY DEF AfterAdd, Accepts, Admissible, WithLinks, Shaped, Refs

\* The record of the event just stored.
LEMMA AfterAddNew ==
    ASSUME NEW store, NEW e, Accepts(store, e)
    PROVE  /\ AfterAdd(store, e)[e.id] = Stored(e)
           /\ Refs(Stored(e)) \subseteq DOMAIN store
           /\ e.id \notin DOMAIN store
BY DEF AfterAdd, Accepts, Admissible, Stored, Refs

\* The result is again made of event records.
LEMMA AfterAddShaped ==
    ASSUME NEW store, NEW e, Shaped(store)
    PROVE  Shaped(AfterAdd(store, e))
BY DEF AfterAdd, Accepts, Admissible, WithLinks, Shaped, Stored

\* The number of links is a number, and an accepted event is linked from
\* everything it refers to.
LEMMA LinkCountPositive ==
    ASSUME NEW store, NEW e, NEW IDs, e.parents \in Seq(IDs), NEW p
    PROVE  /\ LinkCount(store, e, p) \in Nat
           /\ Accepts(store, e) /\ p \in Refs(Stored(e)) => LinkCount(store, e, p) > 0
<1> DEFINE at == {i \in LinkedParents(store, e) : e.parents[i] = p}
           spawner == IF e.type = "SubEvent" /\ e.parentID = p THEN 1 ELSE 0
<1>1. IsFiniteSet(at)
    <2>1. IsFiniteSet(1 .. Len(e.parents))
        BY FS_Interval
    <2>2. at \subseteq 1 .. Len(e.parents)
        BY DEF LinkedParents
    <2> QED BY <2>1, <2>2, FS_Subset
<1>2. Cardinality(at) \in Nat /\ (at # {} => Cardinality(at) > 0)
    BY <1>1, FS_CardinalityType, FS_EmptySet
<1>3. LinkCount(store, e, p) = Cardinality(at) + spawner
    BY DEF LinkCount
<1>4. ASSUME Accepts(store, e), p \in Refs(Stored(e))
      PROVE  at # {} \/ spawner = 1
    <2>1. CASE p \in ToSet(e.parents)
        <3>1. PICK i \in DOMAIN e.parents : e.parents[i] = p
            BY <2>1 DEF ToSet
        <3>2. i \in LinkedParents(store, e)
            BY <1>4, <3>1 DEF LinkedParents, Accepts, ToSet
        <3> QED BY <3>1, <3>2
    <2>2. CASE p \notin ToSet(e.parents)
        BY <1>4, <2>2 DEF Refs, Stored
    <2> QED BY <2>1, <2>2
<1> QED BY <1>2, <1>3, <1>4

\* The links of one call to one event are copies of the new ID ...
LEMMA RepeatType ==
    ASSUME NEW IDs, NEW id \in IDs, NEW n \in Nat
    PROVE  Repeat(id, n) \in Seq(IDs) /\ Len(Repeat(id, n)) = n /\ \A i \in 1 .. n : Repeat(id, n)[i] = id
BY DEF Repeat

\* ... which go to the end of its Children.
LEMMA ConcatRepeat ==
    ASSUME NEW IDs, NEW s \in Seq(IDs), NEW id \in IDs, NEW n \in Nat
    PROVE  /\ s \o Repeat(id, n) \in Seq(IDs)
           /\ ToSet(s) \subseteq ToSet(s \o Repeat(id, n))
           /\ n > 0 => id \in ToSet(s \o Repeat(id, n))
<1> DEFINE t == Repeat(id, n)
<1>1. t \in Seq(IDs) /\ Len(t) = n /\ \A i \in 1 .. n : t[i] = id
    BY RepeatType
<1> HIDE DEF t
<1>2. /\ s \o t \in Seq(IDs) /\ Len(s \o t) = Len(s) + n
      /\ \A i \in 1 .. Len(s) : (s \o t)[i] = s[i]
      /\ \A i \in 1 .. n : (s \o t)[Len(s) + i] = t[i]
    <2>1. s \o t \in Seq(IDs)
        BY <1>1
    <2>2. Len(s \o t) = Len(s) + n
        BY <1>1
    <2>3. \A i \in 1 .. Len(s) : (s \o t)[i] = s[i]
        BY <1>1
    <2>4. \A i \in 1 .. n : (s \o t)[Len(s) + i] = t[i]
        BY <1>1
    <2> QED BY <2>1, <2>2, <2>3, <2>4
<1>3. DOMAIN s = 1 .. Len(s) /\ Len(s) \in Nat
    OBVIOUS
<1>4. DOMAIN (s \o t) = 1 .. Len(s) + n
    BY <1>2
<1>5. \A i \in DOMAIN s : i \in DOMAIN (s \o t) /\ (s \o t)[i] = s[i]
    BY <1>2, <1>3, <1>4
<1>6. n > 0 => Len(s) + n \in DOMAIN (s \o t) /\ (s \o t)[Len(s) + n] = id
    BY <1>1, <1>2, <1>3, <1>4
<1>7. ToSet(s) \subseteq ToSet(s \o t)
    BY <1>5 DEF ToSet
<1>8. n > 0 => id \in ToSet(s \o t)
    BY <1>6 DEF ToSet
<1> QED BY <1>2, <1>7, <1>8 DEF t

\* How often ID c occurs in a list of references.
Occurs(c, seq) == Cardinality({i \in DOMAIN seq : seq[i] = c})

\* How often they occur there: the rest of the Children is as before.
LEMMA ConcatCount ==
    ASSUME NEW IDs, NEW s \in Seq(IDs), NEW id \in IDs, NEW n \in Nat, NEW c
    PROVE  LET t == s \o Repeat(id, n)
           IN  /\ Occurs(c, s) \in Nat
               /\ Occurs(c, t) = Occurs(c, s) + (IF c = id THEN n ELSE 0)
<1> DEFINE t == s \o Repeat(id, n)
           m == Len(s)
           old == {i \in DOMAIN s : s[i] = c}
<1>1. m \in Nat /\ DOMAIN s = 1 .. m
    OBVIOUS
<1>2. /\ DOMAIN t = 1 .. m + n
      /\ \A i \in 1 .. m : t[i] = s[i]
      /\ \A i \in m + 1 .. m + n : t[i] = id
    <2>1. PICK r : r = Repeat(id, n)
        OBVIOUS
    <2>2. r \in Seq(IDs) /\ Len(r) = n /\ \A i \in 1 .. n : r[i] = id
        BY <2>1, RepeatType
    <2>3. DOMAIN (s \o r) = 1 .. m + n /\ \A i \in 1 .. m : (s \o r)[i] = s[i]
        BY <2>2
    <2>4. \A i \in m + 1 .. m + n : (s \o r)[i] = r[i - m] /\ i - m \in 1 .. n
        BY <1>1, <2>2
    <2> QED BY <2>1, <2>2, <2>3, <2>4
<1>3. IsFiniteSet(old) /\ Cardinality(old) \in Nat
    <2>1. IsFiniteSet(1 .. m) /\ old \subseteq 1 .. m
        BY <1>1, FS_Interval
    <2> QED BY <2>1, FS_Subset, FS_CardinalityType
<1> HIDE DEF t, m
<1>4. CASE c # id
    <2> DEFINE new == {i \in DOMAIN t : t[i] = c}
    <2>1. new = old
        BY <1>1, <1>2, <1>4
    <2> HIDE DEF new, old
    <2>2. Cardinality(old) \in Nat /\ Cardinality(new) = Cardinality(old) + 0
        BY <1>3, <2>1
    <2> QED BY <1>4, <2>2 DEF t, new, old, Occurs
<1>5. CASE c = id
    <2>1. {i \in DOMAIN t : t[i] = c} = old \cup (m + 1 .. m + n)
        BY <1>1, <1>2, <1>5
    <2>2. old \cap (m + 1 .. m + n) = {}
        BY <1>1
    <2>3. IsFiniteSet(m + 1 .. m + n) /\ Cardinality(m + 1 .. m + n) = n
        <3>1. IsFiniteSet(m + 1 .. m + n)
              /\ Cardinality(m + 1 .. m + n) = IF m + 1 > m + n THEN 0 ELSE m + n - (m + 1) + 1
            BY <1>1, FS_Interval
        <3> QED BY <1>1, <3>1
    <2>4. Cardinality(old \cup (m + 1 .. m + n)) = Cardinality(old) + n
        <3>1. Cardinality(old \cap (m + 1 .. m + n)) = 0
            BY <2>2, FS_EmptySet
        <3> HIDE DEF old
        <3>2. Cardinality(old \cup (m + 1 .. m + n))
                 = Cardinality(old) + Cardinality(m + 1 .. m + n)
                   - Cardinality(old \cap (m + 1 .. m + n))
            BY <1>3, <2>3, FS_Union
        <3> QED BY <1>3, <2>3, <3>1, <3>2
    <2> DEFINE new == {i \in DOMAIN t : t[i] = c}
    <2>5. new = old \cup (m + 1 .. m + n)
        BY <2>1
    <2> HIDE DEF new, old
    <2>6. Cardinality(old) \in Nat /\ Cardinality(new) = Cardinality(old) + n
        BY <1>3, <2>4, <2>5
    <2> QED BY <1>5, <2>6 DEF t, new, old, Occurs
<1> QED BY <1>4, <1>5

\* What the Children of a stored event are after the call.
LEMMA AfterAddChildren ==
    ASSUME NEW store, NEW e, Shaped(store), NEW p \in DOMAIN store
    PROVE  AfterAdd(store, e)[p].children
              = IF Admissible(store, e)
                THEN store[p].children \o Repeat(e.id, LinkCount(store, e, p))
                ELSE store[p].children
<1>1. CASE ~Admissible(store, e)
    BY <1>1 DEF AfterAdd
<1>2. CASE Admissible(store, e)
    <2> DEFINE new == store[p].children \o Repeat(e.id, LinkCount(store, e, p))
    <2>1. WithLinks(store, e)[p] = [store[p] EXCEPT !.children = new]
        BY DEF WithLinks
    <2>2. WithLinks(store, e)[p].children = new
        BY <2>1 DEF Shaped
    <2>3. AfterAdd(store, e)[p] = WithLinks(store, e)[p]
        BY <1>2 DEF AfterAdd, Admissible, WithLinks
    <2> QED BY <1>2, <2>2, <2>3
<1> QED BY <1>1, <1>2

\* AddEvent lists nothing but the ID it was given.
LEMMA AfterAddOccurs ==
    ASSUME NEW store, NEW e, NEW IDs, IsStore(store, IDs),
           Admissible(store, e) => e.id \in IDs, e.parents \in Seq(IDs),
           NEW p \in DOMAIN store, NEW c
    PROVE  /\ Occurs(c, store[p].children) \in Nat
           /\ Occurs(c, AfterAdd(store, e)[p].children)
                 = IF Admissible(store, e) /\ c = e.id
                   THEN Occurs(c, store[p].children) + LinkCount(store, e, p)
                   ELSE Occurs(c, store[p].children)
<1> DEFINE old == store[p].children
           n   == LinkCount(store, e, p)
<1>1. old \in Seq(IDs)
    BY DEF IsStore, EventRecords
<1>2. n \in Nat
    BY LinkCountPositive
<1>3. AfterAdd(store, e)[p].children
         = IF Admissible(store, e) THEN old \o Repeat(e.id, n) ELSE old
    BY IsStoreShaped, AfterAddChildren
<1> HIDE DEF old, n
<1>4. Occurs(c, old) \in Nat
    <2>1. IsFiniteSet(1 .. Len(old)) /\ {i \in DOMAIN old : old[i] = c} \subseteq 1 .. Len(old)
        BY <1>1, FS_Interval
    <2> QED BY <2>1, FS_Subset, FS_CardinalityType DEF Occurs
<1>5. Admissible(store, e) =>
          Occurs(c, old \o Repeat(e.id, n)) = Occurs(c, old) + (IF c = e.id THEN n ELSE 0)
    BY <1>1, <1>2, ConcatCount
<1> QED BY <1>3, <1>4, <1>5 DEF old, n

\* An accepted event is listed as often as it refers to the event.
LEMMA LinkCountAccepted ==
    ASSUME NEW store, NEW e, NEW IDs, e.parents \in Seq(IDs), Accepts(store, e), NEW p
    PROVE  LinkCount(store, e, p)
              = Occurs(p, e.parents) + (IF e.type = "SubEvent" /\ e.parentID = p THEN 1 ELSE 0)
<1>1. \A i \in DOMAIN e.parents : e.parents[i] \in DOMAIN store
    BY DEF Accepts, ToSet
<1>2. \A i \in DOMAIN e.parents : \A j \in 1 .. i : j \in DOMAIN e.parents
    OBVIOUS
<1>3. LinkedParents(store, e) = DOMAIN e.parents
    BY <1>1, <1>2 DEF LinkedParents
<1> QED BY <1>3 DEF LinkCount, Occurs

\* What is not in a list occurs in it no times.
LEMMA OccursNot ==
    ASSUME NEW seq, NEW c, c \notin ToSet(seq)
    PROVE  Occurs(c, seq) = 0
<1>1. {i \in DOMAIN seq : seq[i] = c} = {}
    BY DEF ToSet
<1> QED BY <1>1, FS_EmptySet DEF Occurs

\* Children grow, and name an event just stored if it refers to their owner.
LEMMA AfterAddChildrenGrow ==
    ASSUME NEW store, NEW e, NEW IDs, IsStore(store, IDs),
           Admissible(store, e) => e.id \in IDs, e.parents \in Seq(IDs),
           NEW p \in DOMAIN store
    PROVE  LET after == AfterAdd(store, e)[p].children
           IN  /\ after \in Seq(IDs)
               /\ ToSet(store[p].children) \subseteq ToSet(after)
               /\ Accepts(store, e) /\ p \in Refs(Stored(e)) => e.id \in ToSet(after)
<1> DEFINE old == store[p].children
           n   == LinkCount(store, e, p)
<1>1. old \in Seq(IDs)
    BY DEF IsStore, EventRecords
<1>2. n \in Nat /\ (Accepts(store, e) /\ p \in Refs(Stored(e)) => n > 0)
    BY LinkCountPositive
<1>3. AfterAdd(store, e)[p].children
         = IF Admissible(store, e) THEN old \o Repeat(e.id, n) ELSE old
    BY IsStoreShaped, AfterAddChildren
<1>4. Accepts(store, e) => Admissible(store, e)
    BY DEF Accepts
<1> HIDE DEF old, n
<1>5. Admissible(store, e) =>
          /\ old \o Repeat(e.id, n) \in Seq(IDs)
          /\ ToSet(old) \subseteq ToSet(old \o Repeat(e.id, n))
          /\ n > 0 => e.id \in ToSet(old \o Repeat(e.id, n))
    BY <1>1, <1>2, ConcatRepeat
<1> QED BY <1>1, <1>2, <1>3, <1>4, <1>5 DEF old

\* They grow at the end.
LEMMA AfterAddPrefix ==
    ASSUME NEW store, NEW e, NEW IDs, IsStore(store, IDs),
           Admissible(store, e) => e.id \in IDs, e.parents \in Seq(IDs),
           NEW p \in DOMAIN store
    PROVE  IsPrefix(store[p].children, AfterAdd(store, e)[p].children)
<1> DEFINE old == store[p].children
           n   == LinkCount(store, e, p)
<1>1. old \in Seq(IDs)
    BY DEF IsStore, EventRecords
<1>2. n \in Nat
    BY LinkCountPositive
<1>3. AfterAdd(store, e)[p].children
         = IF Admissible(store, e) THEN old \o Repeat(e.id, n) ELSE old
    BY IsStoreShaped, AfterAddChildren
<1> HIDE DEF old, n
<1>4. IsPrefix(old, old)
    BY <1>1 DEF IsPrefix
<1>5. ASSUME Admissible(store, e) PROVE IsPrefix(old, old \o Repeat(e.id, n))
    <2> DEFINE t == Repeat(e.id, n)
    <2>1. t \in Seq(IDs)
        BY <1>2, <1>5, RepeatType
    <2> HIDE DEF t
    <2>2. old \o t \in Seq(IDs) /\ Len(old) <= Len(old \o t)
        BY <1>1, <2>1
    <2>3. SubSeq(old \o t, 1, Len(old)) = SubSeq(old, 1, Len(old))
        BY <1>1, <2>1
    <2> QED BY <2>2, <2>3 DEF IsPrefix, t
<1> QED BY <1>3, <1>4, <1>5 DEF old

\* AddEvent on a store yields a store.
LEMMA AfterAddIsStore ==
    ASSUME NEW store, NEW e, NEW IDs, IsStore(store, IDs),
           Admissible(store, e) => e.id \in IDs,
           e.type \in EventTypes, e.parentID \in IDs \cup {NoID}, e.parents \in Seq(IDs)
    PROVE  IsStore(AfterAdd(store, e), IDs)
<1> DEFINE after == AfterAdd(store, e)
<1>0. Shaped(store) /\ Shaped(after)
    BY IsStoreShaped, AfterAddShaped
<1>1. DOMAIN after \subseteq IDs
    <2>1. DOMAIN store \subseteq IDs /\ (Accepts(store, e) => e.id \in IDs)
        BY DEF IsStore, Accepts
    <2> QED BY <2>1, AfterAddDomain
<1>2. ASSUME NEW p \in DOMAIN after
      PROVE  after[p] \in EventRecords(IDs)
    <2>1. CASE p \in DOMAIN store
        <3>1. store[p] \in EventRecords(IDs)
            BY <2>1 DEF IsStore
        <3>2. after[p].children \in Seq(IDs)
            BY <2>1, AfterAddChildrenGrow
        <3>3. /\ after[p].type = store[p].type
              /\ after[p].parentID = store[p].parentID
              /\ after[p].parents = store[p].parents
              /\ after[p].beacon = store[p].beacon
            BY <1>0, <2>1, AfterAddOld
        <3> HIDE DEF after
        <3> QED BY <1>0, <3>1, <3>2, <3>3 DEF Shaped, EventRecords
    <2>2. CASE p \notin DOMAIN store
        <3>0. Accepts(store, e) /\ p = e.id
            BY <2>2, AfterAddDomain
        <3>1. after[p] = Stored(e)
            BY <3>0, AfterAddNew
        <3>2. << >> \in Seq(IDs)
            OBVIOUS
        <3> HIDE DEF after
        <3> QED BY <3>1, <3>2 DEF Stored, EventRecords, NoAnchor
    <2> QED BY <2>1, <2>2
<1>3. after \in [DOMAIN after -> EventRecords(IDs)]
    <2>1. after = [p \in DOMAIN after |-> after[p]]
        BY DEF IsStore, AfterAdd, WithLinks
    <2> HIDE DEF after
    <2> QED BY <1>2, <2>1
<1> QED BY <1>1, <1>3 DEF IsStore

-----------------------------------------------------------------------------
(* Stores that grow                                                        *)

\* The children of stored events are lists.
Lists(store) == \A p \in DOMAIN store : IsSeq(store[p].children)

\* What AddEvent does to one list of children: it appends the ID of the event
\* it was called with, at least once if it stores one that refers to the owner.
LEMMA AfterAddList ==
    ASSUME NEW store, NEW e, Shaped(store), Lists(store), IsSeq(e.parents),
           NEW p \in DOMAIN store
    PROVE  LET old   == store[p].children
               after == AfterAdd(store, e)[p].children
           IN  /\ IsSeq(after)
               /\ \A i \in DOMAIN old : i \in DOMAIN after /\ after[i] = old[i]
               /\ ToSet(after) \subseteq ToSet(old) \cup {e.id}
               /\ Accepts(store, e) /\ p \in Refs(Stored(e)) => e.id \in ToSet(after)
               /\ Accepts(store, e) /\ p \notin Refs(Stored(e)) => after = old
<1> DEFINE old == store[p].children
           n   == LinkCount(store, e, p)
           t   == Repeat(e.id, n)
<1>1. PICK S : old \in Seq(S)
    BY DEF Lists, IsSeq
<1>2. n \in Nat /\ (Accepts(store, e) /\ p \in Refs(Stored(e)) => n > 0)
    BY LinkCountPositive DEF IsSeq
<1>3. AfterAdd(store, e)[p].children = IF Admissible(store, e) THEN old \o t ELSE old
    BY AfterAddChildren
<1>4. Accepts(store, e) => Admissible(store, e)
    BY DEF Accepts
<1>5. ASSUME Accepts(store, e), p \notin Refs(Stored(e)) PROVE n = 0
    <2>1. {i \in LinkedParents(store, e) : e.parents[i] = p} = {}
        BY <1>5 DEF LinkedParents, Refs, Stored, ToSet
    <2>2. ~(e.type = "SubEvent" /\ e.parentID = p)
        BY <1>5 DEF Refs, Stored
    <2> QED BY <2>1, <2>2, FS_EmptySet DEF LinkCount
<1> HIDE DEF old, n
<1> DEFINE IDs == S \cup {e.id}
<1>6. old \in Seq(IDs) /\ e.id \in IDs
    BY <1>1
<1>7. t \in Seq(IDs) /\ Len(t) = n /\ \A i \in 1 .. n : t[i] = e.id
    BY <1>2, <1>6, RepeatType
<1> HIDE DEF t, IDs
<1>8. /\ old \o t \in Seq(IDs) /\ Len(old \o t) = Len(old) + n
      /\ \A i \in 1 .. Len(old) : (old \o t)[i] = old[i]
      /\ \A i \in 1 .. n : (old \o t)[Len(old) + i] = e.id
      /\ n = 0 => old \o t = old
    BY <1>2, <1>6, <1>7
<1>9. /\ DOMAIN old = 1 .. Len(old) /\ Len(old) \in Nat
      /\ DOMAIN (old \o t) = 1 .. Len(old) + n
    BY <1>2, <1>6, <1>8
<1> DEFINE new == old \o t
<1>10. /\ IsSeq(new) /\ DOMAIN new = 1 .. Len(old) + n
       /\ \A i \in 1 .. Len(old) : new[i] = old[i]
       /\ \A i \in 1 .. n : new[Len(old) + i] = e.id
       /\ n = 0 => new = old
    BY <1>8, <1>9 DEF IsSeq
<1>11. AfterAdd(store, e)[p].children = IF Admissible(store, e) THEN new ELSE old
    BY <1>3
<1> HIDE DEF new
<1>12. \A i \in DOMAIN old : i \in DOMAIN new /\ new[i] = old[i]
    BY <1>2, <1>9, <1>10
<1>13. \A i \in DOMAIN new : i \in DOMAIN old \/ new[i] = e.id
    <2> SUFFICES ASSUME NEW i \in DOMAIN new, i \notin DOMAIN old PROVE new[i] = e.id
        OBVIOUS
    <2>1. i - Len(old) \in 1 .. n /\ Len(old) + (i - Len(old)) = i
        BY <1>2, <1>9, <1>10
    <2> QED BY <1>10, <2>1
<1>14. ToSet(new) \subseteq ToSet(old) \cup {e.id}
    BY <1>12, <1>13 DEF ToSet
<1>15. n > 0 => e.id \in ToSet(new)
    <2> SUFFICES ASSUME n > 0 PROVE e.id \in ToSet(new)
        OBVIOUS
    <2>1. 1 \in 1 .. n /\ Len(old) + 1 \in DOMAIN new
        BY <1>2, <1>9, <1>10
    <2> QED BY <1>10, <2>1 DEF ToSet
<1>16. IsSeq(old)
    BY <1>6 DEF IsSeq
<1> QED BY <1>2, <1>4, <1>5, <1>10, <1>11, <1>12, <1>14, <1>15, <1>16 DEF old

LEMMA AfterAddLists ==
    ASSUME NEW store, NEW e, Shaped(store), Lists(store), IsSeq(e.parents)
    PROVE  Lists(AfterAdd(store, e))
<1> SUFFICES ASSUME NEW p \in DOMAIN AfterAdd(store, e)
             PROVE  IsSeq(AfterAdd(store, e)[p].children)
    BY DEF Lists
<1>1. CASE p \in DOMAIN store
    BY <1>1, AfterAddList
<1>2. CASE p \notin DOMAIN store
    <2>1. Accepts(store, e) /\ p = e.id
        BY <1>2, AfterAddDomain
    <2>2. AfterAdd(store, e)[p] = Stored(e)
        BY <2>1, AfterAddNew
    <2>3. IsSeq(<< >>)
        BY DEF IsSeq
    <2> QED BY <2>2, <2>3 DEF Stored
<1> QED BY <1>1, <1>2

\* AddEvent lets a store grow, whether it succeeds or fails.
LEMMA AfterAddGrows ==
    ASSUME NEW store, NEW e, Shaped(store), Lists(store), IsSeq(e.parents)
    PROVE  Grows(store, AfterAdd(store, e))
<1> DEFINE after == AfterAdd(store, e)
<1>1. ASSUME NEW id \in DOMAIN store PROVE Keeps(store, after, id)
    <2>1. id \in DOMAIN after
        BY AfterAddDomain
    <2>2. /\ after[id].type = store[id].type
          /\ after[id].parentID = store[id].parentID
          /\ after[id].parents = store[id].parents
          /\ after[id].beacon = store[id].beacon
        BY AfterAddOld
    <2>3. \A i \in DOMAIN store[id].children :
              i \in DOMAIN after[id].children
                  /\ after[id].children[i] = store[id].children[i]
        BY AfterAddList
    <2> HIDE DEF after
    <2> QED BY <2>1, <2>2, <2>3 DEF Keeps
<1>2. ASSUME NEW id \in DOMAIN after \ DOMAIN store PROVE Enters(store, after, id)
    <2>1. Accepts(store, e) /\ id = e.id
        BY AfterAddDomain
    <2>2. after[id] = Stored(e) /\ Refs(after[id]) = Refs(Stored(e))
          /\ Refs(Stored(e)) \subseteq DOMAIN store
        BY <2>1, AfterAddNew
    <2>3. \A p \in Refs(Stored(e)) : id \in ToSet(after[p].children)
        BY <2>1, <2>2, AfterAddList
    <2>4. after[id].children = << >> /\ after[id].beacon = NoAnchor
        BY <2>2 DEF Stored
    <2> HIDE DEF after
    <2> QED BY <2>2, <2>3, <2>4 DEF Enters
<1> QED BY <1>1, <1>2 DEF Grows

\* A DAG: no reference dangles, none can be followed round, and each can be
\* followed backwards.
Sound(store) == RefsPresent(store) /\ Acyclic(store) /\ BackLinked(store)

\* It stays one as it grows: no event of the old store can refer to one that
\* has only entered now.
LEMMA GrowsSound ==
    ASSUME NEW old, NEW new, Grows(old, new), Sound(old)
    PROVE  Sound(new)
<1>1. /\ DOMAIN old \subseteq DOMAIN new
      /\ \A id \in DOMAIN old : Refs(new[id]) = Refs(old[id]) /\ Refs(old[id]) \subseteq DOMAIN old
    BY DEF Grows, Keeps, Sound, RefsPresent, Refs
<1>2. \A id \in DOMAIN new : Refs(new[id]) \subseteq DOMAIN old
    BY <1>1 DEF Grows, Enters
<1>3. RefsPresent(new)
    BY <1>1, <1>2 DEF RefsPresent
<1>4. Acyclic(new)
    <2> SUFFICES ASSUME NEW S \in SUBSET DOMAIN new, S # {}
                 PROVE  \E id \in S : Refs(new[id]) \cap S = {}
        BY DEF Acyclic
    <2>1. CASE S \cap DOMAIN old = {}
        BY <1>2, <2>1
    <2>2. CASE S \cap DOMAIN old # {}
        <3>1. PICK id \in S \cap DOMAIN old : Refs(old[id]) \cap (S \cap DOMAIN old) = {}
            BY <2>2 DEF Sound, Acyclic
        <3> QED BY <1>1, <3>1
    <2> QED BY <2>1, <2>2
<1>5. BackLinked(new)
    <2> SUFFICES ASSUME NEW id \in DOMAIN new, NEW p \in Refs(new[id])
                 PROVE  id \in ToSet(new[p].children)
        BY DEF BackLinked
    <2>1. CASE id \in DOMAIN old
        <3>1. p \in DOMAIN old /\ id \in ToSet(old[p].children)
            BY <1>1, <2>1 DEF Sound, BackLinked
        <3>2. ToSet(old[p].children) \subseteq ToSet(new[p].children)
            BY <3>1 DEF Grows, Keeps, ToSet
        <3> QED BY <3>1, <3>2
    <2>2. CASE id \notin DOMAIN old
        BY <2>2 DEF Grows, Enters
    <2> QED BY <2>1, <2>2
<1> QED BY <1>3, <1>4, <1>5 DEF Sound

LEMMA EmptySound == Sound(EmptyStore)
BY DEF Sound, RefsPresent, Acyclic, BackLinked, EmptyStore

\* Every child entry is an event that refers to the owner of the list.
ChildrenRefer(store) ==
    \A p \in DOMAIN store : \A c \in ToSet(store[p].children) :
        c \in DOMAIN store /\ p \in Refs(store[c])

\* It stays so unless AddEvent fails half-way.
LEMMA AfterAddChildrenRefer ==
    ASSUME NEW store, NEW e, Shaped(store), Lists(store), IsSeq(e.parents),
           ChildrenRefer(store), Accepts(store, e) \/ ~Admissible(store, e)
    PROVE  ChildrenRefer(AfterAdd(store, e))
<1> DEFINE after == AfterAdd(store, e)
<1>1. CASE ~Admissible(store, e)
    BY <1>1 DEF AfterAdd
<1>2. CASE Accepts(store, e)
    <2>1. DOMAIN after = DOMAIN store \cup {e.id} /\ after[e.id] = Stored(e)
        BY <1>2, AfterAddDomain, AfterAddNew
    <2>2. \A c \in DOMAIN store : Refs(after[c]) = Refs(store[c])
        BY AfterAddOld
    <2> SUFFICES ASSUME NEW p \in DOMAIN after, NEW c \in ToSet(after[p].children)
                 PROVE  c \in DOMAIN after /\ p \in Refs(after[c])
        BY DEF ChildrenRefer
    <2>3. CASE p \in DOMAIN store
        <3>1. CASE c \in ToSet(store[p].children)
            BY <2>1, <2>2, <2>3, <3>1 DEF ChildrenRefer
        <3>2. CASE c \notin ToSet(store[p].children)
            <4>1. c = e.id /\ after[p].children # store[p].children
                BY <2>3, <3>2, AfterAddList
            <4>2. p \in Refs(Stored(e))
                BY <1>2, <2>3, <4>1, AfterAddList
            <4> QED BY <2>1, <4>1, <4>2
        <3> QED BY <3>1, <3>2
    <2>4. CASE p \notin DOMAIN store
        <3>1. after[p].children = << >>
            BY <2>1, <2>4 DEF Stored
        <3> HIDE DEF after
        <3> QED BY <3>1 DEF ToSet
    <2> QED BY <2>3, <2>4
<1> QED BY <1>1, <1>2

\* What Verify decides, from what is known of a DAG.
LEMMA SoundVerified ==
    ASSUME NEW store, Sound(store), ChildrenRefer(store)
    PROVE  Verified(store)
<1>1. \A id \in DOMAIN store : ToSet(store[id].parents) \subseteq Refs(store[id])
    BY DEF Refs
<1>2. ParentsAcyclic(store)
    <2> SUFFICES ASSUME NEW S \in SUBSET DOMAIN store, S # {}
                 PROVE  \E id \in S : ToSet(store[id].parents) \cap S = {}
        BY DEF ParentsAcyclic
    <2>1. PICK id \in S : Refs(store[id]) \cap S = {}
        BY DEF Sound, Acyclic
    <2> QED BY <1>1, <2>1
<1>3. ChildrenPresent(store)
    BY DEF ChildrenRefer, ChildrenPresent
<1> QED BY <1>2, <1>3 DEF Sound, Verified

=============================================================================

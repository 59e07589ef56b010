--------------------------- MODULE DagWalksProofs ---------------------------
(***************************************************************************)
(* The answers of Verify and GetSubEvents, for every map and every order   *)
(* of iteration.                                                           *)
(***************************************************************************)
EXTENDS DagWalks, SequenceTheorems, TLAPS

Frames == [of : DOMAIN store, next : Nat \ {0}]

ParentsOf(id) == store[id].parents
ChildrenOf(id) == store[id].children

StoreInv ==
    /\ store \in Stores
    /\ \A id \in DOMAIN store :
          ParentsOf(id) \in Seq(ID) /\ ChildrenOf(id) \in Seq(ID)
    /\ stack \in Seq(Frames)
    /\ call \in {"verify", "subEvents"}
    /\ pc = "scan" => call = "verify" /\ \A id \in scanned : RefsHold(id)
    /\ call = "verify" /\ pc \in {"walk", "ok", "cycle"} =>
          \A id \in DOMAIN store : RefsHold(id)
    /\ call = "verify" /\ pc = "dangling" => \E id \in DOMAIN store : ~RefsHold(id)

LEMMA InitStore == Init => StoreInv
<1> SUFFICES ASSUME Init PROVE StoreInv
    OBVIOUS
<1>1. store \in Stores /\ IsStore(store, ID)
    BY StoresAssumption DEF Init
<1>2. \A id \in DOMAIN store : ParentsOf(id) \in Seq(ID) /\ ChildrenOf(id) \in Seq(ID)
    BY <1>1 DEF IsStore, EventRecords, ParentsOf, ChildrenOf
<1>3. CASE stack = << >>
    BY <1>1, <1>2, <1>3 DEF StoreInv, Init
<1>4. CASE root \in DOMAIN store /\ stack = <<Frame(root)>>
    <2>1. Frame(root) \in Frames
        BY <1>4 DEF Frame, Frames
    <2> QED BY <1>1, <1>2, <1>4, <2>1 DEF StoreInv, Init
<1> QED BY <1>3, <1>4 DEF Init

LEMMA FrameFacts ==
    ASSUME StoreInv
    PROVE  \A i \in 1 .. Len(stack) :
              /\ stack[i].of \in DOMAIN store /\ stack[i].next \in Nat \ {0}
              /\ DOMAIN ParentsOf(stack[i].of) \subseteq Nat \ {0}
              /\ DOMAIN ChildrenOf(stack[i].of) \subseteq Nat \ {0}
<1>1. \A i \in 1 .. Len(stack) : stack[i] \in Frames
    BY DEF StoreInv
<1>2. \A i \in 1 .. Len(stack) : stack[i].of \in DOMAIN store /\ stack[i].next \in Nat \ {0}
    BY <1>1 DEF Frames
<1>3. \A id \in DOMAIN store :
          /\ DOMAIN ParentsOf(id) \subseteq Nat \ {0}
          /\ DOMAIN ChildrenOf(id) \subseteq Nat \ {0}
    BY DEF StoreInv
<1> QED BY <1>2, <1>3

\* The three ways the stack changes.
LEMMA AdvancedStack ==
    ASSUME StoreInv, stack # << >>
    PROVE  /\ Len(stack) \in Nat \ {0} /\ Top \in Frames
           /\ Advanced \in Seq(Frames) /\ Len(Advanced) = Len(stack)
           /\ \A i \in 1 .. Len(stack) :
                 /\ Advanced[i].of = stack[i].of
                 /\ Advanced[i].next = IF i = Len(stack) THEN stack[i].next + 1 ELSE stack[i].next
<1>1. Len(stack) \in Nat \ {0} /\ Top \in Frames /\ stack \in Seq(Frames)
    BY DEF StoreInv, Top
<1>2. [Top EXCEPT !.next = @ + 1] \in Frames
    BY <1>1 DEF Frames
<1>3. Advanced = [stack EXCEPT ![Len(stack)] = [Top EXCEPT !.next = @ + 1]]
    BY <1>1 DEF Advanced, Top
<1>4. Advanced \in Seq(Frames) /\ Len(Advanced) = Len(stack)
    BY <1>1, <1>2, <1>3
<1>5. \A i \in 1 .. Len(stack) :
          Advanced[i] = IF i = Len(stack) THEN [Top EXCEPT !.next = @ + 1] ELSE stack[i]
    BY <1>1, <1>3
<1>6. [Top EXCEPT !.next = @ + 1].of = Top.of /\ [Top EXCEPT !.next = @ + 1].next = Top.next + 1
    BY <1>1 DEF Frames
<1> QED BY <1>1, <1>4, <1>5, <1>6 DEF Top

LEMMA PushedStack ==
    ASSUME StoreInv, stack # << >>, NEW id \in DOMAIN store
    PROVE  LET pushed == Append(Advanced, Frame(id))
               n == Len(stack)
           IN  /\ pushed \in Seq(Frames) /\ Len(pushed) = n + 1
               /\ \A i \in 1 .. n :
                     /\ pushed[i].of = stack[i].of
                     /\ pushed[i].next = IF i = n THEN stack[i].next + 1 ELSE stack[i].next
               /\ pushed[n + 1].of = id /\ pushed[n + 1].next = 1
<1>1. Frame(id) \in Frames /\ Frame(id).of = id /\ Frame(id).next = 1
    BY DEF Frame, Frames
<1> QED BY <1>1, AdvancedStack

LEMMA PoppedStack ==
    ASSUME StoreInv, stack # << >>
    PROVE  /\ Front(stack) \in Seq(Frames) /\ Len(Front(stack)) = Len(stack) - 1
           /\ \A i \in 1 .. Len(stack) - 1 : Front(stack)[i] = stack[i]
<1>1. stack \in Seq(Frames) /\ Len(stack) \in Nat \ {0}
    BY DEF StoreInv
<1>2. PICK n \in Nat : n = Len(stack) - 1
    BY <1>1
<1>3. Front(stack) = SubSeq(stack, 1, n)
    BY <1>2 DEF Front
<1>4. \A i \in 1 .. n : stack[i] \in Frames
    BY <1>1, <1>2
<1>5. n - 1 + 1 = n /\ (IF 1 <= n THEN n - 1 + 1 ELSE 0) = n /\ \A i \in 1 .. n : 1 + i - 1 = i
    OBVIOUS
<1>6. /\ SubSeq(stack, 1, n) \in Seq(Frames)
      /\ Len(SubSeq(stack, 1, n)) = IF 1 <= n THEN n - 1 + 1 ELSE 0
      /\ \A i \in 1 .. n - 1 + 1 : SubSeq(stack, 1, n)[i] = stack[1 + i - 1]
    BY <1>4, SubSeqProperties
<1>7. \A i \in 1 .. n : SubSeq(stack, 1, n)[i] = stack[i]
    BY <1>5, <1>6
<1> QED BY <1>2, <1>3, <1>5, <1>6, <1>7

LEMMA NextStore == StoreInv /\ [Next]_vars => StoreInv'
<1> SUFFICES ASSUME StoreInv, [Next]_vars PROVE StoreInv'
    OBVIOUS
<1>1. store' = store
    BY DEF Next, Verify, Scan, Search, ScanEnd, Descend, PassBy, CycleFound, SearchReturn,
           SearchEnd, GetSubEvents, SeenBefore, ChildMissing, NotOwn, Collect, WalkReturn, vars
<1>2. stack' \in Seq(Frames)
    <2>1. CASE \E id \in DOMAIN store : Search(id)
        <3>1. PICK id \in DOMAIN store : stack' = <<Frame(id)>>
            BY <2>1 DEF Search
        <3>2. Frame(id) \in Frames
            BY DEF Frame, Frames
        <3> QED BY <3>1, <3>2
    <2>2. CASE stack # << >> /\ stack' = Advanced
        BY <2>2, AdvancedStack
    <2>3. CASE stack # << >> /\ \E id \in DOMAIN store : stack' = Append(Advanced, Frame(id))
        BY <2>3, PushedStack
    <2>4. CASE stack # << >> /\ stack' = Front(stack)
        BY <2>4, PoppedStack
    <2>5. CASE stack' = stack
        BY <2>5 DEF StoreInv
    <2>6. CASE Descend
        <3>1. Top \in Frames /\ Parent \in ToSet(ParentsOf(Top.of)) /\ RefsHold(Top.of)
            BY <2>6, AdvancedStack
            DEF Descend, AtParent, Searching, Parent, ParentsOf, ToSet, StoreInv, Frames
        <3>2. Parent \in DOMAIN store
            BY <3>1 DEF RefsHold, Refs, ParentsOf
        <3> QED BY <2>3, <2>6, <3>2 DEF Descend, AtParent
    <2> QED
        BY <2>1, <2>2, <2>3, <2>4, <2>5, <2>6
        DEF Next, Verify, Scan, ScanEnd, PassBy, CycleFound, SearchReturn,
            SearchEnd, GetSubEvents, SeenBefore, ChildMissing, NotOwn, Collect, WalkReturn,
            AtParent, AtChild, vars
<1>3. \A id : RefsHold(id)' <=> RefsHold(id)
    BY <1>1 DEF RefsHold, Refs
<1>4. /\ call' = call
      /\ pc' = "scan" => pc = "scan" /\ \A id \in scanned' : RefsHold(id)
      /\ call = "verify" /\ pc' \in {"walk", "ok", "cycle"} =>
            \A id \in DOMAIN store : RefsHold(id)
      /\ call = "verify" /\ pc' = "dangling" => \E id \in DOMAIN store : ~RefsHold(id)
    BY DEF StoreInv, Next, Verify, Scan, Search, ScanEnd, Descend, PassBy, CycleFound,
           SearchReturn, SearchEnd, GetSubEvents, SeenBefore, ChildMissing, NotOwn, Collect,
           WalkReturn, AtParent, AtChild, Searching, Walking, vars
<1> QED BY <1>1, <1>2, <1>3, <1>4 DEF StoreInv, ParentsOf, ChildrenOf, Frames

-----------------------------------------------------------------------------
(* Verify's search                                                         *)

\* The events whose call of checkCycle has returned.
Done == {v \in visited : ~InStack(v)}

DoneClosed == \A v \in Done : ToSet(ParentsOf(v)) \subseteq Done

DoneAcyclic ==
    \A S \in SUBSET Done : S # {} => \E id \in S : ToSet(ParentsOf(id)) \cap S = {}

\* Each call is for the parent that the call below it looks at; the parents
\* looked at before have returned.
StackLinked ==
    \A i \in 1 .. Len(stack) - 1 :
        /\ stack[i].next - 1 \in DOMAIN ParentsOf(stack[i].of)
        /\ ParentsOf(stack[i].of)[stack[i].next - 1] = stack[i + 1].of

StackExplored ==
    \A i \in 1 .. Len(stack) : \A k \in DOMAIN ParentsOf(stack[i].of) :
        k < stack[i].next =>
            \/ ParentsOf(stack[i].of)[k] \in Done
            \/ i < Len(stack) /\ ParentsOf(stack[i].of)[k] = stack[i + 1].of

StackDistinct ==
    \A i, j \in 1 .. Len(stack) : stack[i].of = stack[j].of => i = j

SearchInv ==
    call = "verify" =>
        /\ pc = "scan" => stack = << >> /\ visited = {}
        /\ visited \subseteq DOMAIN store
        /\ \A i \in 1 .. Len(stack) : stack[i].of \in visited
        /\ StackDistinct /\ StackLinked /\ StackExplored
        /\ DoneClosed /\ DoneAcyclic
        /\ pc = "ok" => stack = << >> /\ visited = DOMAIN store
        /\ pc = "cycle" => ~ParentsAcyclic(store)

LEMMA InitSearch == Init => SearchInv
BY DEF Init, SearchInv, StackDistinct, StackLinked, StackExplored, DoneClosed, DoneAcyclic, Done

\* The stack and the marks stay.
LEMMA SearchSame ==
    ASSUME StoreInv, SearchInv, UNCHANGED <<store, call, visited, stack>>,
           call = "verify" =>
               /\ pc' = "scan" => pc = "scan"
               /\ pc' = "ok" => stack = << >> /\ visited = DOMAIN store
               /\ pc' = "cycle" => ~ParentsAcyclic(store)
    PROVE  SearchInv'
BY DEF SearchInv, StackDistinct, StackLinked, StackExplored, DoneClosed, DoneAcyclic, Done,
       InStack, ParentsOf, ParentsAcyclic

\* A call begins, or goes past a parent that has returned: nobody returns.
LEMMA SearchGoesOn ==
    ASSUME StoreInv, SearchInv, Searching,
           (\E id \in DOMAIN store : Search(id)) \/ Descend \/ PassBy
    PROVE  SearchInv'
<1>0. call' = "verify" /\ pc' = "walk" /\ store' = store /\ call = "verify" /\ pc = "walk"
    BY DEF Searching, Search, Descend, PassBy
<1>1. CASE \E id \in DOMAIN store : Search(id)
    <2>1. PICK id \in DOMAIN store :
              /\ stack = << >> /\ id \notin visited
              /\ visited' = visited \cup {id} /\ stack' = <<Frame(id)>>
        BY <1>1 DEF Search
    <2>2. Len(stack') = 1 /\ stack'[1].of = id /\ stack'[1].next = 1 /\ DOMAIN stack' = {1}
        BY <2>1 DEF Frame
    <2>3. Done' = Done
        BY <2>1, <2>2 DEF Done, InStack
    <2>4. DoneClosed' /\ DoneAcyclic'
        BY <1>0, <2>3 DEF SearchInv, DoneClosed, DoneAcyclic, ParentsOf
    <2>5. StackDistinct' /\ StackLinked' /\ StackExplored'
        BY <1>0, <2>2 DEF StackDistinct, StackLinked, StackExplored, ParentsOf, StoreInv
    <2> QED BY <1>0, <2>1, <2>2, <2>4, <2>5 DEF SearchInv
<1>2. CASE Descend
    <2>0. PICK n \in Nat \ {0} : n = Len(stack) /\ DOMAIN stack = 1 .. n /\ Top = stack[n]
        BY <1>2, AdvancedStack DEF Descend, AtParent, StoreInv, Top
    <2>1. /\ stack # << >> /\ Top.next \in DOMAIN ParentsOf(Top.of)
          /\ Parent = ParentsOf(Top.of)[Top.next] /\ Parent \notin visited
          /\ visited' = visited \cup {Parent} /\ stack' = Append(Advanced, Frame(Parent))
        BY <1>2 DEF Descend, AtParent, Parent, ParentsOf
    <2>2. PICK p \in DOMAIN store : p = Parent
        <3>1. Top.of \in DOMAIN store /\ RefsHold(Top.of) /\ Parent \in ToSet(ParentsOf(Top.of))
            BY <1>0, <2>1, AdvancedStack DEF StoreInv, Frames, ToSet
        <3> QED BY <3>1 DEF RefsHold, Refs, ParentsOf
    <2>3. /\ Len(stack') = n + 1 /\ DOMAIN stack' = 1 .. n + 1
          /\ \A i \in 1 .. n :
                /\ stack'[i].of = stack[i].of
                /\ stack'[i].next = IF i = n THEN stack[i].next + 1 ELSE stack[i].next
          /\ stack'[n + 1].of = p /\ stack'[n + 1].next = 1
        BY <2>0, <2>1, <2>2, PushedStack
    <2>4. Done' = Done
        BY <2>0, <2>1, <2>2, <2>3 DEF Done, InStack
    <2>5. DoneClosed' /\ DoneAcyclic'
        BY <1>0, <2>4 DEF SearchInv, DoneClosed, DoneAcyclic, ParentsOf
    <2>6. \A i \in 1 .. n : stack[i].of \in visited /\ stack[i].next \in Nat \ {0}
        BY <1>0, <2>0, FrameFacts DEF SearchInv
    <2>7. StackDistinct'
        BY <1>0, <2>0, <2>1, <2>2, <2>3, <2>6 DEF SearchInv, StackDistinct
    <2>8. StackLinked'
        <3>1. ParentsOf(stack[n].of)[stack[n].next] = p /\ stack[n].next \in DOMAIN ParentsOf(stack[n].of)
            BY <2>0, <2>1, <2>2
        <3>2. SUFFICES ASSUME NEW i \in 1 .. n
                       PROVE  /\ stack'[i].next - 1 \in DOMAIN ParentsOf(stack'[i].of)
                              /\ ParentsOf(stack'[i].of)[stack'[i].next - 1] = stack'[i + 1].of
            BY <1>0, <2>3 DEF StackLinked, ParentsOf
        <3>3. CASE i = n
            BY <2>3, <2>6, <3>1, <3>3
        <3>4. CASE i # n
            BY <1>0, <2>0, <2>3, <3>4 DEF SearchInv, StackLinked
        <3> QED BY <3>3, <3>4
    <2>9. StackExplored'
        <3>1. SUFFICES ASSUME NEW i \in 1 .. n + 1, NEW k \in DOMAIN ParentsOf(stack'[i].of),
                              k < stack'[i].next
                       PROVE  \/ ParentsOf(stack'[i].of)[k] \in Done
                              \/ i < n + 1 /\ ParentsOf(stack'[i].of)[k] = stack'[i + 1].of
            BY <1>0, <2>3, <2>4 DEF StackExplored, ParentsOf
        <3>2. i \in 1 .. n => k \in Nat \ {0} /\ k \in DOMAIN ParentsOf(stack[i].of)
            BY <2>0, <2>3, FrameFacts
        <3>0. i = n + 1 => k \in Nat \ {0}
            BY <2>2, <2>3 DEF StoreInv
        <3>3. CASE i = n + 1
            BY <2>3, <3>0, <3>1, <3>3
        <3>4. CASE i = n /\ k = stack[n].next
            BY <2>0, <2>1, <2>2, <2>3, <3>4
        <3>5. CASE i \in 1 .. n /\ ~(i = n /\ k = stack[n].next)
            <4>1. k < stack[i].next
                BY <2>3, <2>6, <3>1, <3>2, <3>5
            <4>2. \/ ParentsOf(stack[i].of)[k] \in Done
                  \/ i < n /\ ParentsOf(stack[i].of)[k] = stack[i + 1].of
                BY <1>0, <2>0, <3>2, <3>5, <4>1 DEF SearchInv, StackExplored
            <4>3. stack'[i].of = stack[i].of /\ (i < n => stack'[i + 1].of = stack[i + 1].of)
                BY <2>3, <3>5
            <4> QED BY <3>5, <4>2, <4>3
        <3> QED BY <3>3, <3>4, <3>5
    <2>10. visited' \subseteq DOMAIN store /\ \A i \in 1 .. n + 1 : stack'[i].of \in visited'
        <3>1. p \in visited' /\ visited \subseteq visited'
            BY <2>1, <2>2
        <3>2. visited' \subseteq DOMAIN store
            BY <1>0, <2>1, <2>2 DEF SearchInv
        <3>3. ASSUME NEW i \in 1 .. n PROVE stack'[i].of \in visited'
            BY <2>3, <2>6, <3>1, <3>3
        <3> QED BY <2>3, <3>1, <3>2, <3>3
    <2> QED BY <1>0, <2>3, <2>5, <2>7, <2>8, <2>9, <2>10 DEF SearchInv
<1>3. CASE PassBy
    <2>0. PICK n \in Nat \ {0} : n = Len(stack) /\ DOMAIN stack = 1 .. n /\ Top = stack[n]
        BY <1>3, AdvancedStack DEF PassBy, AtParent, StoreInv, Top
    <2>1. /\ stack # << >> /\ Top.next \in DOMAIN ParentsOf(Top.of)
          /\ Parent = ParentsOf(Top.of)[Top.next] /\ Parent \in Done
          /\ visited' = visited /\ stack' = Advanced
        BY <1>3 DEF PassBy, AtParent, Parent, ParentsOf, Done
    <2>2. /\ Len(stack') = n /\ DOMAIN stack' = 1 .. n
          /\ \A i \in 1 .. n :
                /\ stack'[i].of = stack[i].of
                /\ stack'[i].next = IF i = n THEN stack[i].next + 1 ELSE stack[i].next
        BY <2>0, <2>1, AdvancedStack
    <2>3. Done' = Done
        BY <2>0, <2>1, <2>2 DEF Done, InStack
    <2>4. DoneClosed' /\ DoneAcyclic'
        BY <1>0, <2>3 DEF SearchInv, DoneClosed, DoneAcyclic, ParentsOf
    <2>5. StackDistinct'
        BY <1>0, <2>0, <2>2 DEF SearchInv, StackDistinct
    <2>6. StackLinked'
        <3>1. SUFFICES ASSUME NEW i \in 1 .. n - 1
                       PROVE  /\ stack'[i].next - 1 \in DOMAIN ParentsOf(stack'[i].of)
                              /\ ParentsOf(stack'[i].of)[stack'[i].next - 1] = stack'[i + 1].of
            BY <1>0, <2>2 DEF StackLinked, ParentsOf
        <3>2. i # n /\ i \in 1 .. n /\ i + 1 \in 1 .. n
            OBVIOUS
        <3>3. stack'[i].of = stack[i].of /\ stack'[i].next = stack[i].next
              /\ stack'[i + 1].of = stack[i + 1].of
            BY <2>2, <3>2
        <3> QED BY <1>0, <2>0, <3>3 DEF SearchInv, StackLinked
    <2>7. StackExplored'
        <3>1. SUFFICES ASSUME NEW i \in 1 .. n, NEW k \in DOMAIN ParentsOf(stack'[i].of),
                              k < stack'[i].next
                       PROVE  \/ ParentsOf(stack'[i].of)[k] \in Done
                              \/ i < n /\ ParentsOf(stack'[i].of)[k] = stack'[i + 1].of
            BY <1>0, <2>2, <2>3 DEF StackExplored, ParentsOf
        <3>2. k \in Nat /\ stack[i].next \in Nat /\ k \in DOMAIN ParentsOf(stack[i].of)
            BY <2>0, <2>2, <3>1, FrameFacts
        <3>3. CASE i = n /\ k = stack[n].next
            BY <2>0, <2>1, <2>2, <3>3
        <3>4. CASE ~(i = n /\ k = stack[n].next)
            <4>1. k < stack[i].next
                BY <2>2, <3>1, <3>2, <3>4
            <4>2. \/ ParentsOf(stack[i].of)[k] \in Done
                  \/ i < n /\ ParentsOf(stack[i].of)[k] = stack[i + 1].of
                BY <1>0, <2>0, <3>2, <4>1 DEF SearchInv, StackExplored
            <4>3. stack'[i].of = stack[i].of /\ (i < n => stack'[i + 1].of = stack[i + 1].of)
                BY <2>2
            <4> QED BY <4>2, <4>3
        <3> QED BY <3>3, <3>4
    <2> QED BY <1>0, <2>0, <2>1, <2>2, <2>4, <2>5, <2>6, <2>7 DEF SearchInv
<1> QED BY <1>1, <1>2, <1>3

\* A call returns: its event joins those that have, after all its parents.
LEMMA SearchGoesBack ==
    ASSUME StoreInv, SearchInv, SearchReturn
    PROVE  SearchInv'
<1>0. call' = "verify" /\ pc' = "walk" /\ store' = store /\ call = "verify" /\ visited' = visited
    BY DEF Searching, SearchReturn
<1>1. PICK n \in Nat \ {0} : n = Len(stack) /\ DOMAIN stack = 1 .. n /\ Top = stack[n]
    BY AdvancedStack DEF SearchReturn, StoreInv, Top
<1>2. PICK t \in DOMAIN store :
          t = stack[n].of /\ t \in visited /\ stack[n].next \notin DOMAIN ParentsOf(t)
    BY <1>0, <1>1, FrameFacts DEF SearchReturn, SearchInv, ParentsOf
<1>3. Len(stack') = n - 1 /\ DOMAIN stack' = 1 .. n - 1
      /\ \A i \in 1 .. n - 1 : stack'[i] = stack[i]
    BY <1>1, PoppedStack DEF SearchReturn
<1>4. Done' = Done \cup {t} /\ t \notin Done
    BY <1>0, <1>1, <1>2, <1>3 DEF Done, InStack, SearchInv, StackDistinct
<1>5. ToSet(ParentsOf(t)) \subseteq Done
    <2>1. ParentsOf(t) \in Seq(ID) /\ stack[n].next \in Nat \ {0}
        BY <1>1, <1>2, FrameFacts DEF StoreInv
    <2>2. \A k \in DOMAIN ParentsOf(t) : k < stack[n].next
        BY <1>2, <2>1
    <2>3. \A k \in DOMAIN ParentsOf(t) : ParentsOf(t)[k] \in Done
        BY <1>0, <1>1, <1>2, <2>2 DEF SearchInv, StackExplored
    <2> QED BY <2>3 DEF ToSet
<1>6. DoneClosed'
    BY <1>0, <1>4, <1>5 DEF SearchInv, DoneClosed, ParentsOf
<1>7. DoneAcyclic'
    <2>1. SUFFICES ASSUME NEW S \in SUBSET (Done \cup {t}), S # {}
                   PROVE  \E id \in S : ToSet(ParentsOf(id)) \cap S = {}
        BY <1>0, <1>4 DEF DoneAcyclic, ParentsOf
    <2>2. CASE S \cap Done = {}
        <3>1. S = {t}
            BY <2>1, <2>2
        <3> QED BY <1>4, <1>5, <3>1
    <2>3. CASE S \cap Done # {}
        <3>1. PICK id \in S \cap Done : ToSet(ParentsOf(id)) \cap (S \cap Done) = {}
            BY <1>0, <2>3 DEF SearchInv, DoneAcyclic
        <3>2. ToSet(ParentsOf(id)) \subseteq Done
            BY <1>0, <3>1 DEF SearchInv, DoneClosed
        <3> QED BY <3>1, <3>2
    <2> QED BY <2>2, <2>3
<1>8. StackDistinct' /\ \A i \in 1 .. n - 1 : stack'[i].of \in visited
    BY <1>0, <1>1, <1>3 DEF SearchInv, StackDistinct
<1>9. StackLinked'
    <2>1. \A i \in 1 .. n - 1 - 1 : i \in 1 .. n - 1 /\ i + 1 \in 1 .. n - 1
        OBVIOUS
    <2>2. \A i \in 1 .. n - 1 - 1 :
              /\ stack[i].next - 1 \in DOMAIN ParentsOf(stack[i].of)
              /\ ParentsOf(stack[i].of)[stack[i].next - 1] = stack[i + 1].of
        BY <1>0, <1>1, <2>1 DEF SearchInv, StackLinked
    <2> QED BY <1>0, <1>3, <2>1, <2>2 DEF StackLinked, ParentsOf
<1>10. StackExplored'
    <2>1. SUFFICES ASSUME NEW i \in 1 .. n - 1, NEW k \in DOMAIN ParentsOf(stack[i].of),
                          k < stack[i].next
                   PROVE  \/ ParentsOf(stack[i].of)[k] \in Done \cup {t}
                          \/ i < n - 1 /\ ParentsOf(stack[i].of)[k] = stack'[i + 1].of
        BY <1>0, <1>3, <1>4 DEF StackExplored, ParentsOf
    <2>2. \/ ParentsOf(stack[i].of)[k] \in Done
          \/ ParentsOf(stack[i].of)[k] = stack[i + 1].of
        BY <1>0, <1>1, <2>1 DEF SearchInv, StackExplored
    <2>3. i = n - 1 => stack[i + 1].of = t
        BY <1>2
    <2>4. i < n - 1 => stack'[i + 1] = stack[i + 1]
        BY <1>3
    <2>5. i = n - 1 \/ i < n - 1
        OBVIOUS
    <2> QED BY <2>2, <2>3, <2>4, <2>5
<1> QED BY <1>0, <1>3, <1>6, <1>7, <1>8, <1>9, <1>10 DEF SearchInv

\* A parent on the stack closes a cycle: the calls from it to the top.
LEMMA CycleIsReal ==
    ASSUME StoreInv, SearchInv, CycleFound
    PROVE  ~ParentsAcyclic(store)
<1>1. PICK n \in Nat \ {0} : n = Len(stack) /\ DOMAIN stack = 1 .. n /\ Top = stack[n]
    BY AdvancedStack DEF CycleFound, AtParent, StoreInv, Top
<1>2. PICK j \in 1 .. n : stack[j].of = Parent
    BY <1>1 DEF CycleFound, InStack
<1>3. \A i \in 1 .. n : stack[i].of \in DOMAIN store
    BY <1>1, FrameFacts
<1>4. \A i \in j .. n : \E k \in j .. n : stack[k].of \in ToSet(ParentsOf(stack[i].of))
    <2>1. SUFFICES ASSUME NEW i \in j .. n
                   PROVE  \E k \in j .. n : stack[k].of \in ToSet(ParentsOf(stack[i].of))
        OBVIOUS
    <2>2. CASE i = n
        <3>1. stack[j].of \in ToSet(ParentsOf(stack[n].of))
            BY <1>1, <1>2 DEF CycleFound, AtParent, Parent, ParentsOf, ToSet
        <3> QED BY <2>2, <3>1
    <2>3. CASE i # n
        <3>1. i \in 1 .. n - 1 /\ i + 1 \in j .. n
            BY <2>3
        <3>2. stack[i + 1].of \in ToSet(ParentsOf(stack[i].of))
            BY <1>1, <3>1 DEF CycleFound, AtParent, Searching, SearchInv, StackLinked, ToSet
        <3> QED BY <3>1, <3>2
    <2> QED BY <2>2, <2>3
<1>5. PICK S : S = {stack[i].of : i \in j .. n}
    OBVIOUS
<1>6. S \in SUBSET DOMAIN store /\ stack[n].of \in S
    BY <1>1, <1>3, <1>5
<1>7. \A id \in S : ToSet(store[id].parents) \cap S # {}
    <2>1. SUFFICES ASSUME NEW i \in j .. n
                   PROVE  ToSet(ParentsOf(stack[i].of)) \cap S # {}
        BY <1>5 DEF ParentsOf
    <2>2. PICK k \in j .. n : stack[k].of \in ToSet(ParentsOf(stack[i].of))
        BY <1>4
    <2> QED BY <1>5, <2>2
<1> QED BY <1>6, <1>7 DEF ParentsAcyclic

LEMMA NextSearch == StoreInv /\ SearchInv /\ [Next]_vars => SearchInv'
<1> SUFFICES ASSUME StoreInv, SearchInv, [Next]_vars PROVE SearchInv'
    OBVIOUS
<1>1. CASE (\E id \in DOMAIN store : Search(id)) \/ Descend \/ PassBy
    BY <1>1, SearchGoesOn DEF Search, Descend, PassBy, AtParent
<1>2. CASE SearchReturn
    BY <1>2, SearchGoesBack
<1>3. CASE CycleFound
    BY <1>3, CycleIsReal, SearchSame DEF CycleFound
<1>4. CASE (\E id \in DOMAIN store : Scan(id)) \/ ScanEnd \/ SearchEnd \/ UNCHANGED vars
    BY <1>4, SearchSame DEF Scan, ScanEnd, SearchEnd, vars, SearchInv
<1>5. CASE GetSubEvents
    BY <1>5
    DEF GetSubEvents, SeenBefore, ChildMissing, NotOwn, Collect, WalkReturn, AtChild, Walking,
        SearchInv
<1> QED BY <1>1, <1>2, <1>3, <1>4, <1>5 DEF Next, Verify

-----------------------------------------------------------------------------
(* GetSubEvents                                                            *)

\* What root has spawned and what was visited is in the result, once; the
\* children of root before the outermost index have been visited.
WalkInv ==
    call = "subEvents" =>
        /\ root \in DOMAIN store
        /\ result \in Seq(DOMAIN store) /\ IsInjective(result)
        /\ ToSet(result) = visited \cap SubEventsOf(root)
        /\ \A i \in 2 .. Len(stack) : stack[i].of \in visited
        /\ \A i, j \in 2 .. Len(stack) : i < j => stack[i].of # stack[j].of
        /\ pc = "walk" =>
              /\ stack # << >> /\ stack[1].of = root
              /\ \A k \in DOMAIN ChildrenOf(root) :
                    k < stack[1].next => ChildrenOf(root)[k] \in visited
        /\ pc = "ok" => ToSet(ChildrenOf(root)) \subseteq visited
        /\ pc = "dangling" => ~ChildrenPresent(store)

LEMMA InitWalk == Init => WalkInv
<1> SUFFICES ASSUME Init, call = "subEvents" PROVE WalkInv
    BY DEF WalkInv
<1>1. /\ root \in DOMAIN store /\ store \in Stores /\ pc = "walk"
      /\ stack = <<Frame(root)>> /\ visited = {} /\ result = << >>
    BY DEF Init
<1>2. Len(stack) = 1 /\ stack[1].of = root /\ stack[1].next = 1
    BY <1>1 DEF Frame
<1>3. ChildrenOf(root) \in Seq(ID)
    BY <1>1, InitStore DEF StoreInv
<1>4. \A k \in DOMAIN ChildrenOf(root) : ~(k < 1)
    BY <1>3
<1>5. result \in Seq(DOMAIN store) /\ IsInjective(result) /\ ToSet(result) = {}
    BY <1>1 DEF IsInjective, ToSet
<1> QED BY <1>1, <1>2, <1>4, <1>5 DEF WalkInv

\* What every step knows of the frame on top.
LEMMA TopChild ==
    ASSUME StoreInv, WalkInv, AtChild
    PROVE  \E n \in Nat \ {0} :
              /\ n = Len(stack) /\ DOMAIN stack = 1 .. n /\ Top = stack[n]
              /\ stack[n].of \in DOMAIN store /\ stack[n].next \in Nat \ {0}
              /\ stack[n].next \in DOMAIN ChildrenOf(stack[n].of)
              /\ Child = ChildrenOf(stack[n].of)[stack[n].next]
              /\ Child \in ToSet(ChildrenOf(stack[n].of))
<1>1. PICK n \in Nat \ {0} : n = Len(stack) /\ DOMAIN stack = 1 .. n /\ Top = stack[n]
    BY AdvancedStack DEF AtChild, StoreInv, Top
<1>2. n \in 1 .. Len(stack)
    BY <1>1
<1>3. stack[n].of \in DOMAIN store /\ stack[n].next \in Nat \ {0}
    BY <1>2, FrameFacts
<1>4. /\ stack[n].next \in DOMAIN ChildrenOf(stack[n].of)
      /\ Child = ChildrenOf(stack[n].of)[stack[n].next]
    BY <1>1 DEF AtChild, Child, ChildrenOf
<1> QED BY <1>1, <1>3, <1>4 DEF ToSet

\* After one more child has been visited, root's loop included.
LEMMA WalkedOn ==
    ASSUME StoreInv, WalkInv, AtChild, visited \cup {Child} = visited',
           store' = store, root' = root,
           \A i \in 1 .. Len(stack) :
              /\ stack'[i].of = stack[i].of
              /\ stack'[i].next = IF i = Len(stack) THEN stack[i].next + 1 ELSE stack[i].next
    PROVE  /\ stack'[1].of = root
           /\ \A k \in DOMAIN ChildrenOf(root) :
                 k < stack'[1].next => ChildrenOf(root)[k] \in visited'
<1>1. PICK n \in Nat \ {0} :
              /\ n = Len(stack)
              /\ stack[n].next \in Nat \ {0}
              /\ Child = ChildrenOf(stack[n].of)[stack[n].next]
    BY TopChild
<1>2. call = "subEvents" /\ pc = "walk"
    BY DEF AtChild, Walking
<1>3. stack'[1].of = root /\ stack[1].of = root
    BY <1>1, <1>2 DEF WalkInv
<1>4. SUFFICES ASSUME NEW k \in DOMAIN ChildrenOf(root), k < stack'[1].next
               PROVE  ChildrenOf(root)[k] \in visited'
    BY <1>3
<1>5. k \in Nat /\ stack[1].next \in Nat
    BY <1>1, <1>2, FrameFacts DEF WalkInv
<1>6. CASE k < stack[1].next
    BY <1>2, <1>6 DEF WalkInv
<1>7. CASE ~(k < stack[1].next)
    <2>1. n = 1 /\ k = stack[1].next
        BY <1>1, <1>4, <1>5, <1>7
    <2> QED BY <1>1, <1>3, <2>1
<1> QED BY <1>6, <1>7

LEMMA NextWalk == StoreInv /\ WalkInv /\ [Next]_vars => WalkInv'
<1> SUFFICES ASSUME StoreInv, WalkInv, [Next]_vars, call' = "subEvents" PROVE WalkInv'
    BY DEF WalkInv
<1>0. /\ call = "subEvents" /\ store' = store /\ root' = root
      /\ SubEventsOf(root)' = SubEventsOf(root)
      /\ ChildrenOf(root)' = ChildrenOf(root)
      /\ ChildrenPresent(store)' = ChildrenPresent(store)
    <2>1. call' = call /\ store' = store /\ root' = root
        BY DEF Next, Verify, Scan, Search, ScanEnd, Descend, PassBy, CycleFound, SearchReturn,
               SearchEnd, GetSubEvents, SeenBefore, ChildMissing, NotOwn, Collect, WalkReturn, vars
    <2> QED BY <2>1 DEF SubEventsOf, ChildrenOf, ChildrenPresent
<1>1. CASE SeenBefore
    <2>1. stack # << >> /\ stack' = Advanced /\ UNCHANGED <<pc, visited, result>> /\ AtChild
          /\ visited \cup {Child} = visited'
        BY <1>1 DEF SeenBefore, AtChild
    <2>2. Len(stack') = Len(stack) /\ \A i \in 1 .. Len(stack) :
              /\ stack'[i].of = stack[i].of
              /\ stack'[i].next = IF i = Len(stack) THEN stack[i].next + 1 ELSE stack[i].next
        BY <2>1, AdvancedStack
    <2>3. stack' # << >> /\ Len(stack) \in Nat
        BY <2>1, <2>2, AdvancedStack
    <2>4. pc' = "walk" /\ pc = "walk"
        BY <2>1 DEF AtChild, Walking
    <2> QED BY <1>0, <2>1, <2>2, <2>3, <2>4, WalkedOn DEF WalkInv
<1>2. CASE ChildMissing
    <2>1. Child \notin visited \cup DOMAIN store /\ visited' = visited \cup {Child}
          /\ pc' = "dangling" /\ UNCHANGED <<stack, result>>
        BY <1>2 DEF ChildMissing
    <2>2. ~ChildrenPresent(store)
        BY <1>2, <2>1, TopChild DEF ChildrenPresent, ChildMissing, ChildrenOf
    <2>3. visited' \cap SubEventsOf(root) = visited \cap SubEventsOf(root)
        BY <2>1 DEF SubEventsOf
    <2> QED BY <1>0, <2>1, <2>2, <2>3 DEF WalkInv
<1>3. CASE NotOwn
    <2>1. stack # << >> /\ stack' = Advanced /\ UNCHANGED <<pc, result>> /\ AtChild
          /\ visited \cup {Child} = visited' /\ ~IsOwn(Child)
        BY <1>3 DEF NotOwn, AtChild
    <2>2. Len(stack') = Len(stack) /\ \A i \in 1 .. Len(stack) :
              /\ stack'[i].of = stack[i].of
              /\ stack'[i].next = IF i = Len(stack) THEN stack[i].next + 1 ELSE stack[i].next
        BY <2>1, AdvancedStack
    <2>3. stack' # << >> /\ Len(stack) \in Nat
        BY <2>1, <2>2, AdvancedStack
    <2>4. pc' = "walk" /\ pc = "walk"
        BY <2>1 DEF AtChild, Walking
    <2>5. visited' \cap SubEventsOf(root) = visited \cap SubEventsOf(root)
        BY <2>1 DEF SubEventsOf, IsOwn
    <2> QED BY <1>0, <2>1, <2>2, <2>3, <2>4, <2>5, WalkedOn DEF WalkInv
<1>4. CASE Collect
    <2>0. PICK n \in Nat \ {0} : n = Len(stack)
        BY <1>4, TopChild DEF Collect
    <2>1. PICK c \in DOMAIN store \ visited :
              /\ c = Child /\ c \in SubEventsOf(root)
              /\ stack # << >> /\ stack' = Append(Advanced, Frame(c)) /\ UNCHANGED pc /\ AtChild
              /\ visited' = visited \cup {c} /\ result' = Append(result, c)
        BY <1>4 DEF Collect, AtChild, IsOwn, SubEventsOf
    <2>2. /\ Len(stack') = n + 1
          /\ \A i \in 1 .. n :
                /\ stack'[i].of = stack[i].of
                /\ stack'[i].next = IF i = n THEN stack[i].next + 1 ELSE stack[i].next
          /\ stack'[n + 1].of = c
          /\ stack' \in Seq(Frames)
        BY <2>0, <2>1, PushedStack
    <2>3. stack' # << >>
        BY <2>2
    <2>4. pc' = "walk" /\ pc = "walk"
        BY <2>1 DEF AtChild, Walking
    <2>5. ToSet(result) = visited \cap SubEventsOf(root) /\ result \in Seq(DOMAIN store)
          /\ IsInjective(result)
        BY <1>0 DEF WalkInv
    <2>6. /\ result' \in Seq(DOMAIN store) /\ IsInjective(result')
          /\ ToSet(result') = visited' \cap SubEventsOf(root)
        <3>1. /\ result' \in Seq(DOMAIN store) /\ Len(result') = Len(result) + 1
              /\ DOMAIN result' = 1 .. Len(result) + 1 /\ DOMAIN result = 1 .. Len(result)
              /\ \A i \in 1 .. Len(result) : result'[i] = result[i]
              /\ result'[Len(result) + 1] = c /\ Len(result) \in Nat
            BY <2>1, <2>5
        <3>2. \A i \in 1 .. Len(result) : result[i] # c
            BY <2>1, <2>5, <3>1 DEF ToSet
        <3>3. IsInjective(result')
            BY <2>5, <3>1, <3>2 DEF IsInjective
        <3>4. ToSet(result') = ToSet(result) \cup {c}
            BY <3>1 DEF ToSet
        <3> QED BY <2>1, <2>5, <3>1, <3>3, <3>4
    <2>7. \A i \in 2 .. n + 1 : stack'[i].of \in visited'
        <3>1. \A i \in 2 .. n : stack[i].of \in visited /\ stack'[i].of = stack[i].of
            BY <1>0, <2>0, <2>2 DEF WalkInv
        <3> QED BY <2>1, <2>2, <3>1
    <2>8. \A i, j \in 2 .. n + 1 : i < j => stack'[i].of # stack'[j].of
        <3>1. \A i \in 2 .. n : stack[i].of # c /\ stack'[i].of = stack[i].of
            BY <1>0, <2>0, <2>1, <2>2 DEF WalkInv
        <3>2. \A i, j \in 2 .. n : i < j => stack[i].of # stack[j].of
            BY <1>0, <2>0 DEF WalkInv
        <3> QED BY <2>2, <3>1, <3>2
    <2>9. /\ stack'[1].of = root
          /\ \A k \in DOMAIN ChildrenOf(root) :
                k < stack'[1].next => ChildrenOf(root)[k] \in visited'
        BY <1>0, <2>0, <2>1, <2>2, WalkedOn
    <2> QED BY <1>0, <2>2, <2>3, <2>4, <2>6, <2>7, <2>8, <2>9 DEF WalkInv
<1>5. CASE WalkReturn
    <2>0. PICK n \in Nat \ {0} : n = Len(stack) /\ DOMAIN stack = 1 .. n /\ Top = stack[n]
        BY <1>5, AdvancedStack DEF WalkReturn, StoreInv, Top
    <2>1. /\ Walking /\ Top.next \notin DOMAIN ChildrenOf(Top.of) /\ UNCHANGED <<visited, result>>
          /\ pc' = IF n = 1 THEN "ok" ELSE pc
        BY <1>5, <2>0 DEF WalkReturn, ChildrenOf
    <2>2. Len(stack') = n - 1 /\ \A i \in 1 .. n - 1 : stack'[i] = stack[i]
        BY <1>5, <2>0, PoppedStack DEF WalkReturn
    <2>3. /\ \A i \in 2 .. n - 1 : stack'[i].of \in visited
          /\ \A i, j \in 2 .. n - 1 : i < j => stack'[i].of # stack'[j].of
        <3>1. /\ \A i \in 2 .. n : stack[i].of \in visited
              /\ \A i, j \in 2 .. n : i < j => stack[i].of # stack[j].of
            BY <1>0, <2>0 DEF WalkInv
        <3>2. \A i \in 2 .. n - 1 : i \in 2 .. n /\ stack'[i].of = stack[i].of
            BY <2>2
        <3> QED BY <3>1, <3>2
    <2>4. CASE n = 1
        <3>1. stack[1].of = root /\ stack[1].next \notin DOMAIN ChildrenOf(root)
              /\ stack[1].next \in Nat \ {0} /\ ChildrenOf(root) \in Seq(ID)
              /\ \A k \in DOMAIN ChildrenOf(root) :
                    k < stack[1].next => ChildrenOf(root)[k] \in visited
            BY <1>0, <2>0, <2>1, <2>4, FrameFacts DEF WalkInv, Walking, StoreInv
        <3>2. \A k \in DOMAIN ChildrenOf(root) : k < stack[1].next
            BY <3>1
        <3>3. ToSet(ChildrenOf(root)) \subseteq visited
            BY <3>1, <3>2 DEF ToSet
        <3>4. pc' = "ok"
            BY <2>1, <2>4
        <3> QED BY <1>0, <2>1, <2>2, <2>3, <3>3, <3>4 DEF WalkInv
    <2>5. CASE n # 1
        <3>1. stack'[1] = stack[1] /\ stack' # << >>
            BY <2>0, <2>2, <2>5
        <3>2. pc' = "walk" /\ pc = "walk"
            BY <2>1, <2>5 DEF Walking
        <3> QED BY <1>0, <2>1, <2>2, <2>3, <3>1, <3>2 DEF WalkInv
    <2> QED BY <2>4, <2>5
<1>6. CASE UNCHANGED vars
    BY <1>0, <1>6 DEF WalkInv, vars
<1>7. ~Verify
    BY <1>0 DEF Verify, Scan, Search, ScanEnd, Descend, PassBy, CycleFound, SearchReturn,
           SearchEnd, AtParent, Searching, StoreInv
<1> QED BY <1>1, <1>2, <1>3, <1>4, <1>5, <1>6, <1>7 DEF Next, GetSubEvents

-----------------------------------------------------------------------------
(* The theorems                                                            *)

LEMMA WalkInvariant == Spec => [](StoreInv /\ SearchInv /\ WalkInv)
BY InitStore, NextStore, InitSearch, NextSearch, InitWalk, NextWalk, PTL DEF Spec

\* Verify returns nil for exactly the maps in which every reference leads to
\* an event and Parents has no cycle, and otherwise the right error.
THEOREM VerifyIsExact == Spec => []VerdictExact
<1>1. StoreInv /\ SearchInv => VerdictExact
    <2> SUFFICES ASSUME StoreInv, SearchInv, call = "verify" PROVE VerdictExact
        BY DEF VerdictExact
    <2>1. (\A id \in DOMAIN store : RefsHold(id)) <=> RefsPresent(store) /\ ChildrenPresent(store)
        BY DEF RefsHold, RefsPresent, ChildrenPresent
    <2>2. ASSUME pc = "ok" PROVE ParentsAcyclic(store)
        <3>1. Done = DOMAIN store
            BY <2>2 DEF Done, InStack, SearchInv
        <3> QED BY <3>1 DEF SearchInv, DoneAcyclic, ParentsAcyclic, ParentsOf
    <2> QED BY <2>1, <2>2 DEF VerdictExact, Verified, StoreInv, SearchInv
<1> QED BY <1>1, WalkInvariant, PTL

\* checkCycle and the collector of GetSubEvents never enter an event that they
\* are in, whatever cycles the map holds.
THEOREM RecursionIsBounded == Spec => []RecursionBounded
<1>1. StoreInv /\ SearchInv /\ WalkInv => RecursionBounded
    <2> SUFFICES ASSUME StoreInv, SearchInv, WalkInv,
                        NEW i \in DOMAIN stack, NEW j \in DOMAIN stack,
                        i < j, i > 1 \/ call = "verify"
                 PROVE  stack[i].of # stack[j].of
        BY DEF RecursionBounded
    <2>1. DOMAIN stack = 1 .. Len(stack) /\ Len(stack) \in Nat
        BY DEF StoreInv
    <2>2. CASE call = "verify"
        BY <2>1, <2>2 DEF SearchInv, StackDistinct
    <2>3. CASE call = "subEvents"
        <3>1. i \in 2 .. Len(stack) /\ j \in 2 .. Len(stack)
            BY <2>1, <2>3
        <3> QED BY <2>3, <3>1 DEF WalkInv
    <2> QED BY <2>2, <2>3 DEF StoreInv
<1> QED BY <1>1, WalkInvariant, PTL

\* GetSubEvents returns each event that root spawned, once, and no other, in
\* every map whose back-references are in place.
THEOREM GetSubEventsIsExact == Spec => []SubEventsExact
<1>1. StoreInv /\ SearchInv /\ WalkInv => SubEventsExact
    <2> SUFFICES ASSUME StoreInv, WalkInv, call = "subEvents" PROVE SubEventsExact
        BY DEF SubEventsExact
    <2>1. ASSUME pc = "ok", BackLinked(store) PROVE SubEventsOf(root) \subseteq visited
        <3>1. \A id \in SubEventsOf(root) : id \in DOMAIN store /\ root \in Refs(store[id])
            BY DEF SubEventsOf, Refs
        <3>2. SubEventsOf(root) \subseteq ToSet(ChildrenOf(root))
            BY <2>1, <3>1 DEF WalkInv, BackLinked, ChildrenOf
        <3> QED BY <2>1, <3>2 DEF WalkInv
    <2> QED BY <2>1 DEF SubEventsExact, WalkInv
<1> QED BY <1>1, WalkInvariant, PTL

=============================================================================

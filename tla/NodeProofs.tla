----------------------------- MODULE NodeProofs -----------------------------
(***************************************************************************)
(* The hashpool adapter, by itself or in a node, and the node around it:   *)
(* proofs for any number of goroutines and commitments and any size of the *)
(* channels.  Every step of the node is a step of the adapter or leaves it *)
(* alone (NodeRunsAdapter), so what is proved of HashpoolAdapter!Spec holds *)
(* in the node.                                                            *)
(***************************************************************************)
EXTENDS Node, TLAPS

OwnerStages == {"idle", "starting", "stopping", "draining"}
CallbackStages == {"none", "adding", "record", "error", "done"}

Callbacks ==
    [pc : CallbackStages, parent : Commitment \cup {NoEventID}, ctx : Nat,
     met : SUBSET Commitment]

AdapterType ==
    /\ running \in BOOLEAN /\ errClosed \in BOOLEAN
    /\ ctx \in Nat /\ errs \in Nat
    /\ owner \in [Owner -> OwnerStages]
    /\ callback \in [Commitment -> Callbacks]
    /\ lastEventID \in Commitment \cup {NoEventID}
    /\ chain \in Seq(Commitment)

-----------------------------------------------------------------------------
(* What the steps do to the callbacks                                      *)

\* Callback c goes from one stage to another and nothing else changes.
Moves(c, from, to) ==
    /\ callback[c].pc = from
    /\ callback'[c].pc = to
    /\ \A d \in Commitment :
          /\ d # c => callback'[d].pc = callback[d].pc
          /\ callback'[d].parent = callback[d].parent
          /\ callback'[d].met = callback[d].met

\* The assignment of a new stage.
LEMMA Moving ==
    ASSUME callback \in [Commitment -> Callbacks],
           NEW c \in Commitment, NEW to \in CallbackStages,
           callback' = [callback EXCEPT ![c].pc = to]
    PROVE  /\ callback' \in [Commitment -> Callbacks]
           /\ Moves(c, callback[c].pc, to)
<1>1. callback' = [d \in Commitment |->
                      IF d = c THEN [callback[d] EXCEPT !.pc = to] ELSE callback[d]]
    OBVIOUS
<1>2. ASSUME NEW d \in Commitment
      PROVE  /\ callback'[d] \in Callbacks
             /\ callback'[d].pc = IF d = c THEN to ELSE callback[d].pc
             /\ callback'[d].parent = callback[d].parent
             /\ callback'[d].met = callback[d].met
    <2>1. callback[d] \in Callbacks
        OBVIOUS
    <2>2. callback'[d] = IF d = c THEN [callback[d] EXCEPT !.pc = to] ELSE callback[d]
        BY <1>1
    <2> QED BY <2>1, <2>2 DEF Callbacks
<1>3. callback' \in [Commitment -> Callbacks]
    BY <1>1, <1>2
<1> QED BY <1>2, <1>3 DEF Moves

\* The start of handleCommitment: c and the callbacks under way meet.
LEMMA Entering ==
    ASSUME AdapterType, NEW c \in Commitment, Enter(c)
    PROVE  /\ callback' \in [Commitment -> Callbacks]
           /\ callback'[c].pc = "adding"
           /\ callback'[c].parent = IF ChainCommitments THEN lastEventID ELSE NoEventID
           /\ callback'[c].met = InFlight
           /\ \A d \in Commitment \ {c} :
                 /\ callback'[d].pc = callback[d].pc
                 /\ callback'[d].parent = callback[d].parent
                 /\ callback'[d].met = IF d \in InFlight THEN callback[d].met \cup {c}
                                                          ELSE callback[d].met
<1> DEFINE new == [pc |-> "adding", ctx |-> ctx, met |-> InFlight,
                   parent |-> IF ChainCommitments THEN lastEventID ELSE NoEventID]
<1>1. new \in Callbacks
    BY DEF AdapterType, Callbacks, CallbackStages, InFlight
<1>2. callback' = [d \in Commitment |->
                      IF d = c THEN new
                      ELSE IF d \in InFlight THEN [callback[d] EXCEPT !.met = @ \cup {c}]
                      ELSE callback[d]]
    BY DEF Enter
<1>3. callback'[c] = new
    BY <1>2
<1>4. ASSUME NEW d \in Commitment \ {c}
      PROVE  /\ callback'[d] \in Callbacks
             /\ callback'[d].pc = callback[d].pc
             /\ callback'[d].parent = callback[d].parent
             /\ callback'[d].met = IF d \in InFlight THEN callback[d].met \cup {c}
                                                      ELSE callback[d].met
    <2>1. callback[d] \in Callbacks
        BY DEF AdapterType
    <2>2. callback'[d] = IF d \in InFlight THEN [callback[d] EXCEPT !.met = @ \cup {c}]
                                           ELSE callback[d]
        BY <1>2
    <2> QED BY <2>1, <2>2 DEF Callbacks
<1>5. callback' \in [Commitment -> Callbacks]
    BY <1>1, <1>2, <1>3, <1>4
<1> QED BY <1>3, <1>4, <1>5

\* Every step of the adapter keeps the types.
LEMMA AdapterTypeStep ==
    ASSUME AdapterType, [Next]_vars
    PROVE  AdapterType'
<1>1. ASSUME NEW o \in Owner, Start(o) \/ Started(o) \/ Stop(o) \/ HashpoolStopped(o) \/ Drained(o)
      PROVE  AdapterType'
    <2>1. owner' \in [Owner -> OwnerStages]
        BY <1>1 DEF AdapterType, Start, Started, Stop, HashpoolStopped, Drained, OwnerStages
    <2>2. running' \in BOOLEAN /\ errClosed' \in BOOLEAN
        BY <1>1 DEF AdapterType, Start, Started, Stop, HashpoolStopped, Drained, ownerVars
    <2>3. ctx' \in Nat
        <3>1. ctx' = ctx + 1 \/ ctx' = ctx
            BY <1>1 DEF Start, Started, Stop, HashpoolStopped, Drained
        <3> QED BY <3>1 DEF AdapterType
    <2>4. UNCHANGED <<errs, callback, lastEventID, chain>>
        BY <1>1 DEF Start, Started, Stop, HashpoolStopped, Drained, poolVars
    <2> QED BY <2>1, <2>2, <2>3, <2>4 DEF AdapterType
<1>2. ASSUME NEW c \in Commitment, handleCommitment(c)
      PROVE  AdapterType'
    <2>1. callback' \in [Commitment -> Callbacks]
        <3>1. CASE Handle(c)
            BY <3>1, Entering DEF Handle
        <3>2. CASE Ignore(c) \/ Record(c) \/ SendError(c)
            <4>1. callback' = [callback EXCEPT ![c].pc = "done"]
                BY <3>2 DEF Ignore, Record, SendError
            <4> QED BY <4>1, Moving DEF AdapterType, CallbackStages
        <3>3. CASE Add(c)
            BY <3>3, Moving DEF Add, AdapterType, CallbackStages
        <3>4. CASE AddFail(c)
            BY <3>4, Moving DEF AddFail, AdapterType, CallbackStages
        <3> QED BY <1>2, <3>1, <3>2, <3>3, <3>4 DEF handleCommitment
    <2>2. UNCHANGED ownerVars
        BY <1>2 DEF handleCommitment, Handle, Ignore, Add, AddFail, Record, SendError, Enter
    <2>3. chain' \in Seq(Commitment)
        BY <1>2 DEF handleCommitment, Handle, Ignore, Add, AddFail, Record, SendError, Enter,
                    poolVars, AdapterType
    <2>4. lastEventID' \in Commitment \cup {NoEventID}
        BY <1>2 DEF handleCommitment, Handle, Ignore, Add, AddFail, Record, SendError, Enter,
                    AdapterType
    <2>5. errs' \in Nat
        BY <1>2 DEF handleCommitment, Handle, Ignore, Add, AddFail, Record, SendError, Enter,
                    AdapterType
    <2> QED BY <2>1, <2>2, <2>3, <2>4, <2>5 DEF AdapterType, ownerVars
<1>3. CASE PoolTake \/ PoolClose \/ OwnerCancel \/ DrainErr
    BY <1>3 DEF AdapterType, PoolTake, PoolClose, OwnerCancel, DrainErr, ownerVars, poolVars
<1>4. CASE UNCHANGED vars
    BY <1>4 DEF AdapterType, vars, ownerVars, poolVars
<1> QED BY <1>1, <1>2, <1>3, <1>4 DEF Next

LEMMA AdapterTypeInit == Init => AdapterType
<1>1. SUFFICES ASSUME Init PROVE AdapterType
    OBVIOUS
<1>2. callback \in [Commitment -> Callbacks]
    BY <1>1 DEF Init, Callbacks, CallbackStages
<1>3. owner \in [Owner -> OwnerStages]
    BY <1>1 DEF Init, OwnerStages
<1>4. chain \in Seq(Commitment)
    BY <1>1 DEF Init
<1>5. ctx \in Nat /\ errs \in Nat /\ lastEventID = NoEventID /\ ~running /\ ~errClosed
      /\ running \in BOOLEAN /\ errClosed \in BOOLEAN
    BY <1>1 DEF Init
<1> QED BY <1>2, <1>3, <1>4, <1>5 DEF AdapterType

-----------------------------------------------------------------------------
(* Stop: nothing happens after it, and errCh is closed once                *)

Stopping == {o \in Owner : owner[o] \in {"stopping", "draining"}}

\* One goroutine stops an adapter that is started once, and errCh is closed
\* when no callback can be under way any more.
StopInv ==
    /\ ctx <= 1
    /\ ctx = 0 => ~running /\ ~errClosed /\ InFlight = {} /\ Stopping = {}
    /\ running => ~errClosed /\ Stopping = {}
    /\ Stopping # {} => ~errClosed
    /\ \A o, p \in Stopping : o = p
    /\ errClosed => InFlight = {}
    /\ panicked = {}

\* The steps of the callbacks that callbackWG counts.
Counted(c) == Add(c) \/ AddFail(c) \/ Record(c) \/ SendError(c)

\* Callbacks are only under way while errCh is open.
LEMMA CountedBeforeClose ==
    ASSUME StopInv, NEW c \in Commitment, Counted(c)
    PROVE  ~errClosed /\ ctx # 0
<1>1. c \in InFlight
    BY DEF Counted, Add, AddFail, Record, SendError, InFlight
<1> QED BY <1>1 DEF StopInv

LEMMA StopInvStep ==
    ASSUME MaxStarts = 1, AdapterType, StopInv, [Next]_vars
    PROVE  StopInv'
<1>1. ASSUME NEW o \in Owner, UNCHANGED callback,
             Start(o) \/ Started(o) \/ Stop(o) \/ HashpoolStopped(o) \/ Drained(o)
      PROVE  StopInv'
    <2>0. InFlight' = InFlight
        BY <1>1 DEF InFlight
    <2>1. \A x \in Owner : x # o => owner'[x] = owner[x]
        BY <1>1 DEF AdapterType, Start, Started, Stop, HashpoolStopped, Drained
    <2>2. CASE Start(o)
        <3>1. ctx = 0 /\ ctx' = 1 /\ running' /\ errClosed' = errClosed /\ panicked' = panicked
            BY <2>2 DEF Start, AdapterType
        <3>2. owner'[o] = "starting"
            BY <2>2 DEF Start, AdapterType
        <3>3. Stopping' = {}
            BY <2>1, <3>1, <3>2 DEF StopInv, Stopping
        <3> QED BY <2>0, <3>1, <3>3 DEF StopInv
    <2>3. CASE Started(o)
        <3>0. running' = running \/ running' = FALSE
            BY <2>3 DEF Started
        <3>1. running' => running
            BY <3>0, Zenon
        <3>5. UNCHANGED <<ctx, errClosed, panicked>>
            BY <2>3 DEF Started
        <3>2. owner[o] = "starting" /\ owner'[o] = "idle"
            BY <2>3 DEF Started, AdapterType
        <3>3. Stopping' = Stopping
            BY <2>1, <3>2 DEF Stopping
        <3>4. ctx = 0 => ~running'
            BY <3>1 DEF StopInv
        <3> QED BY <2>0, <3>1, <3>3, <3>4, <3>5 DEF StopInv
    <2>4. CASE Stop(o)
        <3>1. running /\ ~running' /\ UNCHANGED <<ctx, errClosed, panicked>>
            BY <2>4 DEF Stop
        <3>2. owner'[o] = "stopping"
            BY <2>4 DEF Stop, AdapterType
        <3>3. Stopping' = {o}
            BY <2>1, <3>1, <3>2 DEF StopInv, Stopping
        <3> QED BY <2>0, <3>1, <3>3 DEF StopInv
    <2>5. CASE HashpoolStopped(o)
        <3>1. UNCHANGED <<running, ctx, errClosed, panicked>>
            BY <2>5 DEF HashpoolStopped
        <3>2. owner[o] = "stopping" /\ owner'[o] = "draining"
            BY <2>5 DEF HashpoolStopped, AdapterType
        <3>3. Stopping' = Stopping
            BY <2>1, <3>2 DEF Stopping
        <3> QED BY <2>0, <3>1, <3>3 DEF StopInv
    <2>6. CASE Drained(o)
        <3>1. owner[o] = "draining" /\ owner'[o] = "idle"
            BY <2>6 DEF Drained, AdapterType
        <3>2. o \in Stopping
            BY <3>1 DEF Stopping
        <3>3. ~errClosed /\ ~running /\ ctx # 0 /\ \A x \in Stopping : x = o
            BY <3>2 DEF StopInv
        <3>4. errClosed' /\ panicked' = panicked /\ InFlight = {} /\ UNCHANGED <<running, ctx>>
            BY <2>6, <3>3 DEF Drained
        <3>5. Stopping' = {}
            BY <2>1, <3>1, <3>3 DEF Stopping
        <3> QED BY <2>0, <3>3, <3>4, <3>5 DEF StopInv
    <2> QED BY <1>1, <2>2, <2>3, <2>4, <2>5, <2>6
<1>2. ASSUME NEW c \in Commitment, handleCommitment(c)
      PROVE  StopInv'
    <2>1. UNCHANGED <<running, ctx, owner, errClosed>>
        BY <1>2 DEF handleCommitment, Handle, Ignore, Add, AddFail, Record, SendError, Enter,
                    ownerVars
    <2>2. Stopping' = Stopping
        BY <2>1 DEF Stopping
    <2>3. CASE Handle(c)
        <3>1. running /\ panicked' = panicked
            BY <2>3 DEF Handle, Enter
        <3> QED BY <2>1, <2>2, <3>1 DEF StopInv
    <2>4. CASE Ignore(c)
        <3>1. Moves(c, "none", "done") /\ panicked' = panicked
            BY <2>4, Moving DEF Ignore, AdapterType, CallbackStages
        <3>2. InFlight' = InFlight
            BY <3>1 DEF Moves, InFlight
        <3> QED BY <2>1, <2>2, <3>1, <3>2 DEF StopInv
    <2>5. CASE Counted(c)
        <3>1. ~errClosed /\ ctx # 0
            BY <2>5, CountedBeforeClose
        <3>2. panicked' = panicked
            BY <2>5, <3>1 DEF Counted, Add, AddFail, Record, SendError
        <3> QED BY <2>1, <2>2, <3>1, <3>2 DEF StopInv
    <2> QED BY <1>2, <2>3, <2>4, <2>5 DEF handleCommitment, Counted
<1>3. ASSUME UNCHANGED <<running, ctx, owner, errClosed, callback, panicked>>
      PROVE  StopInv'
    <2>1. Stopping' = Stopping /\ InFlight' = InFlight
        BY <1>3 DEF Stopping, InFlight
    <2> QED BY <1>3, <2>1 DEF StopInv
<1>4. (\E o \in Owner : Start(o) \/ Started(o) \/ Stop(o) \/ HashpoolStopped(o) \/ Drained(o))
         => UNCHANGED callback
    BY DEF Start, Started, Stop, HashpoolStopped, Drained
<1>5. PoolTake \/ PoolClose \/ OwnerCancel \/ DrainErr \/ UNCHANGED vars
         => UNCHANGED <<running, ctx, owner, errClosed, callback, panicked>>
    BY DEF PoolTake, PoolClose, OwnerCancel, DrainErr, vars, ownerVars, poolVars
<1> QED BY <1>1, <1>2, <1>3, <1>4, <1>5 DEF Next

LEMMA StopInvInit == Init => StopInv
BY DEF Init, StopInv, Stopping, InFlight

\* The inductive invariant of stopping holds in every reachable state of an
\* adapter that is started once.
THEOREM StopInvariant ==
    ASSUME MaxStarts = 1
    PROVE  Spec => [](AdapterType /\ StopInv)
<1>1. Init => AdapterType /\ StopInv
    BY AdapterTypeInit, StopInvInit
<1>2. AdapterType /\ StopInv /\ [Next]_vars => (AdapterType /\ StopInv)'
    BY AdapterTypeStep, StopInvStep
<1> QED BY <1>1, <1>2, PTL DEF Spec

-----------------------------------------------------------------------------
(* The chain: parents are queued first, and forks come from overlaps       *)

\* The commitments whose events have been queued.
Queued == {chain[i] : i \in DOMAIN chain}

\* The commitments whose events can have been the last ones.
Recorded == {c \in Queued : callback[c].pc = "done"}

\* An event is queued between two stages of its callback, once, and only a
\* recorded event is the last one or somebody's parent.
LinkInv ==
    /\ \A c \in Commitment : callback[c].pc \in {"none", "adding", "error"} => c \notin Queued
    /\ \A c \in Commitment : callback[c].pc = "record" => c \in Queued
    /\ \A i, k \in DOMAIN chain : chain[i] = chain[k] => i = k
    /\ lastEventID \in Recorded \cup {NoEventID}
    /\ \A c \in Commitment : callback[c].parent \in Recorded \cup {NoEventID}
    /\ ParentsQueuedFirst

\* The commitments whose events are queued or about to be.
Offered == {c \in Commitment : c \in Queued \/ callback[c].pc = "adding"}

\* Nothing recorded refers to the last event, and of two events that are queued
\* or about to be and have the same parent each one met the other.
ForkInv ==
    ChainCommitments =>
        /\ \A c \in Recorded : callback[c].parent # lastEventID
        /\ \A c, d \in Offered :
              c # d /\ callback[c].parent = callback[d].parent => d \in callback[c].met

LEMMA QueuedCommitments == AdapterType => Queued \subseteq Commitment
BY DEF AdapterType, Queued

\* What a queued event adds.
LEMMA Queueing ==
    ASSUME AdapterType, NEW c \in Commitment, chain' = Append(chain, c)
    PROVE  /\ Queued' = Queued \cup {c}
           /\ Len(chain) \in Nat
           /\ DOMAIN chain = 1 .. Len(chain)
           /\ DOMAIN chain' = DOMAIN chain \cup {Len(chain) + 1}
           /\ \A i \in DOMAIN chain : chain'[i] = chain[i]
           /\ chain'[Len(chain) + 1] = c
<1>1. chain \in Seq(Commitment)
    BY DEF AdapterType
<1>2. Len(chain) \in Nat /\ DOMAIN chain = 1 .. Len(chain)
    BY <1>1
<1>3. Len(chain') = Len(chain) + 1 /\ DOMAIN chain' = 1 .. Len(chain) + 1
    BY <1>1
<1>4. DOMAIN chain' = DOMAIN chain \cup {Len(chain) + 1}
    BY <1>2, <1>3
<1>5. \A i \in DOMAIN chain : chain'[i] = chain[i]
    BY <1>1, <1>2
<1>6. chain'[Len(chain) + 1] = c
    BY <1>1
<1>7. Queued' = Queued \cup {c}
    BY <1>4, <1>5, <1>6 DEF Queued
<1> QED BY <1>2, <1>4, <1>5, <1>6, <1>7

\* A step that queues nothing, records nothing and gives no callback a parent.
LEMMA LinksKept ==
    ASSUME AdapterType, LinkInv, UNCHANGED <<chain, lastEventID>>,
           \A c \in Commitment :
               /\ callback'[c].parent = callback[c].parent
               /\ callback[c].pc = "done" => callback'[c].pc = "done"
               /\ callback'[c].pc \in {"none", "adding", "error"}
                     => callback[c].pc \in {"none", "adding", "error"}
               /\ callback'[c].pc = "record" => callback[c].pc = "record"
    PROVE  LinkInv'
<1>1. Queued' = Queued
    BY DEF Queued
<1>2. Queued \subseteq Commitment
    BY QueuedCommitments
<1>3. Recorded \subseteq Recorded'
    BY <1>1, <1>2 DEF Recorded
<1>4. ParentsQueuedFirst'
    <2>1. \A i \in DOMAIN chain : chain[i] \in Commitment
        BY DEF AdapterType
    <2> QED BY <2>1 DEF LinkInv, ParentsQueuedFirst
<1> QED BY <1>1, <1>3, <1>4 DEF LinkInv

LEMMA LinkInvStep ==
    ASSUME AdapterType, LinkInv, [Next]_vars
    PROVE  LinkInv'
<1> USE AdapterAssumption
<1>0. Queued \subseteq Commitment
    BY QueuedCommitments
<1>1. ASSUME NEW c \in Commitment, Handle(c)
      PROVE  LinkInv'
    <2>1. callback[c].pc = "none" /\ Enter(c) /\ UNCHANGED <<chain, lastEventID>>
        BY <1>1 DEF Handle, Enter, poolVars
    <2>2. c \notin Queued
        BY <2>1 DEF LinkInv
    <2>3. Queued' = Queued
        BY <2>1 DEF Queued
    <2>4. Recorded' = Recorded
        BY <1>0, <2>1, <2>2, <2>3, Entering DEF Recorded
    <2>5. ParentsQueuedFirst'
        <3>1. \A i \in DOMAIN chain : chain[i] \in Commitment \ {c}
            BY <1>0, <2>2 DEF Queued
        <3>2. \A i \in DOMAIN chain : callback'[chain[i]].parent = callback[chain[i]].parent
            BY <2>1, <3>1, Entering
        <3> QED BY <2>1, <3>2 DEF LinkInv, ParentsQueuedFirst
    <2>6. callback'[c].pc = "adding" /\ callback'[c].parent \in Recorded \cup {NoEventID}
        BY <2>1, Entering DEF LinkInv
    <2>7. \A d \in Commitment \ {c} : /\ callback'[d].pc = callback[d].pc
                                      /\ callback'[d].parent = callback[d].parent
        BY <2>1, Entering
    <2> QED BY <2>1, <2>2, <2>3, <2>4, <2>5, <2>6, <2>7 DEF LinkInv
<1>2. ASSUME NEW c \in Commitment, Ignore(c)
      PROVE  LinkInv'
    <2>1. Moves(c, "none", "done") /\ UNCHANGED <<chain, lastEventID>>
        BY <1>2, Moving DEF Ignore, AdapterType, CallbackStages, poolVars
    <2> QED BY <2>1, LinksKept DEF Moves
<1>3. ASSUME NEW c \in Commitment, Add(c)
      PROVE  LinkInv'
    <2>1. Moves(c, "adding", "record") /\ chain' = Append(chain, c) /\ UNCHANGED lastEventID
        BY <1>3, Moving DEF Add, AdapterType, CallbackStages
    <2>2. c \notin Queued /\ Queued' = Queued \cup {c}
        BY <2>1, Queueing DEF LinkInv, Moves
    <2>3. Recorded' = Recorded
        BY <1>0, <2>1, <2>2 DEF Recorded, Moves
    <2>4. \A i, k \in DOMAIN chain' : chain'[i] = chain'[k] => i = k
        <3>1. \A i \in DOMAIN chain : chain[i] # c
            BY <2>2 DEF Queued
        <3> QED BY <2>1, <3>1, Queueing DEF LinkInv
    <2>5. ParentsQueuedFirst'
        <3>1. \A i \in DOMAIN chain' : chain'[i] \in Commitment
            BY <1>0, <2>2 DEF Queued
        <3>2. \A i \in DOMAIN chain' : callback'[chain'[i]].parent = callback[chain'[i]].parent
            BY <2>1, <3>1 DEF Moves
        <3>3. ASSUME NEW i \in DOMAIN chain', callback[chain'[i]].parent # NoEventID
              PROVE  \E k \in 1 .. i - 1 : chain'[k] = callback[chain'[i]].parent
            <4>1. CASE i \in DOMAIN chain
                <5>1. PICK k \in 1 .. i - 1 : chain[k] = callback[chain[i]].parent
                    BY <2>1, <3>3, <4>1, Queueing DEF LinkInv, ParentsQueuedFirst
                <5>2. k \in DOMAIN chain
                    BY <2>1, <4>1, Queueing
                <5> QED BY <2>1, <4>1, <5>1, <5>2, Queueing
            <4>2. CASE i = Len(chain) + 1
                <5>1. chain'[i] = c
                    BY <2>1, <4>2, Queueing
                <5>2. callback[c].parent \in Queued
                    BY <3>3, <5>1 DEF LinkInv, Recorded
                <5>3. PICK k \in DOMAIN chain : chain[k] = callback[c].parent
                    BY <5>2 DEF Queued
                <5>4. k \in 1 .. i - 1
                    BY <2>1, <4>2, <5>3, Queueing
                <5> QED BY <2>1, <5>1, <5>3, <5>4, Queueing
            <4> QED BY <2>1, <4>1, <4>2, Queueing
        <3> QED BY <3>2, <3>3 DEF ParentsQueuedFirst
    <2> QED BY <2>1, <2>2, <2>3, <2>4, <2>5 DEF LinkInv, Moves
<1>4. ASSUME NEW c \in Commitment, AddFail(c)
      PROVE  LinkInv'
    <2>1. Moves(c, "adding", "error") /\ UNCHANGED <<chain, lastEventID>>
        BY <1>4, Moving DEF AddFail, AdapterType, CallbackStages, poolVars
    <2> QED BY <2>1, LinksKept DEF Moves
<1>5. ASSUME NEW c \in Commitment, Record(c)
      PROVE  LinkInv'
    <2>1. Moves(c, "record", "done") /\ UNCHANGED chain /\ lastEventID' = c
        BY <1>5, Moving DEF Record, AdapterType, CallbackStages, poolVars
    <2>2. Queued' = Queued /\ c \in Queued
        BY <2>1 DEF Queued, LinkInv, Moves
    <2>3. Recorded' = Recorded \cup {c}
        BY <1>0, <2>1, <2>2 DEF Recorded, Moves
    <2>4. ParentsQueuedFirst'
        <3>1. \A i \in DOMAIN chain : callback'[chain[i]].parent = callback[chain[i]].parent
            BY <1>0, <2>1 DEF Queued, Moves
        <3> QED BY <2>1, <3>1 DEF LinkInv, ParentsQueuedFirst
    <2> QED BY <2>1, <2>2, <2>3, <2>4 DEF LinkInv, Moves
<1>6. ASSUME NEW c \in Commitment, SendError(c)
      PROVE  LinkInv'
    <2>1. Moves(c, "error", "done") /\ UNCHANGED <<chain, lastEventID>>
        BY <1>6, Moving DEF SendError, AdapterType, CallbackStages, poolVars
    <2> QED BY <2>1, LinksKept DEF Moves
<1>7. ASSUME UNCHANGED <<callback, chain, lastEventID>>
      PROVE  LinkInv'
    BY <1>7, LinksKept
<1>8. CASE \E o \in Owner :
              Start(o) \/ Started(o) \/ Stop(o) \/ HashpoolStopped(o) \/ Drained(o)
    BY <1>7, <1>8 DEF Start, Started, Stop, HashpoolStopped, Drained, poolVars
<1>9. CASE PoolTake \/ PoolClose \/ OwnerCancel \/ DrainErr \/ UNCHANGED vars
    BY <1>7, <1>9 DEF PoolTake, PoolClose, OwnerCancel, DrainErr, vars, ownerVars, poolVars
<1> QED BY <1>1, <1>2, <1>3, <1>4, <1>5, <1>6, <1>8, <1>9 DEF Next, handleCommitment

\* A step that records nothing, lets no callback in and gives nobody a parent.
LEMMA ForksKept ==
    ASSUME AdapterType, ForkInv, UNCHANGED lastEventID,
           Recorded' = Recorded, Offered' \subseteq Offered,
           \A c \in Commitment : /\ callback'[c].parent = callback[c].parent
                                 /\ callback'[c].met = callback[c].met
    PROVE  ForkInv'
<1>1. Recorded \subseteq Commitment
    BY QueuedCommitments DEF Recorded
<1>2. ChainCommitments => \A c \in Recorded' : callback'[c].parent # lastEventID'
    BY <1>1 DEF ForkInv
<1>3. ChainCommitments =>
          \A c, d \in Offered' :
              c # d /\ callback'[c].parent = callback'[d].parent => d \in callback'[c].met
    BY DEF ForkInv, Offered
<1> QED BY <1>2, <1>3 DEF ForkInv

LEMMA ForkInvStep ==
    ASSUME AdapterType, LinkInv, ForkInv, [Next]_vars
    PROVE  ForkInv'
<1>0. Queued \subseteq Commitment
    BY QueuedCommitments
<1>1. ASSUME NEW c \in Commitment, Handle(c)
      PROVE  ForkInv'
    <2> SUFFICES ASSUME ChainCommitments
                 PROVE  ForkInv'
        BY DEF ForkInv
    <2>1. callback[c].pc = "none" /\ Enter(c) /\ UNCHANGED <<chain, lastEventID>>
        BY <1>1 DEF Handle, Enter, poolVars
    <2>2. c \notin Queued /\ Queued' = Queued
        BY <2>1 DEF LinkInv, Queued
    <2>3. /\ callback'[c].pc = "adding" /\ callback'[c].parent = lastEventID
          /\ callback'[c].met = InFlight
          /\ \A d \in Commitment \ {c} :
                /\ callback'[d].pc = callback[d].pc
                /\ callback'[d].parent = callback[d].parent
                /\ callback'[d].met = IF d \in InFlight THEN callback[d].met \cup {c}
                                                         ELSE callback[d].met
        BY <2>1, Entering
    <2>4. Recorded' = Recorded /\ c \notin Recorded
        BY <1>0, <2>2, <2>3 DEF Recorded
    <2>5. \A d \in Recorded' : callback'[d].parent # lastEventID'
        BY <1>0, <2>1, <2>3, <2>4 DEF ForkInv, Recorded
    <2>6. Offered' = Offered \cup {c}
        BY <2>2, <2>3 DEF Offered
    <2>7. ASSUME NEW d \in Offered \ {c}, callback[d].parent = lastEventID
          PROVE  d \in InFlight
        <3>1. d \notin Recorded
            BY <2>7 DEF ForkInv
        <3>2. callback[d].pc \in CallbackStages
            BY <2>7 DEF AdapterType, Callbacks, Offered
        <3> QED BY <3>1, <3>2 DEF Offered, Recorded, InFlight, CallbackStages, LinkInv
    <2>8. ASSUME NEW x \in Offered', NEW d \in Offered', x # d,
                 callback'[x].parent = callback'[d].parent
          PROVE  d \in callback'[x].met
        <3>0. x \in Commitment /\ d \in Commitment
            BY DEF Offered
        <3>1. CASE x = c
            BY <2>3, <2>6, <2>7, <2>8, <3>0, <3>1
        <3>2. CASE d = c
            BY <2>3, <2>6, <2>7, <2>8, <3>0, <3>2
        <3>3. CASE x # c /\ d # c
            <4>1. d \in callback[x].met
                BY <2>3, <2>6, <2>8, <3>0, <3>3 DEF ForkInv
            <4> QED BY <2>3, <3>0, <3>3, <4>1
        <3> QED BY <3>1, <3>2, <3>3
    <2> QED BY <2>5, <2>8 DEF ForkInv
<1>2. ASSUME NEW c \in Commitment, Ignore(c)
      PROVE  ForkInv'
    <2>1. Moves(c, "none", "done") /\ UNCHANGED <<chain, lastEventID>>
        BY <1>2, Moving DEF Ignore, AdapterType, CallbackStages, poolVars
    <2>2. Queued' = Queued /\ c \notin Queued
        BY <2>1 DEF Queued, LinkInv, Moves
    <2>3. Recorded' = Recorded /\ Offered' \subseteq Offered
        BY <1>0, <2>1, <2>2 DEF Recorded, Offered, Moves
    <2> QED BY <2>1, <2>3, ForksKept DEF Moves
<1>3. ASSUME NEW c \in Commitment, Add(c)
      PROVE  ForkInv'
    <2>1. Moves(c, "adding", "record") /\ chain' = Append(chain, c) /\ UNCHANGED lastEventID
        BY <1>3, Moving DEF Add, AdapterType, CallbackStages
    <2>2. c \notin Queued /\ Queued' = Queued \cup {c}
        BY <2>1, Queueing DEF LinkInv, Moves
    <2>3. Recorded' = Recorded /\ Offered' \subseteq Offered
        BY <1>0, <2>1, <2>2 DEF Recorded, Offered, Moves
    <2> QED BY <2>1, <2>3, ForksKept DEF Moves
<1>4. ASSUME NEW c \in Commitment, AddFail(c)
      PROVE  ForkInv'
    <2>1. Moves(c, "adding", "error") /\ UNCHANGED <<chain, lastEventID>>
        BY <1>4, Moving DEF AddFail, AdapterType, CallbackStages, poolVars
    <2>2. Queued' = Queued
        BY <2>1 DEF Queued
    <2>3. Recorded' = Recorded /\ Offered' \subseteq Offered
        BY <1>0, <2>1, <2>2 DEF Recorded, Offered, Moves
    <2> QED BY <2>1, <2>3, ForksKept DEF Moves
<1>5. ASSUME NEW c \in Commitment, Record(c)
      PROVE  ForkInv'
    <2>1. Moves(c, "record", "done") /\ UNCHANGED chain /\ lastEventID' = c
        BY <1>5, Moving DEF Record, AdapterType, CallbackStages, poolVars
    <2>2. Queued' = Queued /\ c \notin Recorded
        BY <2>1 DEF Queued, Recorded, Moves
    <2>3. Recorded' \subseteq Commitment /\ Offered' \subseteq Offered
        BY <1>0, <2>1, <2>2 DEF Recorded, Offered, Moves
    <2>4. \A d \in Recorded' : callback'[d].parent # c
        <3>1. \A d \in Commitment : callback[d].parent # c
            BY <2>2, AdapterAssumption DEF LinkInv
        <3> QED BY <2>1, <2>3, <3>1 DEF Moves
    <2>5. ChainCommitments =>
              \A x, d \in Offered' :
                  x # d /\ callback'[x].parent = callback'[d].parent => d \in callback'[x].met
        BY <2>1, <2>3 DEF ForkInv, Offered, Moves
    <2> QED BY <2>1, <2>4, <2>5 DEF ForkInv
<1>6. ASSUME NEW c \in Commitment, SendError(c)
      PROVE  ForkInv'
    <2>1. Moves(c, "error", "done") /\ UNCHANGED <<chain, lastEventID>>
        BY <1>6, Moving DEF SendError, AdapterType, CallbackStages, poolVars
    <2>2. Queued' = Queued /\ c \notin Queued
        BY <2>1 DEF Queued, LinkInv, Moves
    <2>3. Recorded' = Recorded /\ Offered' \subseteq Offered
        BY <1>0, <2>1, <2>2 DEF Recorded, Offered, Moves
    <2> QED BY <2>1, <2>3, ForksKept DEF Moves
<1>7. ASSUME UNCHANGED <<callback, chain, lastEventID>>
      PROVE  ForkInv'
    <2>1. Recorded' = Recorded /\ Offered' \subseteq Offered
        BY <1>7 DEF Queued, Recorded, Offered
    <2> QED BY <1>7, <2>1, ForksKept
<1>8. CASE \E o \in Owner :
              Start(o) \/ Started(o) \/ Stop(o) \/ HashpoolStopped(o) \/ Drained(o)
    BY <1>7, <1>8 DEF Start, Started, Stop, HashpoolStopped, Drained, poolVars
<1>9. CASE PoolTake \/ PoolClose \/ OwnerCancel \/ DrainErr \/ UNCHANGED vars
    BY <1>7, <1>9 DEF PoolTake, PoolClose, OwnerCancel, DrainErr, vars, ownerVars, poolVars
<1> QED BY <1>1, <1>2, <1>3, <1>4, <1>5, <1>6, <1>8, <1>9 DEF Next, handleCommitment

LEMMA ChainInit == Init => LinkInv /\ ForkInv
<1> SUFFICES ASSUME Init PROVE LinkInv /\ ForkInv
    OBVIOUS
<1>1. Queued = {} /\ Recorded = {} /\ DOMAIN chain = {}
    BY DEF Init, Queued, Recorded
<1>2. \A c \in Commitment : callback[c].pc = "none" /\ callback[c].parent = NoEventID
    BY DEF Init
<1>3. Offered = {} /\ lastEventID = NoEventID
    BY <1>1, <1>2 DEF Offered, Init
<1> QED BY <1>1, <1>2, <1>3 DEF LinkInv, ForkInv, ParentsQueuedFirst

LEMMA ChainInvariant == Spec => [](AdapterType /\ LinkInv /\ ForkInv)
<1>1. Init => AdapterType /\ LinkInv /\ ForkInv
    BY AdapterTypeInit, ChainInit
<1>2. AdapterType /\ LinkInv /\ ForkInv /\ [Next]_vars => (AdapterType /\ LinkInv /\ ForkInv)'
    BY AdapterTypeStep, LinkInvStep, ForkInvStep
<1> QED BY <1>1, <1>2, PTL DEF Spec

LEMMA OverlapForks == AdapterType /\ LinkInv /\ ForkInv => ForksOnlyByOverlap
<1> SUFFICES ASSUME AdapterType, LinkInv, ForkInv, ChainCommitments,
                    NEW i \in DOMAIN chain, NEW k \in DOMAIN chain, i < k,
                    callback[chain[i]].parent = callback[chain[k]].parent
             PROVE  chain[i] \in callback[chain[k]].met
    BY DEF ForksOnlyByOverlap
<1>1. i \in Nat /\ k \in Nat /\ i # k
    BY DEF AdapterType
<1>2. chain[i] # chain[k]
    BY <1>1 DEF LinkInv
<1>3. chain[i] \in Offered /\ chain[k] \in Offered
    BY QueuedCommitments DEF Offered, Queued
<1> QED BY <1>2, <1>3 DEF ForkInv

-----------------------------------------------------------------------------
(* The node                                                                *)

\* Every step of the node is a step of the adapter or does not concern it: what
\* is proved of the adapter holds in the node.
LEMMA NodeRunsAdapter == NodeSpec => Spec
<1>1. NodeInit => Init
    BY DEF NodeInit
<1>2. [NodeNext]_<<vars, nodeVars>> => [Next]_vars
    <2> SUFFICES ASSUME [NodeNext]_<<vars, nodeVars>>
                 PROVE  [Next]_vars
        OBVIOUS
    <2>1. CASE New
        BY <2>1, MainAssumption DEF New, NewHost, ConnectPeer, StartBeacon, StartPool,
                                    NewAdapter, NoAdapter, AdapterStarted, Next
    <2>2. CASE Signal
        BY <2>2 DEF Signal, Next
    <2>3. CASE Close
        BY <2>3, MainAssumption DEF Close, StopAdapter, WaitAdapter, ClosePool, JoinPool,
                                    StopBeacon, CloseHost, Next
    <2>4. CASE LoopEnd \/ LoopTake \/ Callback \/ UserStops \/ Library
        BY <2>4 DEF LoopEnd, LoopTake, Callback, UserStops, Library, Next
    <2>5. CASE UNCHANGED <<vars, nodeVars>>
        BY <2>5
    <2> QED BY <2>1, <2>2, <2>3, <2>4, <2>5 DEF NodeNext
<1> QED BY <1>1, <1>2, PTL DEF NodeSpec, Spec

\* What there is at each stage of Main.
StageInv ==
    /\ built \in BOOLEAN /\ loop \in BOOLEAN
    /\ main \in BuildStages \cup TearDownStages
                \cup {"library", "serving", "closed", "failed", "leaked"}
    /\ main \in {"network", "peer", "beacon", "pool", "adapter"} => ctx = 0
    /\ main \in BuildStages \cup {"library"} => ~built
    /\ host = "open" <=> main \in (BuildStages \ {"network"}) \cup {"serving", "leaked"}
                                  \cup TearDownStages
    /\ beacon = "running" <=> main \in {"pool", "adapter", "starting", "serving"}
                                       \cup (TearDownStages \ {"closeHost"})
    /\ loop => main \in {"adapter", "starting", "serving", "stopAdapter", "waitAdapter",
                         "closePool", "joinPool"}
    /\ running => main \in {"library", "starting", "serving", "stopAdapter"}
    /\ main = "starting" => running
    /\ poolDone => main \in {"library", "joinPool", "stopBeacon", "closeHost",
                             "closed", "failed"}

\* An adapter that the node serves with runs, is being stopped or has stopped.
ServedInv ==
    built /\ ctx > 0 /\ ~running /\ ~errClosed => Stopping # {}

\* In a node: the hashpool node runs while the adapter does or is being stopped,
\* and where it has failed to start nobody has touched the context since.
OpenInv ==
    main # "library" =>
        /\ main = "serving" => built
        /\ ctx = 0 => cancelled = {} /\ hashpool = "new" /\ ~running /\ Stopping = {}
        /\ main = "starting" => ctx > 0 /\ ctx \notin cancelled
        /\ main = "waitAdapter" => hashpool # "failed"
        /\ hashpool = "failed" => ~built /\ ~running /\ ctx > 0 /\ ctx \notin cancelled
        /\ ctx > 0 /\ ctx \notin cancelled =>
               main \in {"starting", "serving"} \/ hashpool = "failed"
        /\ ctx > 0 /\ ~built => main = "starting" \/ hashpool = "failed"
        /\ hashpool = "started" => running \/ \E o \in Owner : owner[o] = "stopping"

LEMMA StageInvInit == NodeInit => StageInv /\ ServedInv /\ OpenInv
<1> SUFFICES ASSUME NodeInit PROVE StageInv /\ ServedInv /\ OpenInv
    OBVIOUS
<1>1. StageInv /\ ServedInv
    BY DEF NodeInit, Init, StageInv, ServedInv, BuildStages, TearDownStages
<1>2. ctx = 0 /\ cancelled = {} /\ hashpool = "new" /\ ~running /\ Stopping = {}
    BY DEF NodeInit, Init, Stopping
<1>3. main \notin {"serving", "starting", "waitAdapter"}
    BY DEF NodeInit
<1> QED BY <1>1, <1>2, <1>3 DEF OpenInv

LEMMA StageInvStep ==
    ASSUME StageInv, AdapterType, [NodeNext]_<<vars, nodeVars>>
    PROVE  StageInv'
<1> USE DEF BuildStages, TearDownStages
<1>1. ASSUME running' = running \/ (built /\ ~running'), UNCHANGED <<nodeVars, ctx, poolDone>>
      PROVE  StageInv'
    BY <1>1 DEF StageInv, nodeVars
<1>2. CASE NewHost
    BY <1>2 DEF NewHost, StageInv, vars, ownerVars, poolVars
<1>3. CASE ConnectPeer
    BY <1>3 DEF ConnectPeer, StageInv, vars, ownerVars, poolVars
<1>4. CASE StartBeacon
    BY <1>4 DEF StartBeacon, StageInv, vars, ownerVars, poolVars
<1>5. CASE StartPool
    <2>1. CASE loop' = TRUE /\ main' = "adapter"
        BY <1>5, <2>1 DEF StartPool, StageInv, vars, ownerVars, poolVars
    <2>2. CASE loop' = loop /\ main' = "stopBeacon"
        BY <1>5, <2>2 DEF StartPool, StageInv, vars, ownerVars, poolVars
    <2> QED BY <1>5, <2>1, <2>2 DEF StartPool
<1>6. CASE NewAdapter
    <2>1. CASE main' = "closePool" /\ UNCHANGED vars
        BY <1>6, <2>1 DEF NewAdapter, StageInv, vars, ownerVars, poolVars
    <2>2. CASE main' = "starting" /\ Start(Main)
        BY <1>6, <2>2 DEF NewAdapter, Start, StageInv, poolVars
    <2> QED BY <1>6, <2>1, <2>2 DEF NewAdapter
<1>7. CASE NoAdapter
    BY <1>7 DEF NoAdapter, Serve, StageInv, vars, ownerVars, poolVars
<1>8. CASE AdapterStarted
    <2>1. main = "starting" /\ UNCHANGED <<ctx, poolDone, ctxDone, host, beacon, loop>>
        BY <1>8 DEF AdapterStarted, Started, poolVars
    <2>2. CASE hashpool' = "started" /\ Serve
        BY <2>1, <2>2 DEF Serve, StageInv
    <2>3. CASE ~running' /\ AdapterFailed /\ UNCHANGED built
        BY <2>1, <2>3 DEF AdapterFailed, StageInv
    <2> QED BY <1>8, <2>2, <2>3 DEF AdapterStarted, Started
<1>9. CASE Signal
    <2>1. UNCHANGED <<running, ctx, poolDone>>
        BY <1>9 DEF Signal, OwnerCancel, vars, ownerVars, poolVars
    <2> QED BY <1>9, <2>1 DEF Signal, StageInv
<1>10. CASE StopAdapter
    <2>1. CASE Stop(Main) /\ main' = "waitAdapter"
        BY <1>10, <2>1 DEF StopAdapter, Stop, StageInv, poolVars
    <2>2. CASE ~running /\ UNCHANGED vars /\ main' = "closePool"
        BY <1>10, <2>2 DEF StopAdapter, StageInv, vars, ownerVars, poolVars
    <2> QED BY <1>10, <2>1, <2>2 DEF StopAdapter
<1>11. CASE WaitAdapter
    <2>1. CASE HashpoolStopped(Main) /\ UNCHANGED main
        BY <1>11, <2>1 DEF WaitAdapter, HashpoolStopped, StageInv, poolVars
    <2>2. CASE Drained(Main) /\ main' = "closePool"
        BY <1>11, <2>2 DEF WaitAdapter, Drained, StageInv, poolVars
    <2> QED BY <1>11, <2>1, <2>2 DEF WaitAdapter
<1>12. CASE ClosePool
    BY <1>12 DEF ClosePool, PoolClose, StageInv, ownerVars
<1>13. CASE JoinPool
    BY <1>13 DEF JoinPool, StageInv, vars, ownerVars, poolVars
<1>14. CASE StopBeacon
    BY <1>14 DEF StopBeacon, StageInv, vars, ownerVars, poolVars
<1>15. CASE CloseHost
    BY <1>15 DEF CloseHost, StageInv, vars, ownerVars, poolVars
<1>16. CASE LoopEnd
    BY <1>16 DEF LoopEnd, StageInv, vars, ownerVars, poolVars
<1>17. CASE LoopTake
    BY <1>1, <1>17 DEF LoopTake, PoolTake, ownerVars
<1>18. CASE Callback
    BY <1>1, <1>18 DEF Callback, handleCommitment, Handle, Ignore, Add, AddFail, Record,
                       SendError, Enter, DrainErr, ownerVars, poolVars
<1>19. CASE UserStops
    BY <1>1, <1>19 DEF UserStops, Stop, HashpoolStopped, Drained, poolVars
<1>20. CASE Library
    BY <1>20 DEF Library, nodeVars, StageInv
<1>21. CASE UNCHANGED <<vars, nodeVars>>
    BY <1>1, <1>21 DEF vars, ownerVars, poolVars
<1> QED BY <1>2, <1>3, <1>4, <1>5, <1>6, <1>7, <1>8, <1>9, <1>10, <1>11, <1>12, <1>13,
           <1>14, <1>15, <1>16, <1>17, <1>18, <1>19, <1>20, <1>21
        DEF NodeNext, New, Close

LEMMA ServedInvStep ==
    ASSUME StageInv, ServedInv, AdapterType, [NodeNext]_<<vars, nodeVars>>
    PROVE  ServedInv'
<1>1. ASSUME UNCHANGED <<built, ctx, running, errClosed, owner>>
      PROVE  ServedInv'
    BY <1>1 DEF ServedInv, Stopping
<1>2. ASSUME NEW o \in Owner, UNCHANGED built,
             Stop(o) \/ HashpoolStopped(o) \/ Drained(o)
      PROVE  ServedInv'
    <2>1. CASE Stop(o)
        <3>1. owner'[o] = "stopping"
            BY <2>1 DEF Stop, AdapterType
        <3> QED BY <3>1 DEF ServedInv, Stopping
    <2>2. CASE HashpoolStopped(o)
        <3>1. owner'[o] = "draining"
            BY <2>2 DEF HashpoolStopped, AdapterType
        <3> QED BY <3>1 DEF ServedInv, Stopping
    <2>3. CASE Drained(o)
        BY <2>3 DEF Drained, ServedInv
    <2> QED BY <1>2, <2>1, <2>2, <2>3
<1>3. CASE New
    <2>1. ~built
        BY <1>3 DEF New, NewHost, ConnectPeer, StartBeacon, StartPool, NewAdapter, NoAdapter,
                    AdapterStarted, StageInv, BuildStages
    <2>2. CASE UNCHANGED built
        BY <2>1, <2>2 DEF ServedInv
    <2>3. CASE NoAdapter
        <3>1. ctx' = 0
            BY <2>3 DEF NoAdapter, StageInv, vars, ownerVars
        <3> QED BY <3>1 DEF ServedInv
    <2>4. CASE AdapterStarted /\ hashpool' = "started"
        <3>1. running'
            BY <2>4 DEF AdapterStarted, Started, StageInv
        <3> QED BY <3>1 DEF ServedInv
    <2> QED BY <1>3, <2>2, <2>3, <2>4
            DEF New, NewHost, ConnectPeer, StartBeacon, StartPool, NewAdapter, AdapterStarted
<1>4. CASE Signal
    BY <1>1, <1>4 DEF Signal, OwnerCancel, vars, ownerVars, poolVars
<1>5. CASE StopAdapter \/ WaitAdapter
    <2>1. CASE StopAdapter /\ Stop(Main)
        BY <1>2, <2>1, MainAssumption DEF StopAdapter
    <2>2. CASE StopAdapter /\ UNCHANGED vars
        BY <1>1, <2>2 DEF StopAdapter, vars, ownerVars
    <2>3. CASE WaitAdapter
        BY <1>2, <2>3, MainAssumption DEF WaitAdapter
    <2> QED BY <1>5, <2>1, <2>2, <2>3 DEF StopAdapter
<1>6. CASE ClosePool
    BY <1>1, <1>6 DEF ClosePool, PoolClose, ownerVars
<1>7. CASE JoinPool \/ StopBeacon \/ CloseHost \/ LoopEnd
    BY <1>1, <1>7 DEF JoinPool, StopBeacon, CloseHost, LoopEnd, vars, ownerVars
<1>8. CASE LoopTake
    BY <1>1, <1>8 DEF LoopTake, PoolTake, nodeVars, ownerVars
<1>9. CASE Callback
    BY <1>1, <1>9 DEF Callback, handleCommitment, Handle, Ignore, Add, AddFail, Record,
                      SendError, Enter, DrainErr, nodeVars, ownerVars
<1>10. CASE UserStops
    BY <1>2, <1>10 DEF UserStops, nodeVars
<1>11. CASE Library
    <2>1. ~built'
        BY <1>11 DEF Library, nodeVars, StageInv
    <2> QED BY <2>1 DEF ServedInv
<1>12. CASE UNCHANGED <<vars, nodeVars>>
    BY <1>1, <1>12 DEF vars, ownerVars, nodeVars
<1> QED BY <1>3, <1>4, <1>5, <1>6, <1>7, <1>8, <1>9, <1>10, <1>11, <1>12 DEF NodeNext, Close

LEMMA OpenInvStep ==
    ASSUME StageInv, OpenInv, AdapterType, [NodeNext]_<<vars, nodeVars>>
    PROVE  OpenInv'
<1>1. ASSUME UNCHANGED <<running, ctx, cancelled, hashpool, owner, main, built>>
      PROVE  OpenInv'
    BY <1>1 DEF OpenInv, Stopping
<1>2. ASSUME UNCHANGED <<running, ctx, cancelled, hashpool, owner, built>>, main # "library",
             main' \notin {"library", "starting", "serving", "waitAdapter"},
             main \notin {"starting", "serving"}
      PROVE  OpenInv'
    BY <1>2 DEF OpenInv, Stopping
<1>3. CASE NewHost \/ ConnectPeer \/ StartBeacon \/ StartPool
    BY <1>2, <1>3 DEF NewHost, ConnectPeer, StartBeacon, StartPool, vars, ownerVars
<1>4. CASE NoAdapter
    <2>1. ctx = 0
        BY <1>4 DEF NoAdapter, StageInv
    <2> QED BY <1>4, <2>1 DEF NoAdapter, Serve, OpenInv, Stopping, vars, ownerVars
<1>5. CASE NewAdapter
    <2>1. CASE main' = "closePool" /\ UNCHANGED vars
        BY <1>2, <1>5, <2>1 DEF NewAdapter, vars, ownerVars
    <2>2. CASE main' = "starting" /\ Start(Main)
        <3>1. ctx = 0 /\ cancelled = {} /\ hashpool = "new"
            BY <1>5 DEF NewAdapter, StageInv, OpenInv
        <3>2. ctx' = 1 /\ running' /\ UNCHANGED <<cancelled, hashpool, built>>
            BY <1>5, <2>2, <3>1 DEF NewAdapter, Start
        <3> QED BY <2>2, <3>1, <3>2 DEF OpenInv
    <2> QED BY <1>5, <2>1, <2>2 DEF NewAdapter
<1>6. CASE AdapterStarted
    <2>1. main = "starting" /\ ctx > 0 /\ ctx \notin cancelled /\ running /\ ~built
        BY <1>6 DEF AdapterStarted, StageInv, OpenInv, BuildStages
    <2>2. UNCHANGED <<ctx, cancelled>>
        BY <1>6 DEF AdapterStarted, Started
    <2>3. CASE hashpool' = "started" /\ Serve
        <3>1. running'
            BY <1>6, <2>1, <2>3 DEF AdapterStarted, Started
        <3> QED BY <2>1, <2>2, <2>3, <3>1 DEF Serve, OpenInv
    <2>4. CASE hashpool' = "failed" /\ ~running' /\ AdapterFailed /\ UNCHANGED built
        BY <2>1, <2>2, <2>4 DEF AdapterFailed, OpenInv
    <2> QED BY <1>6, <2>3, <2>4 DEF AdapterStarted, Started
<1>7. CASE Signal
    <2>1. main = "serving" /\ main' = "stopAdapter" /\ built /\ hashpool # "failed"
        BY <1>7 DEF Signal, OpenInv
    <2>2. UNCHANGED <<running, ctx, hashpool, owner, built>>
        BY <1>7 DEF Signal, OwnerCancel, vars, ownerVars
    <2>3. CASE ctx = 0
        BY <1>7, <2>1, <2>2, <2>3 DEF Signal, OpenInv, OwnerCancel, Stopping, vars, ownerVars
    <2>4. CASE ctx # 0
        <3>1. ctx \in cancelled'
            BY <1>7, <2>4 DEF Signal, OwnerCancel, AdapterType, vars, ownerVars
        <3> QED BY <2>1, <2>2, <2>4, <3>1 DEF OpenInv
    <2> QED BY <2>3, <2>4
<1>8. ASSUME NEW o \in Owner, UNCHANGED built, main \notin {"library", "starting"},
             \/ Stop(o) /\ main' \in {main, "waitAdapter"}
             \/ HashpoolStopped(o) /\ main' = main /\ hashpool # "failed"
             \/ /\ Drained(o)
                /\ main' = main \/ (main = "waitAdapter" /\ main' = "closePool")
      PROVE  OpenInv'
    <2>1. ctx # 0 /\ UNCHANGED ctx
        BY <1>8 DEF Stop, HashpoolStopped, Drained, OpenInv, Stopping
    <2>2. CASE Stop(o)
        <3>1. running /\ ctx \in cancelled' /\ UNCHANGED hashpool
            BY <2>2 DEF Stop
        <3>2. owner'[o] = "stopping"
            BY <2>2 DEF Stop, AdapterType
        <3>3. hashpool # "failed"
            BY <1>8, <3>1 DEF OpenInv
        <3> QED BY <1>8, <2>1, <2>2, <3>1, <3>2, <3>3 DEF OpenInv, Drained, HashpoolStopped, Stop
    <2>3. CASE HashpoolStopped(o)
        <3>1. hashpool' = "stopped" /\ UNCHANGED <<running, cancelled>>
            BY <2>3 DEF HashpoolStopped
        <3>2. main' = main /\ hashpool # "failed"
            BY <1>8, <2>3 DEF Stop, Drained, HashpoolStopped
        <3> QED BY <1>8, <2>1, <3>1, <3>2 DEF OpenInv
    <2>4. CASE Drained(o)
        <3>1. UNCHANGED <<running, cancelled, hashpool>> /\ owner[o] = "draining"
            BY <2>4 DEF Drained
        <3>2. \A x \in Owner : owner[x] = "stopping" => owner'[x] = "stopping"
            BY <2>4, <3>1 DEF Drained, AdapterType
        <3>3. main' = main \/ (main = "waitAdapter" /\ main' = "closePool")
            BY <1>8, <2>4, <3>1 DEF Stop, HashpoolStopped
        <3> QED BY <1>8, <2>1, <3>1, <3>2, <3>3 DEF OpenInv
    <2> QED BY <1>8, <2>2, <2>3, <2>4
<1>9. CASE StopAdapter \/ WaitAdapter
    <2>1. CASE StopAdapter /\ ~running /\ UNCHANGED vars
        <3>1. main = "stopAdapter" /\ main' = "closePool" /\ UNCHANGED built
            BY <2>1 DEF StopAdapter, Stop
        <3>2. UNCHANGED <<running, ctx, cancelled, hashpool, owner>>
            BY <2>1 DEF vars, ownerVars
        <3> QED BY <1>2, <3>1, <3>2
    <2>2. CASE StopAdapter /\ Stop(Main)
        <3>1. main = "stopAdapter" /\ main' = "waitAdapter" /\ UNCHANGED built
            BY <2>2 DEF StopAdapter, Stop
        <3> QED BY <1>8, <2>2, <3>1, MainAssumption
    <2>3. CASE WaitAdapter
        BY <1>8, <2>3, MainAssumption DEF WaitAdapter, OpenInv
    <2> QED BY <1>9, <2>1, <2>2, <2>3 DEF StopAdapter
<1>10. CASE ClosePool \/ JoinPool \/ StopBeacon \/ CloseHost
    BY <1>2, <1>10 DEF ClosePool, PoolClose, JoinPool, StopBeacon, CloseHost, vars, ownerVars
<1>11. CASE LoopEnd \/ LoopTake \/ Callback
    BY <1>1, <1>11 DEF LoopEnd, LoopTake, PoolTake, Callback, handleCommitment, Handle, Ignore,
                       Add, AddFail, Record, SendError, Enter, DrainErr, vars, nodeVars, ownerVars
<1>12. CASE UserStops
    <2>1. main \notin {"library", "starting"} /\ hashpool # "failed"
        BY <1>12 DEF UserStops, StageInv, OpenInv, BuildStages
    <2> QED BY <1>8, <1>12, <2>1 DEF UserStops, nodeVars
<1>13. CASE Library
    BY <1>13 DEF Library, nodeVars, OpenInv
<1>14. CASE UNCHANGED <<vars, nodeVars>>
    BY <1>1, <1>14 DEF vars, ownerVars, nodeVars
<1> QED BY <1>3, <1>4, <1>5, <1>6, <1>7, <1>9, <1>10, <1>11, <1>12, <1>13, <1>14
        DEF NodeNext, New, Close

LEMMA NodeTypes == NodeSpec => []AdapterType
<1>1. Spec => []AdapterType
    BY AdapterTypeInit, AdapterTypeStep, PTL DEF Spec
<1> QED BY <1>1, NodeRunsAdapter, PTL

LEMMA NodeInvariant == NodeSpec => [](StageInv /\ ServedInv /\ OpenInv)
<1>1. NodeInit => StageInv /\ ServedInv /\ OpenInv
    BY StageInvInit
<1>2. AdapterType /\ StageInv /\ ServedInv /\ OpenInv /\ [NodeNext]_<<vars, nodeVars>>
         => (StageInv /\ ServedInv /\ OpenInv)'
    BY StageInvStep, ServedInvStep, OpenInvStep
<1> QED BY <1>1, <1>2, NodeTypes, PTL DEF NodeSpec

-----------------------------------------------------------------------------
(* The theorems                                                            *)

\* handleCommitment, Start and Stop: nothing is sent on a closed errCh, and
\* nobody closes it twice, whenever and by however many goroutines the adapter
\* of a program is stopped, if it is started once, as the node does.
THEOREM NeverPanics ==
    ASSUME MaxStarts = 1
    PROVE  NodeSpec => []NoPanic
<1>1. StopInv => NoPanic
    BY DEF StopInv, NoPanic
<1> QED BY <1>1, StopInvariant, NodeRunsAdapter, PTL

\* The adapter queues and reports nothing once Stop has closed errCh.
THEOREM QuietOnceStopped ==
    ASSUME MaxStarts = 1
    PROVE  NodeSpec => QuietAfterStop
<1>1. AdapterType /\ StopInv /\ [Next]_vars
         => [errClosed => chain' = chain /\ errs' <= errs]_<<chain, errs>>
    <2> SUFFICES ASSUME AdapterType, StopInv, [Next]_vars, errClosed
                 PROVE  chain' = chain /\ errs' <= errs
        OBVIOUS
    <2>0. errs \in Nat
        BY DEF AdapterType
    <2>1. ASSUME NEW c \in Commitment, handleCommitment(c)
          PROVE  UNCHANGED <<chain, errs>>
        <3>1. ~Counted(c)
            BY CountedBeforeClose
        <3>2. Handle(c) \/ Ignore(c)
            BY <2>1, <3>1 DEF handleCommitment, Counted
        <3> QED BY <3>2 DEF Handle, Ignore, Enter, poolVars
    <2>2. (\E o \in Owner :
               Start(o) \/ Started(o) \/ Stop(o) \/ HashpoolStopped(o) \/ Drained(o))
             => UNCHANGED <<chain, errs>>
        BY DEF Start, Started, Stop, HashpoolStopped, Drained, poolVars
    <2>3. PoolTake \/ PoolClose \/ OwnerCancel \/ UNCHANGED vars => UNCHANGED <<chain, errs>>
        BY DEF PoolTake, PoolClose, OwnerCancel, vars, poolVars
    <2>4. CASE DrainErr
        BY <2>0, <2>4 DEF DrainErr, poolVars
    <2> QED BY <2>0, <2>1, <2>2, <2>3, <2>4 DEF Next
<1>2. Spec => QuietAfterStop
    BY <1>1, StopInvariant, PTL DEF Spec, QuietAfterStop
<1> QED BY <1>2, NodeRunsAdapter, PTL

\* handleCommitment: whichever callbacks overlap or fail, and however often the
\* adapter is started and stopped, the parent of an event is queued before it.
THEOREM ParentsAlwaysQueuedFirst == NodeSpec => []ParentsQueuedFirst
<1>1. LinkInv => ParentsQueuedFirst
    BY DEF LinkInv
<1> QED BY <1>1, ChainInvariant, NodeRunsAdapter, PTL

\* handleCommitment: two events have the same parent only if their callbacks
\* overlapped; commitments that come one after the other are a chain.
THEOREM ForksNeedOverlap == NodeSpec => []ForksOnlyByOverlap
BY OverlapForks, ChainInvariant, NodeRunsAdapter, PTL

\* New and Close: whatever New had built when it failed, and whoever else was
\* stopping the adapter when Close was called, what is left open is the host of
\* a New that could not reach its peer and the hashpool node and context of one
\* whose hashpool did not start.
THEOREM NothingIsLeftOpen ==
    ASSUME MaxStarts = 1
    PROVE  NodeSpec => []NothingLeftOpen
<1>1. AdapterType /\ StopInv /\ StageInv /\ ServedInv /\ OpenInv => NothingLeftOpen
    <2> SUFFICES ASSUME AdapterType, StopInv, StageInv, ServedInv, OpenInv, Ended
                 PROVE  /\ host = "open" <=> main = "leaked"
                        /\ beacon # "running" /\ ~loop /\ ~running
                        /\ ctx > 0 /\ ctx \notin cancelled <=> hashpool = "failed"
                        /\ hashpool = "started" => \E o \in Owner : owner[o] = "stopping"
                        /\ InFlight # {} =>
                              \/ hashpool = "failed"
                              \/ \E o \in Owner : owner[o] \in {"stopping", "draining"}
        BY DEF NothingLeftOpen
    <2>1. (host = "open" <=> main = "leaked") /\ beacon # "running" /\ ~loop /\ ~running
        BY DEF StageInv, Ended, BuildStages, TearDownStages
    <2>2. main \notin {"library", "starting", "serving"}
        BY DEF Ended
    <2>3. ctx > 0 /\ ctx \notin cancelled <=> hashpool = "failed"
        BY <2>2 DEF OpenInv
    <2>4. hashpool = "started" => \E o \in Owner : owner[o] = "stopping"
        BY <2>1, <2>2 DEF OpenInv
    <2>5. ASSUME InFlight # {}, hashpool # "failed"
          PROVE  \E o \in Owner : owner[o] \in {"stopping", "draining"}
        <3>1. ctx > 0 /\ ~errClosed
            BY <2>5 DEF StopInv, AdapterType
        <3>2. built
            BY <2>2, <2>5, <3>1 DEF OpenInv
        <3>3. Stopping # {}
            BY <2>1, <3>1, <3>2 DEF ServedInv
        <3> QED BY <3>3 DEF Stopping
    <2> QED BY <2>1, <2>3, <2>4, <2>5
<1> QED BY <1>1, StopInvariant, NodeInvariant, NodeRunsAdapter, PTL

\* New and Close: no part is taken down before those that use it.
THEOREM TakenDownInOrder == NodeSpec => []TornDownInOrder
<1>1. StageInv => TornDownInOrder
    BY DEF StageInv, TornDownInOrder, BuildStages, TearDownStages
<1> QED BY <1>1, NodeInvariant, PTL

=============================================================================

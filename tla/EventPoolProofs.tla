-------------------------- MODULE EventPoolProofs --------------------------
(***************************************************************************)
(* EventPool for every number of callers and subscribers, every capacity   *)
(* and every configuration: its shutdown, its queue, its sub-events, what  *)
(* subscribers are told, its types, and the DAG it builds: an event graph  *)
(* that loses nothing, and a whole one while callers name what they know;  *)
(* and how long a turn of its loop takes.                                  *)
(***************************************************************************)
EXTENDS TimelineProofs

\* The channels are records, all of whose fields a step can name.
ChanShape ==
    /\ chan = [s \in Subscriber |-> chan[s]]
    /\ \A s \in Subscriber :
          chan[s] = [state |-> chan[s].state, sent |-> chan[s].sent,
                     read |-> chan[s].read, lost |-> chan[s].lost,
                     from |-> chan[s].from]

\* The inductive invariant of shutdown.  Whoever is in p.subscribers has an
\* open channel and nobody else has; Close goes forward one stage at a time;
\* errCh is closed only when the loop, its only sender, has gone.
ShutdownInv ==
    /\ ChanShape
    /\ subscribers \subseteq Subscriber
    /\ \A s \in Subscriber : chan[s].state = "open" <=> s \in subscribers
    /\ closer \in {"idle", "waiting", "closing", "returned"}
    /\ running <=> closer = "idle"
    /\ errClosed <=> closer \in {"closing", "returned"}
    /\ errClosed => runPC = "exited"
    /\ closer = "returned" => subscribers = {}
    /\ ~panicked

LEMMA InitShutdown == Init => ShutdownInv
BY DEF Init, ShutdownInv, ChanShape

USE DEF dagVars, runVars, beaconVars, closeVars, subVars, callVars

\* A step that leaves the channels, Close and the loop's exit alone.
LEMMA QuietStep ==
    ASSUME ShutdownInv, UNCHANGED <<subVars, running, closer, errClosed>>,
           runPC = "exited" => runPC' = "exited", ~panicked'
    PROVE  ShutdownInv'
BY DEF ShutdownInv, ChanShape

\* sendError is safe as long as the loop runs.
LEMMA SendErrorSafe ==
    ASSUME ShutdownInv, runPC # "exited", SendError
    PROVE  ~panicked'
BY DEF ShutdownInv, SendError

\* So is a notification: it goes to open channels only.
LEMMA NotifySafe ==
    ASSUME ShutdownInv, runPC # "exited", NEW id, NotifySubscribers(id), runPC' # "exited",
           UNCHANGED <<running, closer, errClosed>>
    PROVE  ShutdownInv'
<1>1. ~panicked'
    BY DEF ShutdownInv, NotifySubscribers
<1>2. \A s \in Subscriber : chan'[s].state = chan[s].state
    BY DEF ShutdownInv, ChanShape, NotifySubscribers
<1>3. ChanShape'
    BY DEF ShutdownInv, ChanShape, NotifySubscribers
<1>4. subscribers' = subscribers /\ ~errClosed
    BY DEF ShutdownInv, NotifySubscribers
<1> QED BY <1>1, <1>2, <1>3, <1>4 DEF ShutdownInv

\* Callers.
LEMMA CallShutdown ==
    ASSUME ShutdownInv, NEW c \in Caller, Call(c)
    PROVE  ShutdownInv'
BY QuietStep DEF Call, CallAdd, CallSend, CallRefused, CallAbandoned, ShutdownInv

\* Subscribers.
LEMMA SubscriptionShutdown ==
    ASSUME ShutdownInv, NEW s \in Subscriber, Subscription(s)
    PROVE  ShutdownInv'
<1>1. CASE Subscribe(s)
    <2>1. chan'[s].state = "open"
          /\ \A t \in Subscriber : t # s => chan'[t].state = chan[t].state
        BY <1>1 DEF Subscribe, ShutdownInv, ChanShape
    <2>2. ChanShape'
        BY <1>1 DEF Subscribe, ShutdownInv, ChanShape
    <2> QED BY <1>1, <2>1, <2>2 DEF Subscribe, ShutdownInv
<1>2. CASE Unsubscribe(s)
    <2>1. chan'[s].state = "closed"
          /\ \A t \in Subscriber : t # s => chan'[t].state = chan[t].state
        BY <1>2 DEF Unsubscribe, ShutdownInv, ChanShape
    <2>2. ChanShape'
        BY <1>2 DEF Unsubscribe, ShutdownInv, ChanShape
    <2> QED BY <1>2, <2>1, <2>2 DEF Unsubscribe, ShutdownInv
<1>3. CASE Receive(s)
    BY <1>3 DEF Receive, ShutdownInv, ChanShape
<1> QED BY <1>1, <1>2, <1>3 DEF Subscription

\* The run goroutine.
LEMMA RunShutdown ==
    ASSUME ShutdownInv, Run
    PROVE  ShutdownInv'
<1>1. CASE RunDone
    BY <1>1, QuietStep DEF RunDone, ShutdownInv
<1>2. CASE RunTake
    BY <1>2, QuietStep, SendErrorSafe DEF RunTake, ShutdownInv
<1>3. CASE RunNotify
    BY <1>3, NotifySafe DEF RunNotify
<1>4. CASE RunSub
    BY <1>4, QuietStep, SendErrorSafe DEF RunSub, ShutdownInv
<1>5. CASE RunSubNotify
    BY <1>5, NotifySafe DEF RunSubNotify
<1>6. CASE RunCount \/ RunFetchStart
    BY <1>6, QuietStep
    DEF RunCount, RunFetchStart, MainEventDone, NextIteration, ShutdownInv
<1>7. ASSUME NEW r, NEW n, AnchorWith(r, n), runPC # "exited"
      PROVE  ~panicked'
    BY <1>7, SendErrorSafe DEF AnchorWith, ShutdownInv
<1>8. CASE RunAnchor \/ RunAnchorClosed \/ RunFetch
    BY <1>7, <1>8, QuietStep
    DEF RunAnchor, RunAnchorClosed, RunFetch, MainEventDone, NextIteration, Feed!Take
<1>9. CASE RunVerify
    BY <1>9, QuietStep, SendErrorSafe DEF RunVerify
<1> QED BY <1>1, <1>2, <1>3, <1>4, <1>5, <1>6, <1>8, <1>9 DEF Run, RunBody

\* Close.
LEMMA CloseShutdown ==
    ASSUME ShutdownInv, Close
    PROVE  ShutdownInv'
<1>1. CASE CloseBegin
    BY <1>1 DEF CloseBegin, ShutdownInv, ChanShape
<1>2. CASE CloseErr
    BY <1>2 DEF CloseErr, ShutdownInv, ChanShape
<1>3. CASE CloseSubs
    <2>1. \A s \in Subscriber :
              chan'[s].state = IF s \in subscribers THEN "closed" ELSE chan[s].state
        BY <1>3 DEF CloseSubs, ShutdownInv, ChanShape
    <2>2. ChanShape'
        BY <1>3 DEF CloseSubs, ShutdownInv, ChanShape
    <2>3. ~panicked'
        BY <1>3 DEF CloseSubs, ShutdownInv
    <2>4. \A s \in Subscriber : chan'[s].state # "open"
        BY <2>1 DEF ShutdownInv
    <2>5. closer' = "returned" /\ subscribers' = {} /\ runPC' = runPC
          /\ running' = running /\ errClosed' = errClosed
        BY <1>3 DEF CloseSubs
    <2>6. ~running /\ errClosed /\ runPC = "exited"
        BY <1>3 DEF CloseSubs, ShutdownInv
    <2> QED BY <2>2, <2>3, <2>4, <2>5, <2>6 DEF ShutdownInv
<1> QED BY <1>1, <1>2, <1>3 DEF Close

\* The rest of the world.
LEMMA EnvironmentShutdown ==
    ASSUME ShutdownInv, Environment
    PROVE  ShutdownInv'
BY QuietStep
DEF Environment, ParentCancel, DrainErr, NewRound, BeaconSend, BeaconStop, ShutdownInv,
    Feed!Publish, Feed!Offer, Feed!Close

LEMMA NextShutdown == ShutdownInv /\ [Next]_vars => ShutdownInv'
<1>1. ASSUME ShutdownInv, UNCHANGED vars PROVE ShutdownInv'
    BY <1>1, QuietStep DEF vars, ShutdownInv
<1> QED
    BY <1>1, CallShutdown, SubscriptionShutdown, RunShutdown, CloseShutdown,
       EnvironmentShutdown DEF Next

\* ShutdownInv holds in every reachable state.
THEOREM ShutdownInvariance == Spec => []ShutdownInv
<1> QED BY InitShutdown, NextShutdown, PTL DEF Spec

\* No interleaving of Close, Unsubscribe and the loop sends on a closed channel
\* or closes one twice.
THEOREM NoPanics == Spec => []NoPanic
<1>1. ShutdownInv => NoPanic
    BY DEF ShutdownInv, NoPanic
<1> QED BY <1>1, ShutdownInvariance, PTL

\* When Close has returned, the loop has stopped and every channel is closed.
THEOREM ClosingIsComplete == Spec => []CloseComplete
<1>1. ShutdownInv => CloseComplete
    BY DEF ShutdownInv, CloseComplete
<1> QED BY <1>1, ShutdownInvariance, PTL

-----------------------------------------------------------------------------
(* The queue                                                               *)

\* A content ID is a hash and never the empty string.
CIDsNamed ==
    \A type, parentID, parents, data : ContentID(type, parentID, parents, data) # NoID

\* An event as AddEvent builds it.
Built(e) == e.id # NoID /\ e.type = "MainEvent" /\ e.id.type = "MainEvent"

\* Event p is in the DAG or the queue.
Queued(p) == p \in DOMAIN dag \/ \E j \in DOMAIN eventCh : eventCh[j].id = p

\* Event p is in the DAG when the i-th queued event is taken.
Ahead(i, p) == p \in DOMAIN dag \/ \E j \in DOMAIN eventCh : j < i /\ eventCh[j].id = p

\* What callers are about to queue and what is queued is built by AddEvent.
CallsInv ==
    /\ IsSeq(eventCh)
    /\ pending = [c \in Caller |-> pending[c]]
    /\ \A c \in Caller : pending[c] = NoEvent \/ Built(pending[c])
    /\ \A i \in DOMAIN eventCh : Built(eventCh[i])

\* An ID is returned once its event is queued, so whatever refers to it is
\* queued behind it.
QueueInv ==
    /\ \A p \in returned : Queued(p)
    /\ \A c \in Caller : Refs(pending[c]) \subseteq returned \cup DOMAIN dag
    /\ \A i \in DOMAIN eventCh : \A p \in Refs(eventCh[i]) : Ahead(i, p)

LEMMA BoundedRange ==
    ASSUME NEW S, NEW n, NEW s \in BoundedSeq(S, n)
    PROVE  ToSet(s) \subseteq S
BY DEF BoundedSeq, SeqOf, ToSet

LEMMA NoRefs == Refs(NoEvent) = {} /\ NoEvent.id = NoID
BY DEF Refs, NoEvent, ToSet

LEMMA NewEventBuilt ==
    ASSUME CIDsNamed, NEW data, NEW parents
    PROVE  LET e == NewEvent("MainEvent", NoID, parents, data)
           IN  Built(e) /\ Refs(e) = ToSet(parents)
BY DEF CIDsNamed, Built, NewEvent, ContentID, Refs

LEMMA InitQueue == Init => CallsInv /\ QueueInv
<1> SUFFICES ASSUME Init PROVE CallsInv /\ QueueInv
    OBVIOUS
<1>1. IsSeq(<< >>) /\ DOMAIN << >> = {}
    BY DEF IsSeq
<1> QED BY <1>1, NoRefs DEF Init, CallsInv, QueueInv

\* Whatever the loop does besides taking an event, the DAG loses nothing.
LEMMA DagGrows ==
    ASSUME CallsInv, UNCHANGED <<eventCh, callVars>>
    PROVE  /\ CallsInv'
           /\ QueueInv /\ DOMAIN dag \subseteq DOMAIN dag' => QueueInv'
BY DEF CallsInv, QueueInv, Queued, Ahead

LEMMA CallQueue ==
    ASSUME CIDsNamed, CallsInv, NEW c \in Caller, Call(c)
    PROVE  CallsInv' /\ (Foreign = {} /\ QueueInv => QueueInv')
<1>1. CASE CallAdd(c)
    <2>1. PICK data \in Data, parents \in BoundedSeq(Nameable, MaxParents) :
              pending' = [pending EXCEPT ![c] = NewEvent("MainEvent", NoID, parents, data)]
        BY <1>1 DEF CallAdd
    <2>2. Built(NewEvent("MainEvent", NoID, parents, data))
          /\ Refs(NewEvent("MainEvent", NoID, parents, data)) \subseteq Nameable
        BY NewEventBuilt, BoundedRange
    <2>3. UNCHANGED <<dag, eventCh, returned>>
        BY <1>1 DEF CallAdd
    <2>4. CallsInv'
        BY <2>1, <2>2, <2>3 DEF CallsInv
    <2>5. Foreign = {} /\ QueueInv => QueueInv'
        BY <2>1, <2>2, <2>3 DEF CallsInv, QueueInv, Queued, Ahead, Nameable
    <2> QED BY <2>4, <2>5
<1>2. CASE CallSend(c)
    <2> DEFINE e == pending[c]
               n == Len(eventCh)
    <2>0. n \in Nat /\ DOMAIN eventCh = 1 .. n
        BY SeqDomain DEF CallsInv
    <2>1. /\ pending' = [pending EXCEPT ![c] = NoEvent]
          /\ eventCh' = Append(eventCh, e) /\ returned' = returned \cup {e.id}
          /\ dag' = dag /\ Built(e)
        BY <1>2 DEF CallSend, CallsInv
    <2>2. /\ IsSeq(eventCh') /\ Len(eventCh') = n + 1
          /\ \A i \in 1 .. n : eventCh'[i] = eventCh[i]
          /\ eventCh'[n + 1] = e
        BY <2>1, AppendSeq DEF CallsInv
    <2>3. DOMAIN eventCh' = 1 .. n + 1
        BY <2>2, SeqDomain
    <2>4. CallsInv'
        BY <2>0, <2>1, <2>2, <2>3 DEF CallsInv
    <2>5. \A i \in 1 .. n + 1 : \A p : Ahead(i, p) => Ahead(i, p)'
        BY <2>0, <2>1, <2>2, <2>3 DEF Ahead
    <2>6. ASSUME NEW p, p = e.id \/ Queued(p) PROVE Queued(p)'
        BY <2>0, <2>1, <2>2, <2>3, <2>6 DEF Queued
    <2>7. ASSUME QueueInv PROVE QueueInv'
        <3>1. (\A p \in returned : Queued(p))'
            BY <2>1, <2>6, <2>7 DEF QueueInv
        <3>2. \A d \in Caller : Refs(pending'[d]) \subseteq returned' \cup DOMAIN dag'
            BY <2>1, <2>7, NoRefs DEF QueueInv, CallsInv
        <3>3. \A p \in Refs(e) : Ahead(n + 1, p)
            BY <2>0, <2>7 DEF QueueInv, Queued, Ahead
        <3>4. ASSUME NEW i \in 1 .. n + 1, NEW p \in Refs(eventCh'[i]) PROVE Ahead(i, p)'
            <4>1. Ahead(i, p)
                BY <2>0, <2>2, <2>7, <3>3 DEF QueueInv
            <4> QED BY <2>5, <4>1
        <3> QED BY <2>3, <3>1, <3>2, <3>4 DEF QueueInv
    <2> QED BY <2>4, <2>7
<1>3. CASE CallRefused(c) \/ CallAbandoned(c)
    <2>1. UNCHANGED <<dag, eventCh, returned>> /\ pending' = [pending EXCEPT ![c] = NoEvent]
        BY <1>3 DEF CallRefused, CallAbandoned
    <2>2. CallsInv'
        BY <2>1 DEF CallsInv
    <2>3. QueueInv => QueueInv'
        BY <2>1, NoRefs DEF CallsInv, QueueInv, Queued, Ahead
    <2> QED BY <2>2, <2>3
<1> QED BY <1>1, <1>2, <1>3 DEF Call

LEMMA TakeQueue ==
    ASSUME CallsInv, RunTake
    PROVE  CallsInv' /\ (QueueInv => QueueInv')
<1> DEFINE e == Head(eventCh)
           n == Len(eventCh)
<1>0. n \in Nat /\ DOMAIN eventCh = 1 .. n /\ IsSeq(eventCh)
    BY SeqDomain DEF CallsInv
<1>1. eventCh # << >> /\ eventCh' = Tail(eventCh) /\ dag' = AfterAdd(dag, e)
      /\ UNCHANGED callVars
    BY DEF RunTake
<1>2. /\ IsSeq(eventCh') /\ e = eventCh[1] /\ 1 \in DOMAIN eventCh
      /\ \A i \in DOMAIN eventCh' : i + 1 \in DOMAIN eventCh /\ eventCh'[i] = eventCh[i + 1]
    BY <1>0, <1>1, TailSeq
<1>3. DOMAIN eventCh' = 1 .. n - 1 /\ Len(eventCh') = n - 1
    <2>1. PICK S : eventCh \in Seq(S)
        BY <1>0 DEF IsSeq
    <2>2. Len(eventCh') = n - 1
        BY <1>1, <2>1
    <2> QED BY <1>2, <2>2, SeqDomain
<1>4. CallsInv'
    BY <1>1, <1>2 DEF CallsInv
<1>5. ASSUME QueueInv PROVE QueueInv'
    <2>1. Refs(e) \subseteq DOMAIN dag /\ Built(e)
        BY <1>0, <1>2, <1>5 DEF QueueInv, Ahead, CallsInv
    <2>2. DOMAIN dag' = DOMAIN dag \cup {e.id}
        <3>1. e.id \in DOMAIN dag \/ Accepts(dag, e)
            BY <2>1 DEF Accepts, Admissible, Built, Refs
        <3> QED BY <1>1, <3>1, AfterAddDomain
    <2>3. ASSUME NEW i \in 1 .. n, NEW p, Ahead(i + 1, p) PROVE Ahead(i, p)'
        <3>1. CASE p \in DOMAIN dag
            BY <2>2, <3>1 DEF Ahead
        <3>2. CASE \E j \in DOMAIN eventCh : j < i + 1 /\ eventCh[j].id = p
            <4>1. PICK j \in 1 .. n : j < i + 1 /\ eventCh[j].id = p
                BY <1>0, <3>2
            <4>2. CASE j = 1
                BY <1>2, <2>2, <4>1, <4>2 DEF Ahead
            <4>3. CASE j # 1
                <5>1. j - 1 \in DOMAIN eventCh' /\ j - 1 < i /\ (j - 1) + 1 = j
                    BY <1>0, <1>3, <4>1, <4>3
                <5>2. eventCh'[j - 1] = eventCh[j]
                    BY <1>2, <5>1
                <5> QED BY <4>1, <5>1, <5>2 DEF Ahead
            <4> QED BY <4>2, <4>3
        <3> QED BY <2>3, <3>1, <3>2 DEF Ahead
    <2>4. (\A p \in returned : Queued(p))'
        <3>1. ASSUME NEW p \in returned' PROVE Queued(p)'
            <4>n. n \in 1 .. n
                BY <1>0, <1>2
            <4>0. PICK k \in 1 .. n : k = n
                BY <4>n, Zenon
            <4>1. Ahead(k + 1, p)
                BY <1>0, <1>1, <1>5, <3>1, <4>0 DEF QueueInv, Queued, Ahead
            <4>2. Ahead(k, p)'
                BY <2>3, <4>1
            <4> QED BY <4>2 DEF Ahead, Queued
        <3> QED BY <3>1
    <2>5. \A c \in Caller : Refs(pending'[c]) \subseteq returned' \cup DOMAIN dag'
        BY <1>1, <1>5, <2>2 DEF QueueInv
    <2>6. ASSUME NEW i \in DOMAIN eventCh', NEW p \in Refs(eventCh'[i]) PROVE Ahead(i, p)'
        <3>1. i \in 1 .. n /\ eventCh'[i] = eventCh[i + 1] /\ i + 1 \in DOMAIN eventCh
            BY <1>0, <1>2, <1>3
        <3>2. Ahead(i + 1, p)
            BY <1>5, <3>1 DEF QueueInv
        <3> QED BY <2>3, <3>1, <3>2
    <2> QED BY <2>4, <2>5, <2>6 DEF QueueInv
<1> QED BY <1>4, <1>5

\* No step but RunTake shortens the queue, and none shortens the DAG.
LEMMA OtherQueue ==
    ASSUME CallsInv, [Next]_vars, ~RunTake, \A c \in Caller : ~Call(c)
    PROVE  CallsInv' /\ (QueueInv => QueueInv')
<1>1. UNCHANGED <<eventCh, callVars>>
    BY DEF Next, vars, Subscription, Subscribe, Unsubscribe, Receive, Run, RunDone, RunBody,
       RunNotify, RunSub, RunSubNotify, RunCount, RunAnchor, RunAnchorClosed,
       RunFetchStart, RunFetch, RunVerify, Close, CloseBegin, CloseErr, CloseSubs,
       Environment, ParentCancel, DrainErr, NewRound, BeaconSend, BeaconStop
<1>2. DOMAIN dag \subseteq DOMAIN dag'
    <2>1. ASSUME NEW r, NEW n, AnchorWith(r, n) PROVE DOMAIN dag' = DOMAIN dag
        BY <2>1 DEF AnchorWith
    <2>2. CASE RunAnchor \/ RunAnchorClosed \/ RunFetch
        BY <2>1, <2>2 DEF RunAnchor, RunAnchorClosed, RunFetch
    <2>3. CASE RunSub
        BY <2>3, AfterAddDomain DEF RunSub
    <2> QED
        BY <2>2, <2>3
        DEF Next, vars, Subscription, Subscribe, Unsubscribe, Receive, Run, RunDone, RunBody,
            RunNotify, RunSubNotify, RunCount,
            RunFetchStart, RunVerify, Close, CloseBegin, CloseErr, CloseSubs,
            Environment, ParentCancel, DrainErr, NewRound, BeaconSend, BeaconStop
<1> QED BY <1>1, <1>2, DagGrows

LEMMA NextQueue ==
    ASSUME CIDsNamed
    PROVE  /\ CallsInv /\ [Next]_vars => CallsInv'
           /\ Foreign = {} /\ CallsInv /\ QueueInv /\ [Next]_vars => QueueInv'
BY CallQueue, TakeQueue, OtherQueue

\* While callers name only IDs they were handed or saw, whatever is queued refers to
\* stored events or to what is queued ahead of it.
THEOREM QueuedParentsAlwaysReady ==
    ASSUME CIDsNamed
    PROVE  Spec => []QueuedParentsReady
<1>1. CASE Foreign = {}
    <2>1. Init => CallsInv /\ QueueInv
        BY InitQueue
    <2>2. CallsInv /\ QueueInv /\ [Next]_vars => (CallsInv /\ QueueInv)'
        BY <1>1, NextQueue
    <2>3. CallsInv /\ QueueInv => QueuedParentsReady
        <3> SUFFICES ASSUME CallsInv, QueueInv, NEW i \in DOMAIN eventCh, NEW p \in Refs(eventCh[i])
                     PROVE  p \in DOMAIN dag \cup {eventCh[j].id : j \in 1 .. i - 1}
            BY DEF QueuedParentsReady
        <3>1. Ahead(i, p)
            BY DEF QueueInv
        <3>2. DOMAIN eventCh = 1 .. Len(eventCh) /\ Len(eventCh) \in Nat
            BY SeqDomain DEF CallsInv
        <3> QED BY <3>1, <3>2 DEF Ahead
    <2> QED BY <2>1, <2>2, <2>3, PTL DEF Spec
<1>2. CASE Foreign # {}
    <2>1. QueuedParentsReady
        BY <1>2 DEF QueuedParentsReady
    <2> QED BY <2>1, PTL
<1> QED BY <1>1, <1>2

-----------------------------------------------------------------------------
(* Sub-events                                                              *)

\* The sub-events of the loop's event have numbers below n.
SpawnedBelow(n) ==
    \A id \in DOMAIN dag :
        id.type = "SubEvent" /\ id.parentID = cur.id => id.data < n

\* The IDs of sub-events name a stored event and a number; those of the loop's
\* event are numbered as far as the loop has come.  Recent events are stored.
SpawnInv ==
    /\ \A id \in DOMAIN dag :
          id.type = "SubEvent" => id.parentID \in DOMAIN dag /\ id.data \in Nat
    /\ IsSeq(recent) /\ ToSet(recent) \subseteq DOMAIN dag /\ Len(recent) <= MaxRecent
    /\ subNo \in Nat
    /\ InHand => cur.id \in DOMAIN dag
    /\ runPC = "subNotify" => sub.id \in DOMAIN dag
    /\ runPC = "notify" => SpawnedBelow(0)
    /\ runPC = "sub" => SpawnedBelow(subNo)
    /\ runPC = "subNotify" => SpawnedBelow(subNo + 1)

LEMMA InitSpawn == Init => SpawnInv
<1> SUFFICES ASSUME Init PROVE SpawnInv
    OBVIOUS
<1>1. IsSeq(<< >>) /\ ToSet(<< >>) = {} /\ Len(<< >>) = 0
    BY DEF IsSeq, ToSet
<1>2. 0 <= MaxRecent
    BY PoolAssumption
<1> QED BY <1>1, <1>2 DEF Init, SpawnInv, EmptyStore, InHand

\* addRecentEvent keeps the last MaxRecent events.
LEMMA RecentKeeps ==
    ASSUME NEW id, IsSeq(recent), Len(recent) <= MaxRecent
    PROVE  /\ IsSeq(Recent(id)) /\ Len(Recent(id)) <= MaxRecent
           /\ ToSet(Recent(id)) \subseteq ToSet(recent) \cup {id}
<1> DEFINE longer == Append(recent, id)
<1>1. PICK S : recent \in Seq(S)
    BY DEF IsSeq
<1>2. recent \in Seq(S \cup {id}) /\ longer \in Seq(S \cup {id})
    BY <1>1
<1>3. Len(longer) = Len(recent) + 1 /\ Len(recent) \in Nat /\ MaxRecent \in Nat
    BY <1>1, PoolAssumption
<1>4. ToSet(longer) \subseteq ToSet(recent) \cup {id}
    <2>1. \A i \in 1 .. Len(recent) : longer[i] = recent[i]
        BY <1>1
    <2>2. longer[Len(recent) + 1] = id
        BY <1>1
    <2>3. DOMAIN longer = 1 .. Len(recent) + 1 /\ DOMAIN recent = 1 .. Len(recent)
        BY <1>2, <1>3
    <2> QED BY <1>3, <2>1, <2>2, <2>3 DEF ToSet
<1>5. CASE Len(longer) > MaxRecent
    <2>1. longer # << >>
        BY <1>2, <1>3
    <2>2. IsSeq(longer)
        BY <1>2 DEF IsSeq
    <2>3. Tail(longer) \in Seq(S \cup {id}) /\ Len(Tail(longer)) = Len(recent)
        BY <1>2, <1>3, <2>1
    <2>4. \A i \in DOMAIN Tail(longer) :
              i + 1 \in DOMAIN longer /\ Tail(longer)[i] = longer[i + 1]
        BY <2>1, <2>2, TailSeq
    <2>5. ToSet(Tail(longer)) \subseteq ToSet(longer)
        BY <2>4 DEF ToSet
    <2> HIDE DEF longer
    <2>6. Recent(id) = Tail(longer)
        BY <1>5 DEF Recent, longer
    <2> QED BY <1>4, <2>3, <2>5, <2>6 DEF IsSeq
<1>6. CASE ~(Len(longer) > MaxRecent)
    <2> HIDE DEF longer
    <2>1. Recent(id) = longer
        BY <1>6 DEF Recent, longer
    <2> QED BY <1>2, <1>3, <1>4, <1>6, <2>1 DEF IsSeq
<1> QED BY <1>5, <1>6

\* Steps outside the loop, and those of the loop that store and note nothing.
LEMMA SameSpawn ==
    ASSUME SpawnInv, DOMAIN dag' = DOMAIN dag, UNCHANGED <<recent, sub>>,
           \/ UNCHANGED <<runPC, cur, subNo>>
           \/ runPC' \in {"select", "exited"} /\ subNo' \in {0, subNo}
           \/ runPC' = "fetch" /\ runPC = "sub" /\ UNCHANGED <<cur, subNo>>
    PROVE  SpawnInv'
BY DEF SpawnInv, SpawnedBelow, InHand

LEMMA TakeSpawn ==
    ASSUME CallsInv, SpawnInv, RunTake
    PROVE  SpawnInv'
<1> DEFINE e == Head(eventCh)
<1>1. Built(e)
    BY TailSeq DEF CallsInv, RunTake
<1>2. dag' = AfterAdd(dag, e) /\ UNCHANGED <<recent, sub, subNo>>
    BY DEF RunTake
<1>3. CASE Accepts(dag, e)
    <2>1. DOMAIN dag' = DOMAIN dag \cup {e.id} /\ e.id \notin DOMAIN dag
        BY <1>2, <1>3, AfterAddDomain DEF Accepts, Admissible
    <2>2. cur' = e /\ runPC' = "notify"
        BY <1>3 DEF RunTake
    <2>3. SpawnedBelow(0)'
        BY <1>1, <2>1, <2>2 DEF SpawnInv, SpawnedBelow, Built
    <2> QED BY <1>1, <1>2, <2>1, <2>2, <2>3 DEF SpawnInv, Built, InHand
<1>4. CASE ~Accepts(dag, e)
    <2>1. DOMAIN dag' = DOMAIN dag
        BY <1>2, <1>4, AfterAddDomain
    <2>2. UNCHANGED <<runPC, cur>>
        BY <1>4 DEF RunTake
    <2> QED BY <1>2, <2>1, <2>2, SameSpawn
<1> QED BY <1>3, <1>4

LEMMA SubSpawn ==
    ASSUME SpawnInv, RunSub
    PROVE  SpawnInv'
<1>1. PICK parents \in SubParents :
          LET e == SubEventOf(cur.id, subNo, parents)
          IN  /\ dag' = AfterAdd(dag, e)
              /\ IF Accepts(dag, e)
                 THEN sub' = e /\ runPC' = "subNotify" /\ subNo' = subNo
                 ELSE subNo' = subNo + 1 /\ UNCHANGED <<sub, runPC>>
    BY DEF RunSub
<1> DEFINE e == SubEventOf(cur.id, subNo, parents)
<1>2. UNCHANGED <<recent, cur>> /\ runPC = "sub" /\ subNo \in Nat
      /\ cur.id \in DOMAIN dag /\ SpawnedBelow(subNo)
    BY DEF RunSub, SpawnInv, InHand
<1>3. e.id.type = "SubEvent" /\ e.id.parentID = cur.id /\ e.id.data = subNo
    BY DEF SubEventOf, NewEvent, ContentID
<1> HIDE DEF e
<1>4. CASE Accepts(dag, e)
    <2>1. DOMAIN dag' = DOMAIN dag \cup {e.id}
        BY <1>1, <1>4, AfterAddDomain DEF e
    <2>2. sub' = e /\ runPC' = "subNotify" /\ subNo' = subNo
        BY <1>1, <1>4 DEF e
    <2>3. SpawnedBelow(subNo + 1)'
        BY <1>2, <1>3, <2>1, <2>2 DEF SpawnInv, SpawnedBelow
    <2> QED BY <1>2, <1>3, <2>1, <2>2, <2>3 DEF SpawnInv, InHand
<1>5. CASE ~Accepts(dag, e)
    <2>1. DOMAIN dag' = DOMAIN dag
        BY <1>1, <1>5, AfterAddDomain DEF e
    <2>2. UNCHANGED <<sub, runPC>> /\ subNo' = subNo + 1
        BY <1>1, <1>5 DEF e
    <2>3. SpawnedBelow(subNo)'
        BY <1>2, <2>1, <2>2 DEF SpawnInv, SpawnedBelow
    <2> QED BY <1>2, <2>1, <2>2, <2>3 DEF SpawnInv, InHand
<1> QED BY <1>4, <1>5

LEMMA NotifySpawn ==
    ASSUME SpawnInv, RunNotify \/ RunSubNotify
    PROVE  SpawnInv'
<1>1. UNCHANGED <<dag, cur>> /\ runPC' = "sub"
    BY DEF RunNotify, RunSubNotify
<1>2. SpawnedBelow(subNo)' /\ subNo' \in Nat
    BY <1>1 DEF RunNotify, RunSubNotify, SpawnInv, SpawnedBelow
<1>3. \E id \in DOMAIN dag : recent' = Recent(id)
    BY DEF RunNotify, RunSubNotify, SpawnInv, InHand
<1>4. IsSeq(recent') /\ ToSet(recent') \subseteq DOMAIN dag /\ Len(recent') <= MaxRecent
    BY <1>3, RecentKeeps DEF SpawnInv
<1>5. cur.id \in DOMAIN dag
    BY DEF RunNotify, RunSubNotify, SpawnInv, InHand
<1> QED BY <1>1, <1>2, <1>4, <1>5 DEF SpawnInv, InHand

LEMMA NextSpawn ==
    ASSUME CallsInv, SpawnInv, [Next]_vars
    PROVE  SpawnInv'
<1>1. ASSUME NEW r, NEW n, AnchorWith(r, n) PROVE DOMAIN dag' = DOMAIN dag
    BY <1>1 DEF AnchorWith
<1>2. CASE RunAnchor \/ RunAnchorClosed \/ RunFetch
    BY <1>1, <1>2, SameSpawn DEF RunAnchor, RunAnchorClosed, RunFetch, NextIteration
<1>3. CASE RunDone \/ RunCount \/ RunFetchStart \/ RunVerify
    BY <1>3, SameSpawn
    DEF RunDone, RunCount, RunFetchStart, RunVerify, NextIteration, MainEventDone
<1>4. CASE ~Run
    <2>1. UNCHANGED <<dag, runVars>>
        BY <1>4
        DEF Next, vars, Call, CallAdd, CallSend, CallRefused, CallAbandoned, Subscription,
            Subscribe, Unsubscribe, Receive, Close, CloseBegin, CloseErr, CloseSubs,
            Environment, ParentCancel, DrainErr, NewRound, BeaconSend, BeaconStop
    <2> QED BY <2>1, SameSpawn
<1> QED
    BY <1>2, <1>3, <1>4, TakeSpawn, SubSpawn, NotifySpawn DEF Run, RunBody

\* The next sub-event is new to the DAG: its ID holds its number and the ID of an
\* event whose sub-events are numbered once.
LEMMA NextSubAccepted ==
    ASSUME CIDsNamed, SpawnInv, runPC = "sub", NEW n \in Nat, subNo <= n,
           NEW parents \in SubParents
    PROVE  Accepts(dag, SubEventOf(cur.id, n, parents))
<1> DEFINE e == SubEventOf(cur.id, n, parents)
<1>1. /\ e.id.type = "SubEvent" /\ e.id.parentID = cur.id /\ e.id.data = n /\ e.id # NoID
      /\ e.type = "SubEvent" /\ e.parentID = cur.id /\ e.parents = parents
    BY DEF SubEventOf, NewEvent, ContentID, CIDsNamed
<1>2. ToSet(parents) \subseteq DOMAIN dag
    BY BoundedRange DEF SubParents, SpawnInv
<1>3. SpawnedBelow(subNo) /\ cur.id \in DOMAIN dag /\ subNo \in Nat
    BY DEF SpawnInv, InHand
<1> HIDE DEF e
<1>4. e.id \notin DOMAIN dag
    <2>1. ~(n < subNo)
        BY <1>3
    <2> QED BY <1>1, <1>3, <2>1 DEF SpawnedBelow
<1>5. Accepts(dag, e)
    BY <1>1, <1>2, <1>3, <1>4 DEF Accepts, Admissible
<1> QED BY <1>5 DEF e

\* No sub-event the loop could create is refused.
THEOREM SubEventsAlwaysAccepted ==
    ASSUME CIDsNamed
    PROVE  Spec => []SubEventsAccepted
<1>1. Init => CallsInv /\ SpawnInv
    BY InitQueue, InitSpawn
<1>2. CallsInv /\ SpawnInv /\ [Next]_vars => (CallsInv /\ SpawnInv)'
    BY NextQueue, NextSpawn
<1>3. SpawnInv => SubEventsAccepted
    <2> SUFFICES ASSUME SpawnInv, runPC = "sub", NEW n \in subNo .. numSubs - 1,
                        NEW parents \in SubParents
                 PROVE  Accepts(dag, SubEventOf(cur.id, n, parents))
        BY DEF SubEventsAccepted
    <2>1. n \in Nat /\ subNo <= n
        BY DEF SpawnInv
    <2> QED BY <2>1, NextSubAccepted
<1> QED BY <1>1, <1>2, <1>3, PTL DEF Spec

-----------------------------------------------------------------------------
(* What subscribers are told                                               *)

\* How many events of the log a channel has been told of.
Told(c) == Len(c.sent) + c.lost

\* What c holds are events of log l after the first c.from, in their order.
InOrder(c, l) ==
    \E at \in [DOMAIN c.sent -> 1 .. Told(c)] :
        /\ \A i, j \in DOMAIN c.sent : i < j => at[i] < at[j]
        /\ \A i \in DOMAIN c.sent : c.sent[i] = l[c.from + at[i]].id

\* What channel c has been told when n events of log l have been notified:
\* those after the first c.from, in their order, and all of them but the lost
\* ones.
Delivery(c, l, n) ==
    /\ IsSeq(c.sent) /\ c.lost \in Nat /\ c.from \in Nat
    /\ c.read \in 0 .. Len(c.sent) /\ Len(c.sent) - c.read <= SubBuf
    /\ c.state \in {"none", "open", "closed"}
    /\ c.state = "none" => c.sent = << >> /\ c.lost = 0 /\ c.read = 0
    /\ c.from + Told(c) <= n
    /\ c.state = "open" => c.from + Told(c) = n
    /\ c.lost = 0 => \A i \in DOMAIN c.sent : c.sent[i] = l[c.from + i].id
    /\ InOrder(c, l)

\* The event that is to be notified is the last of the log.
LastInv ==
    /\ runPC = "notify" => Len(log) > 0 /\ log[Len(log)].id = cur.id
    /\ runPC = "subNotify" => Len(log) > 0 /\ log[Len(log)].id = sub.id

DeliveryInv ==
    /\ LastInv
    /\ \A s \in Subscriber : Delivery(chan[s], log, Notified)

LEMMA InitDelivery == Init => DeliveryInv
<1> SUFFICES ASSUME Init PROVE DeliveryInv
    OBVIOUS
<1>1. IsSeq(<< >>) /\ DOMAIN << >> = {} /\ Len(<< >>) = 0
    BY DEF IsSeq
<1>2. Notified = 0 /\ LastInv
    BY <1>1 DEF Init, Notified, LastInv
<1>3. ASSUME NEW s \in Subscriber PROVE Delivery(chan[s], log, 0)
    <2> DEFINE c == chan[s]
    <2>1. /\ c.state = "none" /\ c.sent = << >>
          /\ c.read = 0 /\ c.lost = 0 /\ c.from = 0
        BY DEF Init
    <2> HIDE DEF c
    <2>2. SubBuf \in Nat /\ Told(c) = 0
        BY <1>1, <2>1, PoolAssumption DEF Told
    <2>3. PICK at : at = [i \in {} |-> 1]
        OBVIOUS
    <2>4. at \in [DOMAIN c.sent -> 1 .. Told(c)]
        BY <1>1, <2>1, <2>3
    <2>5. /\ \A i \in DOMAIN c.sent : at[i] = 1 /\ c.sent[i] = log[c.from + at[i]].id
          /\ \A i, j \in DOMAIN c.sent : i < j => at[i] < at[j]
        BY <1>1, <2>1
    <2>6. InOrder(c, log)
        BY <2>4, <2>5 DEF InOrder
    <2>7. Delivery(c, log, 0)
        BY <1>1, <2>1, <2>2, <2>6 DEF Delivery
    <2> QED BY <2>7 DEF c
<1> QED BY <1>2, <1>3 DEF DeliveryInv

\* The numbers of a channel.
LEMMA DeliveryCounts ==
    ASSUME NEW c, NEW l, NEW n, Delivery(c, l, n)
    PROVE  /\ Len(c.sent) \in Nat /\ DOMAIN c.sent = 1 .. Len(c.sent)
           /\ c.lost \in Nat /\ c.from \in Nat /\ c.read \in Nat /\ SubBuf \in Nat
           /\ Told(c) = Len(c.sent) + c.lost /\ Told(c) \in Nat
           /\ c.from + Told(c) <= n
           /\ c.state = "open" => c.from + Told(c) = n
<1>1. IsSeq(c.sent) /\ c.lost \in Nat /\ c.from \in Nat /\ c.read \in 0 .. Len(c.sent)
    BY DEF Delivery
<1>2. Len(c.sent) \in Nat /\ DOMAIN c.sent = 1 .. Len(c.sent)
    BY <1>1, SeqDomain
<1>3. c.from + Told(c) <= n /\ (c.state = "open" => c.from + Told(c) = n)
    BY DEF Delivery
<1>4. SubBuf \in Nat
    BY PoolAssumption
<1>5. Told(c) = Len(c.sent) + c.lost
    BY DEF Told
<1> QED BY <1>1, <1>2, <1>3, <1>4, <1>5

\* A log that only grew tells the same, and a channel that is not open need
\* not be told more.
LEMMA DeliveryLater ==
    ASSUME NEW c, NEW l, NEW m, NEW n \in Nat, NEW k \in Nat, n <= k,
           Delivery(c, l, n), c.state = "open" => n = k,
           \A i \in 1 .. n : m[i] = l[i]
    PROVE  Delivery(c, m, k)
<1>1. /\ Len(c.sent) \in Nat /\ DOMAIN c.sent = 1 .. Len(c.sent)
      /\ c.lost \in Nat /\ c.from \in Nat /\ Told(c) = Len(c.sent) + c.lost
      /\ c.from + Told(c) <= n
    BY DeliveryCounts
<1>2. \A i \in 1 .. Told(c) : m[c.from + i] = l[c.from + i]
    <2> SUFFICES ASSUME NEW i \in 1 .. Told(c) PROVE m[c.from + i] = l[c.from + i]
        OBVIOUS
    <2>1. c.from + i \in 1 .. n
        BY <1>1
    <2> QED BY <2>1
<1>3. PICK at \in [DOMAIN c.sent -> 1 .. Told(c)] :
          /\ \A i, j \in DOMAIN c.sent : i < j => at[i] < at[j]
          /\ \A i \in DOMAIN c.sent : c.sent[i] = l[c.from + at[i]].id
    BY DEF Delivery, InOrder
<1>4. \A i \in DOMAIN c.sent : at[i] \in 1 .. Told(c) /\ i \in 1 .. Told(c)
    BY <1>1, <1>3
<1>5. \A i \in DOMAIN c.sent : c.sent[i] = m[c.from + at[i]].id
    BY <1>2, <1>3, <1>4
<1>6. c.lost = 0 => \A i \in DOMAIN c.sent : c.sent[i] = m[c.from + i].id
    BY <1>2, <1>4 DEF Delivery
<1>7. c.from + Told(c) <= k /\ (c.state = "open" => c.from + Told(c) = k)
    BY <1>1, DeliveryCounts
<1>8. InOrder(c, m)
    BY <1>3, <1>5 DEF InOrder
<1> QED BY <1>6, <1>7, <1>8 DEF Delivery

\* What was told does not depend on how much has been read, nor on the end of
\* the subscription.
LEMMA DeliverySame ==
    ASSUME NEW c, NEW d, NEW l, NEW n, Delivery(c, l, n),
           d.sent = c.sent, d.lost = c.lost, d.from = c.from,
           d.read = c.read \/ (c.read < Len(c.sent) /\ d.read = c.read + 1),
           d.state \in {c.state, "closed"}
    PROVE  Delivery(d, l, n)
<1>1. Len(c.sent) \in Nat /\ SubBuf \in Nat
    BY DeliveryCounts
<1>2. d.read \in 0 .. Len(d.sent) /\ Len(d.sent) - d.read <= SubBuf
    BY <1>1 DEF Delivery
<1>3. d.state = "none" => d.read = 0
    BY <1>1 DEF Delivery
<1>4. InOrder(d, l)
    BY DEF Delivery, InOrder, Told
<1> QED BY <1>1, <1>2, <1>3, <1>4 DEF Delivery, Told

\* An event is sent ...
LEMMA DeliverySent ==
    ASSUME NEW c, NEW d, NEW l, NEW n \in Nat, Delivery(c, l, n), c.state = "open",
           Len(c.sent) - c.read < SubBuf,
           d.sent = Append(c.sent, l[n + 1].id), d.lost = c.lost, d.from = c.from,
           d.read = c.read, d.state = c.state
    PROVE  Delivery(d, l, n + 1)
<1>1. /\ DOMAIN c.sent = 1 .. Len(c.sent) /\ IsSeq(c.sent) /\ Len(c.sent) \in Nat
      /\ c.from \in Nat /\ c.lost \in Nat
    BY DeliveryCounts DEF Delivery
<1>k. PICK k \in Nat : k = Len(c.sent)
    BY <1>1
<1>2. /\ IsSeq(d.sent) /\ Len(d.sent) = k + 1 /\ DOMAIN d.sent = 1 .. k + 1
      /\ \A i \in 1 .. k : d.sent[i] = c.sent[i]
      /\ d.sent[k + 1] = l[n + 1].id
    BY <1>1, <1>k, AppendSeq, SeqDomain
<1>3. PICK told \in Nat : /\ told = Told(c) /\ told = k + c.lost /\ c.from + told = n
                          /\ Told(d) = told + 1
    <2>1. Told(c) \in Nat /\ Told(c) = k + c.lost /\ c.from + Told(c) = n
        BY <1>k, DeliveryCounts
    <2>2. Told(d) = Told(c) + 1
        BY <1>1, <1>2, <2>1 DEF Told
    <2> QED BY <2>1, <2>2
<1>4. PICK at \in [1 .. k -> 1 .. told] :
          /\ \A i, j \in 1 .. k : i < j => at[i] < at[j]
          /\ \A i \in 1 .. k : c.sent[i] = l[c.from + at[i]].id
    <2>1. InOrder(c, l) /\ DOMAIN c.sent = 1 .. k /\ Told(c) = told
        BY <1>1, <1>k, <1>3 DEF Delivery
    <2> QED BY <2>1 DEF InOrder
<1> DEFINE more == [i \in 1 .. k + 1 |-> IF i = k + 1 THEN told + 1 ELSE at[i]]
<1>5. /\ more \in [1 .. k + 1 -> 1 .. told + 1]
      /\ \A i \in 1 .. k : i # k + 1 /\ at[i] \in 1 .. told /\ more[i] = at[i]
      /\ more[k + 1] = told + 1
    BY <1>4
<1> HIDE DEF more
<1>6. ASSUME NEW i \in 1 .. k + 1, NEW j \in 1 .. k + 1, i < j
      PROVE  more[i] < more[j]
    <2>1. i \in 1 .. k /\ (j = k + 1 \/ j \in 1 .. k)
        BY <1>6
    <2>2. more[i] = at[i] /\ at[i] \in 1 .. told
        BY <1>5, <2>1
    <2>3. CASE j = k + 1
        BY <1>5, <2>2, <2>3
    <2>4. CASE j \in 1 .. k
        BY <1>4, <1>5, <1>6, <2>1, <2>4
    <2> QED BY <2>1, <2>3, <2>4
<1>7. d.from + (told + 1) = n + 1
    BY <1>1, <1>3
<1>8. ASSUME NEW i \in 1 .. k + 1
      PROVE  d.sent[i] = l[d.from + more[i]].id
    <2>1. CASE i = k + 1
        BY <1>2, <1>5, <1>7, <2>1
    <2>2. CASE i \in 1 .. k
        BY <1>2, <1>4, <1>5, <2>2
    <2>3. i = k + 1 \/ i \in 1 .. k
        BY <1>k
    <2> QED BY <2>1, <2>2, <2>3
<1>9. ASSUME d.lost = 0, NEW i \in 1 .. k + 1
      PROVE  d.sent[i] = l[d.from + i].id
    <2>1. CASE i = k + 1
        <3>1. told = k
            BY <1>1, <1>3, <1>9
        <3> QED BY <1>2, <1>7, <2>1, <3>1
    <2>2. CASE i \in 1 .. k
        BY <1>1, <1>2, <1>k, <1>9, <2>2 DEF Delivery
    <2>3. i = k + 1 \/ i \in 1 .. k
        BY <1>k
    <2> QED BY <2>1, <2>2, <2>3
<1>10. d.read \in 0 .. Len(d.sent) /\ Len(d.sent) - d.read <= SubBuf
    <2>1. c.read \in 0 .. k /\ SubBuf \in Nat
        BY <1>k, PoolAssumption DEF Delivery
    <2> QED BY <1>k, <1>2, <2>1
<1>11. InOrder(d, l)
    <2>1. DOMAIN d.sent = 1 .. k + 1 /\ Told(d) = told + 1
        BY <1>2, <1>3
    <2>2. /\ \A i, j \in DOMAIN d.sent : i < j => more[i] < more[j]
          /\ \A i \in DOMAIN d.sent : d.sent[i] = l[d.from + more[i]].id
        BY <1>6, <1>8, <2>1
    <2>3. more \in [DOMAIN d.sent -> 1 .. Told(d)]
        BY <1>5, <2>1
    <2> QED BY <2>2, <2>3 DEF InOrder
<1>12. \A i \in DOMAIN d.sent : d.lost = 0 => d.sent[i] = l[d.from + i].id
    BY <1>2, <1>9
<1>13. IsSeq(d.sent) /\ d.lost \in Nat /\ d.from \in Nat /\ d.from + Told(d) = n + 1
    BY <1>1, <1>2, <1>3, <1>7
<1> QED BY <1>10, <1>11, <1>12, <1>13 DEF Delivery

\* ... or lost.
LEMMA DeliveryLost ==
    ASSUME NEW c, NEW d, NEW l, NEW n \in Nat, Delivery(c, l, n), c.state = "open",
           d.sent = c.sent, d.lost = c.lost + 1, d.from = c.from,
           d.read = c.read, d.state = c.state
    PROVE  Delivery(d, l, n + 1)
<1>1. Len(c.sent) \in Nat /\ c.lost \in Nat /\ c.from \in Nat
    BY DeliveryCounts
<1>2. Told(d) = Told(c) + 1 /\ Told(c) \in Nat /\ c.from + Told(c) = n
    BY <1>1, DeliveryCounts DEF Told
<1>3. PICK at \in [DOMAIN c.sent -> 1 .. Told(c)] :
          /\ \A i, j \in DOMAIN c.sent : i < j => at[i] < at[j]
          /\ \A i \in DOMAIN c.sent : c.sent[i] = l[c.from + at[i]].id
    BY DEF Delivery, InOrder
<1>4. at \in [DOMAIN d.sent -> 1 .. Told(d)]
    BY <1>2, <1>3
<1>5. d.from + Told(d) = n + 1 /\ d.lost # 0 /\ d.lost \in Nat
    BY <1>1, <1>2
<1>6. InOrder(d, l)
    BY <1>3, <1>4 DEF InOrder
<1> QED BY <1>5, <1>6 DEF Delivery

\* The log is a sequence and at most one of its events is still to be notified.
LEMMA NotifiedLog ==
    ASSUME AnchorInv, DeliveryInv
    PROVE  /\ Len(log) \in Nat /\ DOMAIN log = 1 .. Len(log) /\ Notified \in Nat
           /\ Notified = IF runPC \in {"notify", "subNotify"} THEN Len(log) - 1 ELSE Len(log)
<1>1. Len(log) \in Nat /\ DOMAIN log = 1 .. Len(log)
    BY SeqDomain DEF AnchorInv, LogInv
<1>2. runPC \in {"notify", "subNotify"} => Len(log) > 0
    BY DEF DeliveryInv, LastInv
<1> QED BY <1>1, <1>2 DEF Notified

\* An event that enters the log is still to be notified.
LEMMA StoreDelivery ==
    ASSUME AnchorInv, DeliveryInv, RunTake \/ RunSub
    PROVE  DeliveryInv'
<1> DEFINE n == Len(log)
<1>1. /\ n \in Nat /\ Notified = n /\ chan' = chan
      /\ runPC \notin {"notify", "subNotify"}
    BY NotifiedLog DEF RunTake, RunSub
<1>2. CASE UNCHANGED <<log, runPC>>
    BY <1>1, <1>2 DEF DeliveryInv, LastInv, Notified
<1>3. CASE ~UNCHANGED <<log, runPC>>
    <2>1. PICK e : /\ log' = Append(log, [id |-> e.id, at |-> now])
                   /\ \/ runPC' = "notify" /\ cur' = e
                      \/ runPC' = "subNotify" /\ sub' = e
        BY <1>3 DEF RunTake, RunSub
    <2>2. /\ Len(log') = n + 1 /\ log'[n + 1].id = e.id
          /\ \A i \in 1 .. n : log'[i] = log[i]
        BY <2>1, AppendSeq DEF AnchorInv, LogInv
    <2>3. Notified' = n
        <3>1. Notified' = Len(log') - 1
            BY <2>1 DEF Notified
        <3> QED BY <1>1, <2>2, <3>1
    <2>4. LastInv'
        BY <1>1, <2>1, <2>2 DEF LastInv
    <2>5. \A s \in Subscriber : Delivery(chan[s], log', n)
        BY <1>1, <2>2, DeliveryLater DEF DeliveryInv
    <2> QED BY <1>1, <2>3, <2>4, <2>5 DEF DeliveryInv
<1> QED BY <1>2, <1>3

\* The notification: the subscribers are sent the event or lose it, the others
\* have no open channel.
LEMMA NotifyDelivery ==
    ASSUME AnchorInv, ShutdownInv, DeliveryInv, RunNotify \/ RunSubNotify
    PROVE  DeliveryInv'
<1> DEFINE n == Notified
<1>1. n \in Nat /\ Len(log) = n + 1
    BY NotifiedLog DEF RunNotify, RunSubNotify
<1>2. log' = log /\ runPC' = "sub" /\ NotifySubscribers(log[n + 1].id)
    BY <1>1 DEF RunNotify, RunSubNotify, DeliveryInv, LastInv
<1>3. Notified' = n + 1 /\ LastInv'
    BY <1>1, <1>2 DEF Notified, LastInv
<1>4. ASSUME NEW s \in Subscriber PROVE Delivery(chan'[s], log, n + 1)
    <2> DEFINE c == chan[s]
               d == chan'[s]
    <2>0. Delivery(c, log, n)
        BY DEF DeliveryInv
    <2>1. CASE s \notin subscribers
        <3>1. d = c /\ c.state # "open"
            BY <1>2, <2>1 DEF NotifySubscribers, ShutdownInv
        <3> QED BY <1>1, <2>0, <3>1, DeliveryLater
    <2>2. CASE s \in subscribers /\ Len(c.sent) - c.read < SubBuf
        <3>1. /\ c.state = "open" /\ d.sent = Append(c.sent, log[n + 1].id)
              /\ d.lost = c.lost /\ d.from = c.from /\ d.read = c.read /\ d.state = c.state
            BY <1>2, <2>2 DEF NotifySubscribers, ShutdownInv, ChanShape
        <3> QED BY <1>1, <2>0, <2>2, <3>1, DeliverySent
    <2>3. CASE s \in subscribers /\ ~(Len(c.sent) - c.read < SubBuf)
        <3>1. /\ c.state = "open" /\ d.sent = c.sent
              /\ d.lost = c.lost + 1 /\ d.from = c.from /\ d.read = c.read /\ d.state = c.state
            BY <1>2, <2>3 DEF NotifySubscribers, ShutdownInv, ChanShape
        <3> QED BY <1>1, <2>0, <3>1, DeliveryLost
    <2> QED BY <2>1, <2>2, <2>3
<1> QED BY <1>2, <1>3, <1>4 DEF DeliveryInv

LEMMA SubscriptionDelivery ==
    ASSUME AnchorInv, ShutdownInv, DeliveryInv, NEW s \in Subscriber, Subscription(s)
    PROVE  DeliveryInv'
<1>1. UNCHANGED <<log, runPC, cur, sub>>
    BY DEF Subscription, Subscribe, Unsubscribe, Receive
<1>2. LastInv' /\ Notified' = Notified /\ Notified \in Nat
    BY <1>1, NotifiedLog DEF DeliveryInv, LastInv, Notified
<1>3. \A t \in Subscriber : t # s => chan'[t] = chan[t]
    BY DEF Subscription, Subscribe, Unsubscribe, Receive, ShutdownInv, ChanShape
<1>4. Delivery(chan'[s], log, Notified)
    <2> DEFINE c == chan[s]
               d == chan'[s]
    <2>0. Delivery(c, log, Notified)
        BY DEF DeliveryInv
    <2>1. CASE Subscribe(s)
        <3>1. /\ c.state = "none" /\ d.state = "open" /\ d.from = Notified
              /\ d.sent = c.sent /\ d.lost = c.lost /\ d.read = c.read
            <4>1. /\ chan[s].state = "none"
                  /\ chan' = [chan EXCEPT ![s].state = "open", ![s].from = Notified]
                BY <2>1 DEF Subscribe
            <4>2. chan'[s] = [chan[s] EXCEPT !.state = "open", !.from = Notified]
                BY <4>1 DEF ShutdownInv, ChanShape
            <4> QED BY <4>1, <4>2 DEF ShutdownInv, ChanShape
        <3> HIDE DEF c, d
        <3>2. /\ c.sent = << >> /\ c.lost = 0 /\ c.read = 0 /\ Told(c) = 0 /\ Told(d) = 0
              /\ DOMAIN c.sent = {}
            BY <2>0, <3>1, DeliveryCounts DEF Delivery, Told
        <3>3. InOrder(d, log)
            BY <2>0, <3>1, <3>2 DEF Delivery, InOrder
        <3>4. Delivery(d, log, Notified)
            BY <1>2, <2>0, <3>1, <3>2, <3>3 DEF Delivery
        <3> QED BY <3>4 DEF d
    <2>2. CASE Unsubscribe(s)
        <3>1. /\ d.sent = c.sent /\ d.lost = c.lost /\ d.from = c.from /\ d.read = c.read
              /\ d.state = "closed"
            BY <2>2 DEF Unsubscribe, ShutdownInv, ChanShape
        <3> QED BY <2>0, <3>1, DeliverySame
    <2>3. CASE Receive(s)
        <3>1. /\ d.sent = c.sent /\ d.lost = c.lost /\ d.from = c.from
              /\ d.state = c.state /\ c.read < Len(c.sent) /\ d.read = c.read + 1
            BY <2>3 DEF Receive, ShutdownInv, ChanShape
        <3> QED BY <2>0, <3>1, DeliverySame
    <2> QED BY <2>1, <2>2, <2>3 DEF Subscription
<1> QED BY <1>1, <1>2, <1>3, <1>4 DEF DeliveryInv

\* Close ends the subscriptions that are left; nothing else touches a channel.
LEMMA OtherDelivery ==
    ASSUME ShutdownInv, DeliveryInv, [Next]_vars, ~RunTake, ~RunSub, ~RunNotify,
           ~RunSubNotify, \A s \in Subscriber : ~Subscription(s)
    PROVE  DeliveryInv'
<1>1. /\ log' = log
      /\ \/ UNCHANGED <<runPC, cur, sub>>
         \/ {runPC, runPC'} \cap {"notify", "subNotify"} = {}
    BY DEF Next, vars, Call, CallAdd, CallSend, CallRefused, CallAbandoned, Run, RunDone,
       RunBody, RunCount, RunAnchor, RunAnchorClosed, RunFetchStart, RunFetch, RunVerify,
       NextIteration, MainEventDone, Close, CloseBegin, CloseErr, CloseSubs, Environment,
       ParentCancel, DrainErr, NewRound, BeaconSend, BeaconStop
<1>2. LastInv' /\ Notified' = Notified
    BY <1>1 DEF DeliveryInv, LastInv, Notified
<1>3. CASE CloseSubs
    <2>1. ASSUME NEW s \in Subscriber PROVE Delivery(chan'[s], log, Notified)
        <3> DEFINE c == chan[s]
                   d == chan'[s]
        <3>1. /\ d.sent = c.sent /\ d.lost = c.lost /\ d.from = c.from /\ d.read = c.read
              /\ d.state \in {c.state, "closed"}
            BY <1>3 DEF CloseSubs, ShutdownInv, ChanShape
        <3>2. Delivery(c, log, Notified)
            BY DEF DeliveryInv
        <3> QED BY <3>1, <3>2, DeliverySame
    <2> QED BY <1>1, <1>2, <2>1 DEF DeliveryInv
<1>4. CASE ~CloseSubs
    <2>1. chan' = chan
        BY <1>4
        DEF Next, vars, Call, CallAdd, CallSend, CallRefused, CallAbandoned, Run, RunDone,
            RunBody, RunCount, RunAnchor, RunAnchorClosed, RunFetchStart, RunFetch,
            RunVerify, Close, CloseBegin, CloseErr, Environment,
            ParentCancel, DrainErr, NewRound, BeaconSend, BeaconStop
    <2> QED BY <1>1, <1>2, <2>1 DEF DeliveryInv
<1> QED BY <1>3, <1>4

LEMMA NextDelivery ==
    AnchorInv /\ ShutdownInv /\ DeliveryInv /\ [Next]_vars => DeliveryInv'
BY StoreDelivery, NotifyDelivery, SubscriptionDelivery, OtherDelivery

LEMMA DeliveryInvariance == Spec => []DeliveryInv
<1> QED
    BY InitDelivery, NextDelivery, AnchorInvariance, ShutdownInvariance, PTL DEF Spec

\* Each subscriber is told of the events of the log in their order, from its
\* subscription to the end of it, and misses only what was counted as dropped.
THEOREM AlwaysDeliveredInOrder == Spec => []DeliveredInOrder
<1>1. DeliveryInv => DeliveredInOrder
    <2> SUFFICES ASSUME NEW s \in Subscriber, Delivery(chan[s], log, Notified)
                 PROVE  LET c    == chan[s]
                            told == Len(c.sent) + c.lost
                            ids  == [i \in 1 .. told |-> log[c.from + i].id]
                        IN  /\ c.from + told <= Notified
                            /\ c.state = "open" => c.from + told = Notified
                            /\ c.lost = 0 => c.sent = ids
                            /\ \E at \in [DOMAIN c.sent -> 1 .. told] :
                                  /\ \A i, j \in DOMAIN c.sent : i < j => at[i] < at[j]
                                  /\ \A i \in DOMAIN c.sent : c.sent[i] = ids[at[i]]
        BY DEF DeliveryInv, DeliveredInOrder
    <2> DEFINE c   == chan[s]
               ids == [i \in 1 .. Told(c) |-> log[c.from + i].id]
    <2>1. /\ Len(c.sent) \in Nat /\ DOMAIN c.sent = 1 .. Len(c.sent)
          /\ Told(c) = Len(c.sent) + c.lost /\ c.from + Told(c) <= Notified
          /\ c.state = "open" => c.from + Told(c) = Notified
        BY DeliveryCounts
    <2>2. c.lost = 0 => c.sent = ids
        <3>1. c.sent = [i \in 1 .. Len(c.sent) |-> c.sent[i]]
            BY <2>1 DEF Delivery, IsSeq
        <3>2. c.lost = 0 => \A i \in 1 .. Len(c.sent) : c.sent[i] = log[c.from + i].id
            BY <2>1 DEF Delivery
        <3>3. c.lost = 0 => Told(c) = Len(c.sent)
            BY <2>1
        <3> QED BY <3>1, <3>2, <3>3
    <2>3. PICK at \in [DOMAIN c.sent -> 1 .. Told(c)] :
              /\ \A i, j \in DOMAIN c.sent : i < j => at[i] < at[j]
              /\ \A i \in DOMAIN c.sent : c.sent[i] = log[c.from + at[i]].id
        BY DEF Delivery, InOrder
    <2>4. \A i \in DOMAIN c.sent : c.sent[i] = ids[at[i]]
        BY <2>3
    <2> QED BY <2>1, <2>2, <2>3, <2>4
<1> QED BY <1>1, DeliveryInvariance, PTL

-----------------------------------------------------------------------------
(* Types and capacities                                                    *)

\* The loop's locals, the beacon and the buffers.
RangeInv ==
    /\ Len(eventCh) <= QueueCap
    /\ runPC \in {"select", "notify", "sub", "subNotify", "fetch", "exited"}
    /\ cur # NoEvent <=> InHand
    /\ sub # NoEvent <=> runPC = "subNotify"
    /\ numSubs \in 0 .. MaxSubEvents /\ subNo \in 0 .. numSubs
    /\ runPC = "subNotify" => subNo < numSubs
    /\ now \in 0 .. MaxRound /\ lastBeaconRound \in 0 .. now
    /\ beaconCh = << >> \/ \E r \in 0 .. now : beaconCh = <<r>>
    /\ errs \in 0 .. ErrCap

\* The callers with an event in hand.
Busy == {c \in Caller : pending[c] # NoEvent}

\* Each call counts once: in its caller's hands, in the queue, in the loop's
\* hands or among the events since the last anchor.
CountedCalls ==
    eventCount + (IF InHand THEN 1 ELSE 0) + Len(eventCh) + Cardinality(Busy)

CallCountInv ==
    /\ IsFiniteSet(Busy)
    /\ eventCount \in Nat
    /\ calls \in 0 .. MaxCalls
    /\ CountedCalls <= calls

LEMMA InitRange == Init => RangeInv /\ CallCountInv
<1> SUFFICES ASSUME Init PROVE RangeInv /\ CallCountInv
    OBVIOUS
<1>1. Len(eventCh) = 0 /\ Busy = {} /\ ~InHand
    BY DEF Init, Busy, InHand
<1>2. Cardinality(Busy) = 0 /\ IsFiniteSet(Busy)
    BY <1>1, FS_EmptySet
<1>3. RangeInv
    BY <1>1, PoolAssumption DEF Init, RangeInv
<1>4. CallCountInv
    BY <1>1, <1>2, PoolAssumption DEF Init, CallCountInv, CountedCalls
<1> QED BY <1>3, <1>4

LEMMA SendErrorRange ==
    ASSUME RangeInv, SendError
    PROVE  errs' \in 0 .. ErrCap
BY PoolAssumption, SMTT(30) DEF RangeInv, SendError

\* The end of a turn of the loop.
LEMMA AnchorRange ==
    ASSUME RangeInv, NEW r \in 0 .. now, NEW n, AnchorWith(r, n), NextIteration,
           UNCHANGED <<eventCh, sub, now>>, runPC \in {"sub", "fetch"},
           beaconCh' = beaconCh \/ beaconCh' = << >>
    PROVE  RangeInv'
<1>1. errs' \in 0 .. ErrCap
    BY SendErrorRange DEF AnchorWith, RangeInv
<1>2. lastBeaconRound' \in 0 .. now
    BY DEF AnchorWith, RangeInv
<1>3. 0 \in 0 .. MaxSubEvents
    BY PoolAssumption
<1> QED BY <1>1, <1>2, <1>3 DEF RangeInv, NextIteration, InHand

LEMMA RunRange ==
    ASSUME CIDsNamed, CallsInv, RangeInv, Run
    PROVE  RangeInv'
<1>0. /\ MaxSubEvents \in Nat /\ numSubs \in Nat /\ subNo \in Nat /\ now \in Nat
      /\ errs \in Nat
    BY PoolAssumption DEF RangeInv
<1>1. CASE RunDone
    BY <1>1 DEF RunDone, RangeInv, InHand
<1>2. CASE RunTake
    <2> DEFINE e == Head(eventCh)
    <2>1. Built(e) /\ e # NoEvent
        BY <1>2, TailSeq, NoRefs DEF RunTake, CallsInv, Built
    <2>2. Len(eventCh') <= QueueCap
        <3>1. PICK S : eventCh \in Seq(S)
            BY DEF CallsInv, IsSeq
        <3>2. eventCh' = Tail(eventCh) /\ eventCh # << >>
            BY <1>2 DEF RunTake
        <3>3. Len(Tail(eventCh)) = Len(eventCh) - 1 /\ Len(eventCh) \in Nat
            BY <3>1, <3>2
        <3> QED BY <3>2, <3>3, PoolAssumption, SMTT(30) DEF RangeInv
    <2>3. /\ UNCHANGED <<sub, numSubs, subNo, now, lastBeaconRound, beaconCh>>
          /\ runPC = "select"
          /\ \/ cur' = e /\ runPC' = "notify" /\ errs' = errs
             \/ SendError /\ UNCHANGED <<cur, runPC>>
        BY <1>2 DEF RunTake
    <2>4. errs' \in 0 .. ErrCap
        BY <2>3, SendErrorRange DEF RangeInv
    <2> QED BY <2>1, <2>2, <2>3, <2>4 DEF RangeInv, InHand
<1>3. CASE RunNotify
    <2>1. /\ UNCHANGED <<eventCh, cur, sub, now, lastBeaconRound, beaconCh, errs>>
          /\ runPC = "notify" /\ runPC' = "sub"
          /\ numSubs' \in 0 .. MaxSubEvents /\ subNo' = 0
        BY <1>3 DEF RunNotify
    <2> QED BY <1>0, <2>1 DEF RangeInv, InHand
<1>4. CASE RunSub
    <2>1. PICK parents \in SubParents :
              \/ /\ sub' = SubEventOf(cur.id, subNo, parents) /\ runPC' = "subNotify"
                 /\ UNCHANGED <<subNo, errs>>
              \/ /\ SendError /\ subNo' = subNo + 1
                 /\ UNCHANGED <<sub, runPC>>
        BY <1>4 DEF RunSub
    <2>2. /\ UNCHANGED <<eventCh, cur, numSubs, now, lastBeaconRound, beaconCh>>
          /\ runPC = "sub" /\ subNo < numSubs
        BY <1>4 DEF RunSub
    <2>3. errs' \in 0 .. ErrCap
        BY <2>1, SendErrorRange DEF RangeInv
    <2>4. SubEventOf(cur.id, subNo, parents) # NoEvent
        BY DEF SubEventOf, NewEvent, NoEvent
    <2>5. subNo' \in 0 .. numSubs /\ (runPC' = "subNotify" => subNo' < numSubs)
        BY <1>0, <2>1, <2>2
    <2> QED BY <2>1, <2>2, <2>3, <2>4, <2>5 DEF RangeInv, InHand
<1>5. CASE RunSubNotify
    <2>1. /\ UNCHANGED <<eventCh, cur, numSubs, now, lastBeaconRound, beaconCh, errs>>
          /\ runPC = "subNotify" /\ runPC' = "sub" /\ subNo' = subNo + 1 /\ sub' = NoEvent
        BY <1>5 DEF RunSubNotify
    <2>2. subNo' \in 0 .. numSubs
        BY <1>0, <2>1 DEF RangeInv
    <2> QED BY <2>1, <2>2 DEF RangeInv, InHand
<1>6. CASE RunCount
    <2>1. /\ UNCHANGED <<eventCh, sub, now, lastBeaconRound, beaconCh, errs>>
          /\ runPC = "sub" /\ NextIteration
        BY <1>6 DEF RunCount, MainEventDone
    <2> QED BY <1>0, <2>1 DEF RangeInv, NextIteration, InHand
<1>7. CASE RunAnchor
    <2>1. PICK r \in 0 .. now : beaconCh = <<r>>
        BY <1>7 DEF RunAnchor, Feed!Take, RangeInv
    <2>2. Head(beaconCh) = r /\ beaconCh' = << >>
        BY <1>7, <2>1 DEF RunAnchor, Feed!Take
    <2>3. AnchorWith(r, eventCount + 1)
        BY <1>7, <2>2 DEF RunAnchor
    <2> QED
        BY <1>7, <2>2, <2>3, AnchorRange DEF RunAnchor, MainEventDone, Feed!Take
<1>8. CASE RunAnchorClosed
    <2>1. 0 \in 0 .. now
        BY <1>0
    <2> QED BY <1>8, <2>1, AnchorRange DEF RunAnchorClosed, MainEventDone
<1>9. CASE RunFetchStart
    BY <1>9 DEF RunFetchStart, MainEventDone, RangeInv, InHand
<1>10. CASE RunFetch
    <2>1. PICK r \in 0 .. now : AnchorWith(r, eventCount + 1)
        BY <1>0, <1>10 DEF RunFetch, Answers
    <2> QED BY <1>10, <2>1, AnchorRange DEF RunFetch
<1>11. CASE RunVerify
    BY <1>11, SendErrorRange DEF RunVerify, RangeInv, InHand
<1> QED
    BY <1>1, <1>2, <1>3, <1>4, <1>5, <1>6, <1>7, <1>8, <1>9, <1>10, <1>11
    DEF Run, RunBody

LEMMA NextRange ==
    ASSUME CIDsNamed, CallsInv, RangeInv, [Next]_vars
    PROVE  RangeInv'
<1>1. CASE \E c \in Caller : CallSend(c)
    <2>1. PICK c \in Caller : CallSend(c)
        BY <1>1
    <2>2. Len(eventCh') = Len(eventCh) + 1 /\ Len(eventCh) \in Nat /\ Len(eventCh) < QueueCap
        BY <2>1, AppendSeq, SeqDomain DEF CallSend, CallsInv
    <2>3. Len(eventCh') <= QueueCap
        BY <2>2, PoolAssumption
    <2> QED BY <2>1, <2>3 DEF CallSend, RangeInv, InHand
<1>2. CASE DrainErr
    BY <1>2, PoolAssumption DEF DrainErr, RangeInv, InHand
<1>3. CASE NewRound
    <2>1. now' = now + 1 /\ now < MaxRound /\ beaconCh' = beaconCh
        BY <1>3 DEF NewRound, Feed!Publish
    <2>2. now' \in 0 .. MaxRound /\ 0 .. now \subseteq 0 .. now'
        BY <2>1, PoolAssumption DEF RangeInv
    <2> QED BY <1>3, <2>1, <2>2 DEF NewRound, RangeInv, InHand
<1>4. CASE BeaconSend
    BY <1>4 DEF BeaconSend, Feed!Offer, RangeInv, InHand
<1>5. CASE UNCHANGED <<eventCh, runVars, now, beaconCh, errs>>
    BY <1>5 DEF RangeInv, InHand
<1>6. \/ Run \/ (\E c \in Caller : CallSend(c)) \/ DrainErr \/ NewRound \/ BeaconSend
      \/ UNCHANGED <<eventCh, runVars, now, beaconCh, errs>>
    BY DEF Next, vars, Call, CallAdd, CallRefused, CallAbandoned, Subscription, Subscribe,
       Unsubscribe, Receive, Close, CloseBegin, CloseErr, CloseSubs, Environment,
       ParentCancel, BeaconStop, Feed!Close
<1> QED BY <1>1, <1>2, <1>3, <1>4, <1>5, <1>6, RunRange

\* The numbers that CountedCalls adds up.
LEMMA CallNumbers ==
    ASSUME CallsInv, CallCountInv
    PROVE  /\ Len(eventCh) \in Nat /\ Cardinality(Busy) \in Nat
           /\ eventCount \in Nat /\ calls \in Nat /\ MaxCalls \in Nat
BY SeqDomain, FS_CardinalityType, PoolAssumption DEF CallsInv, CallCountInv

LEMMA CallCount ==
    ASSUME CIDsNamed, CallsInv, CallCountInv, NEW c \in Caller, Call(c)
    PROVE  CallCountInv'
<1>0. UNCHANGED <<eventCount, runPC>>
    BY DEF Call, CallAdd, CallSend, CallRefused, CallAbandoned
<1>1. CASE CallAdd(c)
    <2>1. pending[c] = NoEvent /\ calls < MaxCalls /\ calls' = calls + 1 /\ eventCh' = eventCh
        BY <1>1 DEF CallAdd
    <2>2. PICK data \in Data, parents \in BoundedSeq(Nameable, MaxParents) :
              pending' = [pending EXCEPT ![c] = NewEvent("MainEvent", NoID, parents, data)]
        BY <1>1 DEF CallAdd
    <2>3. NewEvent("MainEvent", NoID, parents, data) # NoEvent
        BY NewEventBuilt, NoRefs DEF Built
    <2>4. Busy' = Busy \cup {c} /\ c \notin Busy
        BY <2>1, <2>2, <2>3 DEF Busy, CallsInv
    <2>5. IsFiniteSet(Busy') /\ Cardinality(Busy') = Cardinality(Busy) + 1
        BY <2>4, FS_AddElement DEF CallCountInv
    <2> QED
        BY <1>0, <2>1, <2>5, CallNumbers DEF CallCountInv, CountedCalls, InHand
<1>2. ASSUME pending[c] # NoEvent, pending' = [pending EXCEPT ![c] = NoEvent]
      PROVE  IsFiniteSet(Busy') /\ Cardinality(Busy') = Cardinality(Busy) - 1
    <2>1. Busy' = Busy \ {c} /\ c \in Busy
        BY <1>2 DEF Busy, CallsInv
    <2> QED BY <2>1, FS_RemoveElement DEF CallCountInv
<1>3. CASE CallSend(c)
    <2>1. IsFiniteSet(Busy') /\ Cardinality(Busy') = Cardinality(Busy) - 1 /\ calls' = calls
        BY <1>2, <1>3 DEF CallSend
    <2>2. Len(eventCh') = Len(eventCh) + 1
        BY <1>3, AppendSeq DEF CallSend, CallsInv
    <2> QED
        BY <1>0, <2>1, <2>2, CallNumbers DEF CallCountInv, CountedCalls, InHand
<1>4. CASE CallRefused(c) \/ CallAbandoned(c)
    <2>1. /\ IsFiniteSet(Busy') /\ Cardinality(Busy') = Cardinality(Busy) - 1
          /\ UNCHANGED <<calls, eventCh>>
        BY <1>2, <1>4 DEF CallRefused, CallAbandoned
    <2> QED BY <1>0, <2>1, CallNumbers DEF CallCountInv, CountedCalls, InHand
<1> QED BY <1>1, <1>3, <1>4 DEF Call

LEMMA NextCallCount ==
    ASSUME CIDsNamed, CallsInv, CallCountInv, [Next]_vars
    PROVE  CallCountInv'
<1>1. CASE RunTake
    <2>1. Len(eventCh') = Len(eventCh) - 1
        <3>1. PICK S : eventCh \in Seq(S)
            BY DEF CallsInv, IsSeq
        <3> QED BY <1>1, <3>1 DEF RunTake
    <2>2. /\ UNCHANGED <<callVars, eventCount>> /\ Busy' = Busy /\ ~InHand
        BY <1>1 DEF RunTake, Busy, InHand
    <2> QED BY <2>1, <2>2, CallNumbers DEF CallCountInv, CountedCalls
<1>2. CASE RunCount \/ RunAnchor \/ RunAnchorClosed \/ RunFetch
    <2>1. /\ UNCHANGED <<callVars, eventCh>> /\ Busy' = Busy /\ InHand /\ ~InHand'
          /\ eventCount' \in {0, eventCount + 1}
        BY <1>2
        DEF RunCount, RunAnchor, RunAnchorClosed, RunFetch, AnchorWith, MainEventDone,
            NextIteration, Busy, InHand
    <2> QED BY <2>1, CallNumbers DEF CallCountInv, CountedCalls
<1>3. CASE UNCHANGED <<callVars, eventCh, eventCount>> /\ (InHand' <=> InHand)
    BY <1>3 DEF CallCountInv, CountedCalls, Busy
<1>4. \/ RunTake \/ RunCount \/ RunAnchor \/ RunAnchorClosed \/ RunFetch
      \/ \E c \in Caller : Call(c)
      \/ UNCHANGED <<callVars, eventCh, eventCount>> /\ (InHand' <=> InHand)
    BY DEF Next, vars, Subscription, Subscribe, Unsubscribe, Receive, Run, RunDone, RunBody,
       RunNotify, RunSub, RunSubNotify, RunFetchStart, RunVerify, MainEventDone, InHand,
       Close, CloseBegin, CloseErr, CloseSubs, Environment, ParentCancel, DrainErr,
       NewRound, BeaconSend, BeaconStop
<1> QED BY <1>1, <1>2, <1>3, <1>4, CallCount

LEMMA RangeInvariance ==
    ASSUME CIDsNamed
    PROVE  Spec => [](RangeInv /\ CallCountInv /\ SpawnInv)
<1>1. Init => CallsInv /\ RangeInv /\ CallCountInv /\ SpawnInv
    BY InitQueue, InitRange, InitSpawn
<1>2. CallsInv /\ RangeInv /\ CallCountInv /\ SpawnInv /\ [Next]_vars
          => (CallsInv /\ RangeInv /\ CallCountInv /\ SpawnInv)'
    BY NextQueue, NextRange, NextCallCount, NextSpawn
<1> QED BY <1>1, <1>2, PTL DEF Spec

\* Every buffer keeps to its capacity, log and DAG name the same events, the
\* loop's locals are set exactly where they are used, and the count of events
\* never exceeds the calls.
THEOREM PoolTypeCorrect ==
    ASSUME CIDsNamed
    PROVE  Spec => []TypeOK
<1>1. ASSUME AnchorInv, ShutdownInv, DeliveryInv, RangeInv, CallCountInv, SpawnInv, CallsInv
      PROVE  TypeOK
    <2>1. IDsOf(log) = DOMAIN dag
        BY <1>1 DEF AnchorInv, LogInv, IDsOf
    <2>2. \A i, j \in DOMAIN log : log[i].id = log[j].id => i = j
        BY <1>1 DEF AnchorInv, LogInv
    <2>3. Len(recent) <= MaxRecent
        BY <1>1 DEF SpawnInv
    <2>4. eventCount \in 0 .. MaxCalls
        BY <1>1, CallNumbers DEF CallCountInv, CountedCalls
    <2>5. \A s \in Subscriber :
              /\ chan[s].state \in {"none", "open", "closed"}
              /\ chan[s].read \in 0 .. Len(chan[s].sent)
              /\ Len(chan[s].sent) - chan[s].read <= SubBuf
        BY <1>1 DEF DeliveryInv, Delivery
    <2>6. closer \in {"idle", "waiting", "closing", "returned"}
        BY <1>1 DEF ShutdownInv
    <2> QED
        BY <1>1, <2>1, <2>2, <2>3, <2>4, <2>5, <2>6 DEF TypeOK, RangeInv, InHand
<1>2. Spec => []CallsInv
    <2>1. Init => CallsInv
        BY InitQueue
    <2>2. CallsInv /\ [Next]_vars => CallsInv'
        BY NextQueue
    <2> QED BY <2>1, <2>2, PTL DEF Spec
<1>3. Spec => [](RangeInv /\ CallCountInv /\ SpawnInv)
    BY RangeInvariance
<1> QED
    BY <1>1, <1>2, <1>3, AnchorInvariance, ShutdownInvariance, DeliveryInvariance, PTL

-----------------------------------------------------------------------------
(* The pool's DAG                                                          *)

\* Whatever the DAG is offered or holds lists its references in sequences.
ListsInv ==
    /\ Lists(dag)
    /\ \A c \in Caller : IsSeq(pending[c].parents)
    /\ \A i \in DOMAIN eventCh : IsSeq(eventCh[i].parents)

LEMMA NoEventLists == IsSeq(NoEvent.parents)
BY DEF NoEvent, IsSeq

LEMMA InitLists == Init => ListsInv
<1> SUFFICES ASSUME Init PROVE ListsInv
    OBVIOUS
<1>1. DOMAIN << >> = {}
    OBVIOUS
<1> QED BY <1>1, NoEventLists DEF Init, ListsInv, Lists, EmptyStore

LEMMA BoundedIsSeq ==
    ASSUME NEW S, NEW n \in Nat, NEW s \in BoundedSeq(S, n)
    PROVE  IsSeq(s)
<1>1. s \in Seq(S)
    BY DEF BoundedSeq, SeqOf
<1> QED BY <1>1 DEF IsSeq

\* Callers do not touch the DAG.
LEMMA CallLists ==
    ASSUME WaitingInv, ListsInv, NEW c \in Caller, Call(c)
    PROVE  ListsInv' /\ dag' = dag
<1>0. dag' = dag
    BY DEF Call, CallAdd, CallSend, CallRefused, CallAbandoned
<1>1. CASE CallAdd(c)
    <2>1. PICK data \in Data, parents \in BoundedSeq(Nameable, MaxParents) :
              pending' = [pending EXCEPT ![c] = NewEvent("MainEvent", NoID, parents, data)]
        BY <1>1 DEF CallAdd
    <2>2. IsSeq(NewEvent("MainEvent", NoID, parents, data).parents)
        BY BoundedIsSeq, PoolAssumption DEF NewEvent
    <2> QED BY <1>0, <1>1, <2>1, <2>2 DEF CallAdd, ListsInv, WaitingInv
<1>2. CASE CallSend(c)
    <2>1. /\ eventCh' = Append(eventCh, pending[c])
          /\ pending' = [pending EXCEPT ![c] = NoEvent]
        BY <1>2 DEF CallSend
    <2>2. \A i \in DOMAIN eventCh' : IsSeq(eventCh'[i].parents)
        BY <2>1, AppendSeq, SeqDomain DEF ListsInv, WaitingInv
    <2> QED BY <1>0, <2>1, <2>2, NoEventLists DEF ListsInv, WaitingInv
<1>3. CASE CallRefused(c) \/ CallAbandoned(c)
    BY <1>0, <1>3, NoEventLists DEF CallRefused, CallAbandoned, ListsInv, WaitingInv
<1> QED BY <1>0, <1>1, <1>2, <1>3 DEF Call

\* The loop offers the event it takes ...
LEMMA TakeDag ==
    ASSUME WaitingInv, ListsInv, Shaped(dag), RunTake
    PROVE  Grows(dag, dag') /\ ListsInv'
<1> DEFINE e == Head(eventCh)
<1>1. eventCh # << >> /\ eventCh' = Tail(eventCh) /\ dag' = AfterAdd(dag, e)
      /\ pending' = pending
    BY DEF RunTake
<1>2. /\ IsSeq(e.parents)
      /\ \A i \in DOMAIN eventCh' : IsSeq(eventCh'[i].parents)
    BY <1>1, TailSeq DEF WaitingInv, ListsInv
<1>3. Lists(dag)
    BY DEF ListsInv
<1> HIDE DEF e
<1>4. Grows(dag, dag') /\ Lists(dag')
    BY <1>1, <1>2, <1>3, AfterAddGrows, AfterAddLists
<1> QED BY <1>1, <1>2, <1>4 DEF ListsInv

\* ... and the sub-events it makes;
LEMMA SubDag ==
    ASSUME ListsInv, Shaped(dag), RunSub
    PROVE  Grows(dag, dag') /\ ListsInv'
<1>1. PICK parents \in SubParents : dag' = AfterAdd(dag, SubEventOf(cur.id, subNo, parents))
    BY DEF RunSub
<1> DEFINE e == SubEventOf(cur.id, subNo, parents)
<1>2. IsSeq(e.parents)
    BY BoundedIsSeq, PoolAssumption DEF SubParents, SubEventOf, NewEvent
<1>3. Lists(dag) /\ dag' = AfterAdd(dag, e)
    BY <1>1 DEF ListsInv
<1> HIDE DEF e
<1>4. Grows(dag, dag') /\ Lists(dag')
    BY <1>2, <1>3, AfterAddGrows, AfterAddLists
<1>5. UNCHANGED <<eventCh, pending>>
    BY DEF RunSub
<1> QED BY <1>4, <1>5 DEF ListsInv

LEMMA GrowsReflexive == Grows(dag, dag)
BY DEF Grows, Keeps

\* the newest main event has no anchor yet, so an anchor replaces none.
LEMMA AnchorDag ==
    ASSUME LogInv, CurIsNewest, NEW r, NEW n, AnchorWith(r, n)
    PROVE  /\ Grows(dag, dag')
           /\ Lists(dag) => Lists(dag')
           /\ ChildrenRefer(dag) => ChildrenRefer(dag')
<1>1. CASE dag' = dag
    BY <1>1, GrowsReflexive
<1>2. CASE dag' = [dag EXCEPT ![cur.id].beacon = r]
    <2>1. DOMAIN dag' = DOMAIN dag
        BY <1>2
    <2>2. ASSUME NEW id \in DOMAIN dag
          PROVE  /\ dag'[id].type = dag[id].type
                 /\ dag'[id].parentID = dag[id].parentID
                 /\ dag'[id].parents = dag[id].parents
                 /\ dag'[id].children = dag[id].children
                 /\ id # cur.id => dag'[id].beacon = dag[id].beacon
        BY <1>2, <2>2 DEF LogInv, Shaped
    <2>3. cur.id \in DOMAIN dag => dag[cur.id].beacon = NoAnchor
        <3>1. PICK k \in DOMAIN log : IsNewest(k, cur.id)
            BY DEF CurIsNewest
        <3>2. DOMAIN log = 1 .. Len(log) /\ Len(log) \in Nat
            BY SeqDomain DEF LogInv
        <3>3. k \notin Anchored
            BY <3>1, <3>2 DEF IsNewest
        <3> QED BY <3>1, <3>3 DEF Anchored, Round, IsNewest
    <2>4. \A id \in DOMAIN dag : Keeps(dag, dag', id)
        BY <2>1, <2>2, <2>3 DEF Keeps
    <2>5. \A id \in DOMAIN dag : Refs(dag'[id]) = Refs(dag[id])
        BY <2>2 DEF Refs
    <2> QED BY <2>1, <2>2, <2>4, <2>5 DEF Grows, Lists, ChildrenRefer
<1> QED BY <1>1, <1>2 DEF AnchorWith

\* A step that anchors, and one that leaves the DAG alone.
Anchors == RunAnchor \/ RunAnchorClosed \/ RunFetch

LEMMA AnchorsDag ==
    ASSUME AnchorInv, Anchors
    PROVE  /\ \E r, n : AnchorWith(r, n)
           /\ UNCHANGED <<eventCh, pending>> /\ LogInv /\ CurIsNewest
BY DEF AnchorInv, InHand, Anchors, RunAnchor, RunAnchorClosed, RunFetch, MainEventDone

LEMMA QuietDag ==
    ASSUME [Next]_vars, ~RunTake, ~RunSub, ~Anchors, \A c \in Caller : ~Call(c)
    PROVE  UNCHANGED <<dag, eventCh, pending>>
BY DEF Next, vars, Anchors, Subscription, Subscribe, Unsubscribe, Receive, Run, RunDone,
       RunBody, RunNotify, RunSubNotify, RunCount, RunFetchStart, RunVerify, Close,
       CloseBegin, CloseErr, CloseSubs, Environment, ParentCancel, DrainErr, NewRound,
       BeaconSend, BeaconStop

LEMMA NextDag ==
    ASSUME AnchorInv, ListsInv, [Next]_vars
    PROVE  Grows(dag, dag') /\ ListsInv'
<1>0. Shaped(dag) /\ WaitingInv
    BY DEF AnchorInv, LogInv
<1>1. CASE Anchors
    <2>1. Grows(dag, dag') /\ Lists(dag')
        BY <1>1, AnchorsDag, AnchorDag DEF ListsInv
    <2> QED BY <1>1, <2>1, AnchorsDag DEF ListsInv
<1>2. ASSUME NEW c \in Caller, Call(c) PROVE Grows(dag, dag') /\ ListsInv'
    BY <1>0, <1>2, CallLists, GrowsReflexive
<1>3. CASE ~RunTake /\ ~RunSub /\ ~Anchors /\ \A c \in Caller : ~Call(c)
    BY <1>3, QuietDag, GrowsReflexive DEF ListsInv
<1> QED BY <1>0, <1>1, <1>2, <1>3, TakeDag, SubDag

LEMMA ListsInvariance == Spec => []ListsInv
<1>1. AnchorInv /\ ListsInv /\ [Next]_vars => ListsInv'
    BY NextDag
<1> QED BY <1>1, InitLists, AnchorInvariance, PTL DEF Spec

\* The operators of DagStore are those of the instance of EventGraph.
LEMMA SameGrows == G!Grows(dag, dag') <=> Grows(dag, dag')
BY DEF Grows, Keeps, Enters, Refs, NoAnchor, ToSet,
       G!Grows, G!Keeps, G!Enters, G!Refs, G!NoAnchor, G!ToSet

\* The pool is an event graph that nothing is ever taken out of, whatever IDs its
\* callers name: each event enters after all it refers to, and the only later
\* changes are new children and its first anchor.
THEOREM PoolImplementsGraph == Spec => ImplementsGraph
<1>1. Init => G!Init
    BY DEF Init, G!Init, EmptyStore, G!EmptyStore
<1>2. AnchorInv /\ ListsInv /\ [Next]_vars => [G!Next]_<<dag, {}>>
    BY NextDag, SameGrows DEF G!Next, G!Grow
<1> QED
    BY <1>1, <1>2, AnchorInvariance, ListsInvariance, PTL DEF Spec, ImplementsGraph, G!Spec

\* No reference of the pool's DAG dangles, none can be followed round, and each
\* can be followed backwards, whatever IDs its callers name.
THEOREM PoolDagSound == Spec => []Sound(dag)
<1>1. Init => Sound(dag)
    BY EmptySound DEF Init
<1>2. AnchorInv /\ ListsInv /\ Sound(dag) /\ [Next]_vars => Sound(dag)'
    BY NextDag, GrowsSound
<1> QED BY <1>1, <1>2, AnchorInvariance, ListsInvariance, PTL DEF Spec

-----------------------------------------------------------------------------
(* No call of the loop fails half-way                                      *)

\* While callers name only what is queued or stored, the event the loop takes
\* has its parents in place, or is one that the DAG has already: ...
LEMMA TakeWhole ==
    ASSUME CallsInv, QueueInv, RunTake
    PROVE  Accepts(dag, Head(eventCh)) \/ ~Admissible(dag, Head(eventCh))
<1> DEFINE e == Head(eventCh)
<1>1. e = eventCh[1] /\ 1 \in DOMAIN eventCh
    BY TailSeq DEF RunTake, CallsInv
<1>2. Refs(e) \subseteq DOMAIN dag
    BY <1>1, SeqDomain DEF QueueInv, Ahead, CallsInv
<1>3. ToSet(e.parents) \subseteq Refs(e)
    BY DEF Refs
<1> QED BY <1>2, <1>3 DEF Accepts

\* ... so the children are the referring events, and no others.
LEMMA NextChildrenRefer ==
    ASSUME CIDsNamed, AnchorInv, ListsInv, CallsInv, QueueInv, SpawnInv, ChildrenRefer(dag),
           [Next]_vars
    PROVE  ChildrenRefer(dag)'
<1>0. Shaped(dag) /\ Lists(dag)
    BY DEF AnchorInv, LogInv, ListsInv
<1>1. CASE RunTake
    <2> DEFINE e == Head(eventCh)
    <2>1. dag' = AfterAdd(dag, e) /\ IsSeq(e.parents)
        BY <1>1, TailSeq DEF RunTake, CallsInv, ListsInv
    <2>2. Accepts(dag, e) \/ ~Admissible(dag, e)
        BY <1>1, TakeWhole
    <2> QED BY <1>0, <2>1, <2>2, AfterAddChildrenRefer
<1>2. CASE RunSub
    <2>1. PICK parents \in SubParents :
              dag' = AfterAdd(dag, SubEventOf(cur.id, subNo, parents))
        BY <1>2 DEF RunSub
    <2> DEFINE e == SubEventOf(cur.id, subNo, parents)
    <2>2. Accepts(dag, e)
        <3>1. runPC = "sub" /\ subNo \in Nat /\ subNo <= subNo
            BY <1>2 DEF RunSub, SpawnInv
        <3> QED BY <3>1, NextSubAccepted
    <2>3. IsSeq(e.parents)
        BY BoundedIsSeq, PoolAssumption DEF SubParents, SubEventOf, NewEvent
    <2> QED BY <1>0, <2>1, <2>2, <2>3, AfterAddChildrenRefer
<1>3. CASE Anchors
    BY <1>3, AnchorsDag, AnchorDag
<1>4. CASE \E c \in Caller : Call(c)
    BY <1>4, CallLists DEF AnchorInv
<1>5. CASE ~RunTake /\ ~RunSub /\ ~Anchors /\ \A c \in Caller : ~Call(c)
    BY <1>5, QuietDag
<1> QED BY <1>1, <1>2, <1>3, <1>4, <1>5

\* When callers name only IDs they were handed or saw, Verify never fails and the
\* lists of children are the references read backwards: no AddEvent of the loop
\* is refused after it has made a link.
THEOREM DagAlwaysIntact ==
    ASSUME CIDsNamed
    PROVE  Spec => []DagIntact
<1>1. CASE Foreign = {}
    <2> DEFINE Whole == CallsInv /\ QueueInv /\ SpawnInv /\ ChildrenRefer(dag)
    <2>1. Init => Whole
        <3>1. Init => ChildrenRefer(dag)
            BY DEF Init, ChildrenRefer, EmptyStore
        <3> QED BY <3>1, InitQueue, InitSpawn
    <2>2. AnchorInv /\ ListsInv /\ Whole /\ [Next]_vars => Whole'
        BY <1>1, NextQueue, NextSpawn, NextChildrenRefer
    <2>3. Sound(dag) /\ Whole => DagIntact
        BY SoundVerified DEF DagIntact, Sound, RefsPresent, BackLinked, ChildrenRefer
    <2> HIDE DEF Whole
    <2> QED
        BY <2>1, <2>2, <2>3, AnchorInvariance, ListsInvariance, PoolDagSound, PTL DEF Spec
<1>2. CASE Foreign # {}
    <2>1. DagIntact
        BY <1>2 DEF DagIntact
    <2> QED BY <2>1, PTL
<1> QED BY <1>1, <1>2

-----------------------------------------------------------------------------
(* A turn of the loop                                                      *)

\* How many steps the loop has to take, at most, until it is back in its select.
StepsLeft ==
    CASE runPC = "notify"    -> 2 * MaxSubEvents + 3
      [] runPC = "sub"       -> 2 * (numSubs - subNo) + 2
      [] runPC = "subNotify" -> 2 * (numSubs - subNo) + 1
      [] runPC = "fetch"     -> 1
      [] OTHER               -> 0

\* A step of the loop is one of these, and nobody else makes a turn longer or
\* starts one.
TurnStep ==
    \/ RunBody /\ StepsLeft' < StepsLeft
    \/ RunTake /\ StepsLeft = 0
    \/ StepsLeft' = StepsLeft /\ ~RunBody /\ ~RunTake


LEMMA BodySteps ==
    ASSUME RangeInv, RunBody
    PROVE  StepsLeft' < StepsLeft
<1>1. numSubs \in 0 .. MaxSubEvents /\ subNo \in 0 .. numSubs /\ MaxSubEvents \in Nat
    BY PoolAssumption DEF RangeInv
<1>2. CASE RunNotify
    <2>1. runPC = "notify" /\ runPC' = "sub" /\ numSubs' \in 0 .. MaxSubEvents /\ subNo' = 0
        BY <1>2 DEF RunNotify
    <2> QED BY <1>1, <2>1 DEF StepsLeft
<1>3. CASE RunSub
    <2>1. /\ runPC = "sub" /\ subNo < numSubs /\ numSubs' = numSubs
          /\ \/ runPC' = "subNotify" /\ subNo' = subNo
             \/ runPC' = "sub" /\ subNo' = subNo + 1
        BY <1>3 DEF RunSub
    <2> QED BY <1>1, <2>1 DEF StepsLeft
<1>4. CASE RunSubNotify
    <2>1. /\ runPC = "subNotify" /\ runPC' = "sub" /\ numSubs' = numSubs
          /\ subNo' = subNo + 1
        BY <1>4 DEF RunSubNotify
    <2> QED BY <1>1, <2>1 DEF StepsLeft
<1>5. CASE RunCount \/ RunAnchor \/ RunAnchorClosed
    <2>1. runPC = "sub" /\ runPC' = "select"
        BY <1>5 DEF RunCount, RunAnchor, RunAnchorClosed, MainEventDone, NextIteration
    <2> QED BY <1>1, <2>1 DEF StepsLeft
<1>6. CASE RunFetchStart
    <2>1. runPC = "sub" /\ runPC' = "fetch"
        BY <1>6 DEF RunFetchStart, MainEventDone
    <2> QED BY <1>1, <2>1 DEF StepsLeft
<1>7. CASE RunFetch
    <2>1. runPC = "fetch" /\ runPC' = "select"
        BY <1>7 DEF RunFetch, NextIteration
    <2> QED BY <1>1, <2>1 DEF StepsLeft
<1> QED BY <1>2, <1>3, <1>4, <1>5, <1>6, <1>7 DEF RunBody

\* Each turn of the loop ends after at most 2 * MaxSubEvents + 3 steps of its own,
\* whatever the callers, the subscribers, Close and the beacon do meanwhile; with
\* the fairness of these steps every turn ends.
THEOREM TurnsAreShort ==
    ASSUME CIDsNamed
    PROVE  Spec => [](StepsLeft \in 0 .. 2 * MaxSubEvents + 3) /\ [][TurnStep]_vars
<1>1. RangeInv => StepsLeft \in 0 .. 2 * MaxSubEvents + 3
    <2> SUFFICES ASSUME RangeInv PROVE StepsLeft \in 0 .. 2 * MaxSubEvents + 3
        OBVIOUS
    <2>1. numSubs \in 0 .. MaxSubEvents /\ subNo \in 0 .. numSubs /\ MaxSubEvents \in Nat
        BY PoolAssumption DEF RangeInv
    <2>2. runPC \in {"notify", "sub", "subNotify", "fetch", "select", "exited"}
        BY DEF RangeInv
    <2> QED BY <2>1, <2>2 DEF StepsLeft
<1>2. ASSUME RangeInv, Next PROVE TurnStep
    <2>1. CASE RunBody
        BY <1>2, <2>1, BodySteps DEF TurnStep
    <2>2. CASE RunTake
        BY <2>2 DEF RunTake, TurnStep, StepsLeft
    <2>3. CASE RunDone
        <3>1. ~RunBody /\ ~RunTake
            BY <2>3
            DEF RunDone, RunTake, RunBody, RunNotify, RunSub, RunSubNotify, RunCount,
                RunAnchor, RunAnchorClosed, RunFetchStart, RunFetch, MainEventDone
        <3> QED BY <2>3, <3>1 DEF RunDone, TurnStep, StepsLeft
    <2>4. CASE ~RunBody /\ ~RunTake /\ ~RunDone
        <3>1. UNCHANGED runVars
            BY <1>2, <2>4
            DEF Next, Call, CallAdd, CallSend, CallRefused, CallAbandoned, Subscription,
                Subscribe, Unsubscribe, Receive, Run, RunVerify, Close, CloseBegin, CloseErr,
                CloseSubs, Environment, ParentCancel, DrainErr, NewRound, BeaconSend,
                BeaconStop
        <3> QED BY <2>4, <3>1 DEF TurnStep, StepsLeft
    <2> QED BY <2>1, <2>2, <2>3, <2>4
<1>3. RangeInv /\ [Next]_vars => [TurnStep]_vars
    BY <1>2
<1> QED BY <1>1, <1>3, RangeInvariance, PTL DEF Spec

=============================================================================

----------------------------- MODULE EventPool -----------------------------
(***************************************************************************)
(* eventPool (pool/pool.go): callers queue events, one run goroutine puts  *)
(* them into the DAG, tells the subscribers, spawns sub-events and anchors *)
(* every AnchorInterval-th main event to a drand round; Close shuts all of *)
(* it down while callers, subscribers and the beacon go on.                *)
(*                                                                         *)
(* Processes: the callers of AddEvent, the subscribers, the run goroutine, *)
(* the goroutine that calls Close, and the beacon (a feed of rounds, see   *)
(* BeaconFeed, and a fetch).                                               *)
(*                                                                         *)
(* A step is what one goroutine does between two points where another can  *)
(* see or change what it uses: the body of a critical section, a channel   *)
(* operation, a blocking call.                                             *)
(***************************************************************************)
EXTENDS DagStore, Integers

CONSTANTS
    Caller,          \* goroutines that call AddEvent
    Subscriber,      \* Subscribe calls, one handle each
    Data,            \* payloads of main events, numbers
    Foreign,         \* IDs callers name as parents before any AddEvent returned them
    QueueCap,        \* capacity of eventCh (100)
    SubBuf,          \* subscriberBufferSize (100)
    ErrCap,          \* capacity of errCh (100)
    MaxRecent,       \* maxRecentEvents (100)
    MaxSubEvents,    \* most sub-events of a main event (3; 0: SubEventComplex is 0)
    MaxSubParents,   \* maxSubEventParents (3)
    AnchorInterval,  \* cfg.AnchorInterval
    ChainPeriod,     \* time from one round of the chain to the next
    Period,          \* cfg.Period of the beacon = cfg.BeaconInterval
    MaxAge,          \* maxAge of validateBeaconRound (1 hour)
    MaxLag,          \* how far an answer of the drand relay may be behind, in rounds
    MaxParents,      \* bound: longest Parents slice callers pass
    MaxRound,        \* bound: rounds that drand publishes
    MaxCalls         \* bound: AddEvent calls

ASSUME PoolAssumption ==
    /\ {QueueCap, SubBuf, ErrCap, MaxRecent, AnchorInterval} \subseteq Nat \ {0}
    /\ {ChainPeriod, Period} \subseteq Nat \ {0}
    /\ {MaxSubEvents, MaxSubParents, MaxAge, MaxLag, MaxParents, MaxRound, MaxCalls} \subseteq Nat
    /\ Data \subseteq Nat

VARIABLES
    dag,             \* p.dag: a store
    log,             \* history: the order of insertion, <<[id, at], ...>>
    eventCh,         \* queued events
    runPC,           \* where the run goroutine is
    cur,             \* its event
    sub,             \* the sub-event it has just stored
    numSubs,         \* how many sub-events it creates for cur
    subNo,           \* how many it has dealt with
    recent,          \* p.recentEvents
    eventCount,      \* main events since the last anchor
    lastBeaconRound, \* p.lastBeaconRound
    now,             \* the latest round that drand has published
    beaconCh,        \* p.beaconCh: at most one round
    beaconClosed,    \* the beacon has closed it (Stop)
    running,         \* p.running
    done,            \* p.done is closed
    cancelled,       \* the context of run is done
    closer,          \* where Close is
    errs,            \* length of errCh
    errClosed,       \* errCh is closed
    subscribers,     \* p.subscribers (nothing depends on the order of the slice)
    chan,            \* the subscribers' channels
    pending,         \* the event each caller is about to queue
    returned,        \* the IDs that AddEvent has returned
    calls,           \* number of AddEvent calls
    panicked         \* history: a send on or a close of a closed channel

runVars    == <<runPC, cur, sub, numSubs, subNo, recent, eventCount, lastBeaconRound>>
dagVars    == <<dag, log>>
beaconVars == <<now, beaconCh, beaconClosed>>
closeVars  == <<running, done, cancelled, closer, errClosed>>
subVars    == <<subscribers, chan>>
callVars   == <<pending, returned, calls>>

vars == <<dagVars, eventCh, runVars, beaconVars, closeVars, errs, subVars,
          callVars, panicked>>

-----------------------------------------------------------------------------
(* Events and their content IDs                                            *)

\* ComputeCID: the hash covers type, ParentID, the sorted Parents and Data,
\* so it tells apart exactly what these tell apart (SHA-256 is taken as
\* injective).  Sorting makes it a function of the bag of parents.
ContentID(type, parentID, parents, data) ==
    [type |-> type, parentID |-> parentID, parents |-> ToBag(parents), data |-> data]

NewEvent(type, parentID, parents, data) ==
    [id       |-> ContentID(type, parentID, parents, data),
     type     |-> type,
     parentID |-> parentID,
     parents  |-> parents]

NoEvent == [id |-> NoID, type |-> "MainEvent", parentID |-> NoID, parents |-> << >>]

\* The beacon's channel is the feed that DrandBeacon implements.
Feed == INSTANCE BeaconFeed WITH
    published <- now, held <- beaconCh, closed <- beaconClosed

-----------------------------------------------------------------------------
Init ==
    /\ dag = EmptyStore /\ log = << >>
    /\ eventCh = << >>
    /\ runPC = "select" /\ cur = NoEvent /\ sub = NoEvent
    /\ numSubs = 0 /\ subNo = 0
    /\ recent = << >> /\ eventCount = 0 /\ lastBeaconRound = 0
    /\ now = 0 /\ beaconCh = << >> /\ beaconClosed = FALSE
    /\ running = TRUE /\ done = FALSE /\ cancelled = FALSE
    /\ closer = "idle" /\ errs = 0 /\ errClosed = FALSE
    /\ subscribers = {}
    /\ chan = [s \in Subscriber |->
                  [state |-> "none", sent |-> << >>, read |-> 0, lost |-> 0, from |-> 0]]
    /\ pending = [c \in Caller |-> NoEvent]
    /\ returned = {} /\ calls = 0
    /\ panicked = FALSE

-----------------------------------------------------------------------------
(* AddEvent                                                                *)

\* A caller can name what it has been handed, what a subscription or the DAG
\* shows, and IDs it got elsewhere.
Nameable == returned \cup DOMAIN dag \cup Foreign

\* Mutated form: the ID is handed out before the event is in the queue.
CallAdd_EarlyID(c) ==
    /\ pending[c] = NoEvent
    /\ ~done
    /\ calls < MaxCalls
    /\ \E data \in Data, parents \in BoundedSeq(Nameable, MaxParents) :
          LET e == NewEvent("MainEvent", NoID, parents, data)
          IN  pending' = [pending EXCEPT ![c] = e] /\ returned' = returned \cup {e.id}
    /\ calls' = calls + 1
    /\ UNCHANGED <<dagVars, eventCh, runVars, beaconVars, closeVars, errs,
                   subVars, panicked>>

\* The fast-path check, then the event is built.
CallAdd(c) ==
    /\ pending[c] = NoEvent
    /\ ~done
    /\ calls < MaxCalls
    /\ \E data \in Data, parents \in BoundedSeq(Nameable, MaxParents) :
          pending' = [pending EXCEPT ![c] = NewEvent("MainEvent", NoID, parents, data)]
    /\ calls' = calls + 1
    /\ UNCHANGED <<dagVars, eventCh, runVars, beaconVars, closeVars, errs,
                   subVars, returned, panicked>>

\* The select: each ready case can be the one taken, so an event is still
\* queued after Close if there is room.
CallSend(c) ==
    /\ pending[c] # NoEvent
    /\ Len(eventCh) < QueueCap
    /\ eventCh' = Append(eventCh, pending[c])
    /\ returned' = returned \cup {pending[c].id}
    /\ pending' = [pending EXCEPT ![c] = NoEvent]
    /\ UNCHANGED <<dagVars, runVars, beaconVars, closeVars, errs, subVars,
                   calls, panicked>>

CallRefused(c) ==
    /\ pending[c] # NoEvent
    /\ done
    /\ pending' = [pending EXCEPT ![c] = NoEvent]
    /\ UNCHANGED <<dagVars, eventCh, runVars, beaconVars, closeVars, errs,
                   subVars, returned, calls, panicked>>

\* The caller's own context is done.
CallAbandoned(c) ==
    /\ pending[c] # NoEvent
    /\ pending' = [pending EXCEPT ![c] = NoEvent]
    /\ UNCHANGED <<dagVars, eventCh, runVars, beaconVars, closeVars, errs,
                   subVars, returned, calls, panicked>>

-----------------------------------------------------------------------------
(* Subscriptions                                                           *)

\* How many log entries the subscribers have been told of: the run goroutine
\* stores an event before it notifies.
Notified == IF runPC \in {"notify", "subNotify"} THEN Len(log) - 1 ELSE Len(log)

\* Mutated form: Subscribe does not look at running.
Subscribe_Always(s) ==
    /\ chan[s].state = "none"
    /\ subscribers' = subscribers \cup {s}
    /\ chan' = [chan EXCEPT ![s].state = "open", ![s].from = Notified]
    /\ UNCHANGED <<dagVars, eventCh, runVars, beaconVars, closeVars, errs,
                   callVars, panicked>>

Subscribe(s) ==
    /\ running
    /\ chan[s].state = "none"
    /\ subscribers' = subscribers \cup {s}
    /\ chan' = [chan EXCEPT ![s].state = "open", ![s].from = Notified]
    /\ UNCHANGED <<dagVars, eventCh, runVars, beaconVars, closeVars, errs,
                   callVars, panicked>>

\* Mutated form: the subscription stays in p.subscribers.
Unsubscribe_Keep(s) ==
    /\ s \in subscribers
    /\ chan' = [chan EXCEPT ![s].state = "closed"]
    /\ panicked' = (panicked \/ chan[s].state = "closed")
    /\ UNCHANGED <<subscribers, dagVars, eventCh, runVars, beaconVars, closeVars,
                   errs, callVars>>

\* Unsubscribe: nothing happens to a subscription that Close has closed.
Unsubscribe(s) ==
    /\ s \in subscribers
    /\ subscribers' = subscribers \ {s}
    /\ chan' = [chan EXCEPT ![s].state = "closed"]
    /\ panicked' = (panicked \/ chan[s].state = "closed")
    /\ UNCHANGED <<dagVars, eventCh, runVars, beaconVars, closeVars, errs,
                   callVars>>

\* A read from Events(); what a closed channel still holds can be read.
Receive(s) ==
    /\ chan[s].read < Len(chan[s].sent)
    /\ chan' = [chan EXCEPT ![s].read = @ + 1]
    /\ UNCHANGED <<subscribers, dagVars, eventCh, runVars, beaconVars, closeVars,
                   errs, callVars, panicked>>

-----------------------------------------------------------------------------
(* What the run goroutine calls                                            *)

\* notifySubscribers: one non-blocking send to each; a full buffer loses it.
NotifySubscribers(id) ==
    /\ chan' = [s \in Subscriber |->
          IF s \notin subscribers THEN chan[s]
          ELSE IF Len(chan[s].sent) - chan[s].read < SubBuf
               THEN [chan[s] EXCEPT !.sent = Append(@, id)]
               ELSE [chan[s] EXCEPT !.lost = @ + 1]]
    /\ panicked' = (panicked \/ \E s \in subscribers : chan[s].state = "closed")
    /\ UNCHANGED subscribers

\* Mutated form: the send waits for room in errCh.
SendError_Wait ==
    /\ errs < ErrCap
    /\ errs' = errs + 1
    /\ panicked' = (panicked \/ errClosed)

\* sendError: a full errCh drops the error.
SendError ==
    /\ errs' = IF errs < ErrCap THEN errs + 1 ELSE errs
    /\ panicked' = (panicked \/ errClosed)

\* Mutated form: the list is not trimmed.
Recent_Untrimmed(id) == Append(recent, id)

\* addRecentEvent
Recent(id) ==
    LET longer == Append(recent, id)
    IN  IF Len(longer) > MaxRecent THEN Tail(longer) ELSE longer

\* selectRandomParents: distinct recent events, at least one if there is any
\* (the first try always finds an unused one); << >> is the other outcome of
\* the probability check before the call.
SubParents ==
    {ps \in BoundedSeq(ToSet(recent), MaxSubParents) : IsInjective(ps)}

SubEventOf(id, n, parents) == NewEvent("SubEvent", id, parents, n)

\* What a fetch yields: a round, the latest or one that a relay still serves,
\* or 0 for an error or a body without a valid round.
Answers == {0} \cup {r \in 1 .. now : now <= r + MaxLag}

\* The time that parseResponse gives a round, counted from genesis, and the
\* time at which the chain published it: the same only if the polling interval
\* is the chain's.
Timestamp(r) == (r - 1) * Period
Published(r) == (r - 1) * ChainPeriod

\* What the clock can show while now is the latest round.
Instants == Published(now) .. Published(now + 1) - 1

\* Mutated form: a round of any age will do.
ValidRound_AnyAge(r, t) == r # 0

\* A round with a number whose timestamp is not more than an hour old, one in
\* the future included; 0 stands for every round that validateBeaconRound
\* refuses for its content.
ValidRound(r, t) == r # 0 /\ t - Timestamp(r) <= MaxAge

\* Mutated form: the same round anchors again.
AnchorWith_NotNewer(r, count) ==
    \E t \in Instants :
        IF ValidRound(r, t) /\ r >= lastBeaconRound
        THEN /\ dag' = [dag EXCEPT ![cur.id].beacon = r]
             /\ lastBeaconRound' = r
             /\ eventCount' = 0
             /\ UNCHANGED <<errs, panicked>>
        ELSE /\ eventCount' = count
             /\ SendError
             /\ UNCHANGED <<dag, lastBeaconRound>>

\* Mutated form: the count goes on after an anchor.
AnchorWith_KeepCount(r, count) ==
    \E t \in Instants :
        IF ValidRound(r, t) /\ r > lastBeaconRound
        THEN /\ dag' = [dag EXCEPT ![cur.id].beacon = r]
             /\ lastBeaconRound' = r
             /\ eventCount' = count
             /\ UNCHANGED <<errs, panicked>>
        ELSE /\ eventCount' = count
             /\ SendError
             /\ UNCHANGED <<dag, lastBeaconRound>>

\* The end of the anchoring step, with the round in hand and the clock at t: an
\* invalid or a stale round is reported, and the count is kept for the next
\* event.
AnchorWith(r, count) ==
    \E t \in Instants :
        IF ValidRound(r, t) /\ r > lastBeaconRound
        THEN /\ dag' = [dag EXCEPT ![cur.id].beacon = r]
             /\ lastBeaconRound' = r
             /\ eventCount' = 0
             /\ UNCHANGED <<errs, panicked>>
        ELSE /\ eventCount' = count
             /\ SendError
             /\ UNCHANGED <<dag, lastBeaconRound>>

-----------------------------------------------------------------------------
(* The run goroutine                                                       *)

\* ctx.Done in the select; queued events are left where they are.
RunDone ==
    /\ runPC = "select"
    /\ cancelled
    /\ runPC' = "exited"
    /\ UNCHANGED <<dagVars, eventCh, cur, sub, numSubs, subNo, recent, eventCount,
                   lastBeaconRound, beaconVars, closeVars, errs, subVars, callVars,
                   panicked>>

\* Mutated form: no continue after the failed dag.AddEvent.
RunTake_NoContinue ==
    /\ runPC = "select"
    /\ eventCh # << >>
    /\ LET e == Head(eventCh)
       IN  /\ eventCh' = Tail(eventCh)
           /\ dag' = AfterAdd(dag, e)
           /\ cur' = e
           /\ runPC' = "notify"
           /\ IF Accepts(dag, e)
              THEN log' = Append(log, [id |-> e.id, at |-> now]) /\ UNCHANGED <<errs, panicked>>
              ELSE SendError /\ UNCHANGED log
    /\ UNCHANGED <<sub, numSubs, subNo, recent, eventCount, lastBeaconRound,
                   beaconVars, closeVars, subVars, callVars>>

\* An event is taken from the queue and offered to the DAG; if it is refused
\* the loop goes round.  No other goroutine of the pool writes the DAG; that the
\* users to whom Node.DAG hands it (node.go:198) only read it is presumed.
RunTake ==
    /\ runPC = "select"
    /\ eventCh # << >>
    /\ LET e == Head(eventCh)
       IN  /\ eventCh' = Tail(eventCh)
           /\ dag' = AfterAdd(dag, e)
           /\ IF Accepts(dag, e)
              THEN /\ log' = Append(log, [id |-> e.id, at |-> now])
                   /\ cur' = e
                   /\ runPC' = "notify"
                   /\ UNCHANGED <<errs, panicked>>
              ELSE /\ SendError
                   /\ UNCHANGED <<log, cur, runPC>>
    /\ UNCHANGED <<sub, numSubs, subNo, recent, eventCount, lastBeaconRound,
                   beaconVars, closeVars, subVars, callVars>>

\* The subscribers are told, the event becomes a recent one, and the number
\* of its sub-events is drawn (0: shouldCreateSubEvent said no).
RunNotify ==
    /\ runPC = "notify"
    /\ NotifySubscribers(cur.id)
    /\ recent' = Recent(cur.id)
    /\ numSubs' \in 0 .. MaxSubEvents
    /\ subNo' = 0
    /\ runPC' = "sub"
    /\ UNCHANGED <<dagVars, eventCh, cur, sub, eventCount, lastBeaconRound,
                   beaconVars, closeVars, errs, callVars>>

\* Mutated form: the sub-event takes the place of the loop's event.
RunSub_Shadow ==
    /\ runPC = "sub"
    /\ subNo < numSubs
    /\ \E parents \in SubParents :
          LET e == SubEventOf(cur.id, subNo, parents)
          IN  /\ dag' = AfterAdd(dag, e)
              /\ IF Accepts(dag, e)
                 THEN /\ log' = Append(log, [id |-> e.id, at |-> now])
                      /\ sub' = e
                      /\ cur' = e
                      /\ runPC' = "subNotify"
                      /\ UNCHANGED <<subNo, errs, panicked>>
                 ELSE /\ subNo' = subNo + 1
                      /\ SendError
                      /\ UNCHANGED <<log, cur, sub, runPC>>
    /\ UNCHANGED <<eventCh, numSubs, recent, eventCount, lastBeaconRound,
                   beaconVars, closeVars, subVars, callVars>>

\* One sub-event is built and offered to the DAG.
RunSub ==
    /\ runPC = "sub"
    /\ subNo < numSubs
    /\ \E parents \in SubParents :
          LET e == SubEventOf(cur.id, subNo, parents)
          IN  /\ dag' = AfterAdd(dag, e)
              /\ IF Accepts(dag, e)
                 THEN /\ log' = Append(log, [id |-> e.id, at |-> now])
                      /\ sub' = e
                      /\ runPC' = "subNotify"
                      /\ UNCHANGED <<subNo, errs, panicked>>
                 ELSE /\ subNo' = subNo + 1
                      /\ SendError
                      /\ UNCHANGED <<log, sub, runPC>>
    /\ UNCHANGED <<eventCh, cur, numSubs, recent, eventCount, lastBeaconRound,
                   beaconVars, closeVars, subVars, callVars>>

RunSubNotify ==
    /\ runPC = "subNotify"
    /\ NotifySubscribers(sub.id)
    /\ recent' = Recent(sub.id)
    /\ subNo' = subNo + 1
    /\ runPC' = "sub"
    /\ sub' = NoEvent
    /\ UNCHANGED <<dagVars, eventCh, cur, numSubs, eventCount, lastBeaconRound,
                   beaconVars, closeVars, errs, callVars>>

\* The sub-events are done; the anchor is next.
MainEventDone == runPC = "sub" /\ subNo = numSubs

AnchorDue == eventCount + 1 >= AnchorInterval

\* Back to the select, the loop's locals gone.
NextIteration ==
    /\ runPC' = "select"
    /\ cur' = NoEvent
    /\ numSubs' = 0
    /\ subNo' = 0

RunCount ==
    /\ MainEventDone
    /\ ~AnchorDue
    /\ eventCount' = eventCount + 1
    /\ NextIteration
    /\ UNCHANGED <<dagVars, eventCh, sub, recent, lastBeaconRound, beaconVars,
                   closeVars, errs, subVars, callVars, panicked>>

\* ensureBeaconRound: what the channel holds comes first ...
RunAnchor ==
    /\ MainEventDone
    /\ AnchorDue
    /\ Feed!Take
    /\ AnchorWith(Head(beaconCh), eventCount + 1)
    /\ NextIteration
    /\ UNCHANGED <<log, eventCh, sub, recent, closeVars, subVars, callVars>>

\* ... a closed channel yields nil, which is refused ...
RunAnchorClosed ==
    /\ MainEventDone
    /\ AnchorDue
    /\ beaconCh = << >>
    /\ beaconClosed
    /\ AnchorWith(0, eventCount + 1)
    /\ NextIteration
    /\ UNCHANGED <<log, eventCh, sub, recent, beaconVars, closeVars, subVars, callVars>>

\* Mutated form: no default in the select, the channel is waited for.
RunFetchStart_Wait == FALSE

\* ... and only an empty one leads to GetLatestRound,
RunFetchStart ==
    /\ MainEventDone
    /\ AnchorDue
    /\ beaconCh = << >>
    /\ ~beaconClosed
    /\ runPC' = "fetch"
    /\ UNCHANGED <<dagVars, eventCh, cur, sub, numSubs, subNo, recent, eventCount,
                   lastBeaconRound, beaconVars, closeVars, errs, subVars, callVars,
                   panicked>>

\* which answers after a while.
RunFetch ==
    /\ runPC = "fetch"
    /\ \E r \in Answers : AnchorWith(r, eventCount + 1)
    /\ NextIteration
    /\ UNCHANGED <<log, eventCh, sub, recent, beaconVars, closeVars, subVars, callVars>>

\* verifyTicker: only a failed Verify has an effect.
RunVerify ==
    /\ runPC = "select"
    /\ ~Verified(dag)
    /\ SendError
    /\ UNCHANGED <<dagVars, eventCh, runVars, beaconVars, closeVars, subVars, callVars>>

-----------------------------------------------------------------------------
(* Close, the context, the reader of Errors                                *)

\* Mutated form: done is left open.
CloseBegin_CancelOnly ==
    /\ closer = "idle"
    /\ running' = FALSE
    /\ cancelled' = TRUE
    /\ closer' = "waiting"
    /\ UNCHANGED <<done, errClosed, dagVars, eventCh, runVars, beaconVars, errs, subVars,
                   callVars, panicked>>

\* The first critical section of Close; closeOnce makes later calls wait for
\* this one and do nothing.
CloseBegin ==
    /\ closer = "idle"
    /\ running' = FALSE
    /\ done' = TRUE
    /\ cancelled' = TRUE
    /\ closer' = "waiting"
    /\ UNCHANGED <<errClosed, dagVars, eventCh, runVars, beaconVars, errs, subVars,
                   callVars, panicked>>

\* Mutated form: no wg.Wait.
CloseErr_NoWait ==
    /\ closer = "waiting"
    /\ panicked' = (panicked \/ errClosed)
    /\ errClosed' = TRUE
    /\ closer' = "closing"
    /\ UNCHANGED <<running, done, cancelled, dagVars, eventCh, runVars, beaconVars, errs,
                   subVars, callVars>>

\* wg.Wait returns and errCh is closed.
CloseErr ==
    /\ closer = "waiting"
    /\ runPC = "exited"
    /\ panicked' = (panicked \/ errClosed)
    /\ errClosed' = TRUE
    /\ closer' = "closing"
    /\ UNCHANGED <<running, done, cancelled, dagVars, eventCh, runVars, beaconVars, errs,
                   subVars, callVars>>

\* The second critical section: the channels of the remaining subscribers.
CloseSubs ==
    /\ closer = "closing"
    /\ chan' = [s \in Subscriber |->
          IF s \in subscribers THEN [chan[s] EXCEPT !.state = "closed"] ELSE chan[s]]
    /\ panicked' = (panicked \/ \E s \in subscribers : chan[s].state = "closed")
    /\ subscribers' = {}
    /\ closer' = "returned"
    /\ UNCHANGED <<running, done, cancelled, errClosed, dagVars, eventCh, runVars,
                   beaconVars, errs, callVars>>

\* The context given to NewPool is cancelled by its owner: the loop stops,
\* the pool is not closed.
ParentCancel ==
    /\ ~cancelled
    /\ cancelled' = TRUE
    /\ UNCHANGED <<running, done, closer, errClosed, dagVars, eventCh, runVars,
                   beaconVars, errs, subVars, callVars, panicked>>

\* A read from Errors().
DrainErr ==
    /\ errs > 0
    /\ errs' = errs - 1
    /\ UNCHANGED <<dagVars, eventCh, runVars, beaconVars, closeVars, subVars,
                   callVars, panicked>>

-----------------------------------------------------------------------------
(* The beacon                                                              *)

NewRound ==
    /\ now < MaxRound
    /\ Feed!Publish
    /\ UNCHANGED <<dagVars, eventCh, runVars, closeVars, errs, subVars, callVars, panicked>>

\* A full channel keeps the older round and the new one is lost (no step).
BeaconSend ==
    /\ Feed!Offer
    /\ UNCHANGED <<dagVars, eventCh, runVars, closeVars, errs, subVars, callVars, panicked>>

BeaconStop ==
    /\ Feed!Close
    /\ UNCHANGED <<dagVars, eventCh, runVars, closeVars, errs, subVars, callVars, panicked>>

-----------------------------------------------------------------------------
Call(c) == CallAdd(c) \/ CallSend(c) \/ CallRefused(c) \/ CallAbandoned(c)

Subscription(s) == Subscribe(s) \/ Unsubscribe(s) \/ Receive(s)

\* One turn of the loop once an event is in hand.
RunBody ==
    \/ RunNotify \/ RunSub \/ RunSubNotify \/ RunCount
    \/ RunAnchor \/ RunAnchorClosed \/ RunFetchStart \/ RunFetch

Run == RunDone \/ RunTake \/ RunBody \/ RunVerify

Close == CloseBegin \/ CloseErr \/ CloseSubs

Environment == ParentCancel \/ DrainErr \/ NewRound \/ BeaconSend \/ BeaconStop

Next ==
    \/ \E c \in Caller : Call(c)
    \/ \E s \in Subscriber : Subscription(s)
    \/ Run
    \/ Close
    \/ Environment

Spec == Init /\ [][Next]_vars

\* Go runs every goroutine that can run.  In the loop's select the runtime
\* picks among the ready cases at random, so one that is ready again and again
\* is taken in the end: strong fairness for RunDone and RunTake.  The fetch
\* has a 10 s timeout.  Nothing is assumed of the callers' contexts, of the
\* readers of Events and Errors, of the beacon, or of anyone calling Close.
Fairness ==
    /\ SF_vars(RunDone) /\ SF_vars(RunTake)
    /\ WF_vars(RunBody)
    /\ \A c \in Caller : WF_vars(CallSend(c) \/ CallRefused(c))
    /\ WF_vars(CloseErr) /\ WF_vars(CloseSubs)

FairSpec == Spec /\ Fairness

-----------------------------------------------------------------------------
(* Properties                                                              *)

IDsOf(entries) == {entries[i].id : i \in DOMAIN entries}

\* The buffers keep to their capacities, the log and the DAG name the same
\* events, and the loop's locals are set where they are used.
TypeOK ==
    /\ IDsOf(log) = DOMAIN dag
    /\ \A i, j \in DOMAIN log : log[i].id = log[j].id => i = j
    /\ Len(eventCh) <= QueueCap /\ Len(recent) <= MaxRecent
    /\ runPC \in {"select", "notify", "sub", "subNotify", "fetch", "exited"}
    /\ cur # NoEvent <=> runPC \in {"notify", "sub", "subNotify", "fetch"}
    /\ sub # NoEvent <=> runPC = "subNotify"
    /\ subNo \in 0 .. numSubs /\ numSubs \in 0 .. MaxSubEvents
    /\ eventCount \in 0 .. MaxCalls
    /\ lastBeaconRound \in 0 .. now /\ now \in 0 .. MaxRound
    /\ beaconCh = << >> \/ \E r \in 0 .. now : beaconCh = <<r>>
    /\ closer \in {"idle", "waiting", "closing", "returned"}
    /\ errs \in 0 .. ErrCap
    /\ \A s \in Subscriber :
          /\ chan[s].state \in {"none", "open", "closed"}
          /\ chan[s].read \in 0 .. Len(chan[s].sent)
          /\ Len(chan[s].sent) - chan[s].read <= SubBuf

\* --- the DAG the pool builds ---

\* When callers only name IDs they were handed or saw in the DAG, whatever is
\* queued finds its parents in place when its turn comes, in every order of
\* callers (the ID is returned only once the event is in the queue).
QueuedParentsReady ==
    Foreign = {} =>
        \A i \in DOMAIN eventCh :
            Refs(eventCh[i])
                \subseteq DOMAIN dag \cup {eventCh[j].id : j \in 1 .. i - 1}

\* No sub-event the loop could create now is refused: the IDs of sub-events
\* never collide with each other or with those of another turn, although they
\* are made of small numbers, and recent events are never missing.
SubEventsAccepted ==
    runPC = "sub" =>
        \A n \in subNo .. numSubs - 1 : \A parents \in SubParents :
            Accepts(dag, SubEventOf(cur.id, n, parents))

\* When callers only name IDs they were handed or saw in the DAG, the periodic
\* Verify never fails, and the lists of children are the references read
\* backwards (dag.go:48), which a DAG with other users can break: no call that the
\* loop makes is refused after it has made a link.  It presumes that nobody else
\* adds to the DAG or imports into it.
DagIntact ==
    Foreign = {} =>
        /\ Verified(dag)
        /\ \A p, c \in DOMAIN dag : c \in ToSet(dag[p].children) <=> p \in Refs(dag[c])

G == INSTANCE EventGraph WITH graph <- dag, copies <- {}

\* Whatever callers name, what the pool makes of its DAG, anchors included, is an
\* event graph of which nothing is ever lost or changed.
ImplementsGraph == G!Spec

\* --- anchors ---

Round(i) == dag[log[i].id].beacon

Anchored == {i \in DOMAIN log : Round(i) # NoAnchor}

IsMain(i) == dag[log[i].id].type = "MainEvent"

\* Anchors follow the order of insertion: of two anchored events the later
\* one has the later round, and lastBeaconRound is the last of them.  What they
\* tell of time is that whatever had been inserted by then was there at most
\* MaxAge after the time that the code computes for the round.  That is not the
\* round's own time: with a polling interval above the chain's period the
\* computed one is later, by more with every round.
AnchorsFollowInsertion ==
    /\ \A i, j \in Anchored : i < j => Round(i) < Round(j)
    /\ \A i \in Anchored : IsMain(i) /\ Round(i) <= lastBeaconRound
    /\ \A j \in Anchored : \A i \in 1 .. j : Published(log[i].at) <= Timestamp(Round(j)) + MaxAge

\* The main events from the anchor before j, exclusive, to j.
Span(j) == {k \in 1 .. j : IsMain(k) /\ \A i \in Anchored : i < j => i < k}

\* Between two anchors, and before the first, there are at least
\* AnchorInterval main events (the later anchored one counted): no anchor comes
\* early, whatever failed, was stale or anchored before it.
AnchorsSpaced == \A j \in Anchored : Cardinality(Span(j)) >= AnchorInterval

\* The DAG in the order of insertion.
timeline ==
    [i \in DOMAIN log |->
        [id    |-> log[i].id,
         refs  |-> Refs(dag[log[i].id]),
         main  |-> IsMain(i),
         round |-> Round(i)]]

T == INSTANCE Timeline

\* The pool keeps a timeline: whatever the run loop, the callers and the
\* beacon do, its log extends and anchors as Timeline allows.
ImplementsTimeline == T!Spec

\* --- subscribers ---

\* A subscriber gets the events of the log in their order, from the moment it
\* subscribed until its channel is closed; what is missing was counted as
\* dropped, one for one.
DeliveredInOrder ==
    \A s \in Subscriber :
        LET c    == chan[s]
            told == Len(c.sent) + c.lost
            ids  == [i \in 1 .. told |-> log[c.from + i].id]
        IN  /\ c.from + told <= Notified
            /\ c.state = "open" => c.from + told = Notified
            /\ c.lost = 0 => c.sent = ids
            /\ \E at \in [DOMAIN c.sent -> 1 .. told] :
                  /\ \A i, j \in DOMAIN c.sent : i < j => at[i] < at[j]
                  /\ \A i \in DOMAIN c.sent : c.sent[i] = ids[at[i]]

\* --- shutdown ---

\* Nothing is sent on a closed channel and no channel is closed twice,
\* however Close, Unsubscribe and the run loop interleave.
NoPanic == ~panicked

\* When Close returns, the loop has stopped and every channel the pool handed
\* out is closed, so no reader of Events or Errors waits for ever; no
\* subscription is made after that.
CloseComplete ==
    closer = "returned" =>
        /\ runPC = "exited"
        /\ errClosed
        /\ subscribers = {}
        /\ \A s \in Subscriber : chan[s].state # "open"

\* --- liveness ---

\* Close returns, even if nobody reads Errors or Events any more.
CloseReturns == (closer = "waiting") ~> (closer = "returned")

\* No caller stays in AddEvent once the pool is being closed.
CallersReleased ==
    \A c \in Caller : (closer # "idle" /\ pending[c] # NoEvent) ~> (pending[c] = NoEvent)

\* As long as the loop runs, the queue is emptied: no subscriber, error or
\* beacon can hold it up.
QueueDrains == (eventCh # << >>) ~> (eventCh = << >> \/ runPC = "exited")

\* --- what the documents say and the code does not do ---

\* "all preceding events in the DAG (including sub-events) happened before or
\* by the time of that drand reference" (README.md:158): no event inserted
\* before an anchored one came after the anchor's round was superseded.
EventsPrecedeRound ==
    \A j \in Anchored : \A i \in 1 .. j : log[i].at <= Round(j)

=============================================================================

-------------------------- MODULE HashpoolAdapter --------------------------
(***************************************************************************)
(* Adapter (hashpool/adapter.go): the hashpool node calls                  *)
(* handleCommitment for every commitment, from goroutines of its own, and  *)
(* the adapter makes an event of each that refers to the one before.       *)
(* Start and Stop give up a.mu before they call the hashpool node, so they *)
(* can meet each other and the callbacks half-way.                         *)
(*                                                                         *)
(* Of the pool there is what AddEvent shows: the queue and whether the     *)
(* pool is closed.  The hashpool node is external: it may call back        *)
(* whenever it likes, until and after its own Stop.                        *)
(***************************************************************************)
EXTENDS Naturals, Sequences

CONSTANTS
    Owner,              \* goroutines that call Start and Stop
    Commitment,         \* the commitments; also the IDs of their events
    NoEventID,          \* the empty lastEventID
    ChainCommitments,   \* cfg.ChainCommitments
    QueueCap,           \* room in the pool's queue
    ErrCap,             \* room in errCh
    MaxStarts           \* bound: calls of Start that get past the check

ASSUME AdapterAssumption ==
    /\ NoEventID \notin Commitment
    /\ ChainCommitments \in BOOLEAN
    /\ {QueueCap, ErrCap, MaxStarts} \subseteq Nat

VARIABLES
    running,       \* a.running
    ctx,           \* a.ctx: contexts are numbered by the Start that made them
    cancelled,     \* the contexts that are done
    lastEventID,   \* a.lastEventID
    hashpool,      \* the hashpool node, by its last call to return: "new", "started",
                   \* "failed" (Start), "stopped"
    owner,         \* "idle", "starting", "stopping" (hashpool.Stop), "draining" (Wait)
    callback,      \* handleCommitment(c)
    queue,         \* number of events in the pool's queue
    poolDone,      \* the pool is closed
    errs,          \* number of errors in errCh
    errClosed,     \* errCh is closed
    chain,         \* history: the events, in the order in which they were queued
    panicked       \* history: "send" on a closed channel, second "close"

ownerVars == <<running, ctx, cancelled, hashpool, owner, errClosed>>
poolVars  == <<queue, poolDone, chain>>
vars == <<ownerVars, poolVars, lastEventID, callback, errs, panicked>>

\* The callbacks that callbackWG counts.
InFlight == {c \in Commitment : callback[c].pc \in {"adding", "record", "error"}}

Init ==
    /\ running = FALSE /\ ctx = 0 /\ cancelled = {}
    /\ lastEventID = NoEventID /\ hashpool = "new"
    /\ owner = [o \in Owner |-> "idle"]
    /\ callback = [c \in Commitment |->
                     [pc |-> "none", parent |-> NoEventID, ctx |-> 0, met |-> {}]]
    /\ queue = 0 /\ poolDone = FALSE /\ chain = << >>
    /\ errs = 0 /\ errClosed = FALSE
    /\ panicked = {}

-----------------------------------------------------------------------------
(* Start and Stop                                                          *)

Start(o) ==
    /\ owner[o] = "idle"
    /\ ~running
    /\ ctx < MaxStarts
    /\ running' = TRUE
    /\ ctx' = ctx + 1
    /\ owner' = [owner EXCEPT ![o] = "starting"]
    /\ UNCHANGED <<poolVars, cancelled, hashpool, errClosed, lastEventID, callback, errs,
                   panicked>>

\* hashpool.Start returns.  If it failed running is reset, whoever set it last,
\* the context stays and the hashpool node is not stopped.
Started(o) ==
    /\ owner[o] = "starting"
    /\ \/ hashpool' = "started" /\ UNCHANGED running
       \/ hashpool' = "failed" /\ running' = FALSE
    /\ owner' = [owner EXCEPT ![o] = "idle"]
    /\ UNCHANGED <<poolVars, ctx, cancelled, errClosed, lastEventID, callback, errs, panicked>>

\* Mutated form: the context is left alone.
Stop_NoCancel(o) ==
    /\ owner[o] = "idle"
    /\ running
    /\ running' = FALSE
    /\ owner' = [owner EXCEPT ![o] = "stopping"]
    /\ UNCHANGED <<poolVars, ctx, cancelled, hashpool, errClosed, lastEventID, callback,
                   errs, panicked>>

\* Stop: nothing if the adapter is not running.
Stop(o) ==
    /\ owner[o] = "idle"
    /\ running
    /\ cancelled' = cancelled \cup {ctx}
    /\ running' = FALSE
    /\ owner' = [owner EXCEPT ![o] = "stopping"]
    /\ UNCHANGED <<poolVars, ctx, hashpool, errClosed, lastEventID, callback, errs, panicked>>

\* Mutated form: Stop does not stop the hashpool node.
HashpoolStopped_Skipped(o) ==
    /\ owner[o] = "stopping"
    /\ owner' = [owner EXCEPT ![o] = "draining"]
    /\ UNCHANGED <<poolVars, running, ctx, cancelled, hashpool, errClosed, lastEventID,
                   callback, errs, panicked>>

\* hashpool.Stop returns.
HashpoolStopped(o) ==
    /\ owner[o] = "stopping"
    /\ hashpool' = "stopped"
    /\ owner' = [owner EXCEPT ![o] = "draining"]
    /\ UNCHANGED <<poolVars, running, ctx, cancelled, errClosed, lastEventID, callback,
                   errs, panicked>>

\* Mutated form: the callbacks are not waited for.
Drained_NoWait(o) ==
    /\ owner[o] = "draining"
    /\ errClosed' = TRUE
    /\ panicked' = IF errClosed THEN panicked \cup {"close"} ELSE panicked
    /\ owner' = [owner EXCEPT ![o] = "idle"]
    /\ UNCHANGED <<poolVars, running, ctx, cancelled, hashpool, lastEventID, callback, errs>>

\* callbackWG.Wait returns and errCh is closed.
Drained(o) ==
    /\ owner[o] = "draining"
    /\ InFlight = {}
    /\ errClosed' = TRUE
    /\ panicked' = IF errClosed THEN panicked \cup {"close"} ELSE panicked
    /\ owner' = [owner EXCEPT ![o] = "idle"]
    /\ UNCHANGED <<poolVars, running, ctx, cancelled, hashpool, lastEventID, callback, errs>>

-----------------------------------------------------------------------------
(* handleCommitment                                                        *)

Enter(c) ==
    /\ callback' = [d \in Commitment |->
          IF d = c
          THEN [pc |-> "adding", ctx |-> ctx, met |-> InFlight,
                parent |-> IF ChainCommitments THEN lastEventID ELSE NoEventID]
          ELSE IF d \in InFlight THEN [callback[d] EXCEPT !.met = @ \cup {c}]
          ELSE callback[d]]
    /\ UNCHANGED <<ownerVars, poolVars, lastEventID, errs, panicked>>

\* Mutated form: handleCommitment does not look at running.
Handle_Always(c) ==
    /\ callback[c].pc = "none"
    /\ Enter(c)

\* The critical section: a.ctx and a.lastEventID are used after it.
Handle(c) ==
    /\ callback[c].pc = "none"
    /\ running
    /\ Enter(c)

\* A commitment that comes while the adapter does not run is gone.
Ignore(c) ==
    /\ callback[c].pc = "none"
    /\ ~running
    /\ callback' = [callback EXCEPT ![c].pc = "done"]
    /\ UNCHANGED <<ownerVars, poolVars, lastEventID, errs, panicked>>

\* pool.AddEvent queues the event: there is room, and of the ready cases of its
\* select this one is taken.
Add(c) ==
    /\ callback[c].pc = "adding"
    /\ queue < QueueCap
    /\ queue' = queue + 1
    /\ chain' = Append(chain, c)
    /\ callback' = [callback EXCEPT ![c].pc = "record"]
    /\ UNCHANGED <<ownerVars, poolDone, lastEventID, errs, panicked>>

\* Mutated form: after an error the event is taken for the last one.
AddFail_Recorded(c) ==
    /\ callback[c].pc = "adding"
    /\ callback[c].ctx \in cancelled \/ poolDone
    /\ callback' = [callback EXCEPT ![c].pc = "record"]
    /\ UNCHANGED <<ownerVars, poolVars, lastEventID, errs, panicked>>

\* It fails because the callback's context is done, or the pool.
AddFail(c) ==
    /\ callback[c].pc = "adding"
    /\ callback[c].ctx \in cancelled \/ poolDone
    /\ callback' = [callback EXCEPT ![c].pc = "error"]
    /\ UNCHANGED <<ownerVars, poolVars, lastEventID, errs, panicked>>

\* Mutated form: the first event stays the last one.
Record_Once(c) ==
    /\ callback[c].pc = "record"
    /\ lastEventID' = IF lastEventID = NoEventID THEN c ELSE lastEventID
    /\ callback' = [callback EXCEPT ![c].pc = "done"]
    /\ UNCHANGED <<ownerVars, poolVars, errs, panicked>>

\* The second critical section, and the deferred callbackWG.Done.
Record(c) ==
    /\ callback[c].pc = "record"
    /\ lastEventID' = c
    /\ callback' = [callback EXCEPT ![c].pc = "done"]
    /\ UNCHANGED <<ownerVars, poolVars, errs, panicked>>

\* The error is dropped when errCh is full; a closed channel panics, full or not.
SendError(c) ==
    /\ callback[c].pc = "error"
    /\ IF errClosed
       THEN panicked' = panicked \cup {"send"} /\ UNCHANGED errs
       ELSE errs' = (IF errs < ErrCap THEN errs + 1 ELSE errs) /\ UNCHANGED panicked
    /\ callback' = [callback EXCEPT ![c].pc = "done"]
    /\ UNCHANGED <<ownerVars, poolVars, lastEventID>>

-----------------------------------------------------------------------------
(* The rest of the world                                                   *)

\* The pool's loop takes an event; it need not, its own context may be done.
PoolTake ==
    /\ queue > 0
    /\ queue' = queue - 1
    /\ UNCHANGED <<ownerVars, poolDone, chain, lastEventID, callback, errs, panicked>>

PoolClose ==
    /\ ~poolDone
    /\ poolDone' = TRUE
    /\ UNCHANGED <<ownerVars, queue, chain, lastEventID, callback, errs, panicked>>

\* The context given to Start is done.
OwnerCancel ==
    /\ ctx > 0 /\ ctx \notin cancelled
    /\ cancelled' = cancelled \cup {ctx}
    /\ UNCHANGED <<poolVars, running, ctx, hashpool, owner, errClosed, lastEventID,
                   callback, errs, panicked>>

DrainErr ==
    /\ errs > 0
    /\ errs' = errs - 1
    /\ UNCHANGED <<ownerVars, poolVars, lastEventID, callback, panicked>>

-----------------------------------------------------------------------------
handleCommitment(c) ==
    Handle(c) \/ Ignore(c) \/ Add(c) \/ AddFail(c) \/ Record(c) \/ SendError(c)

Next ==
    \/ \E o \in Owner : Start(o) \/ Started(o) \/ Stop(o) \/ HashpoolStopped(o) \/ Drained(o)
    \/ \E c \in Commitment : handleCommitment(c)
    \/ PoolTake \/ PoolClose \/ OwnerCancel \/ DrainErr

Spec == Init /\ [][Next]_vars

\* A goroutine that can go on does, and hashpool.Stop returns.  Nothing is
\* assumed of the pool, which may never take an event again.
Fairness ==
    /\ \A o \in Owner : WF_vars(HashpoolStopped(o)) /\ WF_vars(Drained(o))
    /\ \A c \in Commitment : WF_vars(Add(c) \/ AddFail(c) \/ Record(c) \/ SendError(c))

FairSpec == Spec /\ Fairness

-----------------------------------------------------------------------------
(* Properties, of an adapter that is started once, whichever goroutines    *)
(* call Start and Stop and when.  One that is started again after Stop     *)
(* would send on the errCh that Stop has closed; nothing in the program    *)
(* does that.                                                              *)

\* "Wait for any in-flight callbacks to drain before closing errCh, so
\* concurrent sendError calls cannot send on a closed channel"
\* (adapter.go:160): nothing is sent on a closed errCh and it is not closed
\* twice, wherever a callback is when Stop begins, and if two goroutines stop.
NoPanic == panicked = {}

\* Whatever fails and whichever callbacks overlap, an event refers only to an
\* event that was queued before it, so that the pool finds the parent stored.
ParentsQueuedFirst ==
    \A i \in DOMAIN chain :
        LET parent == callback[chain[i]].parent
        IN  parent # NoEventID => \E k \in 1 .. i - 1 : chain[k] = parent

\* Two events have the same parent, or both have none, only if their callbacks
\* overlapped: commitments that come one after the other form a chain.
ForksOnlyByOverlap ==
    ChainCommitments =>
        \A i, k \in DOMAIN chain :
            i < k /\ callback[chain[i]].parent = callback[chain[k]].parent
                => chain[i] \in callback[chain[k]].met

\* Once Stop has closed errCh the adapter has no event queued and no error
\* sent, whatever the hashpool still calls: node.Close goes on to the pool.
QuietAfterStop == [][errClosed => chain' = chain /\ errs' <= errs]_<<chain, errs>>

\* Stop returns although the queue is full and nobody empties it: the context
\* it cancels is the one that the callbacks in AddEvent wait on.
StopReturns ==
    \A o \in Owner : owner[o] \in {"stopping", "draining"} ~> owner[o] = "idle"

=============================================================================

-------------------------------- MODULE Node --------------------------------
(***************************************************************************)
(* The node (node/node.go), as the program (cmd/dagtime/main.go) builds    *)
(* it, serves with it and closes it, with the adapter of HashpoolAdapter   *)
(* in it.  New builds the parts one after the other and takes down what    *)
(* there is when one fails; Close takes down all, in the same order.       *)
(*                                                                         *)
(* Another goroutine can stop the adapter, which the node hands out.  The  *)
(* stage "library" is the adapter in a program of its own: all of          *)
(* HashpoolAdapter's steps and nothing else.                               *)
(***************************************************************************)
EXTENDS HashpoolAdapter

CONSTANT Main    \* the goroutine that calls New and Close

ASSUME MainAssumption == Main \in Owner

VARIABLES
    main,      \* stage of Main: what it does next
    built,     \* New has returned a node
    ctxDone,   \* the program's context is cancelled
    host,      \* the libp2p host: "none", "open", "closed"
    beacon,    \* the drand client, by its d.running: "none", "running", "stopped"
    loop       \* the pool's goroutine runs

nodeVars == <<main, built, ctxDone, host, beacon, loop>>

\* In the order in which they follow each other.
BuildStages == {"network", "peer", "beacon", "pool", "adapter", "starting"}
TearDownStages ==
    {"stopAdapter", "waitAdapter", "closePool", "joinPool", "stopBeacon", "closeHost"}

NodeInit ==
    /\ Init
    /\ main \in {"network", "library"}
    /\ built = FALSE /\ ctxDone = FALSE
    /\ host = "none" /\ beacon = "none" /\ loop = FALSE

-----------------------------------------------------------------------------
(* New                                                                     *)

\* network.NewNode makes the host, or there is none.
NewHost ==
    /\ main = "network"
    /\ \/ host' = "open" /\ main' = "peer"
       \/ host' = host /\ main' = "failed"
    /\ UNCHANGED <<vars, built, ctxDone, beacon, loop>>

\* It connects to the peer, if one is given.  If that fails New has no network
\* node to close.
ConnectPeer ==
    /\ main = "peer"
    /\ main' \in {"beacon", "leaked"}
    /\ UNCHANGED <<vars, built, ctxDone, host, beacon, loop>>

StartBeacon ==
    /\ main = "beacon"
    /\ \/ beacon' = "running" /\ main' = "pool"
       \/ beacon' = beacon /\ main' = "closeHost"
    /\ UNCHANGED <<vars, built, ctxDone, host, loop>>

StartPool ==
    /\ main = "pool"
    /\ \/ loop' = TRUE /\ main' = "adapter"
       \/ loop' = loop /\ main' = "stopBeacon"
    /\ UNCHANGED <<vars, built, ctxDone, host, beacon>>

\* New returns the node.
Serve == main' = "serving" /\ built' = TRUE

\* Without EnableHashpool.
NoAdapter ==
    /\ main = "adapter"
    /\ Serve
    /\ UNCHANGED <<vars, ctxDone, host, beacon, loop>>

\* Mutated form: the pool is left alone when the adapter does not start.
AdapterFailed_KeepPool == main' = "stopBeacon"

\* What New does when the adapter does not start: it begins with adapter.Stop,
\* which finds running reset and leaves hashpool node and context as they are.
AdapterFailed == main' = "stopAdapter"

\* hashpool.NewAdapter fails, or the adapter is started.
NewAdapter ==
    /\ main = "adapter"
    /\ \/ main' = "closePool" /\ UNCHANGED vars
       \/ main' = "starting" /\ Start(Main)
    /\ UNCHANGED <<built, ctxDone, host, beacon, loop>>

AdapterStarted ==
    /\ main = "starting"
    /\ Started(Main)
    /\ IF hashpool' = "started" THEN Serve ELSE AdapterFailed /\ UNCHANGED built
    /\ UNCHANGED <<ctxDone, host, beacon, loop>>

-----------------------------------------------------------------------------
(* The signal, Close and the end of a failed New                           *)

\* main cancels the context and calls Close.  The adapter's context, the pool's
\* and the drand poller's derive from it; what keeps its running flag until it
\* is stopped is the drand client.  (The deferred second Close finds every part
\* stopped.)
Signal ==
    /\ main = "serving"
    /\ main' = "stopAdapter"
    /\ ctxDone' = TRUE
    /\ IF ctx = 0 \/ ctx \in cancelled THEN UNCHANGED vars ELSE OwnerCancel
    /\ UNCHANGED <<built, host, beacon, loop>>

\* Nothing if there is no adapter, or it does not run.
StopAdapter ==
    /\ main = "stopAdapter"
    /\ \/ Stop(Main) /\ main' = "waitAdapter"
       \/ ~running /\ UNCHANGED vars /\ main' = "closePool"
    /\ UNCHANGED <<built, ctxDone, host, beacon, loop>>

WaitAdapter ==
    /\ main = "waitAdapter"
    /\ \/ HashpoolStopped(Main) /\ UNCHANGED main
       \/ Drained(Main) /\ main' = "closePool"
    /\ UNCHANGED <<built, ctxDone, host, beacon, loop>>

ClosePool ==
    /\ main = "closePool"
    /\ PoolClose
    /\ main' = "joinPool"
    /\ UNCHANGED <<built, ctxDone, host, beacon, loop>>

\* Mutated form: Close does not wait for the loop.
JoinPool_NoWait ==
    /\ main = "joinPool"
    /\ main' = "stopBeacon"
    /\ UNCHANGED <<vars, built, ctxDone, host, beacon, loop>>

\* wg.Wait returns.
JoinPool ==
    /\ main = "joinPool"
    /\ ~loop
    /\ main' = "stopBeacon"
    /\ UNCHANGED <<vars, built, ctxDone, host, beacon, loop>>

StopBeacon ==
    /\ main = "stopBeacon"
    /\ beacon' = "stopped"
    /\ main' = "closeHost"
    /\ UNCHANGED <<vars, built, ctxDone, host, loop>>

\* Close returns, or New with its error.
CloseHost ==
    /\ main = "closeHost"
    /\ host' = "closed"
    /\ main' = IF built THEN "closed" ELSE "failed"
    /\ UNCHANGED <<vars, built, ctxDone, beacon, loop>>

-----------------------------------------------------------------------------
(* The other goroutines                                                    *)

\* run sees that its context is done, which Close also does.
LoopEnd ==
    /\ loop
    /\ ctxDone \/ poolDone
    /\ loop' = FALSE
    /\ UNCHANGED <<vars, main, built, ctxDone, host, beacon>>

LoopTake == loop /\ PoolTake /\ UNCHANGED nodeVars

\* The hashpool calls back from the moment it is asked to start.
Callback ==
    /\ main # "library" /\ ctx > 0
    /\ (\E c \in Commitment : handleCommitment(c)) \/ DrainErr
    /\ UNCHANGED nodeVars

\* A goroutine that has the adapter from the node stops it.
UserStops ==
    /\ built
    /\ \E o \in Owner \ {Main} : Stop(o) \/ HashpoolStopped(o) \/ Drained(o)
    /\ UNCHANGED nodeVars

Library == main = "library" /\ Next /\ UNCHANGED nodeVars

-----------------------------------------------------------------------------
New == \/ NewHost \/ ConnectPeer \/ StartBeacon \/ StartPool
       \/ NewAdapter \/ NoAdapter \/ AdapterStarted

Close == \/ StopAdapter \/ WaitAdapter \/ ClosePool \/ JoinPool
         \/ StopBeacon \/ CloseHost

NodeNext ==
    \/ New \/ Signal \/ Close
    \/ LoopEnd \/ LoopTake \/ Callback \/ UserStops
    \/ Library

NodeSpec == NodeInit /\ [][NodeNext]_<<vars, nodeVars>>

\* Main goes on where it can, and the pool's loop ends when its context is
\* done (EventPool!CloseReturns).  Nothing is assumed of the loop before, and
\* of the hashpool only that its Stop returns.
NodeFairness ==
    /\ WF_<<vars, nodeVars>>(Close)
    /\ WF_<<vars, nodeVars>>(LoopEnd)
    /\ Fairness

NodeFairSpec == NodeSpec /\ NodeFairness

-----------------------------------------------------------------------------
(* Properties                                                              *)

Ended == main \in {"closed", "failed", "leaked"}

\* When Close has returned, or New with an error, wherever it failed, the host
\* is closed, the drand client stopped, the pool's goroutine gone, the adapter's
\* context cancelled and the hashpool node stopped; no callback is under way,
\* unless the other goroutine that stops the adapter is still at it.  What stays
\* open after a failed New: the host, exactly when the peer could not be reached
\* (network.go:80), and, exactly when the hashpool did not start, the hashpool
\* node and its context (adapter.go:133-137), with the callbacks it had begun.
NothingLeftOpen ==
    Ended => /\ host = "open" <=> main = "leaked"
             /\ beacon # "running" /\ ~loop /\ ~running
             /\ ctx > 0 /\ ctx \notin cancelled <=> hashpool = "failed"
             /\ hashpool = "started" => \E o \in Owner : owner[o] = "stopping"
             /\ InFlight # {} =>
                    hashpool = "failed" \/ \E o \in Owner : owner[o] \in {"stopping", "draining"}

\* A part is taken down only after those that use it: the drand client after
\* the pool's loop, the pool after the adapter has been told to stop, the host
\* last of all.
TornDownInOrder ==
    /\ loop => beacon = "running"
    /\ main # "library" /\ poolDone => ~running
    /\ beacon = "running" \/ loop => host = "open"

\* Close returns, as does a New that fails, and then the callbacks end that wait
\* for room in the queue of the pool, also those of an adapter whose Start has
\* failed and whose context nobody cancels.
TearDownEnds == main \in TearDownStages ~> Ended /\ InFlight = {}

=============================================================================

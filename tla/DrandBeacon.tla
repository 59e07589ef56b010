---------------------------- MODULE DrandBeacon ----------------------------
(***************************************************************************)
(* drandBeacon (beacon/drand.go): Start launches a goroutine that polls    *)
(* drand and offers what it gets to every subscriber; Stop cancels it and  *)
(* closes the subscribers' channels, without waiting for it.  A goroutine  *)
(* that was stopped can be in the middle of a fetch, which its context     *)
(* does not reach, and meet the subscribers of the next Start.             *)
(*                                                                         *)
(* Time is a number; drand publishes round r at (r - 1) * ChainPeriod,     *)
(* with genesis at 0.  The client computes a round's timestamp from        *)
(* cfg.Period, which node.New sets to the polling interval.                *)
(***************************************************************************)
EXTENDS Naturals, FiniteSets, SequencesExt

CONSTANTS
    Handle,        \* Subscribe calls, one channel each
    ChainPeriod,   \* time between rounds of the drand chain
    Period,        \* cfg.Period = cfg.BeaconInterval
    MaxAge,        \* the age at which the pool refuses a round (1 hour)
    MaxLag,        \* how far an answer of the relay may be behind, in rounds
    MaxStarts,     \* bound: calls of Start
    MaxTime        \* bound: how long time goes on

ASSUME BeaconAssumption ==
    /\ {ChainPeriod, Period} \subseteq Nat \ {0}
    /\ {MaxAge, MaxLag, MaxStarts, MaxTime} \subseteq Nat

VARIABLES
    clock,        \* time since genesis
    running,      \* d.running
    starts,       \* number of Start calls that launched a goroutine
    poller,       \* those goroutines
    ownerDone,    \* the context given to Start is done
    subscribers,  \* d.subscribers
    chan,         \* the subscribers' channels
    panicked      \* history: a send on or a close of a closed channel

vars == <<clock, running, starts, poller, ownerDone, subscribers, chan, panicked>>

Pollers == 1 .. MaxStarts

LatestRound == 1 + clock \div ChainPeriod

Init ==
    /\ clock = 0
    /\ running = FALSE /\ starts = 0 /\ ownerDone = FALSE
    /\ poller = [p \in Pollers |-> [pc |-> "none", cancelled |-> FALSE, round |-> 0]]
    /\ subscribers = {}
    /\ chan = [h \in Handle |-> [state |-> "none", held |-> << >>, last |-> 0]]
    /\ panicked = FALSE

-----------------------------------------------------------------------------
\* Mutated form: a running beacon is started again.
Start_Again ==
    /\ starts < MaxStarts
    /\ running' = TRUE
    /\ starts' = starts + 1
    /\ poller' = [poller EXCEPT ![starts + 1].pc = "select",
                                ![starts + 1].cancelled = ownerDone]
    /\ UNCHANGED <<clock, ownerDone, subscribers, chan, panicked>>

Start ==
    /\ ~running
    /\ starts < MaxStarts
    /\ running' = TRUE
    /\ starts' = starts + 1
    /\ poller' = [poller EXCEPT ![starts + 1].pc = "select",
                                ![starts + 1].cancelled = ownerDone]
    /\ UNCHANGED <<clock, ownerDone, subscribers, chan, panicked>>

\* Mutated form: the closed channels stay in d.subscribers.
Stop_Keep ==
    /\ running
    /\ running' = FALSE
    /\ poller' = [poller EXCEPT ![starts].cancelled = TRUE]
    /\ chan' = [h \in Handle |->
          IF h \in subscribers THEN [chan[h] EXCEPT !.state = "closed"] ELSE chan[h]]
    /\ panicked' = (panicked \/ \E h \in subscribers : chan[h].state = "closed")
    /\ UNCHANGED <<clock, starts, ownerDone, subscribers>>

\* Mutated form: the polling goes on.
Stop_NoCancel ==
    /\ running
    /\ running' = FALSE
    /\ chan' = [h \in Handle |->
          IF h \in subscribers THEN [chan[h] EXCEPT !.state = "closed"] ELSE chan[h]]
    /\ panicked' = (panicked \/ \E h \in subscribers : chan[h].state = "closed")
    /\ subscribers' = {}
    /\ UNCHANGED <<clock, starts, poller, ownerDone>>

\* Stop: nothing if the beacon is not running.
Stop ==
    /\ running
    /\ running' = FALSE
    /\ poller' = [poller EXCEPT ![starts].cancelled = TRUE]
    /\ chan' = [h \in Handle |->
          IF h \in subscribers THEN [chan[h] EXCEPT !.state = "closed"] ELSE chan[h]]
    /\ panicked' = (panicked \/ \E h \in subscribers : chan[h].state = "closed")
    /\ subscribers' = {}
    /\ UNCHANGED <<clock, starts, ownerDone>>

\* Subscribe, whether the beacon runs or not.
Subscribe(h) ==
    /\ chan[h].state = "none"
    /\ chan' = [chan EXCEPT ![h].state = "open"]
    /\ subscribers' = subscribers \cup {h}
    /\ UNCHANGED <<clock, running, starts, poller, ownerDone, panicked>>

-----------------------------------------------------------------------------
(* The polling goroutine                                                   *)

\* The ticker; in the select it can be taken although the context is done.
Tick(p) ==
    /\ poller[p].pc = "select"
    /\ poller' = [poller EXCEPT ![p].pc = "fetch"]
    /\ UNCHANGED <<clock, running, starts, ownerDone, subscribers, chan, panicked>>

Exit(p) ==
    /\ poller[p].pc = "select"
    /\ poller[p].cancelled
    /\ poller' = [poller EXCEPT ![p].pc = "exited"]
    /\ UNCHANGED <<clock, running, starts, ownerDone, subscribers, chan, panicked>>

\* What the relay serves; 0 is a body that decodes but names no round.
Answers == {0} \cup {r \in 1 .. LatestRound : LatestRound <= r + MaxLag}

\* GetLatestRound: the request is made without the context.
Fetched(p) ==
    /\ poller[p].pc = "fetch"
    /\ \E r \in Answers :
          poller' = [poller EXCEPT ![p].pc = "send", ![p].round = r]
    /\ UNCHANGED <<clock, running, starts, ownerDone, subscribers, chan, panicked>>

\* An error, or the client's timeout.
FetchFailed(p) ==
    /\ poller[p].pc = "fetch"
    /\ poller' = [poller EXCEPT ![p].pc = "select"]
    /\ UNCHANGED <<clock, running, starts, ownerDone, subscribers, chan, panicked>>

\* last keeps the highest round a subscriber was given (history).
Larger(r, q) == IF r < q THEN q ELSE r

\* Mutated form: a full channel is waited for.
Send_Wait(p) ==
    /\ poller[p].pc = "send"
    /\ \A h \in subscribers : chan[h].held = << >>
    /\ chan' = [h \in Handle |->
          IF h \in subscribers
          THEN [chan[h] EXCEPT !.held = <<poller[p].round>>,
                               !.last = Larger(@, poller[p].round)]
          ELSE chan[h]]
    /\ panicked' = (panicked \/ \E h \in subscribers : chan[h].state = "closed")
    /\ poller' = [poller EXCEPT ![p].pc = "select", ![p].round = 0]
    /\ UNCHANGED <<clock, running, starts, ownerDone, subscribers>>

\* Mutated form: the newer round takes the place of the older one.
Send_Replace(p) ==
    /\ poller[p].pc = "send"
    /\ chan' = [h \in Handle |->
          IF h \in subscribers
          THEN [chan[h] EXCEPT !.held = <<poller[p].round>>,
                               !.last = Larger(@, poller[p].round)]
          ELSE chan[h]]
    /\ panicked' = (panicked \/ \E h \in subscribers : chan[h].state = "closed")
    /\ poller' = [poller EXCEPT ![p].pc = "select", ![p].round = 0]
    /\ UNCHANGED <<clock, running, starts, ownerDone, subscribers>>

\* The round goes to every subscriber whose channel is empty; the read lock is
\* held, so Stop and Subscribe come before or after.
Send(p) ==
    /\ poller[p].pc = "send"
    /\ chan' = [h \in Handle |->
          IF h \in subscribers /\ chan[h].held = << >>
          THEN [chan[h] EXCEPT !.held = <<poller[p].round>>,
                               !.last = Larger(@, poller[p].round)]
          ELSE chan[h]]
    /\ panicked' = (panicked \/ \E h \in subscribers : chan[h].state = "closed")
    /\ poller' = [poller EXCEPT ![p].pc = "select", ![p].round = 0]
    /\ UNCHANGED <<clock, running, starts, ownerDone, subscribers>>

-----------------------------------------------------------------------------
(* The rest of the world                                                   *)

Receive(h) ==
    /\ chan[h].held # << >>
    /\ chan' = [chan EXCEPT ![h].held = << >>]
    /\ UNCHANGED <<clock, running, starts, poller, ownerDone, subscribers, panicked>>

\* The owner of the context cancels it: the goroutines stop, running stays.
OwnerCancel ==
    /\ ~ownerDone
    /\ ownerDone' = TRUE
    /\ poller' = [p \in Pollers |-> [poller[p] EXCEPT !.cancelled = @ \/ p <= starts]]
    /\ UNCHANGED <<clock, running, starts, subscribers, chan, panicked>>

Time ==
    /\ clock < MaxTime
    /\ clock' = clock + 1
    /\ UNCHANGED <<running, starts, poller, ownerDone, subscribers, chan, panicked>>

-----------------------------------------------------------------------------
Poll(p) == Tick(p) \/ Exit(p) \/ Fetched(p) \/ FetchFailed(p) \/ Send(p)

Next ==
    \/ Start \/ Stop
    \/ \E h \in Handle : Subscribe(h) \/ Receive(h)
    \/ \E p \in Pollers : Poll(p)
    \/ OwnerCancel \/ Time

Spec == Init /\ [][Next]_vars

\* The select picks at random, so a goroutine whose context is done is not
\* kept by its ticker for ever; a fetch ends within the client's 10 s.
Fairness ==
    \A p \in Pollers :
        /\ SF_vars(Exit(p))
        /\ WF_vars(Fetched(p) \/ FetchFailed(p))
        /\ WF_vars(Send(p))

FairSpec == Spec /\ Fairness

-----------------------------------------------------------------------------
(* Timestamps                                                              *)

\* parseResponse: genesis + (round - 1) * Period.
Timestamp(r) == (r - 1) * Period

Published(r) == (r - 1) * ChainPeriod

\* The age check that the pool makes on a round it is given.
Refused(r) == clock > Timestamp(r) + MaxAge

-----------------------------------------------------------------------------
(* Properties                                                              *)

\* Nothing is sent on a closed channel and none is closed twice, although Stop
\* does not wait for the goroutine it stops.
NoPanic == ~panicked

\* However Start, Stop and the owner alternate, at most one goroutine polls
\* for the future, and none does for a beacon that does not run.
OnePoller ==
    LET live == {p \in Pollers : poller[p].pc \notin {"none", "exited"} /\ ~poller[p].cancelled}
    IN  Cardinality(live) <= 1 /\ (live # {} => running)

\* Until a goroutine is cancelled, and with a relay that is not behind, no
\* subscriber is given a round older than one it was given before (0, no round,
\* apart).  A restart breaks it: the old goroutine's round can come after a new
\* one's.
RoundsInOrder ==
    [][\A h \in Handle :
          \/ MaxLag > 0 \/ \E p \in Pollers : poller[p].cancelled
          \/ chan'[h].held \in {<< >>, <<0>>, chan[h].held}
          \/ Head(chan'[h].held) >= chan[h].last]_vars

\* Each subscriber's channel is the feed that the pool's model assumes: the
\* conjunction of Feed(h)!Spec over the handles, with one box.
Feed(h) == INSTANCE BeaconFeed WITH
    published <- LatestRound, held <- chan[h].held, closed <- chan[h].state = "closed"

ImplementsFeed ==
    /\ \A h \in Handle : Feed(h)!Init
    /\ [][\A h \in Handle :
             \/ Feed(h)!Next
             \/ UNCHANGED <<LatestRound, chan[h].held, chan[h].state = "closed">>]_vars

\* A stopped goroutine ends, though its fetch ignores the context and its
\* subscribers may not read.
PollersEnd ==
    \A p \in Pollers : poller[p].cancelled ~> (poller[p].pc = "exited")

\* "Check if beacon is reasonably recent (not older than 1 hour)"
\* (pool.go:398): the latest round of drand, just published, is not refused.
LatestIsRecent == clock = Published(LatestRound) => ~Refused(LatestRound)

=============================================================================

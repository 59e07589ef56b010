---------------------------- MODULE BeaconProofs ----------------------------
(***************************************************************************)
(* Restarts of the drand client, and what its subscribers see, for every   *)
(* number of subscribers and starts, every period and every relay.         *)
(***************************************************************************)
EXTENDS DrandBeacon, FiniteSetTheorems, TLAPS

\* The goroutines that will go on polling.
Live(p) == poller[p].pc \notin {"none", "exited"} /\ ~poller[p].cancelled

\* Only the newest goroutine can be live, and only in a beacon that runs; those
\* of the starts to come are not there yet.
PollerInv ==
    /\ clock \in Nat
    /\ starts \in 0 .. MaxStarts
    /\ running \in BOOLEAN /\ ownerDone \in BOOLEAN
    /\ poller \in [Pollers -> [pc : {"none", "select", "fetch", "send", "exited"},
                               cancelled : BOOLEAN, round : Nat]]
    /\ \A p \in Pollers : p > starts <=> poller[p].pc = "none"
    /\ \A p \in Pollers : p > starts => ~poller[p].cancelled
    /\ \A p \in Pollers : Live(p) => p = starts /\ running

Channels == [state : {"none", "open", "closed"}, held : Seq(Nat), last : Nat]

\* Exactly the members of d.subscribers have an open channel; every round that
\* is held or about to be sent has been published.
ChanInv ==
    /\ chan \in [Handle -> Channels]
    /\ \A h \in Handle : Len(chan[h].held) <= 1
    /\ subscribers = {h \in Handle : chan[h].state = "open"}
    /\ \A p \in Pollers : poller[p].round <= LatestRound
    /\ \A h \in Handle : chan[h].last <= LatestRound
    /\ panicked = FALSE

\* With a relay that is not behind, and while no goroutine was cancelled, the
\* round that is about to be sent is not older than any that was.
OrderInv ==
    MaxLag > 0 \/ (\E p \in Pollers : poller[p].cancelled) \/
    \A p \in Pollers : \A h \in Handle :
        poller[p].pc = "send" /\ poller[p].round # 0 => chan[h].last <= poller[p].round

BeaconInv == PollerInv /\ ChanInv /\ OrderInv

-----------------------------------------------------------------------------
(* Time                                                                    *)

LEMMA DivStep ==
    ASSUME NEW m \in Nat \ {0}, NEW n \in Nat
    PROVE  /\ n \div m \in Nat
           /\ (n + 1) \div m \in {n \div m, n \div m + 1}
OBVIOUS

LEMMA RoundsGoOn ==
    ASSUME clock \in Nat
    PROVE  /\ LatestRound \in Nat \ {0}
           /\ clock' = clock + 1 => LatestRound' \in {LatestRound, LatestRound + 1}
<1>1. ChainPeriod \in Nat \ {0}
    BY BeaconAssumption
<1>2. PICK q \in Nat : q = clock \div ChainPeriod
    BY <1>1, DivStep
<1>3. LatestRound = 1 + q
    BY <1>2 DEF LatestRound
<1>4. ASSUME clock' = clock + 1 PROVE LatestRound' \in {1 + q, 1 + (q + 1)}
    BY <1>1, <1>2, <1>4, DivStep DEF LatestRound
<1> QED BY <1>3, <1>4

LEMMA InitInv == Init => BeaconInv
<1> SUFFICES ASSUME Init PROVE BeaconInv
    OBVIOUS
<1>1. LatestRound \in Nat \ {0} /\ 0 \in Nat /\ MaxStarts \in Nat
    BY RoundsGoOn, BeaconAssumption DEF Init
<1>2. PollerInv
    <2>1. \A p \in Pollers : p > 0 /\ poller[p] = [pc |-> "none", cancelled |-> FALSE, round |-> 0]
        BY <1>1 DEF Init, Pollers
    <2>2. starts = 0 /\ 0 \in 0 .. MaxStarts
        BY <1>1 DEF Init
    <2> QED BY <1>1, <2>1, <2>2 DEF Init, PollerInv, Live
<1>3. ChanInv
    BY <1>1 DEF Init, ChanInv, Channels
<1>4. OrderInv
    BY <1>1 DEF Init, OrderInv
<1> QED BY <1>2, <1>3, <1>4 DEF BeaconInv

-----------------------------------------------------------------------------
(* The steps of the goroutines, of Start and of Stop                       *)

\* A step of a goroutine changes its own record and leaves it its context.
LEMMA PollStep ==
    ASSUME PollerInv, NEW p \in Pollers, Poll(p)
    PROVE  /\ UNCHANGED <<clock, running, starts, ownerDone, subscribers>>
           /\ poller[p].pc \in {"select", "fetch", "send"}
           /\ poller' = [poller EXCEPT ![p] = poller'[p]]
           /\ poller'[p] \in [pc : {"select", "fetch", "send", "exited"},
                              cancelled : BOOLEAN, round : Nat]
           /\ poller'[p].cancelled = poller[p].cancelled
           /\ poller'[p].pc = "exited" => poller[p].cancelled
           /\ poller'[p].round \in {0, poller[p].round} \cup Answers
<1> USE DEF PollerInv
<1>1. UNCHANGED <<clock, running, starts, ownerDone, subscribers>>
    BY DEF Poll, Tick, Exit, Fetched, FetchFailed, Send
<1>2. CASE Tick(p)
    BY <1>1, <1>2 DEF Tick
<1>3. CASE Exit(p)
    BY <1>1, <1>3 DEF Exit
<1>4. CASE Fetched(p)
    <2>1. Answers \subseteq Nat
        BY RoundsGoOn DEF Answers
    <2>2. PICK r \in Nat \cap Answers : poller' = [poller EXCEPT ![p].pc = "send", ![p].round = r]
        BY <1>4, <2>1 DEF Fetched
    <2> QED BY <1>1, <1>4, <2>2 DEF Fetched
<1>5. CASE FetchFailed(p)
    BY <1>1, <1>5 DEF FetchFailed
<1>6. CASE Send(p)
    BY <1>1, <1>6 DEF Send
<1> QED BY <1>2, <1>3, <1>4, <1>5, <1>6 DEF Poll

LEMMA PollerSteps ==
    ASSUME PollerInv, [Next]_vars
    PROVE  PollerInv'
<1> USE DEF PollerInv, Live
<1>1. MaxStarts \in Nat
    BY BeaconAssumption
<1>2. CASE Start
    <2>1. starts + 1 \in Pollers
        BY <1>1, <1>2 DEF Start, Pollers
    <2> QED BY <1>1, <1>2, <2>1 DEF Start, Pollers
<1>3. CASE Stop
    <2>1. \A p \in Pollers :
              /\ poller'[p].pc = poller[p].pc /\ poller'[p].round = poller[p].round
              /\ poller'[p].cancelled = (poller[p].cancelled \/ p = starts)
        BY <1>3 DEF Stop
    <2>2. starts \in Nat /\ \A p \in Pollers : p \in Nat
        BY <1>1 DEF Pollers
    <2>3. poller' \in [Pollers -> [pc : {"none", "select", "fetch", "send", "exited"},
                                   cancelled : BOOLEAN, round : Nat]]
        BY <1>3 DEF Stop
    <2>4. \A p \in Pollers : ~Live(p)'
        BY <2>1, <2>2
    <2>5. UNCHANGED <<clock, starts, ownerDone>> /\ running' = FALSE
        BY <1>3 DEF Stop
    <2>6. \A p \in Pollers :
              /\ p > starts' <=> poller'[p].pc = "none"
              /\ p > starts' => ~poller'[p].cancelled
        BY <2>1, <2>2, <2>5
    <2> HIDE DEF Live
    <2> QED BY <2>3, <2>4, <2>5, <2>6
<1>4. CASE \E p \in Pollers : Poll(p)
    <2>1. PICK p \in Pollers : Poll(p)
        BY <1>4
    <2>2. \A q \in Pollers : q # p => poller'[q] = poller[q]
        BY <2>1, PollStep
    <2>3. poller' \in [Pollers -> [pc : {"none", "select", "fetch", "send", "exited"},
                                   cancelled : BOOLEAN, round : Nat]]
        BY <2>1, PollStep
    <2>4. ~(p > starts)
        BY <2>1, PollStep
    <2>5. Live(p)' => Live(p)
        BY <2>1, PollStep
    <2> QED BY <2>1, <2>2, <2>3, <2>4, <2>5, PollStep
<1>5. CASE OwnerCancel
    <2>1. \A p \in Pollers :
              /\ poller'[p].pc = poller[p].pc /\ poller'[p].round = poller[p].round
              /\ poller'[p].cancelled = (poller[p].cancelled \/ p <= starts)
        BY <1>5 DEF OwnerCancel
    <2>2. starts \in Nat /\ \A p \in Pollers : p \in Nat
        BY <1>1 DEF Pollers
    <2>3. poller' \in [Pollers -> [pc : {"none", "select", "fetch", "send", "exited"},
                                   cancelled : BOOLEAN, round : Nat]]
        BY <1>5 DEF OwnerCancel
    <2>4. \A p \in Pollers : Live(p)' => Live(p)
        BY <1>5, <2>1, <2>2 DEF OwnerCancel
    <2> QED BY <1>5, <2>1, <2>2, <2>3, <2>4 DEF OwnerCancel
<1>6. CASE UNCHANGED <<clock, poller, running, starts, ownerDone>>
    BY <1>6
<1>7. CASE Time
    BY <1>7 DEF Time
<1> QED
    BY <1>2, <1>3, <1>4, <1>5, <1>6, <1>7 DEF Next, Subscribe, Receive, vars

-----------------------------------------------------------------------------
(* The channels                                                            *)

\* A channel that is not sent to, received from or closed keeps all it has.
LEMMA ChanSteps ==
    ASSUME BeaconInv, [Next]_vars
    PROVE  ChanInv'
<1> USE DEF ChanInv
<1>0. PollerInv /\ ChanInv /\ PollerInv' /\ LatestRound \in Nat \ {0} /\ clock \in Nat
    BY PollerSteps, RoundsGoOn DEF BeaconInv, PollerInv
<1>1. clock' = clock => LatestRound' = LatestRound
    BY DEF LatestRound
<1>2. CASE Start
    <2>1. \A p \in Pollers : poller'[p].round = poller[p].round
        BY <1>0, <1>2 DEF Start, PollerInv
    <2> QED BY <1>0, <1>1, <1>2, <2>1 DEF Start
<1>3. CASE Stop
    <2>1. \A p \in Pollers : poller'[p].round = poller[p].round
        BY <1>0, <1>3 DEF Stop, PollerInv
    <2>2. \A h \in Handle :
              /\ h \in subscribers => chan'[h] = [chan[h] EXCEPT !.state = "closed"]
              /\ h \notin subscribers => chan'[h] = chan[h]
        BY <1>3 DEF Stop
    <2>3. \A h \in Handle :
              /\ chan'[h] \in Channels
              /\ chan'[h].held = chan[h].held /\ chan'[h].last = chan[h].last
              /\ chan'[h].state # "open"
        BY <1>0, <2>2 DEF Channels
    <2>4. chan' = [h \in Handle |-> chan'[h]] /\ subscribers' = {} /\ clock' = clock
        BY <1>3 DEF Stop
    <2>5. panicked' = FALSE
        BY <1>0, <1>3 DEF Stop
    <2> QED BY <1>0, <1>1, <2>1, <2>3, <2>4, <2>5
<1>4. CASE \E h \in Handle : Subscribe(h)
    <2>1. PICK h \in Handle : Subscribe(h)
        BY <1>4
    <2>2. chan' = [chan EXCEPT ![h] = [chan[h] EXCEPT !.state = "open"]]
        BY <1>0, <2>1 DEF Subscribe
    <2>3. PICK c \in Channels : c = [state |-> "open", held |-> chan[h].held, last |-> chan[h].last]
        <3>1. chan[h] \in Channels
            BY <1>0
        <3> QED BY <3>1 DEF Channels
    <2>4. chan' = [chan EXCEPT ![h] = c]
        <3>1. chan[h] = [state |-> chan[h].state, held |-> chan[h].held, last |-> chan[h].last]
            BY <1>0 DEF Channels
        <3>2. [chan[h] EXCEPT !.state = "open"] = c
            BY <2>3, <3>1
        <3> QED BY <2>2, <3>2
    <2>5. c.state = "open" /\ c.held = chan[h].held /\ c.last = chan[h].last
        BY <2>3
    <2>6. subscribers' = {g \in Handle : chan'[g].state = "open"}
        BY <1>0, <2>1, <2>4, <2>5 DEF Subscribe
    <2>7. UNCHANGED <<clock, poller, panicked>> /\ LatestRound' = LatestRound
        BY <1>1, <2>1 DEF Subscribe
    <2> QED BY <1>0, <2>4, <2>5, <2>6, <2>7
<1>5. CASE \E h \in Handle : Receive(h)
    <2>1. PICK h \in Handle : Receive(h)
        BY <1>5
    <2>2. chan' = [chan EXCEPT ![h] = [chan[h] EXCEPT !.held = << >>]]
        BY <1>0, <2>1 DEF Receive
    <2>3. PICK c \in Channels : c = [state |-> chan[h].state, held |-> << >>, last |-> chan[h].last]
        <3>1. chan[h] \in Channels
            BY <1>0
        <3>2. << >> \in Seq(Nat)
            OBVIOUS
        <3> QED BY <3>1, <3>2 DEF Channels
    <2>4. chan' = [chan EXCEPT ![h] = c]
        <3>1. chan[h] = [state |-> chan[h].state, held |-> chan[h].held, last |-> chan[h].last]
            BY <1>0 DEF Channels
        <3>2. [chan[h] EXCEPT !.held = << >>] = c
            BY <2>3, <3>1
        <3> QED BY <2>2, <3>2
    <2>5. Len(c.held) <= 1 /\ c.state = chan[h].state /\ c.last = chan[h].last
        BY <2>3
    <2>6. subscribers' = {g \in Handle : chan'[g].state = "open"}
        BY <1>0, <2>1, <2>4, <2>5 DEF Receive
    <2>7. UNCHANGED <<clock, poller, panicked>> /\ LatestRound' = LatestRound
        BY <1>1, <2>1 DEF Receive
    <2> QED BY <1>0, <2>4, <2>5, <2>6, <2>7
<1>6. CASE \E p \in Pollers : Poll(p)
    <2>1. PICK p \in Pollers : Poll(p)
        BY <1>6
    <2>2. LatestRound' = LatestRound /\ \A q \in Pollers : poller'[q].round <= LatestRound
        <3>1. \A r \in Answers : r <= LatestRound
            BY <1>0 DEF Answers
        <3>2. \A q \in Pollers : q # p => poller'[q] = poller[q]
            BY <1>0, <2>1, PollStep DEF PollerInv
        <3>3. poller'[p].round <= LatestRound
            BY <1>0, <2>1, <3>1, PollStep
        <3> QED BY <1>0, <1>1, <2>1, <3>2, <3>3, PollStep
    <2>3. CASE Send(p)
        <3>1. poller[p].round \in Nat /\ poller[p].round <= LatestRound
            BY <1>0 DEF PollerInv
        <3>2. chan' = [h \in Handle |-> chan'[h]]
            BY <2>3 DEF Send
        <3>3. ASSUME NEW h \in Handle
              PROVE  /\ chan'[h] \in Channels /\ chan'[h].state = chan[h].state
                     /\ chan'[h].last <= LatestRound /\ Len(chan'[h].held) <= 1
            <4>1. CASE chan'[h] = chan[h]
                BY <1>0, <4>1
            <4>2. CASE chan'[h] = [chan[h] EXCEPT !.held = <<poller[p].round>>,
                                                  !.last = Larger(@, poller[p].round)]
                <5>1. /\ chan[h].last \in Nat /\ chan[h].last <= LatestRound
                      /\ chan[h].state \in {"none", "open", "closed"}
                    BY <1>0 DEF Channels
                <5>2. Larger(chan[h].last, poller[p].round) \in Nat
                      /\ Larger(chan[h].last, poller[p].round) <= LatestRound
                    BY <3>1, <5>1 DEF Larger
                <5>3. <<poller[p].round>> \in Seq(Nat) /\ Len(<<poller[p].round>>) = 1
                    BY <3>1
                <5>4. chan'[h] = [state |-> chan[h].state, held |-> <<poller[p].round>>,
                                  last |-> Larger(chan[h].last, poller[p].round)]
                    BY <1>0, <4>2 DEF Channels
                <5> QED BY <5>1, <5>2, <5>3, <5>4 DEF Channels
            <4> QED BY <2>3, <4>1, <4>2 DEF Send
        <3>4. subscribers' = {h \in Handle : chan'[h].state = "open"} /\ clock' = clock
            BY <1>0, <2>1, <3>3, PollStep
        <3>5. panicked' = FALSE
            BY <1>0, <2>3 DEF Send
        <3> QED BY <1>0, <2>2, <3>2, <3>3, <3>4, <3>5
    <2>4. CASE ~Send(p)
        BY <1>0, <2>1, <2>2, <2>4 DEF Poll, Tick, Exit, Fetched, FetchFailed
    <2> QED BY <2>3, <2>4
<1>7. CASE OwnerCancel
    <2>1. \A p \in Pollers : poller'[p].round = poller[p].round
        BY <1>0, <1>7 DEF OwnerCancel, PollerInv
    <2> QED BY <1>0, <1>1, <1>7, <2>1 DEF OwnerCancel
<1>8. CASE Time
    <2>1. LatestRound' \in {LatestRound, LatestRound + 1}
        BY <1>0, <1>8, RoundsGoOn DEF Time
    <2>2. (\A p \in Pollers : poller[p].round \in Nat) /\ \A h \in Handle : chan[h].last \in Nat
        BY <1>0 DEF PollerInv, Channels
    <2> QED BY <1>0, <1>8, <2>1, <2>2 DEF Time
<1>9. CASE UNCHANGED vars
    BY <1>0, <1>1, <1>9 DEF vars
<1> QED BY <1>2, <1>3, <1>4, <1>5, <1>6, <1>7, <1>8, <1>9 DEF Next

-----------------------------------------------------------------------------
(* The order of rounds                                                     *)

\* What a step can do to the channel of one subscriber.
LEMMA ChannelStep ==
    ASSUME BeaconInv, [Next]_vars, NEW h \in Handle
    PROVE  \/ /\ chan'[h].held \in {<< >>, chan[h].held}
              /\ chan'[h].last = chan[h].last
           \/ \E p \in Pollers :
                 /\ Send(p) /\ chan[h].state = "open" /\ chan[h].held = << >>
                 /\ chan'[h].state = "open" /\ chan'[h].held = <<poller[p].round>>
                 /\ chan'[h].last = Larger(chan[h].last, poller[p].round)
<1>0. /\ chan \in [Handle -> Channels] /\ chan' \in [Handle -> Channels]
      /\ subscribers = {g \in Handle : chan[g].state = "open"}
    BY ChanSteps DEF BeaconInv, ChanInv
<1>1. CASE Stop
    <2>1. chan'[h] = chan[h] \/ chan'[h] = [chan[h] EXCEPT !.state = "closed"]
        BY <1>1 DEF Stop
    <2> QED BY <1>0, <2>1 DEF Channels
<1>2. CASE \E g \in Handle : Subscribe(g) \/ Receive(g)
    <2>1. PICK g \in Handle : Subscribe(g) \/ Receive(g)
        BY <1>2
    <2>2. CASE g # h
        BY <1>0, <2>1, <2>2 DEF Subscribe, Receive
    <2>3. CASE g = h
        BY <1>0, <2>1, <2>3 DEF Subscribe, Receive, Channels
    <2> QED BY <2>2, <2>3
<1>3. CASE \E p \in Pollers : Send(p)
    <2>1. PICK p \in Pollers : Send(p)
        BY <1>3
    <2>2. CASE h \in subscribers /\ chan[h].held = << >>
        <3>1. chan'[h] = [chan[h] EXCEPT !.held = <<poller[p].round>>,
                                         !.last = Larger(@, poller[p].round)]
            BY <2>1, <2>2 DEF Send
        <3>2. chan'[h] = [state |-> chan[h].state, held |-> <<poller[p].round>>,
                          last |-> Larger(chan[h].last, poller[p].round)]
            BY <1>0, <3>1 DEF Channels
        <3> QED BY <1>0, <2>1, <2>2, <3>2
    <2>3. CASE ~(h \in subscribers /\ chan[h].held = << >>)
        BY <2>1, <2>3 DEF Send
    <2> QED BY <2>2, <2>3
<1>4. CASE chan' = chan
    BY <1>4
<1> QED
    BY <1>1, <1>2, <1>3, <1>4
    DEF Next, Start, Poll, Tick, Exit, Fetched, FetchFailed, OwnerCancel, Time, vars

LEMMA OrderSteps ==
    ASSUME BeaconInv, [Next]_vars
    PROVE  OrderInv'
<1>0. PollerInv /\ ChanInv /\ OrderInv /\ PollerInv'
    BY PollerSteps DEF BeaconInv
<1>1. SUFFICES ASSUME ~(MaxLag > 0), \A p \in Pollers : ~poller'[p].cancelled,
                      NEW p \in Pollers, NEW h \in Handle,
                      poller'[p].pc = "send", poller'[p].round # 0
               PROVE  chan'[h].last <= poller'[p].round
    BY DEF OrderInv
<1>2. \A q \in Pollers : ~poller[q].cancelled
    <2>1. \A q \in Pollers : poller[q].cancelled => poller'[q].cancelled
        <3>1. CASE Start
            BY <1>0, <3>1 DEF Start, PollerInv
        <3>2. CASE Stop \/ OwnerCancel
            BY <1>0, <3>2 DEF Stop, OwnerCancel, PollerInv
        <3>3. CASE \E q \in Pollers : Poll(q)
            BY <1>0, <3>3, PollStep DEF PollerInv
        <3>4. CASE poller' = poller
            BY <3>4
        <3> QED BY <3>1, <3>2, <3>3, <3>4 DEF Next, Subscribe, Receive, Time, vars
    <2> QED BY <1>1, <2>1
<1>3. /\ chan[h].last \in Nat /\ chan[h].last <= LatestRound
      /\ LatestRound \in Nat /\ MaxLag = 0
    BY <1>0, <1>1, RoundsGoOn, BeaconAssumption DEF ChanInv, Channels, PollerInv
<1>4. poller[p].pc = "send" /\ poller[p].round # 0 => chan[h].last <= poller[p].round
    BY <1>0, <1>1, <1>2 DEF OrderInv
<1>5. CASE \E q \in Pollers : Send(q)
    <2>1. PICK q \in Pollers : Send(q)
        BY <1>5
    <2>2. poller'[q].pc = "select"
        <3>1. poller' = [poller EXCEPT ![q].pc = "select", ![q].round = 0]
            BY <2>1 DEF Send
        <3> QED BY <1>0, <3>1 DEF PollerInv
    <2>3. p # q /\ poller[p].pc = "send"
        BY <1>0, <1>1, <2>1, <2>2 DEF Send, PollerInv
    <2>4. Live(p) /\ Live(q)
        BY <1>2, <2>1, <2>3 DEF Live, Send
    <2> QED BY <1>0, <2>3, <2>4 DEF PollerInv
<1>6. CASE \E q \in Pollers : Fetched(q)
    <2>1. PICK q \in Pollers : Fetched(q)
        BY <1>6
    <2>2. chan' = chan
        BY <2>1 DEF Fetched
    <2>3. CASE p = q
        <3>1. PICK r \in Answers : poller' = [poller EXCEPT ![q].pc = "send", ![q].round = r]
            BY <2>1 DEF Fetched
        <3>2. poller'[p].round = r
            BY <1>0, <2>3, <3>1 DEF PollerInv
        <3>3. r = LatestRound
            BY <1>1, <1>3, <3>2 DEF Answers
        <3> QED BY <1>3, <2>2, <3>2, <3>3
    <2>4. CASE p # q
        BY <1>0, <1>1, <1>4, <2>1, <2>2, <2>4 DEF Fetched, PollerInv
    <2> QED BY <2>3, <2>4
<1>7. CASE ~(\E q \in Pollers : Send(q) \/ Fetched(q))
    <2>1. chan'[h].last = chan[h].last
        BY <1>7, ChannelStep
    <2>2. poller'[p].pc = poller[p].pc /\ poller'[p].round = poller[p].round
        <3>1. CASE Start
            BY <1>0, <1>1, <3>1 DEF Start, PollerInv
        <3>2. CASE Stop \/ OwnerCancel
            BY <1>0, <3>2 DEF Stop, OwnerCancel, PollerInv
        <3>3. CASE \E q \in Pollers : Tick(q) \/ Exit(q) \/ FetchFailed(q)
            BY <1>0, <1>1, <3>3 DEF Tick, Exit, FetchFailed, PollerInv
        <3>4. CASE poller' = poller
            BY <3>4
        <3> QED BY <1>7, <3>1, <3>2, <3>3, <3>4 DEF Next, Poll, Subscribe, Receive, Time, vars
    <2> QED BY <1>1, <1>4, <2>1, <2>2
<1> QED BY <1>5, <1>6, <1>7

-----------------------------------------------------------------------------
(* The theorems                                                            *)

LEMMA BeaconInvariant == Spec => []BeaconInv
<1>1. BeaconInv /\ [Next]_vars => BeaconInv'
    BY PollerSteps, ChanSteps, OrderSteps DEF BeaconInv
<1> QED BY <1>1, InitInv, PTL DEF Spec

\* Stop and run: no round is sent on a channel that a Stop has closed, and
\* no channel is closed twice, although Stop does not wait for the goroutine.
THEOREM NeverPanics == Spec => []NoPanic
<1>1. BeaconInv => NoPanic
    BY DEF BeaconInv, ChanInv, NoPanic
<1> QED BY <1>1, BeaconInvariant, PTL

\* Start and Stop: however they alternate, one goroutine polls at most, and
\* none is live in a beacon that does not run.
THEOREM OnePollerAtMost == Spec => []OnePoller
<1>1. BeaconInv => OnePoller
    <2> SUFFICES ASSUME PollerInv PROVE OnePoller
        BY DEF BeaconInv
    <2> DEFINE live == {p \in Pollers : poller[p].pc \notin {"none", "exited"} /\ ~poller[p].cancelled}
    <2>1. live \subseteq {starts} /\ (live # {} => running)
        BY DEF PollerInv, Live
    <2>2. live = {} \/ live = {starts}
        BY <2>1
    <2>3. Cardinality(live) <= 1
        <3> HIDE DEF live
        <3>1. Cardinality({}) = 0 /\ Cardinality({starts}) = 1
            BY FS_EmptySet, FS_Singleton
        <3> QED BY <2>2, <3>1
    <2> QED BY <2>1, <2>3 DEF OnePoller
<1> QED BY <1>1, BeaconInvariant, PTL

\* run: the rounds of one goroutine reach each subscriber in order.
THEOREM RoundsComeInOrder == Spec => RoundsInOrder
<1>1. BeaconInv /\ [Next]_vars =>
          [\A h \in Handle :
              \/ MaxLag > 0 \/ \E p \in Pollers : poller[p].cancelled
              \/ chan'[h].held \in {<< >>, << 0 >>, chan[h].held}
              \/ Head(chan'[h].held) >= chan[h].last]_vars
    <2> SUFFICES ASSUME BeaconInv, [Next]_vars, NEW h \in Handle,
                        ~(MaxLag > 0), \A p \in Pollers : ~poller[p].cancelled,
                        chan'[h].held \notin {<< >>, << 0 >>, chan[h].held}
                 PROVE  Head(chan'[h].held) >= chan[h].last
        OBVIOUS
    <2>1. PICK p \in Pollers : Send(p) /\ chan'[h].held = <<poller[p].round>>
        BY ChannelStep
    <2>2. poller[p].pc = "send" /\ poller[p].round # 0 /\ poller[p].round \in Nat
        BY <2>1 DEF Send, BeaconInv, PollerInv
    <2>3. chan[h].last <= poller[p].round /\ chan[h].last \in Nat
        BY <2>2 DEF BeaconInv, OrderInv, ChanInv, Channels
    <2> QED BY <2>1, <2>2, <2>3
<1> QED BY <1>1, BeaconInvariant, PTL DEF Spec, RoundsInOrder

\* Every channel that Subscribe makes is the feed that the pool counts on.
THEOREM BeaconImplementsFeed == Spec => ImplementsFeed
<1>1. Init => \A h \in Handle : Feed(h)!Init
    <2> SUFFICES ASSUME Init, NEW h \in Handle PROVE Feed(h)!Init
        OBVIOUS
    <2>1. LatestRound \in Nat /\ chan[h].held = << >> /\ (chan[h].state = "closed") = FALSE
        BY RoundsGoOn DEF Init
    <2> QED BY <2>1 DEF Feed!Init
<1>2. BeaconInv /\ [Next]_vars =>
          [\A h \in Handle :
              \/ Feed(h)!Next
              \/ UNCHANGED <<LatestRound, chan[h].held, chan[h].state = "closed">>]_vars
    <2> SUFFICES ASSUME BeaconInv, [Next]_vars, NEW h \in Handle
                 PROVE  \/ Feed(h)!Next
                        \/ UNCHANGED <<LatestRound, chan[h].held, chan[h].state = "closed">>
        OBVIOUS
    <2>0. /\ chan \in [Handle -> Channels] /\ clock \in Nat
          /\ subscribers = {g \in Handle : chan[g].state = "open"}
          /\ \A g \in Handle : Len(chan[g].held) <= 1
          /\ LatestRound \in Nat
        BY RoundsGoOn DEF BeaconInv, ChanInv, PollerInv
    <2>1. clock' = clock => LatestRound' = LatestRound
        BY DEF LatestRound
    <2>2. CASE Time
        <3>1. LatestRound' \in {LatestRound, LatestRound + 1} /\ chan' = chan
            BY <2>0, <2>2, RoundsGoOn DEF Time
        <3> QED BY <3>1 DEF Feed!Next, Feed!Publish
    <2>3. CASE Stop
        <3>1. CASE h \in subscribers
            <4>1. chan'[h] = [chan[h] EXCEPT !.state = "closed"] /\ chan[h].state = "open"
                BY <2>0, <2>3, <3>1 DEF Stop
            <4>2. chan'[h].state = "closed" /\ chan'[h].held = chan[h].held
                BY <2>0, <4>1 DEF Channels
            <4>3. LatestRound' = LatestRound
                BY <2>1, <2>3 DEF Stop
            <4> QED BY <4>1, <4>2, <4>3 DEF Feed!Next, Feed!Close
        <3>2. CASE h \notin subscribers
            BY <2>1, <2>3, <3>2 DEF Stop
        <3> QED BY <3>1, <3>2
    <2>4. CASE \E g \in Handle : Subscribe(g)
        <3>1. PICK g \in Handle : Subscribe(g)
            BY <2>4
        <3>2. chan'[h].held = chan[h].held /\ (chan'[h].state = "closed") = (chan[h].state = "closed")
            BY <2>0, <3>1 DEF Subscribe, Channels
        <3> QED BY <2>1, <3>1, <3>2 DEF Subscribe
    <2>5. CASE \E g \in Handle : Receive(g)
        <3>1. PICK g \in Handle : Receive(g)
            BY <2>5
        <3>2. LatestRound' = LatestRound
            BY <2>1, <3>1 DEF Receive
        <3>3. CASE g = h
            <4>1. chan[h].held # << >> /\ chan[h].held \in Seq(Nat) /\ Len(chan[h].held) <= 1
                BY <2>0, <3>1, <3>3 DEF Receive, Channels
            <4>2. Tail(chan[h].held) = << >>
                BY <4>1
            <4>3. chan'[h].held = << >> /\ chan'[h].state = chan[h].state
                BY <2>0, <3>1, <3>3 DEF Receive, Channels
            <4> QED BY <3>2, <4>1, <4>2, <4>3 DEF Feed!Next, Feed!Take
        <3>4. CASE g # h
            BY <2>0, <3>1, <3>2, <3>4 DEF Receive
        <3> QED BY <3>3, <3>4
    <2>6. CASE \E p \in Pollers : Send(p)
        <3>1. PICK p \in Pollers : Send(p)
            BY <2>6
        <3>2. LatestRound' = LatestRound
            BY <2>1, <3>1 DEF Send
        <3>3. CASE h \in subscribers /\ chan[h].held = << >>
            <4>1. poller[p].round \in 0 .. LatestRound
                BY <2>0 DEF BeaconInv, PollerInv, ChanInv
            <4>2. chan'[h] = [chan[h] EXCEPT !.held = <<poller[p].round>>,
                                             !.last = Larger(@, poller[p].round)]
                BY <3>1, <3>3 DEF Send
            <4>3. chan'[h].held = <<poller[p].round>> /\ chan'[h].state = chan[h].state
                BY <2>0, <4>2 DEF Channels
            <4>4. chan[h].state = "open"
                BY <2>0, <3>3
            <4> QED BY <3>2, <3>3, <4>1, <4>3, <4>4 DEF Feed!Next, Feed!Offer
        <3>4. CASE ~(h \in subscribers /\ chan[h].held = << >>)
            BY <3>1, <3>2, <3>4 DEF Send
        <3> QED BY <3>3, <3>4
    <2>7. CASE chan' = chan /\ clock' = clock
        BY <2>1, <2>7
    <2> QED
        BY <2>2, <2>3, <2>4, <2>5, <2>6, <2>7
        DEF Next, Start, Poll, Tick, Exit, Fetched, FetchFailed, OwnerCancel, vars
<1> QED BY <1>1, <1>2, BeaconInvariant, PTL DEF Spec, ImplementsFeed

=============================================================================

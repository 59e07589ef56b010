--------------------------- MODULE TimelineProofs ---------------------------
(***************************************************************************)
(* Time in EventPool, for every capacity, configuration and number of      *)
(* callers, and whatever rounds the beacon offers: the order and the       *)
(* spacing of anchors, and that the pool implements Timeline.  Both follow *)
(* from one inductive invariant; what the second adds is how one step of   *)
(* the pool changes the timeline.                                          *)
(***************************************************************************)
EXTENDS EventPool, DagStoreProofs

-----------------------------------------------------------------------------
(* The invariant                                                           *)

\* The main events after the last anchor.
SinceLast == {k \in DOMAIN log : IsMain(k) /\ \A i \in Anchored : i < k}

\* The log and the DAG: every entry is stored, under an ID of its own, and the
\* anchors are in order and spaced.
LogInv ==
    /\ IsSeq(log)
    /\ Shaped(dag)
    /\ \A i \in DOMAIN log : log[i].id \in DOMAIN dag /\ Round(i) \in Nat
    /\ \A id \in DOMAIN dag : \E i \in DOMAIN log : log[i].id = id
    /\ \A i, j \in DOMAIN log : log[i].id = log[j].id => i = j
    /\ lastBeaconRound \in Nat
    /\ AnchorsFollowInsertion
    /\ AnchorsSpaced

\* The loop's event is the newest main event, and it comes after every
\* anchored one.
IsNewest(k, id) ==
    /\ log[k].id = id
    /\ IsMain(k)
    /\ \A i \in Anchored : i < k
    /\ \A j \in DOMAIN log : IsMain(j) => j <= k

CurIsNewest == \E k \in DOMAIN log : IsNewest(k, cur.id)

\* What waits for the loop: main events only, and rounds that are numbers.
WaitingInv ==
    /\ IsSeq(eventCh)
    /\ \A i \in DOMAIN eventCh : eventCh[i].type = "MainEvent"
    /\ pending = [c \in Caller |-> pending[c]]
    /\ \A c \in Caller : pending[c].type = "MainEvent"
    /\ now \in Nat
    /\ IsSeq(beaconCh)
    /\ \A i \in DOMAIN beaconCh : beaconCh[i] \in Nat

InHand == runPC \in {"notify", "sub", "subNotify", "fetch"}

\* The count never runs ahead of the main events since the last anchor; the
\* one in hand is still to be counted.
CountInv ==
    /\ eventCount \in Nat
    /\ Cardinality(SinceLast) >= IF InHand THEN eventCount + 1 ELSE eventCount
    /\ runPC = "fetch" => AnchorDue

\* Nothing is in the log from a time to come.
ClockInv == \A i \in DOMAIN log : log[i].at \in Nat /\ log[i].at <= now

AnchorInv ==
    /\ LogInv
    /\ WaitingInv
    /\ InHand => CurIsNewest
    /\ CountInv

LEMMA InitAnchor == Init => AnchorInv
<1> SUFFICES ASSUME Init PROVE AnchorInv
    OBVIOUS
<1>1. IsSeq(<< >>) /\ DOMAIN << >> = {}
    BY DEF IsSeq
<1>2. LogInv
    BY <1>1
    DEF Init, LogInv, Shaped, EmptyStore, AnchorsFollowInsertion, AnchorsSpaced, Anchored
<1>3. WaitingInv
    BY <1>1 DEF Init, WaitingInv, NoEvent
<1>4. SinceLast = {} /\ eventCount = 0 /\ runPC = "select"
    BY <1>1 DEF Init, SinceLast
<1>5. CountInv
    BY <1>4, FS_EmptySet DEF CountInv, InHand
<1> QED BY <1>2, <1>3, <1>4, <1>5 DEF AnchorInv, InHand

-----------------------------------------------------------------------------
(* Steps on the log and the DAG                                            *)

\* Offering an event to the DAG changes nothing of the log as it was; what it
\* adds has no anchor.
LEMMA StoreKeepsRounds ==
    ASSUME LogInv, NEW e, NEW at, dag' = AfterAdd(dag, e),
           log' = IF Accepts(dag, e) THEN Append(log, [id |-> e.id, at |-> at]) ELSE log
    PROVE  /\ IsSeq(log') /\ DOMAIN log \subseteq DOMAIN log'
           /\ \A i \in DOMAIN log :
                 log'[i] = log[i] /\ Round(i)' = Round(i) /\ IsMain(i)' = IsMain(i)
           /\ \A i \in DOMAIN log' \ DOMAIN log :
                 /\ Accepts(dag, e) /\ i = Len(log) + 1 /\ log'[i].id = e.id
                 /\ Round(i)' = 0 /\ (IsMain(i)' <=> e.type = "MainEvent")
           /\ Accepts(dag, e) => Len(log) + 1 \in DOMAIN log'
           /\ Anchored' = Anchored
<1>0. IsSeq(log) /\ Len(log) \in Nat /\ DOMAIN log = 1 .. Len(log)
    BY SeqDomain DEF LogInv
<1>1. IsSeq(log') /\ \A i \in DOMAIN log : i \in DOMAIN log' /\ log'[i] = log[i]
    BY <1>0, AppendSeq, SeqDomain
<1>2. Accepts(dag, e) => DOMAIN log' = 1 .. Len(log) + 1 /\ log'[Len(log) + 1].id = e.id
    BY <1>0, AppendSeq, SeqDomain
<1>3. \A i \in DOMAIN log : Round(i)' = Round(i) /\ IsMain(i)' = IsMain(i)
    BY <1>1, AfterAddOld DEF LogInv, Round, IsMain
<1>4. \A i \in DOMAIN log' \ DOMAIN log :
          Accepts(dag, e) /\ i = Len(log) + 1 /\ log'[i].id = e.id
    BY <1>0, <1>2
<1>5. \A i \in DOMAIN log' \ DOMAIN log :
          Round(i)' = 0 /\ (IsMain(i)' <=> e.type = "MainEvent")
    <2> SUFFICES ASSUME NEW i \in DOMAIN log' \ DOMAIN log
                 PROVE  Round(i)' = 0 /\ (IsMain(i)' <=> e.type = "MainEvent")
        OBVIOUS
    <2>1. log'[i].id = e.id /\ dag'[e.id] = Stored(e)
        BY <1>4, AfterAddNew
    <2>2. Stored(e).beacon = 0 /\ Stored(e).type = e.type
        BY DEF Stored, NoAnchor
    <2> QED BY <2>1, <2>2 DEF Round, IsMain
<1>6. Anchored' = Anchored
    BY <1>1, <1>3, <1>5 DEF Anchored, NoAnchor
<1> QED BY <1>0, <1>1, <1>2, <1>3, <1>4, <1>5, <1>6

\* The log's positions can be counted.
LEMMA CountSinceLast ==
    ASSUME LogInv
    PROVE  IsFiniteSet(SinceLast) /\ Cardinality(SinceLast) \in Nat
<1>1. DOMAIN log = 1 .. Len(log) /\ Len(log) \in Nat
    BY SeqDomain DEF LogInv
<1>2. IsFiniteSet(1 .. Len(log)) /\ SinceLast \in SUBSET (1 .. Len(log))
    BY <1>1, FS_Interval DEF SinceLast
<1> QED BY <1>2, FS_Subset, FS_CardinalityType

\* ... nor does it disturb the spans; a main event is one more since the last
\* anchor.
LEMMA StoreKeepsSpans ==
    ASSUME LogInv, NEW e, NEW at, dag' = AfterAdd(dag, e),
           log' = IF Accepts(dag, e) THEN Append(log, [id |-> e.id, at |-> at]) ELSE log
    PROVE  /\ AnchorsSpaced'
           /\ Cardinality(SinceLast')
                 = Cardinality(SinceLast)
                     + (IF Accepts(dag, e) /\ e.type = "MainEvent" THEN 1 ELSE 0)
<1>0. Len(log) \in Nat /\ DOMAIN log = 1 .. Len(log)
    BY SeqDomain DEF LogInv
<1>1. Anchored' = Anchored /\ Anchored \subseteq DOMAIN log
    BY StoreKeepsRounds DEF Anchored
<1>2. AnchorsSpaced'
    <2>1. ASSUME NEW j \in Anchored PROVE Span(j)' = Span(j)
        BY <1>0, <1>1, StoreKeepsRounds DEF Span
    <2> QED BY <1>1, <2>1 DEF AnchorsSpaced, LogInv
<1>3. PICK n : n = Len(log) + 1
    OBVIOUS
<1>4. /\ n \notin SinceLast
      /\ Cardinality(SinceLast) \in Nat
      /\ Cardinality(SinceLast \cup {n})
            = IF n \in SinceLast THEN Cardinality(SinceLast) ELSE Cardinality(SinceLast) + 1
    <2>1. n \notin SinceLast
        BY <1>0, <1>3 DEF SinceLast
    <2> QED BY <2>1, CountSinceLast, FS_AddElement
<1>5. CASE Accepts(dag, e) /\ e.type = "MainEvent"
    <2>1. n \in DOMAIN log' \ DOMAIN log /\ IsMain(n)'
        BY <1>0, <1>3, <1>5, StoreKeepsRounds
    <2>2. \A i \in Anchored : i < n
        BY <1>0, <1>1, <1>3
    <2>3. SinceLast' = SinceLast \cup {n}
        BY <1>1, <1>3, <2>1, <2>2, StoreKeepsRounds DEF SinceLast
    <2> QED BY <1>2, <1>4, <1>5, <2>3
<1>6. CASE ~(Accepts(dag, e) /\ e.type = "MainEvent")
    <2>1. SinceLast' = SinceLast
        BY <1>1, <1>6, StoreKeepsRounds DEF SinceLast
    <2> QED BY <1>2, <1>4, <1>6, <2>1
<1> QED BY <1>2, <1>5, <1>6

LEMMA StoreLog ==
    ASSUME LogInv, NEW e, NEW at, dag' = AfterAdd(dag, e),
           log' = IF Accepts(dag, e) THEN Append(log, [id |-> e.id, at |-> at]) ELSE log,
           lastBeaconRound' = lastBeaconRound
    PROVE  /\ LogInv'
           /\ e.type # "MainEvent" /\ CurIsNewest /\ cur' = cur => CurIsNewest'
           /\ Accepts(dag, e) /\ e.type = "MainEvent" /\ cur' = e => CurIsNewest'
<1>0. Len(log) \in Nat /\ DOMAIN log = 1 .. Len(log)
    BY SeqDomain DEF LogInv
<1>1. Shaped(dag')
    BY AfterAddShaped DEF LogInv
<1>2. \A i \in DOMAIN log' : log'[i].id \in DOMAIN dag' /\ Round(i)' \in Nat
    <2> SUFFICES ASSUME NEW i \in DOMAIN log'
                 PROVE  log'[i].id \in DOMAIN dag' /\ Round(i)' \in Nat
        OBVIOUS
    <2>0. DOMAIN dag \subseteq DOMAIN dag' /\ (Accepts(dag, e) => e.id \in DOMAIN dag')
        BY AfterAddDomain
    <2>1. CASE i \in DOMAIN log
        <3>1. log'[i] = log[i] /\ Round(i)' = Round(i)
            BY <2>1, StoreKeepsRounds
        <3>2. log[i].id \in DOMAIN dag /\ Round(i) \in Nat
            BY <2>1 DEF LogInv
        <3> QED BY <2>0, <3>1, <3>2
    <2>2. CASE i \notin DOMAIN log
        <3>1. Accepts(dag, e) /\ log'[i].id = e.id /\ Round(i)' = 0
            BY <2>2, StoreKeepsRounds
        <3> QED BY <2>0, <3>1
    <2> QED BY <2>1, <2>2
<1>3. \A id \in DOMAIN dag' : \E i \in DOMAIN log' : log'[i].id = id
    <2> SUFFICES ASSUME NEW id \in DOMAIN dag'
                 PROVE  \E i \in DOMAIN log' : log'[i].id = id
        OBVIOUS
    <2>1. CASE id \in DOMAIN dag
        BY <2>1, StoreKeepsRounds DEF LogInv
    <2>2. CASE id \notin DOMAIN dag
        <3>1. Accepts(dag, e) /\ id = e.id
            BY <2>2, AfterAddDomain
        <3>2. Len(log) + 1 \in DOMAIN log' \ DOMAIN log
            BY <1>0, <3>1, StoreKeepsRounds
        <3> QED BY <3>1, <3>2, StoreKeepsRounds
    <2> QED BY <2>1, <2>2
<1>4. \A i, j \in DOMAIN log' : log'[i].id = log'[j].id => i = j
    <2>1. \A i \in DOMAIN log : log'[i].id \in DOMAIN dag
        BY StoreKeepsRounds DEF LogInv
    <2>2. \A i \in DOMAIN log' \ DOMAIN log : log'[i].id \notin DOMAIN dag /\ i = Len(log) + 1
        BY StoreKeepsRounds, AfterAddNew
    <2>3. \A i, j \in DOMAIN log : log'[i].id = log'[j].id => i = j
        BY StoreKeepsRounds DEF LogInv
    <2> QED BY <2>1, <2>2, <2>3
<1>5. AnchorsFollowInsertion'
    <2>1. Anchored' = Anchored /\ Anchored \subseteq DOMAIN log
        BY StoreKeepsRounds DEF Anchored
    <2>2. \A i \in Anchored : Round(i)' = Round(i) /\ IsMain(i)' = IsMain(i)
        BY <2>1, StoreKeepsRounds
    <2>3. \A j \in Anchored : \A i \in 1 .. j : log'[i] = log[i]
        BY <1>0, <2>1, StoreKeepsRounds
    <2> QED BY <2>1, <2>2, <2>3 DEF AnchorsFollowInsertion, LogInv
<1>6. LogInv'
    BY <1>1, <1>2, <1>3, <1>4, <1>5, StoreKeepsRounds, StoreKeepsSpans DEF LogInv
<1>7. ASSUME e.type # "MainEvent", CurIsNewest, cur' = cur PROVE CurIsNewest'
    <2>1. PICK k \in DOMAIN log : IsNewest(k, cur.id)
        BY <1>7 DEF CurIsNewest
    <2>2. k \in DOMAIN log' /\ IsNewest(k, cur.id)'
        BY <1>7, <2>1, StoreKeepsRounds DEF IsNewest
    <2> QED BY <1>7, <2>2 DEF CurIsNewest
<1>8. ASSUME Accepts(dag, e), e.type = "MainEvent", cur' = e PROVE CurIsNewest'
    <2>0. PICK k : k = Len(log) + 1
        OBVIOUS
    <2>1. k \in DOMAIN log' \ DOMAIN log
        BY <1>0, <1>8, <2>0, StoreKeepsRounds
    <2>2. log'[k].id = cur'.id /\ IsMain(k)'
        BY <1>8, <2>1, StoreKeepsRounds
    <2>3. \A i \in Anchored' : i < k
        BY <1>0, <2>0, StoreKeepsRounds DEF Anchored
    <2>4. \A j \in DOMAIN log' : j <= k
        BY <1>0, <2>0, StoreKeepsRounds
    <2> QED BY <2>1, <2>2, <2>3, <2>4 DEF CurIsNewest, IsNewest
<1> QED BY <1>6, <1>7, <1>8

\* Rounds come in their order in time.
LEMMA LaterPublished ==
    ASSUME NEW a \in Nat, NEW b \in Nat, a <= b
    PROVE  Published(a) \in Int /\ Published(b) \in Int /\ Published(a) <= Published(b)
<1>1. ChainPeriod \in Nat
    BY PoolAssumption
<1>2. \A m, d \in Int : (m + d) * ChainPeriod = m * ChainPeriod + d * ChainPeriod
    BY <1>1
<1>3. \A m \in Int : m * ChainPeriod \in Int
    BY <1>1
<1>4. \A d \in Nat : d * ChainPeriod \in Nat
    BY <1>1
<1>5. b - a \in Nat /\ a - 1 \in Int /\ b - a \in Int /\ b - 1 = (a - 1) + (b - a)
    OBVIOUS
<1>6. (b - 1) * ChainPeriod = (a - 1) * ChainPeriod + (b - a) * ChainPeriod
    BY <1>2, <1>5
<1> QED BY <1>3, <1>4, <1>5, <1>6 DEF Published

\* A round that passes is no older than MaxAge by the time the code computes for
\* it, and the clock shows no less than the latest round's time.
LEMMA RecentEnough ==
    ASSUME NEW r \in Nat, NEW t \in Instants, ValidRound(r, t), NEW a \in Nat, a <= now,
           now \in Nat
    PROVE  Published(a) <= Timestamp(r) + MaxAge
<1>1. Published(a) \in Int /\ Published(now) \in Int /\ Published(a) <= Published(now)
    BY LaterPublished
<1>2. Published(now + 1) \in Int
    BY LaterPublished
<1>3. t \in Int /\ Published(now) <= t
    BY <1>1, <1>2 DEF Instants
<1>4. Timestamp(r) \in Int /\ MaxAge \in Int
    BY PoolAssumption DEF Timestamp
<1>5. t - Timestamp(r) <= MaxAge
    BY DEF ValidRound
<1> QED BY <1>1, <1>3, <1>4, <1>5

\* An anchor goes on the loop's event, with a round later than all before,
\* when enough main events have come since the last one.
LEMMA AnchorLog ==
    ASSUME LogInv, CurIsNewest, NEW r \in Nat, NEW n \in Nat, AnchorWith(r, n), log' = log,
           Cardinality(SinceLast) >= n, n >= AnchorInterval, ClockInv, now \in Nat
    PROVE  /\ LogInv'
           /\ eventCount' \in Nat /\ Cardinality(SinceLast') >= eventCount'
<1>1. CASE dag' = dag /\ lastBeaconRound' = lastBeaconRound /\ eventCount' = n
    BY <1>1
    DEF LogInv, Round, AnchorsFollowInsertion, AnchorsSpaced, Span, SinceLast, Anchored, IsMain
<1>2. CASE /\ r > lastBeaconRound /\ r # 0 /\ lastBeaconRound' = r
           /\ \E t \in Instants : ValidRound(r, t)
           /\ dag' = [dag EXCEPT ![cur.id].beacon = r] /\ eventCount' = 0
    <2>1. PICK k \in DOMAIN log : IsNewest(k, cur.id)
        BY DEF CurIsNewest
    <2>2. DOMAIN dag' = DOMAIN dag /\ Shaped(dag')
        BY <1>2 DEF LogInv, Shaped
    <2>3. \A i \in DOMAIN log :
              /\ IsMain(i)' = IsMain(i)
              /\ Round(i)' = IF i = k THEN r ELSE Round(i)
        BY <1>2, <2>1 DEF LogInv, Shaped, IsMain, Round, IsNewest
    <2>4. Anchored' = Anchored \cup {k}
        BY <1>2, <2>1, <2>3 DEF Anchored, NoAnchor
    <2>5. \A i \in Anchored : i \in DOMAIN log /\ i # k /\ i < k /\ Round(i) < r
        <3>1. DOMAIN log = 1 .. Len(log) /\ Len(log) \in Nat
            BY SeqDomain DEF LogInv
        <3>2. \A i \in Anchored : i \in DOMAIN log /\ i < k
            BY <2>1 DEF Anchored, IsNewest
        <3>3. \A i \in Anchored : Round(i) <= lastBeaconRound /\ Round(i) \in Nat
            BY <3>2 DEF LogInv, AnchorsFollowInsertion
        <3>4. SUFFICES ASSUME NEW i \in Anchored
                       PROVE  i \in DOMAIN log /\ i # k /\ i < k /\ Round(i) < r
            OBVIOUS
        <3>5. Round(i) \in Nat /\ Round(i) <= lastBeaconRound /\ lastBeaconRound \in Nat
            BY <3>3 DEF LogInv
        <3>6. lastBeaconRound < r
            BY <1>2, <3>5
        <3>7. k \in Nat /\ i \in Nat
            BY <2>1, <3>1, <3>2
        <3> QED BY <3>2, <3>5, <3>6, <3>7
    <2>6. AnchorsFollowInsertion'
        <3>1. ASSUME NEW i \in Anchored', NEW j \in Anchored', i < j
              PROVE  Round(i)' < Round(j)'
            BY <2>1, <2>3, <2>4, <2>5, <3>1, SeqDomain DEF LogInv, AnchorsFollowInsertion
        <3>2. ASSUME NEW i \in Anchored'
              PROVE  IsMain(i)' /\ Round(i)' <= lastBeaconRound'
            BY <1>2, <2>1, <2>3, <2>4, <2>5 DEF LogInv, AnchorsFollowInsertion, IsNewest
        <3>3. ASSUME NEW j \in Anchored', NEW i \in 1 .. j
              PROVE  Published(log'[i].at) <= Timestamp(Round(j)') + MaxAge
            <4>1. CASE j \in Anchored
                BY <2>1, <2>3, <2>5, <4>1 DEF LogInv, AnchorsFollowInsertion
            <4>2. CASE j = k
                <5>1. i \in DOMAIN log /\ Round(j)' = r
                    BY <2>1, <2>3, <4>2, SeqDomain DEF LogInv
                <5>2. log[i].at \in Nat /\ log[i].at <= now
                    BY <5>1 DEF ClockInv
                <5>3. Published(log[i].at) <= Timestamp(r) + MaxAge
                    BY <1>2, <5>2, RecentEnough
                <5> QED BY <5>1, <5>3
            <4> QED BY <2>4, <4>1, <4>2
        <3> QED BY <3>1, <3>2, <3>3 DEF AnchorsFollowInsertion
    <2>7. \A i \in DOMAIN log' : log'[i].id \in DOMAIN dag' /\ Round(i)' \in Nat
        BY <2>2, <2>3 DEF LogInv
    <2>8. AnchorsSpaced' /\ Cardinality(SinceLast') \in Nat
        <3>0. DOMAIN log = 1 .. Len(log) /\ Len(log) \in Nat
            BY SeqDomain DEF LogInv
        <3>1. ASSUME NEW j \in Anchored PROVE Span(j)' = Span(j)
            BY <2>1, <2>3, <2>4, <2>5, <3>0 DEF Span
        <3>2. Span(k)' = SinceLast
            BY <2>1, <2>3, <2>4, <2>5, <3>0 DEF Span, SinceLast, IsNewest
        <3>3. Cardinality(SinceLast) >= AnchorInterval
            BY CountSinceLast, PoolAssumption
        <3>4. AnchorsSpaced'
            BY <2>4, <3>1, <3>2, <3>3 DEF AnchorsSpaced, LogInv
        <3>5. SinceLast' \in SUBSET (1 .. Len(log))
            BY <3>0 DEF SinceLast
        <3>6. IsFiniteSet(1 .. Len(log))
            BY <3>0, FS_Interval
        <3>7. Cardinality(SinceLast') \in Nat
            BY <3>5, <3>6, FS_Subset, FS_CardinalityType
        <3> QED BY <3>4, <3>7
    <2> QED BY <1>2, <2>2, <2>6, <2>7, <2>8 DEF LogInv
<1> QED BY <1>1, <1>2 DEF AnchorWith, ValidRound

-----------------------------------------------------------------------------
(* Steps                                                                   *)

USE DEF dagVars, runVars, beaconVars, closeVars, subVars, callVars

\* The log, the DAG and the loop's event stay.
LEMMA SameLog ==
    ASSUME LogInv, UNCHANGED <<dag, log, lastBeaconRound, cur>>
    PROVE  LogInv' /\ (CurIsNewest => CurIsNewest') /\ SinceLast' = SinceLast
BY DEF LogInv, CurIsNewest, IsNewest, AnchorsFollowInsertion, AnchorsSpaced, Span, SinceLast,
       Anchored, Round, IsMain

LEMMA SameWaiting ==
    ASSUME WaitingInv, UNCHANGED <<eventCh, pending, now, beaconCh>>
    PROVE  WaitingInv'
BY DEF WaitingInv

\* Callers queue main events.
LEMMA CallAnchor ==
    ASSUME AnchorInv, NEW c \in Caller, Call(c)
    PROVE  AnchorInv'
<1>1. UNCHANGED <<dag, log, lastBeaconRound, cur, runPC, eventCount, now, beaconCh>>
    BY DEF Call, CallAdd, CallSend, CallRefused, CallAbandoned
<1>2. WaitingInv'
    <2>1. CASE CallAdd(c)
        BY <1>1, <2>1 DEF CallAdd, AnchorInv, WaitingInv, NewEvent
    <2>2. CASE CallSend(c)
        <3>1. /\ eventCh' = Append(eventCh, pending[c])
              /\ pending' = [pending EXCEPT ![c] = NoEvent]
            BY <2>2 DEF CallSend
        <3>2. /\ IsSeq(eventCh')
              /\ \A i \in DOMAIN eventCh' : eventCh'[i].type = "MainEvent"
            BY <3>1, AppendSeq, SeqDomain DEF AnchorInv, WaitingInv
        <3> QED BY <1>1, <3>1, <3>2 DEF AnchorInv, WaitingInv, NoEvent
    <2>3. CASE CallRefused(c) \/ CallAbandoned(c)
        BY <1>1, <2>3 DEF CallRefused, CallAbandoned, AnchorInv, WaitingInv, NoEvent
    <2> QED BY <2>1, <2>2, <2>3 DEF Call
<1> QED BY <1>1, <1>2, SameLog DEF AnchorInv, CountInv, InHand, AnchorDue

\* The loop.
LEMMA RunAnchorInv ==
    ASSUME AnchorInv, ClockInv, Run
    PROVE  AnchorInv'
<1>0. Cardinality(SinceLast) \in Nat /\ eventCount \in Nat
    BY CountSinceLast DEF AnchorInv, CountInv
<1>1. CASE RunDone \/ RunNotify \/ RunSubNotify \/ RunFetchStart \/ RunVerify
    <2>1. /\ UNCHANGED <<dag, log, lastBeaconRound, cur, eventCount>>
          /\ UNCHANGED <<eventCh, pending, now, beaconCh>>
          /\ InHand' => InHand
          /\ runPC' = "fetch" => AnchorDue
        BY <1>1
        DEF RunDone, RunNotify, RunSubNotify, RunFetchStart, RunVerify, MainEventDone, InHand
    <2>2. LogInv' /\ WaitingInv' /\ SinceLast' = SinceLast /\ (InHand => CurIsNewest')
        BY <2>1, SameLog, SameWaiting DEF AnchorInv
    <2> QED BY <1>0, <2>1, <2>2 DEF AnchorInv, CountInv, AnchorDue
<1>2. CASE RunTake
    <2> DEFINE e == Head(eventCh)
    <2>1. /\ eventCh # << >> /\ eventCh' = Tail(eventCh) /\ dag' = AfterAdd(dag, e)
          /\ log' = IF Accepts(dag, e) THEN Append(log, [id |-> e.id, at |-> now]) ELSE log
          /\ UNCHANGED <<lastBeaconRound, eventCount, pending, now, beaconCh>>
          /\ runPC = "select"
          /\ IF Accepts(dag, e) THEN cur' = e /\ runPC' = "notify"
             ELSE cur' = cur /\ runPC' = runPC
        BY <1>2 DEF RunTake
    <2>2. e.type = "MainEvent" /\ WaitingInv'
        BY <2>1, TailSeq DEF AnchorInv, WaitingInv
    <2>3. LogInv' /\ (Accepts(dag, e) => CurIsNewest')
        BY <2>1, <2>2, StoreLog DEF AnchorInv
    <2>4. Cardinality(SinceLast')
              = Cardinality(SinceLast) + (IF Accepts(dag, e) THEN 1 ELSE 0)
        BY <2>1, <2>2, StoreKeepsSpans DEF AnchorInv
    <2>5. CountInv'
        BY <1>0, <2>1, <2>4 DEF AnchorInv, CountInv, InHand
    <2> QED BY <2>1, <2>2, <2>3, <2>5 DEF AnchorInv, InHand
<1>3. CASE RunCount
    <2>1. /\ UNCHANGED <<dag, log, lastBeaconRound>> /\ eventCount' = eventCount + 1
          /\ UNCHANGED <<eventCh, pending, now, beaconCh>>
          /\ runPC = "sub" /\ runPC' = "select"
        BY <1>3 DEF RunCount, MainEventDone, NextIteration
    <2>2. LogInv' /\ SinceLast' = SinceLast
        BY <2>1
        DEF AnchorInv, LogInv, AnchorsFollowInsertion, AnchorsSpaced, Span, SinceLast,
            Anchored, Round, IsMain
    <2> QED BY <1>0, <2>1, <2>2, SameWaiting DEF AnchorInv, CountInv, InHand
<1>4. CASE RunSub
    <2>1. PICK parents \in SubParents :
              LET e == SubEventOf(cur.id, subNo, parents)
              IN  /\ dag' = AfterAdd(dag, e)
                  /\ log' = IF Accepts(dag, e) THEN Append(log, [id |-> e.id, at |-> now])
                            ELSE log
        BY <1>4 DEF RunSub
    <2> DEFINE e == SubEventOf(cur.id, subNo, parents)
    <2>2. /\ UNCHANGED <<cur, lastBeaconRound, eventCount, eventCh, pending, now, beaconCh>>
          /\ runPC = "sub" /\ runPC' \in {"sub", "subNotify"}
        BY <1>4 DEF RunSub
    <2>3. e.type = "SubEvent"
        BY DEF SubEventOf, NewEvent
    <2>4. LogInv' /\ CurIsNewest'
        BY <2>1, <2>2, <2>3, StoreLog DEF AnchorInv, InHand
    <2>5. Cardinality(SinceLast') = Cardinality(SinceLast)
        BY <1>0, <2>1, <2>3, StoreKeepsSpans DEF AnchorInv
    <2> QED BY <2>2, <2>4, <2>5, SameWaiting DEF AnchorInv, CountInv, InHand
<1>5. ASSUME NEW r \in Nat, AnchorWith(r, eventCount + 1), log' = log, runPC' = "select",
             AnchorDue, runPC \in {"sub", "fetch"}, WaitingInv'
      PROVE  AnchorInv'
    <2>0. now \in Nat
        BY DEF AnchorInv, WaitingInv
    <2>1. /\ eventCount + 1 \in Nat /\ eventCount + 1 >= AnchorInterval
          /\ Cardinality(SinceLast) >= eventCount + 1
        BY <1>0, <1>5 DEF AnchorDue, AnchorInv, CountInv, InHand
    <2> QED BY <1>5, <2>0, <2>1, AnchorLog DEF AnchorInv, CountInv, InHand
<1>6. CASE RunAnchor
    <2>1. beaconCh # << >> /\ beaconCh' = Tail(beaconCh) /\ UNCHANGED <<eventCh, pending, now>>
        BY <1>6 DEF RunAnchor, Feed!Take
    <2>2. Head(beaconCh) \in Nat /\ WaitingInv'
        BY <2>1, TailSeq DEF AnchorInv, WaitingInv
    <2>3. /\ AnchorWith(Head(beaconCh), eventCount + 1) /\ AnchorDue
          /\ log' = log /\ runPC' = "select" /\ runPC = "sub"
        BY <1>6 DEF RunAnchor, MainEventDone, NextIteration
    <2> QED BY <1>5, <2>2, <2>3
<1>7. CASE RunAnchorClosed \/ RunFetch
    <2>1. \E r \in Nat : AnchorWith(r, eventCount + 1)
        BY <1>7 DEF RunAnchorClosed, RunFetch, Answers
    <2>2. /\ WaitingInv' /\ log' = log /\ AnchorDue
          /\ runPC' = "select" /\ runPC \in {"sub", "fetch"}
        BY <1>7, SameWaiting
        DEF RunAnchorClosed, RunFetch, MainEventDone, NextIteration, AnchorInv, CountInv
    <2> QED BY <1>5, <2>1, <2>2
<1> QED BY <1>1, <1>2, <1>3, <1>4, <1>6, <1>7 DEF Run, RunBody

\* Everybody else: only the beacon and the clock matter.
LEMMA OtherAnchor ==
    ASSUME AnchorInv,
           (\E s \in Subscriber : Subscription(s)) \/ Close \/ Environment \/ UNCHANGED vars
    PROVE  AnchorInv'
<1>1. UNCHANGED <<dag, log, lastBeaconRound, cur, eventCh, pending>>
    BY DEF Subscription, Subscribe, Unsubscribe, Receive, Close, CloseBegin, CloseErr,
           CloseSubs, Environment, ParentCancel, DrainErr, NewRound, BeaconSend,
           BeaconStop, vars
<1>2. UNCHANGED <<runPC, eventCount>>
    BY DEF Subscription, Subscribe, Unsubscribe, Receive, Close, CloseBegin, CloseErr,
           CloseSubs, Environment, ParentCancel, DrainErr, NewRound, BeaconSend,
           BeaconStop, vars
<1>3. now' \in Nat /\ IsSeq(beaconCh') /\ \A i \in DOMAIN beaconCh' : beaconCh'[i] \in Nat
    <2>1. CASE NewRound
        BY <2>1 DEF NewRound, Feed!Publish, AnchorInv, WaitingInv
    <2>2. CASE BeaconSend
        <3>1. PICK r \in 0 .. now : beaconCh' = <<r>> /\ now' = now
            BY <2>2 DEF BeaconSend, Feed!Offer
        <3>2. <<r>> \in Seq(Nat) /\ now \in Nat
            BY DEF AnchorInv, WaitingInv
        <3> QED BY <3>1, <3>2 DEF IsSeq
    <2>3. CASE UNCHANGED <<now, beaconCh>>
        BY <2>3 DEF AnchorInv, WaitingInv
    <2>4. NewRound \/ BeaconSend \/ UNCHANGED <<now, beaconCh>>
        BY DEF Subscription, Subscribe, Unsubscribe, Receive, Close, CloseBegin, CloseErr,
               CloseSubs, Environment, ParentCancel, DrainErr, BeaconStop, Feed!Close, vars
    <2> QED BY <2>1, <2>2, <2>3, <2>4
<1>4. WaitingInv'
    BY <1>1, <1>3 DEF AnchorInv, WaitingInv
<1> QED BY <1>1, <1>2, <1>4, SameLog DEF AnchorInv, CountInv, InHand, AnchorDue

LEMMA NextAnchor == AnchorInv /\ ClockInv /\ [Next]_vars => AnchorInv'
BY CallAnchor, RunAnchorInv, OtherAnchor DEF Next

\* What enters the log carries the time of its entry, and time goes on.
LEMMA NextClock == AnchorInv /\ ClockInv /\ [Next]_vars => ClockInv'
<1> SUFFICES ASSUME AnchorInv, ClockInv, [Next]_vars PROVE ClockInv'
    OBVIOUS
<1>0. now \in Nat /\ IsSeq(log)
    BY DEF AnchorInv, WaitingInv, LogInv
<1>1. CASE RunTake \/ RunSub
    <2>1. now' = now /\ (log' = log \/ \E id : log' = Append(log, [id |-> id, at |-> now]))
        BY <1>1 DEF RunTake, RunSub
    <2>2. CASE log' = log
        BY <2>1, <2>2 DEF ClockInv
    <2>3. ASSUME NEW id, log' = Append(log, [id |-> id, at |-> now]) PROVE ClockInv'
        <3>1. PICK e : e = [id |-> id, at |-> now]
            OBVIOUS
        <3>2. /\ IsSeq(log') /\ Len(log') = Len(log) + 1 /\ Len(log) \in Nat
              /\ DOMAIN log = 1 .. Len(log)
              /\ \A i \in 1 .. Len(log) : log'[i] = log[i]
              /\ log'[Len(log) + 1] = e
            BY <1>0, <2>3, <3>1, AppendSeq, SeqDomain
        <3>3. DOMAIN log' = 1 .. Len(log) + 1 /\ e.at = now
            BY <3>1, <3>2, SeqDomain
        <3> QED BY <1>0, <2>1, <3>2, <3>3 DEF ClockInv
    <2> QED BY <2>1, <2>2, <2>3
<1>2. CASE log' = log /\ now' \in {now, now + 1}
    BY <1>0, <1>2 DEF ClockInv
<1>3. RunTake \/ RunSub \/ (log' = log /\ now' \in {now, now + 1})
    BY DEF Next, vars, Call, CallAdd, CallSend, CallRefused, CallAbandoned, Subscription,
           Subscribe, Unsubscribe, Receive, Run, RunDone, RunBody, RunNotify, RunSubNotify,
           RunCount, RunAnchor, RunAnchorClosed, RunFetchStart, RunFetch, RunVerify, Close,
           CloseBegin, CloseErr, CloseSubs, Environment, ParentCancel, DrainErr, NewRound,
           BeaconSend, BeaconStop, Feed!Publish, Feed!Offer, Feed!Take, Feed!Close
<1> QED BY <1>1, <1>2, <1>3

\* AnchorInv holds in every reachable state.
THEOREM AnchorInvariance == Spec => []AnchorInv
<1>1. Init => ClockInv
    BY DEF Init, ClockInv
<1> QED BY <1>1, InitAnchor, NextAnchor, NextClock, PTL DEF Spec

\* Of two anchored events the one inserted later has the later round, and nothing
\* up to an anchored event was inserted more than MaxAge after the time that the
\* code computes for its round, whatever the callers, the relay and the beacon's
\* channel do and whatever the polling interval and the chain's period are.
THEOREM AnchorsOrdered == Spec => []AnchorsFollowInsertion
<1>1. AnchorInv => AnchorsFollowInsertion
    BY DEF AnchorInv, LogInv
<1> QED BY <1>1, AnchorInvariance, PTL

\* Between two anchors, and before the first, there are at least
\* AnchorInterval main events, however the beacon delays, repeats or withholds
\* its rounds.
THEOREM AnchorsSpacedAlways == Spec => []AnchorsSpaced
<1>1. AnchorInv => AnchorsSpaced
    BY DEF AnchorInv, LogInv
<1> QED BY <1>1, AnchorInvariance, PTL

-----------------------------------------------------------------------------
(* The refinement of Timeline                                              *)

LEMMA FunctionSeq ==
    ASSUME NEW n \in Nat, NEW f, DOMAIN f = 1 .. n, f = [i \in 1 .. n |-> f[i]]
    PROVE  IsSeq(f) /\ Len(f) = n
<1>1. PICK S : S = {f[i] : i \in 1 .. n}
    OBVIOUS
<1>2. f \in [1 .. n -> S]
    BY <1>1, Zenon
<1>3. f \in Seq(S) /\ Len(f) = n
    BY <1>2
<1> QED BY <1>3 DEF IsSeq

\* A sequence that agrees with s as far as s goes, and goes one further.
LEMMA LongerByOne ==
    ASSUME NEW s, NEW t, IsSeq(s), IsSeq(t), Len(t) = Len(s) + 1,
           \A i \in 1 .. Len(s) : t[i] = s[i]
    PROVE  t = Append(s, t[Len(t)])
<1>1. PICK x : x = t[Len(t)]
    OBVIOUS
<1>2. PICK u : u = Append(s, x)
    OBVIOUS
<1>3. /\ Len(s) \in Nat /\ IsSeq(u) /\ Len(u) = Len(t)
      /\ \A i \in 1 .. Len(t) : u[i] = t[i]
    <2>1. /\ IsSeq(u) /\ Len(u) = Len(s) + 1 /\ u[Len(s) + 1] = x
          /\ \A i \in 1 .. Len(s) : u[i] = s[i]
        BY <1>2, AppendSeq
    <2> QED BY <1>1, <2>1, SeqDomain
<1>4. PICK S : u \in Seq(S)
    BY <1>3 DEF IsSeq
<1>5. PICK R : t \in Seq(R)
    BY DEF IsSeq
<1>6. u = t
    BY <1>3, <1>4, <1>5
<1> QED BY <1>1, <1>2, <1>6

\* Timeline counts as EventPool does.
LEMMA SameCount == \A S : T!Cardinality(S) = Cardinality(S)
BY DEF T!Cardinality, Cardinality

\* What the timeline holds, and the IDs it names.
LEMMA TimelineEntries ==
    ASSUME LogInv
    PROVE  /\ IsSeq(timeline) /\ Len(timeline) = Len(log) /\ DOMAIN timeline = DOMAIN log
           /\ Len(log) \in Nat /\ DOMAIN log = 1 .. Len(log)
           /\ \A i \in DOMAIN log :
                 /\ timeline[i].id = log[i].id
                 /\ timeline[i].main = IsMain(i)
                 /\ timeline[i].round = Round(i)
           /\ T!IDs = DOMAIN dag
<1>1. Len(log) \in Nat /\ DOMAIN log = 1 .. Len(log)
    BY SeqDomain DEF LogInv
<1>2. DOMAIN timeline = 1 .. Len(log) /\ timeline = [i \in 1 .. Len(log) |-> timeline[i]]
    BY <1>1 DEF timeline
<1>3. IsSeq(timeline) /\ Len(timeline) = Len(log)
    BY <1>1, <1>2, FunctionSeq
<1>4. \A i \in DOMAIN log :
          /\ timeline[i].id = log[i].id
          /\ timeline[i].main = IsMain(i)
          /\ timeline[i].round = Round(i)
    BY DEF timeline
<1>5. T!IDs = DOMAIN dag
    <2>1. T!IDs = {log[i].id : i \in DOMAIN log}
        BY <1>1, <1>2, <1>4 DEF T!IDs
    <2>2. /\ \A i \in DOMAIN log : log[i].id \in DOMAIN dag
          /\ \A id \in DOMAIN dag : \E i \in DOMAIN log : log[i].id = id
        BY DEF LogInv
    <2> QED BY <2>1, <2>2
<1> QED BY <1>1, <1>2, <1>3, <1>4, <1>5

\* Offering an event to the DAG extends the timeline or leaves it alone.
LEMMA StoreTimeline ==
    ASSUME LogInv, NEW e, NEW at, dag' = AfterAdd(dag, e),
           log' = IF Accepts(dag, e) THEN Append(log, [id |-> e.id, at |-> at]) ELSE log
    PROVE  T!Extend \/ timeline' = timeline
<1>0. Len(log) \in Nat /\ DOMAIN log = 1 .. Len(log)
    BY SeqDomain DEF LogInv
<1>1. \A i \in DOMAIN log :
          /\ i \in DOMAIN log' /\ log'[i] = log[i]
          /\ Round(i)' = Round(i) /\ IsMain(i)' = IsMain(i)
          /\ Refs(dag'[log'[i].id]) = Refs(dag[log[i].id])
    BY StoreKeepsRounds, AfterAddOld DEF LogInv
<1>2. \A i \in DOMAIN log :
          timeline'[i] = timeline[i]
    BY <1>1 DEF timeline
<1>3. CASE Accepts(dag, e)
    <2>0. PICK n : n = Len(log) + 1
        OBVIOUS
    <2>1. IsSeq(log') /\ Len(log') = n /\ DOMAIN log' = 1 .. n
        BY <1>0, <1>3, <2>0, AppendSeq, SeqDomain DEF LogInv
    <2>2. DOMAIN timeline' = 1 .. n /\ timeline' = [i \in 1 .. n |-> timeline'[i]]
        BY <2>1 DEF timeline
    <2>3. IsSeq(timeline') /\ Len(timeline') = n
        BY <1>0, <2>0, <2>2, FunctionSeq
    <2>4. timeline' = Append(timeline, timeline'[n])
        BY <1>0, <1>2, <2>0, <2>3, TimelineEntries, LongerByOne
    <2>5. n \in DOMAIN log' \ DOMAIN log
        BY <1>0, <2>0, <2>1
    <2>6. log'[n].id = e.id /\ dag'[e.id] = Stored(e) /\ Round(n)' = 0
        BY <1>3, <2>5, StoreKeepsRounds, AfterAddNew
    <2>7. LET new == timeline'[n]
          IN  /\ new.id = e.id /\ new.refs = Refs(Stored(e))
              /\ new = [id |-> new.id, refs |-> new.refs, main |-> new.main, round |-> 0]
        BY <2>5, <2>6 DEF timeline
    <2>8. e.id \notin T!IDs /\ Refs(Stored(e)) \subseteq T!IDs
        BY <1>3, AfterAddNew, TimelineEntries
    <2> QED BY <2>0, <2>3, <2>4, <2>7, <2>8, TimelineEntries DEF T!Extend
<1>4. CASE ~Accepts(dag, e)
    <2>1. DOMAIN log' = DOMAIN log
        BY <1>4
    <2>2. timeline' = timeline
        BY <1>1, <2>1 DEF timeline
    <2> QED BY <2>2
<1> QED BY <1>3, <1>4

\* The end of the anchoring step anchors the timeline or leaves it alone.
LEMMA AnchorTimeline ==
    ASSUME LogInv, CurIsNewest, NEW r \in Nat, NEW n \in Nat, AnchorWith(r, n), log' = log,
           Cardinality(SinceLast) >= n, n >= AnchorInterval
    PROVE  T!Anchor \/ timeline' = timeline
<1>1. CASE dag' = dag
    BY <1>1 DEF timeline, IsMain, Round
<1>2. CASE r > lastBeaconRound /\ r # 0 /\ dag' = [dag EXCEPT ![cur.id].beacon = r]
    <2>1. PICK k \in DOMAIN log : IsNewest(k, cur.id)
        BY DEF CurIsNewest
    <2>2. \A i \in DOMAIN log :
              /\ IsMain(i)' = IsMain(i)
              /\ Round(i)' = IF i = k THEN r ELSE Round(i)
              /\ Refs(dag'[log'[i].id]) = Refs(dag[log[i].id])
        BY <1>2, <2>1 DEF LogInv, Shaped, IsMain, Round, IsNewest, Refs
    <2>3. timeline' = [timeline EXCEPT ![k].round = r]
        BY <2>1, <2>2 DEF timeline
    <2>4. k \in DOMAIN timeline /\ timeline'[k].round = r
        BY <2>1, <2>2, TimelineEntries DEF timeline
    <2>5. T!NewestMain(k)
        BY <2>1, TimelineEntries DEF T!NewestMain, IsNewest
    <2>6. T!SinceAnchor = SinceLast
        <3>1. DOMAIN timeline = DOMAIN log /\ DOMAIN log = 1 .. Len(log) /\ Len(log) \in Nat
            BY TimelineEntries
        <3>2. \A i \in DOMAIN log : timeline[i].main = IsMain(i) /\ timeline[i].round = Round(i)
            BY TimelineEntries
        <3>3. \A i \in DOMAIN log : timeline[i].round = 0 <=> i \notin Anchored
            BY <3>2 DEF Anchored, NoAnchor
        <3>4. \A i \in Anchored : i \in DOMAIN log
            BY DEF Anchored
        <3> QED BY <3>1, <3>2, <3>3, <3>4 DEF T!SinceAnchor, SinceLast
    <2>7. T!Cardinality(T!SinceAnchor) >= AnchorInterval
        <3>1. Cardinality(SinceLast) >= AnchorInterval
            BY CountSinceLast, PoolAssumption
        <3> QED BY <2>6, <3>1, SameCount
    <2>8. \A s \in T!Rounds : r > s
        <3>1. \A i \in DOMAIN log : Round(i) \in Nat
            BY DEF LogInv
        <3>2. \A i \in DOMAIN log : Round(i) = 0 \/ Round(i) <= lastBeaconRound
            BY DEF LogInv, AnchorsFollowInsertion, Anchored, NoAnchor
        <3>3. \A s \in T!Rounds : \E i \in DOMAIN log : s = Round(i)
            BY TimelineEntries DEF T!Rounds
        <3> QED BY <1>2, <3>1, <3>2, <3>3 DEF LogInv
    <2>9. r \in Nat \ {0}
        BY <1>2
    <2>10. LET v == timeline'[k].round
           IN  /\ v \in Nat \ {0}
               /\ \A s \in T!Rounds : v > s
               /\ timeline' = [timeline EXCEPT ![k].round = v]
        BY <2>3, <2>4, <2>8, <2>9
    <2> QED BY <2>4, <2>5, <2>7, <2>10 DEF T!Anchor
<1> QED BY <1>1, <1>2 DEF AnchorWith, ValidRound

USE DEF dagVars, runVars, beaconVars, closeVars, subVars, callVars

\* One step of the pool is one of the timeline, or none.
LEMMA StepTimeline ==
    ASSUME AnchorInv, [Next]_vars
    PROVE  [T!Extend \/ T!Anchor]_timeline
<1>1. CASE RunTake
    BY <1>1, StoreTimeline DEF RunTake, AnchorInv
<1>2. CASE RunSub
    BY <1>2, StoreTimeline DEF RunSub, AnchorInv
<1>3. CASE RunAnchor \/ RunAnchorClosed \/ RunFetch
    <2>1. \E r \in Nat : AnchorWith(r, eventCount + 1)
        BY <1>3, TailSeq
        DEF RunAnchor, Feed!Take, RunAnchorClosed, RunFetch, Answers, AnchorInv, WaitingInv
    <2>2. log' = log /\ InHand /\ AnchorDue
        BY <1>3
        DEF RunAnchor, RunAnchorClosed, RunFetch, MainEventDone, InHand, AnchorInv, CountInv
    <2>3. /\ eventCount + 1 \in Nat /\ eventCount + 1 >= AnchorInterval
          /\ Cardinality(SinceLast) >= eventCount + 1
        BY <2>2 DEF AnchorDue, AnchorInv, CountInv
    <2> QED BY <2>1, <2>2, <2>3, AnchorTimeline DEF AnchorInv
<1>4. CASE UNCHANGED <<dag, log>>
    <2>1. timeline' = timeline
        BY <1>4 DEF timeline, IsMain, Round
    <2> QED BY <2>1
<1>5. RunTake \/ RunSub \/ RunAnchor \/ RunAnchorClosed \/ RunFetch \/ UNCHANGED <<dag, log>>
    BY DEF Next, Call, CallAdd, CallSend, CallRefused, CallAbandoned, Subscription, Subscribe,
           Unsubscribe, Receive, Run, RunBody, RunDone, RunNotify, RunSubNotify, RunCount,
           RunFetchStart, RunVerify, Close, CloseBegin, CloseErr, CloseSubs, Environment,
           ParentCancel, DrainErr, NewRound, BeaconSend, BeaconStop, vars
<1> QED BY <1>1, <1>2, <1>3, <1>4, <1>5

\* The pool keeps a timeline: its log and its DAG only grow, each event after
\* all that it refers to, with anchors on the newest main event, in the order
\* of drand's rounds and at least AnchorInterval main events apart.
THEOREM PoolImplementsTimeline == Spec => ImplementsTimeline
<1>1. Init => T!Init
    BY DEF Init, timeline, T!Init
<1>2. AnchorInv /\ [Next]_vars => [T!Extend \/ T!Anchor]_timeline
    BY StepTimeline
<1> QED BY <1>1, <1>2, AnchorInvariance, PTL DEF Spec, ImplementsTimeline, T!Spec

-----------------------------------------------------------------------------
(* What a timeline tells                                                   *)

\* The main events from the anchor before entry j, exclusive, to j.
Stretch(j) ==
    {k \in 1 .. j : timeline[k].main /\ \A i \in 1 .. j - 1 : timeline[i].round # 0 => i < k}

\* Each entry is new and after all it refers to, the rounds of anchors rise along
\* the timeline, and anchors are at least AnchorInterval main events apart.
Chronicle ==
    /\ \A i, j \in DOMAIN timeline : timeline[i].id = timeline[j].id => i = j
    /\ \A i \in DOMAIN timeline :
          timeline[i].refs \subseteq {timeline[k].id : k \in 1 .. i - 1}
    /\ \A i, j \in DOMAIN timeline :
          i < j /\ timeline[i].round # 0 /\ timeline[j].round # 0
              => timeline[i].round < timeline[j].round
    /\ \A j \in DOMAIN timeline :
          timeline[j].round # 0 => Cardinality(Stretch(j)) >= AnchorInterval

\* With it goes that the entries are records, and that only main events have
\* rounds.
ChronicleInv ==
    /\ IsSeq(timeline)
    /\ \A i \in DOMAIN timeline :
          LET e == timeline[i]
          IN  /\ e = [id |-> e.id, refs |-> e.refs, main |-> e.main, round |-> e.round]
              /\ e.round \in Nat
              /\ e.round # 0 => e.main
    /\ Chronicle

LEMMA ExtendChronicle ==
    ASSUME ChronicleInv, T!Extend
    PROVE  ChronicleInv'
<1>1. PICK n, new :
          /\ n = Len(timeline) + 1 /\ timeline' = Append(timeline, new)
          /\ new = [id |-> new.id, refs |-> new.refs, main |-> new.main, round |-> 0]
          /\ new.id \notin T!IDs /\ new.refs \subseteq T!IDs /\ new.round = 0
    BY DEF T!Extend
<1>2. /\ Len(timeline) \in Nat /\ DOMAIN timeline = 1 .. n - 1 /\ n \in Nat
      /\ IsSeq(timeline') /\ DOMAIN timeline' = 1 .. n
      /\ timeline'[n] = new
      /\ \A i \in 1 .. n - 1 : timeline'[i] = timeline[i]
    BY <1>1, AppendSeq, SeqDomain DEF ChronicleInv
<1>3. T!IDs = {timeline[k].id : k \in 1 .. n - 1}
    BY <1>2 DEF T!IDs
<1>4. \A i, j \in 1 .. n : timeline'[i].id = timeline'[j].id => i = j
    BY <1>1, <1>2, <1>3 DEF ChronicleInv, Chronicle
<1>5. ASSUME NEW i \in 1 .. n
      PROVE  timeline'[i].refs \subseteq {timeline'[k].id : k \in 1 .. i - 1}
    <2>1. CASE i = n
        BY <1>1, <1>2, <1>3, <2>1
    <2>2. CASE i # n
        <3>1. i \in 1 .. n - 1 /\ \A k \in 1 .. i - 1 : k \in 1 .. n - 1
            BY <1>2, <2>2
        <3> QED BY <1>2, <3>1 DEF ChronicleInv, Chronicle
    <2> QED BY <2>1, <2>2
<1>6. \A i, j \in 1 .. n :
          i < j /\ timeline'[i].round # 0 /\ timeline'[j].round # 0
              => timeline'[i].round < timeline'[j].round
    BY <1>1, <1>2 DEF ChronicleInv, Chronicle
<1>7. ASSUME NEW j \in 1 .. n, timeline'[j].round # 0
      PROVE  Cardinality(Stretch(j)') >= AnchorInterval
    <2>1. j \in 1 .. n - 1 /\ \A k \in 1 .. j : k \in 1 .. n - 1
        BY <1>1, <1>2, <1>7
    <2>2. Stretch(j)' = Stretch(j)
        BY <1>2, <2>1 DEF Stretch
    <2> QED BY <1>2, <1>7, <2>1, <2>2 DEF ChronicleInv, Chronicle
<1>8. Chronicle'
    BY <1>2, <1>4, <1>5, <1>6, <1>7 DEF Chronicle
<1>9. \A i \in 1 .. n :
          LET e == timeline'[i]
          IN  /\ e = [id |-> e.id, refs |-> e.refs, main |-> e.main, round |-> e.round]
              /\ e.round \in Nat
              /\ e.round # 0 => e.main
    BY <1>1, <1>2 DEF ChronicleInv
<1> QED BY <1>2, <1>8, <1>9 DEF ChronicleInv

LEMMA AnchorChronicle ==
    ASSUME ChronicleInv, T!Anchor
    PROVE  ChronicleInv'
<1>0. PICK n : n = Len(timeline)
    OBVIOUS
<1>1. n \in Nat /\ DOMAIN timeline = 1 .. n
    BY <1>0, SeqDomain DEF ChronicleInv
<1>2. PICK i \in 1 .. n, r \in Nat \ {0} :
          /\ T!NewestMain(i)
          /\ T!Cardinality(T!SinceAnchor) >= AnchorInterval
          /\ \A s \in T!Rounds : r > s
          /\ timeline' = [timeline EXCEPT ![i].round = r]
    BY <1>1 DEF T!Anchor
<1>3. /\ timeline[i].main
      /\ \A k \in 1 .. n : k > i => ~timeline[k].main /\ timeline[k].round = 0
      /\ \A k \in 1 .. n : timeline[k].round \in Nat /\ r > timeline[k].round
    BY <1>1, <1>2 DEF T!NewestMain, T!Rounds, ChronicleInv
<1>4. /\ DOMAIN timeline' = 1 .. n
      /\ \A k \in 1 .. n :
            /\ timeline'[k].id = timeline[k].id
            /\ timeline'[k].refs = timeline[k].refs
            /\ timeline'[k].main = timeline[k].main
            /\ timeline'[k].round = IF k = i THEN r ELSE timeline[k].round
            /\ LET e == timeline'[k]
               IN  e = [id |-> e.id, refs |-> e.refs, main |-> e.main, round |-> e.round]
    BY <1>1, <1>2 DEF ChronicleInv
<1>5. IsSeq(timeline')
    <2>1. timeline' = [k \in 1 .. n |-> timeline'[k]]
        BY <1>1, <1>2
    <2> QED BY <1>1, <1>4, <2>1, FunctionSeq
<1>6. /\ T!SinceAnchor = {k \in 1 .. n : timeline[k].main
                             /\ \A j \in 1 .. n : j >= k => timeline[j].round = 0}
      /\ Cardinality(T!SinceAnchor) >= AnchorInterval
    BY <1>1, <1>2, SameCount DEF T!SinceAnchor
<1>7. timeline[i].round = 0
    <2> SUFFICES ASSUME timeline[i].round # 0 PROVE FALSE
        OBVIOUS
    <2>1. T!SinceAnchor = {}
        BY <1>1, <1>3, <1>6
    <2>2. Cardinality(T!SinceAnchor) = 0
        BY <2>1, FS_EmptySet
    <2> QED BY <1>6, <2>2, PoolAssumption
<1>8. \A k \in 1 .. n : timeline[k].round # 0 => k < i
    BY <1>1, <1>3, <1>7
<1>9. ASSUME NEW j \in 1 .. n, timeline[j].round # 0
      PROVE  Stretch(j)' = Stretch(j)
    <2>1. \A k \in 1 .. j : k \in 1 .. n /\ k # i
        BY <1>1, <1>8, <1>9
    <2>2. \A k \in 1 .. j :
              timeline'[k].main = timeline[k].main /\ timeline'[k].round = timeline[k].round
        BY <1>4, <2>1
    <2>3. \A k \in 1 .. j - 1 : k \in 1 .. j
        BY <1>1
    <2> QED BY <2>2, <2>3 DEF Stretch
<1>10. Stretch(i)' = T!SinceAnchor
    <2>1. Stretch(i)' = {k \in 1 .. i : timeline[k].main
                             /\ \A j \in 1 .. i - 1 : timeline[j].round # 0 => j < k}
        <3>1. /\ \A k \in 1 .. i : k \in 1 .. n
              /\ \A k \in 1 .. i - 1 : k \in 1 .. n /\ k # i
            BY <1>1
        <3> QED BY <1>4, <3>1 DEF Stretch
    <2>2. \A k \in 1 .. n : timeline[k].main => k <= i
        BY <1>1, <1>3
    <2>3. \A k, j \in 1 .. n :
              (timeline[j].round # 0 => j < k) <=> (j >= k => timeline[j].round = 0)
        BY <1>1
    <2>4. \A k \in 1 .. n :
              (\A j \in 1 .. n : timeline[j].round # 0 => j < k)
                  <=> (\A j \in 1 .. i - 1 : timeline[j].round # 0 => j < k)
        BY <1>1, <1>8
    <2> QED BY <1>1, <1>6, <2>1, <2>2, <2>3, <2>4
<1>11. ASSUME NEW j \in 1 .. n, timeline'[j].round # 0
       PROVE  Cardinality(Stretch(j)') >= AnchorInterval
    <2>1. CASE j = i
        BY <1>6, <1>10, <2>1
    <2>2. CASE j # i
        <3>1. timeline[j].round # 0
            BY <1>4, <1>11, <2>2
        <3>2. Stretch(j)' = Stretch(j)
            BY <1>9, <3>1
        <3>3. Cardinality(Stretch(j)) >= AnchorInterval
            BY <1>1, <3>1 DEF ChronicleInv, Chronicle
        <3> QED BY <3>2, <3>3
    <2> QED BY <2>1, <2>2
<1>12. \A k, j \in 1 .. n :
           k < j /\ timeline'[k].round # 0 /\ timeline'[j].round # 0
               => timeline'[k].round < timeline'[j].round
    BY <1>1, <1>3, <1>4, <1>8 DEF ChronicleInv, Chronicle
<1>13. ASSUME NEW j \in 1 .. n
       PROVE  timeline'[j].refs \subseteq {timeline'[k].id : k \in 1 .. j - 1}
    <2>1. \A k \in 1 .. j - 1 : k \in 1 .. n
        BY <1>1
    <2> QED BY <1>1, <1>4, <2>1 DEF ChronicleInv, Chronicle
<1>14. \A k, j \in 1 .. n : timeline'[k].id = timeline'[j].id => k = j
    BY <1>1, <1>4 DEF ChronicleInv, Chronicle
<1>15. Chronicle'
    BY <1>4, <1>11, <1>12, <1>13, <1>14 DEF Chronicle
<1>16. \A k \in 1 .. n : timeline'[k].round \in Nat /\ (timeline'[k].round # 0 => timeline'[k].main)
    BY <1>1, <1>2, <1>3, <1>4 DEF ChronicleInv
<1> QED BY <1>4, <1>5, <1>15, <1>16 DEF ChronicleInv

\* What Timeline allows is enough for a chronicle: whatever is extended and
\* anchored like that lists its events after all they refer to, with rising rounds
\* that are far enough apart.
THEOREM TimelineIsChronicle == T!Spec => []Chronicle
<1>1. T!Init => ChronicleInv
    <2> SUFFICES ASSUME T!Init PROVE ChronicleInv
        OBVIOUS
    <2>1. timeline = << >> /\ DOMAIN timeline = {} /\ IsSeq(<< >>)
        BY DEF T!Init, IsSeq
    <2> QED BY <2>1 DEF ChronicleInv, Chronicle
<1>2. ChronicleInv /\ [T!Extend \/ T!Anchor]_timeline => ChronicleInv'
    <2>1. CASE UNCHANGED timeline
        BY <2>1 DEF ChronicleInv, Chronicle, Stretch
    <2> QED BY <2>1, ExtendChronicle, AnchorChronicle
<1>3. ChronicleInv => Chronicle
    BY DEF ChronicleInv
<1> QED BY <1>1, <1>2, <1>3, PTL DEF T!Spec

\* The log of the pool is such a chronicle of its DAG: an order in which every
\* event comes after its parents and the event that spawned it.
THEOREM PoolChronicle == Spec => []Chronicle
<1> QED BY PoolImplementsTimeline, TimelineIsChronicle, PTL DEF ImplementsTimeline

=============================================================================

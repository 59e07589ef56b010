# dag-time in TLA+

Specifications of dag-time (Go): a node that puts local events into a DAG of
content-addressed events and anchors every so many of them to a round of the
drand beacon. This directory holds the TLA+ modules, the TLC configurations
that check them on small instances, the TLAPS proofs that hold for every
instance, and `PROJECT.json`, which ties each definition to the lines it
stands for.

    tlc -config MemoryDAG.cfg MCMemoryDAG        # one run
    tlapm MemoryDAGProofs.tla                    # one proof module

## 1. The system

| Component | Source | State | Operations | Talks to |
|---|---|---|---|---|
| In-memory DAG | `dag/memory.go`, `dag/dag.go` | map from ID to event; each event lists its children | AddEvent, GetEvent, GetParents, GetChildren, GetSubEvents, GetMainEvents, Verify, Export, Import; one lock | called by the pool's loop and by any user of the node |
| Snapshots | `dag/export.go` | none | write and read the map as JSON | the two DAGs |
| Content IDs | `dag/cid.go` | none | ComputeCID, VerifyCID | the pool computes the ID of each event |
| Event pool | `pool/pool.go` | queue, error channel, subscribers, recent IDs, count since the last anchor, last round | AddEvent, Subscribe, Unsubscribe, Errors, Close, and one `run` goroutine | writes the DAG, reads the beacon, notifies subscribers |
| drand client | `beacon/drand.go` | subscriber channels (one place each), running flag | Start, Stop, Subscribe, GetLatestRound, a polling goroutine | HTTP to drand; the pool's beacon channel |
| IPFS DAG | `dag/ipfs.go` | local index, children map, index file | as the in-memory DAG, plus SaveIndex | an IPFS daemon over HTTP |
| Hashpool adapter | `hashpool/adapter.go` | last event ID, running flag, error channel, in-flight callbacks | Start, Stop, handleCommitment, Submit | hashpool node's callbacks; `pool.AddEvent` |
| Node | `node/node.go` | its parts | New, Close, delegation | all of the above |
| Network | `network/network.go` | a libp2p host | NewNode, Connect, Peers, Close | libp2p |
| Programs | `cmd/dagtime`, `examples/events` | none | flags, signal handler | the node |

What is hard in it:

* **Partial failure inside AddEvent.** The DAG appends back-references while it
  is still checking parents, so a refused call leaves traces.
* **IDs before events.** IDs are computed by callers, so an ID is known, and
  can be named as a parent, before its event is stored, or although it never is.
* **One loop, many goroutines.** Callers, subscribers, Close, the owner of the
  context and the beacon act between any two steps of the pool's loop. Every
  channel is bounded, and two kinds are closed while somebody may be sending.
* **Time from outside.** Rounds come late, come twice, come out of order, or do
  not come; the anchors must nevertheless be ordered and spaced.
* **Shutdown.** Close waits for a loop that nobody may be reading from; the
  context can be cancelled without Close.

`PROJECT.json` lists each of these hazards at its line, with the properties that
would catch it going wrong, or why none does yet.

What makes the components correct, in a sentence each. *DAG*: references never
dangle, never form a cycle, and can always be followed backwards. *Pool*: an
event whose parents were handed out is never refused for them; anchors are
ordered, spaced and on the right event; subscribers see the log in order;
shutdown neither panics nor hangs nor leaves a channel open. *Beacon*: rounds
offered are rounds published, and a round's timestamp is its time. *Adapter*:
commitments form a chain, and Stop ends it cleanly.

## 2. The modules

| Module | Models | How |
|---|---|---|
| `DagStore` | the value of `memoryDAG.events` | operators on a function from IDs to event records: what AddEvent checks, which links it makes, the map after it, what Verify says |
| `EventGraph` | what a DAG of events promises | the abstract specification that `MemoryDAG` and, without copies, `EventPool` implement |
| `MemoryDAG` | `memoryDAG` as an object | one step per critical section (`d.mu` is held for whole bodies): AddEvent of any event, Export, Import of an earlier export |
| `EventPool` | `eventPool` with its goroutines | `EXTENDS DagStore`: `dag` is a store that the run loop writes with `AfterAdd`; see below |
| `Timeline` | what the pool promises about time | the abstract specification that `EventPool` implements |
| `DagWalks` | `Verify` and `GetSubEvents` | `EXTENDS DagStore`: one step per round of a loop or return of a recursion, over a fixed map |
| `DrandBeacon` | `drandBeacon` | Start, Stop, Subscribe and every polling goroutine that was launched |
| `BeaconFeed` | what a subscriber of the beacon sees | the abstract specification that `DrandBeacon` implements and `EventPool` relies on |
| `HashpoolAdapter` | `Adapter` | Start and Stop by several goroutines, overlapping commitment callbacks |
| `Node` | `node.New`, `Node.Close`, `main`'s signal, the network host | `EXTENDS HashpoolAdapter`: one goroutine builds and closes the parts around the adapter's own steps |
| `IpfsDAG` | `ipfsDAG`, its daemon and its index file | `EXTENDS DagStore`: the index is a store; several clients, and a process that ends and starts again |
| `MCMemoryDAG`, `MCEventPool`, `MCDagWalks`, `MCIpfsDAG` | instances for TLC | symmetry, next-state relations that leave out the steps of one side, sets of maps |
| `DagStoreProofs`, `MemoryDAGProofs`, `DagWalksProofs`, `EventPoolProofs`, `TimelineProofs`, `BeaconProofs`, `NodeProofs`, `IpfsDAGProofs` | theorems | section 4 |

How they fit together: `DagStore` is the value that `MemoryDAG`, `EventPool` and
`DagWalks` share, so what is proved of `AfterAdd` holds in all three, and what
`Verified` says in the pool's `RunVerify` is what `DagWalks` shows the code to
compute. `EventPool` and `DrandBeacon` meet in `BeaconFeed`: the beacon
implements it for every subscriber, and the pool's steps `NewRound`,
`BeaconSend`, `RunAnchor` and `BeaconStop` are its steps. `HashpoolAdapter`
sees of the pool its queue; that an event refers only to one queued before it
(`ParentsQueuedFirst`) is what the pool needs to find the parent stored. `Node`
puts the adapter between a pool and a beacon that only start, end and outlive
each other, as their own modules say they do. `IpfsDAG` uses the operators of
`DagStore` for what its AddEvent does to the index, so the lemmas about them
serve for it too.

### DagStore and MemoryDAG

A stored event is `[type, parentID, parents, children, beacon]`; slices are
sequences, since order and repetitions survive in the code. `AfterAdd` is the
whole of AddEvent: nothing if the event itself is refused (`Admissible`),
otherwise the links of the parents met before the first missing one
(`LinkedParents`), and the event only if none is missing (`Accepts`). The
payload is left out, the DAG never reads it. `Offers` lets a caller pass any
event over the IDs: a main event without ParentID, a sub-event with or without.
A snapshot is a copy of the map; JSON preserves IDs and slices. `MaxLinks`
bounds the child lists, which refused calls can lengthen without end.

### EventGraph

A store that grows (`Grow`): events enter after all they refer to and are then
among the children of those, and what is there keeps its type, its references
and the order of its children, and its anchor once it has one. A copy can be made
(`Copy`) and brought back (`Restore`): Export and Import. A refused AddEvent that
has made links is a `Grow` by no event, and so is an anchor.

### EventPool

A step is what one goroutine does between two points at which another can see
or change what it uses.

| Code | Actions |
|---|---|
| `AddEvent` | `CallAdd` (fast path, event built), then the select: `CallSend`, `CallRefused` (done), `CallAbandoned` (own context) |
| `Subscribe`, `Unsubscribe`, reading `Events()` | `Subscribe`, `Unsubscribe`, `Receive` |
| `run`, the select | `RunDone` (context), `RunTake` (event to the DAG), `RunVerify` (ticker) |
| `run`, an event in hand | `RunNotify`, `RunSub` and `RunSubNotify` for each sub-event, then `RunCount` or an anchor |
| `ensureBeaconRound` and what follows it | `RunAnchor` (channel), `RunAnchorClosed` (closed channel gives nil), `RunFetchStart` and `RunFetch` (HTTP) |
| `Close` | `CloseBegin` (first critical section), `CloseErr` (wg.Wait, errCh), `CloseSubs` (second critical section) |
| owner of the context, reader of `Errors()` | `ParentCancel`, `DrainErr` |
| drand and its client | `NewRound`, `BeaconSend`, `BeaconStop` |

* A content ID is the record of what the hashed bytes tell apart: type,
  ParentID, the *bag* of Parents (they are sorted before hashing) and the
  payload. SHA-256 is taken as injective. The ID contains the IDs of the
  parents, as in the program.
* The random choices (whether there are sub-events, how many, which parents)
  are all possible outcomes. `SubParents` has every sequence of distinct recent
  events of at most `MaxSubParents`; the empty one is also what a failed
  probability test gives.
* A round is its number. `now` is the latest that drand has published. The
  channel can be offered any round published so far, as `BeaconFeed` allows: a
  poll may have been answered long before it is sent. A fetch answers a round at
  most `MaxLag` behind, or 0 for an error or for content that
  `validateBeaconRound` refuses; `MaxAge` stands for its hour.
* The age of a round is counted from its `Timestamp`, which `parseResponse`
  computes with `Period`, the polling interval; the chain publishes one every
  `ChainPeriod`. The clock is what it can be while `now` is the latest round
  (`Instants`). With a longer interval than the chain's the timestamps lie in the
  future and a round of any age passes; with a shorter one fresh rounds are
  refused (`beacon_period`). Both are `Nat \ {0}` in the proofs.
* The DAG is written by the loop alone. `Node.DAG` hands out the writable store,
  and a program that added to it beside the pool would be outside the model; no
  code in `src/` does.
* The subscribers' slice is a set: one goroutine notifies them all under one
  lock, and no step depends on their order. A channel keeps what was ever sent
  and how much has been read, so order and loss can be stated.
* `log`, `panicked` and the `lost` and `from` of a channel are history: the
  order of insertion, whether Go would have panicked, drops per subscriber
  (`droppedNotifications` is their sum) and where a subscription began.
* Left out: logging; `eventTicker`, which `run` starts and never reads;
  NewPool's argument checks, which come before any state; and arithmetic on
  the event count, which stays below `AnchorInterval` plus the failed attempts.

### Timeline

One sequence that only grows (`Extend`: a new event that refers to known ones)
and whose newest main event may get a round (`Anchor`), later than every round
before and after at least `AnchorInterval` main events. `EventPool` implements
it by the mapping `timeline`: the log, with references and rounds read off `dag`.

### DagWalks

Both walks hold the read lock throughout, so the map does not change under
them; the order in which Go iterates over it does. A state is the recursion: a
stack of frames with the index reached in each slice, `visited`, what Verify's
first loop has `scanned`, and the result. `inStack` is membership in the stack:
it is set on entry and reset by the deferred function. The walks start on *any*
map, sound or not, since Import takes what a snapshot says. The four other
queries are a lookup or one loop.

### DrandBeacon and BeaconFeed

Time is a number and drand publishes a round every `ChainPeriod`. Each Start
that passes its check launches a poller (`Tick`, `Exit`, `Fetched` or
`FetchFailed`, `Send`); Stop cancels the newest, closes the subscribers' channels
and forgets them, in one critical section, without waiting. A poller that was
stopped in a fetch goes on to `Send`, to whoever has subscribed by then. Rounds
are computed back into time by `Timestamp`, as `parseResponse` does with
`cfg.Period`. `BeaconFeed` is one channel: a place for one round, kept until it is
read, only rounds that were published, nothing after it is closed.

### HashpoolAdapter

A callback has two critical sections: `Handle` reads `lastEventID` and the
context and counts itself in `callbackWG`, `Record` writes `lastEventID`; between
them AddEvent queues the event or fails (`Add`, `AddFail`). The hashpool node is
external: it calls back when it likes, also while Start or Stop is in its own
call to it, and its Start may fail (`Started`). `hashpool` is the last of its calls
that returned: a node whose Start has failed, and its context, stay as they are,
since `running` is reset and every later Stop returns at once. An ID is its commitment; `met`
is history: the callbacks that overlapped with this one. An adapter that is
started again after Stop would send on the `errCh` that Stop has closed; nothing
in the program does that, and the properties are about one Start.

### Node

`main` is the stage of the goroutine that calls New and Close. New's stages come
in the order of its calls (`NewHost`, `ConnectPeer`, `StartBeacon`, `StartPool`,
`NewAdapter` or `NoAdapter`, `AdapterStarted`), each with its failure, which leads
into the middle of the tear-down: New takes down what it has built in the same
order as Close (`StopAdapter`, `WaitAdapter`, `ClosePool`, `JoinPool`, `StopBeacon`,
`CloseHost`), so one set of stages stands for both. `Signal` is main's cancelled
context and its explicit Close; the deferred second one finds every part stopped.
The steps that belong to the adapter are the adapter's own, taken by `Main`; the
other owners are goroutines that got it from `Node.HashpoolAdapter`. The stage
"library" is an adapter in a program that is not the node: any owner may start
and stop it. Of the pool there is whether its goroutine runs, of the beacon
whether it polls; Stop does not wait for the poller of the beacon (`DrandBeacon`),
so neither does the node.

### IpfsDAG

`index.events` is `d.events` with the lists of `d.children`, which has entries for
indexed events only. `ipfs` is what the daemon keeps under the CIDs that some
client knows; its CIDs are not the IDs that ComputeCID makes, and AddEvent throws
them away, so a client has them from the daemon. A client may offer an event
under a CID only if the content is what the CID names (`Offers`), since GetEvent
will put that content there.

| Code | Actions |
|---|---|
| `AddEvent` | `AddEvent` (the checks and links, the lock taken), `DaemonAdd` (the daemon stores), `AddReturn` or `AddFail` (its answer, or none; the lock released) |
| `GetEvent`, `GetParents`, `GetChildren` | `Get` (the call), `Lookup` (first critical section), `Fetched` or `FetchFail` (the daemon's answer, second critical section); the two queries are a GetEvent for each ID, one after the other |
| `SaveIndex`, `Close` | `SaveIndex` (os.Create), `SaveWrite` (Export under the lock), `SaveFail` |
| `Import`, `NewIPFSDAG` | `Import`, `NewIPFSDAG` (which refuses a file that does not decode) |
| the process ends | `Exit`, at any point |

`disk` is the file: whole, with the index it decodes to, or torn. `index.added`,
`failed`, `missed` and `kept` are history: what AddEvent itself has put in the
index, the IDs whose AddEvent failed while they were not indexed, the added events
whose parents could not be got, and what had been added when a SaveIndex began
that has succeeded (until it does, the call has it as `had`).
Left out: an empty `IndexPath`, with which nothing is saved or loaded; Verify,
GetSubEvents and GetMainEvents, which only read, under one lock; the payload and
the anchor; and that GetEvent writes `event.Children` of the event it has just
indexed without the lock (`ipfs.go:341`).

## 3. The runs

| Run | Question | Bounds |
|---|---|---|
| `memdag` | Do refused, retried, duplicate and self-referring adds, exports and imports keep the store sound, and is it an `EventGraph`? | 3 IDs, 2 parents, 3 links, 1 snapshot |
| `memdag_children` (violated) | Is every listed child an event that refers to its parent, as `dag.go:48` says? | the same |
| `pool` | Does the pool implement `Timeline`, and how old can an anchor's round be? Do two callers who name each other's events, and a slow subscriber, get what they should, and is the DAG left intact? | anchors: 4 calls, interval 2, 2 rounds, relay 1 behind, chain period 2, polling interval 1, maximal age 1; events: 2 calls with a subscriber, 3 without, of which the last may name 2 parents, queue 2, buffer 1; both: 1 sub-event |
| `pool_shutdown` | Can any order of Close, Unsubscribe, Subscribe, the loop and a cancelled context panic, hang or leave something open? | 2 callers, 2 calls with 2 parents, 1 foreign ID, 1 subscriber, all buffers 1 |
| `pool_time_claim` (violated) | Did all events before an anchor happen by its round, as `README.md:158` says? | 1 call, 2 rounds |
| `beacon` | Are restarts, late subscribers and a poller caught in a fetch safe, and is each channel a `BeaconFeed`? | 2 subscribers, 2 starts, time 2, periods 1 |
| `beacon_period` (violated) | Is the round that drand has just published recent enough for the pool, with a polling interval shorter than the chain's period? | chain period 3, interval 1, age limit 2, time 6 |
| `walks` | Does Verify find exactly what it looks for, and GetSubEvents the sub-events, on any map, in any order, and are the recursions bounded? | all maps of 3 events with 2 parents; of 2 events with a parent, a child and a third, missing ID; of families of 3 with 2 children |
| `verify_claim` (violated) | Does Verify refuse every cycle and every anchor out of order, as `dag.go:92-96` says? | 1 map of 3 events |
| `adapter` | Do overlapping callbacks, failures, Start and Stop keep the chain and the error channel sound, and does Stop return? Does a node take down all it has built, in order, wherever New fails and whenever it is closed, and what stays open? | 3 commitments, `Main` and another goroutine, queue 1, `errCh` 1, 1 start |
| `ipfs` | Do failing adds, late fetches, overlapping saves, imports and a process that ends anywhere leave the added events a DAG, with their back-references and parents, and is what was saved there after a start? | 1 writer, 1 reader, 2 IDs, 1 CID, 2 parents, 2 links |
| `ipfs_shutdown` (violated) | Can a hung daemon not block Close, as `ipfs.go:118-119` says? | 2 clients, 2 IDs, no CID, 1 parent |

Why the bounds are enough. In `memdag` three IDs give a chain, a diamond's
half, a self-reference, a cycle attempt of length three, a call that fails on
its second parent after linking the first, and its retry; one snapshot gives an
import that goes back over accepted and over refused calls. In the pool runs
each buffer has the size at which it is both empty and full within the bound of
calls. In `pool` a behaviour looks at anchors if its first step is drand's first round,
and else at events (`Sides`, an action constraint: nobody subscribes on the one
side, the beacon is silent on the other); the sides meet in the count of events
and the loop's hand, and the proofs are of the whole module. The anchors need two of them to compare (four calls at interval two,
or a failed attempt and a later success) and two rounds; `MaxLag = 1` lets a
fetch return an older round than the latest, and the latest can be tried twice,
which `lastBeaconRound` has to notice. A chain period of 2 against an interval
of 1 dates the second round one too early, and with `MaxAge = 1` it is
accepted early in its time and refused later, while the first is refused, also in
the channel, once it is superseded. The events keep the beacon
out, so every anchor that comes due fails; a third call is made where nobody has
subscribed, and it alone may name two parents (`FewParents`), which is what a link
needs that is made before the second parent is found missing. Two calls and their
sub-events are four notifications for a buffer of one. One sub-event a turn leaves collisions within a turn to the
theorem `SubEventsAlwaysAccepted`. In
`pool_shutdown` callers can also name an ID that is never stored, so that events
are refused and, after a half-made link, Verify fails; and every anchor fails for
want of a round. All of that goes to an `errCh` with one place. In `beacon` two
starts give a poller that outlives its Stop and meets the next, and two
subscribers one from before it and one from after; a clock that goes to 2 gives
three rounds, so that an offer is dropped and the next is newer. In `walks` three
events have self-references, cycles of each length, diamonds and a cycle beside
a sound part, from every starting point; a missing ID needs only two. In
`adapter` three commitments are the fewest of which two overlap and a third comes
after both, and a queue of one is full with the first; the same instance has the
node, whose `Main` is one of the two goroutines, so that the other stops the adapter
before, during and after Close. In `ipfs` the writer adds and saves while the reader
fetches, saves or imports; two IDs and a CID are enough for a parent that is added,
fetched or both, for an event with two parents of which the second is missing, and
for its retry; a sub-event has its ParentID and no Parents. The reader either queries or saves within one behaviour (`focus`): a
query and a save have no state in common but the index, which each uses in one
critical section. Deadlock is checked in
`memdag` only: elsewhere, once the calls are used up, the component is stopped or
the walk has returned, nothing need happen.

The properties, by what would break them:

* `ImplementsGraph`, `AlwaysDAG`: refused calls leave links behind and Import brings
  back an earlier map, with IDs that were refused or accepted in between.
* `DagIntact`: in the pool's own DAG no call fails half-way as long as callers name
  what they know, so that what `dag.go:48` says of the children is true there, and
  Verify never fails, though neither holds of the DAG alone.
* `LinksAccounted`: an ID never refused for a missing reference is listed as
  often as its event refers to the parent, and not at all before it is stored.
* `QueuedParentsReady`: AddEvent returns the ID only once the event is queued,
  so callers who pass IDs on cannot overtake each other.
* `SubEventsAccepted`: sub-events carry small numbers as payload, and it is the
  ParentID in their hash that keeps them apart.
* `AnchorsSpaced` and `AnchorsFollowInsertion`: the count and `lastBeaconRound`
  over failed, stale and successful attempts. The second also says what an anchor
  really tells of time, which is less than `README.md:158` has it: nothing up to the
  anchored event came more than `MaxAge` after the time that the code *computes* for
  the anchor's round, which is the round's own only if the polling interval is the
  chain's period, and later, without bound, if the interval is longer.
* `DeliveredInOrder`: between the store of an event and its notification a
  subscription can begin or end; what is missing was counted as dropped.
* `NoPanic`, `CloseComplete`: the locks and the order of Close.
* `OnePoller`, `RoundsInOrder`, `PollersEnd`: Stop does not wait, and a fetch does
  not see the context. `RoundsInOrder` holds until a poller is cancelled: after a
  restart the old one can send an older round.
* `VerdictExact`: what Verify looks for, dangling references and cycles through
  Parents, it finds; that it looks for less than is promised is `verify_claim`. A search must not take what an earlier one visited for a
  cycle, nor miss a cycle behind it. `SubEventsExact`: shared and repeated
  children, and sub-events that are only reached through others.
* `ForksOnlyByOverlap`, `ParentsQueuedFirst`: `lastEventID` is read in one critical
  section and written in another, and AddEvent can fail in between.
* `QuietAfterStop`, `StopReturns`: Stop waits for callbacks that wait for the pool.
* `NothingLeftOpen`, `TornDownInOrder`, `TearDownEnds`: seven places at which New can
  fail, each with its own list of parts to close, and a Close that waits for a
  loop and for callbacks that wait for the loop. Two things do stay open, and
  `NothingLeftOpen` says exactly when: the host after a peer that cannot be reached
  (`network.go:80`), and the hashpool node with its context after a hashpool that
  does not start (`adapter.go:133-137`).
* `AddedIsDAG`: AddEvent refuses what refers to nothing, but GetEvent indexes what
  it has fetched without looking at its references; what was added must not come
  to depend on that.
* `LinksAccounted` of `IpfsDAG`, `IndexAppendOnly`: links are made before the daemon
  has the event, and GetEvent replaces what has been indexed since it looked.
* `AddedParentsFound`: the parents of an added event are in the index, so GetParents
  never has to ask the daemon, which does not know the IDs of ComputeCID.
* `SavedSurvive`: SaveIndex truncates the file before it has the lock, and saves
  overlap with each other, with adds and with Import, which puts back what one of
  them has written. A program that ends between the truncation and the write leaves
  a torn file; what was saved is lost then, and no program starts from it.

**Fairness.** *Pool* (`pool_shutdown`): goroutines that can run do run: weak
fairness for the loop's body, for the callers' select, and for the steps of
Close. The loop's own select picks at random among the ready cases, so a case
ready again and again is taken: strong fairness for `RunDone` and `RunTake`. A
fetch ends because the HTTP client has a ten-second timeout (`drand.go:40-48`).
*Beacon*: the same, for the poller's select (strong for `Exit`) and its fetch.
*Adapter*: weak fairness for callbacks and for the rest of a Stop that has begun,
and that the external `hashpool.Stop` returns. *Node*: main goes on with Close where
it can, and the pool's loop ends when its context is done, which `pool_shutdown`
shows. *IPFS* (`ipfs_shutdown`): goroutines go on, the lock is got if it is free again
and again (strong), a query's context ends; the context that AddEvent was given need
not, its callers pass what they like. Nothing is assumed of readers, of other
contexts, of rounds, of the pool behind the adapter, or of anyone calling Close or
Stop.

**Violated runs** are disagreements of a document and the code; `findings` in
`PROJECT.json` quotes both.

## 4. What is proved

For every set of IDs, callers and subscribers and every bound; the assumptions
are the ones named in the modules (`NoIDAssumption`: the empty string is not an
ID; `BoundsAssumption`: bounds are naturals).

* `DagStoreProofs`: lemmas about `AfterAdd`: what it keeps of the events there
  (`AfterAddOld`, `AfterAddPrefix`), what it adds (`AfterAddNew`,
  `AfterAddChildren`), how often it links (`AfterAddOccurs`, `LinkCountAccepted`),
  and that it keeps stores well-formed. `AfterAddGrows` puts them together: whatever
  is offered, and accepted or not, the store `Grows` as `EventGraph` says; and
  `GrowsSound`: what grows like that keeps its references present, acyclic and
  back-linked. `AfterAddChildrenRefer` is for calls that do not fail half-way: after
  them every child still refers to its parent.
* `MemoryDAGProofs`: `TypeCorrect`, `MapImplementsGraph`, `GraphStaysSound`,
  `StaysDAG`, `BackLinks`, `LinksAlwaysAccounted`. The argument goes through the
  abstract specification: every step of the map is one of `EventGraph`
  (`MapImplementsGraph`, by `AfterAddGrows` and the types, `IInv`), and every event
  graph is sound and has sound copies (`GraphStaysSound`): Import makes a snapshot the
  map, so the map alone is not enough, and a new event keeps the store acyclic only
  because nobody in a store without dangling references can refer to it yet.
  `LinkInv` says of the map and of every snapshot that its links are accounted for. It
  is relative to the IDs refused so far: a snapshot taken before a refusal stays
  accounted for because that set only grows.
* `DagWalksProofs`: `VerifyIsExact`, `RecursionIsBounded`, `GetSubEventsIsExact`, for
  every map whatsoever. `SearchInv` is the argument for depth-first search: the
  stack is a path of distinct visited events; of each frame the parents before the
  index have returned, but for the one that the next frame is for; an event that
  has returned has only parents that have, and no cycle can be made of such events.
  So an edge back into the stack closes a cycle, and when the stack has emptied over
  the whole map there is none. `WalkInv` is the one for GetSubEvents: the sub-events
  of the root that were visited are in the result, once each, and the children of the
  root before the outermost index have been visited.
* `EventPoolProofs`, for any number of callers and subscribers and every capacity:
  - `NoPanics`, `ClosingIsComplete`. `ShutdownInv` says that exactly the members of
    `subscribers` have an open channel, that `errCh` is closed only after the loop has
    gone, and that `running` and `errClosed` follow the stage of Close; without the
    first part a notification could meet a closed channel.
  - `QueuedParentsAlwaysReady`. `QueueInv` says that an ID which was returned is in the
    DAG or queued, that a caller's event refers to such IDs only, and that a queued one
    refers to the DAG or to what is ahead of it; so whatever is taken is accepted or
    known already.
  - `SubEventsAlwaysAccepted`. `SpawnInv` says that the sub-events of the loop's event
    have numbers below `subNo`, and that an event which has just been stored has none,
    because a sub-event's ID names a stored event.
  - `AlwaysDeliveredInOrder`. `DeliveryInv` relates each channel to the log: from the
    point of subscription, everything notified is in it, in order, or counted as lost;
    and the event about to be notified is the last of the log.
  - `PoolTypeCorrect`. `CallCountInv` counts every call once, in its caller's hands, in
    the queue, in the loop's or among the events since the last anchor, which bounds
    `eventCount`.
  - `PoolImplementsGraph`, `PoolDagSound`: the pool's DAG is an event graph without
    copies, and sound, whatever IDs the callers name (no run asks this). The step that
    is not about `AfterAdd` is the anchor, which replaces none, because the newest main
    event has none yet (`AnchorInv`, below).
  - `DagAlwaysIntact`. By `QueueInv` and `SpawnInv` an event that the loop offers is
    accepted, or refused before any link is made; so the children stay exactly the
    references read backwards, and a sound store passes Verify (`SoundVerified`).
  - `TurnsAreShort`. `StepsLeft` is a measure that every step of the loop's body lowers
    and no other goroutine touches, so a turn of the loop has at most
    `2 * MaxSubEvents + 3` steps. That it therefore ends when these steps are fair, and
    the fetch returns, is no temporal theorem here.

  Those that rest on `QueueInv` or `SpawnInv` (`QueuedParentsAlwaysReady`,
  `SubEventsAlwaysAccepted`, `PoolTypeCorrect`, `DagAlwaysIntact`, `TurnsAreShort`)
  assume `CIDsNamed`: a content ID is never the empty string.
* `TimelineProofs`: `AnchorsOrdered`, `AnchorsSpacedAlways`, `PoolImplementsTimeline`,
  `TimelineIsChronicle`, `PoolChronicle`.
  The inductive invariant `AnchorInv` ties the three places in which the pool keeps
  its time: the log and the DAG hold the same events, once each; the event in the
  loop's hand is the newest main event; no anchor in the DAG is later than
  `lastBeaconRound`; and the count never exceeds the main events since the last
  anchor. Only together do they say that a successful attempt is both later and far
  enough away. With the lemmas about `AfterAdd`, every step of the pool is then an
  `Extend`, an `Anchor` or leaves the timeline as it is. `ClockInv`: nothing in the log
  is from after `now`, and the clock that the age check reads is not before `now` was
  published.
  `TimelineIsChronicle` shows that `Timeline` promises enough: whatever is extended
  and anchored like that has its events after all they refer to, once each, and its
  rounds rising and spaced; so `PoolChronicle` is a second way to what the two
  invariants say, with the order of references in addition.
* `BeaconProofs`: `NeverPanics`, `OnePollerAtMost`, `RoundsComeInOrder`,
  `BeaconImplementsFeed`. Only the goroutine of the newest Start can be uncancelled,
  and only while the beacon runs (`PollerInv`); the subscribers are exactly those
  with an open channel, and every round on the way was published (`ChanInv`); with a
  relay that is not behind, the round that is about to be sent is not older than any
  that was, until a goroutine has been cancelled (`OrderInv`).
* `NodeProofs`: a lemma, `NodeRunsAdapter`, has every behaviour of the node be, for the
  adapter in it, one of the adapter alone, so that `ParentsAlwaysQueuedFirst` and
  `ForksNeedOverlap` hold in both. They rest on `LinkInv` (an event is queued between
  two stages of its callback, once, and only one whose callback has recorded it is the
  last or somebody's parent) and `ForkInv` (nothing recorded refers to the last event, and
  of two commitments offered with the same parent each met the other).
  `NeverPanics`, `QuietOnceStopped` and `NothingIsLeftOpen` are for an adapter that is
  started once (`MaxStarts = 1`), which is what the node does: `StopInv` says that one goroutine at
  a time stops the adapter and that `errCh` is closed only when no callback is under way
  and none can begin any more; a second start would make it false. `StageInv` says what there is at each stage of New and
  Close, `ServedInv` that an adapter in service runs, is being stopped or has
  stopped; `TakenDownInOrder` follows. `OpenInv` follows the host, the context and the
  hashpool node through these stages, for `NothingIsLeftOpen`.
* `IpfsDAGProofs`: `TypeCorrect`, `AddedAlwaysDAG`, `AddedParentsAlwaysFound`,
  `IndexOnlyGrows`, `SavedAlwaysSurvive`, `LinksAlwaysAccounted`, for any number of clients. `DataInv` says of the
  index and of the file that what AddEvent added refers to
  indexed events and not in a cycle (`IndexOK`), and that what is indexed under a
  CID is what the daemon has there (`Honest`): so a fetch that replaces an event
  replaces it by itself. `CallsInv` says that one client holds the lock, that its
  event can still be accepted, and that a query about an added event has indexed
  parents ahead of it. `LinkInv` says that every list is balanced but for the ID in
  hand, whose links are already made; that the file is
  balanced without exception, since nothing is in hand when it is written; and
  the IDs that failed, which excuse a longer list, only grow. `KeptInv` says that what
  a save was begun with stays in the index until it ends, and is in whatever another
  save has written meanwhile: the file was emptied when it began, so nothing older
  can be in it or come back from it.

Only model-checked: everything under fairness, since liveness is out of the proof
system's reach.

## 5. What is not modelled, and the plan

Not modelled: the byte layout of content IDs and of snapshots; flags, logging and
the example program, which calls the operations that are modelled; ValidateConfig
and the argument checks, which come before any state; `Peers`, since events are
never sent over libp2p; the daemon and the hashpool node beyond what their callers
see.

What could come next:

1. The plain queries, against the references they are meant to follow.
2. A node in which the pool and the beacon are the whole modules and not their
   life spans.
3. The queue between the adapter and the pool as an abstract specification, as
   `BeaconFeed` is for the rounds; measures like `StepsLeft` for Close, for Stop and
   for the walks.

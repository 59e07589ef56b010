------------------------------ MODULE IpfsDAG ------------------------------
(***************************************************************************)
(* ipfsDAG (dag/ipfs.go): the index of events in memory, the daemon that   *)
(* keeps their contents, and the file that the index is saved to.          *)
(*                                                                         *)
(* AddEvent holds d.mu while the daemon answers, so that nothing else      *)
(* reads or writes the index; GetEvent gives it up to ask the daemon for   *)
(* what it has not found, and puts the answer in the index afterwards.     *)
(* d.events and d.children are one DagStore: the children map has entries  *)
(* only for indexed events.                                                *)
(*                                                                         *)
(* The daemon is external.  It names contents by CIDs of its own, not by   *)
(* the IDs of ComputeCID, and it is lossless; its answers can be lost, and *)
(* a request can be outstanding for as long as its caller's context lives. *)
(***************************************************************************)
EXTENDS DagStore

CONSTANTS
    Client,       \* goroutines that use the DAG
    ID,           \* event IDs made by ComputeCID, or chosen by a caller
    Cid,          \* the daemon's names for contents
    MaxParents,   \* longest Parents slice offered
    MaxLinks      \* bound: longest list of children

ASSUME NamesAssumption == NoID \notin ID \cup Cid /\ ID \cap Cid = {}
ASSUME BoundsAssumption == MaxParents \in Nat /\ MaxLinks \in Nat

VARIABLES
    up,       \* the program runs
    index,    \* d.events with d.children; "added" is history: what AddEvent put there
    disk,     \* the index file; a missing one is as good as an empty index
    ipfs,     \* the daemon's contents by CID, where clients know the CID
    call,     \* what each client is doing
    failed,   \* history: IDs whose AddEvent has failed while they were not indexed
    missed,   \* history: added events whose GetParents has failed
    kept      \* history: IDs added before a SaveIndex began that has succeeded

vars == <<up, index, disk, ipfs, call, failed, missed, kept>>

Names == ID \cup Cid

\* What is serialized for the daemon: neither the ID nor the children.
Content(v) == [type |-> v.type, parentID |-> v.parentID, parents |-> v.parents]

Contents == [type : EventTypes, parentID : Names \cup {NoID}, parents : Seq(Names)]

\* Every *Event there is.
Events ==
    {e \in [id : Names, type : EventTypes, parentID : Names \cup {NoID},
            parents : BoundedSeq(Names, MaxParents)] :
        e.type = "MainEvent" => e.parentID = NoID}

\* The ones a caller can offer: a name of the daemon's is only used for the
\* content that it names.
Offers ==
    {e \in Events : e.id \in Cid => e.id \in DOMAIN ipfs /\ ipfs[e.id] = Content(e)}

\* An assignment to a map, over whatever is there.
Put(map, id, v) == [x \in DOMAIN map \cup {id} |-> IF x = id THEN v ELSE map[x]]

EmptyIndex == [events |-> EmptyStore, added |-> {}]

Idle == [pc |-> "idle"]

\* Mutated form: the lock is given up while the daemon answers.
Locked_BeforeStore == \E c \in Client : call[c].pc = "stored"

\* d.mu is held for writing across steps.
Locked == \E c \in Client : call[c].pc \in {"storing", "stored"}

Saving == {c \in Client : call[c].pc = "saving"}

Init ==
    /\ up = FALSE
    /\ index = EmptyIndex
    /\ disk = [whole |-> TRUE, index |-> EmptyIndex]
    /\ ipfs = << >>
    /\ call = [c \in Client |-> Idle]
    /\ failed = {} /\ missed = {}
    /\ kept = {}

-----------------------------------------------------------------------------
(* AddEvent                                                                *)

Failed(id) == IF id \in DOMAIN index.events THEN failed ELSE failed \cup {id}

\* The checks, with the links that they make on the way; d.mu is taken, and
\* kept if the event goes to the daemon.
AddEvent(c, e) ==
    LET linked == IF Admissible(index.events, e) THEN WithLinks(index.events, e)
                                                 ELSE index.events
    IN  /\ up /\ call[c] = Idle /\ ~Locked
        /\ \A p \in DOMAIN linked : Len(linked[p].children) <= MaxLinks
        /\ index' = [index EXCEPT !.events = linked]
        /\ IF Accepts(index.events, e)
           THEN /\ call' = [call EXCEPT ![c] = [pc |-> "storing", ev |-> e]]
                /\ UNCHANGED failed
           ELSE /\ failed' = Failed(e.id)
                /\ UNCHANGED call
        /\ UNCHANGED <<up, disk, ipfs, missed, kept>>

\* The daemon keeps the content.  AddEvent takes no notice of the CID; a client
\* that learns it has it from the daemon.
DaemonAdd(c) ==
    LET content == Content(call[c].ev)
    IN  /\ call[c].pc = "storing"
        /\ \/ UNCHANGED ipfs
           \/ \E x \in Cid \ DOMAIN ipfs : ipfs' = Put(ipfs, x, content)
        /\ call' = [call EXCEPT ![c].pc = "stored"]
        /\ UNCHANGED <<up, index, disk, failed, missed, kept>>

\* The answer has come.
AddReturn(c) ==
    /\ call[c].pc = "stored"
    /\ LET e == call[c].ev
       IN  index' = [events |-> Put(index.events, e.id, Stored(e)),
                     added  |-> index.added \cup {e.id}]
    /\ call' = [call EXCEPT ![c] = Idle]
    /\ UNCHANGED <<up, disk, ipfs, failed, missed, kept>>

\* No answer, or a bad one, or the caller's context is done; the links stay,
\* and so does what the daemon has stored.
AddFail(c) ==
    /\ call[c].pc \in {"storing", "stored"}
    /\ failed' = failed \cup {call[c].ev.id}
    /\ call' = [call EXCEPT ![c] = Idle]
    /\ UNCHANGED <<up, index, disk, ipfs, missed, kept>>

-----------------------------------------------------------------------------
(* GetEvent, GetParents and GetChildren                                    *)

\* A call starts with the IDs it has to get.  "known" is history: the event
\* asked for has been an added one since then.  GetChildren of an event that
\* has none returns at once.
Get(c, op, id) ==
    /\ up /\ call[c] = Idle
    /\ op = "children" => ~Locked
    /\ LET todo == IF op # "children" THEN <<id>>
                   ELSE IF id \in DOMAIN index.events THEN index.events[id].children
                   ELSE << >>
       IN  /\ todo # << >>
           /\ call' = [call EXCEPT ![c] = [pc |-> "get", op |-> op, id |-> id, todo |-> todo,
                                            known |-> id \in index.added]]
    /\ UNCHANGED <<up, index, disk, ipfs, failed, missed, kept>>

\* Call r goes on after it has got event v, or returns: GetParents, which began
\* with the event itself, has its parents still to get.
Advance(r, v) ==
    LET todo == IF r.op = "parents" THEN v.parents ELSE Tail(r.todo)
        op   == IF r.op = "parents" THEN "rest" ELSE r.op
    IN  IF todo = << >> THEN Idle
        ELSE [r EXCEPT !.pc = "get", !.op = op, !.todo = todo]

\* Mutated form: the daemon is asked before the index.
Lookup_Daemon(c) ==
    /\ call[c].pc = "get" /\ ~Locked
    /\ call' = [call EXCEPT ![c].pc = "fetch"]
    /\ UNCHANGED <<up, index, disk, ipfs, failed, missed, kept>>

\* GetEvent's first critical section.
Lookup(c) ==
    /\ call[c].pc = "get" /\ ~Locked
    /\ LET id == Head(call[c].todo)
       IN  call' = [call EXCEPT ![c] = IF id \in DOMAIN index.events
                                       THEN Advance(@, index.events[id])
                                       ELSE [@ EXCEPT !.pc = "fetch"]]
    /\ UNCHANGED <<up, index, disk, ipfs, failed, missed, kept>>

\* Mutated form: the children are replaced with the event.
WithFetched_Fresh(store, id, v) ==
    Put(store, id, Stored(v))

\* The index with a fetched event in the place of whatever is there; the
\* children have a map of their own.
WithFetched(store, id, v) ==
    LET children == IF id \in DOMAIN store THEN store[id].children ELSE << >>
    IN  Put(store, id, [Stored(v) EXCEPT !.children = children])

\* The daemon has answered; GetEvent's second critical section.
Fetched(c) ==
    /\ call[c].pc = "fetch" /\ ~Locked
    /\ LET id == Head(call[c].todo)
       IN  /\ id \in DOMAIN ipfs
           /\ index' = [index EXCEPT !.events = WithFetched(@, id, ipfs[id])]
           /\ call' = [call EXCEPT ![c] = Advance(@, ipfs[id])]
    /\ UNCHANGED <<up, disk, ipfs, failed, missed, kept>>

\* The daemon has nothing of that name (it never has for the IDs of
\* ComputeCID), or does not answer: the whole call fails.
FetchFail(c) ==
    /\ call[c].pc = "fetch"
    /\ missed' = IF call[c].op \in {"parents", "rest"} /\ call[c].known
                 THEN missed \cup {call[c].id} ELSE missed
    /\ call' = [call EXCEPT ![c] = Idle]
    /\ UNCHANGED <<up, index, disk, ipfs, failed, kept>>

-----------------------------------------------------------------------------
(* SaveIndex, Close, Import and the life of the process                    *)

Torn == [whole |-> FALSE, index |-> disk.index]

\* What ExportDAG makes of the maps.
Exported == [whole |-> TRUE, index |-> index]

\* The maps that ImportDAG makes of the file; it fails when the file does not
\* decode.
Imported == disk.whole /\ index' = disk.index

\* os.Create leaves an empty file.  Close is SaveIndex.  "had" is history: what
\* had been added by then.
SaveIndex(c) ==
    /\ up /\ call[c] = Idle
    /\ disk' = Torn
    /\ call' = [call EXCEPT ![c] = [pc |-> "saving", had |-> index.added]]
    /\ UNCHANGED <<up, index, ipfs, failed, missed, kept>>

\* Mutated form: the snapshot is of what was there when the file was made.
SaveWrite_Early(c) ==
    /\ c \in Saving /\ ~Locked
    /\ disk' = [whole |-> TRUE,
                index |-> [events |-> Restrict(index.events, call[c].had),
                           added  |-> call[c].had \cap index.added]]
    /\ kept' = kept \cup call[c].had
    /\ call' = [call EXCEPT ![c] = Idle]
    /\ UNCHANGED <<up, index, ipfs, failed, missed>>

\* Export, once it has the lock: one Write of the whole snapshot.
SaveWrite(c) ==
    /\ c \in Saving /\ ~Locked
    /\ disk' = Exported
    /\ kept' = kept \cup call[c].had
    /\ call' = [call EXCEPT ![c] = Idle]
    /\ UNCHANGED <<up, index, ipfs, failed, missed>>

\* The Write fails, with nothing or a part of the snapshot written.
SaveFail(c) ==
    /\ c \in Saving /\ ~Locked
    /\ disk' \in {disk, Torn}
    /\ call' = [call EXCEPT ![c] = Idle]
    /\ UNCHANGED <<up, index, ipfs, failed, missed, kept>>

\* Import of what was saved, in the place of the index.
Import(c) ==
    /\ up /\ call[c] = Idle /\ ~Locked
    /\ Imported
    /\ call' = [d \in Client |-> IF call[d].pc \in {"get", "fetch"}
                                 THEN [call[d] EXCEPT !.known = FALSE] ELSE call[d]]
    /\ UNCHANGED <<up, disk, ipfs, failed, missed, kept>>

\* Mutated form: an index that does not decode is taken for a missing one.
NewIPFSDAG_AnyIndex ==
    /\ ~up
    /\ up' = TRUE
    /\ index' = IF disk.whole THEN disk.index ELSE EmptyIndex
    /\ UNCHANGED <<disk, ipfs, call, failed, missed, kept>>

\* The program starts, the daemon answers the ping, and the index is loaded.
\* It does not start with an index that does not decode.
NewIPFSDAG ==
    /\ ~up
    /\ Imported
    /\ up' = TRUE
    /\ UNCHANGED <<disk, ipfs, call, failed, missed, kept>>

\* The program ends, after Close or in the middle of anything.
Exit ==
    /\ up
    /\ up' = FALSE
    /\ index' = EmptyIndex
    /\ call' = [c \in Client |-> Idle]
    /\ disk' \in {disk} \cup (IF Saving # {} THEN {Torn} ELSE {})
    /\ UNCHANGED <<ipfs, failed, missed, kept>>

-----------------------------------------------------------------------------
Queries == {"event", "parents", "children"}

Next ==
    \/ \E c \in Client :
          \/ \E e \in Offers : AddEvent(c, e)
          \/ \E op \in Queries, id \in Names : Get(c, op, id)
          \/ DaemonAdd(c) \/ AddReturn(c) \/ AddFail(c)
          \/ Lookup(c) \/ Fetched(c) \/ FetchFail(c)
          \/ SaveIndex(c) \/ SaveWrite(c) \/ SaveFail(c) \/ Import(c)
    \/ NewIPFSDAG \/ Exit

Spec == Init /\ [][Next]_vars

\* Goroutines go on when they can, a lock that is free again and again is got,
\* and a query's context ends.  Nothing is assumed of the context that AddEvent
\* was given.
Fairness ==
    \A c \in Client :
        /\ WF_vars(AddReturn(c))
        /\ WF_vars(Fetched(c) \/ FetchFail(c))
        /\ SF_vars(Lookup(c))
        /\ SF_vars(SaveWrite(c) \/ SaveFail(c))

FairSpec == Spec /\ Fairness

-----------------------------------------------------------------------------
(* Properties                                                              *)

\* Events are well-formed, in memory and on disk; what a client adds is not
\* indexed yet and its references are.
TypeOK ==
    /\ up \in BOOLEAN
    /\ \A x \in {index, disk.index} :
          IsStore(x.events, Names) /\ x.added \subseteq DOMAIN x.events
    /\ disk.whole \in BOOLEAN
    /\ DOMAIN ipfs \subseteq Cid /\ ipfs \in [DOMAIN ipfs -> Contents]
    /\ failed \cup missed \cup kept \subseteq Names
    /\ \A c \in Client :
          call[c].pc \in {"storing", "stored"} => Accepts(index.events, call[c].ev)

\* Whatever is fetched, saved, loaded and half-done, the events that AddEvent
\* put in the index refer to indexed events only, and not in a cycle: only
\* an event that GetEvent has fetched can dangle or close one.
AddedIsDAG ==
    /\ \A id \in index.added : Refs(index.events[id]) \subseteq DOMAIN index.events
    /\ \A S \in SUBSET index.added :
          S # {} => \E id \in S : Refs(index.events[id]) \cap S = {}

Count(id, seq) == Cardinality({i \in DOMAIN seq : seq[i] = id})

RefCount(v, p) ==
    Count(p, v.parents) + (IF v.type = "SubEvent" /\ v.parentID = p THEN 1 ELSE 0)

\* An added event is among the children of whatever it refers to, as often as it
\* refers to it, or more often if an earlier AddEvent of its ID failed; an ID
\* whose AddEvent never failed is not listed before its event is there.
LinksAccounted ==
    \A p \in DOMAIN index.events : \A id \in Names :
        LET listed == Count(id, index.events[p].children)
            due == IF id \in index.added THEN RefCount(index.events[id], p) ELSE 0
        IN  /\ listed >= due
            /\ \/ listed = due
               \/ id \in failed
               \/ \E c \in Client : call[c].pc \in {"storing", "stored"} /\ call[c].ev.id = id

\* But for Import and the start and end of the program, an indexed event keeps
\* its content, also when GetEvent replaces it by what it has fetched, and its
\* children only grow at the end.
IndexAppendOnly ==
    [][\/ \E c \in Client : Import(c)
       \/ NewIPFSDAG \/ Exit
       \/ /\ index.added \subseteq index'.added
          /\ \A id \in DOMAIN index.events :
               /\ id \in DOMAIN index'.events
               /\ Content(index'.events[id]) = Content(index.events[id])
               /\ IsPrefix(index.events[id].children, index'.events[id].children)]_vars

\* What had been added when a SaveIndex began that then succeeded is there
\* whenever the program runs, however it ended and started since, whatever
\* other saves overlapped that one, failed or were cut short, and whatever is
\* imported.  (A save that is cut short can leave a file that does not decode;
\* the program then refuses to start, and what was in the file is lost.)
SavedSurvive == up => kept \subseteq index.added

\* GetParents finds the parents of an event that was added, whether the daemon
\* answers or not and whatever other clients fetch or add meanwhile.
AddedParentsFound == missed = {}

\* "Close saves the index and cleans up resources.  The index save is bounded by
\* IPFSConfig.OperationTimeout so a hung daemon cannot block shutdown."
\* (ipfs.go:118-119)
CloseReturns == \A c \in Client : c \in Saving ~> c \notin Saving

=============================================================================

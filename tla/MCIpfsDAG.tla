----------------------------- MODULE MCIpfsDAG -----------------------------
(***************************************************************************)
(* Model-checking instance of IpfsDAG.  One client adds to the index.  The *)
(* other one queries it while nothing is saved, or both save it while      *)
(* nothing is queried.  That loses little: writers exclude each other, and *)
(* what a second query could put in the index a writer can, by AddEvent of *)
(* the content under its CID; a file holds an index, fetched events in it  *)
(* or not.                                                                 *)
(***************************************************************************)
EXTENDS IpfsDAG

CONSTANTS Writer, Reader

ASSUME ClientAssumption == Client = {Writer, Reader}

VARIABLE focus

\* A sub-event has its ParentID and nothing more.
Simple(e) == e.type = "SubEvent" => e.parents = << >>

MCInit == Init /\ focus \in {"queries", "saves"}

Write ==
    \/ \E e \in Offers : Simple(e) /\ AddEvent(Writer, e)
    \/ AddReturn(Writer) \/ AddFail(Writer) \/ \E c \in Client : Import(c)

Query ==
    \/ DaemonAdd(Writer)
    \/ \E op \in Queries, id \in Names : Get(Reader, op, id)
    \/ Lookup(Reader) \/ Fetched(Reader) \/ FetchFail(Reader)

Save ==
    \/ DaemonAdd(Writer) /\ UNCHANGED ipfs
    \/ \E c \in Client : SaveIndex(c) \/ SaveWrite(c) \/ SaveFail(c)

MCNext ==
    /\ UNCHANGED focus
    /\ \/ Write \/ NewIPFSDAG \/ Exit
       \/ focus = "queries" /\ Query
       \/ focus = "saves" /\ Save

MCSpec == MCInit /\ [][MCNext]_<<vars, focus>>

Symmetry == Permutations(ID) \cup Permutations(Cid)

=============================================================================

----------------------------- MODULE BeaconFeed -----------------------------
(***************************************************************************)
(* What one subscriber of the drand client can count on: a channel with    *)
(* room for one round, filled only while it is open and empty, only with   *)
(* rounds that drand has published, and closed at most once.  Nothing is   *)
(* promised about freshness or order: a round can wait before it is        *)
(* offered, and again in the channel.                                      *)
(*                                                                         *)
(* DrandBeacon implements it for each of its subscribers; the steps of     *)
(* EventPool's beacon are the steps of this module.                        *)
(***************************************************************************)
EXTENDS Naturals, Sequences

VARIABLES
    published,   \* the latest round of drand; 0: none yet
    held,        \* the channel: << >> or <<round>>
    closed       \* the client has closed it

Init == published \in Nat /\ held = << >> /\ closed = FALSE

Publish ==
    /\ published' = published + 1
    /\ UNCHANGED <<held, closed>>

\* 0 is a body without a usable round: the client passes it on.
Offer ==
    /\ ~closed
    /\ held = << >>
    /\ \E r \in 0 .. published : held' = <<r>>
    /\ UNCHANGED <<published, closed>>

\* What a closed channel holds can still be read.
Take ==
    /\ held # << >>
    /\ held' = Tail(held)
    /\ UNCHANGED <<published, closed>>

Close ==
    /\ ~closed
    /\ closed' = TRUE
    /\ UNCHANGED <<published, held>>

Next == Publish \/ Offer \/ Take \/ Close

Spec == Init /\ [][Next]_<<published, held, closed>>

=============================================================================

------------------------------ MODULE Timeline ------------------------------
(***************************************************************************)
(* What the pool promises about time: one sequence of events that only     *)
(* grows, each event after all it refers to, with anchors put on the newest *)
(* main event, in the order of drand's rounds and no closer together than  *)
(* AnchorInterval main events.                                             *)
(*                                                                         *)
(* EventPool implements this specification: the order in which its run     *)
(* loop fills the DAG is the timeline.                                     *)
(***************************************************************************)
EXTENDS Naturals, FiniteSets, SequencesExt

CONSTANT AnchorInterval    \* main events from one anchor to the next, at least

VARIABLE timeline    \* <<[id, refs, main, round], ...>>; round 0: no anchor

IDs == {timeline[i].id : i \in DOMAIN timeline}

Rounds == {timeline[i].round : i \in DOMAIN timeline}

\* The newest main event at i, and the main events since the last anchor.
NewestMain(i) ==
    /\ timeline[i].main
    /\ \A k \in DOMAIN timeline : k > i => ~timeline[k].main

SinceAnchor ==
    {k \in DOMAIN timeline :
        /\ timeline[k].main
        /\ \A j \in DOMAIN timeline : j >= k => timeline[j].round = 0}

Init == timeline = << >>

\* A new event that refers to known ones only.
Extend ==
    /\ Len(timeline') = Len(timeline) + 1
    /\ LET e == timeline'[Len(timeline')]
       IN  /\ e.id \notin IDs /\ e.refs \subseteq IDs
           /\ timeline' = Append(timeline,
                  [id |-> e.id, refs |-> e.refs, main |-> e.main, round |-> 0])

\* The newest main event gets its round, later than every one before.
Anchor ==
    \E i \in DOMAIN timeline :
        LET r == timeline'[i].round
        IN  /\ NewestMain(i)
            /\ Cardinality(SinceAnchor) >= AnchorInterval
            /\ r \in Nat \ {0}
            /\ \A s \in Rounds : r > s
            /\ timeline' = [timeline EXCEPT ![i].round = r]

Spec == Init /\ [][Extend \/ Anchor]_timeline

=============================================================================

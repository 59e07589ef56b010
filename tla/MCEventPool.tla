---------------------------- MODULE MCEventPool ----------------------------
(* Model-checking instance of EventPool without shutdown.  A behaviour that  *)
(* starts with drand's first round looks at anchors, any other at events and *)
(* subscribers: Sides, the cfg's ACTION_CONSTRAINT, cuts the other steps.    *)
EXTENDS EventPool

CallerSymmetry == Permutations(Caller)

Newest == IF log = << >> THEN NoID ELSE log[Len(log)].id

\* One call at a time, with no parent or with the newest event.
CallInTurn(c) ==
    /\ now > 0
    /\ eventCh = << >> /\ \A d \in Caller : pending[d] = NoEvent
    /\ CallAdd(c)
    /\ pending'[c].parents \in {<< >>, <<Newest>>}

\* Only the third and last call names more than one parent, two main events.
FewParents(e) ==
    Len(e.parents) > 1 =>
        /\ calls = 2
        /\ IsInjective(e.parents)
        /\ \A p \in ToSet(e.parents) : p.type = "MainEvent"

\* Callers race to queue events that name each other's; a third call is made
\* where nobody has subscribed.
CallRacing(c) ==
    /\ now = 0 /\ calls < 3
    /\ calls = 2 => \A s \in Subscriber : chan[s].state = "none"
    /\ CallAdd(c)
    /\ FewParents(pending'[c])

PoolNext ==
    \/ \E c \in Caller :
          CallInTurn(c) \/ CallRacing(c) \/ CallSend(c) \/ CallAbandoned(c)
    \/ \E s \in Subscriber : Subscription(s)
    \/ Run
    \/ NewRound \/ BeaconSend \/ BeaconStop

PoolSpec == Init /\ [][PoolNext]_vars

\* Events: subscribers come, go and fall behind; the beacon has nothing to say.
EventsStep ==
    /\ UNCHANGED <<beaconCh, beaconClosed>>
    /\ calls = 3 => UNCHANGED chan

\* The first round comes before the first call.
FirstRound == calls = 0 /\ UNCHANGED chan

\* Anchors: nobody subscribes, sub-events have no parents of their own, rounds
\* come while the loop works.
AnchorStep == sub'.parents = << >> /\ UNCHANGED chan

Sides ==
    IF now > 0 THEN AnchorStep
    ELSE IF now' > 0 THEN FirstRound ELSE EventsStep

=============================================================================

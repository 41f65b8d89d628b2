----------------------------- MODULE MCMissions -----------------------------
(* Small instances of Missions for TLC. *)
EXTENDS Missions, TLC

CONSTANTS a1, a2, led, flat, m1, m2

\* led has a coordinator and a coverage agent; flat organises itself.
MCMembers == [t \in Teams |-> SetToSeq(Agents)]
MCCoordinator == [t \in Teams |-> IF t = led THEN a1 ELSE None]
MCCoverage == [t \in Teams |-> IF t = led THEN a2 ELSE None]

\* Concurrent requests are interchangeable.
RequestSymmetry == Permutations(Requests)

\* No guard reads silenced or the bus, and neither do the concurrent run's
\* properties.
WithoutBus == <<file, copy, history, todo, created>>

=============================================================================

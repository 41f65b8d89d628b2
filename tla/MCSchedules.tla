----------------------------- MODULE MCSchedules ----------------------------
(* A small instance of Schedules for TLC. *)
EXTENDS Schedules, TLC

CONSTANTS m1, m2, n1, hourly, daily, empty, r1, r2

\* Handlers are interchangeable, and so are missions and good expressions.
Interchangeable ==
    Permutations(Requests) \cup Permutations(Missions) \cup Permutations(Parses)
=============================================================================

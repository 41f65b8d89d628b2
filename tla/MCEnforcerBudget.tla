-------------------------- MODULE MCEnforcerBudget --------------------------
(* Instances of EnforcerBudget for TLC. *)
EXTENDS EnforcerBudget, TLC

CONSTANTS c1, c2, ta, tb

TwoCalls == {c1, c2}
TwoTasks == {ta, tb}
Symmetric == Permutations(Calls) \cup Permutations(Tasks)

\* What decides the future: totals of the day count up to the limit, a task's
\* spending as long as TaskSpendBounded reads it, a call's findings until used.
AtMost(n, limit) == IF n > limit THEN limit ELSE n

InUse(c) == [call[c] EXCEPT !.got = IF At(c, "store") THEN @ ELSE "none",
                            !.usage = IF At(c, "usage") THEN @ ELSE 0]

Relevant ==
    <<tracker, [c \in Calls |-> InUse(c)], sent,
      AtMost(buffered, DailyLimit), AtMost(logged, DailyLimit),
      [t \in Tasks |-> IF turns[t] > 1 THEN <<2, 0>> ELSE <<turns[t], spent[t]>>]>>
=============================================================================

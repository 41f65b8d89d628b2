--------------------------- MODULE MCVMSupervisor ---------------------------
(* Instances of VMSupervisor for TLC. *)
EXTENDS VMSupervisor, TLC

CONSTANTS c1, c2

TwoCallers == {c1, c2}
OneCaller == {c1}
Symmetric == Permutations(Callers)
=============================================================================

---------------------------- MODULE MCTaskDelivery ----------------------------
(* Instances of TaskDelivery for TLC. *)
EXTENDS TaskDelivery, TLC

CONSTANTS t1, d1

OneTrigger == {t1}
OneMessage == {d1}
TriggerTwice == (t1 :> 2) @@ (d1 :> 1)

=============================================================================

-------------------------- MODULE ConstraintPromise --------------------------
(***************************************************************************)
(* What the gateway promises an operator who pushes constraint changes to  *)
(* an agent, without sockets, goroutines, acks or timers                   *)
(* (internal/context/types.go, manager.go).                                *)
(*                                                                         *)
(* Changes are numbered in the order they are issued and only the newest   *)
(* can still get a verdict.  The delivery of a change closes once: the     *)
(* agent answered it, the agent was ordered to halt, or there was nobody   *)
(* to deliver it to.  A set is the accepted one only after the agent had   *)
(* it in force, and the accepted set changes by an acceptance and by       *)
(* nothing else.                                                           *)
(***************************************************************************)
EXTENDS Integers

CONSTANTS
    Sets,         \* the constraint sets operators issue
    Initial,      \* the set accepted before any change
    MaxChanges    \* bound: changes issued

VARIABLES
    last,         \* the number of changes issued
    set,          \* the set of each change
    verdict,      \* what became of it: open, accepted, refused, expired
    delivery,     \* open, answered, halted, or unsent
    accepted,     \* the accepted set
    inForce       \* the changes the agent has had in force

vars == <<last, set, verdict, delivery, accepted, inForce>>

Changes == 1..MaxChanges
Issued == 1..last

Init ==
    /\ last = 0
    /\ set = [v \in Changes |-> Initial]
    /\ verdict = [v \in Changes |-> "open"]
    /\ delivery = [v \in Changes |-> "open"]
    /\ accepted = Initial
    /\ inForce = {}

Issue(s) ==
    /\ last < MaxChanges
    /\ last' = last + 1
    /\ set' = [set EXCEPT ![last + 1] = s]
    /\ UNCHANGED <<verdict, delivery, accepted, inForce>>

\* The agent puts a change in force, be it superseded by then or not.
Enforce(v) ==
    /\ v \in Issued
    /\ inForce' = inForce \cup {v}
    /\ UNCHANGED <<last, set, verdict, delivery, accepted>>

Close(v, how) ==
    /\ v \in Issued
    /\ delivery[v] = "open"
    /\ delivery' = [delivery EXCEPT ![v] = how]
    /\ UNCHANGED <<last, set, inForce>>

Judge(v, judgement) ==
    /\ v = last
    /\ verdict[v] = "open"
    /\ verdict' = [verdict EXCEPT ![v] = judgement]

Accept(v) ==
    /\ v \in inForce
    /\ Close(v, "answered")
    /\ Judge(v, "accepted")
    /\ accepted' = set[v]

Refuse(v) ==
    /\ Close(v, "answered")
    /\ Judge(v, "refused")
    /\ UNCHANGED accepted

\* The time of the newest change is up; its delivery ends with the halt order.
Expire(v) ==
    /\ v \in Issued
    /\ delivery[v] = "open"
    /\ Judge(v, "expired")
    /\ UNCHANGED <<last, set, delivery, accepted, inForce>>

OrderHalt(v) ==
    /\ Close(v, "halted")
    /\ v = last => verdict[v] = "expired"
    /\ UNCHANGED <<verdict, accepted>>

\* The answer to a superseded change closes its delivery and decides nothing.
AnswerSuperseded(v) ==
    /\ Close(v, "answered")
    /\ v # last
    /\ UNCHANGED <<verdict, accepted>>

LeaveUnsent(v) ==
    /\ Close(v, "unsent")
    /\ verdict[v] = "open"
    /\ UNCHANGED <<verdict, accepted>>

Conclude(v) ==
    \/ Accept(v) \/ Refuse(v) \/ Expire(v) \/ OrderHalt(v) \/ AnswerSuperseded(v)
    \/ LeaveUnsent(v)

Next ==
    \/ \E s \in Sets : Issue(s)
    \/ \E v \in Changes : Enforce(v) \/ Conclude(v)

Spec == Init /\ [][Next]_vars

\* A delivery does not stay open: it is the gateway's own to conclude.
FairSpec == Spec /\ \A v \in Changes : WF_vars(Conclude(v))
=============================================================================

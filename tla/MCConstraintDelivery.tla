------------------------ MODULE MCConstraintDelivery ------------------------
(* Small instances of ConstraintDelivery for TLC. *)
EXTENDS ConstraintDelivery

\* Wide; a revocation of it; and a set the wire corrupts.
Wide    == [caps |-> {"read", "write"}, limit |-> 2]
Tight   == [caps |-> {"read"}, limit |-> 1]
Corrupt == [caps |-> {"write"}, limit |-> NoLimit]

DeliverySets == {Wide, Tight, Corrupt}
CorruptOnly == {Corrupt}

LowOrNone == {NoOverride, Low}

(* What a behaviour of the delivery run may have: two changes over one socket, or
   one change while two sockets replace each other and the operator halts and
   starts the agent.  Sockets are interchangeable, so the first comes first. *)
InOrder   == \A c \in Conns : handler'[c] # "unused" => \A b \in 1..c : handler'[b] # "unused"
OneSocket == ops' = 0 /\ \A c \in Conns \ {1} : handler'[c] = "unused"
OneChange == Latest' <= 1 /\ \A v \in 1..Latest' : history'[v].set = Tight
Focus     == InOrder /\ (OneSocket \/ OneChange)
=============================================================================

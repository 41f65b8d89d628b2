------------------------ MODULE ConstraintDeliveryProofs ------------------------
(***************************************************************************)
(* Proofs about ConstraintDelivery, for every number of changes, sockets   *)
(* and operator commands and every set of constraint sets.                 *)
(***************************************************************************)
EXTENDS ConstraintDelivery, SequenceTheorems, TLAPS

-----------------------------------------------------------------------------
(* Sequences *)

\* Setting the status of one change keeps the history a history, of the same
\* length, and touches nothing else (Manager.syncLatestToHistory).
LEMMA StatusUpdate ==
    ASSUME NEW h \in Seq(Change), NEW v \in 1..Len(h), NEW s \in Statuses
    PROVE  LET g == [h EXCEPT ![v].status = s] IN
           /\ g \in Seq(Change)
           /\ Len(g) = Len(h)
           /\ \A u \in 1..Len(h) : u # v => g[u] = h[u]
           /\ g[v] = [h[v] EXCEPT !.status = s]
           /\ g[v].set = h[v].set /\ g[v].severity = h[v].severity /\ g[v].status = s
<1> DEFINE new == [h[v] EXCEPT !.status = s]
<1>1. h[v] \in Change
  BY ElementOfSeq
<1>2. new \in Change /\ new.set = h[v].set /\ new.severity = h[v].severity /\ new.status = s
  BY <1>1 DEF Change
<1>3. [h EXCEPT ![v].status = s] = [h EXCEPT ![v] = new]
  OBVIOUS
<1> HIDE DEF new
<1>4. /\ [h EXCEPT ![v] = new] \in Seq(Change)
      /\ Len([h EXCEPT ![v] = new]) = Len(h)
      /\ \A u \in 1..Len(h) : [h EXCEPT ![v] = new][u] = IF u = v THEN new ELSE h[u]
  BY <1>2, ExceptSeq
<1>5. QED
  BY <1>2, <1>3, <1>4 DEF new

\* Putting an element into one of a family of queues.
LEMMA QueueAppend ==
    ASSUME NEW S, NEW q \in [Conns -> Seq(S)], NEW c \in Conns, NEW e \in S
    PROVE  LET r == [q EXCEPT ![c] = Append(@, e)] IN
           /\ r \in [Conns -> Seq(S)]
           /\ \A d \in Conns : d # c => r[d] = q[d]
           /\ r[c] = Append(q[c], e)
           /\ Len(r[c]) = Len(q[c]) + 1
           /\ \A i \in 1..Len(q[c]) : r[c][i] = q[c][i]
           /\ r[c][Len(q[c]) + 1] = e
<1>1. q[c] \in Seq(S)
  OBVIOUS
<1>2. /\ Append(q[c], e) \in Seq(S)
      /\ Len(Append(q[c], e)) = Len(q[c]) + 1
      /\ \A i \in 1..Len(q[c]) : Append(q[c], e)[i] = q[c][i]
      /\ Append(q[c], e)[Len(q[c]) + 1] = e
  BY <1>1, AppendProperties
<1>3. QED
  BY <1>2, Zenon

\* Taking the oldest element out of one of a family of queues.
LEMMA QueueTail ==
    ASSUME NEW S, NEW q \in [Conns -> Seq(S)], NEW c \in Conns, q[c] # <<>>
    PROVE  LET r == [q EXCEPT ![c] = Tail(@)] IN
           /\ r \in [Conns -> Seq(S)]
           /\ \A d \in Conns : d # c => r[d] = q[d]
           /\ Head(q[c]) \in S
           /\ Len(q[c]) \in Nat /\ Len(q[c]) > 0 /\ Head(q[c]) = q[c][1]
           /\ \A i \in 1..Len(r[c]) : i + 1 \in 1..Len(q[c]) /\ r[c][i] = q[c][i + 1]
<1>1. q[c] \in Seq(S)
  OBVIOUS
<1>2. /\ Head(q[c]) \in S
      /\ Tail(q[c]) \in Seq(S)
      /\ Len(Tail(q[c])) = Len(q[c]) - 1
      /\ \A i \in 1..Len(Tail(q[c])) : Tail(q[c])[i] = q[c][i + 1]
  BY <1>1, HeadTailProperties
<1>3. Len(q[c]) \in Nat /\ Len(q[c]) > 0 /\ Head(q[c]) = q[c][1]
  BY <1>1, EmptySeq
<1>4. \A i \in 1..Len(Tail(q[c])) : i + 1 \in 1..Len(q[c])
  BY <1>2, <1>3
<1>5. [q EXCEPT ![c] = Tail(@)][c] = Tail(q[c])
  OBVIOUS
<1>6. [q EXCEPT ![c] = Tail(@)] \in [Conns -> Seq(S)]
  BY <1>2
<1>7. QED
  BY <1>2, <1>3, <1>4, <1>5, <1>6

\* Emptying one queue, or all of them.
LEMMA QueueEmpty ==
    ASSUME NEW S, NEW q \in [Conns -> Seq(S)], NEW c \in Conns
    PROVE  /\ [q EXCEPT ![c] = <<>>] \in [Conns -> Seq(S)]
           /\ [d \in Conns |-> <<>>] \in [Conns -> Seq(S)]
           /\ Len(<<>>) = 0
BY EmptySeq

\* Cutting one queue down to a prefix.
LEMMA QueueCut ==
    ASSUME NEW S, NEW q \in [Conns -> Seq(S)], NEW c \in Conns, NEW n \in Nat, n <= Len(q[c])
    PROVE  LET r == [q EXCEPT ![c] = SubSeq(@, 1, n)] IN
           /\ r \in [Conns -> Seq(S)]
           /\ \A d \in Conns : d # c => r[d] = q[d]
           /\ Len(r[c]) = n
           /\ \A i \in 1..n : r[c][i] = q[c][i]
<1>1. q[c] \in Seq(S)
  OBVIOUS
<1>2. \A i \in 1..n : q[c][i] \in S
  BY <1>1, ElementOfSeq, LenProperties
<1>3. /\ SubSeq(q[c], 1, n) \in Seq(S)
      /\ Len(SubSeq(q[c], 1, n)) = n
      /\ \A i \in 1..n : SubSeq(q[c], 1, n)[i] = q[c][i]
  <2>1. /\ SubSeq(q[c], 1, n) \in Seq(S)
        /\ Len(SubSeq(q[c], 1, n)) = IF 1 <= n THEN n - 1 + 1 ELSE 0
        /\ \A i \in 1 .. n - 1 + 1 : SubSeq(q[c], 1, n)[i] = q[c][1 + i - 1]
    BY <1>2, SubSeqProperties
  <2>2. QED
    BY <2>1
<1>4. QED
  BY <1>3

-----------------------------------------------------------------------------
(* Type correctness *)

\* Versions are numbers, and Free is none of them.
LEMMA VersionsInNat == Versions \subseteq Nat /\ Free \notin Versions
BY BoundsAssumption DEF Versions, Free

\* The set and the severity of a pushed change are those of the type.
LEMMA PushedChange ==
    ASSUME NEW set \in ConstraintSets, NEW override \in Overrides, NEW old
    PROVE  LET sev == ApplyEscalation(ClassifySeverity(old, set), override) IN
           [set |-> set, severity |-> sev, status |-> "pending"] \in Change
BY InputsAssumption
   DEF ClassifySeverity, ApplyEscalation, Low, Medium, High, Severity, NoOverride,
       Change, Statuses

\* SetStatus keeps the history well-typed and of the same length.
LEMMA SetStatusType ==
    ASSUME TypeOK, NEW v \in Versions, NEW s \in Statuses, SetStatus(v, s)
    PROVE  history' \in Seq(Change) /\ Len(history') = Len(history)
<1>1. CASE v = Latest
  <2>1. v \in 1..Len(history)
    BY <1>1, VersionsInNat DEF TypeOK, Latest, Versions
  <2>2. QED
    BY <1>1, <2>1, StatusUpdate DEF TypeOK, SetStatus
<1>2. CASE v # Latest
  BY <1>2 DEF TypeOK, SetStatus
<1>3. QED
  BY <1>1, <1>2

\* What the type says of one entry of the history.
LEMMA ChangeAt ==
    ASSUME history \in Seq(Change), NEW v \in 1..Len(history)
    PROVE  /\ history[v] \in Change
           /\ history[v].set \in ConstraintSets
           /\ history[v].severity \in Severity
           /\ history[v].status \in Statuses
<1>1. history[v] \in Change
  BY ElementOfSeq
<1>2. QED
  BY <1>1 DEF Change

\* The initial state is well-typed.
LEMMA TypeInit == Init => TypeOK
<1> SUFFICES ASSUME Init PROVE TypeOK
  OBVIOUS
<1>1. history \in Seq(Change) /\ Latest <= MaxPushes
  BY BoundsAssumption, EmptySeq DEF Init, Latest
<1>2. /\ acks \in [Conns -> Seq(Ack)]
      /\ toEnf \in [Conns -> Seq(Versions)]
      /\ fromEnf \in [Conns -> Seq(Ack)]
  BY EmptySeq DEF Init
<1>3. enf \in [version : Versions \cup {0}, set : ConstraintSets \cup {EmptySet}]
  BY DEF Init, FreshEnforcer
<1>4. ops \in 0..MaxOps
  BY BoundsAssumption DEF Init
<1>5. QED
  BY <1>1, <1>2, <1>3, <1>4 DEF Init, TypeOK, PcLabels

\* Every step keeps the types, given that only pushed changes travel.
LEMMA TypeStep ==
    ASSUME TypeOK, OnlyPushedTravel, [Next]_vars
    PROVE  TypeOK'
<1> USE DEF TypeOK, Latest
<1>1. ASSUME NEW s \in ConstraintSets, NEW o \in Overrides, Push(s, o)
      PROVE TypeOK'
  <2>1. PICK new \in Change : history' = Append(history, new)
    BY <1>1, PushedChange DEF Push
  <2>2. history' \in Seq(Change) /\ Latest' <= MaxPushes
    BY <1>1, <2>1, AppendProperties, LenProperties, BoundsAssumption DEF Push
  <2>3. QED
    BY <1>1, <2>2 DEF Push, PcLabels, sockVars, enfVars, lifeVars, ghostVars
<1>2. ASSUME NEW v \in Versions, Resolve(v) PROVE TypeOK'
  BY <1>2 DEF Resolve, managerVars, sockVars, enfVars, lifeVars, ghostVars, PcLabels
<1>3. ASSUME NEW v \in Versions, SendPush(v) PROVE TypeOK'
  <2>1. via[v] \in Conns => toEnf' \in [Conns -> Seq(Versions)]
    <3>1. ASSUME via[v] \in Conns PROVE [toEnf EXCEPT ![via[v]] = Append(@, v)] \in [Conns -> Seq(Versions)]
      BY <3>1, QueueAppend
    <3>2. QED
      BY <1>3, <3>1 DEF SendPush
  <2>2. via[v] \notin Conns => toEnf' = toEnf
    BY <1>3 DEF SendPush
  <2>3. QED
    BY <1>3, <2>1, <2>2 DEF SendPush, managerVars, lifeVars, ghostVars, PcLabels
<1>4. ASSUME NEW v \in Versions, PushRefused(v) PROVE TypeOK'
  BY <1>4 DEF PushRefused, StageFails, managerVars, sockVars, enfVars, lifeVars,
              ghostVars, PcLabels
<1>5. ASSUME NEW v \in Versions, TakeAck(v) \/ DropAck(v)
      PROVE acks' \in [Conns -> Seq(Ack)]
  <2>1. acks[via[v]] # <<>> /\ acks' = [acks EXCEPT ![via[v]] = Tail(@)]
    BY <1>5 DEF TakeAck, DropAck
  <2>2. CASE via[v] \in Conns
    BY <2>1, <2>2, QueueTail
  <2>3. CASE via[v] \notin Conns
    BY <2>1, <2>3
  <2>4. QED
    BY <2>2, <2>3
<1>6. ASSUME NEW v \in Versions, TakeAck(v) PROVE TypeOK'
  BY <1>5, <1>6 DEF TakeAck, managerVars, enfVars, lifeVars, PcLabels
<1>7. ASSUME NEW v \in Versions, DropAck(v) PROVE TypeOK'
  BY <1>5, <1>7 DEF DropAck, managerVars, goVars, enfVars, lifeVars, ghostVars
<1>8. ASSUME NEW v \in Versions, PushFails(v) PROVE TypeOK'
  BY <1>8 DEF PushFails, StageFails, managerVars, enfVars, lifeVars, ghostVars, PcLabels
<1>9. ASSUME NEW v \in Versions, AckChange(v) PROVE TypeOK'
  <2>1. CASE v = Latest
    <3>1. v \in 1..Len(history)
      BY <2>1, VersionsInNat DEF Versions
    <3>2. "acked" \in Statuses /\ SetStatus(v, "acked")
      BY <1>9, <2>1 DEF AckChange, SetStatus, Statuses
    <3>3. history' \in Seq(Change) /\ Len(history') = Len(history)
      BY <3>2, SetStatusType
    <3>4. baseline' \in ConstraintSets
      BY <1>9, <2>1, <3>1, ChangeAt DEF AckChange
    <3>5. QED
      BY <1>9, <3>3, <3>4 DEF AckChange, sockVars, enfVars, lifeVars, ghostVars, PcLabels
  <2>2. CASE v # Latest
    BY <1>9, <2>2 DEF AckChange, sockVars, enfVars, lifeVars, ghostVars, PcLabels
  <2>3. QED
    BY <2>1, <2>2
<1>10. ASSUME NEW v \in Versions, RejectAck(v) \/ MarkTimeout(v) \/ MarkHalted(v)
       PROVE TypeOK'
  <2>1. history' \in Seq(Change) /\ Len(history') = Len(history)
    BY <1>10, SetStatusType DEF RejectAck, MarkTimeout, MarkHalted, Statuses
  <2>2. QED
    BY <1>10, <2>1 DEF RejectAck, MarkTimeout, MarkHalted, sockVars, enfVars, lifeVars,
                       ghostVars, PcLabels
<1>11. RuntimeStops => enf' = FreshEnforcer /\ toEnf' \in [Conns -> Seq(Versions)]
                       /\ link' \in [Conns -> BOOLEAN] /\ running' = FALSE
  BY EmptySeq DEF RuntimeStops
<1>12. ASSUME NEW v \in Versions, HaltAgent(v) PROVE TypeOK'
  <2>1. CASE RuntimeStops
    BY <1>11, <1>12, <2>1 DEF HaltAgent, RuntimeStops, FreshEnforcer, managerVars, sockVars,
                              PcLabels
  <2>2. CASE UNCHANGED <<enfVars, running>>
    BY <1>12, <2>2 DEF HaltAgent, managerVars, sockVars, enfVars, PcLabels
  <2>3. QED
    BY <1>12, <2>1, <2>2 DEF HaltAgent
<1>13. ASSUME NEW c \in Conns, Accept(c) PROVE TypeOK'
  BY <1>13 DEF Accept, managerVars, goVars, lifeVars, ghostVars
<1>14. ASSUME NEW c \in Conns, LinkDrops(c) PROVE TypeOK'
  BY <1>14 DEF LinkDrops, managerVars, goVars, sockVars, lifeVars, ghostVars
<1>15. ASSUME NEW c \in Conns, Register(c) PROVE TypeOK'
  BY <1>15 DEF Register, goVars, enfVars, lifeVars, ghostVars
<1>16. ASSUME NEW c \in Conns, CloseReplaced(c) PROVE TypeOK'
  BY <1>16 DEF CloseReplaced, managerVars, goVars, enfVars, lifeVars, ghostVars
<1>17. ASSUME NEW c \in Conns, ReadAck(c) PROVE TypeOK'
  <2>1. fromEnf' \in [Conns -> Seq(Ack)] /\ Head(fromEnf[c]) \in Ack
    BY <1>17, QueueTail DEF ReadAck
  <2>2. acks' \in [Conns -> Seq(Ack)]
    BY <1>17, <2>1, QueueAppend DEF ReadAck
  <2>3. QED
    BY <1>17, <2>1, <2>2 DEF ReadAck, managerVars, goVars, lifeVars, ghostVars
<1>18. ASSUME NEW c \in Conns, ReadFails(c) PROVE TypeOK'
  <2>1. fromEnf' \in [Conns -> Seq(Ack)]
    BY <1>18, QueueEmpty DEF ReadFails
  <2>2. acks' \in [Conns -> Seq(Ack)]
    <3>1. CASE Blocked(c)
      <4>1. AckCap \in Nat /\ AckCap <= Len(acks[c])
        BY <3>1, BoundsAssumption, LenProperties DEF Blocked
      <4>2. QED
        BY <1>18, <3>1, <4>1, QueueCut DEF ReadFails
    <3>2. CASE ~Blocked(c)
      BY <1>18, <3>2 DEF ReadFails
    <3>3. QED
      BY <3>1, <3>2
  <2>3. QED
    BY <1>18, <2>1, <2>2 DEF ReadFails, managerVars, goVars, lifeVars, ghostVars
<1>19. ASSUME NEW c \in Conns, OnDisconnect(c) PROVE TypeOK'
  BY <1>19 DEF OnDisconnect, goVars, enfVars, lifeVars, ghostVars
<1>20. ASSUME NEW c \in Conns, ApplyPush(c) \/ RefusePush(c)
       PROVE  /\ toEnf' \in [Conns -> Seq(Versions)]
              /\ fromEnf' \in [Conns -> Seq(Ack)]
              /\ Head(toEnf[c]) \in Versions /\ Head(toEnf[c]) \in 1..Latest
  <2> DEFINE v == Head(toEnf[c])
  <2>1. toEnf[c] # <<>> /\ toEnf' = [toEnf EXCEPT ![c] = Tail(@)]
    BY <1>20 DEF ApplyPush, RefusePush
  <2>2. /\ toEnf' \in [Conns -> Seq(Versions)]
        /\ v \in Versions /\ v = toEnf[c][1] /\ 1 \in 1..Len(toEnf[c])
    BY <2>1, QueueTail
  <2>3. v <= Latest
    BY <2>2 DEF OnlyPushedTravel
  <2>4. \A b \in BOOLEAN : [version |-> v, intact |-> b] \in Ack
    BY <2>2 DEF Ack
  <2>5. PICK b \in BOOLEAN : Reply(c, [version |-> v, intact |-> b])
    BY <1>20 DEF ApplyPush, RefusePush
  <2>6. [fromEnf EXCEPT ![c] = Append(@, [version |-> v, intact |-> b])] \in [Conns -> Seq(Ack)]
    BY <2>4, QueueAppend
  <2>7. fromEnf' \in [Conns -> Seq(Ack)]
    BY <2>5, <2>6 DEF Reply
  <2>8. QED
    BY <2>2, <2>3, <2>7, VersionsInNat, LenProperties DEF Versions
<1>21. ASSUME NEW c \in Conns, ApplyPush(c) PROVE TypeOK'
  <2> DEFINE v == Head(toEnf[c])
  <2>1. /\ v \in Versions /\ history[v].set \in ConstraintSets
        /\ toEnf' \in [Conns -> Seq(Versions)] /\ fromEnf' \in [Conns -> Seq(Ack)]
    BY <1>20, <1>21, ChangeAt
  <2>2. /\ enf' = [version |-> v, set |-> history[v].set]
        /\ applied' = applied \cup {v}
        /\ UNCHANGED <<managerVars, goVars, sockVars, link, lifeVars, confirmed, haltTried>>
    BY <1>21 DEF ApplyPush
  <2>3. enf' \in [version : Versions \cup {0}, set : ConstraintSets \cup {EmptySet}]
    BY <2>1, <2>2
  <2>4. applied' \in SUBSET Versions
    BY <2>1, <2>2
  <2> HIDE DEF v
  <2>5. QED
    BY <2>1, <2>2, <2>3, <2>4 DEF managerVars, goVars, sockVars, lifeVars
<1>22. ASSUME NEW c \in Conns, RefusePush(c) PROVE TypeOK'
  BY <1>20, <1>22 DEF RefusePush, managerVars, goVars, sockVars, lifeVars, ghostVars
<1>23. ASSUME NEW c \in Conns, ServeEnds(c) PROVE TypeOK'
  <2>1. toEnf' \in [Conns -> Seq(Versions)]
    BY <1>23, QueueEmpty DEF ServeEnds
  <2>2. QED
    BY <1>23, <2>1 DEF ServeEnds, managerVars, goVars, sockVars, lifeVars, ghostVars
<1>24. ASSUME Unregister PROVE TypeOK'
  BY <1>24, BoundsAssumption DEF Unregister, goVars, enfVars, ghostVars
<1>25. ASSUME StopRuntime PROVE TypeOK'
  <2>1. CASE RuntimeStops
    BY <1>11, <1>25, <2>1 DEF StopRuntime, RuntimeStops, FreshEnforcer, managerVars, goVars,
                              sockVars, ghostVars
  <2>2. CASE UNCHANGED <<enfVars, running>>
    BY <1>25, <2>2 DEF StopRuntime, managerVars, goVars, sockVars, enfVars, ghostVars
  <2>3. QED
    BY <1>25, <2>1, <2>2 DEF StopRuntime
<1>26. ASSUME StartRuntime PROVE TypeOK'
  BY <1>26, BoundsAssumption DEF StartRuntime, managerVars, goVars, sockVars, enfVars, ghostVars
<1>27. ASSUME UNCHANGED vars PROVE TypeOK'
  BY <1>27 DEF vars, managerVars, goVars, sockVars, enfVars, lifeVars, ghostVars
<1>28. QED
  BY <1>1, <1>2, <1>3, <1>4, <1>6, <1>7, <1>8, <1>9, <1>10, <1>12, <1>13, <1>14, <1>15,
     <1>16, <1>17, <1>18, <1>19, <1>21, <1>22, <1>23, <1>24, <1>25, <1>26, <1>27
     DEF Next, Operator, Deliver, Socket, Enforcer

\* A step of the delivery of v moves no other goroutine and pushes nothing.
LEMMA DeliverStep ==
    ASSUME TypeOK, NEW v \in Versions, Deliver(v)
    PROVE  /\ pc[v] # "unpushed" /\ pc'[v] # "unpushed"
           /\ \A u \in Versions : u # v => pc'[u] = pc[u] /\ via'[u] = via[u]
           /\ Len(history') = Len(history)
<1> USE DEF TypeOK
<1>1. CASE Resolve(v)
  BY <1>1 DEF Resolve, managerVars
<1>2. CASE SendPush(v)
  BY <1>2 DEF SendPush, managerVars
<1>3. CASE PushRefused(v)
  BY <1>3 DEF PushRefused, StageFails, managerVars
<1>4. CASE TakeAck(v)
  BY <1>4 DEF TakeAck, managerVars
<1>5. CASE DropAck(v)
  BY <1>5 DEF DropAck, managerVars, goVars
<1>6. CASE PushFails(v)
  BY <1>6 DEF PushFails, StageFails, managerVars
<1>7. CASE AckChange(v)
  <2>1. "acked" \in Statuses /\ SetStatus(v, "acked")
    BY <1>7 DEF AckChange, SetStatus, Statuses, Latest
  <2>2. Len(history') = Len(history)
    BY <2>1, SetStatusType
  <2>3. QED
    BY <1>7, <2>2 DEF AckChange
<1>8. CASE RejectAck(v) \/ MarkTimeout(v) \/ MarkHalted(v)
  <2>1. Len(history') = Len(history)
    BY <1>8, SetStatusType DEF RejectAck, MarkTimeout, MarkHalted, Statuses
  <2>2. QED
    BY <1>8, <2>1 DEF RejectAck, MarkTimeout, MarkHalted
<1>9. CASE HaltAgent(v)
  BY <1>9 DEF HaltAgent, managerVars
<1>10. QED
  BY <1>1, <1>2, <1>3, <1>4, <1>5, <1>6, <1>7, <1>8, <1>9 DEF Deliver

\* Every other step but a push leaves the history, the baseline and the
\* goroutines alone, and what happened to a delivery stays on record.
LEMMA OtherSteps ==
    ASSUME [Next]_vars
    PROVE  \/ \E s \in ConstraintSets, o \in Overrides : Push(s, o)
           \/ \E v \in Versions : Deliver(v)
           \/ /\ UNCHANGED <<history, baseline, goVars, pushMu, confirmed, haltTried>>
              /\ applied \subseteq applied'
<1>1. CASE \E c \in Conns : Accept(c) \/ LinkDrops(c) \/ Socket(c) \/ Enforcer(c)
  BY <1>1 DEF Accept, LinkDrops, Socket, Enforcer, Register, CloseReplaced, ReadAck,
              ReadFails, OnDisconnect, ApplyPush, RefusePush, ServeEnds, managerVars,
              sockVars, ghostVars
<1>2. CASE Unregister \/ StopRuntime \/ StartRuntime
  BY <1>2 DEF Unregister, StopRuntime, StartRuntime, managerVars, sockVars, ghostVars
<1>3. CASE UNCHANGED vars
  BY <1>3 DEF vars, managerVars, sockVars, ghostVars
<1>4. QED
  BY <1>1, <1>2, <1>3 DEF Next, Operator

\* Pushes on their way: a step adds at most the change of a goroutine that
\* sends it, at the end of its socket's queue.
LEMMA TravelStep ==
    ASSUME TypeOK, [Next]_vars
    PROVE  \A c \in Conns : \A i \in 1..Len(toEnf'[c]) :
              \/ \E j \in 1..Len(toEnf[c]) : toEnf'[c][i] = toEnf[c][j]
              \/ \E v \in Versions : toEnf'[c][i] = v /\ pc[v] = "lock"
<1> SUFFICES ASSUME NEW c \in Conns, NEW i \in 1..Len(toEnf'[c])
             PROVE  \/ \E j \in 1..Len(toEnf[c]) : toEnf'[c][i] = toEnf[c][j]
                    \/ \E v \in Versions : toEnf'[c][i] = v /\ pc[v] = "lock"
  OBVIOUS
<1> toEnf \in [Conns -> Seq(Versions)]
  BY DEF TypeOK
<1>1. CASE toEnf'[c] = toEnf[c]
  BY <1>1
<1>2. CASE toEnf'[c] = <<>>
  BY <1>2, EmptySeq
<1>3. CASE toEnf[c] # <<>> /\ toEnf' = [toEnf EXCEPT ![c] = Tail(@)]
  BY <1>3, QueueTail
<1>4. ASSUME NEW v \in Versions, SendPush(v), toEnf'[c] # toEnf[c]
      PROVE  \/ \E j \in 1..Len(toEnf[c]) : toEnf'[c][i] = toEnf[c][j]
             \/ \E u \in Versions : toEnf'[c][i] = u /\ pc[u] = "lock"
  <2>1. c = via[v] /\ toEnf' = [toEnf EXCEPT ![c] = Append(@, v)] /\ pc[v] = "lock"
    BY <1>4 DEF SendPush
  <2>2. /\ Len(toEnf'[c]) = Len(toEnf[c]) + 1
        /\ \A k \in 1..Len(toEnf[c]) : toEnf'[c][k] = toEnf[c][k]
        /\ toEnf'[c][Len(toEnf[c]) + 1] = v
        /\ Len(toEnf[c]) \in Nat
    BY <2>1, QueueAppend, LenProperties
  <2>3. QED
    BY <2>1, <2>2
<1>5. ASSUME NEW v \in Versions, Deliver(v), ~SendPush(v)
      PROVE  toEnf'[c] \in {toEnf[c], <<>>}
  BY <1>5 DEF Deliver, Resolve, PushRefused, TakeAck, DropAck, PushFails, AckChange,
              RejectAck, MarkTimeout, HaltAgent, RuntimeStops, MarkHalted, enfVars
<1>6. ASSUME NEW d \in Conns, Accept(d) \/ LinkDrops(d) \/ Socket(d)
      PROVE  toEnf' = toEnf
  BY <1>6 DEF Accept, LinkDrops, Socket, Register, CloseReplaced, ReadAck, ReadFails,
              OnDisconnect, enfVars
<1>7. ASSUME NEW d \in Conns, Enforcer(d)
      PROVE  \/ toEnf'[c] \in {toEnf[c], <<>>}
             \/ toEnf[c] # <<>> /\ toEnf' = [toEnf EXCEPT ![c] = Tail(@)]
  <2>1. CASE d = c
    BY <1>7, <2>1 DEF Enforcer, ApplyPush, RefusePush, ServeEnds
  <2>2. CASE d # c
    BY <1>7, <2>2 DEF Enforcer, ApplyPush, RefusePush, ServeEnds
  <2>3. QED
    BY <2>1, <2>2
<1>8. ASSUME NEW s \in ConstraintSets, NEW o \in Overrides, Push(s, o)
      PROVE  toEnf' = toEnf
  BY <1>8 DEF Push, enfVars
<1>9. ASSUME Unregister \/ StopRuntime \/ StartRuntime
      PROVE  toEnf'[c] \in {toEnf[c], <<>>}
  BY <1>9 DEF Unregister, StopRuntime, StartRuntime, RuntimeStops, enfVars
<1>10. ASSUME UNCHANGED vars PROVE toEnf' = toEnf
  BY <1>10 DEF vars, enfVars
<1>11. QED
  BY <1>1, <1>2, <1>3, <1>4, <1>5, <1>6, <1>7, <1>8, <1>9, <1>10 DEF Next, Operator

\* A push adds a change and starts its goroutine in one step; what travels was
\* sent by a goroutine that exists.
LEMMA PushedStep ==
    ASSUME TypeOK, OnlyPushedTravel, [Next]_vars
    PROVE  OnlyPushedTravel'
<1> USE DEF Latest
<1>1. /\ Len(history) \in Nat /\ Len(history) <= MaxPushes
      /\ pc \in [Versions -> PcLabels]
      /\ \A v \in Versions : pc[v] # "unpushed" <=> v <= Len(history)
      /\ \A c \in Conns : \A i \in 1..Len(toEnf[c]) : toEnf[c][i] <= Len(history)
  BY LenProperties DEF TypeOK, OnlyPushedTravel
<1>2. ASSUME NEW s \in ConstraintSets, NEW o \in Overrides, Push(s, o)
      PROVE  Len(history') = Len(history) + 1 /\ pc' = [pc EXCEPT ![Len(history) + 1] = "resolve"]
  BY <1>2, PushedChange, AppendProperties DEF Push, TypeOK
<1>3. Len(history) <= Len(history')
  BY <1>1, <1>2, OtherSteps, DeliverStep
<1>4. ASSUME NEW u \in Versions PROVE pc'[u] # "unpushed" <=> u <= Len(history')
  <2>1. ASSUME NEW s \in ConstraintSets, NEW o \in Overrides, Push(s, o)
        PROVE  pc'[u] # "unpushed" <=> u <= Len(history')
    BY <1>1, <1>2, <2>1, VersionsInNat
  <2>2. ASSUME NEW v \in Versions, Deliver(v)
        PROVE  pc'[u] # "unpushed" <=> u <= Len(history')
    BY <1>1, <2>2, DeliverStep
  <2>3. CASE UNCHANGED <<history, goVars>>
    BY <1>1, <2>3 DEF goVars
  <2>4. QED
    BY <2>1, <2>2, <2>3, OtherSteps
<1>5. ASSUME NEW c \in Conns, NEW i \in 1..Len(toEnf'[c])
      PROVE  toEnf'[c][i] <= Len(history')
  <2>1. CASE \E j \in 1..Len(toEnf[c]) : toEnf'[c][i] = toEnf[c][j]
    <3>1. PICK j \in 1..Len(toEnf[c]) : toEnf'[c][i] = toEnf[c][j]
      BY <2>1
    <3>2. toEnf[c] \in Seq(Versions)
      BY DEF TypeOK
    <3>3. toEnf[c][j] \in Nat /\ toEnf[c][j] <= Len(history)
      BY <1>1, <3>2, ElementOfSeq, VersionsInNat
    <3>4. Len(history') \in Nat
      BY TypeStep, LenProperties DEF TypeOK
    <3>5. QED
      BY <1>1, <1>3, <3>1, <3>3, <3>4
  <2>2. CASE \E v \in Versions : toEnf'[c][i] = v /\ pc[v] = "lock"
    <3>1. PICK v \in Versions : toEnf'[c][i] = v /\ pc[v] = "lock"
      BY <2>2
    <3>2. v <= Len(history) /\ v \in Nat
      BY <1>1, <3>1, VersionsInNat
    <3>3. Len(history') \in Nat
      BY TypeStep, LenProperties DEF TypeOK
    <3>4. QED
      BY <1>1, <1>3, <3>1, <3>2, <3>3
  <2>3. QED
    BY <2>1, <2>2, TravelStep
<1>6. QED
  BY <1>4, <1>5 DEF OnlyPushedTravel

\* Nothing exists and nothing travels at first.
LEMMA PushedInit == Init => OnlyPushedTravel
BY VersionsInNat, EmptySeq DEF Init, OnlyPushedTravel, Latest, Versions

\* Every reachable state of the delivery protocol is well-typed.
THEOREM TypeCorrect == Spec => []TypeOK
<1>1. Init => TypeOK /\ OnlyPushedTravel
  BY TypeInit, PushedInit
<1>2. TypeOK /\ OnlyPushedTravel /\ [Next]_vars => TypeOK' /\ OnlyPushedTravel'
  BY TypeStep, PushedStep
<1>3. QED
  BY <1>1, <1>2, PTL DEF Spec

-----------------------------------------------------------------------------
(* Steps seen from the history *)

\* ApplyEscalation never goes below the automatic classification.
LEMMA EscalationNeverDowngrades ==
    ASSUME NEW old, NEW set, NEW override \in Overrides,
           MayEscalate(ClassifySeverity(old, set), override)
    PROVE  LET auto == ClassifySeverity(old, set) IN
           ApplyEscalation(auto, override) >= auto
BY InputsAssumption
   DEF MayEscalate, ApplyEscalation, ClassifySeverity, Low, Medium, High, NoOverride

\* A push appends a pending change, no milder than its classification, and
\* changes nothing the history says of the others.
LEMMA PushStep ==
    ASSUME TypeOK, NEW s \in ConstraintSets, NEW o \in Overrides, Push(s, o)
    PROVE  LET n == Len(history) + 1 IN
           /\ n \in Versions /\ Len(history') = n
           /\ \A u \in 1..Len(history) : history'[u] = history[u]
           /\ history'[n].set = s /\ history'[n].status = "pending"
           /\ history'[n].severity >= ClassifySeverity(baseline, s)
           /\ pc' = [pc EXCEPT ![n] = "resolve"]
           /\ UNCHANGED <<baseline, stage, via, sockVars, enfVars, ghostVars>>
<1> DEFINE sev == ApplyEscalation(ClassifySeverity(baseline, s), o)
           new == [set |-> s, severity |-> sev, status |-> "pending"]
<1>1. new \in Change
  BY PushedChange
<1>2. history' = Append(history, new)
  BY DEF Push
<1>3. history \in Seq(Change) /\ Len(history) \in Nat
  BY LenProperties DEF TypeOK
<1>4. /\ Len(history') = Len(history) + 1
      /\ \A u \in 1..Len(history) : history'[u] = history[u]
      /\ history'[Len(history) + 1] = new
  <2> HIDE DEF new
  <2> QED
    BY <1>1, <1>2, <1>3, AppendProperties
<1>5. sev >= ClassifySeverity(baseline, s)
  BY EscalationNeverDowngrades DEF Push
<1>6. Len(history) + 1 \in Versions
  BY <1>3, BoundsAssumption DEF Push, Latest, Versions
<1>7. QED
  BY <1>3, <1>4, <1>5, <1>6 DEF Push, Latest

\* A delivery changes the status of its own change only, and only while that
\* change is the latest; the baseline moves when an ack is recorded.
LEMMA VerdictStep ==
    ASSUME TypeOK, OnlyPushedTravel, NEW v \in Versions, Deliver(v)
    PROVE  \/ /\ UNCHANGED <<history, baseline>>
              /\ v # Len(history) \/ pc[v] \in {"resolve", "lock", "await", "halting"}
           \/ /\ v = Len(history) /\ v \in 1..Len(history)
              /\ \A u \in 1..Len(history) : u # v => history'[u] = history[u]
              /\ history'[v] = [history[v] EXCEPT !.status = history'[v].status]
              /\ history'[v].set = history[v].set
              /\ history'[v].severity = history[v].severity
              /\ \/ /\ pc[v] = "ack" /\ pc'[v] = "done" /\ history'[v].status = "acked"
                    /\ baseline' = history[v].set
                 \/ /\ baseline' = baseline
                    /\ \/ /\ pc[v] = "mismatch" /\ pc'[v] = "done"
                          /\ history'[v].status = "hash_mismatch"
                       \/ /\ pc[v] = "expired" /\ pc'[v] = "halting"
                          /\ history'[v].status = "timeout"
                       \/ /\ pc[v] = "halted" /\ pc'[v] = "done"
                          /\ history'[v].status = "halted"
<1> USE DEF Latest
<1>1. /\ history \in Seq(Change) /\ pc \in [Versions -> PcLabels]
      /\ (pc[v] # "unpushed" => v <= Len(history))
      /\ v \in Nat /\ v >= 1
  BY VersionsInNat DEF TypeOK, OnlyPushedTravel, Versions
<1>2. ASSUME NEW s \in Statuses, v = Len(history),
             history' = [history EXCEPT ![v].status = s]
      PROVE  /\ v \in 1..Len(history)
             /\ \A u \in 1..Len(history) : u # v => history'[u] = history[u]
             /\ history'[v] = [history[v] EXCEPT !.status = history'[v].status]
             /\ history'[v].set = history[v].set
             /\ history'[v].severity = history[v].severity
             /\ history'[v].status = s
  <2>1. v \in 1..Len(history)
    BY <1>1, <1>2
  <2>2. LET g == [history EXCEPT ![v].status = s] IN
          /\ \A u \in 1..Len(history) : u # v => g[u] = history[u]
          /\ g[v] = [history[v] EXCEPT !.status = s]
          /\ g[v].set = history[v].set /\ g[v].severity = history[v].severity
          /\ g[v].status = s
    BY <1>1, <2>1, StatusUpdate
  <2>3. QED
    BY <1>2, <2>1, <2>2
<1>3. CASE AckChange(v) /\ v = Len(history)
  <2>1. /\ "acked" \in Statuses /\ history' = [history EXCEPT ![v].status = "acked"]
        /\ baseline' = history[v].set /\ pc[v] = "ack" /\ pc'[v] = "done"
    BY <1>1, <1>3 DEF AckChange, Statuses
  <2>2. QED
    BY <1>2, <1>3, <2>1
<1>4. CASE RejectAck(v) /\ v = Len(history)
  <2>1. /\ "hash_mismatch" \in Statuses
        /\ history' = [history EXCEPT ![v].status = "hash_mismatch"]
        /\ baseline' = baseline /\ pc[v] = "mismatch" /\ pc'[v] = "done"
    BY <1>1, <1>4 DEF RejectAck, SetStatus, Statuses
  <2>2. QED
    BY <1>2, <1>4, <2>1
<1>5. CASE MarkTimeout(v) /\ v = Len(history)
  <2>1. /\ "timeout" \in Statuses
        /\ history' = [history EXCEPT ![v].status = "timeout"]
        /\ baseline' = baseline /\ pc[v] = "expired" /\ pc'[v] = "halting"
    BY <1>1, <1>5 DEF MarkTimeout, SetStatus, Statuses
  <2>2. QED
    BY <1>2, <1>5, <2>1
<1>6. CASE MarkHalted(v) /\ v = Len(history)
  <2>1. /\ "halted" \in Statuses
        /\ history' = [history EXCEPT ![v].status = "halted"]
        /\ baseline' = baseline /\ pc[v] = "halted" /\ pc'[v] = "done"
    BY <1>1, <1>6 DEF MarkHalted, SetStatus, Statuses
  <2>2. QED
    BY <1>2, <1>6, <2>1
<1>7. CASE v # Len(history)
  BY <1>7 DEF Deliver, Resolve, SendPush, PushRefused, TakeAck, DropAck, PushFails, AckChange,
              RejectAck, MarkTimeout, HaltAgent, MarkHalted, SetStatus, managerVars
<1>8. QED
  BY <1>3, <1>4, <1>5, <1>6, <1>7
     DEF Deliver, Resolve, SendPush, PushRefused, TakeAck, DropAck, PushFails, HaltAgent,
         managerVars

\* The path of one delivery, and what it leaves on record.
LEMMA PathStep ==
    ASSUME TypeOK, NEW v \in Versions, Deliver(v)
    PROVE  /\ pc[v] # "resolve" => via'[v] = via[v]
           /\ confirmed \subseteq confirmed' /\ haltTried \subseteq haltTried'
           /\ applied' = applied
           /\ \/ pc[v] = "resolve" /\ via'[v] = client
                 /\ pc'[v] = IF client = NoConn THEN "done" ELSE "lock"
              \/ pc[v] = "lock" /\ pc'[v] = "await"
              \/ pc[v] \in {"lock", "await"} /\ pc'[v] \in {"lock", "expired"}
              \/ pc[v] = "await" /\ pc'[v] = "await"
              \/ pc[v] = "await" /\ pc'[v] \in {"ack", "mismatch"} /\ v \in confirmed'
              \/ pc[v] \in {"ack", "mismatch", "halted"} /\ pc'[v] = "done"
              \/ pc[v] = "expired" /\ pc'[v] = "halting"
              \/ pc[v] = "halting" /\ pc'[v] \in {"halted", "done"} /\ v \in haltTried'
                 /\ UNCHANGED history
<1> USE DEF TypeOK
<1>1. CASE Resolve(v)
  BY <1>1 DEF Resolve, ghostVars
<1>2. CASE SendPush(v)
  BY <1>2 DEF SendPush, ghostVars
<1>3. CASE PushRefused(v) \/ PushFails(v)
  BY <1>3 DEF PushRefused, PushFails, StageFails, ghostVars
<1>4. CASE TakeAck(v)
  BY <1>4 DEF TakeAck
<1>5. CASE DropAck(v)
  BY <1>5 DEF DropAck, goVars, ghostVars
<1>6. CASE AckChange(v) \/ RejectAck(v) \/ MarkTimeout(v) \/ MarkHalted(v)
  BY <1>6 DEF AckChange, RejectAck, MarkTimeout, MarkHalted, ghostVars
<1>7. CASE HaltAgent(v)
  BY <1>7 DEF HaltAgent, managerVars
<1>8. QED
  BY <1>1, <1>2, <1>3, <1>4, <1>5, <1>6, <1>7 DEF Deliver

-----------------------------------------------------------------------------
(* The inductive invariant, conjunct by conjunct *)

\* The status of a change keeps following its goroutine.
LEMMA StatusStep ==
    ASSUME TypeOK, OnlyPushedTravel, StatusFollowsDelivery, [Next]_vars
    PROVE  StatusFollowsDelivery'
<1> USE DEF Latest
<1>1. Len(history) \in Nat /\ pc \in [Versions -> PcLabels] /\ Len(history) <= MaxPushes
  BY LenProperties DEF TypeOK
<1>2. ASSUME NEW v \in 1..Len(history)
      PROVE  /\ v \in Versions /\ v \in Nat
             /\ pc[v] \in {"resolve", "lock", "await", "ack", "mismatch", "expired"}
                   => history[v].status = "pending"
             /\ v = Len(history) /\ pc[v] \in {"halting", "halted"}
                   => history[v].status = "timeout"
  BY <1>1, BoundsAssumption DEF StatusFollowsDelivery, Versions
<1>3. ASSUME NEW s \in ConstraintSets, NEW o \in Overrides, Push(s, o)
      PROVE  StatusFollowsDelivery'
  <2>1. ASSUME NEW v \in 1..Len(history')
        PROVE  /\ pc'[v] \in {"resolve", "lock", "await", "ack", "mismatch", "expired"}
                     => history'[v].status = "pending"
               /\ v = Len(history') /\ pc'[v] \in {"halting", "halted"}
                     => history'[v].status = "timeout"
    <3>1. CASE v = Len(history) + 1
      BY <1>1, <1>3, <3>1, PushStep
    <3>2. CASE v \in 1..Len(history)
      BY <1>1, <1>2, <1>3, <3>2, PushStep
    <3>3. QED
      BY <1>1, <1>3, <2>1, <3>1, <3>2, PushStep
  <2>2. QED
    BY <2>1 DEF StatusFollowsDelivery
<1>4. ASSUME NEW u \in Versions, Deliver(u)
      PROVE  StatusFollowsDelivery'
  <2>1. ASSUME NEW v \in 1..Len(history)
        PROVE  /\ pc'[v] \in {"resolve", "lock", "await", "ack", "mismatch", "expired"}
                     => history'[v].status = "pending"
               /\ v = Len(history) /\ pc'[v] \in {"halting", "halted"}
                     => history'[v].status = "timeout"
    <3>1. CASE v # u
      BY <1>2, <1>4, <3>1, DeliverStep, VerdictStep
    <3>2. CASE v = u /\ UNCHANGED <<history, baseline>>
      BY <1>2, <1>4, <3>2, PathStep, VerdictStep
    <3>3. CASE v = u /\ ~UNCHANGED <<history, baseline>>
      BY <1>2, <1>4, <3>3, VerdictStep
    <3>4. QED
      BY <3>1, <3>2, <3>3
  <2>2. QED
    BY <1>4, <2>1, DeliverStep DEF StatusFollowsDelivery
<1>5. CASE UNCHANGED <<history, goVars>>
  BY <1>5 DEF StatusFollowsDelivery, goVars
<1>6. QED
  BY <1>3, <1>4, <1>5, OtherSteps

\* pushMu keeps excluding the pushes on one socket.
LEMMA TurnsStep ==
    ASSUME TypeOK, PushesTakeTurns, [Next]_vars
    PROVE  PushesTakeTurns'
<1>1. ASSUME NEW s \in ConstraintSets, NEW o \in Overrides, Push(s, o)
      PROVE  PushesTakeTurns'
  <2>1. /\ UNCHANGED <<via, pushMu>>
        /\ \A v \in Versions : pc'[v] \in {pc[v], "resolve"}
    BY <1>1, PushStep DEF TypeOK, sockVars
  <2>2. QED
    BY <2>1 DEF PushesTakeTurns
<1>2. ASSUME NEW u \in Versions, Deliver(u)
      PROVE  PushesTakeTurns'
  <2> USE DEF TypeOK, PushesTakeTurns
  <2>1. CASE SendPush(u)
    BY <2>1, VersionsInNat DEF SendPush
  <2>2. CASE TakeAck(u)
    BY <2>2 DEF TakeAck
  <2>3. CASE PushFails(u)
    BY <2>3 DEF PushFails, StageFails
  <2>4. CASE Resolve(u)
    BY <2>4 DEF Resolve, sockVars
  <2>5. CASE PushRefused(u)
    BY <2>5 DEF PushRefused, StageFails, sockVars
  <2>6. CASE DropAck(u)
    BY <2>6 DEF DropAck, goVars
  <2>7. CASE AckChange(u) \/ RejectAck(u) \/ MarkTimeout(u) \/ HaltAgent(u) \/ MarkHalted(u)
    BY <2>7 DEF AckChange, RejectAck, MarkTimeout, HaltAgent, MarkHalted, sockVars
  <2>8. QED
    BY <1>2, <2>1, <2>2, <2>3, <2>4, <2>5, <2>6, <2>7 DEF Deliver
<1>3. CASE UNCHANGED <<goVars, pushMu>>
  BY <1>3 DEF PushesTakeTurns, goVars
<1>4. QED
  BY <1>1, <1>2, <1>3, OtherSteps

\* Acks on their way: a step moves them along, or adds the enforcer's reply.
LEMMA AckTravelStep ==
    ASSUME TypeOK, [Next]_vars
    PROVE  \A c \in Conns :
              /\ \A i \in 1..Len(acks'[c]) :
                    \/ \E j \in 1..Len(acks[c]) : acks'[c][i] = acks[c][j]
                    \/ \E j \in 1..Len(fromEnf[c]) : acks'[c][i] = fromEnf[c][j]
              /\ \A i \in 1..Len(fromEnf'[c]) :
                    \/ \E j \in 1..Len(fromEnf[c]) : fromEnf'[c][i] = fromEnf[c][j]
                    \/ fromEnf'[c][i].intact => fromEnf'[c][i].version \in applied'
<1> SUFFICES ASSUME NEW c \in Conns
             PROVE  /\ \A i \in 1..Len(acks'[c]) :
                          \/ \E j \in 1..Len(acks[c]) : acks'[c][i] = acks[c][j]
                          \/ \E j \in 1..Len(fromEnf[c]) : acks'[c][i] = fromEnf[c][j]
                    /\ \A i \in 1..Len(fromEnf'[c]) :
                          \/ \E j \in 1..Len(fromEnf[c]) : fromEnf'[c][i] = fromEnf[c][j]
                          \/ fromEnf'[c][i].intact => fromEnf'[c][i].version \in applied'
  OBVIOUS
<1>1. /\ acks \in [Conns -> Seq(Ack)] /\ fromEnf \in [Conns -> Seq(Ack)]
      /\ toEnf \in [Conns -> Seq(Versions)]
      /\ Len(acks[c]) \in Nat /\ Len(fromEnf[c]) \in Nat
  BY LenProperties DEF TypeOK
<1>2. CASE acks'[c] = acks[c] /\ fromEnf'[c] = fromEnf[c]
  BY <1>2
<1>3. ASSUME NEW v \in Versions, TakeAck(v) \/ DropAck(v), via[v] = c
      PROVE  /\ fromEnf'[c] = fromEnf[c]
             /\ \A i \in 1..Len(acks'[c]) : \E j \in 1..Len(acks[c]) : acks'[c][i] = acks[c][j]
  <2>1. acks[c] # <<>> /\ acks' = [acks EXCEPT ![c] = Tail(@)] /\ fromEnf' = fromEnf
    BY <1>3 DEF TakeAck, DropAck, enfVars
  <2>2. QED
    BY <1>1, <2>1, QueueTail
<1>4. CASE ReadAck(c)
  <2>1. /\ fromEnf[c] # <<>>
        /\ acks' = [acks EXCEPT ![c] = Append(@, Head(fromEnf[c]))]
        /\ fromEnf' = [fromEnf EXCEPT ![c] = Tail(@)]
    BY <1>4 DEF ReadAck
  <2>2. /\ Head(fromEnf[c]) \in Ack
        /\ 1 \in 1..Len(fromEnf[c]) /\ Head(fromEnf[c]) = fromEnf[c][1]
        /\ \A i \in 1..Len(fromEnf'[c]) :
              \E j \in 1..Len(fromEnf[c]) : fromEnf'[c][i] = fromEnf[c][j]
    BY <1>1, <2>1, QueueTail
  <2>3. /\ Len(acks'[c]) = Len(acks[c]) + 1
        /\ \A i \in 1..Len(acks[c]) : acks'[c][i] = acks[c][i]
        /\ acks'[c][Len(acks[c]) + 1] = Head(fromEnf[c])
    BY <1>1, <2>1, <2>2, QueueAppend
  <2>4. ASSUME NEW i \in 1..Len(acks'[c])
        PROVE  \/ \E j \in 1..Len(acks[c]) : acks'[c][i] = acks[c][j]
               \/ \E j \in 1..Len(fromEnf[c]) : acks'[c][i] = fromEnf[c][j]
    <3>1. i \in 1..Len(acks[c]) \/ i = Len(acks[c]) + 1
      BY <1>1, <2>3
    <3>2. QED
      BY <2>2, <2>3, <3>1
  <2>5. QED
    BY <2>2, <2>4
<1>5. CASE ReadFails(c)
  <2>1. \A i \in 1..Len(fromEnf'[c]) : FALSE
    BY <1>1, <1>5, EmptySeq DEF ReadFails
  <2>2. CASE Blocked(c)
    <3>1. /\ AckCap \in Nat /\ AckCap <= Len(acks[c])
          /\ acks' = [acks EXCEPT ![c] = SubSeq(@, 1, AckCap)]
      BY <1>1, <1>5, <2>2, BoundsAssumption DEF ReadFails, Blocked
    <3>2. Len(acks'[c]) = AckCap /\ \A i \in 1..AckCap : acks'[c][i] = acks[c][i]
      BY <1>1, <3>1, QueueCut
    <3>3. QED
      BY <1>1, <2>1, <3>1, <3>2
  <2>3. CASE ~Blocked(c)
    BY <1>5, <2>1, <2>3, <1>1 DEF ReadFails
  <2>4. QED
    BY <2>2, <2>3
<1>6. CASE ApplyPush(c) \/ RefusePush(c)
  <2> DEFINE v == Head(toEnf[c])
  <2>1. v \in Versions /\ acks' = acks
    BY <1>1, <1>6, QueueTail DEF ApplyPush, RefusePush, sockVars
  <2>2. PICK b \in BOOLEAN : /\ Reply(c, [version |-> v, intact |-> b])
                             /\ b => v \in applied'
    BY <1>6 DEF ApplyPush, RefusePush
  <2> DEFINE reply == [version |-> v, intact |-> b]
  <2>3. reply \in Ack /\ (reply.intact => reply.version \in applied')
    BY <2>1, <2>2 DEF Ack
  <2>4. CASE fromEnf'[c] = fromEnf[c]
    BY <2>1, <2>4
  <2>5. CASE fromEnf' = [fromEnf EXCEPT ![c] = Append(@, reply)]
    <3> HIDE DEF reply
    <3>1. /\ Len(fromEnf'[c]) = Len(fromEnf[c]) + 1
          /\ \A i \in 1..Len(fromEnf[c]) : fromEnf'[c][i] = fromEnf[c][i]
          /\ fromEnf'[c][Len(fromEnf[c]) + 1] = reply
      BY <1>1, <2>3, <2>5, QueueAppend
    <3>2. ASSUME NEW i \in 1..Len(fromEnf'[c])
          PROVE  \/ \E j \in 1..Len(fromEnf[c]) : fromEnf'[c][i] = fromEnf[c][j]
                 \/ fromEnf'[c][i].intact => fromEnf'[c][i].version \in applied'
      <4>1. i \in 1..Len(fromEnf[c]) \/ i = Len(fromEnf[c]) + 1
        BY <1>1, <3>1
      <4>2. QED
        BY <2>3, <3>1, <4>1
    <3>3. QED
      BY <2>1, <3>2
  <2>6. QED
    BY <1>1, <2>2, <2>4, <2>5 DEF Reply
<1>7. ASSUME NEW v \in Versions, Deliver(v), ~((TakeAck(v) \/ DropAck(v)) /\ via[v] = c)
      PROVE  acks'[c] = acks[c] /\ fromEnf'[c] = fromEnf[c]
  BY <1>1, <1>7 DEF Deliver, Resolve, SendPush, PushRefused, TakeAck, DropAck, PushFails, AckChange,
     RejectAck, MarkTimeout, HaltAgent, RuntimeStops, MarkHalted, sockVars, enfVars
<1>8. ASSUME NEW d \in Conns, Accept(d) \/ LinkDrops(d) \/ Socket(d) \/ Enforcer(d),
             ~(d = c /\ (ReadAck(d) \/ ReadFails(d) \/ ApplyPush(d) \/ RefusePush(d)))
      PROVE  acks'[c] = acks[c] /\ fromEnf'[c] = fromEnf[c]
  BY <1>1, <1>8 DEF Accept, LinkDrops, Socket, Enforcer, Register, CloseReplaced, ReadAck,
     ReadFails, OnDisconnect, ApplyPush, RefusePush, ServeEnds, Reply, sockVars, enfVars
<1>9. ASSUME Operator \/ UNCHANGED vars
      PROVE  acks'[c] = acks[c] /\ fromEnf'[c] = fromEnf[c]
  BY <1>9 DEF Operator, Push, Unregister, StopRuntime, StartRuntime, RuntimeStops, vars,
     sockVars, enfVars
<1>10. QED
  BY <1>2, <1>3, <1>4, <1>5, <1>6, <1>7, <1>8, <1>9 DEF Next

\* Acks stay sound, in the queues and in the goroutine that took one.
LEMMA AcksStep ==
    ASSUME TypeOK, PushesTakeTurns, AcksAreSound, [Next]_vars
    PROVE  AcksAreSound'
<1>1. applied \subseteq applied'
  BY OtherSteps, PathStep, PushStep DEF ghostVars
<1>2. ASSUME NEW c \in Conns
      PROVE  /\ \A i \in 1..Len(acks'[c]) :
                   acks'[c][i].intact => acks'[c][i].version \in applied'
             /\ \A i \in 1..Len(fromEnf'[c]) :
                   fromEnf'[c][i].intact => fromEnf'[c][i].version \in applied'
  BY <1>1, AckTravelStep DEF AcksAreSound
<1>3. ASSUME NEW u \in Versions, pc'[u] = "ack"
      PROVE  u \in applied'
  <2>1. CASE pc[u] = "ack"
    BY <1>1, <2>1 DEF AcksAreSound
  <2>2. CASE TakeAck(u)
    <3>1. via[u] \in Conns
      BY <2>2 DEF TakeAck, PushesTakeTurns
    <3>2. acks[via[u]] # <<>> /\ Head(acks[via[u]]).version = u /\ Head(acks[via[u]]).intact
      BY <1>3, <2>2 DEF TakeAck, Matches, TypeOK
    <3>3. Head(acks[via[u]]) = acks[via[u]][1] /\ 1 \in 1..Len(acks[via[u]])
      BY <3>1, <3>2, QueueTail DEF TypeOK
    <3>4. u \in applied
      BY <3>1, <3>2, <3>3 DEF AcksAreSound
    <3>5. QED
      BY <1>1, <3>4
  <2>3. CASE pc[u] # "ack" /\ ~TakeAck(u)
    <3>1. ASSUME NEW v \in Versions, Deliver(v) PROVE v # u
      BY <1>3, <2>3, <3>1 DEF Deliver, Resolve, SendPush, PushRefused, DropAck, PushFails, StageFails,
         AckChange, RejectAck, MarkTimeout, HaltAgent, MarkHalted, goVars, TypeOK
    <3>2. ASSUME NEW v \in Versions, Deliver(v) PROVE FALSE
      BY <1>3, <2>3, <3>1, <3>2, DeliverStep
    <3>3. ASSUME NEW s \in ConstraintSets, NEW o \in Overrides, Push(s, o) PROVE FALSE
      BY <1>3, <2>3, <3>3, PushStep DEF TypeOK
    <3>4. CASE UNCHANGED goVars
      BY <1>3, <2>3, <3>4 DEF goVars
    <3>5. QED
      BY <3>2, <3>3, <3>4, OtherSteps
  <2>4. QED
    BY <2>1, <2>2, <2>3
<1>4. QED
  BY <1>2, <1>3 DEF AcksAreSound

\* A delivery cannot end without a record of its ack or its halt.
LEMMA RecordStep ==
    ASSUME TypeOK, DeliveryOnRecord, UnansweredIsHalted, [Next]_vars
    PROVE  DeliveryOnRecord' /\ UnansweredIsHalted'
<1> SUFFICES ASSUME NEW v \in Versions
             PROVE  /\ pc'[v] \in {"ack", "mismatch"} => v \in confirmed'
                    /\ pc'[v] = "halted" => v \in haltTried'
                    /\ pc'[v] = "done" /\ via'[v] # NoConn /\ v \notin confirmed'
                          => v \in haltTried'
  BY DEF DeliveryOnRecord, UnansweredIsHalted
<1>1. /\ pc[v] \in {"ack", "mismatch"} => v \in confirmed
      /\ pc[v] = "halted" => v \in haltTried
      /\ pc[v] = "done" /\ via[v] # NoConn /\ v \notin confirmed => v \in haltTried
  BY DEF DeliveryOnRecord, UnansweredIsHalted
<1>2. ASSUME NEW s \in ConstraintSets, NEW o \in Overrides, Push(s, o)
      PROVE  UNCHANGED <<via, confirmed, haltTried>> /\ pc'[v] \in {pc[v], "resolve"}
  BY <1>2, PushStep DEF TypeOK, ghostVars
<1>3. ASSUME Deliver(v)
      PROVE  /\ pc'[v] \in {"ack", "mismatch"} => v \in confirmed'
             /\ pc'[v] = "halted" => v \in haltTried'
             /\ pc'[v] = "done" /\ via'[v] # NoConn /\ v \notin confirmed'
                   => v \in haltTried'
  BY <1>1, <1>3, PathStep
<1>4. ASSUME NEW u \in Versions, Deliver(u), u # v
      PROVE  /\ pc'[v] = pc[v] /\ via'[v] = via[v]
             /\ confirmed \subseteq confirmed' /\ haltTried \subseteq haltTried'
  BY <1>4, DeliverStep, PathStep
<1>5. CASE UNCHANGED <<goVars, confirmed, haltTried>>
  BY <1>1, <1>5 DEF goVars
<1>6. QED
  BY <1>1, <1>2, <1>3, <1>4, <1>5, OtherSteps

\* Only an ack taken by its own delivery makes a change acked.
LEMMA AckedStep ==
    ASSUME TypeOK, OnlyPushedTravel, AcksAreSound, AckedWasApplied, [Next]_vars
    PROVE  AckedWasApplied'
<1> USE DEF Latest
<1>1. applied \subseteq applied' /\ Len(history) \in Nat
  BY OtherSteps, PathStep, PushStep, LenProperties DEF ghostVars, TypeOK
<1>2. ASSUME NEW s \in ConstraintSets, NEW o \in Overrides, Push(s, o)
      PROVE  AckedWasApplied'
  BY <1>1, <1>2, PushStep DEF AckedWasApplied
<1>3. ASSUME NEW u \in Versions, Deliver(u)
      PROVE  AckedWasApplied'
  <2>1. ASSUME NEW v \in 1..Len(history), history'[v].status = "acked"
        PROVE  v \in applied
    <3>1. CASE v # u \/ UNCHANGED history
      BY <1>3, <2>1, <3>1, VerdictStep DEF AckedWasApplied
    <3>2. CASE v = u /\ ~UNCHANGED history
      BY <1>3, <2>1, <3>2, VerdictStep DEF AcksAreSound
    <3>3. QED
      BY <3>1, <3>2
  <2>2. QED
    BY <1>1, <1>3, <2>1, DeliverStep DEF AckedWasApplied
<1>4. CASE UNCHANGED history
  BY <1>1, <1>4 DEF AckedWasApplied
<1>5. QED
  BY <1>2, <1>3, <1>4, OtherSteps

\* The baseline moves only with the ack of the latest change, which is then the
\* newest acked one; no verdict is taken back.
LEMMA BaselineStep ==
    ASSUME TypeOK, OnlyPushedTravel, StatusFollowsDelivery, BaselineIsNewestAcked, [Next]_vars
    PROVE  BaselineIsNewestAcked'
<1> USE DEF Latest
<1>1. Len(history) \in Nat
  BY LenProperties DEF TypeOK
<1>2. ASSUME AckedVersions' = AckedVersions, baseline' = baseline,
             \A v \in AckedVersions : history'[v] = history[v]
      PROVE  BaselineIsNewestAcked'
  BY <1>2 DEF BaselineIsNewestAcked
<1>3. ASSUME NEW s \in ConstraintSets, NEW o \in Overrides, Push(s, o)
      PROVE  BaselineIsNewestAcked'
  <2>1. \A v \in 1..Len(history') :
           v \in 1..Len(history) \/ history'[v].status = "pending"
    BY <1>1, <1>3, PushStep
  <2>2. AckedVersions' = AckedVersions
    BY <1>1, <1>3, <2>1, PushStep DEF AckedVersions
  <2>3. QED
    BY <1>2, <1>3, <2>2, PushStep DEF AckedVersions
<1>4. ASSUME NEW u \in Versions, Deliver(u)
      PROVE  BaselineIsNewestAcked'
  <2>1. CASE UNCHANGED <<history, baseline>>
    BY <1>2, <2>1 DEF AckedVersions
  <2>2. CASE pc[u] = "ack" /\ ~UNCHANGED <<history, baseline>>
    <3>1. /\ u = Len(history) /\ u \in 1..Len(history) /\ Len(history') = Len(history)
          /\ history'[u].status = "acked" /\ baseline' = history'[u].set
      BY <1>4, <2>2, DeliverStep, VerdictStep
    <3>2. u \in AckedVersions' /\ \A v \in AckedVersions' : v <= u
      BY <3>1 DEF AckedVersions
    <3>3. QED
      BY <3>1, <3>2 DEF BaselineIsNewestAcked
  <2>3. CASE pc[u] # "ack" /\ ~UNCHANGED <<history, baseline>>
    <3>1. /\ u \in 1..Len(history) /\ Len(history') = Len(history) /\ baseline' = baseline
          /\ \A v \in 1..Len(history) : v # u => history'[v] = history[v]
          /\ history'[u].status # "acked"
      BY <1>4, <2>3, DeliverStep, VerdictStep
    <3>2. history[u].status # "acked"
      <4>1. u = Len(history) /\ pc[u] \in {"mismatch", "expired", "halted"}
        BY <1>4, <2>3, VerdictStep
      <4>2. QED
        BY <3>1, <4>1 DEF StatusFollowsDelivery
    <3>3. AckedVersions' = AckedVersions
      BY <3>1, <3>2 DEF AckedVersions
    <3>4. QED
      BY <1>2, <3>1, <3>2, <3>3 DEF AckedVersions
  <2>4. QED
    BY <2>1, <2>2, <2>3
<1>5. CASE UNCHANGED <<history, baseline>>
  BY <1>2, <1>5 DEF AckedVersions
<1>6. QED
  BY <1>3, <1>4, <1>5, OtherSteps

\* The baseline does not move while the latest change is undecided.
LEMMA SeverityStep ==
    ASSUME TypeOK, OnlyPushedTravel, StatusFollowsDelivery, PendingSeverityCurrent, [Next]_vars
    PROVE  PendingSeverityCurrent'
<1> USE DEF Latest
<1>1. Len(history) \in Nat
  BY LenProperties DEF TypeOK
<1>2. ASSUME NEW s \in ConstraintSets, NEW o \in Overrides, Push(s, o)
      PROVE  PendingSeverityCurrent'
  BY <1>1, <1>2, PushStep DEF PendingSeverityCurrent
<1>3. ASSUME NEW u \in Versions, Deliver(u)
      PROVE  PendingSeverityCurrent'
  <2>1. CASE UNCHANGED <<history, baseline>>
    BY <2>1 DEF PendingSeverityCurrent
  <2>2. CASE ~UNCHANGED <<history, baseline>> /\ pc[u] = "ack"
    BY <1>3, <2>2, DeliverStep, VerdictStep DEF PendingSeverityCurrent
  <2>3. CASE ~UNCHANGED <<history, baseline>> /\ pc[u] # "ack"
    <3>1. /\ u = Len(history) /\ u \in 1..Len(history) /\ Len(history') = Len(history)
          /\ baseline' = baseline
          /\ history'[u].set = history[u].set /\ history'[u].severity = history[u].severity
          /\ pc[u] \in {"mismatch", "expired", "halted"}
      BY <1>3, <2>3, DeliverStep, VerdictStep
    <3>2. history[u].status # "acked"
      BY <3>1 DEF StatusFollowsDelivery
    <3>3. QED
      BY <3>1, <3>2 DEF PendingSeverityCurrent
  <2>4. QED
    BY <2>1, <2>2, <2>3
<1>4. CASE UNCHANGED <<history, baseline>>
  BY <1>4 DEF PendingSeverityCurrent
<1>5. QED
  BY <1>2, <1>3, <1>4, OtherSteps

\* The latest change keeps the verdict of its own delivery.
LEMMA LatestVerdictStep ==
    ASSUME TypeOK, OnlyPushedTravel, StatusFollowsDelivery, DeliveryOnRecord,
           VerdictOfLatest, [Next]_vars
    PROVE  VerdictOfLatest'
<1> USE DEF Latest
<1>1. Len(history) \in Nat /\ Len(history) <= MaxPushes /\ pc \in [Versions -> PcLabels]
  BY LenProperties DEF TypeOK
<1>2. Len(history) > 0 => Len(history) \in Versions
  BY <1>1, BoundsAssumption DEF Versions
<1>3. ASSUME NEW s \in ConstraintSets, NEW o \in Overrides, Push(s, o)
      PROVE  VerdictOfLatest'
  BY <1>1, <1>3, PushStep DEF VerdictOfLatest
<1>4. ASSUME NEW u \in Versions, Deliver(u)
      PROVE  VerdictOfLatest'
  <2>1. /\ Len(history') = Len(history)
        /\ confirmed \subseteq confirmed' /\ haltTried \subseteq haltTried'
    BY <1>4, DeliverStep, PathStep
  <2>2. CASE u # Len(history)
    <3>1. UNCHANGED history
      BY <1>4, <2>2, VerdictStep
    <3>2. Len(history) > 0 => pc'[Len(history)] = pc[Len(history)]
                              /\ via'[Len(history)] = via[Len(history)]
      BY <1>2, <1>4, <2>2, DeliverStep
    <3>3. QED
      BY <2>1, <3>1, <3>2 DEF VerdictOfLatest
  <2>3. CASE u = Len(history)
    <3> SUFFICES ASSUME pc'[u] = "done", via'[u] # NoConn
                 PROVE  \/ u \in confirmed' /\ history'[u].status \in {"acked", "hash_mismatch"}
                        \/ u \in haltTried' /\ history'[u].status \in {"timeout", "halted"}
      BY <2>1, <2>3 DEF VerdictOfLatest
    <3>1. u \in 1..Len(history)
      BY <1>1, <2>3, VersionsInNat DEF Versions
    <3>2. \/ pc[u] \in {"ack", "mismatch", "halted"}
          \/ pc[u] = "halting" /\ u \in haltTried' /\ UNCHANGED history
      BY <1>4, PathStep
    <3>3. pc[u] \in {"ack", "mismatch"} => u \in confirmed'
      BY <2>1 DEF DeliveryOnRecord
    <3>4. pc[u] = "halted" => u \in haltTried'
      BY <2>1 DEF DeliveryOnRecord
    <3>5. pc[u] = "halting" => history[u].status = "timeout"
      BY <2>3, <3>1 DEF StatusFollowsDelivery
    <3>6. pc[u] \in {"ack", "mismatch", "halted"} =>
             \/ pc[u] \in {"ack", "mismatch"} /\ history'[u].status \in {"acked", "hash_mismatch"}
             \/ pc[u] = "halted" /\ history'[u].status = "halted"
      BY <1>4, <2>3, VerdictStep
    <3>7. QED
      BY <3>2, <3>3, <3>4, <3>5, <3>6
  <2>4. QED
    BY <2>2, <2>3
<1>5. CASE UNCHANGED <<history, goVars, confirmed, haltTried>>
  BY <1>5 DEF VerdictOfLatest, goVars
<1>6. QED
  BY <1>3, <1>4, <1>5, OtherSteps

\* Only its own disconnect, a newer socket or the operator displaces a socket.
LEMMA TransportStep ==
    ASSUME TypeOK, LiveTransportRegistered, [Next]_vars
    PROVE  LiveTransportRegistered'
<1> USE DEF TypeOK, LiveTransportRegistered
<1>1. ASSUME NEW v \in Versions, Deliver(v) PROVE LiveTransportRegistered'
  BY <1>1 DEF Deliver, Resolve, SendPush, PushRefused, TakeAck, DropAck, PushFails, AckChange,
     RejectAck, MarkTimeout, HaltAgent, MarkHalted, managerVars, sockVars
<1>2. ASSUME NEW c \in Conns, Register(c) PROVE LiveTransportRegistered'
  <2>1. NoConn \notin Conns
    BY BoundsAssumption DEF NoConn, Conns
  <2>2. ASSUME NEW d \in Conns, d # c, handler[d] = "registered", pump[d] = "reading",
               ~closed[d], d \notin doomed'
        PROVE  FALSE
    BY <1>2, <2>1, <2>2 DEF Register
  <2>3. QED
    BY <1>2, <2>2 DEF Register
<1>3. ASSUME NEW c \in Conns, CloseReplaced(c) PROVE LiveTransportRegistered'
  BY <1>3 DEF CloseReplaced, managerVars
<1>4. ASSUME NEW c \in Conns, OnDisconnect(c) PROVE LiveTransportRegistered'
  BY <1>4 DEF OnDisconnect
<1>5. ASSUME NEW c \in Conns, ReadAck(c) \/ ReadFails(c) PROVE LiveTransportRegistered'
  BY <1>5 DEF ReadAck, ReadFails, managerVars
<1>6. ASSUME NEW c \in Conns, Accept(c) PROVE LiveTransportRegistered'
  BY <1>6 DEF Accept, managerVars
<1>7. ASSUME NEW c \in Conns, LinkDrops(c) \/ Enforcer(c) PROVE LiveTransportRegistered'
  BY <1>7 DEF LinkDrops, Enforcer, ApplyPush, RefusePush, ServeEnds, managerVars, sockVars
<1>8. ASSUME Unregister PROVE LiveTransportRegistered'
  BY <1>8 DEF Unregister
<1>9. ASSUME StopRuntime \/ StartRuntime \/ UNCHANGED vars
             \/ \E s \in ConstraintSets, o \in Overrides : Push(s, o)
      PROVE  LiveTransportRegistered'
  BY <1>9 DEF StopRuntime, StartRuntime, Push, vars, managerVars, sockVars
<1>10. QED
  BY <1>1, <1>2, <1>3, <1>4, <1>5, <1>6, <1>7, <1>8, <1>9 DEF Next, Operator, Socket

-----------------------------------------------------------------------------
(* Theorems *)

\* The invariant holds initially.
LEMMA InvInit == Init => IInv
<1> SUFFICES ASSUME Init PROVE IInv
  OBVIOUS
<1>1. history = <<>> /\ Len(history) = 0
  BY EmptySeq DEF Init
<1>2. TypeOK /\ OnlyPushedTravel
  BY TypeInit, PushedInit
<1>3. StatusFollowsDelivery /\ AckedWasApplied /\ PendingSeverityCurrent /\ VerdictOfLatest
  BY <1>1 DEF Latest, StatusFollowsDelivery, AckedWasApplied, PendingSeverityCurrent,
              VerdictOfLatest
<1>4. PushesTakeTurns /\ DeliveryOnRecord /\ UnansweredIsHalted
  BY DEF Init, PushesTakeTurns, DeliveryOnRecord, UnansweredIsHalted
<1>5. AcksAreSound
  BY EmptySeq DEF Init, AcksAreSound
<1>6. BaselineIsNewestAcked
  BY <1>1 DEF Init, Latest, AckedVersions, BaselineIsNewestAcked
<1>7. LiveTransportRegistered
  BY DEF Init, LiveTransportRegistered
<1>8. QED
  BY <1>2, <1>3, <1>4, <1>5, <1>6, <1>7 DEF IInv

\* Every step keeps the invariant.
LEMMA InvStep == ASSUME IInv, [Next]_vars PROVE IInv'
BY TypeStep, PushedStep, StatusStep, TurnsStep, AcksStep, RecordStep, AckedStep,
   BaselineStep, SeverityStep, LatestVerdictStep, TransportStep
   DEF IInv

\* The inductive invariant: the verdicts, the baseline and the registered
\* socket follow the goroutines that set them.
THEOREM InductiveInvariant == Spec => []IInv
<1>1. Init => IInv
  BY InvInit
<1>2. IInv /\ [Next]_vars => IInv'
  BY InvStep
<1>3. QED
  BY <1>1, <1>2, PTL DEF Spec

\* A change reported as acked was swapped in by the enforcer, however many
\* pushes, sockets and stale or duplicate acks there are.
THEOREM AckSound == Spec => []AckedWasApplied
<1>1. IInv => AckedWasApplied
  BY DEF IInv
<1>2. QED
  BY <1>1, InductiveInvariant, PTL

\* The baseline is the set of the newest acknowledged change.
THEOREM BaselineSound == Spec => []BaselineIsNewestAcked
<1>1. IInv => BaselineIsNewestAcked
  BY DEF IInv
<1>2. QED
  BY <1>1, InductiveInvariant, PTL

\* The severity of the undecided latest change is not below its
\* classification against the current baseline.
THEOREM SeverityNotStale == Spec => []PendingSeverityCurrent
<1>1. IInv => PendingSeverityCurrent
  BY DEF IInv
<1>2. QED
  BY <1>1, InductiveInvariant, PTL

\* A delivery that had a socket ends with an answer to its change, be the hash in
\* it right or wrong, or with a halt.
THEOREM HaltOrAck == Spec => []UnansweredIsHalted
<1>1. IInv => UnansweredIsHalted
  BY DEF IInv
<1>2. QED
  BY <1>1, InductiveInvariant, PTL

\* The latest change gets the verdict that its delivery reached.
THEOREM LatestVerdict == Spec => []VerdictOfLatest
<1>1. IInv => VerdictOfLatest
  BY DEF IInv
<1>2. QED
  BY <1>1, InductiveInvariant, PTL

\* A live registered socket that nobody replaced stays the one in use.
THEOREM TransportSound == Spec => []LiveTransportRegistered
<1>1. IInv => LiveTransportRegistered
  BY DEF IInv
<1>2. QED
  BY <1>1, InductiveInvariant, PTL

\* The history is append-only, and only the latest change gets a verdict.
THEOREM HistoryAppendOnly == Spec => HistoryImmutable
<1> DEFINE Immutable ==
      /\ Latest <= Len(history')
      /\ \A v \in 1..Latest :
            history'[v] # history[v] =>
                /\ v = Len(history')
                /\ history'[v] = [history[v] EXCEPT !.status = history'[v].status]
                /\ \/ history[v].status = "pending" /\ history'[v].status # "halted"
                   \/ history[v].status = "timeout" /\ history'[v].status = "halted"
<1>1. ASSUME IInv, [Next]_vars PROVE [Immutable]_history
  <2> USE DEF Latest
  <2>1. Len(history) \in Nat
    BY <1>1, LenProperties DEF IInv, TypeOK
  <2>2. ASSUME NEW s \in ConstraintSets, NEW o \in Overrides, Push(s, o)
        PROVE  Immutable
    BY <1>1, <2>1, <2>2, PushStep DEF IInv
  <2>3. ASSUME NEW u \in Versions, Deliver(u), ~UNCHANGED history
        PROVE  Immutable
    <3>1. Len(history') = Len(history)
      BY <1>1, <2>3, DeliverStep DEF IInv
    <3>2. /\ u = Len(history) /\ u \in 1..Len(history)
          /\ \A v \in 1..Len(history) : v # u => history'[v] = history[v]
          /\ history'[u] = [history[u] EXCEPT !.status = history'[u].status]
          /\ \/ /\ pc[u] \in {"ack", "mismatch", "expired"}
                /\ history'[u].status \in {"acked", "hash_mismatch", "timeout"}
             \/ pc[u] = "halted" /\ history'[u].status = "halted"
      BY <1>1, <2>3, VerdictStep DEF IInv
    <3>3. /\ pc[u] \in {"ack", "mismatch", "expired"} => history[u].status = "pending"
          /\ pc[u] = "halted" => history[u].status = "timeout"
      BY <1>1, <3>2 DEF IInv, StatusFollowsDelivery
    <3>4. QED
      BY <2>1, <3>1, <3>2, <3>3
  <2>4. QED
    BY <1>1, <2>2, <2>3, OtherSteps
<1>2. QED
  BY <1>1, InductiveInvariant, PTL DEF Spec, HistoryImmutable

\* A push never loses the ack it waits for to another push on its socket.
THEOREM PushesKeepTheirAcks == Spec => NoAckStolen
<1> DEFINE Kept ==
      \A c \in Conns, v \in Versions :
            /\ acks[c] # <<>> /\ acks'[c] = Tail(acks[c]) /\ pump'[c] = pump[c]
            /\ pc[v] = "await" /\ via[v] = c /\ Matches(Head(acks[c]), v)
          => v \in confirmed'
<1>1. ASSUME IInv, [Next]_vars PROVE [Kept]_vars
  <2> SUFFICES ASSUME NEW c \in Conns, NEW v \in Versions,
                      acks[c] # <<>>, acks'[c] = Tail(acks[c]), pump'[c] = pump[c],
                      pc[v] = "await", via[v] = c, Matches(Head(acks[c]), v)
               PROVE  v \in confirmed'
    OBVIOUS
  <2>1. /\ acks \in [Conns -> Seq(Ack)] /\ pushMu[c] = v
        /\ \A u \in Versions : pc[u] = "await" => pushMu[via[u]] = u
    BY <1>1 DEF IInv, TypeOK, PushesTakeTurns
  <2>2. Len(acks[c]) \in Nat /\ Len(Tail(acks[c])) = Len(acks[c]) - 1
    BY <2>1, HeadTailProperties, LenProperties
  <2>3. acks'[c] # acks[c]
    <3>1. Len(acks'[c]) = Len(Tail(acks[c]))
      OBVIOUS
    <3>2. Len(acks'[c]) # Len(acks[c])
      BY <2>2, <3>1, Z3
    <3>3. QED
      BY <3>2
  <2>4. ASSUME NEW u \in Versions, TakeAck(u) PROVE v \in confirmed'
    <3>1. via[u] = c
      BY <2>1, <2>3, <2>4 DEF TakeAck
    <3>2. QED
      BY <2>1, <2>4, <3>1 DEF TakeAck
  <2>5. ASSUME NEW u \in Versions, DropAck(u) PROVE FALSE
    <3>1. via[u] = c
      BY <2>1, <2>3, <2>5 DEF DropAck
    <3>2. QED
      BY <2>1, <2>5, <3>1 DEF DropAck
  <2>6. ASSUME NEW d \in Conns, ReadAck(d) PROVE FALSE
    <3>1. d = c
      BY <2>1, <2>3, <2>6 DEF ReadAck
    <3>2. Head(fromEnf[c]) \in Ack
      BY <1>1, <2>6, <3>1, QueueTail DEF ReadAck, IInv, TypeOK
    <3>3. Len(acks'[c]) = Len(acks[c]) + 1
      BY <2>1, <2>6, <3>1, <3>2, QueueAppend DEF ReadAck
    <3>4. QED
      BY <2>2, <3>3
  <2>7. ASSUME NEW d \in Conns, ReadFails(d) PROVE FALSE
    BY <1>1, <2>1, <2>3, <2>7 DEF ReadFails, IInv, TypeOK
  <2>8. acks' = acks => FALSE
    BY <2>3
  <2>9. ASSUME NEW u \in Versions, Deliver(u), ~TakeAck(u), ~DropAck(u) PROVE acks' = acks
    BY <2>9 DEF Deliver, Resolve, SendPush, PushRefused, PushFails, AckChange, RejectAck,
                MarkTimeout, HaltAgent, MarkHalted, sockVars
  <2>10. ASSUME NEW d \in Conns, Accept(d) \/ LinkDrops(d) \/ Socket(d) \/ Enforcer(d),
                ~ReadAck(d), ~ReadFails(d)
         PROVE  acks' = acks
    BY <2>10 DEF Accept, LinkDrops, Socket, Enforcer, Register, CloseReplaced, OnDisconnect,
                 ApplyPush, RefusePush, ServeEnds, sockVars
  <2>11. ASSUME Operator \/ UNCHANGED vars PROVE acks' = acks
    BY <2>11 DEF Operator, Push, Unregister, StopRuntime, StartRuntime, vars, sockVars
  <2>12. QED
    BY <1>1, <2>4, <2>5, <2>6, <2>7, <2>8, <2>9, <2>10, <2>11 DEF Next
<1>2. QED
  BY <1>1, InductiveInvariant, PTL DEF Spec, NoAckStolen

-----------------------------------------------------------------------------
(* The delivery implements ConstraintPromise *)

\* What a step of one delivery puts on record.
LEMMA GhostStep ==
    ASSUME NEW v \in Versions, Deliver(v), TypeOK
    PROVE  /\ applied' = applied
           /\ \/ confirmed' = confirmed
              \/ /\ confirmed' = confirmed \cup {v}
                 /\ pc[v] = "await" /\ pc'[v] \in {"ack", "mismatch"}
           /\ \/ haltTried' = haltTried
              \/ /\ haltTried' = haltTried \cup {v}
                 /\ pc[v] = "halting" /\ pc'[v] \in {"halted", "done"}
           /\ pc[v] = "halting" => haltTried' = haltTried \cup {v}
BY DEF TypeOK, Deliver, Resolve, SendPush, PushRefused, TakeAck, DropAck, PushFails,
       StageFails, AckChange, RejectAck, MarkTimeout, HaltAgent, MarkHalted, managerVars,
       goVars, ghostVars

\* The enforcer adds to its record the change it swaps in, one of the history.
LEMMA EnforcedStep ==
    ASSUME TypeOK, OnlyPushedTravel, [Next]_vars
    PROVE  \/ applied' = applied
           \/ \E v \in 1..Len(history) : applied' = applied \cup {v}
<1>1. ASSUME NEW c \in Conns, ApplyPush(c)
      PROVE  \E v \in 1..Len(history) : applied' = applied \cup {v}
  <2>1. /\ Head(toEnf[c]) \in Versions
        /\ Len(toEnf[c]) > 0 /\ Len(toEnf[c]) \in Nat /\ Head(toEnf[c]) = toEnf[c][1]
    BY <1>1, QueueTail DEF TypeOK, ApplyPush
  <2>2. 1 \in 1..Len(toEnf[c])
    BY <2>1
  <2>3. toEnf[c][1] <= Len(history)
    BY <2>2 DEF OnlyPushedTravel, Latest
  <2>4. Head(toEnf[c]) \in 1..Len(history)
    BY <2>1, <2>3, VersionsInNat DEF Versions
  <2>5. QED
    BY <1>1, <2>4 DEF ApplyPush
<1>2. ASSUME NEW c \in Conns, Accept(c) \/ LinkDrops(c) \/ Socket(c) \/ RefusePush(c) \/ ServeEnds(c)
      PROVE  applied' = applied
  BY <1>2 DEF Accept, LinkDrops, Socket, Register, CloseReplaced, ReadAck, ReadFails,
              OnDisconnect, RefusePush, ServeEnds, ghostVars
<1>3. ASSUME NEW v \in Versions, Deliver(v) PROVE applied' = applied
  BY <1>3, GhostStep
<1>4. CASE Operator \/ UNCHANGED vars
  BY <1>4 DEF Operator, Push, Unregister, StopRuntime, StartRuntime, vars, ghostVars
<1>5. QED
  BY <1>1, <1>2, <1>3, <1>4 DEF Next, Enforcer

\* No delivery answers or halts twice, or after it ended.
LEMMA FinalStep ==
    ASSUME TypeOK, OnlyPushedTravel, RecordIsFinal, [Next]_vars
    PROVE  RecordIsFinal'
<1> SUFFICES ASSUME NEW v \in Versions
             PROVE  /\ v \in haltTried' => pc'[v] \in {"halted", "done"}
                    /\ v \in confirmed' => pc'[v] \in {"ack", "mismatch", "done"}
  BY DEF RecordIsFinal
<1>1. /\ v \in haltTried => pc[v] \in {"halted", "done"}
      /\ v \in confirmed => pc[v] \in {"ack", "mismatch", "done"}
  BY DEF RecordIsFinal
<1>2. ASSUME NEW s \in ConstraintSets, NEW o \in Overrides, Push(s, o)
      PROVE  /\ UNCHANGED <<confirmed, haltTried>>
             /\ pc'[v] = pc[v] \/ v \notin confirmed \cup haltTried
  <2>1. v = Len(history) + 1 => pc[v] = "unpushed"
    BY LenProperties DEF TypeOK, OnlyPushedTravel, Latest
  <2>2. QED
    BY <1>1, <1>2, <2>1, PushStep DEF TypeOK, ghostVars
<1>3. ASSUME Deliver(v)
      PROVE  /\ v \in haltTried' => pc'[v] \in {"halted", "done"}
             /\ v \in confirmed' => pc'[v] \in {"ack", "mismatch", "done"}
  BY <1>1, <1>3, PathStep, GhostStep
<1>4. ASSUME NEW u \in Versions, Deliver(u), u # v
      PROVE  /\ pc'[v] = pc[v]
             /\ v \in confirmed' => v \in confirmed
             /\ v \in haltTried' => v \in haltTried
  BY <1>4, DeliverStep, GhostStep
<1>5. CASE UNCHANGED <<goVars, confirmed, haltTried>>
  BY <1>1, <1>5 DEF goVars
<1>6. QED
  BY <1>1, <1>2, <1>3, <1>4, <1>5, OtherSteps

\* At first nothing is issued.
LEMMA PromiseInit == Init => Promise!Init
<1> SUFFICES ASSUME Init PROVE Promise!Init
  OBVIOUS
<1>1. Latest = 0
  BY EmptySeq DEF Init, Latest
<1>2. \A v \in Versions : v > Latest
  BY <1>1, VersionsInNat DEF Versions
<1>3. \A v \in Versions : VerdictOf(v) = "open" /\ DeliveryOf(v) = "open"
  BY <1>2 DEF Init, VerdictOf, DeliveryOf
<1>4. \A v \in Versions : ~(v <= Latest)
  BY <1>1, VersionsInNat DEF Versions
<1>5. QED
  BY <1>1, <1>3, <1>4 DEF Init, Promise!Init, Promise!Changes, Versions

\* The delivery of v closes, or the newest change gets its verdict, as one of
\* the promise's actions; a step that does neither is a stutter of it.
LEMMA DeliverImplements ==
    ASSUME IInv, RecordIsFinal, NEW v \in Versions, Deliver(v)
    PROVE  Promise!Conclude(v) \/ UNCHANGED Promise!vars
<1> DEFINE sets == [u \in Versions |-> IF u <= Latest THEN history[u].set ELSE EmptySet]
           verdicts == [u \in Versions |-> VerdictOf(u)]
           deliveries == [u \in Versions |-> DeliveryOf(u)]
<1> USE DEF Latest
<1>1. /\ TypeOK /\ OnlyPushedTravel /\ StatusFollowsDelivery /\ AcksAreSound /\ DeliveryOnRecord
      /\ Len(history) \in Nat /\ Len(history') = Len(history)
      /\ pc[v] # "unpushed" /\ v <= Len(history) /\ v \in 1..Len(history)
      /\ \A u \in Versions : u \in Nat /\ u >= 1
  <2>1. /\ TypeOK /\ OnlyPushedTravel /\ StatusFollowsDelivery
        /\ AcksAreSound /\ DeliveryOnRecord
    BY DEF IInv
  <2>2. \A u \in Versions : u \in Nat /\ u >= 1
    BY VersionsInNat DEF Versions
  <2>3. /\ pc[v] # "unpushed"
        /\ Len(history') = Len(history)
    BY <2>1, DeliverStep
  <2>4. Len(history) \in Nat
    BY <2>1, LenProperties DEF TypeOK
  <2>5. v <= Len(history)
    BY <2>1, <2>3 DEF OnlyPushedTravel
  <2>6. v \in 1..Len(history)
    BY <2>2, <2>4, <2>5
  <2>7. QED
    BY <2>1, <2>2, <2>3, <2>4, <2>5, <2>6
<1>2. \A u \in 1..Len(history) : history'[u].set = history[u].set
                                 /\ (u # v => history'[u] = history[u])
  BY <1>1, VerdictStep
<1>3. sets' = sets
  BY <1>1, <1>2
<1>4. \A u \in Versions : u # v => VerdictOf(u)' = VerdictOf(u)
  BY <1>1, <1>2 DEF VerdictOf
<1>5. \A u \in Versions : u # v => DeliveryOf(u)' = DeliveryOf(u)
  BY <1>1, DeliverStep, GhostStep DEF DeliveryOf
<1>6. applied' = applied
  BY <1>1, GhostStep
<1>7. /\ v \in haltTried => pc[v] \in {"halted", "done"}
      /\ v \in confirmed => pc[v] \in {"ack", "mismatch", "done"}
      /\ pc[v] \in {"ack", "mismatch"} => v \in confirmed
      /\ pc[v] = "halted" => v \in haltTried
      /\ pc[v] \in {"resolve", "lock", "await", "ack", "mismatch", "expired"}
              => history[v].status = "pending"
      /\ v = Len(history) /\ pc[v] \in {"halting", "halted"} => history[v].status = "timeout"
      /\ pc[v] = "ack" => v \in applied
  BY <1>1 DEF RecordIsFinal, DeliveryOnRecord, StatusFollowsDelivery, AcksAreSound
<1>8. ASSUME VerdictOf(v)' = VerdictOf(v), DeliveryOf(v)' = DeliveryOf(v), baseline' = baseline
      PROVE  UNCHANGED Promise!vars
  <2>1. verdicts' = verdicts /\ deliveries' = deliveries
    BY <1>4, <1>5, <1>8
  <2>2. QED
    BY <1>1, <1>3, <1>6, <1>8, <2>1 DEF Promise!vars
<1>9. ASSUME NEW how, DeliveryOf(v) = "open", DeliveryOf(v)' = how
      PROVE  Promise!Close(v, how)
  <2>1. deliveries' = [deliveries EXCEPT ![v] = how]
    BY <1>5, <1>9
  <2>2. QED
    BY <1>1, <1>3, <1>6, <1>9, <2>1 DEF Promise!Close, Promise!Issued
<1>10. ASSUME NEW judgement, v = Len(history), VerdictOf(v) = "open", VerdictOf(v)' = judgement
       PROVE  Promise!Judge(v, judgement)
  <2>1. verdicts' = [verdicts EXCEPT ![v] = judgement]
    BY <1>4, <1>10
  <2>2. QED
    BY <1>10, <2>1 DEF Promise!Judge
<1>11. ASSUME VerdictOf(v)' = VerdictOf(v)
       PROVE  verdicts' = verdicts
  BY <1>4, <1>11
<1>12. CASE UNCHANGED <<history, baseline>>
  <2>1. VerdictOf(v)' = VerdictOf(v) /\ verdicts' = verdicts
    BY <1>1, <1>11, <1>12 DEF VerdictOf
  <2>2. CASE DeliveryOf(v)' = DeliveryOf(v)
    BY <1>8, <1>12, <2>1, <2>2
  <2>3. CASE pc[v] = "halting"
    <3>1. DeliveryOf(v) = "open" /\ DeliveryOf(v)' = "halted"
      BY <1>1, <1>7, <2>3, GhostStep DEF DeliveryOf
    <3>2. v = Len(history) => VerdictOf(v) = "expired"
      BY <1>1, <1>7, <2>3 DEF VerdictOf
    <3>3. Promise!OrderHalt(v)
      BY <1>9, <1>12, <2>1, <3>1, <3>2 DEF Promise!OrderHalt
    <3>4. QED
      BY <3>3 DEF Promise!Conclude
  <2>4. CASE pc[v] = "resolve" /\ pc'[v] = "done"
    <3>1. /\ via'[v] = NoConn
          /\ v \notin haltTried' /\ v \notin confirmed'
      BY <1>1, <1>7, <2>4, PathStep, GhostStep
    <3>2. DeliveryOf(v) = "open" /\ DeliveryOf(v)' = "unsent"
      BY <1>1, <1>7, <2>4, <3>1 DEF DeliveryOf
    <3>3. VerdictOf(v) = "open"
      BY <1>7, <2>4 DEF VerdictOf
    <3>4. Promise!LeaveUnsent(v)
      BY <1>9, <1>12, <2>1, <2>4, <3>2, <3>3 DEF Promise!LeaveUnsent
    <3>5. QED
      BY <3>4 DEF Promise!Conclude
  <2>5. CASE pc[v] \in {"ack", "mismatch"} /\ pc'[v] = "done"
    <3>1. v # Len(history)
      <4>1. history'[v].status = "pending"
        BY <1>7, <1>12, <2>5
      <4>2. v # Len(history) \/ history'[v].status \in {"acked", "hash_mismatch", "timeout", "halted"}
        BY <1>1, <2>5, VerdictStep
      <4>3. QED
        BY <4>1, <4>2
    <3>2. DeliveryOf(v) = "open" /\ DeliveryOf(v)' = "answered"
      BY <1>1, <1>7, <2>5, GhostStep DEF DeliveryOf
    <3>3. Promise!AnswerSuperseded(v)
      BY <1>9, <1>12, <2>1, <3>1, <3>2 DEF Promise!AnswerSuperseded
    <3>4. QED
      BY <3>3 DEF Promise!Conclude
  <2>6. CASE pc[v] = "halted" /\ pc'[v] = "done"
    <3>1. DeliveryOf(v) = "halted" /\ DeliveryOf(v)' = "halted"
      BY <1>1, <1>7, <2>6, GhostStep DEF DeliveryOf
    <3>2. QED
      BY <2>2, <3>1
  <2>7. CASE pc[v] # "done" /\ pc'[v] # "done" /\ pc[v] # "halting"
    <3>1. DeliveryOf(v)' = DeliveryOf(v)
      BY <1>1, <1>7, <2>7, GhostStep DEF DeliveryOf
    <3>2. QED
      BY <2>2, <3>1
  <2>8. QED
    BY <1>1, <2>3, <2>4, <2>5, <2>6, <2>7, PathStep
<1>13. CASE ~UNCHANGED <<history, baseline>>
  <2>1. /\ v = Len(history)
        /\ \/ /\ pc[v] = "ack" /\ pc'[v] = "done" /\ history'[v].status = "acked"
              /\ baseline' = history[v].set
           \/ /\ baseline' = baseline
              /\ \/ /\ pc[v] = "mismatch" /\ pc'[v] = "done"
                    /\ history'[v].status = "hash_mismatch"
                 \/ /\ pc[v] = "expired" /\ pc'[v] = "halting"
                    /\ history'[v].status = "timeout"
                 \/ /\ pc[v] = "halted" /\ pc'[v] = "done"
                    /\ history'[v].status = "halted"
    BY <1>1, <1>13, VerdictStep
  <2>2. CASE pc[v] = "ack"
    <3>1. DeliveryOf(v) = "open" /\ DeliveryOf(v)' = "answered"
      BY <1>1, <1>7, <2>1, <2>2, GhostStep DEF DeliveryOf
    <3>2. VerdictOf(v) = "open" /\ VerdictOf(v)' = "accepted"
      BY <1>1, <1>7, <2>1, <2>2 DEF VerdictOf
    <3>3. sets[v] = history[v].set
      BY <1>1
    <3>4. Promise!Accept(v)
      BY <1>7, <1>9, <1>10, <2>1, <2>2, <3>1, <3>2, <3>3 DEF Promise!Accept
    <3>5. QED
      BY <3>4 DEF Promise!Conclude
  <2>3. CASE pc[v] = "mismatch"
    <3>1. DeliveryOf(v) = "open" /\ DeliveryOf(v)' = "answered"
      BY <1>1, <1>7, <2>1, <2>3, GhostStep DEF DeliveryOf
    <3>2. VerdictOf(v) = "open" /\ VerdictOf(v)' = "refused"
      BY <1>1, <1>7, <2>1, <2>3 DEF VerdictOf
    <3>3. Promise!Refuse(v)
      BY <1>9, <1>10, <2>1, <2>3, <3>1, <3>2 DEF Promise!Refuse
    <3>4. QED
      BY <3>3 DEF Promise!Conclude
  <2>4. CASE pc[v] = "expired"
    <3>1. DeliveryOf(v) = "open" /\ DeliveryOf(v)' = "open"
      BY <1>1, <1>7, <2>1, <2>4, GhostStep DEF DeliveryOf
    <3>2. VerdictOf(v) = "open" /\ VerdictOf(v)' = "expired"
      BY <1>1, <1>7, <2>1, <2>4 DEF VerdictOf
    <3>3. deliveries' = deliveries
      BY <1>5, <3>1
    <3>4. Promise!Expire(v)
      BY <1>1, <1>3, <1>6, <1>10, <2>1, <2>4, <3>1, <3>2, <3>3
         DEF Promise!Expire, Promise!Issued
    <3>5. QED
      BY <3>4 DEF Promise!Conclude
  <2>5. CASE pc[v] = "halted"
    <3>1. DeliveryOf(v) = "halted" /\ DeliveryOf(v)' = "halted"
      BY <1>1, <1>7, <2>1, <2>5, GhostStep DEF DeliveryOf
    <3>2. VerdictOf(v) = "expired" /\ VerdictOf(v)' = "expired"
      BY <1>1, <1>7, <2>1, <2>5 DEF VerdictOf
    <3>3. QED
      BY <1>8, <2>1, <2>5, <3>1, <3>2
  <2>6. QED
    BY <2>1, <2>2, <2>3, <2>4, <2>5
<1>14. QED
  BY <1>12, <1>13

\* Every step of the delivery is a step of the promise or a stutter of it.
LEMMA PromiseStep ==
    ASSUME IInv, RecordIsFinal, [Next]_vars
    PROVE  [Promise!Next]_(Promise!vars)
<1> USE DEF Latest
<1>1. /\ TypeOK /\ OnlyPushedTravel /\ Len(history) \in Nat
      /\ \A u \in Versions : u \in Nat /\ u >= 1
  BY LenProperties, VersionsInNat DEF IInv, TypeOK, Versions
<1>2. ASSUME NEW s \in ConstraintSets, NEW o \in Overrides, Push(s, o)
      PROVE  Promise!Issue(s)
  <2> DEFINE n == Len(history) + 1
  <2>1. /\ n \in Versions /\ Len(history') = n
        /\ \A u \in 1..Len(history) : history'[u] = history[u]
        /\ history'[n].set = s /\ history'[n].status = "pending"
        /\ pc' = [pc EXCEPT ![n] = "resolve"]
        /\ UNCHANGED <<baseline, via, applied, confirmed, haltTried>>
    BY <1>1, <1>2, PushStep DEF ghostVars
  <2>2. pc[n] = "unpushed"
    BY <1>1, <2>1 DEF OnlyPushedTravel
  <2>3. \A u \in Versions : VerdictOf(u)' = VerdictOf(u)
    BY <1>1, <2>1 DEF VerdictOf
  <2>4. \A u \in Versions : DeliveryOf(u)' = DeliveryOf(u)
    BY <1>1, <2>1, <2>2 DEF DeliveryOf, RecordIsFinal, TypeOK
  <2>5. \A u \in Versions :
           (IF u <= Latest THEN history[u].set ELSE EmptySet)'
             = IF u = n THEN s ELSE IF u <= Latest THEN history[u].set ELSE EmptySet
    BY <1>1, <2>1
  <2>6. Latest < MaxPushes
    BY <1>2 DEF Push
  <2>7. QED
    BY <2>1, <2>3, <2>4, <2>5, <2>6 DEF Promise!Issue
<1>3. ASSUME NEW v \in Versions, Deliver(v)
      PROVE  Promise!Conclude(v) \/ UNCHANGED Promise!vars
  BY <1>3, DeliverImplements
<1>4. CASE UNCHANGED <<history, baseline, goVars, confirmed, haltTried>>
  <2>1. UNCHANGED <<pc, via>>
    BY <1>4 DEF goVars
  <2>2. \A u \in Versions : /\ VerdictOf(u)' = VerdictOf(u)
                            /\ DeliveryOf(u)' = DeliveryOf(u)
    BY <1>4, <2>1 DEF VerdictOf, DeliveryOf
  <2>3. CASE applied' = applied
    BY <1>4, <2>2, <2>3 DEF Promise!vars
  <2>4. ASSUME NEW v \in 1..Len(history), applied' = applied \cup {v}
        PROVE  v \in Versions /\ Promise!Enforce(v)
    <3>1. v \in Versions
      BY <1>1, BoundsAssumption DEF TypeOK, Versions
    <3>2. QED
      BY <1>4, <2>2, <2>4, <3>1 DEF Promise!Enforce, Promise!Issued
  <2>5. QED
    BY <1>1, <2>3, <2>4, EnforcedStep DEF Promise!Next, Promise!Changes, Versions
<1>5. QED
  BY <1>2, <1>3, <1>4, OtherSteps DEF Promise!Next, Promise!Changes, Versions

\* The gateway's sockets, goroutines, timers and halts implement the promise:
\* changes are issued in order, only the newest gets a verdict and gets it
\* once, a set is accepted only after the enforcer had it in force, and each
\* delivery closes once (Manager.Push, deliverAsync, Ack, MarkTimeout).
THEOREM ImplementsPromise == Spec => KeepsPromise
<1>1. Init => RecordIsFinal
  BY DEF Init, RecordIsFinal
<1>2. ASSUME IInv, RecordIsFinal, [Next]_vars PROVE RecordIsFinal'
  BY <1>2, FinalStep DEF IInv
<1>3. ASSUME IInv, RecordIsFinal, [Next]_vars PROVE [Promise!Next]_(Promise!vars)
  BY <1>3, PromiseStep
<1>4. QED
  BY <1>1, <1>2, <1>3, PromiseInit, InductiveInvariant, PTL
     DEF Spec, KeepsPromise, Promise!Spec
=============================================================================

-------------------------- MODULE TaskDeliveryProofs --------------------------
(* Proofs about TaskDelivery, for any events, bounds and sockets. *)
EXTENDS TaskDelivery, TLAPS, FiniteSetTheorems, SequenceTheorems

\* What tasks and messages are.
LEMMA ItemForms ==
    /\ \A i \in Tasks : \E e \in Events : \E n \in 1..MaxTries[e] : i = <<e, n>>
    /\ \A e \in Events : \A n \in 1..MaxTries[e] : <<e, n>> \in Tasks
    /\ \A i \in Tasks : i[1] \in Events /\ i[2] \in 1..MaxTries[i[1]]
                        /\ i[2] \in Nat \ {0} /\ i = <<i[1], i[2]>>
    /\ \A i \in Messages : i[1] \in Direct /\ i[2] = 0 /\ i = <<i[1], 0>>
    /\ \A e \in Direct : <<e, 0>> \in Messages
    /\ Messages \cap Tasks = {}
    /\ \A e \in Events : 1 \in 1..MaxTries[e]
    /\ Direct \subseteq Events
    /\ \A i \in Tasks \cup Messages : IsDirect(i) <=> i[1] \in Direct
<1>1. \A i \in Tasks : \E e \in Events : \E n \in 1..MaxTries[e] : i = <<e, n>>
  BY DEF Tasks
<1>2. \A e \in Events : \A n \in 1..MaxTries[e] : <<e, n>> \in Tasks
  BY DEF Tasks
<1>3. \A e \in Events : MaxTries[e] \in Nat \ {0}
  BY DeliveryAssumption
<1>4. \A i \in Messages : i[1] \in Direct /\ i[2] = 0 /\ i = <<i[1], 0>>
  BY DEF Messages
<1>5. \A i \in Tasks : i[1] \in Events /\ i[2] \in 1..MaxTries[i[1]]
                       /\ i[2] \in Nat \ {0} /\ i = <<i[1], i[2]>>
  <2> SUFFICES ASSUME NEW i \in Tasks
               PROVE  i[1] \in Events /\ i[2] \in 1..MaxTries[i[1]]
                      /\ i[2] \in Nat \ {0} /\ i = <<i[1], i[2]>>
    OBVIOUS
  <2>1. PICK e \in Events : \E n \in 1..MaxTries[e] : i = <<e, n>>
    BY <1>1
  <2>2. PICK n \in 1..MaxTries[e] : i = <<e, n>>
    BY <2>1
  <2>3. n \in Nat \ {0}
    BY <1>3
  <2>4. i[1] = e /\ i[2] = n
    BY <2>2
  <2>5. QED
    BY <2>2, <2>3, <2>4
<1>6. \A e \in Direct : <<e, 0>> \in Messages
  BY DEF Messages
<1>7. QED
  BY <1>1, <1>2, <1>3, <1>4, <1>5, <1>6 DEF Events, IsDirect

LEMMA NoneIsApart ==
    None \notin Items /\ None \notin Sockets /\ None \notin Tasks /\ None \notin Messages
BY DeliveryAssumption DEF Items

LEMMA InitIInv == Init => IInv
<1> SUFFICES ASSUME Init PROVE IInv
  OBVIOUS
<1>1. TypeOK
  <2>1. MaxFaults \in Nat /\ 0 \in 0..MaxFaults
    BY DeliveryAssumption
  <2>2. \A e \in Events : 0 <= MaxTries[e]
    BY DeliveryAssumption
  <2>3. 0 \in Nat /\ tries \in [Events -> Nat]
    BY DEF Init
  <2>4. wire \in [Sockets -> Seq(Items)] /\ queue \in Seq(Items)
        /\ polls \in Seq(Tasks) /\ replies \in Seq(Direct)
    BY DEF Init
  <2>5. publish \in [Events -> {"idle", "posting", "done"}]
        /\ server \in [Sockets -> {"new", "accepted", "open", "closing", "gone"}]
    BY DEF Init
  <2>6. \A e \in Events : tries[e] <= MaxTries[e]
    BY <2>2 DEF Init
  <2>7. slot \in Settled \cup {None} /\ registry \in Sockets \cup {None}
        /\ client \in Sockets \cup {None} /\ running \in Items \cup {None}
        /\ lastTask \in Tasks \cup {None} /\ requests \subseteq Tasks
    BY DEF Init
  <2>8. clearing \in BOOLEAN /\ caughtUp \in BOOLEAN /\ faults \in 0..MaxFaults
        /\ body \in {"up", "crashed", "halting", "halted"}
    BY <2>1 DEF Init
  <2>9. said \subseteq Direct /\ lostAt \subseteq Direct /\ answered \subseteq Direct
        /\ complete \subseteq ran /\ ran \subseteq Settled /\ buried \subseteq Tasks
    BY DEF Init
  <2>10. QED
    BY <2>3, <2>4, <2>5, <2>6, <2>7, <2>8, <2>9 DEF TypeOK
<1>2. Flow /\ Down
  BY NoneIsApart DEF Init, Flow, Down
<1>3. Polled /\ Replied /\ PollTakesOnce /\ AnsweredOnce
  BY DEF Init, Polled, Replied, PollTakesOnce, AnsweredOnce, IsInjective
<1>4. QED
  BY <1>1, <1>2, <1>3 DEF IInv

\* An action that neither posts, settles nor buries a task keeps what is settled.
LEMMA SettledKept ==
    ASSUME UNCHANGED <<tries, requests, buried>>
    PROVE  Settled' = Settled /\ Arrived' = Arrived
BY DEF Settled, Arrived

\* When more is settled, what had arrived still has.
LEMMA MoreSettled ==
    ASSUME IInv, Settled \subseteq Settled', UNCHANGED buried
    PROVE  /\ Arrived \subseteq Arrived' /\ buried' \subseteq Settled'
           /\ queue \in Seq(Arrived') /\ wire \in [Sockets -> Seq(Arrived')]
           /\ running \in Arrived' \cup {None} /\ slot \in Arrived' \cup {None}
           /\ polls \in Seq(Settled') /\ lastTask \in Settled' \cup {None}
           /\ slot \in Settled' \cup {None} /\ ran \subseteq Settled'
<1>1. Arrived \subseteq Arrived'
  BY DEF Arrived
<1>2. queue \in Seq(Arrived')
  BY <1>1, SeqMonotonic DEF IInv, Flow
<1>3. ASSUME NEW s \in Sockets PROVE wire[s] \in Seq(Arrived')
  <2>1. wire[s] \in Seq(Arrived)
    BY DEF IInv, Flow
  <2>2. QED
    BY <1>1, <2>1, SeqMonotonic
<1>4. polls \in Seq(Settled')
  BY SeqMonotonic DEF IInv, Polled
<1>5. wire \in [Sockets -> Seq(Arrived')]
  BY <1>3 DEF IInv, Flow
<1>6. QED
  BY <1>1, <1>2, <1>4, <1>5 DEF IInv, Flow, Polled, TypeOK

\* SetToSeqs gives sequences.
LEMMA SeqsOfSet ==
    ASSUME NEW S, IsFiniteSet(S), NEW f \in SetToSeqs(S)
    PROVE  f \in Seq(S)
<1>1. f \in [1..Cardinality(S) -> S]
  BY DEF SetToSeqs
<1>2. Cardinality(S) \in Nat
  BY FS_CardinalityType
<1>3. QED
  BY <1>1, <1>2, SeqDef

\* A push adds what it is given to at most one wire, and to none of a body
\* without a socket.
LEMMA PushAdds ==
    ASSUME NEW S, NEW i \in S, wire \in [Sockets -> Seq(S)],
           registry \in Sockets \cup {None}, Push(i)
    PROVE  /\ wire' \in [Sockets -> Seq(S)]
           /\ client = None => wire' = wire
<1>1. CASE registry # None /\ server[registry] = "open"
  <2>1. registry \in Sockets
    BY <1>1
  <2>2. wire[registry] \in Seq(S)
    BY <2>1
  <2>3. Append(wire[registry], i) \in Seq(S)
    BY <2>2
  <2>4. wire' = [wire EXCEPT ![registry] = IF registry = client
                                           THEN Append(@, i) ELSE @]
    BY <1>1 DEF Push
  <2>5. QED
    BY <1>1, <2>1, <2>2, <2>3, <2>4
<1>2. CASE ~(registry # None /\ server[registry] = "open")
  BY <1>2 DEF Push
<1>3. QED
  BY <1>1, <1>2

LEMMA FindCompleteStep ==
    ASSUME IInv, FindComplete
    PROVE  IInv'
<1> USE DEF IInv, FindComplete, gatewayVars, commsVars, bodyVars
<1>0. Settled' = Settled /\ Arrived' = Arrived
  BY SettledKept
<1>TypeOK. TypeOK'
  BY NoneIsApart, DeliveryAssumption, <1>0 DEF TypeOK, Flow
<1>Flow. Flow'
  BY NoneIsApart, DeliveryAssumption, <1>0 DEF Flow, TypeOK
<1>Down. Down'
  BY NoneIsApart, DeliveryAssumption, <1>0 DEF Down, TypeOK, Flow
<1>Polled. Polled'
  BY NoneIsApart, DeliveryAssumption, <1>0 DEF Polled, TypeOK, Flow
<1>Replied. Replied'
  BY NoneIsApart, DeliveryAssumption, <1>0 DEF Replied, TypeOK
<1>PollTakesOnce. PollTakesOnce'
  BY NoneIsApart, DeliveryAssumption, <1>0 DEF PollTakesOnce, IsInjective, TypeOK
<1>AnsweredOnce. AnsweredOnce'
  BY NoneIsApart, DeliveryAssumption, <1>0 DEF AnsweredOnce, IsInjective, TypeOK
<1>q. QED
  BY <1>TypeOK, <1>Flow, <1>Down, <1>Polled, <1>Replied, <1>PollTakesOnce, <1>AnsweredOnce

\* The file is cleared, whatever task is in it by then.
LEMMA ClearTaskStep ==
    ASSUME IInv, ClearTask
    PROVE  IInv'
<1> USE DEF IInv, ClearTask, gatewayVars, commsVars, bodyVars
<1>0. Settled' = Settled /\ Arrived' = Arrived
  BY SettledKept
<1>TypeOK. TypeOK'
  BY NoneIsApart, DeliveryAssumption, <1>0 DEF TypeOK, Flow
<1>Flow. Flow'
  BY NoneIsApart, DeliveryAssumption, <1>0 DEF Flow, TypeOK
<1>Down. Down'
  BY NoneIsApart, DeliveryAssumption, <1>0 DEF Down, TypeOK, Flow
<1>Polled. Polled'
  BY NoneIsApart, DeliveryAssumption, <1>0 DEF Polled, TypeOK, Flow
<1>Replied. Replied'
  BY NoneIsApart, DeliveryAssumption, <1>0 DEF Replied, TypeOK
<1>PollTakesOnce. PollTakesOnce'
  BY NoneIsApart, DeliveryAssumption, <1>0 DEF PollTakesOnce, IsInjective, TypeOK
<1>AnsweredOnce. AnsweredOnce'
  BY NoneIsApart, DeliveryAssumption, <1>0 DEF AnsweredOnce, IsInjective, TypeOK
<1>q. QED
  BY <1>TypeOK, <1>Flow, <1>Down, <1>Polled, <1>Replied, <1>PollTakesOnce, <1>AnsweredOnce

LEMMA HaltBodyStep ==
    ASSUME IInv, HaltBody
    PROVE  IInv'
<1> USE DEF IInv, HaltBody, gatewayVars, commsVars, bodyVars, Forget
<1>0. Settled' = Settled /\ Arrived' = Arrived
  BY SettledKept
<1>f. <<>> \in Seq(Arrived) /\ <<>> \in Seq(Settled) /\ <<>> \in Seq(Items)
      /\ <<>> \in Seq(Tasks) /\ <<>> \in Seq(Direct)
  OBVIOUS
<1>g. wire' \in [Sockets -> Seq(Arrived)] /\ wire' \in [Sockets -> Seq(Items)]
  BY <1>f
<1>m. faults' \in 0..MaxFaults
  BY DeliveryAssumption DEF TypeOK, Fault
<1>TypeOK. TypeOK'
  <2>1. client' = None /\ queue' = <<>> /\ running' = None /\ lastTask' = None
        /\ answered' = {} /\ polls' = <<>> /\ replies' = <<>> /\ caughtUp' = FALSE
        /\ lostAt' = Direct
    BY DEF Forget
  <2>2. UNCHANGED <<publish, tries, clearing, requests, said, slot, registry, server,
                    complete, ran, buried>>
    BY DEF Forget
  <2>3. body' \in {"up", "crashed", "halting", "halted"}
    OBVIOUS
  <2>4. QED
    BY <1>0, <1>f, <1>g, <1>m, <2>1, <2>2, <2>3 DEF TypeOK
<1>Flow. Flow'
  BY NoneIsApart, DeliveryAssumption, <1>0, <1>f, <1>g DEF Flow, TypeOK
<1>Down. Down'
  BY NoneIsApart, DeliveryAssumption, <1>0, <1>f, <1>g DEF Down, TypeOK, Flow
<1>Polled. Polled'
  BY NoneIsApart, DeliveryAssumption, <1>0, <1>f, <1>g DEF Polled, TypeOK, Flow
<1>Replied. Replied'
  BY NoneIsApart, DeliveryAssumption, <1>0, <1>f, <1>g DEF Replied, TypeOK
<1>PollTakesOnce. PollTakesOnce'
  BY NoneIsApart, DeliveryAssumption, <1>0, <1>f, <1>g DEF PollTakesOnce, IsInjective,
     TypeOK
<1>AnsweredOnce. AnsweredOnce'
  BY NoneIsApart, DeliveryAssumption, <1>0, <1>f, <1>g DEF AnsweredOnce, IsInjective,
     TypeOK
<1>q. QED
  BY <1>TypeOK, <1>Flow, <1>Down, <1>Polled, <1>Replied, <1>PollTakesOnce, <1>AnsweredOnce

LEMMA CrashStep ==
    ASSUME IInv, Crash
    PROVE  IInv'
<1> USE DEF IInv, Crash, gatewayVars, commsVars, bodyVars, Forget
<1>0. Settled' = Settled /\ Arrived' = Arrived
  BY SettledKept
<1>f. <<>> \in Seq(Arrived) /\ <<>> \in Seq(Settled) /\ <<>> \in Seq(Items)
      /\ <<>> \in Seq(Tasks) /\ <<>> \in Seq(Direct)
  OBVIOUS
<1>g. wire' \in [Sockets -> Seq(Arrived)] /\ wire' \in [Sockets -> Seq(Items)]
  BY <1>f
<1>m. faults' \in 0..MaxFaults
  BY DeliveryAssumption DEF TypeOK, Fault
<1>TypeOK. TypeOK'
  <2>1. client' = None /\ queue' = <<>> /\ running' = None /\ lastTask' = None
        /\ answered' = {} /\ polls' = <<>> /\ replies' = <<>> /\ caughtUp' = FALSE
        /\ lostAt' = Direct
    BY DEF Forget
  <2>2. UNCHANGED <<publish, tries, clearing, requests, said, slot, registry, server,
                    complete, ran, buried>>
    BY DEF Forget
  <2>3. body' \in {"up", "crashed", "halting", "halted"}
    OBVIOUS
  <2>4. QED
    BY <1>0, <1>f, <1>g, <1>m, <2>1, <2>2, <2>3 DEF TypeOK
<1>Flow. Flow'
  BY NoneIsApart, DeliveryAssumption, <1>0, <1>f, <1>g DEF Flow, TypeOK
<1>Down. Down'
  BY NoneIsApart, DeliveryAssumption, <1>0, <1>f, <1>g DEF Down, TypeOK, Flow
<1>Polled. Polled'
  BY NoneIsApart, DeliveryAssumption, <1>0, <1>f, <1>g DEF Polled, TypeOK, Flow
<1>Replied. Replied'
  BY NoneIsApart, DeliveryAssumption, <1>0, <1>f, <1>g DEF Replied, TypeOK
<1>PollTakesOnce. PollTakesOnce'
  BY NoneIsApart, DeliveryAssumption, <1>0, <1>f, <1>g DEF PollTakesOnce, IsInjective,
     TypeOK
<1>AnsweredOnce. AnsweredOnce'
  BY NoneIsApart, DeliveryAssumption, <1>0, <1>f, <1>g DEF AnsweredOnce, IsInjective,
     TypeOK
<1>q. QED
  BY <1>TypeOK, <1>Flow, <1>Down, <1>Polled, <1>Replied, <1>PollTakesOnce, <1>AnsweredOnce

LEMMA StartStep ==
    ASSUME IInv, Start
    PROVE  IInv'
<1> USE DEF IInv, Start, gatewayVars, commsVars, bodyVars
<1>0. Settled' = Settled /\ Arrived' = Arrived
  BY SettledKept
<1>TypeOK. TypeOK'
  BY NoneIsApart, DeliveryAssumption, <1>0 DEF TypeOK, Flow
<1>Flow. Flow'
  BY NoneIsApart, DeliveryAssumption, <1>0 DEF Flow, TypeOK
<1>Down. Down'
  BY NoneIsApart, DeliveryAssumption, <1>0 DEF Down, TypeOK, Flow
<1>Polled. Polled'
  BY NoneIsApart, DeliveryAssumption, <1>0 DEF Polled, TypeOK, Flow
<1>Replied. Replied'
  BY NoneIsApart, DeliveryAssumption, <1>0 DEF Replied, TypeOK
<1>PollTakesOnce. PollTakesOnce'
  BY NoneIsApart, DeliveryAssumption, <1>0 DEF PollTakesOnce, IsInjective, TypeOK
<1>AnsweredOnce. AnsweredOnce'
  BY NoneIsApart, DeliveryAssumption, <1>0 DEF AnsweredOnce, IsInjective, TypeOK
<1>q. QED
  BY <1>TypeOK, <1>Flow, <1>Down, <1>Polled, <1>Replied, <1>PollTakesOnce, <1>AnsweredOnce

LEMMA SayStep ==
    ASSUME IInv, NEW e \in Direct, Say(e)
    PROVE  IInv'
<1> USE DEF IInv, Say, gatewayVars, commsVars, bodyVars
<1>0. Settled' = Settled /\ Arrived' = Arrived
  BY SettledKept
<1>i. <<e, 0>> \in Items /\ <<e, 0>> \in Arrived
  BY ItemForms DEF Items, Arrived, Flow, Settled
<1>p. wire' \in [Sockets -> Seq(Arrived)] /\ wire' \in [Sockets -> Seq(Items)]
      /\ (client = None => wire' = wire)
  BY <1>i, PushAdds DEF TypeOK, Flow
<1>TypeOK. TypeOK'
  BY NoneIsApart, DeliveryAssumption, <1>0, <1>p DEF TypeOK, Flow
<1>Flow. Flow'
  BY NoneIsApart, DeliveryAssumption, <1>0, <1>p DEF Flow, TypeOK
<1>Down. Down'
  BY NoneIsApart, DeliveryAssumption, <1>0, <1>p DEF Down, TypeOK, Flow
<1>Polled. Polled'
  BY NoneIsApart, DeliveryAssumption, <1>0, <1>p DEF Polled, TypeOK, Flow
<1>Replied. Replied'
  BY NoneIsApart, DeliveryAssumption, <1>0, <1>p DEF Replied, TypeOK
<1>PollTakesOnce. PollTakesOnce'
  BY NoneIsApart, DeliveryAssumption, <1>0, <1>p DEF PollTakesOnce, IsInjective, TypeOK
<1>AnsweredOnce. AnsweredOnce'
  BY NoneIsApart, DeliveryAssumption, <1>0, <1>p DEF AnsweredOnce, IsInjective, TypeOK
<1>q. QED
  BY <1>TypeOK, <1>Flow, <1>Down, <1>Polled, <1>Replied, <1>PollTakesOnce, <1>AnsweredOnce

LEMMA RegisterStep ==
    ASSUME IInv, NEW s \in Sockets, Register(s)
    PROVE  IInv'
<1> USE DEF IInv, Register, gatewayVars, commsVars, bodyVars
<1>0. Settled' = Settled /\ Arrived' = Arrived
  BY SettledKept
<1>TypeOK. TypeOK'
  BY NoneIsApart, DeliveryAssumption, <1>0 DEF TypeOK, Flow
<1>Flow. Flow'
  BY NoneIsApart, DeliveryAssumption, <1>0 DEF Flow, TypeOK
<1>Down. Down'
  BY NoneIsApart, DeliveryAssumption, <1>0 DEF Down, TypeOK, Flow
<1>Polled. Polled'
  BY NoneIsApart, DeliveryAssumption, <1>0 DEF Polled, TypeOK, Flow
<1>Replied. Replied'
  BY NoneIsApart, DeliveryAssumption, <1>0 DEF Replied, TypeOK
<1>PollTakesOnce. PollTakesOnce'
  BY NoneIsApart, DeliveryAssumption, <1>0 DEF PollTakesOnce, IsInjective, TypeOK
<1>AnsweredOnce. AnsweredOnce'
  BY NoneIsApart, DeliveryAssumption, <1>0 DEF AnsweredOnce, IsInjective, TypeOK
<1>q. QED
  BY <1>TypeOK, <1>Flow, <1>Down, <1>Polled, <1>Replied, <1>PollTakesOnce, <1>AnsweredOnce

LEMMA EndSocketStep ==
    ASSUME IInv, NEW s \in Sockets, EndSocket(s)
    PROVE  IInv'
<1> USE DEF IInv, EndSocket, gatewayVars, commsVars, bodyVars, Unregister
<1>0. Settled' = Settled /\ Arrived' = Arrived
  BY SettledKept
<1>TypeOK. TypeOK'
  BY NoneIsApart, DeliveryAssumption, <1>0 DEF TypeOK, Flow
<1>Flow. Flow'
  BY NoneIsApart, DeliveryAssumption, <1>0 DEF Flow, TypeOK
<1>Down. Down'
  BY NoneIsApart, DeliveryAssumption, <1>0 DEF Down, TypeOK, Flow
<1>Polled. Polled'
  BY NoneIsApart, DeliveryAssumption, <1>0 DEF Polled, TypeOK, Flow
<1>Replied. Replied'
  BY NoneIsApart, DeliveryAssumption, <1>0 DEF Replied, TypeOK
<1>PollTakesOnce. PollTakesOnce'
  BY NoneIsApart, DeliveryAssumption, <1>0 DEF PollTakesOnce, IsInjective, TypeOK
<1>AnsweredOnce. AnsweredOnce'
  BY NoneIsApart, DeliveryAssumption, <1>0 DEF AnsweredOnce, IsInjective, TypeOK
<1>q. QED
  BY <1>TypeOK, <1>Flow, <1>Down, <1>Polled, <1>Replied, <1>PollTakesOnce, <1>AnsweredOnce

LEMMA CommsRestartsStep ==
    ASSUME IInv, CommsRestarts
    PROVE  IInv'
<1> USE DEF IInv, CommsRestarts, gatewayVars, commsVars, bodyVars, Fault
<1>0. Settled' = Settled /\ Arrived' = Arrived
  BY SettledKept
<1>TypeOK. TypeOK'
  BY NoneIsApart, DeliveryAssumption, <1>0 DEF TypeOK, Flow
<1>Flow. Flow'
  BY NoneIsApart, DeliveryAssumption, <1>0 DEF Flow, TypeOK
<1>Down. Down'
  BY NoneIsApart, DeliveryAssumption, <1>0 DEF Down, TypeOK, Flow
<1>Polled. Polled'
  BY NoneIsApart, DeliveryAssumption, <1>0 DEF Polled, TypeOK, Flow
<1>Replied. Replied'
  BY NoneIsApart, DeliveryAssumption, <1>0 DEF Replied, TypeOK
<1>PollTakesOnce. PollTakesOnce'
  BY NoneIsApart, DeliveryAssumption, <1>0 DEF PollTakesOnce, IsInjective, TypeOK
<1>AnsweredOnce. AnsweredOnce'
  BY NoneIsApart, DeliveryAssumption, <1>0 DEF AnsweredOnce, IsInjective, TypeOK
<1>q. QED
  BY <1>TypeOK, <1>Flow, <1>Down, <1>Polled, <1>Replied, <1>PollTakesOnce, <1>AnsweredOnce

LEMMA ConnectStep ==
    ASSUME IInv, NEW s \in Sockets, Connect(s)
    PROVE  IInv'
<1> USE DEF IInv, Connect, gatewayVars, commsVars, bodyVars
<1>0. Settled' = Settled /\ Arrived' = Arrived
  BY SettledKept
<1>TypeOK. TypeOK'
  BY NoneIsApart, DeliveryAssumption, <1>0 DEF TypeOK, Flow
<1>Flow. Flow'
  BY NoneIsApart, DeliveryAssumption, <1>0 DEF Flow, TypeOK
<1>Down. Down'
  BY NoneIsApart, DeliveryAssumption, <1>0 DEF Down, TypeOK, Flow
<1>Polled. Polled'
  BY NoneIsApart, DeliveryAssumption, <1>0 DEF Polled, TypeOK, Flow
<1>Replied. Replied'
  BY NoneIsApart, DeliveryAssumption, <1>0 DEF Replied, TypeOK
<1>PollTakesOnce. PollTakesOnce'
  BY NoneIsApart, DeliveryAssumption, <1>0 DEF PollTakesOnce, IsInjective, TypeOK
<1>AnsweredOnce. AnsweredOnce'
  BY NoneIsApart, DeliveryAssumption, <1>0 DEF AnsweredOnce, IsInjective, TypeOK
<1>q. QED
  BY <1>TypeOK, <1>Flow, <1>Down, <1>Polled, <1>Replied, <1>PollTakesOnce, <1>AnsweredOnce

LEMMA CatchUpStep ==
    ASSUME IInv, CatchUp
    PROVE  IInv'
<1> USE DEF IInv, CatchUp, gatewayVars, commsVars, bodyVars
<1>0. Settled' = Settled /\ Arrived' = Arrived
  BY SettledKept
<1>a. said \ lostAt \subseteq Direct /\ IsFiniteSet(said \ lostAt)
  BY DeliveryAssumption, FS_Subset DEF TypeOK
<1>b. IsFiniteSet((said \ lostAt) \X {0}) /\ (said \ lostAt) \X {0} \subseteq Arrived
      /\ (said \ lostAt) \X {0} \subseteq Items
  <2>1. IsFiniteSet((said \ lostAt) \X {0})
    BY <1>a, FS_Product, FS_Singleton
  <2>2. (said \ lostAt) \X {0} \subseteq Messages
    BY <1>a DEF Messages
  <2>3. QED
    BY <2>1, <2>2, ItemForms DEF Flow, Settled, Arrived, Items
<1>c. \A missed \in SetToSeqs((said \ lostAt) \X {0}) : missed \in Seq(Arrived)
  <2> SUFFICES ASSUME NEW missed \in SetToSeqs((said \ lostAt) \X {0})
               PROVE  missed \in Seq(Arrived)
    OBVIOUS
  <2> DEFINE missing == (said \ lostAt) \X {0}
  <2>1. IsFiniteSet(missing) /\ missed \in SetToSeqs(missing)
    BY <1>b
  <2> HIDE DEF missing
  <2>2. missed \in Seq(missing)
    BY <2>1, SeqsOfSet
  <2>3. missing \subseteq Arrived
    BY <1>b DEF missing
  <2>4. QED
    BY <2>2, <2>3, SeqMonotonic
<1>d. FileTask \in Seq(Arrived)
  BY DEF FileTask, Flow
<1>e. queue' \in Seq(Arrived)
  <2>1. queue \in Seq(Arrived)
    BY DEF Flow
  <2>2. queue \o FileTask \in Seq(Arrived)
    BY <1>d, <2>1, ConcatProperties
  <2>3. \A missed \in SetToSeqs((said \ lostAt) \X {0}) :
           (queue \o FileTask) \o missed \in Seq(Arrived)
    BY <1>c, <2>2, ConcatProperties
  <2>4. QED
    BY <2>2, <2>3
<1>h. Arrived \subseteq Items
  BY DEF Arrived, Settled, Items
<1>k. queue' \in Seq(Items)
  BY <1>e, <1>h, SeqMonotonic
<1>m. faults' \in 0..MaxFaults
  BY DeliveryAssumption DEF TypeOK, Fault
<1>TypeOK. TypeOK'
  BY NoneIsApart, DeliveryAssumption, <1>0, <1>e, <1>k, <1>m DEF TypeOK, Flow
<1>Flow. Flow'
  BY NoneIsApart, DeliveryAssumption, <1>0, <1>e, <1>k, <1>m DEF Flow, TypeOK
<1>Down. Down'
  BY NoneIsApart, DeliveryAssumption, <1>0, <1>e, <1>k, <1>m DEF Down, TypeOK, Flow
<1>Polled. Polled'
  BY NoneIsApart, DeliveryAssumption, <1>0, <1>e, <1>k, <1>m DEF Polled, TypeOK, Flow
<1>Replied. Replied'
  BY NoneIsApart, DeliveryAssumption, <1>0, <1>e, <1>k, <1>m DEF Replied, TypeOK
<1>PollTakesOnce. PollTakesOnce'
  BY NoneIsApart, DeliveryAssumption, <1>0, <1>e, <1>k, <1>m DEF PollTakesOnce,
     IsInjective, TypeOK
<1>AnsweredOnce. AnsweredOnce'
  BY NoneIsApart, DeliveryAssumption, <1>0, <1>e, <1>k, <1>m DEF AnsweredOnce,
     IsInjective, TypeOK
<1>q. QED
  BY <1>TypeOK, <1>Flow, <1>Down, <1>Polled, <1>Replied, <1>PollTakesOnce, <1>AnsweredOnce

LEMMA ReceiveStep ==
    ASSUME IInv, Receive
    PROVE  IInv'
<1> USE DEF IInv, Receive, gatewayVars, commsVars, bodyVars
<1>0. Settled' = Settled /\ Arrived' = Arrived
  BY SettledKept
<1>a. client \in Sockets /\ wire[client] \in Seq(Arrived) /\ wire[client] \in Seq(Items)
  BY DEF TypeOK, Flow
<1>b. Head(wire[client]) \in Arrived /\ Head(wire[client]) \in Items
      /\ Tail(wire[client]) \in Seq(Arrived) /\ Tail(wire[client]) \in Seq(Items)
  BY <1>a
<1>c. queue' \in Seq(Arrived) /\ queue' \in Seq(Items)
  BY <1>b DEF TypeOK, Flow
<1>d. wire' \in [Sockets -> Seq(Arrived)] /\ wire' \in [Sockets -> Seq(Items)]
  BY <1>a, <1>b DEF TypeOK, Flow
<1>TypeOK. TypeOK'
  BY NoneIsApart, DeliveryAssumption, <1>0, <1>a, <1>c, <1>d DEF TypeOK, Flow
<1>Flow. Flow'
  BY NoneIsApart, DeliveryAssumption, <1>0, <1>a, <1>c, <1>d DEF Flow, TypeOK
<1>Down. Down'
  BY NoneIsApart, DeliveryAssumption, <1>0, <1>a, <1>c, <1>d DEF Down, TypeOK, Flow
<1>Polled. Polled'
  BY NoneIsApart, DeliveryAssumption, <1>0, <1>a, <1>c, <1>d DEF Polled, TypeOK, Flow
<1>Replied. Replied'
  BY NoneIsApart, DeliveryAssumption, <1>0, <1>a, <1>c, <1>d DEF Replied, TypeOK
<1>PollTakesOnce. PollTakesOnce'
  BY NoneIsApart, DeliveryAssumption, <1>0, <1>a, <1>c, <1>d DEF PollTakesOnce,
     IsInjective, TypeOK
<1>AnsweredOnce. AnsweredOnce'
  BY NoneIsApart, DeliveryAssumption, <1>0, <1>a, <1>c, <1>d DEF AnsweredOnce,
     IsInjective, TypeOK
<1>q. QED
  BY <1>TypeOK, <1>Flow, <1>Down, <1>Polled, <1>Replied, <1>PollTakesOnce, <1>AnsweredOnce

LEMMA DisconnectStep ==
    ASSUME IInv, Disconnect
    PROVE  IInv'
<1> USE DEF IInv, Disconnect, gatewayVars, commsVars, bodyVars
<1>0. Settled' = Settled /\ Arrived' = Arrived
  BY SettledKept
<1>a. client \in Sockets
  BY DEF TypeOK
<1>d. wire' \in [Sockets -> Seq(Arrived)] /\ wire' \in [Sockets -> Seq(Items)]
  BY <1>a DEF TypeOK, Flow
<1>m. faults' \in 0..MaxFaults
  BY DeliveryAssumption DEF TypeOK, Fault
<1>TypeOK. TypeOK'
  BY NoneIsApart, DeliveryAssumption, <1>0, <1>a, <1>d, <1>m DEF TypeOK, Flow
<1>Flow. Flow'
  BY NoneIsApart, DeliveryAssumption, <1>0, <1>a, <1>d, <1>m DEF Flow, TypeOK
<1>Down. Down'
  BY NoneIsApart, DeliveryAssumption, <1>0, <1>a, <1>d, <1>m DEF Down, TypeOK, Flow
<1>Polled. Polled'
  BY NoneIsApart, DeliveryAssumption, <1>0, <1>a, <1>d, <1>m DEF Polled, TypeOK, Flow
<1>Replied. Replied'
  BY NoneIsApart, DeliveryAssumption, <1>0, <1>a, <1>d, <1>m DEF Replied, TypeOK
<1>PollTakesOnce. PollTakesOnce'
  BY NoneIsApart, DeliveryAssumption, <1>0, <1>a, <1>d, <1>m DEF PollTakesOnce,
     IsInjective, TypeOK
<1>AnsweredOnce. AnsweredOnce'
  BY NoneIsApart, DeliveryAssumption, <1>0, <1>a, <1>d, <1>m DEF AnsweredOnce,
     IsInjective, TypeOK
<1>q. QED
  BY <1>TypeOK, <1>Flow, <1>Down, <1>Polled, <1>Replied, <1>PollTakesOnce, <1>AnsweredOnce

\* The main loop takes what is queued; a direct message it knows it leaves.
LEMMA TakeStep ==
    ASSUME IInv, Take
    PROVE  IInv'
<1> USE DEF IInv, Take, gatewayVars, commsVars, bodyVars
<1>0. Settled' = Settled /\ Arrived' = Arrived
  BY SettledKept
<1>a. Head(queue) \in Arrived /\ Head(queue) \in Items
      /\ Tail(queue) \in Seq(Arrived) /\ Tail(queue) \in Seq(Items)
  BY DEF TypeOK, Flow
<1> DEFINE i == Head(queue)
<1>b. CASE ~IsDirect(i)
  <2>1. i \in Tasks /\ i \in Settled
    BY <1>a, <1>b, ItemForms DEF Arrived, Items
  <2>2. running' = i /\ ran' = ran \cup {i} /\ UNCHANGED <<answered, replies>>
    BY <1>b DEF Run
  <2>3. TypeOK'
    BY <1>0, <1>a, <2>1, <2>2 DEF TypeOK
  <2>4. Flow' /\ Down' /\ Polled'
    BY <1>0, <1>a, <2>2 DEF Flow, Down, Polled
  <2>5. Replied' /\ PollTakesOnce' /\ AnsweredOnce'
    BY <2>2 DEF Replied, PollTakesOnce, AnsweredOnce
  <2>6. QED
    BY <2>3, <2>4, <2>5
<1>c. CASE IsDirect(i)
  <2>1. i[1] \in Direct /\ <<i[1], 0>> \in Arrived /\ <<i[1], 0>> \in Items
        /\ <<i[1], 0>> \notin Tasks
    BY <1>c, ItemForms DEF IsDirect, Arrived, Items, Flow, Settled
  <2>2. CASE i[1] \in answered
    <3>1. UNCHANGED <<running, ran, answered, replies>>
      BY <1>c, <2>2 DEF Answer, Known
    <3>2. TypeOK'
      BY <1>0, <1>a, <3>1 DEF TypeOK
    <3>3. Flow' /\ Down' /\ Polled'
      BY <1>0, <1>a, <3>1 DEF Flow, Down, Polled
    <3>4. Replied' /\ PollTakesOnce' /\ AnsweredOnce'
      BY <3>1 DEF Replied, PollTakesOnce, AnsweredOnce
    <3>5. QED
      BY <3>2, <3>3, <3>4
  <2>3. CASE i[1] \notin answered
    <3>1. /\ running' = <<i[1], 0>> /\ ran' = ran
          /\ answered' = answered \cup {i[1]} /\ replies' = Append(replies, i[1])
      BY <1>c, <2>3 DEF Answer, Known
    <3>2. TypeOK'
      BY <1>0, <1>a, <2>1, <3>1 DEF TypeOK
    <3>3. Flow' /\ Down' /\ Polled'
      BY <1>0, <1>a, <2>1, <3>1 DEF Flow, Down, Polled
    <3>4. Replied' /\ AnsweredOnce'
      <4>1. replies \in Seq(Direct) /\ \A k \in DOMAIN replies : replies[k] # i[1]
        BY <2>3 DEF TypeOK, Replied
      <4>2. /\ DOMAIN replies' = 1..Len(replies)+1 /\ DOMAIN replies = 1..Len(replies)
            /\ Len(replies) \in Nat
            /\ \A k \in DOMAIN replies : replies'[k] = replies[k]
            /\ replies'[Len(replies)+1] = i[1]
        BY <3>1, <4>1
      <4>3. QED
        BY <3>1, <4>1, <4>2 DEF Replied, AnsweredOnce, IsInjective
    <3>5. PollTakesOnce'
      BY DEF PollTakesOnce
    <3>6. QED
      BY <3>2, <3>3, <3>4, <3>5
  <2>4. QED
    BY <2>2, <2>3
<1>q. QED
  BY <1>b, <1>c

\* What the poll takes is not what it took last, and no earlier task is in the
\* file again.
LEMMA PollStep ==
    ASSUME IInv, Poll
    PROVE  IInv'
<1> USE DEF IInv, Poll, gatewayVars, commsVars, bodyVars
<1>0. Settled' = Settled /\ Arrived' = Arrived
  BY SettledKept
<1>a. slot \in Tasks /\ slot \in Settled /\ slot \in Arrived /\ slot # lastTask
  BY DEF TypeOK, Flow, Settled
<1>b. CASE IsDirect(slot)
  <2>1. lastTask' = slot /\ UNCHANGED <<running, ran, answered, replies, polls>>
    BY <1>b DEF Remember
  <2>2. TypeOK'
    BY <1>0, <1>a, <2>1 DEF TypeOK
  <2>3. Flow' /\ Down' /\ Polled'
    BY <1>0, <1>a, <2>1 DEF Flow, Down, Polled
  <2>4. Replied' /\ PollTakesOnce' /\ AnsweredOnce'
    BY <2>1 DEF Replied, PollTakesOnce, AnsweredOnce
  <2>5. QED
    BY <2>2, <2>3, <2>4
<1>c. CASE ~IsDirect(slot)
  <2>1. /\ lastTask' = slot /\ running' = slot /\ ran' = ran \cup {slot}
        /\ polls' = Append(polls, slot) /\ UNCHANGED <<answered, replies>>
    BY <1>c DEF Remember, Run
  <2>2. polls \in Seq(Settled) /\ polls \in Seq(Tasks)
        /\ \A k \in DOMAIN polls : polls[k] # slot
    BY <1>a DEF Polled, TypeOK
  <2>3. polls' \in Seq(Settled) /\ polls' \in Seq(Tasks)
    BY <1>a, <2>1, <2>2
  <2>4. /\ DOMAIN polls' = 1..Len(polls)+1 /\ DOMAIN polls = 1..Len(polls)
        /\ Len(polls) \in Nat
        /\ \A k \in DOMAIN polls : polls'[k] = polls[k]
        /\ polls'[Len(polls)+1] = slot
    BY <2>1, <2>2
  <2>5. TypeOK'
    BY <1>0, <1>a, <2>1, <2>3, ItemForms DEF TypeOK, Items
  <2>6. Flow' /\ Down'
    BY <1>0, <1>a, <2>1 DEF Flow, Down
  <2>7. Polled' /\ PollTakesOnce'
    <3>1. Polled'
      BY <1>0, <1>a, <2>1, <2>3 DEF Polled
    <3>2. \A a, b \in DOMAIN polls : polls[a] = polls[b] => a = b
      BY DEF PollTakesOnce, IsInjective
    <3>3. \A k \in DOMAIN polls' : k \in DOMAIN polls \/ k = Len(polls)+1
      BY <2>4
    <3>4. \A a, b \in DOMAIN polls' : polls'[a] = polls'[b] => a = b
      BY <2>2, <2>4, <3>2, <3>3
    <3>5. QED
      BY <3>1, <3>4 DEF PollTakesOnce, IsInjective
  <2>8. Replied' /\ AnsweredOnce'
    BY <2>1 DEF Replied, AnsweredOnce
  <2>9. QED
    BY <2>5, <2>6, <2>7, <2>8
<1>q. QED
  BY <1>b, <1>c

LEMMA DrainStep ==
    ASSUME IInv, Drain
    PROVE  IInv'
<1> USE DEF IInv, Drain, gatewayVars, commsVars, bodyVars
<1>0. Settled' = Settled /\ Arrived' = Arrived
  BY SettledKept
<1>a. <<>> \in Seq(Arrived) /\ <<>> \in Seq(Items)
  OBVIOUS
<1>TypeOK. TypeOK'
  BY NoneIsApart, DeliveryAssumption, <1>0, <1>a DEF TypeOK, Flow
<1>Flow. Flow'
  BY NoneIsApart, DeliveryAssumption, <1>0, <1>a DEF Flow, TypeOK
<1>Down. Down'
  BY NoneIsApart, DeliveryAssumption, <1>0, <1>a DEF Down, TypeOK, Flow
<1>Polled. Polled'
  BY NoneIsApart, DeliveryAssumption, <1>0, <1>a DEF Polled, TypeOK, Flow
<1>Replied. Replied'
  BY NoneIsApart, DeliveryAssumption, <1>0, <1>a DEF Replied, TypeOK
<1>PollTakesOnce. PollTakesOnce'
  BY NoneIsApart, DeliveryAssumption, <1>0, <1>a DEF PollTakesOnce, IsInjective, TypeOK
<1>AnsweredOnce. AnsweredOnce'
  BY NoneIsApart, DeliveryAssumption, <1>0, <1>a DEF AnsweredOnce, IsInjective, TypeOK
<1>q. QED
  BY <1>TypeOK, <1>Flow, <1>Down, <1>Polled, <1>Replied, <1>PollTakesOnce, <1>AnsweredOnce

LEMMA FinishStep ==
    ASSUME IInv, Finish
    PROVE  IInv'
<1> USE DEF IInv, Finish, gatewayVars, commsVars, bodyVars
<1>0. Settled' = Settled /\ Arrived' = Arrived
  BY SettledKept
<1>a. complete' \subseteq ran
  BY DEF TypeOK, Flow
<1>TypeOK. TypeOK'
  BY NoneIsApart, DeliveryAssumption, <1>0, <1>a DEF TypeOK, Flow
<1>Flow. Flow'
  BY NoneIsApart, DeliveryAssumption, <1>0, <1>a DEF Flow, TypeOK
<1>Down. Down'
  BY NoneIsApart, DeliveryAssumption, <1>0, <1>a DEF Down, TypeOK, Flow
<1>Polled. Polled'
  BY NoneIsApart, DeliveryAssumption, <1>0, <1>a DEF Polled, TypeOK, Flow
<1>Replied. Replied'
  BY NoneIsApart, DeliveryAssumption, <1>0, <1>a DEF Replied, TypeOK
<1>PollTakesOnce. PollTakesOnce'
  BY NoneIsApart, DeliveryAssumption, <1>0, <1>a DEF PollTakesOnce, IsInjective, TypeOK
<1>AnsweredOnce. AnsweredOnce'
  BY NoneIsApart, DeliveryAssumption, <1>0, <1>a DEF AnsweredOnce, IsInjective, TypeOK
<1>q. QED
  BY <1>TypeOK, <1>Flow, <1>Down, <1>Polled, <1>Replied, <1>PollTakesOnce, <1>AnsweredOnce

\* The first post of an event: none of its tasks was settled before.
LEMMA PublishStep ==
    ASSUME IInv, NEW e \in Events, Publish(e)
    PROVE  IInv'
<1> USE DEF IInv, Publish, gatewayVars, commsVars, bodyVars
<1>1. <<e, 1>> \in Tasks /\ <<e, 1>>[1] = e /\ <<e, 1>>[2] = 1
  BY ItemForms
<1>2. tries[e] = 0 /\ tries' \in [Events -> Nat] /\ tries'[e] = 1
      /\ \A f \in Events : f # e => tries'[f] = tries[f]
  BY DEF TypeOK, Flow
<1>3. Settled \subseteq Settled'
  <2> SUFFICES ASSUME NEW i \in Settled PROVE i \in Settled'
    OBVIOUS
  <2>1. i \in Tasks /\ i[1] \in Events /\ i[2] \in Nat \ {0} /\ i[2] <= tries[i[1]]
        /\ i \notin requests
    BY ItemForms DEF Settled
  <2>2. i[1] # e
    BY <1>2, <2>1
  <2>3. i \notin requests' /\ i[2] <= tries'[i[1]]
    BY <1>1, <1>2, <2>1, <2>2
  <2>4. QED
    BY <2>1, <2>3 DEF Settled
<1>4. UNCHANGED <<buried, wire, queue, running, slot, polls, lastTask, ran, replies,
                  answered, body, client>>
  OBVIOUS
<1>5. TypeOK'
  <2>1. MaxTries[e] \in Nat \ {0}
    BY DeliveryAssumption
  <2>2. \A f \in Events : tries'[f] <= MaxTries[f]
    BY <1>2, <2>1 DEF TypeOK
  <2>3. publish' \in [Events -> {"idle", "posting", "done"}] /\ requests' \subseteq Tasks
    BY <1>1 DEF TypeOK
  <2>4. QED
    BY <1>2, <1>3, <1>4, <2>2, <2>3, MoreSettled DEF TypeOK
<1>6. Flow'
  <2>1. \A i \in requests' : i[2] <= tries'[i[1]]
    <3> SUFFICES ASSUME NEW i \in requests' PROVE i[2] <= tries'[i[1]]
      OBVIOUS
    <3>1. CASE i = <<e, 1>>
      BY <1>1, <1>2, <3>1
    <3>2. CASE i \in requests
      <4>1. i \in Tasks /\ i[1] \in Events /\ i[2] \in Nat \ {0} /\ i[2] <= tries[i[1]]
        BY <3>2, ItemForms DEF TypeOK, Flow
      <4>2. QED
        BY <1>2, <4>1
    <3>3. QED
      BY <3>1, <3>2
  <2>2. \A f \in Events : publish'[f] = "idle" => tries'[f] = 0
    BY <1>2 DEF TypeOK, Flow
  <2>3. QED
    BY <1>3, <1>4, <2>1, <2>2, MoreSettled DEF Flow
<1>7. Polled'
  BY <1>3, <1>4, MoreSettled DEF Polled
<1>8. Down' /\ Replied' /\ PollTakesOnce' /\ AnsweredOnce'
  BY <1>4 DEF Down, Replied, PollTakesOnce, AnsweredOnce
<1>9. QED
  BY <1>5, <1>6, <1>7, <1>8

\* A post that is repeated has a number no task had; a request that is lost counts
\* as settled.
LEMMA RetryStep ==
    ASSUME IInv, NEW e \in Events, Retry(e)
    PROVE  IInv'
<1> USE DEF IInv, Retry, gatewayVars, commsVars, bodyVars
<1> DEFINE new == <<e, tries[e] + 1>>
<1>1. tries[e] \in Nat /\ MaxTries[e] \in Nat
  BY DeliveryAssumption DEF TypeOK
<1>2. new[1] = e /\ new[2] = tries[e] + 1
  OBVIOUS
<1>3. \/ /\ tries[e] < MaxTries[e] /\ tries' = [tries EXCEPT ![e] = @ + 1]
         /\ requests' \subseteq requests \cup {new} /\ UNCHANGED publish
      \/ /\ UNCHANGED tries /\ requests' \subseteq requests
         /\ publish' = [publish EXCEPT ![e] = "done"]
  OBVIOUS
<1>4. /\ tries' \in [Events -> Nat] /\ requests' \subseteq requests \cup {new}
      /\ new \in requests' => new \in requests \/ tries'[e] = tries[e] + 1
      /\ \A f \in Events : tries[f] <= tries'[f] /\ (f # e => tries'[f] = tries[f])
  BY <1>1, <1>3 DEF TypeOK
<1>5. \A f \in Events : tries'[f] <= MaxTries[f]
  <2>1. tries'[e] <= MaxTries[e]
    BY <1>1, <1>3 DEF TypeOK
  <2>2. QED
    BY <1>4, <2>1 DEF TypeOK
<1>6. Settled \subseteq Settled'
  <2> SUFFICES ASSUME NEW i \in Settled PROVE i \in Settled'
    OBVIOUS
  <2>1. i \in Tasks /\ i[1] \in Events /\ i[2] \in Nat \ {0} /\ i[2] <= tries[i[1]]
        /\ i \notin requests
    BY ItemForms DEF Settled
  <2>2. i # new
    BY <1>1, <1>2, <2>1
  <2>3. i \notin requests'
    BY <1>4, <2>1, <2>2
  <2>4. tries[i[1]] \in Nat /\ tries'[i[1]] \in Nat /\ tries[i[1]] <= tries'[i[1]]
    BY <1>4, <2>1 DEF TypeOK
  <2>5. QED
    BY <2>1, <2>3, <2>4 DEF Settled
<1>7. UNCHANGED <<buried, wire, queue, running, slot, polls, lastTask, ran, replies,
                  answered, body, client>>
  OBVIOUS
<1>8. TypeOK'
  <2>1. faults' \in 0..MaxFaults
    BY DeliveryAssumption DEF TypeOK, Fault
  <2>2. publish' \in [Events -> {"idle", "posting", "done"}]
    BY <1>3 DEF TypeOK
  <2>3. requests' \subseteq Tasks
    <3>1. CASE tries[e] < MaxTries[e]
      <4>1. tries[e] + 1 \in 1..MaxTries[e]
        BY <1>1, <3>1
      <4>2. new \in Tasks
        BY <4>1, ItemForms
      <4>3. QED
        BY <1>4, <4>2 DEF TypeOK
    <3>2. CASE ~(tries[e] < MaxTries[e])
      BY <1>3, <3>2 DEF TypeOK
    <3>3. QED
      BY <3>1, <3>2
  <2>4. QED
    BY <1>4, <1>5, <1>6, <1>7, <2>1, <2>2, <2>3, MoreSettled DEF TypeOK
<1>9. Flow'
  <2>1. \A i \in requests' : i[2] <= tries'[i[1]]
    <3> SUFFICES ASSUME NEW i \in requests' PROVE i[2] <= tries'[i[1]]
      OBVIOUS
    <3>1. CASE i \in requests
      <4>1. i[1] \in Events /\ i[2] \in Nat /\ i[2] <= tries[i[1]]
        BY <3>1, ItemForms DEF TypeOK, Flow
      <4>2. tries[i[1]] \in Nat /\ tries'[i[1]] \in Nat /\ tries[i[1]] <= tries'[i[1]]
        BY <1>4, <4>1 DEF TypeOK
      <4>3. QED
        BY <4>1, <4>2
    <3>2. CASE i \notin requests
      <4>1. i = new /\ tries'[e] = tries[e] + 1
        BY <1>4, <3>2
      <4>2. QED
        BY <1>1, <1>2, <4>1
    <3>3. QED
      BY <3>1, <3>2
  <2>2. \A f \in Events : publish'[f] = "idle" => tries'[f] = 0
    <3>1. publish[e] = "posting"
      OBVIOUS
    <3>2. \A f \in Events : publish'[f] = "idle" => f # e /\ publish[f] = "idle"
      BY <1>3, <3>1 DEF TypeOK
    <3>3. QED
      BY <1>4, <3>2 DEF Flow
  <2>3. QED
    BY <1>6, <1>7, <2>1, <2>2, MoreSettled DEF Flow
<1>10. Polled'
  BY <1>6, <1>7, MoreSettled DEF Polled
<1>11. Down' /\ Replied' /\ PollTakesOnce' /\ AnsweredOnce'
  BY <1>7 DEF Down, Replied, PollTakesOnce, AnsweredOnce
<1>12. QED
  BY <1>8, <1>9, <1>10, <1>11

\* A request that is handled is settled now and was not before, so its task was
\* neither polled nor buried.
LEMMA HandleTaskStep ==
    ASSUME IInv, NEW i \in requests, HandleTask(i)
    PROVE  IInv'
<1> USE DEF IInv, HandleTask, gatewayVars, commsVars, bodyVars
<1>1. i \in Tasks /\ i[1] \in Events /\ i[2] <= tries[i[1]] /\ i \in Items
      /\ i \notin Settled
  BY ItemForms DEF TypeOK, Flow, Settled, Items
<1>2. requests' = requests \ {i} /\ tries' = tries /\ buried' = buried
  OBVIOUS
<1>3. Settled \subseteq Settled' /\ i \in Settled'
  BY <1>1, <1>2 DEF Settled
<1>4. i \in Arrived' /\ i \notin buried
  BY <1>1, <1>2, <1>3 DEF Arrived, Flow
<1>5. wire' \in [Sockets -> Seq(Arrived')] /\ (client = None => wire' = wire)
  <2>1. wire \in [Sockets -> Seq(Arrived')] /\ registry \in Sockets \cup {None} /\ Push(i)
    BY <1>2, <1>3, MoreSettled DEF TypeOK
  <2>2. QED
    BY <1>4, <2>1, PushAdds
<1>6. wire' \in [Sockets -> Seq(Items)]
  BY <1>1, PushAdds DEF TypeOK
<1>7. slot' = i /\ UNCHANGED <<queue, running, polls, lastTask, ran, replies,
                               answered, body, client>>
  OBVIOUS
<1>8. publish' \in [Events -> {"idle", "posting", "done"}]
      /\ \A f \in Events : publish'[f] = "idle" => publish[f] = "idle"
  BY <1>1 DEF TypeOK
<1>9. TypeOK'
  BY <1>2, <1>3, <1>6, <1>7, <1>8, MoreSettled DEF TypeOK
<1>10. Flow'
  <2>1. \A j \in requests' : j[2] <= tries'[j[1]]
    BY <1>2 DEF Flow
  <2>2. \A f \in Events : publish'[f] = "idle" => tries'[f] = 0
    BY <1>2, <1>8 DEF Flow
  <2>3. buried' \subseteq Settled' /\ queue' \in Seq(Arrived')
        /\ running' \in Arrived' \cup {None}
    BY <1>2, <1>3, <1>7, MoreSettled
  <2>4. running' \in Tasks => running' \in ran'
    BY <1>7 DEF Flow
  <2>5. QED
    BY <1>4, <1>5, <1>7, <2>1, <2>2, <2>3, <2>4 DEF Flow
<1>11. Down'
  BY <1>5, <1>7 DEF Down
<1>12. Polled'
  <2>1. polls' \in Seq(Settled') /\ lastTask' \in Settled' \cup {None}
    BY <1>2, <1>3, <1>7, MoreSettled
  <2>2. \A k \in DOMAIN polls : polls[k] \in Settled
    BY DEF Polled
  <2>3. QED
    BY <1>1, <1>7, <2>1, <2>2 DEF Polled
<1>13. Replied' /\ PollTakesOnce' /\ AnsweredOnce'
  BY <1>7 DEF Replied, PollTakesOnce, AnsweredOnce
<1>14. QED
  BY <1>9, <1>10, <1>11, <1>12, <1>13

LEMMA RefuseTaskStep ==
    ASSUME IInv, NEW i \in requests, RefuseTask(i)
    PROVE  IInv'
<1> USE DEF IInv, RefuseTask, gatewayVars, commsVars, bodyVars
<1>1. i \in Tasks /\ i[1] \in Events
  BY ItemForms DEF TypeOK
<1>2. requests' = requests \ {i} /\ tries' = tries
      /\ UNCHANGED <<buried, wire, queue, running, slot, polls, lastTask, ran, replies,
                     answered, body, client>>
  OBVIOUS
<1>3. Settled \subseteq Settled'
  BY <1>2 DEF Settled
<1>4. publish' \in [Events -> {"idle", "posting", "done"}]
      /\ \A f \in Events : publish'[f] = "idle" => publish[f] = "idle"
  BY <1>1 DEF TypeOK
<1>5. faults' \in 0..MaxFaults
  BY DeliveryAssumption DEF TypeOK, Fault
<1>6. TypeOK'
  BY <1>2, <1>3, <1>4, <1>5, MoreSettled DEF TypeOK
<1>7. Flow'
  <2>1. \A j \in requests' : j[2] <= tries'[j[1]]
    BY <1>2 DEF Flow
  <2>2. \A f \in Events : publish'[f] = "idle" => tries'[f] = 0
    BY <1>2, <1>4 DEF Flow
  <2>3. QED
    BY <1>2, <1>3, <2>1, <2>2, MoreSettled DEF Flow
<1>8. Polled'
  BY <1>2, <1>3, MoreSettled DEF Polled
<1>9. Down' /\ Replied' /\ PollTakesOnce' /\ AnsweredOnce'
  BY <1>2 DEF Down, Replied, PollTakesOnce, AnsweredOnce
<1>10. QED
  BY <1>6, <1>7, <1>8, <1>9

\* A halt finds the body down, so nothing of what it buries is on its way.
LEMMA HaltStep ==
    ASSUME IInv, Halt
    PROVE  IInv'
<1> USE DEF IInv, Halt, HaltTask, gatewayVars, commsVars, bodyVars
<1>1. client = None /\ running = None /\ queue = <<>> /\ wire = [s \in Sockets |-> <<>>]
  BY DEF Down
<1>2. Settled' = Settled /\ buried' = Settled
  BY DEF Settled
<1>3. UNCHANGED <<publish, tries, clearing, requests, said, registry, server, wire,
                  client, caughtUp, lostAt, queue, running, lastTask, answered,
                  complete, polls, replies, ran, faults>>
      /\ slot' = None /\ body' = "halted"
  OBVIOUS
<1>4. TypeOK'
  BY <1>2, <1>3 DEF TypeOK, Settled
<1>5. Flow'
  <2>1. <<>> \in Seq(Arrived')
    OBVIOUS
  <2>2. QED
    BY <1>1, <1>2, <1>3, <2>1, NoneIsApart DEF Flow
<1>6. Down'
  BY <1>1, <1>3 DEF Down
<1>7. Polled'
  <2>1. \A k \in DOMAIN polls : polls[k] # None
    BY NoneIsApart DEF Polled, Settled
  <2>2. QED
    BY <1>2, <1>3, <2>1 DEF Polled
<1>8. Replied' /\ PollTakesOnce' /\ AnsweredOnce'
  BY <1>3 DEF Replied, PollTakesOnce, AnsweredOnce
<1>9. QED
  BY <1>4, <1>5, <1>6, <1>7, <1>8

\* Every state TaskDelivery can be in satisfies the inductive invariant.
LEMMA Invariant == Spec => []IInv
<1>1. Init => IInv
  BY InitIInv
<1>2. IInv /\ [Next]_vars => IInv'
  <2> SUFFICES ASSUME IInv, [Next]_vars PROVE IInv'
    OBVIOUS
  <2>1. CASE Gateway
    <3>1. CASE \E e \in Events : Publish(e) \/ Retry(e)
      BY <3>1, PublishStep, RetryStep
    <3>2. CASE FindComplete \/ ClearTask \/ HaltBody \/ Halt \/ Start
      BY <3>2, FindCompleteStep, ClearTaskStep, HaltBodyStep, HaltStep, StartStep
    <3>3. QED
      BY <2>1, <3>1, <3>2 DEF Gateway
  <2>2. CASE Comms
    <3>1. CASE \E e \in Direct : Say(e)
      BY <3>1, SayStep
    <3>2. CASE \E i \in requests : HandleTask(i) \/ RefuseTask(i)
      BY <3>2, HandleTaskStep, RefuseTaskStep
    <3>3. CASE \E s \in Sockets : Register(s) \/ EndSocket(s)
      BY <3>3, RegisterStep, EndSocketStep
    <3>4. CASE CommsRestarts
      BY <3>4, CommsRestartsStep
    <3>5. QED
      BY <2>2, <3>1, <3>2, <3>3, <3>4 DEF Comms
  <2>3. CASE Listener
    BY <2>3, ConnectStep, CatchUpStep, ReceiveStep, DisconnectStep DEF Listener
  <2>4. CASE MainLoop
    BY <2>4, TakeStep, PollStep, DrainStep, FinishStep DEF MainLoop
  <2>5. CASE Crash
    BY <2>5, CrashStep
  <2>6. CASE UNCHANGED vars
    <3>1. Settled' = Settled /\ Arrived' = Arrived
      BY <2>6, SettledKept DEF vars, gatewayVars, commsVars, bodyVars
    <3>2. QED
      BY <2>6, <3>1 DEF vars, gatewayVars, commsVars, bodyVars, IInv, TypeOK, Flow, Down,
                        Polled, Replied, PollTakesOnce, AnsweredOnce
  <2>7. QED
    BY <2>1, <2>2, <2>3, <2>4, <2>5, <2>6 DEF Next
<1>3. QED
  BY <1>1, <1>2, PTL DEF Spec

\* The types of TaskDelivery's variables: what is in the file, was run or polled is
\* a task whose request came to an end, and every socket carries tasks and messages.
THEOREM TypesHold == Spec => []TypeOK
<1>1. IInv => TypeOK
  BY DEF IInv
<1>2. QED
  BY <1>1, Invariant, PTL

\* haltAgent stops the runtime before it clears session-context.json, so no task that
\* was made before a halt was through is ever run after it, however often the agent
\* is started again, its socket reconnects and its posts are repeated.
THEOREM HaltedTasksStayDown == Spec => []HaltedTaskIsDropped
<1>1. IInv => HaltedTaskIsDropped
  <2> SUFFICES ASSUME IInv PROVE HaltedTaskIsDropped
    OBVIOUS
  <2>1. running \in Arrived \cup {None} /\ buried \subseteq Tasks
    BY DEF IInv, Flow, TypeOK
  <2>2. Arrived \cap buried = {} /\ None \notin buried
    BY <2>1, NoneIsApart DEF Arrived
  <2>3. QED
    BY <2>1, <2>2 DEF HaltedTaskIsDropped
<1>2. QED
  BY <1>1, Invariant, PTL

\* _poll_task_impl remembers only the task it saw last, and yet never takes one
\* twice in a life of the body: comms never writes an earlier task again.
THEOREM PollsOnce == Spec => []PollTakesOnce
<1>1. IInv => PollTakesOnce
  BY DEF IInv
<1>2. QED
  BY <1>1, Invariant, PTL

\* A direct message is answered once in a life of the body, by whichever of its
\* copies comes first: the push, the reconnect's, the gateway's task.
THEOREM AnswersOnce == Spec => []AnsweredOnce
<1>1. IInv => AnsweredOnce
  BY DEF IInv
<1>2. QED
  BY <1>1, Invariant, PTL

=============================================================================

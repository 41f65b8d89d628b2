---------------------------- MODULE SchedulesProofs -------------------------
(***************************************************************************)
(* Proofs about Schedules, for any missions, names, expressions and        *)
(* handlers.                                                               *)
(***************************************************************************)
EXTENDS Schedules, TLAPS

-----------------------------------------------------------------------------
(* Lemmas *)

\* Triggers are closed under restriction.
LEMMA RestrictTriggers ==
    ASSUME NEW f \in Triggers, NEW S, S \subseteq DOMAIN f
    PROVE  Restrict(f, S) \in Triggers /\ DOMAIN Restrict(f, S) = S
<1>1. PICK D \in SUBSET Names : f \in [D -> Crons]
  BY DEF Triggers
<1>2. Restrict(f, S) \in [S -> Crons]
  BY <1>1 DEF Restrict
<1> QED
  BY <1>1, <1>2 DEF Triggers

\* The empty function is a set of triggers.
LEMMA NoTriggers == << >> \in Triggers
<1>1. << >> \in [{} -> Crons]
  OBVIOUS
<1> QED
  BY <1>1 DEF Triggers

\* One job more or less.
LEMMA OneMore ==
    ASSUME NEW U \in [Names -> [Crons -> Nat]], NEW n \in Names, NEW c \in Crons,
           NEW V, V = [U EXCEPT ![n][c] = @ + 1]
    PROVE  /\ V \in [Names -> [Crons -> Nat]]
           /\ \A k \in Names, d \in Crons :
                 V[k][d] = IF k = n /\ d = c THEN U[k][d] + 1 ELSE U[k][d]
<1> DEFINE row == [U[n] EXCEPT ![c] = @ + 1]
<1>1. row \in [Crons -> Nat]
  OBVIOUS
<1>2. V = [U EXCEPT ![n] = row]
  OBVIOUS
<1>3. \A d \in Crons : row[d] = IF d = c THEN U[n][d] + 1 ELSE U[n][d]
  OBVIOUS
<1> HIDE DEF row
<1> QED
  BY <1>1, <1>2, <1>3

LEMMA OneLess ==
    ASSUME NEW U \in [Names -> [Crons -> Nat]], NEW n \in Names, NEW c \in Crons,
           U[n][c] = 1,
           NEW V, V = [U EXCEPT ![n][c] = @ - 1]
    PROVE  /\ V \in [Names -> [Crons -> Nat]]
           /\ \A k \in Names, d \in Crons :
                 V[k][d] = IF k = n /\ d = c THEN 0 ELSE U[k][d]
<1> DEFINE row == [U[n] EXCEPT ![c] = @ - 1]
<1>1. row \in [Crons -> Nat]
  OBVIOUS
<1>2. V = [U EXCEPT ![n] = row]
  OBVIOUS
<1>3. \A d \in Crons : row[d] = IF d = c THEN 0 ELSE U[n][d]
  OBVIOUS
<1> HIDE DEF row
<1> QED
  BY <1>1, <1>2, <1>3

\* With one known job each, the table says what cron has.
LEMMA JobsOfTable ==
    ASSUME IInv, NEW n \in Names
    PROVE  /\ Unscheduled(n) \in [Names -> [Crons -> Nat]]
           /\ \A k \in Names, c \in Crons :
                 Unscheduled(n)[k][c] = IF k # n /\ exprs[k] = c THEN 1 ELSE 0
<1>1. CASE exprs[n] = None
  BY <1>1, CronsAssumption DEF IInv, TypeOK, EveryJobIsKnown, Unscheduled
<1>2. CASE exprs[n] # None
  <2>1. exprs[n] \in Crons /\ jobs[n][exprs[n]] = 1 /\ jobs \in [Names -> [Crons -> Nat]]
    BY <1>2 DEF IInv, TypeOK, EveryJobIsKnown
  <2>2. Unscheduled(n) = [jobs EXCEPT ![n][exprs[n]] = @ - 1]
    BY <1>2 DEF Unscheduled
  <2>3. /\ Unscheduled(n) \in [Names -> [Crons -> Nat]]
        /\ \A k \in Names, d \in Crons :
              Unscheduled(n)[k][d] = IF k = n /\ d = exprs[n] THEN 0 ELSE jobs[k][d]
    BY <2>1, <2>2, OneLess
  <2> QED
    BY <2>3 DEF IInv, TypeOK, EveryJobIsKnown
<1> QED
  BY <1>1, <1>2

TableInv ==
    /\ exprs \in [Names -> Parses \cup {None}]
    /\ deactivated \in [Names -> Crons \cup {None}]
    /\ jobs \in [Names -> [Crons -> Nat]]
    /\ EveryJobIsKnown

\* Each operation of the scheduler keeps its table right.
LEMMA TableSteps ==
    ASSUME IInv, NEW n \in Names, NEW c \in Crons \cup {None},
           Register(n, c) \/ Deactivate(n) \/ Remove(n)
    PROVE  TableInv'
<1>0. /\ Unscheduled(n) \in [Names -> [Crons -> Nat]]
      /\ \A k \in Names, d \in Crons :
            Unscheduled(n)[k][d] = IF k # n /\ exprs[k] = d THEN 1 ELSE 0
  BY JobsOfTable
<1>1. /\ exprs \in [Names -> Parses \cup {None}]
      /\ deactivated \in [Names -> Crons \cup {None}]
      /\ \A k \in Names : exprs[k] # None => deactivated[k] = None
  BY DEF IInv, TypeOK, EveryJobIsKnown
<1>2. CASE Register(n, c) /\ c \in Parses
  <2>0. c \in Crons
    BY <1>2, CronsAssumption
  <2>1. jobs' = [Unscheduled(n) EXCEPT ![n][c] = @ + 1]
    BY <1>2 DEF Register
  <2>2. /\ jobs' \in [Names -> [Crons -> Nat]]
        /\ \A k \in Names, d \in Crons :
              jobs'[k][d] = IF k = n /\ d = c THEN Unscheduled(n)[k][d] + 1
                                              ELSE Unscheduled(n)[k][d]
    BY <1>0, <2>0, <2>1, OneMore
  <2>3. exprs' = [exprs EXCEPT ![n] = c] /\ deactivated' = [deactivated EXCEPT ![n] = None]
    BY <1>2 DEF Register
  <2>4. \A k \in Names, d \in Crons : jobs'[k][d] = IF exprs'[k] = d THEN 1 ELSE 0
    BY <1>0, <1>1, <2>2, <2>3
  <2>5. /\ exprs' \in [Names -> Parses \cup {None}]
        /\ deactivated' \in [Names -> Crons \cup {None}]
        /\ \A k \in Names : exprs'[k] # None => deactivated'[k] = None
    BY <1>1, <1>2, <2>3
  <2> QED
    BY <2>2, <2>4, <2>5 DEF TableInv, EveryJobIsKnown
<1>3. CASE (Register(n, c) /\ c \notin Parses) \/ Deactivate(n) \/ Remove(n)
  <2>1. jobs' = Unscheduled(n) /\ exprs' = [exprs EXCEPT ![n] = None]
    BY <1>3 DEF Register, Deactivate, Remove
  <2>2. /\ deactivated' \in [Names -> Crons \cup {None}]
        /\ \A k \in Names \ {n} : deactivated'[k] = deactivated[k]
    BY <1>3, <1>1, CronsAssumption DEF Register, Deactivate, Remove
  <2>3. \A k \in Names, d \in Crons : jobs'[k][d] = IF exprs'[k] = d THEN 1 ELSE 0
    BY <1>0, <1>1, <2>1, CronsAssumption
  <2> QED
    BY <1>0, <1>1, <2>1, <2>2, <2>3 DEF TableInv, EveryJobIsKnown
<1> QED
  BY <1>2, <1>3

-----------------------------------------------------------------------------
(* Types of files, handlers and records *)

\* What the table's proofs leave: the other variables.
RestTyped ==
    /\ file \in [Missions -> Mission \cup {None}]
    /\ request \in [Requests -> Request \cup {None}]
    /\ disturbed \in SUBSET Names

LEMMA GoOnTyped ==
    ASSUME IInv, NEW r \in Requests, request[r] # None, NEW left \in Triggers,
           GoOn(r, left)
    PROVE  request' \in [Requests -> Request \cup {None}]
<1>1. request[r] \in Request
  BY DEF IInv, TypeOK
<1>2. [request[r] EXCEPT !.left = left, !.stage = "call", !.at = None, !.found = None]
          \in Request
  BY <1>1 DEF Request
<1> QED
  BY <1>2 DEF GoOn, IInv, TypeOK

\* A mission's names, and those of the handlers at work on it.
LEMMA KnownAreNames ==
    ASSUME IInv
    PROVE  /\ \A m \in Missions : Known(m) \subseteq Names /\ UnderWay(m) \subseteq Names
                                  /\ NamesOf(m) \subseteq Names
           /\ \A f \in Triggers : DOMAIN f \subseteq Names
           /\ \A f, g \in Triggers : Differing(f, g) \subseteq Names
           /\ \A m \in Missions : Present(m) => file[m].triggers \in Triggers
           /\ \A m \in Missions : \A S : SharedBy(m, S) \subseteq S
<1>1. \A f \in Triggers : DOMAIN f \subseteq Names
  BY DEF Triggers
<1>2. \A m \in Missions : Present(m) => file[m].triggers \in Triggers
  BY DEF IInv, TypeOK, Present, Mission
<1>3. \A m \in Missions : NamesOf(m) \subseteq Names
  BY <1>1, <1>2 DEF NamesOf
<1>4. \A m \in Missions : UnderWay(m) \subseteq Names
  <2>1. \A m \in Missions, r \in Requests : Serves(r, m) => request[r].left \in Triggers
    BY DEF IInv, TypeOK, Serves, Request
  <2> QED
    BY <1>1, <2>1 DEF UnderWay
<1>5. \A f, g \in Triggers : Differing(f, g) \subseteq Names
  BY <1>1 DEF Differing
<1> QED
  BY <1>1, <1>2, <1>3, <1>4, <1>5 DEF Known, SharedBy

LEMMA StatusTyped ==
    ASSUME IInv, NEW m \in Missions, NEW op \in Ops, Allowed(m, op), SetStatus(m, op)
    PROVE  file' \in [Missions -> Mission \cup {None}]
<1>1. file[m] \in Mission
  BY DEF Allowed, Present, IInv, TypeOK
<1>2. Becomes(op) \in Statuses
  BY DEF Becomes, Ops, Statuses
<1>3. [file[m] EXCEPT !.status = Becomes(op)] \in Mission
  BY <1>1, <1>2 DEF Mission
<1> QED
  BY <1>3 DEF SetStatus, IInv, TypeOK

-----------------------------------------------------------------------------
(* The steps *)

LEMMA FileSteps ==
    ASSUME IInv, NEW m \in Missions,
           \/ \E triggers \in Triggers : Create(m, triggers) \/ Update(m, triggers)
           \/ Delete(m)
           \/ \E op \in Ops : ChangeElsewhere(m, op)
    PROVE  RestTyped' /\ UNCHANGED table
<1> USE KnownAreNames
<1>1. ASSUME NEW triggers \in Triggers, Create(m, triggers) PROVE RestTyped' /\ UNCHANGED table
  BY <1>1 DEF Create, Disturb, RestTyped, IInv, TypeOK, Mission, Statuses
<1>2. ASSUME NEW triggers \in Triggers, Update(m, triggers) PROVE RestTyped' /\ UNCHANGED table
  <2>1. file[m] \in Mission /\ file[m].triggers \in Triggers
    BY <1>2 DEF Update, Present, IInv, TypeOK, Mission
  <2>2. [file[m] EXCEPT !.triggers = triggers] \in Mission
    BY <2>1 DEF Mission
  <2>3. file' \in [Missions -> Mission \cup {None}]
    BY <1>2, <2>2 DEF Update, IInv, TypeOK
  <2>4. disturbed' \in SUBSET Names
    BY <1>2, <2>1 DEF Update, Disturb, IInv, TypeOK
  <2> QED
    BY <1>2, <2>3, <2>4 DEF Update, RestTyped, IInv, TypeOK
<1>3. ASSUME Delete(m) PROVE RestTyped' /\ UNCHANGED table
  BY <1>3 DEF Delete, Disturb, RestTyped, IInv, TypeOK
<1>4. ASSUME NEW op \in Ops, ChangeElsewhere(m, op) PROVE RestTyped' /\ UNCHANGED table
  <2>1. file' \in [Missions -> Mission \cup {None}]
    BY <1>4, StatusTyped DEF ChangeElsewhere
  <2> QED
    BY <1>4, <2>1 DEF ChangeElsewhere, Disturb, RestTyped, IInv, TypeOK
<1> QED
  BY <1>1, <1>2, <1>3, <1>4

LEMMA BeginStep ==
    ASSUME IInv, NEW r \in Requests, NEW m \in Missions, NEW op \in Ops, Begin(r, m, op)
    PROVE  RestTyped' /\ UNCHANGED table
<1> DEFINE rec == [op |-> op, mission |-> m, stage |-> "change", at |-> None, found |-> None,
                   left |-> IF op = "assign" THEN << >> ELSE file[m].triggers]
<1>1. file[m].triggers \in Triggers
  BY KnownAreNames DEF Begin
<1>2. rec \in Request
  BY <1>1, NoTriggers DEF Request
<1>3. request' = [request EXCEPT ![r] = rec]
  BY DEF Begin
<1>4. request' \in [Requests -> Request \cup {None}]
  BY <1>2, <1>3 DEF IInv, TypeOK
<1> QED
  BY <1>4, KnownAreNames DEF Begin, Disturb, RestTyped, IInv, TypeOK

LEMMA ChangeStatusStep ==
    ASSUME IInv, NEW r \in Requests, ChangeStatus(r)
    PROVE  RestTyped' /\ UNCHANGED table
<1> DEFINE m == request[r].mission
           op == request[r].op
<1>1. /\ request[r] # None /\ request[r] \in Request
      /\ m \in Missions /\ op \in Ops /\ request[r].left \in Triggers
  BY DEF ChangeStatus, IInv, TypeOK, Request
<1>2. /\ UNCHANGED table
      /\ \/ UNCHANGED file
         \/ Allowed(m, op) /\ SetStatus(m, op)
      /\ disturbed' \in SUBSET (disturbed \cup Known(m))
      /\ \/ Ends(r)
         \/ request' = [request EXCEPT ![r].stage = "reread"]
         \/ GoOn(r, request[r].left)
  BY DEF ChangeStatus, Disturb
<1>3. file' \in [Missions -> Mission \cup {None}]
  BY <1>1, <1>2, StatusTyped DEF IInv, TypeOK
<1>4. request' \in [Requests -> Request \cup {None}]
  <2>1. CASE Ends(r)
    BY <2>1 DEF Ends, IInv, TypeOK
  <2>2. CASE request' = [request EXCEPT ![r].stage = "reread"]
    <3>1. [request[r] EXCEPT !.stage = "reread"] \in Request
      BY <1>1 DEF Request
    <3> QED
      BY <2>2, <3>1 DEF IInv, TypeOK
  <2>3. CASE GoOn(r, request[r].left)
    BY <1>1, <2>3, GoOnTyped
  <2> QED
    BY <1>2, <2>1, <2>2, <2>3
<1> QED
  BY <1>1, <1>2, <1>3, <1>4, KnownAreNames DEF RestTyped, IInv, TypeOK

LEMMA RereadStep ==
    ASSUME IInv, NEW r \in Requests, Reread(r)
    PROVE  RestTyped' /\ UNCHANGED table
<1> DEFINE m == request[r].mission
           now == file[m].triggers
<1>1. request[r] # None /\ m \in Missions
  BY DEF Reread, IInv, TypeOK, Request
<1>2. request' \in [Requests -> Request \cup {None}]
  <2>1. CASE Present(m)
    <3>1. now \in Triggers
      BY <1>1, <2>1, KnownAreNames
    <3>2. Restrict(now, {n \in DOMAIN now : now[n] # NoCron}) \in Triggers
      BY <3>1, RestrictTriggers
    <3>3. GoOn(r, Restrict(now, {n \in DOMAIN now : now[n] # NoCron}))
      BY <2>1 DEF Reread
    <3> QED
      BY <1>1, <3>2, <3>3, GoOnTyped
  <2>2. CASE ~Present(m)
    BY <2>2 DEF Reread, Ends, IInv, TypeOK
  <2> QED
    BY <2>1, <2>2
<1> QED
  BY <1>2 DEF Reread, RestTyped, IInv, TypeOK

LEMMA TellStep ==
    ASSUME IInv, NEW r \in Requests, NEW n \in Names, Tell(r, n)
    PROVE  RestTyped' /\ (TableInv' \/ UNCHANGED table)
<1> DEFINE left == request[r].left
           rest == Restrict(left, DOMAIN left \ {n})
<1>1. /\ request[r] # None /\ request[r] \in Request
      /\ left \in Triggers /\ n \in DOMAIN left
  BY DEF Tell, IInv, TypeOK, Request
<1>2. rest \in Triggers
  BY <1>1, RestrictTriggers
<1>3. left[n] \in Crons
  BY <1>1 DEF Triggers
<1>4. request' \in [Requests -> Request \cup {None}]
  <2>1. CASE GoOn(r, rest)
    BY <1>1, <1>2, <2>1, GoOnTyped
  <2>2. CASE ~GoOn(r, rest)
    <3>1. /\ request' = [request EXCEPT ![r] = [request[r] EXCEPT !.stage = "register",
                                                    !.at = n, !.found = deactivated[n]]]
          /\ deactivated[n] \in Crons \cup {None}
      BY <2>2 DEF Tell, IInv, TypeOK
    <3>2. [request[r] EXCEPT !.stage = "register", !.at = n, !.found = deactivated[n]] \in Request
      BY <1>1, <3>1, CronsAssumption DEF Request
    <3> QED
      BY <3>1, <3>2 DEF IInv, TypeOK
  <2> QED
    BY <2>1, <2>2
<1>5. Register(n, left[n]) \/ Deactivate(n) \/ Remove(n) \/ UNCHANGED table
  BY DEF Tell
<1>6. TableInv' \/ UNCHANGED table
  BY <1>3, <1>5, TableSteps
<1> QED
  BY <1>4, <1>6 DEF Tell, RestTyped, IInv, TypeOK

LEMMA ActivateStep ==
    ASSUME IInv, NEW r \in Requests, ActivateRegisters(r)
    PROVE  RestTyped' /\ TableInv'
<1> DEFINE left == request[r].left
           rest == Restrict(left, DOMAIN left \ {request[r].at})
<1>1. /\ request[r] # None /\ left \in Triggers
      /\ request[r].found \in Crons \cup {None} /\ request[r].at \in Names
  BY DEF ActivateRegisters, IInv, TypeOK, Request
<1>2. rest \in Triggers
  BY <1>1, RestrictTriggers
<1>3. request' \in [Requests -> Request \cup {None}]
  BY <1>1, <1>2, GoOnTyped DEF ActivateRegisters
<1>4. TableInv'
  BY <1>1, TableSteps DEF ActivateRegisters
<1> QED
  BY <1>3, <1>4 DEF ActivateRegisters, RestTyped, IInv, TypeOK

LEMMA RestartStep ==
    ASSUME IInv, GatewayRestarts
    PROVE  RestTyped' /\ TableInv'
<1>1. exprs' \in [Names -> Parses \cup {None}]
  BY DEF GatewayRestarts
<1>2. /\ jobs' = [n \in Names |-> [c \in Crons |-> IF exprs'[n] = c THEN 1 ELSE 0]]
      /\ deactivated' = [n \in Names |-> None]
  BY DEF GatewayRestarts
<1>3. TableInv'
  BY <1>1, <1>2 DEF TableInv, EveryJobIsKnown
<1>4. disturbed' \in SUBSET Names
  BY KnownAreNames DEF GatewayRestarts
<1> QED
  BY <1>3, <1>4 DEF GatewayRestarts, RestTyped, IInv, TypeOK

LEMMA InvStep ==
    ASSUME IInv, [Next]_vars
    PROVE  IInv'
<1>1. CASE UNCHANGED vars
  BY <1>1, CronsAssumption DEF vars, table, IInv, TypeOK, EveryJobIsKnown
<1>2. ASSUME RestTyped', TableInv' \/ UNCHANGED table PROVE IInv'
  BY <1>2, CronsAssumption DEF RestTyped, TableInv, table, IInv, TypeOK, EveryJobIsKnown
<1>3. CASE Next
  <2>1. ASSUME NEW m \in Missions,
               \/ \E triggers \in Triggers : Create(m, triggers) \/ Update(m, triggers)
               \/ Delete(m)
               \/ \E op \in Ops : ChangeElsewhere(m, op)
        PROVE  IInv'
    BY <1>2, <2>1, FileSteps
  <2>2. ASSUME NEW r \in Requests, NEW m \in Missions, NEW op \in Ops, Begin(r, m, op)
        PROVE  IInv'
    BY <1>2, <2>2, BeginStep
  <2>3. ASSUME NEW r \in Requests, ChangeStatus(r) PROVE IInv'
    BY <1>2, <2>3, ChangeStatusStep
  <2>4. ASSUME NEW r \in Requests, Reread(r) PROVE IInv'
    BY <1>2, <2>4, RereadStep
  <2>5. ASSUME NEW r \in Requests, ActivateRegisters(r) PROVE IInv'
    BY <1>2, <2>5, ActivateStep
  <2>6. ASSUME NEW r \in Requests, NEW n \in Names, Tell(r, n) PROVE IInv'
    BY <1>2, <2>6, TellStep
  <2>7. CASE GatewayRestarts
    BY <1>2, <2>7, RestartStep
  <2> QED
    BY <1>3, <2>1, <2>2, <2>3, <2>4, <2>5, <2>6, <2>7 DEF Next
<1> QED
  BY <1>1, <1>3

\* The invariant of the scheduler's table holds, for any missions, names,
\* expressions and handlers at once.
THEOREM TableInvariant == Spec => []IInv
<1>1. Init => IInv
  BY CronsAssumption DEF Init, IInv, TypeOK, EveryJobIsKnown
<1>2. IInv /\ [Next]_vars => IInv'
  BY InvStep
<1> QED
  BY <1>1, <1>2, PTL DEF Spec

\* Every variable of Schedules keeps its type.
THEOREM ScheduleTypes == Spec => []TypeOK
<1>1. IInv => TypeOK
  BY DEF IInv
<1> QED
  BY <1>1, TableInvariant, PTL

\* However handlers interleave, in Activate's gap too, what fires is in the table,
\* once, and not kept as paused (scheduler.go:34-97).
THEOREM JobsAreKnown == Spec => []EveryJobIsKnown
<1>1. IInv => EveryJobIsKnown
  BY DEF IInv
<1> QED
  BY <1>1, TableInvariant, PTL
=============================================================================

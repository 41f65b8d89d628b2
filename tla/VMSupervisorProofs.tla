-------------------------- MODULE VMSupervisorProofs --------------------------
(* Proofs about VMSupervisor, for any callers, policy, tasks and gateways. *)
EXTENDS VMSupervisor, TLAPS

LEMMA NoneIsNoTask == /\ None \notin Tasks /\ None \notin Procs
                      /\ Tasks \subseteq Nat /\ Procs \subseteq Nat
BY DEF None, Tasks, Procs

LEMMA InitIInv == Init => IInv
<1> SUFFICES ASSUME Init PROVE IInv
  OBVIOUS
<1> USE NoneIsNoTask DEF Init
<1>1. TypeOK
  <2>1. 0 \in 0..MaxGateways
    BY SupervisorAssumption
  <2>2. Unused \in Task
    BY DEF Unused, Task
  <2>3. QED
    BY <2>1, <2>2 DEF TypeOK
<1>2. ProcessesAreOwned /\ StopsHold
  BY DEF ProcessesAreOwned, StopsHold, Unused, Alive
<1>3. OneVM /\ TaskOwnsVM /\ StopIsPending
  BY DEF OneVM, TaskOwnsVM, StopIsPending
<1>4. QED
  BY <1>1, <1>2, <1>3 DEF IInv

\* A Start that finds the VM running changes nothing but who called last.
LEMMA StartFindsRunningStep ==
    ASSUME IInv, StartFindsRunning
    PROVE  IInv'
<1> USE NoneIsNoTask, SupervisorAssumption DEF IInv, TypeOK, Task, StartFindsRunning, Running, memory, calls
<1>1. TypeOK'
  BY DEF TypeOK, Alive, Unused
<1>2. ProcessesAreOwned'
  BY <1>1 DEF ProcessesAreOwned, Alive, Unused, OneVM, TaskOwnsVM
<1>3. StopsHold'
  BY <1>1 DEF StopsHold, Alive, Unused, ProcessesAreOwned, OneVM, TaskOwnsVM
<1>4. OneVM'
  BY <1>1 DEF OneVM, Alive, Unused, ProcessesAreOwned, TaskOwnsVM
<1>5. TaskOwnsVM'
  BY <1>1 DEF TaskOwnsVM, Alive, Unused, ProcessesAreOwned, OneVM
<1>6. StopIsPending'
  BY <1>1 DEF StopIsPending, Alive, Unused, ProcessesAreOwned, OneVM, TaskOwnsVM, StopsHold
<1>7. QED
  BY <1>1, <1>2, <1>3, <1>4, <1>5, <1>6

\* With no process behind it the new task owns nobody, and nobody lives.
LEMMA StartFailsStep ==
    ASSUME IInv, NEW t \in Tasks, StartFails(t)
    PROVE  IInv'
<1> USE NoneIsNoTask, SupervisorAssumption DEF IInv, TypeOK, Task, StartFails, Running, FreshTask, memory, calls
<1>1. TypeOK'
  BY DEF TypeOK, Alive, Unused
<1>2. ProcessesAreOwned'
  BY <1>1 DEF ProcessesAreOwned, Alive, Unused, OneVM, TaskOwnsVM
<1>3. StopsHold'
  BY <1>1 DEF StopsHold, Alive, Unused, ProcessesAreOwned, OneVM, TaskOwnsVM
<1>4. OneVM'
  BY <1>1 DEF OneVM, Alive, Unused, ProcessesAreOwned, TaskOwnsVM
<1>5. TaskOwnsVM'
  BY <1>1 DEF TaskOwnsVM, Alive, Unused, ProcessesAreOwned, OneVM
<1>6. StopIsPending'
  BY <1>1 DEF StopIsPending, Alive, Unused, ProcessesAreOwned, OneVM, TaskOwnsVM, StopsHold
<1>7. QED
  BY <1>1, <1>2, <1>3, <1>4, <1>5, <1>6

\* Nobody lived when the new process was spawned.
LEMMA StartSpawnsStep ==
    ASSUME IInv, NEW t \in Tasks, NEW p \in Procs, StartSpawns(t, p)
    PROVE  IInv'
<1> USE NoneIsNoTask, SupervisorAssumption DEF IInv, TypeOK, Task, StartSpawns, Running, FreshTask, Spawn, memory, calls
<1>1. TypeOK'
  BY DEF TypeOK, Alive, Unused
<1>2. ProcessesAreOwned'
  BY <1>1 DEF ProcessesAreOwned, Alive, Unused, OneVM, TaskOwnsVM
<1>3. StopsHold'
  BY <1>1 DEF StopsHold, Alive, Unused, ProcessesAreOwned, OneVM, TaskOwnsVM
<1>4. OneVM'
  BY <1>1 DEF OneVM, Alive, Unused, ProcessesAreOwned, TaskOwnsVM
<1>5. TaskOwnsVM'
  BY <1>1 DEF TaskOwnsVM, Alive, Unused, ProcessesAreOwned, OneVM
<1>6. StopIsPending'
  BY <1>1 DEF StopIsPending, Alive, Unused, ProcessesAreOwned, OneVM, TaskOwnsVM, StopsHold
<1>7. QED
  BY <1>1, <1>2, <1>3, <1>4, <1>5, <1>6

\* The process of a sleeping task is dead, and no other lives beside it.
LEMMA RestartStep ==
    ASSUME IInv, NEW t \in Tasks, NEW p \in Procs, Restart(t, p)
    PROVE  IInv'
<1> USE NoneIsNoTask, SupervisorAssumption DEF IInv, TypeOK, Task, Restart, MayRestart, Spawn, memory, calls
<1>1. TypeOK'
  BY DEF TypeOK, Alive, Unused
<1>2. ProcessesAreOwned'
  BY <1>1 DEF ProcessesAreOwned, Alive, Unused, OneVM, TaskOwnsVM
<1>3. StopsHold'
  BY <1>1 DEF StopsHold, Alive, Unused, ProcessesAreOwned, OneVM, TaskOwnsVM
<1>4. OneVM'
  BY <1>1 DEF OneVM, Alive, Unused, ProcessesAreOwned, TaskOwnsVM
<1>5. TaskOwnsVM'
  BY <1>1 DEF TaskOwnsVM, Alive, Unused, ProcessesAreOwned, OneVM
<1>6. StopIsPending'
  BY <1>1 DEF StopIsPending, Alive, Unused, ProcessesAreOwned, OneVM, TaskOwnsVM, StopsHold
<1>7. QED
  BY <1>1, <1>2, <1>3, <1>4, <1>5, <1>6

LEMMA RestartAbandonedStep ==
    ASSUME IInv, NEW t \in Tasks, RestartAbandoned(t)
    PROVE  IInv'
<1> USE NoneIsNoTask, SupervisorAssumption DEF IInv, TypeOK, Task, RestartAbandoned, MayRestart, memory, calls
<1>1. TypeOK'
  BY DEF TypeOK, Alive, Unused
<1>2. ProcessesAreOwned'
  BY <1>1 DEF ProcessesAreOwned, Alive, Unused, OneVM, TaskOwnsVM
<1>3. StopsHold'
  BY <1>1 DEF StopsHold, Alive, Unused, ProcessesAreOwned, OneVM, TaskOwnsVM
<1>4. OneVM'
  BY <1>1 DEF OneVM, Alive, Unused, ProcessesAreOwned, TaskOwnsVM
<1>5. TaskOwnsVM'
  BY <1>1 DEF TaskOwnsVM, Alive, Unused, ProcessesAreOwned, OneVM
<1>6. StopIsPending'
  BY <1>1 DEF StopIsPending, Alive, Unused, ProcessesAreOwned, OneVM, TaskOwnsVM, StopsHold
<1>7. QED
  BY <1>1, <1>2, <1>3, <1>4, <1>5, <1>6

LEMMA RestartFailsStep ==
    ASSUME IInv, NEW t \in Tasks, RestartFails(t)
    PROVE  IInv'
<1> USE NoneIsNoTask, SupervisorAssumption DEF IInv, TypeOK, Task, RestartFails, MayRestart, memory, calls
<1>1. TypeOK'
  BY DEF TypeOK, Alive, Unused
<1>2. ProcessesAreOwned'
  BY <1>1 DEF ProcessesAreOwned, Alive, Unused, OneVM, TaskOwnsVM
<1>3. StopsHold'
  BY <1>1 DEF StopsHold, Alive, Unused, ProcessesAreOwned, OneVM, TaskOwnsVM
<1>4. OneVM'
  BY <1>1 DEF OneVM, Alive, Unused, ProcessesAreOwned, TaskOwnsVM
<1>5. TaskOwnsVM'
  BY <1>1 DEF TaskOwnsVM, Alive, Unused, ProcessesAreOwned, OneVM
<1>6. StopIsPending'
  BY <1>1 DEF StopIsPending, Alive, Unused, ProcessesAreOwned, OneVM, TaskOwnsVM, StopsHold
<1>7. QED
  BY <1>1, <1>2, <1>3, <1>4, <1>5, <1>6

LEMMA InspectStep ==
    ASSUME IInv, Inspect
    PROVE  IInv'
<1> USE NoneIsNoTask, SupervisorAssumption DEF IInv, TypeOK, Task, Inspect, memory, calls
<1>1. TypeOK'
  BY DEF TypeOK, Alive, Unused
<1>2. ProcessesAreOwned'
  BY <1>1 DEF ProcessesAreOwned, Alive, Unused, OneVM, TaskOwnsVM
<1>3. StopsHold'
  BY <1>1 DEF StopsHold, Alive, Unused, ProcessesAreOwned, OneVM, TaskOwnsVM
<1>4. OneVM'
  BY <1>1 DEF OneVM, Alive, Unused, ProcessesAreOwned, TaskOwnsVM
<1>5. TaskOwnsVM'
  BY <1>1 DEF TaskOwnsVM, Alive, Unused, ProcessesAreOwned, OneVM
<1>6. StopIsPending'
  BY <1>1 DEF StopIsPending, Alive, Unused, ProcessesAreOwned, OneVM, TaskOwnsVM, StopsHold
<1>7. QED
  BY <1>1, <1>2, <1>3, <1>4, <1>5, <1>6

LEMMA GatewayRestartsStep ==
    ASSUME IInv, GatewayRestarts
    PROVE  IInv'
<1> USE NoneIsNoTask, SupervisorAssumption DEF IInv, TypeOK, Task, GatewayRestarts, memory, calls
<1>1. TypeOK'
  BY DEF TypeOK, Alive, Unused
<1>2. ProcessesAreOwned'
  BY <1>1 DEF ProcessesAreOwned, Alive, Unused, OneVM, TaskOwnsVM
<1>3. StopsHold'
  BY <1>1 DEF StopsHold, Alive, Unused, ProcessesAreOwned, OneVM, TaskOwnsVM
<1>4. OneVM'
  BY <1>1 DEF OneVM, Alive, Unused, ProcessesAreOwned, TaskOwnsVM
<1>5. TaskOwnsVM'
  BY <1>1 DEF TaskOwnsVM, Alive, Unused, ProcessesAreOwned, OneVM
<1>6. StopIsPending'
  BY <1>1 DEF StopIsPending, Alive, Unused, ProcessesAreOwned, OneVM, TaskOwnsVM, StopsHold
<1>7. QED
  BY <1>1, <1>2, <1>3, <1>4, <1>5, <1>6

LEMMA ExitStep ==
    ASSUME IInv, NEW p \in Procs, Exit(p)
    PROVE  IInv'
<1> USE NoneIsNoTask, SupervisorAssumption DEF IInv, TypeOK, Task, Exit, memory, calls
<1>1. TypeOK'
  BY DEF TypeOK, Alive, Unused
<1>2. ProcessesAreOwned'
  BY <1>1 DEF ProcessesAreOwned, Alive, Unused, OneVM, TaskOwnsVM
<1>3. StopsHold'
  BY <1>1 DEF StopsHold, Alive, Unused, ProcessesAreOwned, OneVM, TaskOwnsVM
<1>4. OneVM'
  BY <1>1 DEF OneVM, Alive, Unused, ProcessesAreOwned, TaskOwnsVM
<1>5. TaskOwnsVM'
  BY <1>1 DEF TaskOwnsVM, Alive, Unused, ProcessesAreOwned, OneVM
<1>6. StopIsPending'
  BY <1>1 DEF StopIsPending, Alive, Unused, ProcessesAreOwned, OneVM, TaskOwnsVM, StopsHold
<1>7. QED
  BY <1>1, <1>2, <1>3, <1>4, <1>5, <1>6

LEMMA ReapStep ==
    ASSUME IInv, NEW p \in Procs, Reap(p)
    PROVE  IInv'
<1> USE NoneIsNoTask, SupervisorAssumption DEF IInv, TypeOK, Task, Reap, memory, calls
<1>1. TypeOK'
  BY DEF TypeOK, Alive, Unused
<1>2. ProcessesAreOwned'
  BY <1>1 DEF ProcessesAreOwned, Alive, Unused, OneVM, TaskOwnsVM
<1>3. StopsHold'
  BY <1>1 DEF StopsHold, Alive, Unused, ProcessesAreOwned, OneVM, TaskOwnsVM
<1>4. OneVM'
  BY <1>1 DEF OneVM, Alive, Unused, ProcessesAreOwned, TaskOwnsVM
<1>5. TaskOwnsVM'
  BY <1>1 DEF TaskOwnsVM, Alive, Unused, ProcessesAreOwned, OneVM
<1>6. StopIsPending'
  BY <1>1 DEF StopIsPending, Alive, Unused, ProcessesAreOwned, OneVM, TaskOwnsVM, StopsHold
<1>7. QED
  BY <1>1, <1>2, <1>3, <1>4, <1>5, <1>6

\* The file of a dead process names nobody who lives, or is flagged.
LEMMA WatchedStep ==
    ASSUME IInv, NEW p \in Procs, Watched(p)
    PROVE  IInv'
<1> USE NoneIsNoTask, SupervisorAssumption DEF IInv, TypeOK, Task, Watched, RemovePID, AfterExit, memory, calls
<1>1. TypeOK'
  <2>1. owner[p] \in Tasks
    BY DEF ProcessesAreOwned
  <2>2. /\ [tasks[owner[p]] EXCEPT !.state = "stopped"] \in Task
        /\ [tasks[owner[p]] EXCEPT !.state = "crashed"] \in Task
    BY <2>1
  <2>3. tasks' \in [Tasks -> Task]
    BY <2>1, <2>2
  <2>4. sleeping' \in SUBSET Tasks /\ pidfile' \in Procs \cup {None}
    BY <2>1
  <2>5. unlisted' \in SUBSET Procs
    BY DEF Alive
  <2>6. watch' \in [Procs -> {"none", "waiting", "reaped", "ended"}]
    OBVIOUS
  <2>7. QED
    BY <2>3, <2>4, <2>5, <2>6
<1>2. ProcessesAreOwned'
  BY <1>1 DEF ProcessesAreOwned, Alive, Unused, OneVM, TaskOwnsVM
<1>3. StopsHold'
  BY <1>1 DEF StopsHold, Alive, Unused, ProcessesAreOwned, OneVM, TaskOwnsVM
<1>4. OneVM'
  BY <1>1 DEF OneVM, Alive, Unused, ProcessesAreOwned, TaskOwnsVM
<1>5. TaskOwnsVM'
  BY <1>1 DEF TaskOwnsVM, Alive, Unused, ProcessesAreOwned, OneVM
<1>6. StopIsPending'
  BY <1>1 DEF StopIsPending, Alive, Unused, ProcessesAreOwned, OneVM, TaskOwnsVM, StopsHold
<1>7. QED
  BY <1>1, <1>2, <1>3, <1>4, <1>5, <1>6

LEMMA StopStep ==
    ASSUME IInv, NEW c \in Callers, Stop(c)
    PROVE  IInv'
<1> USE NoneIsNoTask, SupervisorAssumption DEF IInv, TypeOK, Task, Stop, memory, calls
<1>1. TypeOK'
  <2>1. CASE task = None
    BY <2>1
  <2>2. CASE task # None
    <3>1. tasks[task].cmd \in Procs \cup {None}
      BY <2>2
    <3>2. [cmd |-> tasks[task].cmd, stopRequested |-> TRUE, state |-> "stopping"] \in Task
      BY <3>1
    <3>3. tasks' \in [Tasks -> Task]
      BY <2>2, <3>2
    <3>4. QED
      BY <2>2, <3>1, <3>3
  <2>3. QED
    BY <2>1, <2>2
<1>2. ProcessesAreOwned'
  BY <1>1 DEF ProcessesAreOwned, Alive, Unused, OneVM, TaskOwnsVM
<1>3. StopsHold'
  BY <1>1 DEF StopsHold, Alive, Unused, ProcessesAreOwned, OneVM, TaskOwnsVM
<1>4. OneVM'
  BY <1>1 DEF OneVM, Alive, Unused, ProcessesAreOwned, TaskOwnsVM
<1>5. TaskOwnsVM'
  BY <1>1 DEF TaskOwnsVM, Alive, Unused, ProcessesAreOwned, OneVM
<1>6. StopIsPending'
  BY <1>1 DEF StopIsPending, Alive, Unused, ProcessesAreOwned, OneVM, TaskOwnsVM, StopsHold
<1>7. QED
  BY <1>1, <1>2, <1>3, <1>4, <1>5, <1>6

LEMMA CancelledStep ==
    ASSUME IInv, NEW c \in Callers, Cancelled(c)
    PROVE  IInv'
<1> USE NoneIsNoTask, SupervisorAssumption DEF IInv, TypeOK, Task, Cancelled, Kill, Return, memory, calls
<1>1. TypeOK'
  BY DEF TypeOK, Alive, Unused
<1>2. ProcessesAreOwned'
  BY <1>1 DEF ProcessesAreOwned, Alive, Unused, OneVM, TaskOwnsVM
<1>3. StopsHold'
  BY <1>1 DEF StopsHold, Alive, Unused, ProcessesAreOwned, OneVM, TaskOwnsVM
<1>4. OneVM'
  BY <1>1 DEF OneVM, Alive, Unused, ProcessesAreOwned, TaskOwnsVM
<1>5. TaskOwnsVM'
  BY <1>1 DEF TaskOwnsVM, Alive, Unused, ProcessesAreOwned, OneVM
<1>6. StopIsPending'
  BY <1>1 DEF StopIsPending, Alive, Unused, ProcessesAreOwned, OneVM, TaskOwnsVM, StopsHold
<1>7. QED
  BY <1>1, <1>2, <1>3, <1>4, <1>5, <1>6

LEMMA MarkStoppedStep ==
    ASSUME IInv, NEW c \in Callers, MarkStopped(c)
    PROVE  IInv'
<1> USE NoneIsNoTask, SupervisorAssumption DEF IInv, TypeOK, Task, MarkStopped, Return, memory, calls
<1>1. TypeOK'
  BY DEF TypeOK, Alive, Unused
<1>2. ProcessesAreOwned'
  BY <1>1 DEF ProcessesAreOwned, Alive, Unused, OneVM, TaskOwnsVM
<1>3. StopsHold'
  BY <1>1 DEF StopsHold, Alive, Unused, ProcessesAreOwned, OneVM, TaskOwnsVM
<1>4. OneVM'
  BY <1>1 DEF OneVM, Alive, Unused, ProcessesAreOwned, TaskOwnsVM
<1>5. TaskOwnsVM'
  BY <1>1 DEF TaskOwnsVM, Alive, Unused, ProcessesAreOwned, OneVM
<1>6. StopIsPending'
  BY <1>1 DEF StopIsPending, Alive, Unused, ProcessesAreOwned, OneVM, TaskOwnsVM, StopsHold
<1>7. QED
  BY <1>1, <1>2, <1>3, <1>4, <1>5, <1>6

LEMMA StopReturnsStep ==
    ASSUME IInv, NEW c \in Callers, StopReturns(c)
    PROVE  IInv'
<1> USE NoneIsNoTask, SupervisorAssumption DEF IInv, TypeOK, Task, StopReturns, Return, memory, calls
<1>1. TypeOK'
  BY DEF TypeOK, Alive, Unused
<1>2. ProcessesAreOwned'
  BY <1>1 DEF ProcessesAreOwned, Alive, Unused, OneVM, TaskOwnsVM
<1>3. StopsHold'
  BY <1>1 DEF StopsHold, Alive, Unused, ProcessesAreOwned, OneVM, TaskOwnsVM
<1>4. OneVM'
  BY <1>1 DEF OneVM, Alive, Unused, ProcessesAreOwned, TaskOwnsVM
<1>5. TaskOwnsVM'
  BY <1>1 DEF TaskOwnsVM, Alive, Unused, ProcessesAreOwned, OneVM
<1>6. StopIsPending'
  BY <1>1 DEF StopIsPending, Alive, Unused, ProcessesAreOwned, OneVM, TaskOwnsVM, StopsHold
<1>7. QED
  BY <1>1, <1>2, <1>3, <1>4, <1>5, <1>6

LEMMA StopKillsStep ==
    ASSUME IInv, NEW c \in Callers, StopKills(c)
    PROVE  IInv'
<1> USE NoneIsNoTask, SupervisorAssumption DEF IInv, TypeOK, Task, StopKills, Kill, memory, calls
<1>1. TypeOK'
  BY DEF TypeOK, Alive, Unused
<1>2. ProcessesAreOwned'
  BY <1>1 DEF ProcessesAreOwned, Alive, Unused, OneVM, TaskOwnsVM
<1>3. StopsHold'
  BY <1>1 DEF StopsHold, Alive, Unused, ProcessesAreOwned, OneVM, TaskOwnsVM
<1>4. OneVM'
  BY <1>1 DEF OneVM, Alive, Unused, ProcessesAreOwned, TaskOwnsVM
<1>5. TaskOwnsVM'
  BY <1>1 DEF TaskOwnsVM, Alive, Unused, ProcessesAreOwned, OneVM
<1>6. StopIsPending'
  BY <1>1 DEF StopIsPending, Alive, Unused, ProcessesAreOwned, OneVM, TaskOwnsVM, StopsHold
<1>7. QED
  BY <1>1, <1>2, <1>3, <1>4, <1>5, <1>6

LEMMA StopGivesUpStep ==
    ASSUME IInv, NEW c \in Callers, StopGivesUp(c)
    PROVE  IInv'
<1> USE NoneIsNoTask, SupervisorAssumption DEF IInv, TypeOK, Task, StopGivesUp, Return, memory, calls
<1>1. TypeOK'
  BY DEF TypeOK, Alive, Unused
<1>2. ProcessesAreOwned'
  BY <1>1 DEF ProcessesAreOwned, Alive, Unused, OneVM, TaskOwnsVM
<1>3. StopsHold'
  BY <1>1 DEF StopsHold, Alive, Unused, ProcessesAreOwned, OneVM, TaskOwnsVM
<1>4. OneVM'
  BY <1>1 DEF OneVM, Alive, Unused, ProcessesAreOwned, TaskOwnsVM
<1>5. TaskOwnsVM'
  BY <1>1 DEF TaskOwnsVM, Alive, Unused, ProcessesAreOwned, OneVM
<1>6. StopIsPending'
  BY <1>1 DEF StopIsPending, Alive, Unused, ProcessesAreOwned, OneVM, TaskOwnsVM, StopsHold
<1>7. QED
  BY <1>1, <1>2, <1>3, <1>4, <1>5, <1>6

LEMMA ReadPIDStep ==
    ASSUME IInv, NEW c \in Callers, ReadPID(c)
    PROVE  IInv'
<1> USE NoneIsNoTask, SupervisorAssumption DEF IInv, TypeOK, Task, ReadPID, memory, calls
<1>1. TypeOK'
  BY DEF TypeOK, Alive, Unused
<1>2. ProcessesAreOwned'
  BY <1>1 DEF ProcessesAreOwned, Alive, Unused, OneVM, TaskOwnsVM
<1>3. StopsHold'
  BY <1>1 DEF StopsHold, Alive, Unused, ProcessesAreOwned, OneVM, TaskOwnsVM
<1>4. OneVM'
  BY <1>1 DEF OneVM, Alive, Unused, ProcessesAreOwned, TaskOwnsVM
<1>5. TaskOwnsVM'
  BY <1>1 DEF TaskOwnsVM, Alive, Unused, ProcessesAreOwned, OneVM
<1>6. StopIsPending'
  BY <1>1 DEF StopIsPending, Alive, Unused, ProcessesAreOwned, OneVM, TaskOwnsVM, StopsHold
<1>7. QED
  BY <1>1, <1>2, <1>3, <1>4, <1>5, <1>6

LEMMA RemoveStaleStep ==
    ASSUME IInv, NEW c \in Callers, RemoveStale(c)
    PROVE  IInv'
<1> USE NoneIsNoTask, SupervisorAssumption DEF IInv, TypeOK, Task, RemoveStale, RemovePID, Return, memory, calls
<1>1. TypeOK'
  BY DEF TypeOK, Alive, Unused
<1>2. ProcessesAreOwned'
  BY <1>1 DEF ProcessesAreOwned, Alive, Unused, OneVM, TaskOwnsVM
<1>3. StopsHold'
  BY <1>1 DEF StopsHold, Alive, Unused, ProcessesAreOwned, OneVM, TaskOwnsVM
<1>4. OneVM'
  BY <1>1 DEF OneVM, Alive, Unused, ProcessesAreOwned, TaskOwnsVM
<1>5. TaskOwnsVM'
  BY <1>1 DEF TaskOwnsVM, Alive, Unused, ProcessesAreOwned, OneVM
<1>6. StopIsPending'
  BY <1>1 DEF StopIsPending, Alive, Unused, ProcessesAreOwned, OneVM, TaskOwnsVM, StopsHold
<1>7. QED
  BY <1>1, <1>2, <1>3, <1>4, <1>5, <1>6

LEMMA PollKillsStep ==
    ASSUME IInv, NEW c \in Callers, PollKills(c)
    PROVE  IInv'
<1> USE NoneIsNoTask, SupervisorAssumption DEF IInv, TypeOK, Task, PollKills, Kill, Return, memory, calls
<1>1. TypeOK'
  BY DEF TypeOK, Alive, Unused
<1>2. ProcessesAreOwned'
  BY <1>1 DEF ProcessesAreOwned, Alive, Unused, OneVM, TaskOwnsVM
<1>3. StopsHold'
  BY <1>1 DEF StopsHold, Alive, Unused, ProcessesAreOwned, OneVM, TaskOwnsVM
<1>4. OneVM'
  <2>1. ASSUME NEW p \in Procs, proc'[p] = "alive", p \notin unlisted'
        PROVE  FALSE
    <3>1. p # held[c] /\ proc[p] = "alive" /\ p \notin unlisted
      BY <2>1
    <3>2. pidfile = p
      BY <3>1 DEF OneVM
    <3>3. QED
      BY <2>1, <3>1, <3>2 DEF Alive
  <2>2. QED
    BY <2>1 DEF OneVM
<1>5. TaskOwnsVM'
  BY <1>1 DEF TaskOwnsVM, Alive, Unused, ProcessesAreOwned, OneVM
<1>6. StopIsPending'
  BY <1>1 DEF StopIsPending, Alive, Unused, ProcessesAreOwned, OneVM, TaskOwnsVM, StopsHold
<1>7. QED
  BY <1>1, <1>2, <1>3, <1>4, <1>5, <1>6

\* Every step preserves the invariant.
LEMMA NextIInv == IInv /\ [Next]_vars => IInv'
<1> SUFFICES ASSUME IInv, [Next]_vars PROVE IInv'
  OBVIOUS
<1>1. CASE StartCall
  BY <1>1, StartFindsRunningStep, StartFailsStep, StartSpawnsStep DEF StartCall
<1>2. CASE Timer
  BY <1>2, RestartStep, RestartAbandonedStep, RestartFailsStep DEF Timer
<1>3. CASE Inspect
  BY <1>3, InspectStep
<1>4. CASE GatewayRestarts
  BY <1>4, GatewayRestartsStep
<1>5. CASE \E c \in Callers : Stop(c) \/ Cancelled(c) \/ Stopping(c)
  BY <1>5, StopStep, CancelledStep, MarkStoppedStep, StopReturnsStep, StopKillsStep,
     StopGivesUpStep, ReadPIDStep, RemoveStaleStep, PollKillsStep DEF Stopping
<1>6. CASE \E p \in Procs : Exit(p) \/ Reap(p) \/ Watched(p)
  BY <1>6, ExitStep, ReapStep, WatchedStep
<1>7. CASE UNCHANGED vars
  BY <1>7 DEF vars, memory, calls, IInv, TypeOK, ProcessesAreOwned, StopsHold, OneVM,
              TaskOwnsVM, StopIsPending, Alive
<1>8. QED
  BY <1>1, <1>2, <1>3, <1>4, <1>5, <1>6, <1>7 DEF Next

\* The inductive invariant: who owns, watches and stops which process.
THEOREM SupervisorInvariant == Spec => []IInv
BY InitIInv, NextIInv, PTL DEF Spec

\* Only the VM that the pid file names lives, but for VMs whose own file was
\* removed under them.
THEOREM SingleVM == Spec => []OneVM
<1>1. IInv => OneVM
  BY DEF IInv
<1>2. QED
  BY <1>1, SupervisorInvariant, PTL

\* Once a Stop was the last call and all have returned, nothing lives and the
\* restart after a crash revives nothing, but for VMs whose own file was removed
\* under them.
THEOREM StopIsFinal == Spec => []StoppedStaysDown
<1>1. IInv => StoppedStaysDown
  BY DEF IInv, StopIsPending, StoppedStaysDown
<1>2. QED
  BY <1>1, SupervisorInvariant, PTL

\* Every variable keeps its type.
THEOREM SupervisorTypes == Spec => []TypeOK
<1>1. IInv => TypeOK
  BY DEF IInv
<1>2. QED
  BY <1>1, SupervisorInvariant, PTL
=============================================================================

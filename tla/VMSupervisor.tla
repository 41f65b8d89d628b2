---------------------------- MODULE VMSupervisor ----------------------------
(***************************************************************************)
(* Supervision of the Firecracker process of one runtime                   *)
(* (internal/hostadapter/runtimebackend/firecracker_supervisor.go).        *)
(*                                                                         *)
(* The supervisor's memory is a task per runtime, guarded by one mutex; a  *)
(* Start replaces the task, but the goroutine that waits for the process   *)
(* of the old one, and the timer that was to restart it, live on.  A file  *)
(* names the process, so that a VM outlives the gateway: after a restart   *)
(* of the gateway no task exists and the file is all that is known.        *)
(* Starts are one step, since they hold the mutex throughout; a Stop holds *)
(* it only to mark the task, and waits without it.                         *)
(*                                                                         *)
(* Process ids are not used twice.  A VM may exit at any moment, of itself *)
(* or asked by SIGTERM; SIGKILL ends it at once.                           *)
(***************************************************************************)
EXTENDS Integers, FiniteSets

CONSTANTS
    Callers,      \* goroutines that call Stop
    RestartVM,    \* shouldRestartFirecrackerVM of the runtime's policy
    MaxTasks,     \* bound: tasks one gateway's Starts make
    MaxProcs,     \* bound: processes spawned
    MaxGateways   \* bound: gateways after the first

None == 0
Tasks == 1..MaxTasks
Procs == 1..MaxProcs

ASSUME SupervisorAssumption ==
    /\ RestartVM \in BOOLEAN
    /\ MaxTasks \in Nat /\ MaxProcs \in Nat /\ MaxGateways \in Nat

VARIABLES
    (* the supervisor *)
    task,       \* s.tasks[runtime], or None
    tasks,      \* every task of this gateway: its process, flags and state
    sleeping,   \* tasks whose restart waits for the backoff
    (* the goroutines *)
    watch,      \* of each process: the goroutine in cmd.Wait
    owner,      \* the task that goroutine belongs to
    pc,         \* of each caller of Stop
    held,       \* the process it stops
    (* the host *)
    proc,       \* of each process
    pidfile,    \* the process the pid file names, or None
    gateways,   \* gateways so far
    (* what happened, for the properties *)
    wanted,     \* the last of the calls was a Start
    unlisted    \* processes whose file was removed while they lived

memory == <<task, tasks, sleeping>>
calls  == <<pc, held>>
vars   == <<memory, watch, owner, calls, proc, pidfile, gateways, wanted, unlisted>>

Task == [cmd : Procs \cup {None}, stopRequested : BOOLEAN,
         state : {"unused", "running", "stopping", "stopped", "crashed", "failed"}]

\* A task whose process could not be started is "failed": the code says crashed,
\* with the error in lastError.
Unused == [cmd |-> None, stopRequested |-> FALSE, state |-> "unused"]

TypeOK ==
    /\ task \in Tasks \cup {None}
    /\ tasks \in [Tasks -> Task]
    /\ sleeping \in SUBSET Tasks
    /\ watch \in [Procs -> {"none", "waiting", "reaped", "ended"}]
    /\ owner \in [Procs -> Tasks \cup {None}]
    /\ pc \in [Callers -> {"idle", "wait", "killed", "mark", "untracked", "stale", "poll"}]
    /\ held \in [Callers -> Procs \cup {None}]
    /\ proc \in [Procs -> {"unborn", "alive", "dead"}]
    /\ pidfile \in Procs \cup {None}
    /\ gateways \in 0..MaxGateways
    /\ wanted \in BOOLEAN /\ unlisted \in SUBSET Procs

Init ==
    /\ task = None
    /\ tasks = [t \in Tasks |-> Unused]
    /\ sleeping = {}
    /\ watch = [p \in Procs |-> "none"]
    /\ owner = [p \in Procs |-> None]
    /\ pc = [c \in Callers |-> "idle"]
    /\ held = [c \in Callers |-> None]
    /\ proc = [p \in Procs |-> "unborn"]
    /\ pidfile = None
    /\ gateways = 0
    /\ wanted = FALSE
    /\ unlisted = {}

Alive(p) == p # None /\ proc[p] = "alive"

\* removePID: by the runtime's name, whichever process the file names.
RemovePID ==
    /\ pidfile' = None
    /\ unlisted' = IF Alive(pidfile) THEN unlisted \cup {pidfile} ELSE unlisted

-----------------------------------------------------------------------------
(* Start, and the restart after a crash *)

\* startLocked of task t with process p: the child runs, the file names it
\* and a goroutine waits for it.
Spawn(t, p) ==
    /\ proc[p] = "unborn"
    /\ \A q \in Procs : q < p => proc[q] # "unborn"
    /\ proc' = [proc EXCEPT ![p] = "alive"]
    /\ pidfile' = p
    /\ watch' = [watch EXCEPT ![p] = "waiting"]
    /\ owner' = [owner EXCEPT ![p] = t]
    /\ tasks' = [tasks EXCEPT ![t] = [cmd |-> p, stopRequested |-> FALSE,
                                      state |-> "running"]]

\* Fault: Start looks at its own tasks only.
RunningTask == task # None /\ tasks[task].state = "running"

\* The task says so, or the file names a living process.
Running ==
    \/ task # None /\ tasks[task].state = "running"
    \/ Alive(pidfile)

\* A VM that runs is left as it is.
StartFindsRunning ==
    /\ Running
    /\ wanted' = TRUE
    /\ UNCHANGED <<memory, watch, owner, calls, proc, pidfile, gateways, unlisted>>

FreshTask(t) ==
    /\ tasks[t].state = "unused"
    /\ \A u \in Tasks : u < t => tasks[u].state # "unused"

StartSpawns(t, p) ==
    /\ ~Running
    /\ FreshTask(t)
    /\ task' = t
    /\ Spawn(t, p)
    /\ wanted' = TRUE
    /\ UNCHANGED <<sleeping, calls, gateways, unlisted>>

\* The sockets, the log or the executable refuse: the task has no process.
StartFails(t) ==
    /\ ~Running
    /\ FreshTask(t)
    /\ task' = t
    /\ tasks' = [tasks EXCEPT ![t] = [Unused EXCEPT !.state = "failed"]]
    /\ pidfile' = None
    /\ wanted' = TRUE
    /\ UNCHANGED <<sleeping, watch, owner, calls, proc, gateways, unlisted>>

\* Fault: the restart does not look whether the VM was stopped meanwhile.
MayRestartAlways(t) == task = t

MayRestart(t) == task = t /\ ~tasks[t].stopRequested

\* The backoff is over: the restart, unless the task was replaced or stopped.
Restart(t, p) ==
    /\ t \in sleeping
    /\ MayRestart(t)
    /\ sleeping' = sleeping \ {t}
    /\ Spawn(t, p)
    /\ UNCHANGED <<task, calls, gateways, wanted, unlisted>>

RestartAbandoned(t) ==
    /\ t \in sleeping
    /\ ~MayRestart(t)
    /\ sleeping' = sleeping \ {t}
    /\ UNCHANGED <<task, tasks, watch, owner, calls, proc, pidfile, gateways, wanted,
                   unlisted>>

\* startLocked fails before it has a new process; nothing tries again.
RestartFails(t) ==
    /\ t \in sleeping
    /\ MayRestart(t)
    /\ sleeping' = sleeping \ {t}
    /\ tasks' = [tasks EXCEPT ![t].state = "failed"]
    /\ UNCHANGED <<task, watch, owner, calls, proc, pidfile, gateways, wanted, unlisted>>

-----------------------------------------------------------------------------
(* The goroutine that waits for process p *)

Exit(p) ==
    /\ proc[p] = "alive"
    /\ proc' = [proc EXCEPT ![p] = "dead"]
    /\ UNCHANGED <<memory, watch, owner, calls, pidfile, gateways, wanted, unlisted>>

Reap(p) ==
    /\ watch[p] = "waiting"
    /\ proc[p] = "dead"
    /\ watch' = [watch EXCEPT ![p] = "reaped"]
    /\ UNCHANGED <<memory, owner, calls, proc, pidfile, gateways, wanted, unlisted>>

\* Fault: a crash is recorded and never answered.
AfterExitNoRestart(t) ==
    /\ tasks' = [tasks EXCEPT ![t].state = IF @ = "stopping" THEN "stopped" ELSE "crashed"]
    /\ UNCHANGED sleeping

\* Fault: a state no reader of the status knows.
AfterExitUnknown(t) ==
    /\ tasks' = [tasks EXCEPT ![t].state = "exited"]
    /\ UNCHANGED sleeping

\* What becomes of the task: stopped if it was asked to, else crashed, and
\* then restarted if the policy says so.
AfterExit(t) ==
    IF tasks[t].stopRequested
    THEN /\ tasks' = [tasks EXCEPT ![t].state = "stopped"]
         /\ UNCHANGED sleeping
    ELSE /\ tasks' = [tasks EXCEPT ![t].state = "crashed"]
         /\ sleeping' = IF RestartVM THEN sleeping \cup {t} ELSE sleeping

\* watch takes the mutex.  The comparison is with the process of its own task,
\* which may have been replaced.
Watched(p) ==
    /\ watch[p] = "reaped"
    /\ watch' = [watch EXCEPT ![p] = "ended"]
    /\ IF tasks[owner[p]].cmd = p
       THEN RemovePID /\ AfterExit(owner[p])
       ELSE UNCHANGED <<pidfile, unlisted, tasks, sleeping>>
    /\ UNCHANGED <<task, owner, calls, proc, gateways, wanted>>

-----------------------------------------------------------------------------
(* Stop, by caller c *)

\* Fault: Stop asks the process to end and not the task.
StopUnmarked(c) ==
    /\ pc[c] = "idle"
    /\ wanted' = FALSE
    /\ IF task = None
       THEN /\ pc' = [pc EXCEPT ![c] = "untracked"]
            /\ UNCHANGED <<tasks, held>>
       ELSE /\ tasks' = [tasks EXCEPT ![task].state = "stopping"]
            /\ held' = [held EXCEPT ![c] = tasks[task].cmd]
            /\ pc' = [pc EXCEPT ![c] = IF tasks[task].cmd = None THEN "mark" ELSE "wait"]
    /\ UNCHANGED <<task, sleeping, watch, owner, proc, pidfile, gateways, unlisted>>

Stop(c) ==
    /\ pc[c] = "idle"
    /\ wanted' = FALSE
    /\ IF task = None
       THEN /\ pc' = [pc EXCEPT ![c] = "untracked"]
            /\ UNCHANGED <<tasks, held>>
       ELSE /\ tasks' = [tasks EXCEPT ![task] = [cmd |-> @.cmd, stopRequested |-> TRUE,
                                                  state |-> "stopping"]]
            /\ held' = [held EXCEPT ![c] = tasks[task].cmd]
            /\ pc' = [pc EXCEPT ![c] = IF tasks[task].cmd = None THEN "mark" ELSE "wait"]
    /\ UNCHANGED <<task, sleeping, watch, owner, proc, pidfile, gateways, unlisted>>

Return(c) ==
    /\ pc' = [pc EXCEPT ![c] = "idle"]
    /\ held' = [held EXCEPT ![c] = None]

\* markStopped goes by the runtime's name: the task may be a newer one.
MarkStopped(c) ==
    /\ pc[c] = "mark"
    /\ tasks' = IF task = None THEN tasks ELSE [tasks EXCEPT ![task].state = "stopped"]
    /\ Return(c)
    /\ UNCHANGED <<task, sleeping, watch, owner, proc, pidfile, gateways, wanted, unlisted>>

\* The done channel of the process is closed.
StopReturns(c) ==
    /\ pc[c] \in {"wait", "killed"}
    /\ watch[held[c]] = "ended"
    /\ Return(c)
    /\ UNCHANGED <<memory, watch, owner, proc, pidfile, gateways, wanted, unlisted>>

Kill(p) == proc' = [proc EXCEPT ![p] = "dead"]

\* Fault: a VM that ignores SIGTERM is waited for.
StopWaits(c) == pc[c] = "wait" /\ watch[held[c]] = "ended" /\ UNCHANGED vars

\* The stop timeout fires.
StopKills(c) ==
    /\ pc[c] = "wait"
    /\ Kill(held[c])
    /\ pc' = [pc EXCEPT ![c] = "killed"]
    /\ UNCHANGED <<memory, watch, owner, held, pidfile, gateways, wanted, unlisted>>

\* The second timeout fires.
StopGivesUp(c) ==
    /\ pc[c] = "killed"
    /\ Return(c)
    /\ UNCHANGED <<memory, watch, owner, proc, pidfile, gateways, wanted, unlisted>>

\* The caller's context ends: the VM is killed and the caller gets an error.
Cancelled(c) ==
    /\ pc[c] \in {"wait", "poll"}
    /\ Kill(held[c])
    /\ Return(c)
    /\ UNCHANGED <<memory, watch, owner, pidfile, gateways, wanted, unlisted>>

\* stopPersisted reads the file without the mutex ...
ReadPID(c) ==
    /\ pc[c] = "untracked"
    /\ held' = [held EXCEPT ![c] = pidfile]
    /\ pc' = [pc EXCEPT ![c] = IF pidfile = None THEN "idle"
                               ELSE IF Alive(pidfile) THEN "poll" ELSE "stale"]
    /\ UNCHANGED <<memory, watch, owner, proc, pidfile, gateways, wanted, unlisted>>

\* ... and removes it if the process was dead, or once it is.
RemoveStale(c) ==
    /\ \/ pc[c] = "stale"
       \/ pc[c] = "poll" /\ ~Alive(held[c])
    /\ RemovePID
    /\ Return(c)
    /\ UNCHANGED <<memory, watch, owner, proc, gateways, wanted>>

PollKills(c) ==
    /\ pc[c] = "poll"
    /\ Kill(held[c])
    /\ pidfile' = None
    /\ unlisted' = IF pidfile # held[c] /\ Alive(pidfile) THEN unlisted \cup {pidfile} ELSE unlisted
    /\ Return(c)
    /\ UNCHANGED <<memory, watch, owner, gateways, wanted>>

-----------------------------------------------------------------------------
\* Inspect without a task: a file that names a dead process is removed.
Inspect ==
    /\ task = None
    /\ pidfile # None /\ ~Alive(pidfile)
    /\ pidfile' = None
    /\ UNCHANGED <<memory, watch, owner, calls, proc, gateways, wanted, unlisted>>

\* The gateway ends and another begins.  The VM and the file stay; a Stop that
\* was under way leaves open what it did.
GatewayRestarts ==
    /\ gateways < MaxGateways
    /\ gateways' = gateways + 1
    /\ task' = None
    /\ tasks' = [t \in Tasks |-> Unused]
    /\ sleeping' = {}
    /\ watch' = [p \in Procs |-> IF proc[p] = "unborn" THEN "none" ELSE "ended"]
    /\ pc' = [c \in Callers |-> "idle"]
    /\ held' = [c \in Callers |-> None]
    /\ wanted' = (wanted \/ \E c \in Callers : pc[c] # "idle")
    /\ UNCHANGED <<owner, proc, pidfile, unlisted>>

StartCall ==
    \/ StartFindsRunning
    \/ \E t \in Tasks : StartFails(t) \/ \E p \in Procs : StartSpawns(t, p)

Timer ==
    \E t \in Tasks :
        RestartAbandoned(t) \/ RestartFails(t) \/ \E p \in Procs : Restart(t, p)

Stopping(c) ==
    \/ MarkStopped(c) \/ StopReturns(c) \/ StopKills(c) \/ StopGivesUp(c)
    \/ ReadPID(c) \/ RemoveStale(c) \/ PollKills(c)

Next ==
    \/ StartCall \/ Timer \/ Inspect \/ GatewayRestarts
    \/ \E c \in Callers : Stop(c) \/ Cancelled(c) \/ Stopping(c)
    \/ \E p \in Procs : Exit(p) \/ Reap(p) \/ Watched(p)

Spec == Init /\ [][Next]_vars

\* Goroutines run and timers fire; no caller has to call, no VM has to exit.
FairSpec ==
    /\ Spec
    /\ \A c \in Callers : WF_vars(Stopping(c))
    /\ \A p \in Procs : WF_vars(Reap(p)) /\ WF_vars(Watched(p))
    /\ WF_vars(Timer)

-----------------------------------------------------------------------------
(* Properties *)

\* However Starts, Stops, crashes, restarts and gateways follow one another,
\* the VM that the file names is the only one of the runtime that lives, but for
\* VMs whose own file a goroutine of the one before them removed (watch and
\* stopPersisted remove it by the runtime's name).
OneVM == \A p \in Procs : proc[p] = "alive" /\ p \notin unlisted => pidfile = p

\* Start does not run a second VM beside one that lives, whichever gateway
\* started it, as TestFirecrackerVMSupervisorStartSkipsPersistedProcess
\* expects.  The code does: see unlisted.
NoDuplicateVM == Cardinality({p \in Procs : proc[p] = "alive"}) <= 1

\* When the last call was a Stop and every Stop has returned, with or without
\* an error, no VM lives and no restart after a crash brings one back, but for
\* a VM whose own file was removed under it: a Stop of the next gateway finds
\* neither task nor file, and returns without an error while that VM lives
\* (firecracker_supervisor.go:109-111).
StoppedStaysDown ==
    (~wanted /\ \A c \in Callers : pc[c] = "idle")
        => \A p \in Procs : proc[p] = "alive" => p \in unlisted

\* Every Stop returns, whether the VM obeys SIGTERM or not.
StopsEnd == \A c \in Callers : pc[c] # "idle" ~> pc[c] = "idle"

\* A crash that no Stop asked for is answered by a restart, unless a Start, a
\* Stop or a new gateway takes over, or the restart itself fails.
Crashed(t) ==
    /\ RestartVM
    /\ task = t
    /\ tasks[t].state = "running"
    /\ ~Alive(tasks[t].cmd)

Answered(t) ==
    \/ task # t
    \/ tasks[t].stopRequested
    \/ Alive(tasks[t].cmd)
    \/ tasks[t].state = "failed"
    \/ \A p \in Procs : proc[p] # "unborn"

CrashIsAnswered == \A t \in Tasks : Crashed(t) ~> Answered(t)

-----------------------------------------------------------------------------
(* The inductive invariant behind OneVM and StoppedStaysDown *)

\* A process is known to what watches it, and a task has no other watcher.
ProcessesAreOwned ==
    /\ \A p \in Procs :
          /\ proc[p] = "unborn" => pidfile # p /\ watch[p] = "none"
          /\ watch[p] = "reaped" => proc[p] = "dead"
          /\ watch[p] \in {"waiting", "reaped"} => owner[p] # None
    /\ \A t \in Tasks :
          /\ tasks[t].state = "unused" => task # t /\ t \notin sleeping
          /\ LET p == tasks[t].cmd IN
             p # None => /\ proc[p] # "unborn"
                         /\ watch[p] = "ended" => proc[p] = "dead"
          /\ t \in sleeping => tasks[t].cmd # None /\ ~Alive(tasks[t].cmd)

\* What a Stop holds, and that it leaves no living process behind.
StopsHold ==
    \A c \in Callers :
        /\ pc[c] \in {"wait", "killed", "poll", "stale"} <=> held[c] # None
        /\ pc[c] \in {"wait", "killed", "poll", "stale"} => proc[held[c]] # "unborn"
        /\ pc[c] \in {"killed", "stale"} => proc[held[c]] = "dead"
        /\ pc[c] = "wait" /\ watch[held[c]] = "ended" => proc[held[c]] = "dead"

\* The living VM is the one of the current task, if there is one.
TaskOwnsVM ==
    task # None => \A p \in Procs :
        proc[p] = "alive" /\ p \notin unlisted => tasks[task].cmd = p

\* After a Stop the task is marked, and whoever lives is being stopped.
StopIsPending ==
    ~wanted => /\ task # None => tasks[task].stopRequested
               /\ \A p \in Procs : proc[p] = "alive" /\ p \notin unlisted =>
                     \E c \in Callers : \/ pc[c] = "untracked"
                                        \/ pc[c] \in {"wait", "poll"} /\ held[c] = p

IInv ==
    /\ TypeOK /\ ProcessesAreOwned /\ StopsHold /\ OneVM /\ TaskOwnsVM /\ StopIsPending
=============================================================================

# Formal models of the agency gateway

TLA+ models of the parts of this repository where several goroutines, processes
and failures meet, checked with TLC on small instances and, where it matters
most, proved with TLAPS for every instance. Line numbers refer to the
repository at the commit beside which these files are kept; `PROJECT.json` maps
every definition to its lines.

## 1. Inventory

The *gateway* (Go, `cmd/gateway`, `internal/`) manages *agents*. An agent is a
runtime made of an *enforcer* (Go, `images/enforcer`), which mediates all it
does, and a *body* (Python, `images/body`), which runs the model loop. Comms and
knowledge are services of their own.

| Component | State | Operations | What is hard | What makes it correct |
|---|---|---|---|---|
| Constraint manager `internal/context/manager.go` | per agent: version, latest change, history, acknowledged set; registered socket | push, ack, mark timeout / halted, register / unregister, deliver | one unordered goroutine per change; superseded changes; retries; timeouts | an ack is of the change it acknowledges; history append-only; no change is lost silently |
| Constraint transport `inbound_ws_client.go` | closed flag, `pushMu`, ack channel | push, read loop, close, disconnect callback | stale acks in the channel, a blocked reader, a callback after replacement | acks reach their push; goroutines end; a live socket stays registered |
| Enforcer constraint handler `images/enforcer/constraint.go` | constraint state (pointer), latest change | swap and ack, serve to body, body's ack, notify | order of pushes over several sockets | never goes back; acks what it stored |
| Severity `classify.go` | - | classify, escalate | baseline changes between push and ack | never below the classification |
| Halt and resume `orchestrate/halt.go` | halt records, active-halt marker | halt, resume, constraint halt | a stop that fails midway; a halt during a start | every halt is on record; only a completed resume clears it |
| Start sequence, runtime supervisor `start.go`, `runtime_supervisor.go`, `capacity.go` | manifests with a phase, enforcer processes | seven-phase start, stop, get, reload | fail-closed at any phase; manifest read-modify-write; capacity race; requests without a lock | no half-started agent keeps running; a body boots behind its enforcer |
| Firecracker VM supervisor `hostadapter/runtimebackend/firecracker_supervisor.go` | a task per runtime, pid file | start, stop (tracked or by file), inspect, watch, restart after a crash | goroutines of replaced tasks; timers after a stop; a file read without the mutex | one VM per runtime; a stop is final |
| Missions `orchestrate/missions.go`, `api/missions`, `api/mcp_missions.go` | mission files, agents' copies, history | create, update, assign, pause, resume, complete, delete, failover | files without locks; two interfaces, one of which leaves the event bus alone; failover | subscriptions agree with status; one mission per agent |
| Mission claims `mission_claims.go` | claims with expiry | claim, release | expiry under a working holder | one holder at a time |
| Event bus `internal/events` | subscriptions, ring, schedules | publish, add / remove / (de)activate, register schedule | one event by three routes; retries; activate against remove | each subscriber served; nothing after removal |
| Comms service `services/comms` | websocket registry, message store, task slot per agent | post a message, deliver a task, register / remove a socket | a socket's end after its replacement; a post repeated while the first is handled | a live socket is registered; a task reaches its agent |
| Body `images/body` | event queue, running conversation, what it took and answered | receive, poll, drain, run, reload constraints | the same item by socket, file and catch-up; crash loses all of it | the poll takes no task twice, no message is answered twice |
| Meeseeks `meeseeks.go` | ephemeral agents | spawn, terminate, orphan | limits under concurrency | orphans are flagged |
| Enforcer budget `images/enforcer/budget.go`, `llm.go` | current task and its cost, cached total of the day, audit log | set task, check, record, remaining | check before, record after the call; stale totals; late charges | overspend bounded by the calls under way |
| Enforcer limiter, trajectory | windows of times | acquire, record, detect | arithmetic on clocks | - |
| Consent, credentials, instances | tokens, encrypted store, instance claims | - | single use, replace-by-rename | - |
| Policy, hub, routing, registry | documents | merge, install, resolve | mostly sequential | - |
| Knowledge, web, CLI | - | - | services and front ends | - |

Interactions: the API handler pushes a change into the manager and starts its
delivery; the delivery goroutine writes to the socket and waits; the socket's
read loop feeds it acks; its failure calls the halt controller, which stops the
runtime, which kills the enforcer and so closes the socket, whose read loop
calls back into the manager. Operators' halts and restarts enter the same loop
from the other side. That cycle is the core of the system's safety claim (an
unacknowledged change of constraints halts the agent), and is modelled first.
A second path leads from an event to the agent's work: the bus posts it to comms,
comms writes the agent's task slot and pushes over a websocket, the body queues,
polls and catches up. A third is the agent's life: a request starts, halts or
resumes it in steps, beside a VM supervisor that restarts it by itself.

## 2. Plan

| | Module | Contents | Status |
|---|---|---|---|
| 1 | `ConstraintDelivery`, `ConstraintDeliveryProofs` | manager, transport, enforcer's handler, operator's halt and start | done, proved |
| 2 | `ConstraintPromise` | what an operator is promised: changes issued in order, the newest decided once, deliveries closed once; `ConstraintDelivery` refines it | done, refinement checked and proved |
| 3 | `AgentLifecycle`, `AgentLifecycleProofs` | start, halt, resume, restart of agents in steps; capacity; enforcer and microVM; gateway restart | done, proved |
| 4 | `VMSupervisor`, `VMSupervisorProofs` | what 3 abstracts to one state per body: tasks, processes, watchers, pid file | done, proved |
| 5 | `Missions`, `MissionsProofs`, `MissionsSerialProofs` | mission files, copies, history, subscriptions, the interfaces that leave the bus alone, failover, restart | done, proved |
| 6 | `TaskDelivery`, `TaskDeliveryProofs` | an event's way from the bus through comms to the body | done, proved |
| 7 | `EnforcerBudget`, `EnforcerBudgetProofs` | spend checked before and recorded after concurrent calls, the total of the day | done, proved |
| 8 | `Schedules`, `SchedulesProofs` | the scheduler's table beside the missions' handlers and those who leave it alone | done; table proved |
| 9 | `MissionClaims` | claims that expire | later |
| 10 | `PolicyMerge` | the layered merge against a reference definition | later |

Each pair of modules that meet shares an interface rather than variables:
`AgentLifecycle` sees of a microVM the
states `VMSupervisor` gives its tasks, `TaskDelivery` sees a halt as the two
steps `AgentLifecycle` ends it with. Bounds stay at two actors and two or three
operations of each kind: the hazards listed in `PROJECT.json` all show with two.

## 3. ConstraintDelivery

**State.** `history` is `agentState.history`; its last entry is
`agentState.latest`, of which the code keeps a copy in step with the history
(`syncLatestToHistory`). `baseline` is `agentState.constraints`. A change is
named by its version, since a manager gives neither a version nor a change id
twice. `pc`, `stage`, `via` are the control state of the delivery goroutines;
`handler`, `pump`, `closed`, `doomed`, `pushMu`, `acks` are the gateway's end of
each socket; `link`, `toEnf`, `fromEnf` the connection, `enf` the enforcer's
constraint state. `applied`, `confirmed` and `haltTried` record what happened
and guard nothing. One agent is modelled: the manager's records and sockets of
different agents share only mutexes held for single steps.

| Action | Code |
|---|---|
| `Push` | `Manager.Push`, then `DeliverAsync` by the handler |
| `Resolve` | the lookup at the head of `deliverAsync` |
| `SendPush`, `PushRefused` | `InboundWSClient.Push` up to its write |
| `TakeAck`, `DropAck`, `PushFails` | the select loop of `Push`; timer and closed channel both fail it |
| `AckChange`, `RejectAck` | `Manager.Ack`: matching and mismatching hash |
| `MarkTimeout`, `HaltAgent`, `MarkHalted` | the end of `deliverAsync`; the halt may fail |
| `Accept`, `Register`, `CloseReplaced` | `connectContextWS`: upgrade and read loop; `RegisterWSClient`; the `Close()` after it |
| `ReadAck`, `ReadFails`, `OnDisconnect` | `readPump` and its disconnect callback |
| `ApplyPush`, `RefusePush`, `ServeEnds` | the enforcer's `handleWS` |
| `LinkDrops` | the network |
| `Unregister`, `StopRuntime`, `StartRuntime` | `haltAgent` / `restartAgent`, `HaltController.Halt`, a new enforcer |

An action is as large as what the code does without giving way: under a mutex,
or touching only what is the goroutine's own. Between a map update and the
`Close()` that follows it the code holds no lock, so `Register`/`Unregister`
and `CloseReplaced` are separate.

**Abstractions.** *Time*: a timer may fire at any moment of its wait, so the
severities' timeouts (`AckTimeout`, `HaltTimeout`) do not appear and the result
holds for any of them. *Constraint sets*: a set is its capabilities and one
limit, what `ClassifySeverity` reads. *Hashes*: members of `Garbled` are the
sets for which the two sides compute different hashes; equal hashes mean equal
sets. *The peer*: no code in `src/` opens the gateway's `context/ws` route (the
enforcer serves `/ws` and the comments say it dials in), so opening a socket is
an environment action, and the peer is assumed to answer as `handleWS` does.
*Writes*: a write to a dead connection may fail at once or seem to succeed.
*The data race* on `SetDisconnectCallback` (the read loop may run before the
callback is set) only produces outcomes the model has: the callback runs before
the registration it should undo, or not at all.
Not read by anything modelled: audit entries, reasons, initiators, timestamps.
`SetAlertFunc` is called by no production code, so the "alert" of stage 1 is an
audit entry only.

**Properties.**
`AckedWasApplied`, `BaselineIsNewestAcked`, `PendingSeverityCurrent` relate the
gateway's record to the enforcer and to older changes; `UnansweredIsHalted` says
that a delivery whose change was not answered, by an ack with a right or a wrong
hash, called the halt function, and `VerdictOfLatest` that none ends without a
verdict; `HistoryImmutable`
(a step property) that superseded entries are frozen; `NoAckStolen` that pushes
sharing a socket do not eat each other's acks; `LiveTransportRegistered` that a
late disconnect leaves the newer socket alone; `DeliveryEnds` and
`ReplacedSocketsEnd` are the liveness properties.

`KeepsPromise` is a refinement: `ConstraintPromise` knows no sockets, goroutines
or timers, only that changes are issued in order, that the newest alone can
still be accepted, refused or expire, that a delivery closes once (answered,
halt ordered, nobody to deliver to), and that a set is accepted only after the
agent had it in force. The mapping reads `verdict` from the history's status,
`delivery` from the control state of the goroutine, `accepted` from `baseline`
and `inForce` from `applied`.

**Fairness.** Weak fairness of each step of the gateway's goroutines: Go
schedules runnable goroutines, and the timers and write deadlines end every
wait. Weak fairness suffices for the lock of a socket: its holder leaves after
its timer, and at most two pushes per change exist, so a waiter is passed only
finitely often. Nothing is assumed of operators, network or peer.

### Runs

| Run | Bounds | Shows |
|---|---|---|
| `ConstraintDelivery.cfg` | 2 changes over 3 sets (one garbled) and 1 socket, or 1 change, 2 sockets and 2 operator commands; channel of 1, fair | all properties; 318,248 states |
| `ConstraintMismatch.cfg` | 1 change with a garbled hash, 1 socket | **violated**: a change whose ack has a wrong hash ends unhalted |

Two changes are enough for supersession, stale acks and lock contention; a
channel of one lets it fill; two sockets give replacement, with a halt and a start
of the agent meanwhile. The two need not come together: an action constraint
(`Focus`) limits what operators do and what connects, which no fairness asks for,
so it takes no step away that a liveness property waits for. The safety theorems
do not depend on these bounds. Deadlock is not checked: with its bounded operator the
system really stops.

The violated statement, `FailedAckEscalates`, is `mid-session-constraint-push.md:187`:
an ack with a wrong hash is "a failed ack", escalated like a timeout. In the code it is
an answer: `Ack` sets the status `hash_mismatch` and writes an audit entry
(`manager.go:125`), and the delivery is over without a second push or a halt.

Other statements of the documents do not hold of this code, and no run states
them, since each shows at a glance.

- The enforcer stores whatever push arrives last (`constraint.go:138`), which may be
  the older change (`mid-session-constraint-push.md:174`): the gateway then reports
  change 2 as acknowledged while the enforcer enforces change 1;
  `BaselineIsNewestAcked` speaks of the gateway's record only.
- A change that finds no socket is neither queued nor replayed (`manager.go:348`,
  against `mid-session-constraint-push.md:293`).
- A change pushed before a restart of the agent fails on the old socket and halts the
  fresh runtime (`manager.go:345`): the delivery keeps the socket it looked up.
- A socket that drops before its callback is set (`handlers_context.go:136`) stays
  registered until the next one replaces it.
- **An acknowledged change says what the enforcer stores, not what the body runs.**
  The document has the enforcer report an ack once the body's hash came back
  (`mid-session-constraint-push.md:55-62`); the code acks as soon as it has swapped
  (`constraint.go:148`). And the body's part never succeeds at this commit:
  `reload_constraints` asks `AGENCY_ENFORCER_URL` (`body.py:563`, 807, 825), which is
  `<proxy>:3128/v1` (`runtime_supervisor.go:198`), while `/constraints` and its ack
  are served on the control port 8081 alone (enforcer `main.go:342-347`); the main
  port has no such route and answers 401 to a request without a key (`main.go:271-285`,
  `middleware.go:40-54`). The notification goes to `http://workspace:8090` unless
  `BODY_NOTIFY_URL`, which nothing sets, says otherwise (`main.go:38`). So
  `handleGetConstraints`, `handleBodyAck` and what follows a reload are left out:
  no behaviour of this program reaches them.
- The enforcer begins with an empty set (`constraint.go:57`), though
  `mid-session-constraint-push.md:206` has it seeded from `constraints.yaml`.

## 4. Missions

**State.** `file[m]` is `missions/<m>.yaml`, `copy[t]` the `mission.yaml` in the
directory of an agent (or, through MCP, of a team's name), `history[id]` the
versions with an entry in `history/<id>.jsonl`, `subs` how many
of each mission subscription the bus holds (their order only orders deliveries).
`MissionManager` has no lock and keeps
nothing in memory, so what a request in flight is, is the list of writes it has
left: `todo[r]`. `created` counts ids; `silenced` records which missions lost
their subscriptions and why, and guards nothing.

A request is one action that does its reads and early returns and fills `todo`,
then one `TakeStep` (or `StepFails`) per write, in the code's order.

| Action | Code |
|---|---|
| `Create`, `Update`, `Delete` | the REST handlers and `MissionManager`'s methods |
| `Assign` | pre-flight, `Assign` or `AssignToTeam`, `OnMissionAssigned` |
| `Pause`, `Resume`, `Complete` | the manager's method, then the bus if the interface is REST |
| `Failover` | `CheckCoordinatorFailover` at the end of a halt |
| `WriteFile`, `AppendHistory`, `WriteAgentCopy`, `RemoveMissionFromAgent`, `Unlink` | one file operation |
| `Subscribe`, `DeactivateByOrigin`, `ActivateByOrigin`, `RemoveByOrigin`, `Reroute` | one call of the bus |
| `StepFails` | a file operation fails: the handler returns its error (the copies and the bus are left behind), a removal is ignored, a failover goes on with its next mission |
| `Restart` | the gateway starts again: requests are gone, subscriptions rebuilt from the active missions |

`Interfaces` says who changes statuses: `"http"`, the REST handlers, or
`"mcp"`, the tools and the health monitor, which write the same files and leave
the bus alone. Updates, deletions, creations and failovers exist in REST only.

**Abstractions.** A version stands for the text of a mission. The reads of a
request are one step with its decision (their time is that of a few file reads;
the writes that follow are what interleaves). A file operation happens whole or
not at all; a torn write is not modelled. Ids are generated, never supplied. The
capability and quota checks of the pre-flight only refuse, and are left out. A
mission has one trigger, which is an event subscription; cron entries are in
`Schedules`, claims and the health monitor's decisions are not modelled. The order of a directory
listing is arbitrary.

**Properties.** `RoutesFollowStatus`, `ActiveIsRouted` and `RoutedOnce` relate the
bus to the files, `CopiesAreCurrent` the agents' copies to the files, each in the
states where no request is under way, after any sequence of requests, failovers
and restarts. `HistoryCoversOlderVersions` and `OnlyAssigneesHold` hold in every
state, for any overlap and any crash.

No liveness is stated and no fairness assumed: a handler has no loop that waits.
Deadlock is not checked: with creations and versions bounded and everything
deleted, the instance really stops.

| Run | Bounds | Shows |
|---|---|---|
| `Missions.cfg` | 2 missions, 2 agents, a team with coordinator and coverage and one without, 2 creations, 3 versions, one REST request at a time, restarts between requests | the four properties between requests; 3.2 million states |
| `MissionsConcurrent.cfg` | 1 mission, 3 agents, 1 led team, 2 requests at once, status changes over MCP, failing writes, crashes | history and assignees hold under every interleaving and failure; 2.1 million states, told apart without `subs` and `silenced`, which no guard and no property of this run reads |

Two missions and two agents are the least that let missions compete for an
agent; two creations let a name be used twice; three versions let an update
follow an update; the third agent of the concurrent run is a member who is
neither coordinator nor coverage. Two requests at once over either interface
are beyond a run of a few minutes: for history and assignees those interleavings are covered
by the theorems. With
overlapping requests, `RoutesFollowStatus` and its companions do not hold, as a
file system without locks suggests, and no document promises otherwise.

Documents and code differ here too. The pre-flight looks for an active mission
of the target itself (`missions.go:282`), so a mission that is paused, or is its
team's, is no obstacle, and one agent may end up with two active ones
(`missions.md:9` allows one); removing a mission removes
whichever mission's copy the agent holds (`missions.go:430`, against
`missions.md:123`), so deleting an old mission leaves the new one's triggers
reaching an agent that has no mission to read; a mission that was paused across a
restart of the gateway gets no triggers when it is resumed (`main.go:1104`). The
model has all three; the properties are those that hold with them.

## 5. Schedules

A trigger with a cron expression is not a subscription but a job of the gateway's
`Scheduler`. **State.** `exprs` is the scheduler's `entries` and `exprs`, which change
together, `deactivated` its map of paused ones, `jobs` what is in cron itself;
`file` the status and the schedule triggers of a mission, `request` a handler
with the calls it has left. `disturbed` records names and guards nothing.

| Action | Code |
|---|---|
| `Create`, `Update`, `Delete` | the REST handlers, which tell the scheduler nothing |
| `ChangeElsewhere` | the MCP tools and the health monitor, which do not either |
| `Begin`, `ChangeStatus`, `Reread` | assign, pause, resume, complete up to the scheduler: the read, the manager's method, which may fail before or after its write, and assign's second read |
| `Tell` | one call, under the scheduler's mutex: `Register`, `Deactivate`, `Remove`, the first half of `Activate` |
| `ActivateRegisters` | the second half of `Activate`, which let the mutex go in between |
| `GatewayRestarts` | an empty scheduler, and the schedules of the active missions |

**Abstractions.** Each of the manager's methods is one step here; their files are in
`Missions`. A mission names a schedule once, and its triggers are told about in any order, since
calls for different names touch nothing in common. When a job fires is not
modelled, only that it is there.

**Properties.** `EveryJobIsKnown`: in every interleaving cron has one job of a name at
most, the table knows it, and it is not kept as paused too; so whatever fires, a
later call finds it. `SchedulesFollowStatus`: once no handler is at work on a mission, its
schedule runs, by the expression of its file, exactly while it is active, after any
sequence of requests and restarts. It excepts names of which the scheduler was not told
(`disturbed`); a run without any one of these exceptions is violated:

- an update changed the trigger of an active or paused mission: a renamed schedule fires
  on under its old name, also after the mission was completed, until the gateway
  restarts (`handlers_missions.go:130`);
- two handlers at once for one mission: `Activate`, between its lookup and its
  registration, is overtaken by a `Remove` (`scheduler.go:76-84`), or a pause's calls
  come after those of the resumption that followed it;
- a tool or the health monitor changed the status; a manager's method failed after its
  write (`missions.go:463-472`);
- two missions have schedules of one name: the table is by name (`scheduler.go:39`);
- a mission was paused over a restart of the gateway, resumed after its completion, or
  deleted while paused (its schedule waits for a mission of that name that resumes).

`event-framework.md:125` ("When paused or completed, the schedule is deactivated or
removed") knows none of these. No liveness is stated: nothing here waits.

| Run | Bounds | Shows |
|---|---|---|
| `Schedules.cfg` | 2 missions, 1 name they may share, 2 good expressions and the empty one, 2 handlers, any number of requests, failures and restarts | the three properties; 718,140 states |

One name is enough, as names have nothing in common; two missions let it be shared, two
handlers reach the gap of `Activate`. The number of requests needs no bound, since the
state is finite.

## 6. AgentLifecycle

**State.** An agent is a `phase` in its manifest, a `body` as the VM supervisor
knows it (`adopted`: alive, known by its file only), an `enforcer` (of the
gateway's memory, or of its state file), the `marker` of an active halt, and whether
a `stray` enforcer or microVM runs that nobody knows.
Nothing is locked, so what a request in flight is, is the list of steps it has
left: `Program` writes each request's code down as such a list, a failing phase
replaces the rest by its teardown (`failClosed`), an early return empties it.
`fate`, `halted`, `lost` and `crowd` record what happened and guard nothing.

| Action | Code |
|---|---|
| `Begin` | a request of `api/agents` |
| `Inspect`, `CountAgent`, `Keep` | `Supervisor.Get`, within `checkCapacity` too, and the saves that follow |
| `Admit` ... `Session` | the phases of `StartSequence.Run`, each of which may fail |
| `StopBody`, `StopEnforcer`, `Stopped` | `Runtime.Stop`: all is tried, the manifest shows whether all succeeded |
| `Record`, `Guard`, `ClearActiveHalt` | `HaltController` |
| `BodyEnds`, `BodyDies`, `BodyRestarts`, `EnforcerEnds`, `GatewayRestarts` | the host |

**Abstractions.** A microVM is what `VMSupervisor` says of it. An enforcer's health,
ports and keys are left out, except that phase 6 runs `EnsureEnforcer` once more.
A cancelled client is a step that fails, since every step takes the request's
context; that includes the teardown's. The other backends, watchers,
`ReloadEnforcer`, `Ensure` and `Delete` are not modelled. Nor is a count of running
agents that fails: `countRunningRuntimeAgents` returns 0 when it cannot list the agents
(`start.go:598`), and the check then passes whatever runs.

What the code does that one may not expect, and the model has: `failClosed` runs
under the context of the request, so a client that goes away makes it fail; a
client that goes away during a halt has the agent killed and leaves neither
record nor marker (`halt.go:81`); a start of a running agent removes its API socket,
fails, and tears the running agent down; a second start's failure tears down the
first one's agent; an enforcer of before a restart of the gateway is not looked
for (`host_enforcer.go:78`), and a start leaves it as a stray nobody can stop; a
microVM whose enforcer ended is restarted without it; a start neither reads nor
clears the marker. A microVM that is `stopping` was sent its SIGKILL, so the
next gateway does not find it (`firecracker_supervisor.go:128`): the proof of
`CapacityBound` fails where a dying microVM is adopted again, since its slot
may have been given away.

The next gateway finds a microVM by its pid file alone, and that file may have been
removed under it (`VMSupervisor`): `GatewayRestarts` finds any of the living ones, and
those it does not find are strays, like an enforcer of before.

**Properties.** `StoppedStaysDown`: after a Stop without an error nothing that the
supervisors know runs until a start is admitted. `NothingHalfStarted`: what runs
while nobody works on the agent came up whole, or a Stop failed or a gateway
ended. Neither speaks of strays: a Stop finds neither task nor file and returns
nil while such a microVM lives, and a start spawns another beside it. `HaltIsRemembered`:
a halted agent has its marker until it is up again, through resumes that fail.
`BootsEnforced` (a step property): a body comes up behind its enforcer.
`CapacityBound`: no slot is reserved, so agents that the gateway knows exceed the
limit, but only by the starts that were in flight together, the crashes and the
new gateways.

No liveness is stated: requests end by the timeouts of what they call, and
nothing retries.

| Run | Bounds | Shows |
|---|---|---|
| `AgentLifecycle.cfg` | 2 agents for 1 slot, 2 requests at once (one agent has at most one that is no reading of its status), 3 in all, 1 fault | the six properties; 2.3 million states |
| `LifecycleOverlap.cfg` | 1 agent, 2 requests for it at once, no fault | **violated**: a halt beside a start leaves the agent recorded as halted and running |

Requests are interchangeable (symmetry), and a view leaves out what a request
no longer reads. One slot and two agents let starts compete; three requests let
a halt be followed by a resume beside a start. Requests for one agent do not
overlap in the first run, because the second shows what then happens.

## 7. VMSupervisor

**State.** `task` is `s.tasks[runtime]`, `tasks` all tasks of this gateway (a Start
replaces the task; the goroutine and timer of the old one live on), `watch` and
`owner` the goroutines in `cmd.Wait`, `sleeping` the pending restarts, `pc` and
`held` the callers of Stop, `pidfile` the file. `wanted` and `unlisted` (the processes
whose file was removed while they lived) record what happened and guard nothing.

| Action | Code |
|---|---|
| `StartFindsRunning`, `StartSpawns`, `StartFails` | `Start`, one step under the mutex |
| `Stop`, `MarkStopped`, `StopReturns`, `StopKills`, `StopGivesUp`, `Cancelled` | `Stop` of a tracked VM: it waits without the mutex |
| `ReadPID`, `RemoveStale`, `PollKills` | `stopPersisted`, without the mutex throughout |
| `Exit`, `Reap`, `Watched` | the process ends; `watch` |
| `Restart`, `RestartAbandoned`, `RestartFails` | `scheduleRestartLocked` after its backoff |
| `Inspect`, `GatewayRestarts` | a dead process's file is removed; memory is lost, the VM and the file are not |

**Abstractions.** Process ids are not reused; SIGKILL ends a process at once; a
process that ended and was not waited for counts as dead; times are
nondeterministic. A VM that a gateway of before started has no watcher and is
not restarted when it crashes; that is the code's.

**Properties.** Both safety properties except the processes of `unlisted`. `OneVM`:
a living VM is the one the file names, so there is one. `StoppedStaysDown`: when the
last call was a Stop and all have returned, none lives and none comes back; of a VM in
`unlisted` the next gateway's Stop finds neither task nor file, and returns nil while
it lives (`firecracker_supervisor.go:109-111`). `StopsEnd` and
`CrashIsAnswered` are liveness: a Stop returns even of a VM that ignores SIGTERM,
a crash is answered unless something else takes over. **Fairness**: goroutines run
and timers fire; no caller has to call and no VM has to exit.

| Run | Bounds | Shows |
|---|---|---|
| `VMSupervisor.cfg` | 2 callers of Stop, 2 tasks, 3 processes, restart policy, 1 restart of the gateway, fair | the five properties; 150,066 states |
| `VMDuplicates.cfg` | 1 caller, no policy, 2 restarts of the gateway | **violated**: a second VM beside one whose file was removed |

The violated statement is an expectation of the package's own test. `watch` checks
that its task still has its process and then removes the file by the runtime's
name, though a Start may have replaced the task: this is what `unlisted` stands
for, and why `OneVM` and `StoppedStaysDown` except it.

## 8. TaskDelivery

**State.** An item is `<<e, n>>`, the task comms makes of the n-th post of event
`e`; `<<e, 0>>` is the direct message itself. The gateway has `publish`, `tries`
and `clearing` (`loadAgentDetail` between its read and its write); comms has
`requests` not yet handled, the `slot` (`current_task` of
`session-context.json`), the `registry` and its end of the sockets; the body its
`client` socket, `queue`, `running`, `lastTask` and `answered`. `polls`, `replies`,
`ran` and `buried` record what happened and guard nothing.

| Action | Code |
|---|---|
| `Publish`, `Retry` | `Bus.Publish`, `Deliver`'s loop: a late answer means another post while the first may still be handled |
| `FindComplete`, `ClearTask` | `loadAgentDetail`'s read and write |
| `HaltBody`, `Halt`, `Start` | the end of a halt: runtime down, slot cleared |
| `Say`, `HandleTask`, `RefuseTask` | `handle_post_message`, `handle_deliver_task_v2` |
| `Register`, `EndSocket`, `CommsRestarts` | `ConnectionRegistry`, `handle_websocket` |
| `Connect`, `CatchUp`, `Receive`, `Disconnect` | `ws_listener.py` |
| `Take`, `Poll`, `Drain`, `Finish`, `Crash` | the main loop and `_conversation_loop` of `body.py` |

`Shared` distinguishes two deployments. The container workspace mounts the
agent's state directory into the body (`agentruntime/workspace.go:182`), and poll
and catch-up read the slot there; no code calls it at this commit. The
microVM backends mount nothing of the kind: there the poll and the catch-up find no file, a task
pushed while the socket is down is lost though comms answers that it was
delivered (`server.py:1083`; `realtime-agent-comms.md:77`), and the gateway never
sees a task complete. `FiledTaskRuns` is therefore a statement about the first.

**Abstractions.** A conversation is `running` from begin to end, and is assumed to
end. `Settled` counts a lost request as settled: nothing tells it from one handled.
The cap of `_recent_idle_message_ids` (200, cut to 100), mentions (the
publisher in `main.go:1074` never sets their metadata), interest matching and
the other channels are left out.

**Properties.** `HaltedTaskIsDropped`: a task made before a halt was through does
not run after it. `PollTakesOnce`: the poll takes no task twice in a body's life
(the catch-up of a connect reads the same file and may run a task again).
`AnsweredOnce`: a direct message, which comes by up to four ways, is answered once.
`FiledTaskRuns` (liveness): the task in the file runs, is replaced, or the agent
is halted. **Fairness**: main loop, listener's catch-up and reads, registration,
reconnection, the end of a halt, the restart after a crash; nothing of
network, operators or publishers.

| Run | Bounds | Shows |
|---|---|---|
| `TaskDelivery.cfg` | a trigger posted at most twice and a direct message, 2 sockets, 1 fault (a broken socket, a crash, a halt, a lost answer), `Shared`, fair | the five properties; 419,000 states |
| `TaskSockets.cfg` | the same, 2 faults, not `Shared` | **violated**: a live socket leaves the registry |

Divergences no run states. `event-framework.md:64` says at most once; up to 60
posts 500 ms apart with a timeout of 10 s each make a new task of every post that
was handled (`deliver_agent.go:50`), and a trigger's task that came over the socket
runs again from the file, since only the poll remembers what it took
(`body.py:2065`), and on each reconnect. A direct message's task is skipped by the poll
even when its pushes were lost. A queued task is dropped when a conversation
drains the queue. `loadAgentDetail` may clear a task newer than the one it
found complete (`agent.go:551`).

## 9. EnforcerBudget

**State.** `currentTask`, `taskCost` and `cached` are `BudgetTracker`'s (`"none"` is a
total never fetched or older than its 30 seconds, which the code treats alike);
`call` is where each goroutine of `ServeHTTP` is. `buffered` and `logged` are the
cost of today's audit entries before and after they are written: the gateway adds
those up when it is asked. `turns` and `spent` record what happened and guard
nothing.

| Action | Code |
|---|---|
| `Send`, `CheckTask` | `ServeHTTP`'s `SetTask`; the first half of `CheckBudget`, under the lock |
| `ReadCache`, `GetBudgetRemaining`, `FetchFails`, `StoreRemaining` | `getCachedRemaining` and the gateway's handler; then the second half of `CheckBudget` (`Decide`) |
| `Ask` | `GET /budget`, which reads the day's total the same way |
| `Abandon`, `RelayResponse` | the early returns and failed retries; an answer, with its audit entry |
| `RecordUsage`, `RecordTools` | `RecordUsage` and `RecordCost` of `reportUsage`, each under the lock |
| `Flush`, `EntriesLost`, `CacheExpires`, `NewDay`, `EnforcerRestarts` | the logger, the clock, a replaced enforcer |

**Abstractions.** Costs are whole units and an answer has a largest one (the
provider's limit on tokens sets it). The month is checked like the day. Requests
overlap as the body lets them: it sends one after the other, but gives up on slow
ones and goes on (`_call_llm`), while the enforcer still works at them; a
conversation summary and a memory capture come without a task's id.
`reportCostToGateway` posts to a route that no handler serves, and changes
nothing. `AGENCY_BUDGET_DAILY` is only shown; the gateway's default is what counts.
`spent` counts what is charged: the cost of an answer that was relayed and not
charged before the enforcer was replaced is on no account of the enforcer.

**Properties.** `CostBounded`: the cost of the current task goes beyond its limit by
less than one answer per overlapping call, however late the charges come.
`TaskSpendBounded`: the same of all that the requests of a task are charged, to
whichever task the tracker counts by then; the bound is larger, since requests of
the old task that are checked after the tracker turned to the next one are measured
against that one's cost. Both bounds are exact: one unit less, and TLC finds a
behaviour that reaches it. A task to which the tracker turns again (a task taken
up after another one, or after the enforcer was replaced) starts anew, so of those
nothing is promised.

No liveness is stated: nothing here waits for anything but a timeout.

| Run | Bounds | Shows |
|---|---|---|
| `EnforcerBudget.cfg` | 2 calls at once, 2 tasks, 5 requests, answers of 0 to 2 units against a limit of 2, any number of losses, days and restarts | `TaskSpendBounded`; 1,470,307 states |

Five requests are the least that reach the larger bound: one that
leaves a unit, two that overlap, one of the old task that waits for its check
and one of the next task. A view drops what no longer matters (totals beyond the
limit, the spending of a task the tracker turned to twice); calls and tasks are
interchangeable. `CostBounded` is a theorem, which `TaskSpendBounded` needs.

A divergence no run states: `brief-deprecation-and-budget-model.md:150` lets the task
in progress complete when the limit of the day is hit, but `CheckBudget` refuses its
next call (`budget.go:122`), as line 149 of the same document says. How far a day
overspends is bounded by nothing: the total is up to 30 seconds old, an older
answer may replace a newer one, and a gateway that does not answer lets requests
pass; the model has all of these, and the task's bounds hold with them.

## 10. Proofs

Each `...Proofs` module proves one inductive invariant `IInv`, defined beside the
properties it strengthens, and the properties from it, for every value of the
constants that the module's assumptions allow. One lemma per action shows that
`IInv` is preserved, with one step per conjunct the action can disturb.

`ConstraintDeliveryProofs` proves, for all constraint sets, numbers of changes,
sockets and operator commands, and any channel capacity, from
`BoundsAssumption` and `InputsAssumption` (the bounds are naturals, the channel
has room for one, sets have the two fields): `TypeOK`, the six state properties,
`HistoryImmutable`, `NoAckStolen` and the refinement `KeepsPromise`.
The properties are not inductive alone: that an acked change was applied needs
that acks anywhere on their way (connection, channel, goroutine) are sound
(`AcksAreSound`); that the history only moves forward needs that the status lags
the goroutine's position (`StatusFollowsDelivery`); that nobody takes another's
ack needs that a waiting push holds the lock of its socket (`PushesTakeTurns`);
and all of them that only changes of the history travel (`OnlyPushedTravel`).
Lemmas about queues (append, tail, prefix) and about status updates serve several
steps; `PendingSeverityCurrent` rests on the lemma that an escalation never
downgrades. `ImplementsPromise` maps initial states to initial states and each
action to a step of `ConstraintPromise` or a stutter; it needs in addition that what a
goroutine went through is on record and final (`DeliveryOnRecord`,
`RecordIsFinal`).

`VMSupervisorProofs` proves `OneVM`, `StoppedStaysDown` and `TypeOK` from
`SupervisorAssumption`, for any callers, tasks, processes and gateways and
either policy. The living VM is the current task's (`TaskOwnsVM`), a
goroutine's process is known to the task it belongs to (`ProcessesAreOwned`), a
Stop that ends leaves nothing living behind (`StopsHold`), and after a Stop
whoever lives is held by a Stop that has yet to end (`StopIsPending`).

`MissionsProofs` proves `HistoryCoversOlderVersions` and `OnlyAssigneesHold`
for any finite set of missions, any agents, teams, number of concurrent
requests, both interfaces, failures and crashes anywhere, from `TeamsAssumption`,
`MissionBoundsAssumption` and `MissionsFinite`. Neither property is inductive:
the writes that could break it wait in `todo`. The invariant says of every step
a request has left that, if it writes a mission file, each older version is in
the history already or is logged by an earlier step of the same request
(`WriteCovered`), and that, if it writes a copy, the agent may hold it
(`CopyAllowed`). A beginning request satisfies it because `Update` logs first and
nothing else raises a version; a step keeps it because the history only grows
and what the first step logs is in it when the others are left; a failure, because
what it leaves out logs nothing, or is everything.

`MissionsSerialProofs` adds `TypesHold` (`TypeOK`, in the same generality) and the
four properties between requests, where one request runs at a time
(`OneAtATime`) and none is cut short (`~Crashes`), as in `Missions.cfg`; those about
the bus also where all changes of status go through REST (`"mcp" \notin
Interfaces`), those about copies for either interface. The hypotheses are needed:
two overlapping requests, or one that fails after its first write, leave copies and
subscriptions behind. It assumes besides that `None` is no record
(`NoneAssumption`). The properties hold only when `todo` is empty, so the invariant
(`SerialInv`) speaks of what the files will be when the request is through: there is a
`goal`, one record or `None` per mission, to which the steps left lead (`Tidy`).

- `GoodGoal`: in the goal missions are told apart by their ids, none of which is
  new, and one that was never assigned has no copies.
- `FilesFollow`: a file is as in the goal, or a step left makes it so; no file is
  written after the bus was told.
- `CopiesFollow`: an assignee's copy is the record of the goal, or a step left
  writes or removes it.
- `BusFollows`: the bus holds of a mission what the next call about it needs
  (`BusFits`): before the assignment nothing under that id, before pausing and
  resuming one subscription (on or off) or a known reason for none. A mission is
  spoken of once, or removed and then rerouted (`BusIsToldOnce`).

A step keeps the goal (`TidyStep`); a request that begins changes it for its
mission only (`BeginIsTidy`, `RewriteIsTidy`), a failover and a restart not at all. When
nothing is left to do, the goal is the state of the files and the four properties
follow.

`SchedulesProofs` proves `EveryJobIsKnown` and `TypeOK` from `CronsAssumption`, for any
missions, names, expressions and handlers. That jobs are counted by naturals needs that
the entry being replaced has its job (`JobsOfTable`); each operation of the
scheduler keeps the table right (`TableSteps`), whoever calls it and when.

`TaskDeliveryProofs` proves `HaltedTaskIsDropped`, `PollTakesOnce`, `AnsweredOnce`
and `TypeOK` from `DeliveryAssumption`, for any events, posts, sockets and faults
and either deployment. What is on its way, queued or in the file was settled
after the last halt (`Flow`), a body that is down holds nothing (`Down`), of the tasks
polled only the last can be in the file (`Polled`), and every reply is
remembered (`Replied`).

`AgentLifecycleProofs` proves the six properties of `AgentLifecycle` from
`LifecycleAssumption` (agents and requests are finite sets, the bounds naturals),
for any agents, slots, requests, faults and restarts of the gateway. Both of its
invariants rest on `ScriptsHold`, which says what the list of steps a request has
left may look like: the end of a program or a teardown; the enforcer is ensured right
before the boot; a start counts before it is admitted, and boots once. A lemma
checks the programs against it, others that the tail of a script is one, so that
no proof about an action looks at a whole program.

- `CapacityInv` carries `CapacityBound`, and `TypeOK`, however requests overlap.
  The bound is not inductive: what is counted by a start that has yet to boot is
  nowhere in the state. The invariant ranks the starts by when they began (`turn`),
  the agents by the start that booted them (`since`), and keeps the rank of the
  last that booted (`top`); these are bound by `\E`, not variables. A start has
  room for the agents it has passed in its count and the starts before it
  (`HasRoom`), and the last one that booted had room for all that are up
  (`TopHasRoom`), up to the starts in flight together and the crashes. When a
  start boots, its rank or the old `top` witnesses the new one. `ManifestsStay`
  is needed because an agent counts only while its manifest says it runs.
- `TurnsInv` carries `StoppedStaysDown`, `NothingHalfStarted`, `HaltIsRemembered`
  and `BootsEnforced`, for agents whose requests take turns (`~Overlap`, a
  hypothesis of these theorems; `LifecycleOverlap.cfg` shows that without it they
  fail). What a request has left determines what its agent looks like (`Due`): after
  the enforcer was ensured it is there or was lost, after `stopBody` nothing
  lives. `Sound` relates an agent's fate to its body and enforcer, `Watched` says that
  an agent that is neither up nor down is somebody's work, `Remembered` is the
  marker's.

`EnforcerBudgetProofs` proves `CostBounded`, `TaskSpendBounded` and `TypeOK` from
`BudgetAssumption`, for any finite, non-empty set of calls, any tasks, limits and prices. A
bound on what was charged is not inductive: a call that passed its check will be
charged whatever the cost is by then. The invariant bounds the cost together with
the most that the calls under way can still be charged (`Exposure`, products of
prices and of numbers of calls, for which the first lemmas are). The check lets a
call pass below the limit, when even all calls together stay within
(`CostCovered`); a charge takes as much from what is to come as it adds at most
(`ChargeCovered`); all else only takes away (`QuietStep`). Of a task it says three
things (`TaskCovered`): before its turn nothing was charged for it; during its turn what it was
charged is part of the cost; after it, what was charged and is to come is
bounded, where the next task's request holds one goroutine that is not its own.

Only model-checked: everything under fairness, which is out of the prover's reach:
`DeliveryEnds`, `ReplacedSocketsEnd`, `StopsEnd`, `CrashIsAnswered`, `FiledTaskRuns`;
and `SchedulesFollowStatus`. The four properties of `Missions` between requests are
neither checked nor proved for overlapping requests, where they fail.

## 11. Not modelled

`PROJECT.json` lists every component with its reason. In short:

- *Planned, not reached*: the enforcer's limiter and trajectory, the
  gateway's budget store, mission claims, meeseeks, consent
  tokens, package instances, the policy merge. Of claims it is known from
  reading that one expires after 30 minutes whatever its holder does, that a release
  frees by key whoever holds, and that `CleanExpired` has no caller
  (`mission_claims.go:38`).
- *Parts of modelled components*: `Delete`, `Ensure`, `ReloadEnforcer`, watchers and
  other backends than Firecracker in the lifecycle; channels, subscriptions, the
  message store and the cache mode of comms; what happens within a conversation
  of the body; mentions, webhooks and the ring of the event bus.
- *No state machine worth a model*: the dialling `WSClient`, which no production code
  constructs; hub and packages (sequential installation of files); knowledge
  (queries over a database); host backends (I/O); CLI, web UI, MCP server and daemon
  (front ends of the API modelled here).
- *Outside one module's view*: the manager's record of constraints is in memory
  (`manager.go:25`), so after a restart of the gateway versions begin at 1 again
  beside a running enforcer; `ConstraintDelivery` models one gateway's life.

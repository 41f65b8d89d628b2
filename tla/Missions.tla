------------------------------ MODULE Missions ------------------------------
(***************************************************************************)
(* The missions of the gateway: the mission files under missions/, the     *)
(* copies in the agents' directories that the bodies read, the history     *)
(* files, and the subscriptions of the event bus that route triggers.      *)
(* (internal/orchestrate/missions.go, internal/api/missions,               *)
(* internal/api/mcp_missions.go, internal/events/missions.go)              *)
(*                                                                         *)
(* MissionManager holds no lock.  A handler reads the mission, checks it,  *)
(* and then writes files and the bus one after the other: beginning a      *)
(* request is one action (its reads and early returns), and leaves in todo *)
(* the writes it still has to make, each of which is a step of its own.    *)
(* What a mission says is not modelled: a version stands for its text.     *)
(***************************************************************************)
EXTENDS Integers, Sequences, FiniteSets, SequencesExt

CONSTANTS Missions,    \* the names missions may have
          Agents,
          Teams,
          None,        \* no mission, no assignee, no coordinator
          Members,     \* Members[t]: the agent members of team t, in order
          Coordinator, \* Coordinator[t]: its coordinator, or None
          Coverage,    \* Coverage[t]: its coverage agent, or None
          Requests,    \* the request goroutines that may run at once
          Interfaces,  \* who changes statuses.  "http": the REST handlers;
                       \* "mcp": the MCP tools and the health monitor, which
                       \* leave the bus alone
          Crashes,     \* TRUE: a file operation may fail, and the gateway
                       \* may die in the middle of requests
          MaxCreates,  \* bound: missions created
          MaxVersion   \* bound: versions of a mission

ASSUME TeamsAssumption ==
    /\ Agents \cap Teams = {}
    /\ None \notin Agents \cup Teams
    /\ Members \in [Teams -> Seq(Agents)]
    /\ Coordinator \in [Teams -> Agents \cup {None}]
    /\ Coverage \in [Teams -> Agents \cup {None}]

ASSUME MissionBoundsAssumption ==
    /\ MaxCreates \in Nat /\ MaxVersion \in Nat \ {0}
    /\ Interfaces \subseteq {"http", "mcp"}
    /\ Crashes \in BOOLEAN

ASSUME MissionsFinite == IsFiniteSet(Missions)

VARIABLES file,      \* missions/<name>.yaml: a record or None
          copy,      \* agents/<name>/mission.yaml: a record or None
          history,   \* history/<id>.jsonl: the versions recorded
          subs,      \* SubscriptionTable.subs, those of missions: how many
                     \* there are of each; their order only orders deliveries
          todo,      \* the writes each request has yet to make
          created,   \* ids given out so far
          silenced   \* (records only) <<id, why>>: missions whose
                     \* subscriptions were dropped, and not rebuilt since

vars == <<file, copy, history, subs, todo, created, silenced>>

Ids == 1..MaxCreates
Targets == Agents \cup Teams
Statuses == {"unassigned", "active", "paused", "completed"}
Record == [name: Missions, id: Ids, version: 1..MaxVersion, status: Statuses,
           assigned: Targets \cup {None}]

ASSUME NoneAssumption == None \notin Record

Subscription == [mission: Missions, id: Ids, target: Targets \cup {None},
                 active: BOOLEAN]
Step == [do: {"write", "log", "copy", "uncopy", "unlink", "subscribe",
              "deactivate", "activate", "remove", "reroute"},
         rec: Record, at: Targets \cup {None}]

-----------------------------------------------------------------------------
(* Who a mission is assigned to *)

\* Fault: the coordinator does not stand for the team.
AssignedAgentsAll(rec) ==
    CASE rec.assigned = None -> <<>>
      [] rec.assigned \in Agents -> <<rec.assigned>>
      [] rec.assigned \in Teams -> Members[rec.assigned]

\* assignedAgentNames: the coordinator of a team stands for the team.
AssignedAgents(rec) ==
    CASE rec.assigned = None -> <<>>
      [] rec.assigned \in Agents -> <<rec.assigned>>
      [] rec.assigned \in Teams ->
           IF Coordinator[rec.assigned] # None
           THEN <<Coordinator[rec.assigned]>>
           ELSE Members[rec.assigned]

\* GetActiveForAgent, as a set: the active missions assigned to the target.
ActiveFor(target) ==
    {m \in Missions : /\ file[m] # None
                      /\ file[m].status = "active"
                      /\ target \in ToSet(AssignedAgents(file[m]))}

-----------------------------------------------------------------------------
(* The writes of the handlers *)

Do(what, rec) == [do |-> what, rec |-> rec, at |-> None]
DoAt(what, rec, where) == [do |-> what, rec |-> rec, at |-> where]

\* One write per agent, in the order of the team's configuration.
ForEach(what, rec, where) ==
    [k \in DOMAIN where |-> DoAt(what, rec, where[k])]

\* writeAssignedAgentCopies, removeAssignedAgentCopies
WriteCopies(rec) == ForEach("copy", rec, AssignedAgents(rec))
RemoveCopies(rec) == ForEach("uncopy", rec, AssignedAgents(rec))

\* The handler tells the bus; the MCP tools and the health monitor do not.
OnBus(interface, what, rec) ==
    IF interface = "http" THEN <<Do(what, rec)>> ELSE <<>>

Present(m) == file[m] # None

\* A request begins: its reads are done, its writes are to come.
Begin(r, steps) ==
    /\ todo[r] = <<>>
    /\ todo' = [todo EXCEPT ![r] = steps]
    /\ UNCHANGED <<file, copy, history, subs>>

-----------------------------------------------------------------------------
(* The requests *)

\* Fault: the version keeps its zero value.
NewRecordUnversioned(m) ==
    [name |-> m, id |-> created + 1, version |-> 0,
     status |-> "unassigned", assigned |-> None]

NewRecord(m) ==
    [name |-> m, id |-> created + 1, version |-> 1,
     status |-> "unassigned", assigned |-> None]

\* createMission, MissionManager.Create: a fresh id, refused if the file exists
Create(r, m) ==
    /\ ~Present(m)
    /\ created < MaxCreates
    /\ Begin(r, <<Do("write", NewRecord(m)), Do("log", NewRecord(m))>>)
    /\ created' = created + 1
    /\ UNCHANGED silenced

Updated(rec) == [rec EXCEPT !.version = @ + 1]

\* Fault: the replaced version is logged after the write.
UpdateLogsLast(r, m) ==
    /\ Present(m)
    /\ file[m].version < MaxVersion
    /\ LET new == Updated(file[m])
       IN Begin(r, <<Do("write", new), Do("log", file[m])>> \o WriteCopies(new))
    /\ UNCHANGED <<created, silenced>>

\* Fault: the copies are left as they are.
UpdateWithoutCopies(r, m) ==
    /\ Present(m)
    /\ file[m].version < MaxVersion
    /\ Begin(r, <<Do("log", file[m]), Do("write", Updated(file[m]))>>)
    /\ UNCHANGED <<created, silenced>>

\* updateMission, MissionManager.Update: allowed in every status; the version
\* about to be overwritten is logged first; the bus is not told
Update(r, m) ==
    /\ Present(m)
    /\ file[m].version < MaxVersion
    /\ LET new == Updated(file[m])
       IN Begin(r, <<Do("log", file[m]), Do("write", new)>> \o WriteCopies(new))
    /\ UNCHANGED <<created, silenced>>

\* Where the first copies go: MissionManager.Assign writes one to the target,
\* AssignToTeam, which only the REST handler calls, resolves the team.
FirstCopies(interface, rec) ==
    IF interface = "http"
    THEN WriteCopies(rec)
    ELSE <<DoAt("copy", rec, rec.assigned)>>

\* assignMission: PreFlight, then Assign or AssignToTeam, then the bus
Assign(r, i, m, target) ==
    /\ Present(m)
    /\ file[m].status = "unassigned"
    /\ ActiveFor(target) = {}
    /\ LET new == [file[m] EXCEPT !.status = "active", !.assigned = target]
       IN Begin(r, <<Do("write", new)>> \o FirstCopies(i, new)
                     \o OnBus(i, "subscribe", new))
    /\ UNCHANGED <<created, silenced>>

\* The three changes of status share their shape.
SetStatus(rec, status) == [rec EXCEPT !.status = status]

\* Fault: the REST handler, too, forgets the bus.
PauseWithoutBus(r, i, m) ==
    /\ Present(m)
    /\ file[m].status = "active"
    /\ LET new == SetStatus(file[m], "paused")
       IN Begin(r, <<Do("write", new)>> \o WriteCopies(new))
    /\ UNCHANGED <<created, silenced>>

\* Fault: the subscriptions of a paused mission are removed, as if completed.
PauseRemoves(r, i, m) ==
    /\ Present(m)
    /\ file[m].status = "active"
    /\ LET new == SetStatus(file[m], "paused")
       IN Begin(r, <<Do("write", new)>> \o WriteCopies(new)
                     \o OnBus(i, "remove", new))
    /\ UNCHANGED <<created, silenced>>

\* pauseMission, MissionManager.Pause
Pause(r, i, m) ==
    /\ Present(m)
    /\ file[m].status = "active"
    /\ LET new == SetStatus(file[m], "paused")
       IN Begin(r, <<Do("write", new)>> \o WriteCopies(new)
                     \o OnBus(i, "deactivate", new))
    /\ UNCHANGED <<created, silenced>>

\* resumeMission, MissionManager.Resume: a completed mission may be resumed,
\* and neither case runs the pre-flight checks again
Resume(r, i, m) ==
    /\ Present(m)
    /\ file[m].status \in {"paused", "completed"}
    /\ LET new == SetStatus(file[m], "active")
       IN Begin(r, <<Do("write", new)>> \o WriteCopies(new)
                     \o OnBus(i, "activate", new))
    /\ UNCHANGED <<created, silenced>>

\* completeMission, MissionManager.Complete
Complete(r, i, m) ==
    /\ Present(m)
    /\ file[m].status \in {"active", "paused"}
    /\ LET new == SetStatus(file[m], "completed")
       IN Begin(r, <<Do("write", new)>> \o RemoveCopies(new)
                     \o OnBus(i, "remove", new))
    /\ silenced' = silenced \cup {<<file[m].id, "completed">>}
    /\ UNCHANGED created

\* deleteMission, MissionManager.Delete: no tool deletes, and the REST handler
\* leaves the bus alone
Delete(r, m) ==
    /\ Present(m)
    /\ file[m].status # "active"
    /\ Begin(r, RemoveCopies(file[m]) \o <<Do("unlink", file[m])>>)
    /\ UNCHANGED <<created, silenced>>

\* The missions of a set one after the other; List reads the directory.
Listings(S) ==
    {list \in [1..Cardinality(S) -> S] :
       \A j, k \in 1..Cardinality(S) : list[j] = list[k] => j = k}

\* Fault: the coverage agent is subscribed beside the old target.
FailoverStepsAdding(rec) ==
    <<DoAt("copy", rec, Coverage[rec.assigned]), Do("activate", rec),
      DoAt("reroute", rec, Coverage[rec.assigned])>>

\* One mission of a failover: a copy for the coverage agent, whose
\* subscriptions replace the old ones in two calls of the bus
FailoverSteps(rec) ==
    <<DoAt("copy", rec, Coverage[rec.assigned]), Do("remove", rec),
      DoAt("reroute", rec, Coverage[rec.assigned])>>

\* A failover that is about to copy its next mission.
InFailover(steps) ==
    /\ Len(steps) >= 3
    /\ steps[1].do = "copy" /\ steps[2].do = "remove" /\ steps[3].do = "reroute"

Covered(agent) ==
    {m \in Missions : /\ Present(m)
                      /\ file[m].status = "active"
                      /\ file[m].assigned \in Teams
                      /\ Coordinator[file[m].assigned] = agent
                      /\ Coverage[file[m].assigned] # None}

\* CheckCoordinatorFailover, at the end of the handler that halted the agent
Failover(r, agent) ==
    /\ Covered(agent) # {}
    /\ \E list \in Listings(Covered(agent)) :
         Begin(r, [k \in 1..(3 * Len(list)) |->
                     LET j == (k - 1) \div 3
                     IN FailoverSteps(file[list[j + 1]])[k - 3 * j]])
    /\ UNCHANGED <<created, silenced>>

-----------------------------------------------------------------------------
(* The steps *)

\* writeMissionYAML of missions/<name>.yaml
WriteFile(s) ==
    /\ s.do = "write"
    /\ file' = [file EXCEPT ![s.rec.name] = s.rec]
    /\ UNCHANGED <<copy, history, subs>>

\* appendHistory
AppendHistory(s) ==
    /\ s.do = "log"
    /\ history' = [history EXCEPT ![s.rec.id] =
                     @ \cup {s.rec.version}]
    /\ UNCHANGED <<file, copy, subs>>

\* writeAgentCopy
WriteAgentCopy(s) ==
    /\ s.do = "copy"
    /\ copy' = [copy EXCEPT ![s.at] = s.rec]
    /\ UNCHANGED <<file, history, subs>>

\* RemoveMissionFromAgent: whichever mission's copy it is
RemoveMissionFromAgent(s) ==
    /\ s.do = "uncopy"
    /\ copy' = [copy EXCEPT ![s.at] = None]
    /\ UNCHANGED <<file, history, subs>>

\* the os.Remove that ends Delete
Unlink(s) ==
    /\ s.do = "unlink"
    /\ file' = [file EXCEPT ![s.rec.name] = None]
    /\ UNCHANGED <<copy, history, subs>>

\* BuildMissionSubscriptions, for a mission with one trigger
MissionSubscription(rec, target) ==
    [mission |-> rec.name, id |-> rec.id, target |-> target, active |-> TRUE]

\* SubscriptionTable.Add
Added(sub) == [subs EXCEPT ![sub] = @ + 1]

\* OnMissionAssigned, if the handler, reading the mission again, finds it
Subscribe(s) ==
    /\ s.do = "subscribe"
    /\ LET rec == file[s.rec.name]
       IN subs' = IF rec # None
                  THEN Added(MissionSubscription(rec, rec.assigned))
                  ELSE subs
    /\ UNCHANGED <<file, copy, history>>

\* Those of the mission are active, or none is: of each there are as many as
\* there were of the two that differ in that only.
WithActive(m, active) ==
    [s \in Subscription |->
       IF s.mission # m THEN subs[s]
       ELSE IF s.active # active THEN 0
       ELSE subs[[s EXCEPT !.active = TRUE]] + subs[[s EXCEPT !.active = FALSE]]]

\* OnMissionPaused: DeactivateByOrigin
DeactivateByOrigin(s) ==
    /\ s.do = "deactivate"
    /\ subs' = WithActive(s.rec.name, FALSE)
    /\ UNCHANGED <<file, copy, history>>

\* OnMissionResumed: ActivateByOrigin
ActivateByOrigin(s) ==
    /\ s.do = "activate"
    /\ subs' = WithActive(s.rec.name, TRUE)
    /\ UNCHANGED <<file, copy, history>>

\* OnMissionCompleted: RemoveByOrigin
RemoveByOrigin(s) ==
    /\ s.do = "remove"
    /\ subs' = [x \in Subscription |-> IF x.mission = s.rec.name THEN 0 ELSE subs[x]]
    /\ UNCHANGED <<file, copy, history>>

\* OnMissionAssigned for the coverage agent: the record of the snapshot
Reroute(s) ==
    /\ s.do = "reroute"
    /\ subs' = Added(MissionSubscription(s.rec, s.at))
    /\ UNCHANGED <<file, copy, history>>

TakeStep(r) ==
    /\ todo[r] # <<>>
    /\ LET s == Head(todo[r])
       IN \/ WriteFile(s) \/ AppendHistory(s)
          \/ WriteAgentCopy(s) \/ RemoveMissionFromAgent(s) \/ Unlink(s)
          \/ Subscribe(s) \/ DeactivateByOrigin(s) \/ ActivateByOrigin(s)
          \/ RemoveByOrigin(s) \/ Reroute(s)
    /\ todo' = [todo EXCEPT ![r] = Tail(@)]
    /\ UNCHANGED <<created, silenced>>

\* What a request still does when its next file operation fails: its handler
\* returns the error; removing a copy ignores it; a failover goes on with its
\* next mission.
AfterFailure(steps) ==
    CASE Head(steps).do = "uncopy" -> Tail(steps)
      [] InFailover(steps) -> Tail(Tail(Tail(steps)))
      [] OTHER -> <<>>

StepFails(r) ==
    /\ Crashes
    /\ todo[r] # <<>>
    /\ Head(todo[r]).do \in {"write", "log", "copy", "uncopy", "unlink"}
    /\ todo' = [todo EXCEPT ![r] = AfterFailure(@)]
    /\ UNCHANGED <<file, copy, history, subs, created, silenced>>

Idle == \A r \in Requests : todo[r] = <<>>

\* The gateway starts again, any number of times: requests are gone, the bus
\* is rebuilt from the active missions.
Restart ==
    /\ Crashes \/ Idle
    /\ todo' = [r \in Requests |-> <<>>]
    /\ LET rebuilt == {MissionSubscription(file[m], file[m].assigned) :
                         m \in {n \in Missions : /\ Present(n)
                                                /\ file[n].status = "active"}}
       IN subs' = [s \in Subscription |-> IF s \in rebuilt THEN 1 ELSE 0]
    /\ silenced' =
         {x \in silenced : \A m \in Missions :
            Present(m) /\ file[m].id = x[1] => file[m].status # "active"}
         \cup {<<file[m].id, "restarted">> :
                 m \in {n \in Missions : Present(n) /\ file[n].status = "paused"}}
    /\ UNCHANGED <<file, copy, history, created>>

-----------------------------------------------------------------------------
Init ==
    /\ file = [m \in Missions |-> None]
    /\ copy = [t \in Targets |-> None]
    /\ history = [id \in Ids |-> {}]
    /\ subs = [s \in Subscription |-> 0]
    /\ todo = [r \in Requests |-> <<>>]
    /\ created = 0
    /\ silenced = {}

Next ==
    \/ \E r \in Requests :
         \/ \E i \in Interfaces, m \in Missions :
              \/ \E t \in Targets : Assign(r, i, m, t)
              \/ Pause(r, i, m) \/ Resume(r, i, m) \/ Complete(r, i, m)
         \/ \E m \in Missions : Create(r, m) \/ Update(r, m) \/ Delete(r, m)
         \/ \E a \in Agents : Failover(r, a)
         \/ TakeStep(r) \/ StepFails(r)
    \/ Restart

Spec == Init /\ [][Next]_vars

-----------------------------------------------------------------------------
(* Properties *)

FilesTypeOK ==
    /\ file \in [Missions -> Record \cup {None}]
    /\ copy \in [Targets -> Record \cup {None}]
    /\ history \in [Ids -> SUBSET (1..MaxVersion)]
    /\ todo \in [Requests -> Seq(Step)]
    /\ created \in 0..MaxCreates

BusTypeOK ==
    /\ subs \in [Subscription -> Nat]
    /\ silenced \subseteq Ids \X {"completed", "restarted"}

\* Every variable has its type.
TypeOK == FilesTypeOK /\ BusTypeOK

\* The subscriptions the table holds for a mission.
Held(m) == {s \in Subscription : s.mission = m /\ subs[s] > 0}

ActiveSubs(m) == {s \in Held(m) : s.active}

\* Between requests the bus routes triggers only to missions that are active:
\* pausing, completing and deleting each silence a mission, and neither a
\* failover nor a restart wakes a silenced one.
RoutesFollowStatus ==
    Idle => \A m \in Missions :
              ActiveSubs(m) # {} => Present(m) /\ file[m].status = "active"

Unrouted(m) ==
    Present(m) /\ file[m].status = "active" /\ ActiveSubs(m) = {}

\* Between requests an active mission has a route, after any sequence of
\* pauses, failovers and restarts, unless it was completed, or paused during a
\* restart: resuming it then finds no subscriptions to reactivate.
ActiveIsRouted ==
    Idle => \A m \in Missions :
              Unrouted(m) => \E why \in {"completed", "restarted"} :
                               <<file[m].id, why>> \in silenced

\* A mission's trigger is routed once, to its assignee or, for a team whose
\* coordinator failed, to the coverage agent.  Missions are told apart by
\* their ids: one created under the name of a deleted one is another mission.
RoutedOnce ==
    Idle => \A m \in Missions : Present(m) =>
              LET own == {s \in Held(m) : s.id = file[m].id}
              IN /\ \A s, t \in own : s = t
                 /\ \A s \in own :
                      /\ subs[s] = 1
                      /\ \/ s.target = file[m].assigned
                         \/ /\ file[m].assigned \in Teams
                            /\ s.target = Coverage[file[m].assigned]

\* Between requests the copy an assignee holds of a mission is the mission's
\* current file: no assignee works from an old version or status.
CopiesAreCurrent ==
    Idle => \A m \in Missions : Present(m) =>
              \A a \in ToSet(AssignedAgents(file[m])) :
                copy[a] # None /\ copy[a].id = file[m].id => copy[a] = file[m]

\* The history has an entry for every version older than the one on disk,
\* whatever requests overlap, whatever fails and wherever the gateway dies.
HistoryCoversOlderVersions ==
    \A m \in Missions :
      Present(m) => 1..(file[m].version - 1) \subseteq history[file[m].id]

MayHold(a, rec) ==
    \/ rec.assigned = a
    \/ /\ rec.assigned \in Teams
       /\ LET t == rec.assigned
          IN \/ a \in {Coordinator[t], Coverage[t]}
             \/ Coordinator[t] = None /\ a \in ToSet(Members[t])

\* An agent is handed a mission only if it, or its team, was assigned it: of
\* a team with a coordinator, only the coordinator and the coverage agent.
OnlyAssigneesHold ==
    \A a \in Agents : copy[a] # None => MayHold(a, copy[a])

=============================================================================

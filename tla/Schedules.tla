------------------------------ MODULE Schedules -----------------------------
(***************************************************************************)
(* The schedules of missions: the gateway's Scheduler, a table of cron     *)
(* jobs by the name of a trigger (internal/events/scheduler.go), and those *)
(* who tell it about missions: the REST handlers, call by call, and the    *)
(* gateway when it starts.  Others change missions and leave it alone: the *)
(* update and delete handlers, the MCP tools and the health monitor.       *)
(*                                                                         *)
(* A handler reads the mission, has the manager change its status, and     *)
(* then makes one call for each of the schedule triggers it knows of, each *)
(* of which has the scheduler's mutex to itself; Activate takes it twice.  *)
(* What the manager's methods do to files is in Missions; here each is one *)
(* step.  The triggers of a mission are called in any order.               *)
(***************************************************************************)
EXTENDS Integers, FiniteSets, Functions

CONSTANTS Missions,
          Names,     \* what schedule triggers are called, across missions
          Crons,     \* what may stand in a trigger as its cron expression
          Parses,    \* those of them that cron accepts
          NoCron,    \* the empty one
          Requests,  \* the handlers that may run at once
          None

ASSUME CronsAssumption ==
    /\ Parses \subseteq Crons /\ NoCron \in Crons \ Parses
    /\ None \notin Crons \cup Names

VARIABLES file,        \* missions/<name>.yaml: status and schedule triggers
          request,     \* what each handler has yet to do, or None
          exprs,       \* Scheduler.entries and exprs, which change together
          deactivated, \* Scheduler.deactivated
          jobs,        \* the jobs in cron: how many of each name and expression
          disturbed    \* (records only) names of which the scheduler was not
                       \* told all, or by two at once, since the gateway started

vars == <<file, request, exprs, deactivated, jobs, disturbed>>
table == <<exprs, deactivated, jobs>>

Statuses == {"unassigned", "active", "paused", "completed"}
Ops == {"assign", "pause", "resume", "complete"}
Triggers == UNION {[S -> Crons] : S \in SUBSET Names}
Mission == [status: Statuses, triggers: Triggers]

\* A handler: left are the triggers it has yet to tell about, at the one whose
\* expression Activate found.
Request ==
    {q \in [op: Ops, mission: Missions, left: Triggers,
            stage: {"change", "reread", "call", "register"},
            at: Names \cup {None}, found: Crons \cup {None}] :
        q.stage = "register" => q.at # None}

TypeOK ==
    /\ file \in [Missions -> Mission \cup {None}]
    /\ request \in [Requests -> Request \cup {None}]
    /\ exprs \in [Names -> Crons \cup {None}]
    /\ deactivated \in [Names -> Crons \cup {None}]
    /\ jobs \in [Names -> [Crons -> Nat]]
    /\ disturbed \in SUBSET Names

Init ==
    /\ file = [m \in Missions |-> None]
    /\ request = [r \in Requests |-> None]
    /\ exprs = [n \in Names |-> None]
    /\ deactivated = [n \in Names |-> None]
    /\ jobs = [n \in Names |-> [c \in Crons |-> 0]]
    /\ disturbed = {}

Present(m) == file[m] # None
InStatus(m, status) == Present(m) /\ file[m].status = status

-----------------------------------------------------------------------------
(* The scheduler: each operation is one step under its mutex *)

\* The jobs once the entry of a name is taken out of cron.
Unscheduled(n) ==
    IF exprs[n] = None THEN jobs ELSE [jobs EXCEPT ![n][exprs[n]] = @ - 1]

\* Fault: the entry that was there is overwritten, its job stays.
RegisterOver(n, c) ==
    /\ deactivated' = [deactivated EXCEPT ![n] = None]
    /\ exprs' = [exprs EXCEPT ![n] = IF c \in Parses THEN c ELSE None]
    /\ jobs' = IF c \in Parses THEN [jobs EXCEPT ![n][c] = @ + 1] ELSE jobs

\* An expression that cron refuses takes the place of the one before all the
\* same.
Register(n, c) ==
    /\ deactivated' = [deactivated EXCEPT ![n] = None]
    /\ exprs' = [exprs EXCEPT ![n] = IF c \in Parses THEN c ELSE None]
    /\ jobs' = IF c \in Parses THEN [Unscheduled(n) EXCEPT ![n][c] = @ + 1]
                               ELSE Unscheduled(n)

\* Fault: the schedule is dropped, not kept for Activate.
DeactivateDropping(n) ==
    /\ exprs' = [exprs EXCEPT ![n] = None]
    /\ jobs' = Unscheduled(n)
    /\ UNCHANGED deactivated

Deactivate(n) ==
    /\ exprs' = [exprs EXCEPT ![n] = None]
    /\ deactivated' = IF exprs[n] = None THEN deactivated
                      ELSE [deactivated EXCEPT ![n] = exprs[n]]
    /\ jobs' = Unscheduled(n)

Remove(n) ==
    /\ exprs' = [exprs EXCEPT ![n] = None]
    /\ deactivated' = [deactivated EXCEPT ![n] = None]
    /\ jobs' = Unscheduled(n)

-----------------------------------------------------------------------------
(* Who knows of a name.  These only feed disturbed. *)

NamesOf(m) == IF Present(m) THEN DOMAIN file[m].triggers ELSE {}
Serves(r, m) == request[r] # None /\ request[r].mission = m
UnderWay(m) == UNION {DOMAIN request[r].left : r \in {q \in Requests : Serves(q, m)}}
Attended(m) == \E r \in Requests : Serves(r, m)
Known(m) == NamesOf(m) \cup UnderWay(m)

\* The names that a mission shares with another one's file or request.
SharedBy(m, names) == names \cap UNION {Known(o) : o \in Missions \ {m}}

\* The names whose trigger differs between two versions of a mission.
Differing(old, new) ==
    {n \in DOMAIN old \cup DOMAIN new :
        ~(n \in DOMAIN old \cap DOMAIN new /\ old[n] = new[n])}

\* From here on these names are excepted, until the gateway restarts.
Disturb(names) == disturbed' = disturbed \cup names

-----------------------------------------------------------------------------
(* Those who leave the scheduler alone *)

\* createMission
Create(m, triggers) ==
    /\ ~Present(m)
    /\ file' = [file EXCEPT ![m] = [status |-> "unassigned", triggers |-> triggers]]
    /\ Disturb(SharedBy(m, DOMAIN triggers)
               \cup IF Attended(m) THEN DOMAIN triggers \cup UnderWay(m) ELSE {})
    /\ UNCHANGED <<request, table>>

\* updateMission replaces the triggers in any status.
Update(m, triggers) ==
    /\ Present(m)
    /\ file' = [file EXCEPT ![m].triggers = triggers]
    /\ Disturb(SharedBy(m, DOMAIN triggers)
               \cup (IF Attended(m) THEN DOMAIN triggers \cup Known(m) ELSE {})
               \cup (IF file[m].status \in {"active", "paused"}
                     THEN Differing(file[m].triggers, triggers) ELSE {}))
    /\ UNCHANGED <<request, table>>

\* deleteMission: the scheduler keeps what a paused mission left with it.
Delete(m) ==
    /\ Present(m) /\ ~InStatus(m, "active")
    /\ file' = [file EXCEPT ![m] = None]
    /\ Disturb(IF InStatus(m, "paused") THEN Known(m) ELSE {})
    /\ UNCHANGED <<request, table>>

\* Fault: a status nobody knows.
BecomesDone(op) == CASE op \in {"assign", "resume"} -> "active"
                     [] op = "pause" -> "paused"
                     [] op = "complete" -> "done"

Becomes(op) == CASE op \in {"assign", "resume"} -> "active"
                 [] op = "pause" -> "paused"
                 [] op = "complete" -> "completed"

\* What the manager's methods ask of the status.
Allowed(m, op) ==
    /\ Present(m)
    /\ file[m].status \in CASE op = "assign" -> {"unassigned"}
                            [] op = "pause" -> {"active"}
                            [] op = "resume" -> {"paused", "completed"}
                            [] op = "complete" -> {"active", "paused"}

SetStatus(m, op) == file' = [file EXCEPT ![m].status = Becomes(op)]

\* An MCP tool, or the health monitor, which pauses.
ChangeElsewhere(m, op) ==
    /\ Allowed(m, op)
    /\ SetStatus(m, op)
    /\ Disturb(Known(m))
    /\ UNCHANGED <<request, table>>

-----------------------------------------------------------------------------
(* The handlers that tell the scheduler *)

\* A handler goes on with what is left, or is done.
GoOn(r, left) ==
    request' = [request EXCEPT ![r] =
        IF DOMAIN left = {} THEN None
        ELSE [@ EXCEPT !.left = left, !.stage = "call", !.at = None, !.found = None]]

Ends(r) == request' = [request EXCEPT ![r] = None]

\* The handler's first Get: pause, resume and complete go by the triggers it
\* finds, assign by those of a later one.  Another handler may be at work on the
\* mission.
Begin(r, m, op) ==
    /\ request[r] = None /\ Present(m)
    /\ request' = [request EXCEPT ![r] =
           [op |-> op, mission |-> m, stage |-> "change", at |-> None, found |-> None,
            left |-> IF op = "assign" THEN << >> ELSE file[m].triggers]]
    /\ Disturb(IF Attended(m) THEN Known(m) ELSE {})
    /\ UNCHANGED <<file, table>>

\* The manager's method.  It may fail before or after it wrote the file.
ChangeStatus(r) ==
    LET m == request[r].mission
        op == request[r].op
    IN  /\ request[r] # None /\ request[r].stage = "change"
        /\ \/ /\ Ends(r)
              /\ UNCHANGED <<file, disturbed>>
           \/ /\ Allowed(m, op)
              /\ SetStatus(m, op)
              /\ Ends(r)
              /\ Disturb(Known(m))
           \/ /\ Allowed(m, op)
              /\ SetStatus(m, op)
              /\ IF op = "assign"
                 THEN request' = [request EXCEPT ![r].stage = "reread"]
                 ELSE GoOn(r, request[r].left)
              /\ Disturb(IF InStatus(m, "completed") THEN Known(m) ELSE {})
        /\ UNCHANGED table

\* assignMission reads the mission again and passes over empty expressions.
Reread(r) ==
    LET m == request[r].mission
        now == file[m].triggers
    IN  /\ request[r] # None /\ request[r].stage = "reread"
        /\ IF Present(m)
           THEN GoOn(r, Restrict(now, {n \in DOMAIN now : now[n] # NoCron}))
           ELSE Ends(r)
        /\ UNCHANGED <<file, table, disturbed>>

\* One call of the scheduler; of Activate, the look at deactivated.
Tell(r, n) ==
    LET left == request[r].left
        rest == Restrict(left, DOMAIN left \ {n})
    IN  /\ request[r] # None /\ request[r].stage = "call" /\ n \in DOMAIN left
        /\ \/ /\ request[r].op = "assign" /\ Register(n, left[n]) /\ GoOn(r, rest)
           \/ /\ request[r].op = "pause" /\ Deactivate(n) /\ GoOn(r, rest)
           \/ /\ request[r].op = "complete" /\ Remove(n) /\ GoOn(r, rest)
           \/ /\ request[r].op = "resume" /\ deactivated[n] = None
              /\ GoOn(r, rest)
              /\ UNCHANGED table
           \/ /\ request[r].op = "resume" /\ deactivated[n] # None
              /\ request' = [request EXCEPT ![r].stage = "register", ![r].at = n,
                                            ![r].found = deactivated[n]]
              /\ UNCHANGED table
        /\ UNCHANGED <<file, disturbed>>

\* Activate, having let the mutex go in between.
ActivateRegisters(r) ==
    LET left == request[r].left
    IN  /\ request[r] # None /\ request[r].stage = "register"
        /\ Register(request[r].at, request[r].found)
        /\ GoOn(r, Restrict(left, DOMAIN left \ {request[r].at}))
        /\ UNCHANGED <<file, disturbed>>

-----------------------------------------------------------------------------

\* The active missions that have an expression for a name.
Naming(n) == {m \in Missions : /\ InStatus(m, "active") /\ n \in NamesOf(m)
                               /\ file[m].triggers[n] # NoCron}

\* The gateway starts with an empty scheduler and registers the schedules of
\* the active missions in the order of their files: of a name that several
\* have, the last one stays.
GatewayRestarts ==
    /\ \E order \in Injection(Missions, 1..Cardinality(Missions)) :
          exprs' = [n \in Names |->
             IF Naming(n) = {} THEN None
             ELSE LET last == CHOOSE m \in Naming(n) :
                                 \A o \in Naming(n) : order[o] <= order[m]
                      c == file[last].triggers[n]
                  IN  IF c \in Parses THEN c ELSE None]
    /\ jobs' = [n \in Names |-> [c \in Crons |-> IF exprs'[n] = c THEN 1 ELSE 0]]
    /\ deactivated' = [n \in Names |-> None]
    /\ request' = [r \in Requests |-> None]
    /\ disturbed' = UNION {IF InStatus(m, "paused") THEN NamesOf(m)
                           ELSE NamesOf(m) \cap UNION {NamesOf(o) : o \in Missions \ {m}} :
                           m \in Missions}
    /\ UNCHANGED file

Next ==
    \/ \E m \in Missions, triggers \in Triggers :
          Create(m, triggers) \/ Update(m, triggers)
    \/ \E m \in Missions : Delete(m)
    \/ \E m \in Missions, op \in Ops : ChangeElsewhere(m, op)
    \/ \E r \in Requests, m \in Missions, op \in Ops : Begin(r, m, op)
    \/ \E r \in Requests : ChangeStatus(r) \/ Reread(r) \/ ActivateRegisters(r)
    \/ \E r \in Requests, n \in Names : Tell(r, n)
    \/ GatewayRestarts

Spec == Init /\ [][Next]_vars

-----------------------------------------------------------------------------
(* Properties *)

\* However calls of handlers interleave, in the gap of Activate too, a name has
\* one job in cron at most, the table knows it, and a schedule that runs is not
\* kept as paused as well: whatever fires, a later Deactivate or Remove finds it
\* and a trigger does not fire twice at one time (scheduler.go:34-97).
EveryJobIsKnown ==
    \A n \in Names :
        /\ \A c \in Crons : jobs[n][c] = IF exprs[n] = c THEN 1 ELSE 0
        /\ exprs[n] # None => deactivated[n] = None

\* A name that a handler at work may still speak of.
Pending(n) == \E r \in Requests :
                 request[r] # None /\ n \in Known(request[r].mission)

\* The expressions by which the files say that a name fires.
Due(n) == {c \in Parses : \E m \in Missions :
              InStatus(m, "active") /\ n \in NamesOf(m) /\ file[m].triggers[n] = c}

\* A schedule fires, by the expression of its file, exactly while its mission is
\* active, through any sequence of assignments, pauses, resumptions, completions,
\* deletions and restarts of the gateway (event-framework.md:125).  Not so for
\* the names in disturbed: of which an update or a tool did not tell the
\* scheduler, or a failed call only half, which two missions or two requests for
\* one mission had at once, or whose mission was paused over a restart, deleted while
\* paused, or resumed after its completion.
SchedulesFollowStatus ==
    \A n \in Names \ disturbed :
        ~Pending(n) => {c \in Crons : jobs[n][c] > 0} = Due(n)

\* The entries of the table are expressions that cron took.
IInv ==
    /\ TypeOK
    /\ exprs \in [Names -> Parses \cup {None}]
    /\ EveryJobIsKnown
=============================================================================

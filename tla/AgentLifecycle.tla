--------------------------- MODULE AgentLifecycle ---------------------------
(***************************************************************************)
(* Starting, halting, resuming and restarting agents (internal/orchestrate:*)
(* start.go, halt.go, runtime_supervisor.go, agent.go, capacity.go and     *)
(* runtime_firecracker_backend.go; internal/api/agents).                   *)
(*                                                                         *)
(* A request runs its code step by step and nothing is locked: todo[r] is  *)
(* the list of steps it has left.  An agent is a body (a microVM), an      *)
(* enforcer (a process of the host), the phase its manifest shows and the  *)
(* marker of an active halt.  Any step that can fail may fail; a client    *)
(* that goes away cancels the request, which makes its later steps fail.   *)
(***************************************************************************)
EXTENDS Integers, FiniteSets, Sequences, SequencesExt

CONSTANTS
    Agents,
    Names,      \* the agents in the order of the directory listing
    Requests,   \* the requests that may be in flight at once
    Overlap,    \* requests for one agent may overlap
    MaxAgents,  \* capacity.yaml: max_agents
    MaxOps,     \* bound: requests begun
    MaxFaults   \* bound: crashes, and restarts of the gateway

ASSUME LifecycleAssumption ==
    /\ IsFiniteSet(Agents)
    /\ Names \in Seq(Agents) /\ ToSet(Names) = Agents
    /\ IsFiniteSet(Requests)
    /\ Overlap \in BOOLEAN
    /\ MaxAgents \in Nat /\ MaxOps \in Nat /\ MaxFaults \in Nat

VARIABLES
    phase,    \* Status.Phase in the agent's manifest, "none" without one
    body,     \* what the VM supervisor knows of the agent's microVM
    enforcer, \* the enforcer's process: none, one the gateway knows, one of its file
    stray,    \* an enforcer or a microVM runs that neither memory nor file knows
    marker,   \* state/active-halt.json exists
    op,       \* the request's kind
    todo,     \* the steps it has left: <<what, agent>>
    count,    \* the agents checkCapacity has counted
    status,   \* the phase Get returned last
    dirty,    \* and it saves that phase
    bad,      \* a part of the Stop under way failed
    begun, faults,
    (* what happened *)
    fate,     \* the agent's last start or stop, and how it ended
    halted,   \* halted, and not up since
    lost,     \* the enforcer ended by itself and was not started again
    crowd     \* the most starts that were in flight at once

agentVars   == <<phase, body, enforcer, stray, marker>>
requestVars == <<op, todo, count, status, dirty, bad>>
ghostVars   == <<fate, halted, lost>>
vars        == <<agentVars, requestVars, begun, faults, ghostVars, crowd>>

Phases == {"none", "reconciled", "running", "degraded", "stopped", "failed"}
Bodies == {"untracked", "running", "adopted", "stopping", "crashed", "stopped"}
Alive(a) == body[a] \in {"running", "adopted", "stopping"}
Enforced(a) == enforcer[a] # "none"
Up == {a \in Agents : body[a] \in {"running", "adopted"}}
Fates == {"down", "starting", "up", "loose"}
Ops == {"start", "halt", "resume", "restart", "show"}
Steps == {"tally", "inspect", "keep", "refresh", "admit", "guard", "adopt",
          "enforce", "fail", "reconcile", "boot", "session", "stopBody",
          "stopEnforcer", "stopped", "record", "clear"} \X Agents

TypeOK ==
    /\ phase \in [Agents -> Phases] /\ body \in [Agents -> Bodies]
    /\ enforcer \in [Agents -> {"none", "known", "filed"}]
    /\ stray \in [Agents -> BOOLEAN] /\ marker \in [Agents -> BOOLEAN]
    /\ op \in [Requests -> Ops] /\ todo \in [Requests -> Seq(Steps)]
    /\ count \in [Requests -> Nat] /\ status \in [Requests -> Phases]
    /\ dirty \in [Requests -> BOOLEAN] /\ bad \in [Requests -> BOOLEAN]
    /\ begun \in 0..MaxOps /\ faults \in 0..MaxFaults
    /\ fate \in [Agents -> Fates]
    /\ halted \in [Agents -> BOOLEAN] /\ lost \in [Agents -> BOOLEAN]
    /\ crowd \in Nat

Init ==
    /\ phase = [a \in Agents |-> "none"]
    /\ body = [a \in Agents |-> "untracked"]
    /\ enforcer = [a \in Agents |-> "none"]
    /\ stray = [a \in Agents |-> FALSE]
    /\ marker = [a \in Agents |-> FALSE]
    /\ op = [r \in Requests |-> "show"]
    /\ todo = [r \in Requests |-> <<>>]
    /\ count = [r \in Requests |-> 0]
    /\ status = [r \in Requests |-> "none"]
    /\ dirty = [r \in Requests |-> FALSE]
    /\ bad = [r \in Requests |-> FALSE]
    /\ begun = 0 /\ faults = 0
    /\ fate = [a \in Agents |-> "down"]
    /\ halted = [a \in Agents |-> FALSE]
    /\ lost = [a \in Agents |-> FALSE]
    /\ crowd = 0

-----------------------------------------------------------------------------
(* The code of each request *)

For(a, steps) == [i \in 1..Len(steps) |-> <<steps[i], a>>]

\* Supervisor.Get loads the manifest and inspects, then saves what it saw;
\* refreshStatus saves once more what Get returned.
Get(a)     == For(a, <<"inspect", "keep">>)
Refresh(a) == For(a, <<"inspect", "keep", "refresh">>)

\* Runtime.Stop: the backend tries all it has to stop, then the status is saved.
Stop(a) == For(a, <<"stopBody", "stopEnforcer", "stopped">>)

\* checkCapacity's Get of every agent.
Tally == [i \in 1..(2 * Len(Names)) |->
             <<IF i % 2 = 1 THEN "tally" ELSE "keep", Names[(i + 1) \div 2]>>]

\* Fault: the body's phase comes before the enforcer's.
RunUnenforced(a) ==
    Tally \o For(a, <<"admit", "adopt", "reconcile", "boot", "enforce">>) \o Refresh(a)
          \o For(a, <<"session">>)

\* StartSequence.Run: checkCapacity and phases 1 to 7.
Run(a) ==
    Tally \o For(a, <<"admit", "adopt", "enforce">>) \o Refresh(a)
          \o For(a, <<"reconcile", "enforce", "boot">>) \o Refresh(a)
          \o For(a, <<"session">>)

\* Fault: resume clears the marker before it starts the agent.
ClearedFirst(a) ==
    Get(a) \o For(a, <<"guard">>) \o Stop(a) \o For(a, <<"clear">>) \o Run(a)

Resume(a) == Get(a) \o For(a, <<"guard">>) \o Stop(a) \o Run(a) \o For(a, <<"clear">>)

Program(o, a) ==
    CASE o = "start"   -> Get(a) \o Run(a)
      [] o = "halt"    -> Stop(a) \o For(a, <<"record">>)
      [] o = "resume"  -> Resume(a)
      [] o = "restart" -> Get(a) \o Stop(a) \o Run(a)
      [] o = "show"    -> Get(a)

Works(r, a) == todo[r] # <<>> /\ Last(todo[r])[2] = a
Quiet(a) == \A r \in Requests : Works(r, a) => op[r] = "show"

Starting ==
    {r \in Requests : todo[r] # <<>> /\ op[r] \in {"start", "resume", "restart"}}

Begin(r, o, a) ==
    /\ todo[r] = <<>>
    /\ begun < MaxOps
    /\ Overlap \/ o = "show" \/ Quiet(a)
    /\ begun' = begun + 1
    /\ op' = [op EXCEPT ![r] = o]
    /\ todo' = [todo EXCEPT ![r] = Program(o, a)]
    /\ count' = [count EXCEPT ![r] = 0]
    /\ bad' = [bad EXCEPT ![r] = FALSE]
    /\ crowd' = LET n == Cardinality(Starting') IN IF n > crowd THEN n ELSE crowd
    /\ UNCHANGED <<agentVars, status, dirty, faults, ghostVars>>

At(r, what, a) == todo[r] # <<>> /\ Head(todo[r]) = <<what, a>>
Advance(r) == todo' = [todo EXCEPT ![r] = Tail(@)]
GiveUp(r)  == todo' = [todo EXCEPT ![r] = <<>>]

\* Fault: a start that fails leaves what it has started.
NoTeardown(r, a, first) == todo' = [todo EXCEPT ![r] = For(a, first)]

\* A phase failed: Stop, after what the runtime supervisor records first.
failClosed(r, a, first) == todo' = [todo EXCEPT ![r] = For(a, first) \o Stop(a)]

-----------------------------------------------------------------------------
(* Statuses *)

\* The backend's answer.  A running body is degraded without its enforcer, or
\* without the body's connection to comms.
Inspected(a) ==
    CASE body[a] \in {"running", "adopted"} ->
            IF Enforced(a) THEN {"running", "degraded"} ELSE {"degraded"}
      [] body[a] \in {"stopping", "stopped"} -> {"stopped"}
      [] body[a] = "crashed" -> {"failed"}
      [] OTHER -> {}

\* Without an answer a runtime that was up is shown, and saved, as degraded;
\* any other is shown as the manifest has it.
WasUp(a) == phase[a] \in {"running", "degraded"}
Seen(a) ==
    IF phase[a] = "none" THEN {"none"}
    ELSE IF Inspected(a) # {} THEN Inspected(a)
    ELSE IF WasUp(a) THEN {"degraded"} ELSE {phase[a]}

\* What was seen is saved.
Changes(a) == phase[a] # "none" /\ (Inspected(a) # {} \/ WasUp(a))

\* An answer looks for the enforcer too, and finds one of the file.
Found(a) ==
    enforcer' = [enforcer EXCEPT ![a] =
                    IF @ = "filed" /\ Inspected(a) # {} THEN "known" ELSE @]

\* Fault: an agent whose phase is degraded takes no slot.
GetUndegraded(r, a, weight) ==
    \E s \in Seen(a) :
       /\ status' = [status EXCEPT ![r] = s]
       /\ dirty' = [dirty EXCEPT ![r] = Changes(a)]
       /\ count' = [count EXCEPT ![r] = IF s \in {"running", "reconciled"}
                                         THEN @ + weight ELSE @]

\* The loading and the inspection of Get; what it returns counts as an agent.
GetStatus(r, a, weight) ==
    \E s \in Seen(a) :
       /\ status' = [status EXCEPT ![r] = s]
       /\ dirty' = [dirty EXCEPT ![r] = Changes(a)]
       /\ count' = [count EXCEPT ![r] = IF s \in {"running", "degraded", "reconciled"}
                                         THEN @ + weight ELSE @]

Inspect(r, a) ==
    /\ At(r, "inspect", a)
    /\ GetStatus(r, a, 0)
    /\ Found(a)
    /\ Advance(r)
    /\ UNCHANGED <<phase, body, stray, marker, op, bad, begun, faults,
                   ghostVars>>

\* countRunningRuntimeAgents comes to agent a.
CountAgent(r, a) ==
    /\ At(r, "tally", a)
    /\ GetStatus(r, a, 1)
    /\ Found(a)
    /\ Advance(r)
    /\ UNCHANGED <<phase, body, stray, marker, op, bad, begun, faults,
                   ghostVars>>

\* saveManifest, with the phase seen before: Get's, and then refreshStatus's.
Keep(r, a) ==
    /\ At(r, "keep", a) \/ At(r, "refresh", a)
    /\ phase' = [phase EXCEPT ![a] =
                    IF dirty[r] \/ At(r, "refresh", a) THEN status[r] ELSE @]
    /\ Advance(r)
    /\ UNCHANGED <<body, enforcer, stray, marker, op, count, status, dirty, bad,
                   begun, faults, ghostVars>>

-----------------------------------------------------------------------------
(* The start sequence *)

\* CheckSlotAvailable and phase 1; either may refuse, and nothing is torn down.
Admit(r, a) ==
    /\ At(r, "admit", a)
    /\ \/ /\ count[r] < MaxAgents
          /\ Advance(r)
          /\ fate' = [fate EXCEPT ![a] = "starting"]
       \/ GiveUp(r) /\ UNCHANGED fate
    /\ UNCHANGED <<agentVars, op, count, status, dirty, bad, begun, faults,
                   halted, lost>>

\* Fault: the manifest is saved before it is reconciled.
AdoptCompiled(r, a) ==
    /\ At(r, "adopt", a)
    /\ phase' = [phase EXCEPT ![a] = IF @ = "none" THEN "compiled" ELSE @]
    /\ Advance(r)
    /\ UNCHANGED <<body, enforcer, stray, marker, op, count, status, dirty, bad,
                   begun, faults, ghostVars>>

\* loadOrCompile: an agent without a manifest gets one.
Adopt(r, a) ==
    /\ At(r, "adopt", a)
    /\ phase' = [phase EXCEPT ![a] = IF @ = "none" THEN "reconciled" ELSE @]
    /\ Advance(r)
    /\ UNCHANGED <<body, enforcer, stray, marker, op, count, status, dirty, bad,
                   begun, faults, ghostVars>>

\* EnsureEnforcer, of phase 2 and again of EnsureWorkspace.  When it fails the
\* process may have been started (the health check failed).
Enforce(a) ==
    /\ enforcer' = [enforcer EXCEPT ![a] = "known"]
    /\ stray' = [stray EXCEPT ![a] = @ \/ enforcer[a] = "filed"]

\* It looks in memory alone: the enforcer of the file is lost to a new one.
EnsureEnforcer(r, a) ==
    /\ At(r, "enforce", a)
    /\ \/ /\ Enforce(a)
          /\ lost' = [lost EXCEPT ![a] = FALSE]
          /\ Advance(r)
       \/ /\ Enforce(a) \/ UNCHANGED <<enforcer, stray>>
          /\ failClosed(r, a, <<"fail">>)
          /\ UNCHANGED lost
    /\ UNCHANGED <<phase, body, marker, op, count, status, dirty, bad, begun,
                   faults, fate, halted>>

\* recordFailureStatus.
Fail(r, a) ==
    /\ At(r, "fail", a)
    /\ phase' = [phase EXCEPT ![a] = "failed"]
    /\ Advance(r)
    /\ UNCHANGED <<body, enforcer, stray, marker, op, count, status, dirty, bad,
                   begun, faults, ghostVars>>

\* Phases 3 to 5, and Compile and Reconcile of phase 6.
Reconcile(r, a) ==
    /\ At(r, "reconcile", a)
    /\ \/ phase' = [phase EXCEPT ![a] = "reconciled"] /\ Advance(r)
       \/ failClosed(r, a, <<>>) /\ UNCHANGED phase
    /\ UNCHANGED <<body, enforcer, stray, marker, op, count, status, dirty, bad,
                   begun, faults, ghostVars>>

\* A microVM that was stopped; the gateway has a task of those it started.
Ended(a) == IF body[a] = "adopted" THEN "untracked" ELSE "stopped"

\* backend.Ensure.  A microVM that is up already has lost its API socket to the
\* new start, which then fails and stops it.
Boot(r, a) ==
    /\ At(r, "boot", a)
    /\ \/ /\ ~Alive(a)
          /\ body' = [body EXCEPT ![a] = "running"]
          /\ Advance(r)
       \/ /\ \E b \in {body[a], Ended(a)} : body' = [body EXCEPT ![a] = b]
          /\ failClosed(r, a, <<"fail">>)
    /\ UNCHANGED <<phase, enforcer, stray, marker, op, count, status, dirty,
                   bad, begun, faults, ghostVars>>

\* Phase 7, which waits for the body's connection to comms.
Session(r, a) ==
    /\ At(r, "session", a)
    /\ \/ /\ Advance(r)
          /\ fate' = [fate EXCEPT ![a] = "up"]
          /\ halted' = [halted EXCEPT ![a] = FALSE]
       \/ failClosed(r, a, <<>>) /\ UNCHANGED <<fate, halted>>
    /\ UNCHANGED <<agentVars, op, count, status, dirty, bad, begun, faults,
                   lost>>

-----------------------------------------------------------------------------
(* Runtime.Stop *)

\* A failing stop has killed the microVM all the same, or has tried to.
StopBody(r, a) ==
    /\ At(r, "stopBody", a)
    /\ \/ /\ body' = [body EXCEPT ![a] = IF @ = "untracked" THEN @ ELSE Ended(a)]
          /\ \E b \in BOOLEAN : bad' = [bad EXCEPT ![r] = b]
       \/ /\ Alive(a)
          /\ body' = [body EXCEPT ![a] = IF @ = "adopted" THEN @ ELSE "stopping"]
          /\ bad' = [bad EXCEPT ![r] = TRUE]
    /\ Advance(r)
    /\ UNCHANGED <<phase, enforcer, stray, marker, op, count, status, dirty,
                   begun, faults, ghostVars>>

\* The enforcer is stopped whatever became of the body; HostEnforcerSupervisor
\* kills it when it must, and returns the context's error when that has ended.
StopEnforcer(r, a) ==
    /\ At(r, "stopEnforcer", a)
    /\ enforcer' = [enforcer EXCEPT ![a] = "none"]
    /\ \E b \in BOOLEAN : bad' = [bad EXCEPT ![r] = @ \/ b]
    /\ Advance(r)
    /\ UNCHANGED <<phase, body, stray, marker, op, count, status, dirty, begun,
                   faults, ghostVars>>

\* The manifest shows the outcome.  A halt or a resume whose Stop failed ends;
\* a restart and a failed start ignore the error.
Stopped(r, a) ==
    /\ At(r, "stopped", a)
    /\ phase' = [phase EXCEPT ![a] = IF bad[r] THEN "failed" ELSE "stopped"]
    /\ fate' = [fate EXCEPT ![a] = IF bad[r] THEN "loose" ELSE "down"]
    /\ IF bad[r] /\ op[r] \in {"halt", "resume"} THEN GiveUp(r) ELSE Advance(r)
    /\ bad' = [bad EXCEPT ![r] = FALSE]
    /\ UNCHANGED <<body, enforcer, stray, marker, op, count, status, dirty,
                   begun, faults, halted, lost>>

-----------------------------------------------------------------------------
(* HaltController *)

\* saveRecord and setActiveHalt.
Record(r, a) ==
    /\ At(r, "record", a)
    /\ marker' = [marker EXCEPT ![a] = TRUE]
    /\ halted' = [halted EXCEPT ![a] = TRUE]
    /\ Advance(r)
    /\ UNCHANGED <<phase, body, enforcer, stray, op, count, status, dirty, bad,
                   begun, faults, fate, lost>>

\* Resume goes on with a marker, or when the runtime is stopped.
Guard(r, a) ==
    /\ At(r, "guard", a)
    /\ IF marker[a] \/ status[r] = "stopped" THEN Advance(r) ELSE GiveUp(r)
    /\ UNCHANGED <<agentVars, op, count, status, dirty, bad, begun, faults,
                   ghostVars>>

ClearActiveHalt(r, a) ==
    /\ At(r, "clear", a)
    /\ marker' = [marker EXCEPT ![a] = FALSE]
    /\ Advance(r)
    /\ UNCHANGED <<phase, body, enforcer, stray, op, count, status, dirty, bad,
                   begun, faults, ghostVars>>

-----------------------------------------------------------------------------
(* Processes that end, and the gateway *)

\* A microVM ends by itself.  One a gateway of before started has no watcher.
BodyEnds(a) ==
    /\ body[a] \in {"running", "adopted"}
    /\ faults < MaxFaults /\ faults' = faults + 1
    /\ body' = [body EXCEPT ![a] = IF @ = "running" THEN "crashed" ELSE "untracked"]
    /\ UNCHANGED <<phase, enforcer, stray, marker, requestVars, begun,
                   ghostVars>>

\* One that a Stop has signalled, before its context ended.
BodyDies(a) ==
    /\ body[a] = "stopping"
    /\ body' = [body EXCEPT ![a] = "stopped"]
    /\ UNCHANGED <<phase, enforcer, stray, marker, requestVars, begun, faults,
                   ghostVars>>

\* Fault: a stopped microVM is restarted too.
BodyRestartsAlways(a) ==
    /\ body[a] \in {"crashed", "stopped"}
    /\ body' = [body EXCEPT ![a] = "running"]
    /\ UNCHANGED <<phase, enforcer, stray, marker, requestVars, begun, faults,
                   ghostVars>>

\* The VM supervisor restarts it after its backoff, unless it was stopped.
BodyRestarts(a) ==
    /\ body[a] = "crashed"
    /\ body' = [body EXCEPT ![a] = "running"]
    /\ UNCHANGED <<phase, enforcer, stray, marker, requestVars, begun, faults,
                   ghostVars>>

\* Nobody restarts an enforcer.
EnforcerEnds(a) ==
    /\ Enforced(a)
    /\ faults < MaxFaults /\ faults' = faults + 1
    /\ enforcer' = [enforcer EXCEPT ![a] = "none"]
    /\ lost' = [lost EXCEPT ![a] = TRUE]
    /\ UNCHANGED <<phase, body, stray, marker, requestVars, begun, fate,
                   halted>>

\* Requests are gone; the processes of the agents are found by their pid files,
\* but for a microVM that was killed, which ends whatever becomes of the gateway,
\* and for one whose file the watch of a task before it removed (VMSupervisor
\* has the steps; the file of one an earlier gateway started has no such watch).
GatewayRestarts ==
    /\ faults < MaxFaults /\ faults' = faults + 1
    /\ todo' = [r \in Requests |-> <<>>]
    /\ \E unlisted \in SUBSET {a \in Agents : body[a] = "running"} :
          /\ body' = [a \in Agents |-> IF a \in Up \ unlisted THEN "adopted"
                                       ELSE "untracked"]
          /\ stray' = [a \in Agents |-> stray[a] \/ a \in unlisted]
    /\ enforcer' = [a \in Agents |-> IF Enforced(a) THEN "filed" ELSE "none"]
    /\ fate' = [a \in Agents |-> IF Quiet(a) THEN fate[a] ELSE "loose"]
    /\ UNCHANGED <<phase, marker, op, count, status, dirty, bad, begun, halted,
                   lost>>

-----------------------------------------------------------------------------
Step(r, a) ==
    \/ Inspect(r, a) \/ CountAgent(r, a) \/ Keep(r, a)
    \/ Admit(r, a) \/ Adopt(r, a) \/ EnsureEnforcer(r, a) \/ Fail(r, a)
    \/ Reconcile(r, a) \/ Boot(r, a) \/ Session(r, a)
    \/ StopBody(r, a) \/ StopEnforcer(r, a) \/ Stopped(r, a)
    \/ Record(r, a) \/ Guard(r, a) \/ ClearActiveHalt(r, a)

Next ==
    \/ \E r \in Requests, o \in Ops, a \in Agents : Begin(r, o, a)
    \/ /\ UNCHANGED crowd
       /\ \/ \E r \in Requests, a \in Agents : Step(r, a)
          \/ \E a \in Agents :
                BodyEnds(a) \/ BodyDies(a) \/ BodyRestarts(a) \/ EnforcerEnds(a)
          \/ GatewayRestarts

Spec == Init /\ [][Next]_vars

-----------------------------------------------------------------------------
(* Properties *)

\* Once Runtime.Stop returned without an error no process of the agent that its
\* supervisors know, in memory or by a file, runs until a start sequence is
\* admitted for it: no restart of the microVM, no late step of another request
\* (halt.go, runtime_supervisor.go:364-399).  A stray process is beyond every
\* Stop, which returns nil beside it: the enforcer to which a start after a
\* restart of the gateway added its own, and the microVM without a file
\* (firecracker_supervisor.go:109-111, 260).
StoppedStaysDown ==
    \A a \in Agents : fate[a] = "down" => ~Alive(a) /\ ~Enforced(a)

\* Violated with Overlap.  An agent halted for an unacknowledged constraint does
\* not run, as such a change is "treated as potential compromise" (halt.go:221-224;
\* the halt is a request like any other).
HaltedIsDown == \A a \in Agents : halted[a] /\ Quiet(a) => ~Alive(a)

\* No start leaves a part of an agent behind: what runs while nobody works on
\* the agent came up whole, or was left by a Stop that failed or a gateway that
\* ended (Run's failClosed after each of its phases).  Of stray processes, see
\* StoppedStaysDown, it says nothing.
NothingHalfStarted ==
    \A a \in Agents :
        Quiet(a) /\ (Alive(a) \/ Enforced(a)) => fate[a] \in {"up", "loose"}

\* An agent that was halted is known to be halted until it is up again, through
\* resumes that fail on the way, crashes and restarts of the gateway (Resume
\* clears the marker last, halt.go:183).
HaltIsRemembered == \A a \in Agents : halted[a] => marker[a]

\* A body comes up behind its enforcer, be it in a start sequence or restarted
\* by the VM supervisor, unless the enforcer ended by itself (Run starts the
\* enforcer first, EnsureWorkspace again, and Stop takes it down last).
BootsEnforced ==
    [][ \A a \in Agents :
           ~Alive(a) /\ Alive(a)' => Enforced(a) \/ lost[a] ]_vars

\* The check of the capacity and the start are not one step, and an agent that
\* crashed, or that a new gateway does not find, is not counted: an agent beyond
\* the limit takes a start that was in flight beside another, a crash or a new
\* gateway, and each of them accounts for one (start.go:530-560, 590-612).  The
\* agents are those the gateway knows to be up.
CapacityBound ==
    crowd > 0 => Cardinality(Up) <= MaxAgents + (crowd - 1) + faults
=============================================================================

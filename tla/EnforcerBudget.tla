--------------------------- MODULE EnforcerBudget ---------------------------
(***************************************************************************)
(* The enforcer's budget for one agent: BudgetTracker                      *)
(* (images/enforcer/budget.go) as the goroutines of LLMHandler.ServeHTTP   *)
(* (llm.go) use it, and the totals of the day, which the gateway computes  *)
(* from the enforcer's audit log (internal/api/agents/handlers_budget.go). *)
(*                                                                         *)
(* A call is checked before it goes to the provider and charged after its  *)
(* answer, each a critical section of its own, and between the two parts   *)
(* of the check the tracker may ask the gateway.  The body sends one call  *)
(* after the other but gives up on slow ones (_call_llm of body.py), and   *)
(* those the enforcer still works at: Calls is how many overlap.           *)
(*                                                                         *)
(* An amount is a number of some unit of cost.  The limit of the month is  *)
(* checked like that of the day, and DailyLimit stands for both.           *)
(***************************************************************************)
EXTENDS Integers, FiniteSets

CONSTANTS
    Calls,        \* goroutines that serve requests
    Tasks,        \* what X-Agency-Task-Id names
    NoTask,       \* a request without the header
    TaskLimit,    \* AGENCY_BUDGET_PER_TASK; 0 is none
    DailyLimit,   \* AgentDaily of the gateway's PlatformBudgetConfig; 0 is none
    MaxUsage,     \* most that the tokens of one answer cost
    MaxTools,     \* most that the provider's tools cost in one answer
    MaxSends      \* bound: requests sent

ASSUME BudgetAssumption ==
    /\ IsFiniteSet(Calls) /\ Calls # {} /\ NoTask \notin Tasks
    /\ TaskLimit \in Nat /\ DailyLimit \in Nat
    /\ MaxUsage \in Nat /\ MaxTools \in Nat /\ MaxSends \in Nat

VARIABLES
    (* BudgetTracker *)
    currentTask,  \* the task whose cost is counted
    taskCost,     \* taskCostUSD
    cached,       \* cachedRemaining; "none" is nil or older than cacheTTL
    (* the goroutines *)
    call,         \* of each: where it is, its request, what it learnt
    (* the audit log of today *)
    buffered,     \* cost of the entries the logger has not written
    logged,       \* cost of the entries the gateway can read
    (* the environment *)
    sent,         \* requests so far
    (* what happened, for the properties *)
    turns,        \* times the tracker turned to a task
    spent         \* charged for the requests of a task

tracker == <<currentTask, taskCost, cached>>
audit   == <<buffered, logged>>
vars    == <<tracker, call, audit, sent, turns, spent>>

Remaining == {"none", "left", "spent"}
Call == [pc : {"idle", "check", "cache", "fetch", "store", "upstream", "usage", "tools"},
         task : Tasks \cup {NoTask}, asks : BOOLEAN, got : Remaining,
         usage : 0..MaxUsage, tools : 0..MaxTools]

Idle == [pc |-> "idle", task |-> NoTask, asks |-> FALSE, got |-> "none",
         usage |-> 0, tools |-> 0]

TypeOK ==
    /\ currentTask \in Tasks \cup {NoTask}
    /\ taskCost \in Nat
    /\ cached \in Remaining
    /\ call \in [Calls -> Call]
    /\ buffered \in Nat /\ logged \in Nat
    /\ sent \in 0..MaxSends
    /\ turns \in [Tasks -> Nat]
    /\ spent \in [Tasks \cup {NoTask} -> Nat]

Init ==
    /\ currentTask = NoTask
    /\ taskCost = 0
    /\ cached = "none"
    /\ call = [c \in Calls |-> Idle]
    /\ buffered = 0
    /\ logged = 0
    /\ sent = 0
    /\ turns = [t \in Tasks |-> 0]
    /\ spent = [t \in Tasks \cup {NoTask} |-> 0]

At(c, pc) == call[c].pc = pc

Go(c, pc) == call' = [call EXCEPT ![c].pc = pc]

\* The goroutine ends.
Done(c) == call' = [call EXCEPT ![c] = Idle]

-----------------------------------------------------------------------------
(* A request comes in *)

\* Fault: every request that names its task starts a new budget.
SetTaskAnew(t) ==
    \/ /\ t = NoTask
       /\ UNCHANGED <<currentTask, taskCost, turns>>
    \/ /\ t # NoTask
       /\ currentTask' = t
       /\ taskCost' = 0
       /\ turns' = [turns EXCEPT ![t] = IF t = currentTask THEN @ ELSE @ + 1]

SetTask(t) ==
    \/ /\ t \in {NoTask, currentTask}
       /\ UNCHANGED <<currentTask, taskCost, turns>>
    \/ /\ t \notin {NoTask, currentTask}
       /\ currentTask' = t
       /\ taskCost' = 0
       /\ turns' = [turns EXCEPT ![t] = @ + 1]

Send(c, t) ==
    /\ At(c, "idle")
    /\ sent < MaxSends
    /\ sent' = sent + 1
    /\ SetTask(t)
    /\ call' = [call EXCEPT ![c] = [Idle EXCEPT !.pc = "check", !.task = t]]
    /\ UNCHANGED <<cached, audit, spent>>

\* GET /budget: GetRemaining reads the day's total as CheckBudget does.
Ask(c) ==
    /\ At(c, "idle")
    /\ call' = [call EXCEPT ![c] = [Idle EXCEPT !.pc = "cache", !.asks = TRUE]]
    /\ UNCHANGED <<tracker, audit, sent, turns, spent>>

-----------------------------------------------------------------------------
(* CheckBudget *)

TaskExhausted == TaskLimit > 0 /\ taskCost >= TaskLimit

\* The task's budget, under the lock, which is released at once.
CheckTask(c) ==
    /\ At(c, "check")
    /\ \/ TaskExhausted /\ Done(c)
       \/ ~TaskExhausted /\ Go(c, "cache")
    /\ UNCHANGED <<tracker, audit, sent, turns, spent>>

\* The rest of CheckBudget, with what getCachedRemaining returned: without a
\* total the request passes.
Decide(c, remaining) ==
    \/ /\ call[c].asks \/ remaining = "spent"
       /\ Done(c)
    \/ /\ ~call[c].asks /\ remaining # "spent"
       /\ Go(c, "upstream")

ReadCache(c) ==
    /\ At(c, "cache")
    /\ \/ /\ cached = "none"
          /\ Go(c, "fetch")
       \/ /\ cached # "none"
          /\ Decide(c, cached)
    /\ UNCHANGED <<tracker, audit, sent, turns, spent>>

\* The gateway reads the audit log and answers.
GetBudgetRemaining(c) ==
    /\ At(c, "fetch")
    /\ \E got \in {"left", "spent"} :
          /\ got = "spent" <=> DailyLimit > 0 /\ logged >= DailyLimit
          /\ call' = [call EXCEPT ![c].pc = "store", ![c].got = got]
    /\ UNCHANGED <<tracker, audit, sent, turns, spent>>

\* No answer within five seconds, or none that is one.
FetchFails(c) ==
    /\ At(c, "fetch") \/ At(c, "store")
    /\ Decide(c, "none")
    /\ UNCHANGED <<tracker, audit, sent, turns, spent>>

StoreRemaining(c) ==
    /\ At(c, "store")
    /\ cached' = call[c].got
    /\ Decide(c, call[c].got)
    /\ UNCHANGED <<currentTask, taskCost, audit, sent, turns, spent>>

-----------------------------------------------------------------------------
(* The provider's answer *)

\* A bad body, an unknown model, a refused tool, no slot of the rate limiter
\* in two minutes, or no answer after the retries.
Abandon(c) ==
    /\ At(c, "upstream")
    /\ Done(c)
    /\ UNCHANGED <<tracker, audit, sent, turns, spent>>

\* The answer is relayed and its costs, which may be partial, are logged.
RelayResponse(c, usage, tools) ==
    /\ At(c, "upstream")
    /\ call' = [call EXCEPT ![c].pc = "usage", ![c].usage = usage, ![c].tools = tools]
    /\ buffered' = buffered + usage + tools
    /\ UNCHANGED <<tracker, logged, sent, turns, spent>>

\* RecordCost: to the task of the moment, whose request it may not have been.
Charge(c, cost) ==
    /\ taskCost' = taskCost + cost
    /\ spent' = [spent EXCEPT ![call[c].task] = @ + cost]

RecordUsage(c) ==
    /\ At(c, "usage")
    /\ Charge(c, call[c].usage)
    /\ Go(c, "tools")
    /\ UNCHANGED <<currentTask, cached, audit, sent, turns>>

RecordTools(c) ==
    /\ At(c, "tools")
    /\ Charge(c, call[c].tools)
    /\ Done(c)
    /\ UNCHANGED <<currentTask, cached, audit, sent, turns>>

-----------------------------------------------------------------------------
(* The log, the clock and the host *)

Flush ==
    /\ buffered > 0
    /\ logged' = logged + buffered
    /\ buffered' = 0
    /\ UNCHANGED <<tracker, call, sent, turns, spent>>

\* The logger's channel is full, or its file cannot be opened or written.
EntriesLost ==
    /\ \E lost \in 1..buffered : buffered' = buffered - lost
    /\ UNCHANGED <<tracker, call, logged, sent, turns, spent>>

\* cacheTTL is over.
CacheExpires ==
    /\ cached # "none"
    /\ cached' = "none"
    /\ UNCHANGED <<currentTask, taskCost, call, audit, sent, turns, spent>>

\* Entries count for the day of their timestamp.
NewDay ==
    /\ logged' = 0
    /\ buffered' = 0
    /\ UNCHANGED <<tracker, call, sent, turns, spent>>

\* An enforcer is replaced, with its requests, its memory and its buffer.
EnforcerRestarts ==
    /\ currentTask' = NoTask
    /\ taskCost' = 0
    /\ cached' = "none"
    /\ call' = [c \in Calls |-> Idle]
    /\ buffered' = 0
    /\ UNCHANGED <<logged, sent, turns, spent>>

-----------------------------------------------------------------------------
Next ==
    \/ \E c \in Calls :
          \/ \E t \in Tasks \cup {NoTask} : Send(c, t)
          \/ Ask(c) \/ CheckTask(c) \/ ReadCache(c)
          \/ GetBudgetRemaining(c) \/ FetchFails(c) \/ StoreRemaining(c)
          \/ Abandon(c)
          \/ \E usage \in 0..MaxUsage, tools \in 0..MaxTools : RelayResponse(c, usage, tools)
          \/ RecordUsage(c) \/ RecordTools(c)
    \/ Flush \/ EntriesLost \/ CacheExpires \/ NewDay \/ EnforcerRestarts

Spec == Init /\ [][Next]_vars

-----------------------------------------------------------------------------
(* Properties *)

MaxCost == MaxUsage + MaxTools

\* What a task costs is checked before a call and known after it, so a limit is
\* overspent; but only by what the calls then under way cost, however the checks
\* of some run beside the charges of others (CheckBudget, RecordCost).
CostBounded ==
    TaskLimit > 0 => taskCost < TaskLimit + Cardinality(Calls) * MaxCost

\* The same of what the requests of one task are charged, to whatever task the
\* tracker counts by then: a task that the tracker turned to once overspends by
\* its calls under way, and by those that were not checked yet when it turned to
\* the next task, which are measured against that one's cost (SetTask and
\* CheckBudget take the lock separately).  A task that comes back has a new budget.
TaskSpendBounded ==
    TaskLimit > 0 =>
        \A t \in Tasks : turns[t] <= 1 =>
            spent[t] < TaskLimit + Cardinality(Calls) * MaxCost
                                 + (Cardinality(Calls) - 1) * MaxCost

-----------------------------------------------------------------------------
(* The inductive invariant behind the bounds *)

Admitted == {"cache", "fetch", "store", "upstream"}

\* Requests that passed the check of the task's budget and are yet to be charged
\* for their tokens, and for the provider's tools.
Untallied == {c \in Calls : ~call[c].asks /\ call[c].pc \in Admitted \cup {"usage"}}
Unpriced == {c \in Calls : ~call[c].asks /\ call[c].pc \in Admitted \cup {"usage", "tools"}}

\* The same of one task, with those that are yet to be checked.
UntalliedOf(t) == {c \in Calls : /\ call[c].task = t
                                 /\ call[c].pc \in Admitted \cup {"check", "usage"}}
UnpricedOf(t) == {c \in Calls : /\ call[c].task = t
                                /\ call[c].pc \in Admitted \cup {"check", "usage", "tools"}}

\* The most they can be charged.
Exposure(untallied, unpriced) ==
    MaxUsage * Cardinality(untallied) + MaxTools * Cardinality(unpriced)

AsksAreNoRequests ==
    \A c \in Calls : call[c].asks => /\ call[c].task = NoTask
                                     /\ call[c].pc \in {"cache", "fetch", "store"}

CostCovered ==
    TaskLimit > 0 =>
        taskCost + Exposure(Untallied, Unpriced) < TaskLimit + Cardinality(Calls) * MaxCost

\* A task before, during and after the only time the tracker turned to it.
TaskCovered(t) ==
    /\ turns[t] = 0 => /\ spent[t] = 0
                       /\ currentTask # t
                       /\ \A c \in Calls : call[c].task # t
    /\ turns[t] = 1 /\ currentTask = t => spent[t] <= taskCost
    /\ turns[t] = 1 /\ currentTask # t =>
           spent[t] + Exposure(UntalliedOf(t), UnpricedOf(t))
               < TaskLimit + Cardinality(Calls) * MaxCost + (Cardinality(Calls) - 1) * MaxCost

TasksCovered == TaskLimit > 0 => \A t \in Tasks : TaskCovered(t)

IInv == TypeOK /\ AsksAreNoRequests /\ CostCovered /\ TasksCovered
=============================================================================

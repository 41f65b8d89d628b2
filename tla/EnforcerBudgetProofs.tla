------------------------- MODULE EnforcerBudgetProofs -------------------------
(* Proofs about EnforcerBudget, for any calls, tasks, limits and prices. *)
EXTENDS EnforcerBudget, FiniteSetTheorems, TLAPS

-----------------------------------------------------------------------------
(* What calls under way can still be charged *)

LEMMA SubsetSizes ==
    ASSUME NEW A \in SUBSET Calls
    PROVE  IsFiniteSet(A) /\ Cardinality(A) \in Nat /\ Cardinality(A) <= Cardinality(Calls)
BY BudgetAssumption, FS_Subset, FS_CardinalityType

LEMMA CallsSize == Cardinality(Calls) \in Nat /\ Cardinality(Calls) >= 1
<1>1. Cardinality(Calls) \in Nat
  BY BudgetAssumption, FS_CardinalityType
<1>2. Cardinality(Calls) # 0
  BY BudgetAssumption, FS_EmptySet
<1>3. QED
  BY <1>1, <1>2

LEMMA Product ==
    ASSUME NEW m \in Nat, NEW i \in Nat, NEW j \in Nat, i <= j
    PROVE  /\ m * i \in Nat /\ m * j \in Nat
           /\ m * i <= m * j
           /\ m * (i + 1) = m * i + m
<1>1. m * j = m * i + m * (j - i) /\ m * (j - i) \in Nat
  OBVIOUS
<1>2. QED
  BY <1>1

\* With fewer calls there is less to come.
LEMMA ExposureMonotone ==
    ASSUME NEW A \in SUBSET Calls, NEW B \in SUBSET Calls,
           NEW C \in SUBSET Calls, NEW D \in SUBSET Calls, A \subseteq C, B \subseteq D
    PROVE  /\ Exposure(A, B) \in Nat /\ Exposure(C, D) \in Nat
           /\ Exposure(A, B) <= Exposure(C, D)
<1>1. /\ Cardinality(A) \in Nat /\ Cardinality(B) \in Nat
      /\ Cardinality(C) \in Nat /\ Cardinality(D) \in Nat
  BY SubsetSizes
<1>2. Cardinality(A) <= Cardinality(C) /\ Cardinality(B) <= Cardinality(D)
  BY SubsetSizes, FS_Subset
<1>3. /\ MaxUsage * Cardinality(A) \in Nat /\ MaxUsage * Cardinality(C) \in Nat
      /\ MaxUsage * Cardinality(A) <= MaxUsage * Cardinality(C)
  BY <1>1, <1>2, Product, BudgetAssumption
<1>4. /\ MaxTools * Cardinality(B) \in Nat /\ MaxTools * Cardinality(D) \in Nat
      /\ MaxTools * Cardinality(B) <= MaxTools * Cardinality(D)
  BY <1>1, <1>2, Product, BudgetAssumption
<1>5. QED
  BY <1>3, <1>4 DEF Exposure

\* All calls together cost so much, and so much without the one of another task.
LEMMA ExposureBounded ==
    ASSUME NEW A \in SUBSET Calls, NEW B \in SUBSET Calls
    PROVE  /\ Exposure(A, B) \in Nat
           /\ Cardinality(Calls) * MaxCost \in Nat
           /\ (Cardinality(Calls) - 1) * MaxCost \in Nat
           /\ Exposure(A, B) <= Cardinality(Calls) * MaxCost
           /\ \A c \in Calls : c \notin A /\ c \notin B
                 => Exposure(A, B) <= (Cardinality(Calls) - 1) * MaxCost
<1> DEFINE n == Cardinality(Calls)
<1>1. n \in Nat /\ n >= 1 /\ MaxUsage \in Nat /\ MaxTools \in Nat
  BY CallsSize, BudgetAssumption
<1>2. ASSUME NEW i \in Nat, NEW j \in Nat, NEW k \in Nat, i <= k, j <= k
      PROVE  MaxUsage * i + MaxTools * j <= k * MaxCost
  <2>1. MaxUsage * i <= MaxUsage * k /\ MaxTools * j <= MaxTools * k
    BY <1>1, <1>2, Product
  <2>2. MaxUsage * k + MaxTools * k = k * MaxCost
    BY <1>1 DEF MaxCost
  <2>3. MaxUsage * i \in Nat /\ MaxTools * j \in Nat /\ MaxUsage * k \in Nat /\ MaxTools * k \in Nat
    BY <1>1, <1>2, Product
  <2> HIDE <1>1
  <2>4. QED
    BY <2>1, <2>2, <2>3
<1>3. Exposure(A, B) \in Nat
  BY ExposureMonotone
<1>4. n * MaxCost \in Nat /\ (n - 1) * MaxCost \in Nat
  <2>1. MaxCost \in Nat /\ n - 1 \in Nat
    BY <1>1 DEF MaxCost
  <2>2. QED
    BY <1>1, <2>1
<1>5. Exposure(A, B) <= n * MaxCost
  BY <1>1, <1>2, SubsetSizes DEF Exposure
<1>6. ASSUME NEW c \in Calls, c \notin A, c \notin B
      PROVE  Exposure(A, B) <= (n - 1) * MaxCost
  <2>1. Cardinality(Calls \ {c}) = n - 1 /\ IsFiniteSet(Calls \ {c})
    BY BudgetAssumption, FS_RemoveElement
  <2>2. A \subseteq Calls \ {c} /\ B \subseteq Calls \ {c}
    BY <1>6
  <2>3. Cardinality(A) <= n - 1 /\ Cardinality(B) <= n - 1
    BY <2>1, <2>2, FS_Subset
  <2>4. Cardinality(A) \in Nat /\ Cardinality(B) \in Nat /\ n - 1 \in Nat
    BY SubsetSizes, <1>1
  <2>5. QED
    BY <1>2, <2>3, <2>4 DEF Exposure
<1>7. QED
  BY <1>3, <1>4, <1>5, <1>6

\* One call is charged: what is still to come has become less by as much.
LEMMA UsageCharged ==
    ASSUME NEW A \in SUBSET Calls, NEW B \in SUBSET Calls, NEW c \in A
    PROVE  Exposure(A \ {c}, B) + MaxUsage = Exposure(A, B)
<1>1. Cardinality(A \ {c}) = Cardinality(A) - 1 /\ Cardinality(A \ {c}) \in Nat
  BY SubsetSizes, FS_RemoveElement
<1>2. Cardinality(A) = Cardinality(A \ {c}) + 1 /\ Cardinality(B) \in Nat
  BY <1>1, SubsetSizes
<1>3. MaxUsage * Cardinality(A) = MaxUsage * Cardinality(A \ {c}) + MaxUsage
  BY <1>1, <1>2, Product, BudgetAssumption
<1>4. /\ MaxUsage * Cardinality(A \ {c}) \in Nat
      /\ MaxTools * Cardinality(B) \in Nat /\ MaxUsage \in Nat
  BY <1>1, <1>2, Product, BudgetAssumption
<1>5. QED
  BY <1>3, <1>4 DEF Exposure

LEMMA ToolsCharged ==
    ASSUME NEW A \in SUBSET Calls, NEW B \in SUBSET Calls, NEW c \in B
    PROVE  Exposure(A, B \ {c}) + MaxTools = Exposure(A, B)
<1>1. Cardinality(B \ {c}) = Cardinality(B) - 1 /\ Cardinality(B \ {c}) \in Nat
  BY SubsetSizes, FS_RemoveElement
<1>2. Cardinality(B) = Cardinality(B \ {c}) + 1 /\ Cardinality(A) \in Nat
  BY <1>1, SubsetSizes
<1>3. MaxTools * Cardinality(B) = MaxTools * Cardinality(B \ {c}) + MaxTools
  BY <1>1, <1>2, Product, BudgetAssumption
<1>4. /\ MaxTools * Cardinality(B \ {c}) \in Nat
      /\ MaxUsage * Cardinality(A) \in Nat /\ MaxTools \in Nat
  BY <1>1, <1>2, Product, BudgetAssumption
<1>5. QED
  BY <1>3, <1>4 DEF Exposure

\* The sets of calls whose charges are to come.
LEMMA OpenCalls ==
    /\ Untallied \in SUBSET Calls /\ Unpriced \in SUBSET Calls
    /\ \A t : UntalliedOf(t) \in SUBSET Calls /\ UnpricedOf(t) \in SUBSET Calls
BY DEF Untallied, Unpriced, UntalliedOf, UnpricedOf

-----------------------------------------------------------------------------
(* Steps that charge nothing and admit nothing *)

\* A call goes on, ends, or asks for the budget: less is to come than before.
GoesOn(c) ==
    \/ call'[c] = call[c]
    \/ call'[c] = Idle
    \/ call'[c].asks /\ call'[c].task = NoTask
    \/ /\ ~call[c].asks /\ ~call'[c].asks
       /\ call'[c].task = call[c].task
       /\ call[c].pc \in Admitted
       /\ call'[c].pc \in Admitted \cup {"usage"}

LEMMA QuietStep ==
    ASSUME TypeOK, TypeOK', CostCovered, TasksCovered,
           UNCHANGED <<currentTask, taskCost, turns, spent>>,
           \A c \in Calls : GoesOn(c)
    PROVE  CostCovered' /\ TasksCovered'
<1>1. Untallied' \subseteq Untallied /\ Unpriced' \subseteq Unpriced
  BY DEF GoesOn, Untallied, Unpriced, Idle, Admitted
<1>2. ASSUME NEW t \in Tasks
      PROVE  /\ UntalliedOf(t)' \subseteq UntalliedOf(t)
             /\ UnpricedOf(t)' \subseteq UnpricedOf(t)
             /\ \A c \in Calls : call'[c].task = t => call[c].task = t
  BY <1>2, BudgetAssumption DEF GoesOn, UntalliedOf, UnpricedOf, Idle, Admitted
<1>3. /\ Untallied' \in SUBSET Calls /\ Unpriced' \in SUBSET Calls
      /\ \A t \in Tasks : UntalliedOf(t)' \in SUBSET Calls /\ UnpricedOf(t)' \in SUBSET Calls
  BY DEF Untallied, Unpriced, UntalliedOf, UnpricedOf
<1>4. CostCovered'
  <2>1. /\ Exposure(Untallied', Unpriced') \in Nat /\ Exposure(Untallied, Unpriced) \in Nat
        /\ Exposure(Untallied', Unpriced') <= Exposure(Untallied, Unpriced)
    BY <1>1, <1>3, OpenCalls, ExposureMonotone
  <2>2. Cardinality(Calls) * MaxCost \in Nat /\ TaskLimit \in Nat /\ taskCost \in Nat
    BY ExposureBounded, BudgetAssumption DEF TypeOK
  <2>3. QED
    BY <2>1, <2>2 DEF CostCovered
<1>5. ASSUME TaskLimit > 0, NEW t \in Tasks
      PROVE  TaskCovered(t)'
  <2>1. /\ Exposure(UntalliedOf(t)', UnpricedOf(t)') \in Nat
        /\ Exposure(UntalliedOf(t), UnpricedOf(t)) \in Nat
        /\ Exposure(UntalliedOf(t)', UnpricedOf(t)') <= Exposure(UntalliedOf(t), UnpricedOf(t))
    BY <1>2, <1>3, OpenCalls, ExposureMonotone
  <2>2. /\ Cardinality(Calls) * MaxCost \in Nat /\ (Cardinality(Calls) - 1) * MaxCost \in Nat
        /\ TaskLimit \in Nat /\ spent[t] \in Nat
    BY ExposureBounded, BudgetAssumption DEF TypeOK
  <2>3. TaskCovered(t)
    BY <1>5 DEF TasksCovered
  <2>4. QED
    BY <2>1, <2>2, <2>3, <1>2 DEF TaskCovered
<1>6. QED
  BY <1>4, <1>5 DEF TasksCovered

\* What CheckBudget does with the total of the day.
LEMMA DecideStep ==
    ASSUME IInv, NEW c \in Calls, NEW remaining \in Remaining, Decide(c, remaining),
           call[c].pc \in {"cache", "fetch", "store"}
    PROVE  /\ call' \in [Calls -> Call]
           /\ AsksAreNoRequests'
           /\ \A d \in Calls : GoesOn(d)
<1> USE DEF IInv, TypeOK, Call
<1>1. Idle \in Call
  BY BudgetAssumption DEF Idle, Remaining
<1>2. CASE Done(c)
  BY <1>1, <1>2 DEF Done, AsksAreNoRequests, GoesOn, Idle
<1>3. CASE ~call[c].asks /\ Go(c, "upstream")
  <2>1. call' \in [Calls -> Call]
    BY <1>3 DEF Go
  <2>2. AsksAreNoRequests' /\ \A d \in Calls : GoesOn(d)
    BY <1>3 DEF Go, AsksAreNoRequests, GoesOn, Admitted
  <2>3. QED
    BY <2>1, <2>2
<1>4. QED
  BY <1>2, <1>3 DEF Decide

LEMMA IdleIsCall == Idle \in Call
BY BudgetAssumption DEF Idle, Call, Remaining

\* The check of the total: from the cache, from the gateway, or given up.
LEMMA DayCheckStep ==
    ASSUME IInv, NEW c \in Calls,
           ReadCache(c) \/ GetBudgetRemaining(c) \/ FetchFails(c) \/ StoreRemaining(c)
    PROVE  IInv'
<1> USE DEF At, tracker, audit
<1>1. CASE ReadCache(c)
  <2>1. CASE cached = "none" /\ Go(c, "fetch")
    <3>1. TypeOK'
      BY <1>1, <2>1 DEF ReadCache, Go, IInv, TypeOK, Call
    <3>2. AsksAreNoRequests' /\ \A d \in Calls : GoesOn(d)
      BY <1>1, <2>1 DEF ReadCache, Go, IInv, TypeOK, Call, AsksAreNoRequests, GoesOn, Admitted
    <3>3. QED
      BY <1>1, <3>1, <3>2, QuietStep DEF ReadCache, IInv
  <2>2. CASE Decide(c, cached)
    <3>1. cached \in Remaining
      BY DEF IInv, TypeOK
    <3>2. TypeOK' /\ AsksAreNoRequests' /\ \A d \in Calls : GoesOn(d)
      BY <1>1, <2>2, <3>1, DecideStep DEF ReadCache, IInv, TypeOK
    <3>3. QED
      BY <1>1, <3>2, QuietStep DEF ReadCache, IInv
  <2>3. QED
    BY <1>1, <2>1, <2>2 DEF ReadCache
<1>2. CASE GetBudgetRemaining(c)
  <2>1. TypeOK'
    BY <1>2 DEF GetBudgetRemaining, IInv, TypeOK, Call, Remaining
  <2>2. AsksAreNoRequests' /\ \A d \in Calls : GoesOn(d)
    BY <1>2 DEF GetBudgetRemaining, IInv, TypeOK, Call, AsksAreNoRequests, GoesOn, Admitted
  <2>3. QED
    BY <1>2, <2>1, <2>2, QuietStep DEF GetBudgetRemaining, IInv
<1>3. CASE FetchFails(c)
  <2>1. "none" \in Remaining
    BY DEF Remaining
  <2>2. TypeOK' /\ AsksAreNoRequests' /\ \A d \in Calls : GoesOn(d)
    BY <1>3, <2>1, DecideStep DEF FetchFails, IInv, TypeOK
  <2>3. QED
    BY <1>3, <2>2, QuietStep DEF FetchFails, IInv
<1>4. CASE StoreRemaining(c)
  <2>1. call[c].got \in Remaining
    BY DEF IInv, TypeOK, Call
  <2>2. TypeOK' /\ AsksAreNoRequests' /\ \A d \in Calls : GoesOn(d)
    BY <1>4, <2>1, DecideStep DEF StoreRemaining, IInv, TypeOK
  <2>3. QED
    BY <1>4, <2>2, QuietStep DEF StoreRemaining, IInv
<1>5. QED
  BY <1>1, <1>2, <1>3, <1>4

\* The body asks for its budget, or a request ends without an answer.
LEMMA AskStep ==
    ASSUME IInv, NEW c \in Calls, Ask(c) \/ Abandon(c)
    PROVE  IInv'
<1>1. /\ UNCHANGED <<tracker, audit, sent, turns, spent>>
      /\ \/ call' = [call EXCEPT ![c] = [Idle EXCEPT !.pc = "cache", !.asks = TRUE]]
         \/ call' = [call EXCEPT ![c] = Idle]
  BY DEF Ask, Abandon, Done
<1>2. [Idle EXCEPT !.pc = "cache", !.asks = TRUE] \in Call
  BY IdleIsCall DEF Call, Idle
<1>3. TypeOK'
  BY <1>1, <1>2, IdleIsCall DEF IInv, TypeOK, tracker, audit
<1>4. \A d \in Calls : \/ call'[d] = call[d]
                       \/ call'[d] = Idle
                       \/ /\ call'[d].asks /\ call'[d].task = NoTask
                          /\ call'[d].pc = "cache"
  <2>1. CASE call' = [call EXCEPT ![c] = [Idle EXCEPT !.pc = "cache", !.asks = TRUE]]
    BY <2>1 DEF IInv, TypeOK, Idle
  <2>2. CASE call' = [call EXCEPT ![c] = Idle]
    BY <2>2 DEF IInv, TypeOK
  <2>3. QED
    BY <1>1, <2>1, <2>2
<1>5. \A d \in Calls : GoesOn(d)
  BY <1>4 DEF GoesOn
<1>6. AsksAreNoRequests'
  <2>1. ~Idle.asks
    BY DEF Idle
  <2>2. QED
    BY <1>4, <2>1 DEF IInv, AsksAreNoRequests
<1>7. QED
  BY <1>1, <1>3, <1>5, <1>6, QuietStep DEF IInv, tracker

\* An answer: its costs are known and not charged yet.
LEMMA RelayStep ==
    ASSUME IInv, NEW c \in Calls, NEW usage \in 0..MaxUsage, NEW tools \in 0..MaxTools,
           RelayResponse(c, usage, tools)
    PROVE  IInv'
<1> USE DEF RelayResponse, At
<1>1. TypeOK'
  <2>1. usage \in Nat /\ tools \in Nat /\ buffered \in Nat
    BY BudgetAssumption DEF IInv, TypeOK
  <2>2. [call[c] EXCEPT !.pc = "usage", !.usage = usage, !.tools = tools] \in Call
    BY DEF IInv, TypeOK, Call
  <2>3. call' \in [Calls -> Call]
    BY <2>2 DEF IInv, TypeOK
  <2>4. QED
    BY <2>1, <2>3 DEF IInv, TypeOK, tracker
<1>2. AsksAreNoRequests' /\ \A d \in Calls : GoesOn(d)
  BY DEF IInv, TypeOK, Call, AsksAreNoRequests, GoesOn, Admitted
<1>3. QED
  BY <1>1, <1>2, QuietStep DEF IInv, tracker

\* The log, the clock.
LEMMA OutsideStep ==
    ASSUME IInv, Flush \/ EntriesLost \/ CacheExpires \/ NewDay
    PROVE  IInv'
<1>1. /\ UNCHANGED <<currentTask, taskCost, call, sent, turns, spent>>
      /\ cached' \in Remaining /\ buffered' \in Nat /\ logged' \in Nat
  BY DEF Flush, EntriesLost, CacheExpires, NewDay, IInv, TypeOK, Remaining, tracker, audit
<1>2. TypeOK'
  BY <1>1 DEF IInv, TypeOK
<1>3. AsksAreNoRequests' /\ \A d \in Calls : GoesOn(d)
  BY <1>1 DEF IInv, AsksAreNoRequests, GoesOn
<1>4. QED
  BY <1>1, <1>2, <1>3, QuietStep DEF IInv

-----------------------------------------------------------------------------
(* Steps that admit, charge, or turn to another task *)

\* The check of the task's budget passes while the cost is below the limit, and
\* whatever all calls together cost leads no further than the bound.
LEMMA CheckTaskStep ==
    ASSUME IInv, NEW c \in Calls, CheckTask(c)
    PROVE  IInv'
<1> USE DEF CheckTask, At, tracker, audit
<1>1. CASE Done(c)
  <2>1. TypeOK'
    BY <1>1, IdleIsCall DEF Done, IInv, TypeOK
  <2>2. AsksAreNoRequests' /\ \A d \in Calls : GoesOn(d)
    BY <1>1 DEF Done, IInv, TypeOK, AsksAreNoRequests, GoesOn, Idle
  <2>3. QED
    BY <2>1, <2>2, QuietStep DEF IInv
<1>2. CASE ~TaskExhausted /\ Go(c, "cache")
  <2>1. TypeOK'
    BY <1>2 DEF Go, IInv, TypeOK, Call
  <2>2. AsksAreNoRequests'
    BY <1>2 DEF Go, IInv, TypeOK, Call, AsksAreNoRequests
  <2>3. CostCovered'
    <3>1. Untallied' \in SUBSET Calls /\ Unpriced' \in SUBSET Calls
      BY DEF Untallied, Unpriced
    <3>2. /\ Exposure(Untallied', Unpriced') \in Nat
          /\ Cardinality(Calls) * MaxCost \in Nat
          /\ Exposure(Untallied', Unpriced') <= Cardinality(Calls) * MaxCost
      BY <3>1, ExposureBounded
    <3>3. taskCost \in Nat /\ TaskLimit \in Nat /\ (TaskLimit > 0 => taskCost < TaskLimit)
      BY <1>2, BudgetAssumption DEF IInv, TypeOK, TaskExhausted
    <3>4. QED
      BY <3>2, <3>3 DEF CostCovered
  <2>4. TasksCovered'
    <3>1. ASSUME NEW t \in Tasks
          PROVE  /\ UntalliedOf(t)' = UntalliedOf(t) /\ UnpricedOf(t)' = UnpricedOf(t)
                 /\ \A d \in Calls : call'[d].task = call[d].task
      BY <1>2 DEF Go, IInv, TypeOK, Call, UntalliedOf, UnpricedOf, Admitted
    <3>2. QED
      BY <3>1 DEF IInv, TasksCovered, TaskCovered
  <2>5. QED
    BY <2>1, <2>2, <2>3, <2>4 DEF IInv
<1>3. QED
  BY <1>1, <1>2

\* What a charge adds to the cost it takes from what is to come; the request's
\* own task is charged no more than the task of the moment.
LEMMA ChargeCovered ==
    ASSUME IInv, TypeOK', NEW c \in Calls, NEW cost \in Nat, Charge(c, cost),
           UNCHANGED <<currentTask, turns>>,
           Exposure(Untallied', Unpriced') + cost <= Exposure(Untallied, Unpriced),
           \A t \in Tasks : call[c].task # t =>
               UntalliedOf(t)' = UntalliedOf(t) /\ UnpricedOf(t)' = UnpricedOf(t),
           \A t \in Tasks : call[c].task = t =>
               Exposure(UntalliedOf(t)', UnpricedOf(t)') + cost
                   <= Exposure(UntalliedOf(t), UnpricedOf(t)),
           \A d \in Calls : call'[d].task \in {call[d].task, NoTask}
    PROVE  CostCovered' /\ TasksCovered'
<1>1. /\ Untallied' \in SUBSET Calls /\ Unpriced' \in SUBSET Calls
      /\ \A t \in Tasks : UntalliedOf(t)' \in SUBSET Calls /\ UnpricedOf(t)' \in SUBSET Calls
  BY DEF Untallied, Unpriced, UntalliedOf, UnpricedOf
<1>2. /\ taskCost \in Nat /\ taskCost' = taskCost + cost /\ TaskLimit \in Nat
      /\ Cardinality(Calls) * MaxCost \in Nat /\ (Cardinality(Calls) - 1) * MaxCost \in Nat
  BY ExposureBounded, BudgetAssumption DEF IInv, TypeOK, Charge
<1>3. CostCovered'
  <2>1. Exposure(Untallied', Unpriced') \in Nat /\ Exposure(Untallied, Unpriced) \in Nat
    BY <1>1, OpenCalls, ExposureBounded
  <2>2. QED
    BY <1>2, <2>1 DEF IInv, CostCovered
<1>4. ASSUME TaskLimit > 0, NEW t \in Tasks
      PROVE  TaskCovered(t)'
  <2>1. TaskCovered(t) /\ turns' = turns /\ currentTask' = currentTask
    BY <1>4 DEF IInv, TasksCovered
  <2>2. spent[t] \in Nat
    BY DEF IInv, TypeOK
  <2>3. /\ Exposure(UntalliedOf(t)', UnpricedOf(t)') \in Nat
        /\ Exposure(UntalliedOf(t), UnpricedOf(t)) \in Nat
    BY <1>1, OpenCalls, ExposureBounded
  <2>4. \A d \in Calls : call'[d].task = t => call[d].task = t
    BY BudgetAssumption
  <2>5. CASE call[c].task = t
    <3>1. spent'[t] = spent[t] + cost
      BY <2>5 DEF Charge, IInv, TypeOK
    <3>2. turns[t] # 0
      BY <2>1, <2>5 DEF TaskCovered
    <3>3. Exposure(UntalliedOf(t)', UnpricedOf(t)') + cost
              <= Exposure(UntalliedOf(t), UnpricedOf(t))
      BY <2>5
    <3>4. QED
      BY <1>2, <2>1, <2>2, <2>3, <3>1, <3>2, <3>3 DEF TaskCovered
  <2>6. CASE call[c].task # t
    <3>1. spent'[t] = spent[t]
      BY <2>6 DEF Charge, IInv, TypeOK
    <3>2. UntalliedOf(t)' = UntalliedOf(t) /\ UnpricedOf(t)' = UnpricedOf(t)
      BY <2>6
    <3>3. QED
      BY <1>2, <2>1, <2>2, <2>3, <2>4, <3>1, <3>2 DEF TaskCovered
  <2>7. QED
    BY <2>5, <2>6
<1>5. QED
  BY <1>3, <1>4 DEF TasksCovered

LEMMA ChargeTypes ==
    ASSUME IInv, NEW c \in Calls, NEW cost \in Nat, Charge(c, cost)
    PROVE  taskCost' \in Nat /\ spent' \in [Tasks \cup {NoTask} -> Nat]
<1>1. call[c].task \in Tasks \cup {NoTask}
  BY DEF IInv, TypeOK, Call
<1>2. QED
  BY <1>1 DEF IInv, TypeOK, Charge

LEMMA RecordUsageStep ==
    ASSUME IInv, NEW c \in Calls, RecordUsage(c)
    PROVE  IInv'
<1> USE DEF RecordUsage, At
<1> DEFINE cost == call[c].usage
<1>1. cost \in Nat /\ MaxUsage \in Nat /\ cost <= MaxUsage /\ ~call[c].asks
  BY BudgetAssumption DEF IInv, TypeOK, Call, AsksAreNoRequests
<1>2. call' = [call EXCEPT ![c].pc = "tools"] /\ Charge(c, cost)
  BY DEF Go
<1> HIDE DEF cost
<1>3. TypeOK'
  <2>1. [call[c] EXCEPT !.pc = "tools"] \in Call
    BY DEF IInv, TypeOK, Call
  <2>2. taskCost' \in Nat /\ spent' \in [Tasks \cup {NoTask} -> Nat]
    BY <1>1, <1>2, ChargeTypes
  <2>3. QED
    BY <1>2, <2>1, <2>2 DEF IInv, TypeOK, audit
<1>4. AsksAreNoRequests' /\ \A d \in Calls : call'[d].task = call[d].task
  BY <1>1, <1>2 DEF IInv, TypeOK, Call, AsksAreNoRequests
<1>5. Untallied' = Untallied \ {c} /\ Unpriced' = Unpriced /\ c \in Untallied
  BY <1>1, <1>2 DEF IInv, TypeOK, Call, Untallied, Unpriced, Admitted
<1>6. ASSUME NEW t \in Tasks
      PROVE  /\ UnpricedOf(t)' = UnpricedOf(t)
             /\ call[c].task = t => UntalliedOf(t)' = UntalliedOf(t) \ {c} /\ c \in UntalliedOf(t)
             /\ call[c].task # t => UntalliedOf(t)' = UntalliedOf(t)
  BY <1>2 DEF IInv, TypeOK, Call, UntalliedOf, UnpricedOf, Admitted
<1>7. Exposure(Untallied', Unpriced') + cost <= Exposure(Untallied, Unpriced)
  <2>1. Exposure(Untallied \ {c}, Unpriced) + MaxUsage = Exposure(Untallied, Unpriced)
    BY <1>5, OpenCalls, UsageCharged
  <2>2. Exposure(Untallied \ {c}, Unpriced) \in Nat
    BY OpenCalls, ExposureBounded
  <2>3. QED
    BY <1>1, <1>5, <2>1, <2>2
<1>8. ASSUME NEW t \in Tasks, call[c].task = t
      PROVE  Exposure(UntalliedOf(t)', UnpricedOf(t)') + cost
                 <= Exposure(UntalliedOf(t), UnpricedOf(t))
  <2>1. Exposure(UntalliedOf(t) \ {c}, UnpricedOf(t)) + MaxUsage
            = Exposure(UntalliedOf(t), UnpricedOf(t))
    BY <1>6, <1>8, OpenCalls, UsageCharged
  <2>2. Exposure(UntalliedOf(t) \ {c}, UnpricedOf(t)) \in Nat
    BY OpenCalls, ExposureBounded
  <2>3. UntalliedOf(t)' = UntalliedOf(t) \ {c} /\ UnpricedOf(t)' = UnpricedOf(t)
    BY <1>6, <1>8
  <2>4. QED
    BY <1>1, <2>1, <2>2, <2>3
<1>9. CostCovered' /\ TasksCovered'
  BY <1>1, <1>2, <1>3, <1>4, <1>6, <1>7, <1>8, ChargeCovered
<1>10. QED
  BY <1>3, <1>4, <1>9 DEF IInv

LEMMA RecordToolsStep ==
    ASSUME IInv, NEW c \in Calls, RecordTools(c)
    PROVE  IInv'
<1> DEFINE cost == call[c].tools
<1>1. cost \in Nat /\ MaxTools \in Nat /\ cost <= MaxTools /\ ~call[c].asks
  BY BudgetAssumption DEF IInv, TypeOK, Call, AsksAreNoRequests, RecordTools, At
<1>2. /\ call' = [call EXCEPT ![c] = Idle] /\ Charge(c, cost) /\ call[c].pc = "tools"
      /\ UNCHANGED <<currentTask, cached, audit, sent, turns>>
  BY DEF RecordTools, At, Done
<1> HIDE DEF cost
<1>3. TypeOK'
  <2>1. taskCost' \in Nat /\ spent' \in [Tasks \cup {NoTask} -> Nat]
    BY <1>1, <1>2, ChargeTypes
  <2>2. QED
    BY <1>2, <2>1, IdleIsCall DEF IInv, TypeOK, audit
<1>4. /\ \A d \in Calls : call'[d] = IF d = c THEN Idle ELSE call[d]
      /\ ~Idle.asks /\ Idle.task = NoTask /\ Idle.pc = "idle"
  BY <1>2 DEF IInv, TypeOK, Idle
<1>5. AsksAreNoRequests' /\ \A d \in Calls : call'[d].task \in {call[d].task, NoTask}
  BY <1>4 DEF IInv, AsksAreNoRequests
<1>6. Unpriced' = Unpriced \ {c} /\ Untallied' = Untallied /\ c \in Unpriced
  BY <1>1, <1>2, <1>4 DEF Untallied, Unpriced, Admitted
<1>7. ASSUME NEW t \in Tasks
      PROVE  /\ UntalliedOf(t)' = UntalliedOf(t)
             /\ call[c].task = t => UnpricedOf(t)' = UnpricedOf(t) \ {c} /\ c \in UnpricedOf(t)
             /\ call[c].task # t => UnpricedOf(t)' = UnpricedOf(t)
  BY <1>2, <1>4, BudgetAssumption DEF UntalliedOf, UnpricedOf, Admitted
<1>8. Exposure(Untallied', Unpriced') + cost <= Exposure(Untallied, Unpriced)
  <2>1. Exposure(Untallied, Unpriced \ {c}) + MaxTools = Exposure(Untallied, Unpriced)
    BY <1>6, OpenCalls, ToolsCharged
  <2>2. Exposure(Untallied, Unpriced \ {c}) \in Nat
    BY OpenCalls, ExposureBounded
  <2>3. QED
    BY <1>1, <1>6, <2>1, <2>2
<1>9. ASSUME NEW t \in Tasks, call[c].task = t
      PROVE  Exposure(UntalliedOf(t)', UnpricedOf(t)') + cost
                 <= Exposure(UntalliedOf(t), UnpricedOf(t))
  <2>1. Exposure(UntalliedOf(t), UnpricedOf(t) \ {c}) + MaxTools
            = Exposure(UntalliedOf(t), UnpricedOf(t))
    BY <1>7, <1>9, OpenCalls, ToolsCharged
  <2>2. Exposure(UntalliedOf(t), UnpricedOf(t) \ {c}) \in Nat
    BY OpenCalls, ExposureBounded
  <2>3. UntalliedOf(t)' = UntalliedOf(t) /\ UnpricedOf(t)' = UnpricedOf(t) \ {c}
    BY <1>7, <1>9
  <2>4. QED
    BY <1>1, <2>1, <2>2, <2>3
<1>10. CostCovered' /\ TasksCovered'
  BY <1>1, <1>2, <1>3, <1>5, <1>7, <1>8, <1>9, ChargeCovered
<1>11. QED
  BY <1>3, <1>5, <1>10 DEF IInv

\* A task the tracker turns away from is left with what its calls under way cost:
\* one goroutine less than all, since the next task's request has one.
LEMMA SendStep ==
    ASSUME IInv, NEW c \in Calls, NEW t \in Tasks \cup {NoTask}, Send(c, t)
    PROVE  IInv'
<1> DEFINE request == [Idle EXCEPT !.pc = "check", !.task = t]
<1>1. /\ call[c].pc = "idle" /\ call' = [call EXCEPT ![c] = request]
      /\ UNCHANGED <<cached, audit, spent>>
      /\ sent < MaxSends /\ sent' = sent + 1 /\ SetTask(t)
  BY DEF Send, At
<1>2. /\ request \in Call
      /\ request.pc = "check" /\ request.task = t /\ ~request.asks
  BY IdleIsCall DEF Idle, Call
<1> HIDE DEF request
<1>3. /\ \A d \in Calls : call'[d] = IF d = c THEN request ELSE call[d]
      /\ call' \in [Calls -> Call]
  BY <1>1, <1>2 DEF IInv, TypeOK
<1>4. /\ turns \in [Tasks -> Nat] /\ spent \in [Tasks \cup {NoTask} -> Nat] /\ taskCost \in Nat
      /\ sent \in Nat /\ MaxSends \in Nat /\ TaskLimit \in Nat
      /\ Cardinality(Calls) * MaxCost \in Nat /\ (Cardinality(Calls) - 1) * MaxCost \in Nat
  <2>1. Cardinality(Calls) * MaxCost \in Nat /\ (Cardinality(Calls) - 1) * MaxCost \in Nat
    BY OpenCalls, ExposureBounded
  <2>2. QED
    BY <2>1, BudgetAssumption DEF IInv, TypeOK
<1>5. TypeOK'
  <2>1. /\ currentTask' \in Tasks \cup {NoTask} /\ taskCost' \in Nat
        /\ turns' \in [Tasks -> Nat]
    BY <1>1, <1>4 DEF SetTask, IInv, TypeOK
  <2>2. sent' \in 0..MaxSends
    BY <1>1, <1>4
  <2>3. QED
    BY <1>1, <1>3, <2>1, <2>2 DEF IInv, TypeOK, audit
<1>6. AsksAreNoRequests'
  BY <1>2, <1>3 DEF IInv, AsksAreNoRequests
<1>7. Untallied' = Untallied /\ Unpriced' = Unpriced
  <2>1. \A d \in Calls : d # c => call'[d] = call[d]
    BY <1>3
  <2>2. call'[c] = request /\ call[c].pc = "idle"
    BY <1>1, <1>3
  <2>3. \A d \in Calls : /\ d \in Untallied' <=> d \in Untallied
                         /\ d \in Unpriced' <=> d \in Unpriced
    BY <1>2, <2>1, <2>2 DEF Untallied, Unpriced, Admitted
  <2>4. QED
    BY <2>3 DEF Untallied, Unpriced
<1>8. CostCovered'
  <2>1. /\ Exposure(Untallied, Unpriced) \in Nat
        /\ Exposure(Untallied, Unpriced) <= Cardinality(Calls) * MaxCost
    BY OpenCalls, ExposureBounded
  <2>2. taskCost' = taskCost \/ taskCost' = 0
    BY <1>1 DEF SetTask
  <2>3. QED
    BY <1>4, <1>7, <2>1, <2>2 DEF IInv, CostCovered
<1>9. ASSUME TaskLimit > 0, NEW u \in Tasks
      PROVE  TaskCovered(u)'
  <2>1. /\ TaskCovered(u)
        /\ taskCost + Exposure(Untallied, Unpriced) < TaskLimit + Cardinality(Calls) * MaxCost
        /\ Exposure(Untallied, Unpriced) \in Nat
    BY <1>9, OpenCalls, ExposureBounded DEF IInv, TasksCovered, CostCovered
  <2>2. /\ u # t => UntalliedOf(u)' = UntalliedOf(u) /\ UnpricedOf(u)' = UnpricedOf(u)
        /\ u # t => c \notin UntalliedOf(u) /\ c \notin UnpricedOf(u)
        /\ u # t => \A d \in Calls : call'[d].task = u => call[d].task = u
    BY <1>1, <1>2, <1>3 DEF UntalliedOf, UnpricedOf, Admitted
  <2>3. /\ Exposure(UntalliedOf(u), UnpricedOf(u)) \in Nat
        /\ c \notin UntalliedOf(u) /\ c \notin UnpricedOf(u)
              => Exposure(UntalliedOf(u), UnpricedOf(u)) <= (Cardinality(Calls) - 1) * MaxCost
    BY OpenCalls, ExposureBounded
  <2>4. turns[u] \in Nat /\ spent[u] \in Nat /\ spent' = spent /\ u # NoTask
    BY <1>1, <1>4, BudgetAssumption
  <2>5. CASE t \in {NoTask, currentTask} /\ UNCHANGED <<currentTask, taskCost, turns>>
    <3>1. CASE u = t
      BY <2>1, <2>4, <2>5, <3>1 DEF TaskCovered
    <3>2. CASE u # t
      BY <2>1, <2>2, <2>4, <2>5, <3>2 DEF TaskCovered
    <3>3. QED
      BY <3>1, <3>2
  <2>6. CASE /\ t \notin {NoTask, currentTask} /\ currentTask' = t /\ taskCost' = 0
             /\ turns' = [turns EXCEPT ![t] = @ + 1]
    <3>1. CASE u = t
      <4>1. turns'[u] = turns[u] + 1 /\ currentTask' = u
        BY <1>4, <2>6, <3>1
      <4>2. turns'[u] = 1 => spent'[u] = 0
        BY <2>1, <2>4, <4>1 DEF TaskCovered
      <4>3. QED
        BY <2>4, <2>6, <4>1, <4>2 DEF TaskCovered
    <3>2. CASE u # t
      <4>1. turns'[u] = turns[u] /\ currentTask' # u
        BY <1>4, <2>6, <3>2
      <4>2. CASE turns[u] = 1
        <5>1. spent[u] + Exposure(UntalliedOf(u), UnpricedOf(u))
                  < TaskLimit + Cardinality(Calls) * MaxCost + (Cardinality(Calls) - 1) * MaxCost
          BY <1>4, <2>1, <2>2, <2>3, <2>4, <3>2, <4>2 DEF TaskCovered
        <5>2. QED
          BY <2>2, <2>4, <3>2, <4>1, <4>2, <5>1 DEF TaskCovered
      <4>3. CASE turns[u] # 1
        BY <2>1, <2>2, <2>4, <3>2, <4>1, <4>3 DEF TaskCovered
      <4>4. QED
        BY <4>2, <4>3
    <3>3. QED
      BY <3>1, <3>2
  <2>7. QED
    BY <1>1, <2>5, <2>6 DEF SetTask
<1>10. QED
  BY <1>5, <1>6, <1>8, <1>9 DEF IInv, TasksCovered

\* The enforcer is replaced: nothing is to come, and what was spent was covered.
LEMMA EnforcerRestartsStep ==
    ASSUME IInv, EnforcerRestarts
    PROVE  IInv'
<1>1. /\ currentTask' = NoTask /\ taskCost' = 0 /\ cached' = "none" /\ buffered' = 0
      /\ call' = [c \in Calls |-> Idle]
      /\ UNCHANGED <<logged, sent, turns, spent>>
  BY DEF EnforcerRestarts
<1>2. TypeOK'
  BY <1>1, IdleIsCall DEF IInv, TypeOK, Remaining
<1>3. \A c \in Calls : call'[c] = Idle /\ GoesOn(c)
  BY <1>1 DEF GoesOn
<1>4. /\ AsksAreNoRequests'
      /\ Untallied' = {} /\ Unpriced' = {}
      /\ \A t \in Tasks : /\ UntalliedOf(t)' = {} /\ UnpricedOf(t)' = {}
                          /\ \A c \in Calls : call'[c].task # t
  BY <1>3, BudgetAssumption DEF AsksAreNoRequests, Untallied, Unpriced, UntalliedOf, UnpricedOf,
                               Idle, Admitted
<1>5. /\ Cardinality(Calls) * MaxCost \in Nat /\ (Cardinality(Calls) - 1) * MaxCost \in Nat
      /\ TaskLimit \in Nat /\ taskCost \in Nat
      /\ Exposure({}, {}) \in Nat
      /\ Exposure({}, {}) <= Cardinality(Calls) * MaxCost
      /\ Exposure({}, {}) <= (Cardinality(Calls) - 1) * MaxCost
  BY BudgetAssumption, ExposureBounded DEF IInv, TypeOK
<1>6. CostCovered'
  <2>1. Exposure(Untallied', Unpriced') = Exposure({}, {})
    BY <1>4
  <2>2. QED
    BY <1>1, <1>5, <2>1 DEF CostCovered
<1>7. ASSUME TaskLimit > 0, NEW t \in Tasks
      PROVE  TaskCovered(t)'
  <2>1. /\ TaskCovered(t) /\ spent[t] \in Nat /\ t # NoTask
        /\ taskCost + Exposure(Untallied, Unpriced) < TaskLimit + Cardinality(Calls) * MaxCost
        /\ Exposure(Untallied, Unpriced) \in Nat
    BY <1>7, OpenCalls, ExposureBounded, BudgetAssumption DEF IInv, TypeOK, TasksCovered, CostCovered
  <2>2. /\ Exposure({}, {}) <= Exposure(UntalliedOf(t), UnpricedOf(t))
        /\ Exposure(UntalliedOf(t), UnpricedOf(t)) \in Nat
    BY OpenCalls, ExposureMonotone
  <2>3. Exposure(UntalliedOf(t)', UnpricedOf(t)') = Exposure({}, {})
    BY <1>4
  <2>4. turns[t] = 1 => spent[t] + Exposure({}, {})
            < TaskLimit + Cardinality(Calls) * MaxCost + (Cardinality(Calls) - 1) * MaxCost
    BY <1>5, <2>1, <2>2 DEF TaskCovered
  <2>5. QED
    BY <1>1, <1>4, <2>1, <2>3, <2>4 DEF TaskCovered
<1>8. QED
  BY <1>2, <1>4, <1>6, <1>7 DEF IInv, TasksCovered

-----------------------------------------------------------------------------
(* The theorems *)

LEMMA InitIInv == Init => IInv
<1> SUFFICES ASSUME Init PROVE IInv
  OBVIOUS
<1>1. TypeOK
  BY BudgetAssumption, IdleIsCall DEF Init, TypeOK, Remaining
<1>2. \A c \in Calls : call[c] = Idle
  BY DEF Init
<1>3. AsksAreNoRequests /\ Untallied = {} /\ Unpriced = {}
      /\ \A t \in Tasks, c \in Calls : call[c].task # t
  BY <1>2, BudgetAssumption DEF AsksAreNoRequests, Untallied, Unpriced, Idle, Admitted
<1>4. CostCovered
  <2>1. /\ Exposure(Untallied, Unpriced) \in Nat /\ Cardinality(Calls) * MaxCost \in Nat
        /\ Exposure(Untallied, Unpriced) <= Cardinality(Calls) * MaxCost
    BY <1>3, ExposureBounded
  <2>2. taskCost = 0 /\ TaskLimit \in Nat
    BY BudgetAssumption DEF Init
  <2>3. QED
    BY <2>1, <2>2 DEF CostCovered
<1>5. TasksCovered
  BY <1>3, BudgetAssumption DEF TasksCovered, TaskCovered, Init
<1>6. QED
  BY <1>1, <1>3, <1>4, <1>5 DEF IInv

LEMMA NextIInv == IInv /\ [Next]_vars => IInv'
<1> SUFFICES ASSUME IInv, [Next]_vars PROVE IInv'
  OBVIOUS
<1>1. ASSUME NEW c \in Calls,
             \/ \E t \in Tasks \cup {NoTask} : Send(c, t)
             \/ Ask(c) \/ CheckTask(c) \/ ReadCache(c)
             \/ GetBudgetRemaining(c) \/ FetchFails(c) \/ StoreRemaining(c)
             \/ Abandon(c)
             \/ \E usage \in 0..MaxUsage, tools \in 0..MaxTools : RelayResponse(c, usage, tools)
             \/ RecordUsage(c) \/ RecordTools(c)
      PROVE  IInv'
  BY <1>1, SendStep, AskStep, CheckTaskStep, DayCheckStep, RelayStep, RecordUsageStep,
     RecordToolsStep
<1>2. CASE Flush \/ EntriesLost \/ CacheExpires \/ NewDay
  BY <1>2, OutsideStep
<1>3. CASE EnforcerRestarts
  BY <1>3, EnforcerRestartsStep
<1>4. CASE UNCHANGED vars
  BY <1>4 DEF vars, tracker, audit, IInv, TypeOK, AsksAreNoRequests, CostCovered, TasksCovered,
              TaskCovered, Untallied, Unpriced, UntalliedOf, UnpricedOf
<1>5. QED
  BY <1>1, <1>2, <1>3, <1>4 DEF Next

\* The inductive invariant: what was charged and what calls under way can still be
\* charged stay within the bounds together.
THEOREM BudgetInvariant == Spec => []IInv
BY InitIInv, NextIInv, PTL DEF Spec

\* Every variable keeps its type: what is charged is never taken back below zero.
THEOREM BudgetTypes == Spec => []TypeOK
<1>1. IInv => TypeOK
  BY DEF IInv
<1>2. QED
  BY <1>1, BudgetInvariant, PTL

\* The cost of a task goes beyond its limit (CheckBudget) by no more than the calls
\* under way cost together.
THEOREM OverspendBounded == Spec => []CostBounded
<1>1. IInv => CostBounded
  BY OpenCalls, ExposureBounded, BudgetAssumption DEF IInv, TypeOK, CostCovered, CostBounded
<1>2. QED
  BY <1>1, BudgetInvariant, PTL

\* All that the requests of a task are charged is bounded too, whatever task
\* their charges went to (RecordCost), if the tracker turned to the task once.
THEOREM TaskOverspendBounded == Spec => []TaskSpendBounded
<1>1. ASSUME IInv, TaskLimit > 0, NEW t \in Tasks, turns[t] <= 1
      PROVE  spent[t] < TaskLimit + Cardinality(Calls) * MaxCost
                                  + (Cardinality(Calls) - 1) * MaxCost
  <2>1. /\ turns[t] \in Nat /\ spent[t] \in Nat /\ taskCost \in Nat /\ TaskLimit \in Nat
        /\ Cardinality(Calls) * MaxCost \in Nat /\ (Cardinality(Calls) - 1) * MaxCost \in Nat
        /\ Exposure(Untallied, Unpriced) \in Nat
        /\ Exposure(UntalliedOf(t), UnpricedOf(t)) \in Nat
    BY <1>1, OpenCalls, ExposureBounded, BudgetAssumption DEF IInv, TypeOK
  <2>2. TaskCovered(t)
    BY <1>1 DEF IInv, TasksCovered
  <2>3. taskCost + Exposure(Untallied, Unpriced) < TaskLimit + Cardinality(Calls) * MaxCost
    BY <1>1 DEF IInv, CostCovered
  <2>4. turns[t] = 0 \/ turns[t] = 1
    BY <1>1, <2>1
  <2>5. QED
    BY <1>1, <2>1, <2>2, <2>3, <2>4 DEF TaskCovered
<1>2. IInv => TaskSpendBounded
  BY <1>1 DEF TaskSpendBounded
<1>3. QED
  BY <1>2, BudgetInvariant, PTL
=============================================================================

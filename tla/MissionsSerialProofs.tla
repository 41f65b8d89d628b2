------------------------- MODULE MissionsSerialProofs -------------------------
(***************************************************************************)
(* Proofs about Missions between requests: how files, copies and the bus   *)
(* agree once a request is through, where one request runs at a time and   *)
(* none is cut short.  Overlapping or failing requests leave copies and    *)
(* subscriptions behind: MissionsProofs has what holds of those.           *)
(***************************************************************************)
EXTENDS MissionsProofs

-----------------------------------------------------------------------------
(* The types of the bus *)

LEMMA SubscriptionType ==
    ASSUME NEW rec \in Record, NEW target \in Targets \cup {None}
    PROVE  /\ MissionSubscription(rec, target) \in Subscription
           /\ MissionSubscription(rec, target).mission = rec.name
           /\ MissionSubscription(rec, target).id = rec.id
           /\ MissionSubscription(rec, target).target = target
           /\ MissionSubscription(rec, target).active
BY DEF MissionSubscription, Subscription, Record

\* The two subscriptions that differ in being active only.
LEMMA Twins ==
    ASSUME NEW s \in Subscription, NEW b \in BOOLEAN
    PROVE  /\ [s EXCEPT !.active = b] \in Subscription
           /\ [s EXCEPT !.active = b].mission = s.mission
           /\ [s EXCEPT !.active = b].id = s.id
           /\ [s EXCEPT !.active = b].target = s.target
           /\ [s EXCEPT !.active = b].active = b
BY DEF Subscription

LEMMA SameSubscription ==
    ASSUME NEW s \in Subscription, NEW t \in Subscription, s.mission = t.mission,
           s.id = t.id, s.target = t.target, s.active = t.active
    PROVE  s = t
BY DEF Subscription

LEMMA BusTypeStep ==
    ASSUME IInv, BusTypeOK, NEW r \in Requests, TakeStep(r)
    PROVE  BusTypeOK'
<1> DEFINE s == Head(todo[r])
<1>1. todo[r] \in Seq(Step) /\ todo[r] # <<>> /\ silenced' = silenced
  BY DEF TakeStep, IInv, FilesTypeOK
<1>2. s \in Step
  BY <1>1, HeadTailProperties
<1>3. s.rec \in Record /\ s.rec.name \in Missions /\ s.at \in Targets \cup {None}
  BY <1>2, StepType
<1>4. \/ Subscribe(s) \/ DeactivateByOrigin(s) \/ ActivateByOrigin(s)
      \/ RemoveByOrigin(s) \/ Reroute(s) \/ UNCHANGED subs
  BY Zenon DEF TakeStep, WriteFile, AppendHistory, WriteAgentCopy, RemoveMissionFromAgent,
               Unlink
<1> HIDE DEF s
<1>5. subs \in [Subscription -> Nat]
  BY DEF BusTypeOK
<1>6. ASSUME NEW x \in Subscription PROVE Added(x) \in [Subscription -> Nat]
  BY <1>5 DEF Added
<1>7. ASSUME NEW m, NEW b \in BOOLEAN PROVE WithActive(m, b) \in [Subscription -> Nat]
  <2>1. ASSUME NEW x \in Subscription
        PROVE  /\ subs[x] \in Nat /\ subs[[x EXCEPT !.active = TRUE]] \in Nat
               /\ subs[[x EXCEPT !.active = FALSE]] \in Nat
    BY <1>5, Twins
  <2>2. QED
    BY <2>1 DEF WithActive
<1>8. subs' \in [Subscription -> Nat]
  <2>1. CASE Subscribe(s)
    <3>1. file[s.rec.name] \in Record \cup {None}
      BY <1>3 DEF IInv, FilesTypeOK
    <3>2. CASE file[s.rec.name] # None
      <4> DEFINE rec == file[s.rec.name]
      <4>1. rec \in Record /\ rec.assigned \in Targets \cup {None}
        BY <3>1, <3>2 DEF Record
      <4>2. subs' = Added(MissionSubscription(rec, rec.assigned))
        BY <2>1, <3>2 DEF Subscribe
      <4>3. QED
        BY <1>6, <4>1, <4>2, SubscriptionType
    <3>3. CASE file[s.rec.name] = None
      BY <1>5, <2>1, <3>3 DEF Subscribe
    <3>4. QED
      BY <3>2, <3>3
  <2>2. CASE DeactivateByOrigin(s) \/ ActivateByOrigin(s)
    BY <1>7, <2>2 DEF DeactivateByOrigin, ActivateByOrigin
  <2>3. CASE RemoveByOrigin(s)
    BY <1>5, <2>3 DEF RemoveByOrigin
  <2>4. CASE Reroute(s)
    BY <1>3, <1>6, <2>4, SubscriptionType DEF Reroute
  <2>5. CASE UNCHANGED subs
    BY <1>5, <2>5
  <2>6. QED
    BY <1>4, <2>1, <2>2, <2>3, <2>4, <2>5
<1>9. QED
  BY <1>1, <1>8 DEF BusTypeOK

LEMMA BusTypeNext ==
    ASSUME IInv, BusTypeOK, [Next]_vars
    PROVE  BusTypeOK'
<1>1. ASSUME NEW r \in Requests, NEW i \in Interfaces, NEW m \in Missions,
             \/ \E t \in Targets : Assign(r, i, m, t)
             \/ Pause(r, i, m) \/ Resume(r, i, m)
      PROVE  BusTypeOK'
  <2>1. UNCHANGED <<subs, silenced>>
    BY <1>1, Zenon DEF Assign, Pause, Resume, Begin
  <2>2. QED
    BY <2>1 DEF BusTypeOK
<1>2. ASSUME NEW r \in Requests, NEW i \in Interfaces, NEW m \in Missions,
             Complete(r, i, m)
      PROVE  BusTypeOK'
  <2>1. /\ Present(m) /\ subs' = subs
        /\ silenced' = silenced \cup {<<file[m].id, "completed">>}
    BY <1>2, Zenon DEF Complete, Begin
  <2>2. file[m].id \in Ids
    BY <2>1, OnDisk DEF Record
  <2>3. QED
    BY <2>1, <2>2 DEF BusTypeOK
<1>3. ASSUME NEW r \in Requests, NEW m \in Missions,
             Create(r, m) \/ Update(r, m) \/ Delete(r, m)
      PROVE  BusTypeOK'
  <2>1. UNCHANGED <<subs, silenced>>
    BY <1>3, Zenon DEF Create, Update, Delete, Begin
  <2>2. QED
    BY <2>1 DEF BusTypeOK
<1>4. ASSUME NEW r \in Requests, NEW a \in Agents, Failover(r, a)
      PROVE  BusTypeOK'
  <2>1. UNCHANGED <<subs, silenced>>
    BY <1>4, Zenon DEF Failover, Begin
  <2>2. QED
    BY <2>1 DEF BusTypeOK
<1>5. ASSUME NEW r \in Requests, StepFails(r) PROVE BusTypeOK'
  BY <1>5 DEF StepFails, BusTypeOK
<1>6. CASE Restart
  <2>1. subs' \in [Subscription -> Nat]
    BY <1>6 DEF Restart
  <2>2. silenced' \subseteq silenced \cup
          {<<file[m].id, "restarted">> :
             m \in {n \in Missions : Present(n) /\ file[n].status = "paused"}}
    BY <1>6 DEF Restart
  <2>3. ASSUME NEW m \in Missions, Present(m) PROVE file[m].id \in Ids
    BY <2>3, OnDisk DEF Record
  <2>4. QED
    BY <2>1, <2>2, <2>3 DEF BusTypeOK
<1>7. CASE UNCHANGED vars
  BY <1>7 DEF vars, BusTypeOK
<1>8. QED
  BY <1>1, <1>2, <1>3, <1>4, <1>5, <1>6, <1>7, BusTypeStep DEF Next

\* Every variable keeps its type, whatever overlaps, fails or crashes: the
\* subscriptions are those of missions there may be, however often the bus is
\* told of them.
THEOREM TypesHold == Spec => []TypeOK
<1>1. Init => BusTypeOK
  BY DEF Init, BusTypeOK
<1>2. IInv /\ BusTypeOK /\ [Next]_vars => BusTypeOK'
  BY BusTypeNext
<1>3. IInv /\ BusTypeOK => TypeOK
  BY DEF IInv, TypeOK
<1>4. QED
  BY <1>1, <1>2, <1>3, MissionsInvariant, PTL DEF Spec

-----------------------------------------------------------------------------
(* One request at a time *)

BusSteps == {"subscribe", "deactivate", "activate", "remove", "reroute"}

\* What a step leaves of the file of the mission it is about.
Rewrites(s, m) == s.do \in {"write", "unlink"} /\ s.rec.name = m
Leaves(s) == IF s.do = "write" THEN s.rec ELSE None

\* goal[m] is what the file of m will hold when the request is through: missions
\* are told apart by their ids, and one never assigned has no copies.
GoodGoal(goal) ==
    /\ goal \in [Missions -> Record \cup {None}]
    /\ \A m \in Missions : goal[m] # None =>
         /\ goal[m].name = m /\ goal[m].id <= created
         /\ goal[m].status = "unassigned" => goal[m].assigned = None
         /\ \A n \in Missions : goal[n] # None /\ goal[n].id = goal[m].id => n = m
         /\ goal[m].assigned = None =>
              \A a \in Agents : copy[a] # None => copy[a].id # goal[m].id
    /\ \A a \in Agents : copy[a] # None => copy[a].id <= created

\* The files are as they will be, or will be written; the bus is told of a
\* mission when its file is what it will be.
FilesFollow(steps, goal) ==
    /\ \A m \in Missions :
         file[m] = goal[m] \/ \E k \in 1..Len(steps) : Rewrites(steps[k], m)
    /\ \A k \in 1..Len(steps), m \in Missions :
         Rewrites(steps[k], m) => Leaves(steps[k]) = goal[m]
    /\ \A j, k \in 1..Len(steps) :
         j < k /\ steps[j].do \in BusSteps => steps[k].do \notin {"write", "unlink"}

\* A copy an assignee has of a mission is what the file will be, or will be
\* written or removed.
Refreshed(steps, a, rec) ==
    \E k \in 1..Len(steps) : /\ steps[k].at = a
                             /\ \/ steps[k].do = "copy" /\ steps[k].rec = rec
                                \/ steps[k].do = "uncopy"

CopiesFollow(steps, goal) ==
    /\ \A k \in 1..Len(steps) :
         steps[k].do = "copy" => steps[k].rec = goal[steps[k].rec.name]
    /\ \A m \in Missions : goal[m] # None =>
         \A a \in ToSet(AssignedAgents(goal[m])) :
           copy[a] # None /\ copy[a].id = goal[m].id
             => copy[a] = goal[m] \/ Refreshed(steps, a, goal[m])

\* The step by which the bus is told of a mission next.
OnBusOf(s, m) == s.do \in BusSteps /\ s.rec.name = m
Due(steps, m, what) ==
    \/ /\ what = "nothing"
       /\ \A k \in 1..Len(steps) : ~OnBusOf(steps[k], m)
    \/ \E k \in 1..Len(steps) : /\ OnBusOf(steps[k], m) /\ steps[k].do = what
                                /\ \A j \in 1..(k - 1) : ~OnBusOf(steps[j], m)

\* The bus is told of a mission once, or to remove it and to route it anew.
BusIsToldOnce(steps, goal) ==
    /\ \A j, k \in 1..Len(steps), m \in Missions :
         j < k /\ OnBusOf(steps[j], m) /\ OnBusOf(steps[k], m)
           => steps[j].do = "remove" /\ steps[k].do = "reroute"
    /\ \A k \in 1..Len(steps) :
         /\ steps[k].do = "remove" /\ goal[steps[k].rec.name].status = "active" =>
              \E j \in (k + 1)..Len(steps) :
                 steps[j].do = "reroute" /\ steps[j].rec.name = steps[k].rec.name
         /\ steps[k].do = "reroute" =>
              /\ steps[k].rec = goal[steps[k].rec.name]
              /\ steps[k].rec.status = "active" /\ steps[k].rec.assigned \in Teams
              /\ steps[k].at = Coverage[steps[k].rec.assigned]

Own(rec) == {s \in Held(rec.name) : s.id = rec.id}
Silenced(rec) == \E why \in {"completed", "restarted"} : <<rec.id, why>> \in silenced

RoutedAtMostOnce(rec) ==
    /\ \A s, t \in Own(rec) : s = t
    /\ \A s \in Own(rec) :
         /\ subs[s] = 1
         /\ \/ s.target = rec.assigned
            \/ rec.assigned \in Teams /\ s.target = Coverage[rec.assigned]

\* What the bus holds of a mission that is to have the record rec and of which
\* it is told "what" next.
BusFits(m, rec, what) ==
    CASE what = "nothing" ->
           /\ ActiveSubs(m) # {} => rec # None /\ rec.status = "active"
           /\ rec # None =>
                /\ RoutedAtMostOnce(rec)
                /\ rec.status = "unassigned" => Own(rec) = {}
                /\ rec.status = "active" => ActiveSubs(m) # {} \/ Silenced(rec)
                /\ rec.status = "paused" => Held(m) # {} \/ Silenced(rec)
                /\ rec.status = "completed" => Silenced(rec)
      [] what = "subscribe" -> rec # None /\ rec.status = "active" /\ Own(rec) = {}
      [] what = "deactivate" ->
           /\ rec # None /\ rec.status = "paused" /\ RoutedAtMostOnce(rec)
           /\ Held(m) # {} \/ Silenced(rec)
      [] what = "activate" ->
           /\ rec # None /\ rec.status = "active" /\ RoutedAtMostOnce(rec)
           /\ Held(m) # {} \/ Silenced(rec)
      [] what = "remove" ->
           /\ rec # None
           /\ \/ rec.status = "active"
              \/ rec.status = "completed" /\ Silenced(rec)
      [] what = "reroute" -> rec # None /\ rec.status = "active" /\ Held(m) = {}
      [] OTHER -> FALSE

BusFollows(steps, goal) ==
    /\ BusIsToldOnce(steps, goal)
    /\ \A s \in Subscription : subs[s] > 0 => s.id <= created
    /\ \A m \in Missions, what \in BusSteps \cup {"nothing"} :
         Due(steps, m, what) => BusFits(m, goal[m], what)

Tidy(steps, goal) ==
    /\ GoodGoal(goal) /\ FilesFollow(steps, goal) /\ CopiesFollow(steps, goal)
    /\ "mcp" \notin Interfaces => BusFollows(steps, goal)

-----------------------------------------------------------------------------
(* Records and steps *)

LEMMA RecordIsSome ==
    ASSUME NEW rec \in Record
    PROVE  rec # None
BY NoneAssumption

LEMMA ToSetOfSeq ==
    ASSUME NEW S, NEW seq \in Seq(S)
    PROVE  ToSet(seq) \subseteq S
<1>1. DOMAIN seq = 1..Len(seq)
  BY LenProperties
<1>2. \A k \in 1..Len(seq) : seq[k] \in S
  BY ElementOfSeq
<1>3. QED
  BY <1>1, <1>2 DEF ToSet

-----------------------------------------------------------------------------
(* A request takes a step *)

Follows(steps, rest) ==
    /\ Len(steps) \in Nat /\ Len(steps) >= 1 /\ Len(rest) = Len(steps) - 1
    /\ \A k \in 1..Len(rest) : rest[k] = steps[k + 1]

\* What the step s does to files, copies and the bus.
Done(s) ==
    /\ \A m \in Missions : file'[m] = IF Rewrites(s, m) THEN Leaves(s) ELSE file[m]
    /\ \A a \in Agents : copy'[a] = IF s.at = a /\ s.do = "copy" THEN s.rec
                                    ELSE IF s.at = a /\ s.do = "uncopy" THEN None
                                    ELSE copy[a]
    /\ created' = created /\ silenced' = silenced
    /\ s.do \notin BusSteps => subs' = subs
    /\ s.do = "subscribe" /\ file[s.rec.name] # None =>
         subs' = Added(MissionSubscription(file[s.rec.name], file[s.rec.name].assigned))
    /\ s.do = "deactivate" => subs' = WithActive(s.rec.name, FALSE)
    /\ s.do = "activate" => subs' = WithActive(s.rec.name, TRUE)
    /\ s.do = "remove" =>
         subs' = [x \in Subscription |-> IF x.mission = s.rec.name THEN 0 ELSE subs[x]]
    /\ s.do = "reroute" => subs' = Added(MissionSubscription(s.rec, s.at))

LEMMA StepTaken ==
    ASSUME IInv, NEW r \in Requests, TakeStep(r)
    PROVE  \E steps \in Seq(Step), rest \in Seq(Step), s \in Step :
             /\ steps = todo[r] /\ rest = todo'[r] /\ s = steps[1]
             /\ Follows(steps, rest) /\ Done(s)
<1> DEFINE steps == todo[r]
           s == Head(steps)
           rest == Tail(steps)
<1>1. steps # <<>> /\ steps \in Seq(Step)
  BY DEF IInv, FilesTypeOK, TakeStep
<1>2. /\ s \in Step /\ s = steps[1] /\ rest \in Seq(Step)
      /\ Follows(steps, rest)
  BY <1>1, HeadTailProperties, EmptySeq DEF Follows
<1>3. todo'[r] = rest
  BY DEF TakeStep, IInv, FilesTypeOK
<1>4. \/ WriteFile(s) \/ AppendHistory(s)
      \/ WriteAgentCopy(s) \/ RemoveMissionFromAgent(s) \/ Unlink(s)
      \/ Subscribe(s) \/ DeactivateByOrigin(s) \/ ActivateByOrigin(s)
      \/ RemoveByOrigin(s) \/ Reroute(s)
  BY Zenon DEF TakeStep
<1>5. created' = created /\ silenced' = silenced
  BY DEF TakeStep
<1>6. file \in [Missions -> Record \cup {None}] /\ copy \in [Targets -> Record \cup {None}]
  BY DEF IInv, FilesTypeOK
<1>7. s.rec.name \in Missions /\ Agents \subseteq Targets
  BY <1>2, StepType DEF Targets
<1> HIDE DEF s
<1>8. Done(s)
  <2>1. CASE WriteFile(s)
    BY <1>5, <1>6, <1>7, <2>1 DEF WriteFile, Done, Rewrites, Leaves, BusSteps
  <2>2. CASE AppendHistory(s)
    BY <1>5, <1>6, <1>7, <2>2 DEF AppendHistory, Done, Rewrites, Leaves, BusSteps
  <2>3. CASE WriteAgentCopy(s)
    BY <1>5, <1>6, <1>7, <2>3 DEF WriteAgentCopy, Done, Rewrites, Leaves, BusSteps
  <2>4. CASE RemoveMissionFromAgent(s)
    BY <1>5, <1>6, <1>7, <2>4 DEF RemoveMissionFromAgent, Done, Rewrites, Leaves, BusSteps
  <2>5. CASE Unlink(s)
    BY <1>5, <1>6, <1>7, <2>5 DEF Unlink, Done, Rewrites, Leaves, BusSteps
  <2>6. CASE Subscribe(s)
    BY <1>5, <1>6, <1>7, <2>6 DEF Subscribe, Done, Rewrites, Leaves, BusSteps
  <2>7. CASE DeactivateByOrigin(s) \/ ActivateByOrigin(s)
    BY <1>5, <1>6, <1>7, <2>7
       DEF DeactivateByOrigin, ActivateByOrigin, Done, Rewrites, Leaves, BusSteps
  <2>8. CASE RemoveByOrigin(s)
    BY <1>5, <1>6, <1>7, <2>8 DEF RemoveByOrigin, Done, Rewrites, Leaves, BusSteps
  <2>9. CASE Reroute(s)
    BY <1>5, <1>6, <1>7, <2>9 DEF Reroute, Done, Rewrites, Leaves, BusSteps
  <2>10. QED
    BY <1>4, <2>1, <2>2, <2>3, <2>4, <2>5, <2>6, <2>7, <2>8, <2>9
<1>9. QED
  BY <1>1, <1>2, <1>3, <1>8

LEMMA GoodGoalStep ==
    ASSUME NEW goal, GoodGoal(goal), NEW s \in Step, Done(s),
           s.do = "copy" => s.rec = goal[s.rec.name],
           s.do = "copy" /\ s.at \in Agents => MayHold(s.at, s.rec)
    PROVE  GoodGoal(goal)'
<1>1. s.rec \in Record /\ s.rec.name \in Missions
  BY StepType
<1>2. s.rec # None
  BY <1>1, RecordIsSome
<1>3. ASSUME s.do = "copy", s.at \in Agents PROVE s.rec.assigned # None
  BY <1>3, TeamsAssumption DEF MayHold
<1>4. ASSUME NEW a \in Agents, copy'[a] # None
      PROVE  copy'[a] = copy[a] \/ (s.do = "copy" /\ s.at = a /\ copy'[a] = s.rec)
  BY <1>4 DEF Done
<1>5. ASSUME NEW a \in Agents, copy'[a] # None PROVE copy'[a].id <= created
  BY <1>1, <1>2, <1>4, <1>5 DEF GoodGoal
<1>6. ASSUME NEW m \in Missions, goal[m] # None, goal[m].assigned = None,
             NEW a \in Agents, copy'[a] # None
      PROVE  copy'[a].id # goal[m].id
  <2>1. CASE copy'[a] = copy[a]
    BY <1>6, <2>1 DEF GoodGoal
  <2>2. CASE s.do = "copy" /\ s.at = a /\ copy'[a] = s.rec
    BY <1>1, <1>2, <1>3, <1>6, <2>2 DEF GoodGoal
  <2>3. QED
    BY <1>4, <1>6, <2>1, <2>2
<1>7. created' = created
  BY DEF Done
<1>8. QED
  BY <1>5, <1>6, <1>7 DEF GoodGoal

LEMMA FilesFollowStep ==
    ASSUME NEW goal, NEW steps, NEW rest, NEW s \in Step, Follows(steps, rest),
           s = steps[1], Done(s), FilesFollow(steps, goal)
    PROVE  FilesFollow(rest, goal)'
<1>1. ASSUME NEW m \in Missions
      PROVE  file'[m] = goal[m] \/ \E k \in 1..Len(rest) : Rewrites(rest[k], m)
  <2>1. CASE Rewrites(s, m)
    BY <2>1 DEF FilesFollow, Follows, Done
  <2>2. CASE ~Rewrites(s, m) /\ file[m] = goal[m]
    BY <2>2 DEF Done
  <2>3. CASE ~Rewrites(s, m) /\ file[m] # goal[m]
    <3>1. PICK k \in 1..Len(steps) : Rewrites(steps[k], m)
      BY <2>3 DEF FilesFollow
    <3>2. k - 1 \in 1..Len(rest) /\ rest[k - 1] = steps[k]
      BY <2>3, <3>1 DEF Follows
    <3>3. QED
      BY <3>1, <3>2
  <2>4. QED
    BY <2>1, <2>2, <2>3
<1>2. \A k \in 1..Len(rest), m \in Missions : Rewrites(rest[k], m) => Leaves(rest[k]) = goal[m]
  BY DEF FilesFollow, Follows
<1>3. \A j, k \in 1..Len(rest) :
         j < k /\ rest[j].do \in BusSteps => rest[k].do \notin {"write", "unlink"}
  <2>1. ASSUME NEW j \in 1..Len(rest), NEW k \in 1..Len(rest), j < k
        PROVE  /\ j + 1 \in 1..Len(steps) /\ k + 1 \in 1..Len(steps) /\ j + 1 < k + 1
               /\ rest[j] = steps[j + 1] /\ rest[k] = steps[k + 1]
    BY <2>1 DEF Follows
  <2>2. QED
    BY <2>1 DEF FilesFollow
<1>4. QED
  BY <1>1, <1>2, <1>3 DEF FilesFollow, Rewrites, Leaves

LEMMA RefreshedStep ==
    ASSUME NEW steps, NEW rest, Follows(steps, rest), NEW a, NEW rec,
           Refreshed(steps, a, rec)
    PROVE  \/ Refreshed(rest, a, rec)
           \/ /\ steps[1].at = a
              /\ \/ steps[1].do = "copy" /\ steps[1].rec = rec
                 \/ steps[1].do = "uncopy"
<1>1. PICK k \in 1..Len(steps) :
         /\ steps[k].at = a
         /\ \/ steps[k].do = "copy" /\ steps[k].rec = rec
            \/ steps[k].do = "uncopy"
  BY DEF Refreshed
<1>2. CASE k = 1
  BY <1>1, <1>2
<1>3. CASE k # 1
  <2>1. k - 1 \in 1..Len(rest) /\ rest[k - 1] = steps[k]
    BY <1>3 DEF Follows
  <2>2. QED
    BY <1>1, <2>1 DEF Refreshed
<1>4. QED
  BY <1>2, <1>3

\* How copies follow after a step.
LEMMA CopiesFollowNext ==
    ASSUME NEW steps, NEW goal,
           \A k \in 1..Len(steps) :
             steps[k].do = "copy" => steps[k].rec = goal[steps[k].rec.name],
           \A m \in Missions : goal[m] # None =>
             \A a \in ToSet(AssignedAgents(goal[m])) :
               copy'[a] # None /\ copy'[a].id = goal[m].id
                 => copy'[a] = goal[m] \/ Refreshed(steps, a, goal[m])
    PROVE  CopiesFollow(steps, goal)'
BY ZenonT(60) DEF CopiesFollow, Refreshed, AssignedAgents

LEMMA CopiesFollowStep ==
    ASSUME NEW goal, GoodGoal(goal), NEW steps, NEW rest, NEW s \in Step,
           Follows(steps, rest), s = steps[1], Done(s), CopiesFollow(steps, goal)
    PROVE  CopiesFollow(rest, goal)'
<1>1. \A k \in 1..Len(rest) : rest[k].do = "copy" => rest[k].rec = goal[rest[k].rec.name]
  BY DEF CopiesFollow, Follows
<1>2. s.rec \in Record /\ s.rec.name \in Missions /\ s.rec # None
  BY StepType, RecordIsSome
<1>3. s.do = "copy" => s.rec = goal[s.rec.name]
  BY DEF CopiesFollow, Follows
<1>4. ASSUME NEW m \in Missions, goal[m] # None, NEW a \in ToSet(AssignedAgents(goal[m])),
             copy'[a] # None, copy'[a].id = goal[m].id
      PROVE  copy'[a] = goal[m] \/ Refreshed(rest, a, goal[m])
  <2>1. a \in Agents
    <3>1. goal[m] \in Record
      BY <1>4 DEF GoodGoal
    <3>2. AssignedAgents(goal[m]) \in Seq(Agents)
      BY <3>1, AssignedMayHold
    <3>3. ToSet(AssignedAgents(goal[m])) \subseteq Agents
      BY <3>2, ToSetOfSeq
    <3>4. QED
      BY <1>4, <3>3
  <2>2. CASE s.do = "copy" /\ s.at = a
    <3>1. copy'[a] = s.rec
      BY <2>1, <2>2 DEF Done
    <3>2. s.rec.name = m
      BY <1>2, <1>3, <1>4, <2>2, <3>1 DEF GoodGoal
    <3>3. QED
      BY <1>3, <2>2, <3>1, <3>2
  <2>3. CASE s.do = "uncopy" /\ s.at = a
    BY <1>4, <2>1, <2>3 DEF Done
  <2>4. CASE s.at # a \/ s.do \notin {"copy", "uncopy"}
    <3>1. copy'[a] = copy[a]
      BY <2>1, <2>4 DEF Done
    <3>2. copy[a] = goal[m] \/ Refreshed(steps, a, goal[m])
      BY <1>4, <3>1 DEF CopiesFollow
    <3>3. QED
      BY <2>4, <3>1, <3>2, RefreshedStep
  <2>5. QED
    BY <2>2, <2>3, <2>4
<1>5. QED
  BY <1>1, <1>4, CopiesFollowNext

-----------------------------------------------------------------------------
(* The bus is told *)

LEMMA DueStep ==
    ASSUME NEW steps, NEW rest, Follows(steps, rest), NEW m, NEW what,
           Due(rest, m, what), ~OnBusOf(steps[1], m)
    PROVE  Due(steps, m, what)
<1>1. ASSUME NEW k \in 1..Len(steps), k # 1
      PROVE  k - 1 \in 1..Len(rest) /\ rest[k - 1] = steps[k]
  BY <1>1 DEF Follows
<1>2. CASE what = "nothing" /\ \A k \in 1..Len(rest) : ~OnBusOf(rest[k], m)
  <2>1. ASSUME NEW k \in 1..Len(steps) PROVE ~OnBusOf(steps[k], m)
    BY <1>1, <1>2
  <2>2. QED
    BY <1>2, <2>1 DEF Due
<1>3. CASE \E k \in 1..Len(rest) : /\ OnBusOf(rest[k], m) /\ rest[k].do = what
                                   /\ \A j \in 1..(k - 1) : ~OnBusOf(rest[j], m)
  <2>1. PICK k \in 1..Len(rest) : /\ OnBusOf(rest[k], m) /\ rest[k].do = what
                                  /\ \A j \in 1..(k - 1) : ~OnBusOf(rest[j], m)
    BY <1>3
  <2>2. k + 1 \in 1..Len(steps) /\ rest[k] = steps[k + 1]
    BY DEF Follows
  <2>3. ASSUME NEW j \in 1..((k + 1) - 1) PROVE ~OnBusOf(steps[j], m)
    <3>1. CASE j = 1
      BY <3>1
    <3>2. CASE j # 1
      <4>1. j \in 1..Len(steps) /\ j - 1 \in 1..(k - 1)
        BY <2>2, <3>2
      <4>2. QED
        BY <1>1, <2>1, <3>2, <4>1
    <3>3. QED
      BY <3>1, <3>2
  <2>4. QED
    BY <2>1, <2>2, <2>3 DEF Due
<1>4. QED
  BY <1>2, <1>3 DEF Due

LEMMA BusIsToldOnceStep ==
    ASSUME NEW goal, NEW steps, NEW rest, Follows(steps, rest),
           BusIsToldOnce(steps, goal)
    PROVE  BusIsToldOnce(rest, goal)
<1>1. ASSUME NEW k \in 1..Len(rest)
      PROVE  k + 1 \in 1..Len(steps) /\ rest[k] = steps[k + 1]
  BY DEF Follows
<1>2. ASSUME NEW j \in 1..Len(rest), NEW k \in 1..Len(rest), NEW m \in Missions,
             j < k, OnBusOf(rest[j], m), OnBusOf(rest[k], m)
      PROVE  rest[j].do = "remove" /\ rest[k].do = "reroute"
  <2>1. j + 1 < k + 1
    BY <1>2
  <2>2. QED
    BY <1>1, <1>2, <2>1 DEF BusIsToldOnce
<1>3. ASSUME NEW k \in 1..Len(rest), rest[k].do = "remove",
             goal[rest[k].rec.name].status = "active"
      PROVE  \E j \in (k + 1)..Len(rest) :
               rest[j].do = "reroute" /\ rest[j].rec.name = rest[k].rec.name
  <2>1. PICK j \in (k + 1 + 1)..Len(steps) :
           steps[j].do = "reroute" /\ steps[j].rec.name = steps[k + 1].rec.name
    BY <1>1, <1>3 DEF BusIsToldOnce
  <2>2. j - 1 \in (k + 1)..Len(rest) /\ j - 1 \in 1..Len(rest) /\ (j - 1) + 1 = j
    BY DEF Follows
  <2>3. rest[j - 1] = steps[j]
    BY <1>1, <2>2
  <2>4. QED
    BY <1>1, <2>1, <2>2, <2>3
<1>4. ASSUME NEW k \in 1..Len(rest), rest[k].do = "reroute"
      PROVE  /\ rest[k].rec = goal[rest[k].rec.name]
             /\ rest[k].rec.status = "active" /\ rest[k].rec.assigned \in Teams
             /\ rest[k].at = Coverage[rest[k].rec.assigned]
  BY <1>1, <1>4 DEF BusIsToldOnce
<1>5. QED
  BY <1>2, <1>3, <1>4 DEF BusIsToldOnce

\* What the bus is told of a mission after the first step told it something.
LEMMA DueAfter ==
    ASSUME NEW goal, NEW steps, NEW rest, Follows(steps, rest), NEW m \in Missions,
           NEW what, BusIsToldOnce(steps, goal), OnBusOf(steps[1], m),
           Due(rest, m, what)
    PROVE  \/ /\ what = "nothing"
              /\ steps[1].do = "remove" => goal[m].status # "active"
           \/ what = "reroute" /\ steps[1].do = "remove" /\ goal[m].status = "active"
<1>1. 1 \in 1..Len(steps)
  BY DEF Follows
<1>2. ASSUME NEW k \in 1..Len(rest)
      PROVE  k + 1 \in 1..Len(steps) /\ rest[k] = steps[k + 1] /\ 1 < k + 1
  BY DEF Follows
<1>3. CASE what = "nothing" /\ \A k \in 1..Len(rest) : ~OnBusOf(rest[k], m)
  <2>1. ASSUME steps[1].do = "remove", goal[m].status = "active" PROVE FALSE
    <3>1. PICK j \in (1 + 1)..Len(steps) : steps[j].do = "reroute" /\ steps[j].rec.name = m
      BY <1>1, <2>1 DEF BusIsToldOnce, OnBusOf
    <3>2. j - 1 \in 1..Len(rest) /\ rest[j - 1] = steps[j]
      BY DEF Follows
    <3>3. QED
      BY <1>3, <3>1, <3>2 DEF OnBusOf, BusSteps
  <2>2. QED
    BY <1>3, <2>1
<1>4. CASE \E k \in 1..Len(rest) : OnBusOf(rest[k], m) /\ rest[k].do = what
  <2>1. PICK k \in 1..Len(rest) : OnBusOf(rest[k], m) /\ rest[k].do = what
    BY <1>4
  <2>2. steps[1].do = "remove" /\ steps[k + 1].do = "reroute"
    BY <1>1, <1>2, <2>1 DEF BusIsToldOnce
  <2>3. goal[m].status = "active"
    BY <1>2, <2>1, <2>2 DEF BusIsToldOnce, OnBusOf
  <2>4. QED
    BY <1>2, <2>1, <2>2, <2>3
<1>5. QED
  BY <1>3, <1>4 DEF Due

\* What is not about a mission leaves the bus as it fits that mission.
LEMMA BusFitsKept ==
    ASSUME NEW m, NEW rec, NEW what, BusFits(m, rec, what), rec # None => rec.name = m,
           \A s \in Subscription : s.mission = m => subs'[s] = subs[s],
           silenced \subseteq silenced'
    PROVE  BusFits(m, rec, what)'
<1>1. Held(m)' = Held(m)
  BY DEF Held
<1>2. ActiveSubs(m)' = ActiveSubs(m)
  BY <1>1 DEF ActiveSubs
<1>3. ASSUME rec # None
      PROVE  /\ Own(rec)' = Own(rec)
             /\ RoutedAtMostOnce(rec) => RoutedAtMostOnce(rec)'
  <2>1. Own(rec)' = Own(rec)
    BY <1>1, <1>3 DEF Own
  <2>2. \A s \in Own(rec) : s \in Subscription /\ s.mission = m
    BY <1>3 DEF Own, Held
  <2>3. QED
    BY <2>1, <2>2 DEF RoutedAtMostOnce
<1>4. Silenced(rec) => Silenced(rec)'
  BY DEF Silenced
<1>5. QED
  BY <1>1, <1>2, <1>3, <1>4 DEF BusFits

\* The one subscription of a mission that had none.
LEMMA OneIsAdded ==
    ASSUME subs \in [Subscription -> Nat], NEW rec \in Record,
           NEW target \in Targets \cup {None}, Own(rec) = {},
           \/ target = rec.assigned
           \/ rec.assigned \in Teams /\ target = Coverage[rec.assigned],
           subs' = Added(MissionSubscription(rec, target))
    PROVE  RoutedAtMostOnce(rec)' /\ ActiveSubs(rec.name)' # {}
<1> DEFINE sub == MissionSubscription(rec, target)
<1>1. /\ sub \in Subscription /\ sub.mission = rec.name /\ sub.id = rec.id
      /\ sub.target = target /\ sub.active
  BY SubscriptionType
<1> HIDE DEF sub
<1>2. /\ subs'[sub] = subs[sub] + 1
      /\ \A s \in Subscription : s # sub => subs'[s] = subs[s]
  BY <1>1 DEF Added, sub
<1>3. subs[sub] = 0
  BY <1>1 DEF Own, Held
<1>4. Own(rec)' \subseteq {sub}
  <2>1. ASSUME NEW s \in Subscription, s # sub, s.mission = rec.name, s.id = rec.id
        PROVE  ~(subs'[s] > 0)
    BY <1>2, <2>1 DEF Own, Held
  <2>2. QED
    BY <2>1 DEF Own, Held
<1>5. sub \in Held(rec.name)'
  BY <1>1, <1>2, <1>3 DEF Held
<1>6. RoutedAtMostOnce(rec)'
  <2>1. subs'[sub] = 1
    BY <1>2, <1>3
  <2>2. QED
    BY <1>1, <1>4, <2>1 DEF RoutedAtMostOnce
<1>7. sub \in ActiveSubs(rec.name)'
  BY <1>1, <1>5 DEF ActiveSubs
<1>8. QED
  BY <1>6, <1>7

\* What is switched on or off stays as often as it was.
LEMMA AllAreSwitched ==
    ASSUME subs \in [Subscription -> Nat], NEW rec \in Record, NEW b \in BOOLEAN,
           RoutedAtMostOnce(rec), subs' = WithActive(rec.name, b)
    PROVE  /\ RoutedAtMostOnce(rec)'
           /\ \A s \in Held(rec.name)' : s.active = b
           /\ Held(rec.name) # {} => Held(rec.name)' # {}
<1> DEFINE On(s) == [s EXCEPT !.active = TRUE]
           Off(s) == [s EXCEPT !.active = FALSE]
           m == rec.name
<1>1. ASSUME NEW s \in Subscription
      PROVE  /\ On(s) \in Subscription /\ On(s).mission = s.mission /\ On(s).id = s.id
             /\ On(s).target = s.target /\ On(s).active = TRUE
             /\ Off(s) \in Subscription /\ Off(s).mission = s.mission /\ Off(s).id = s.id
             /\ Off(s).target = s.target /\ Off(s).active = FALSE
             /\ subs[On(s)] \in Nat /\ subs[Off(s)] \in Nat /\ On(s) # Off(s)
  BY Twins
<1>2. ASSUME NEW s \in Subscription, s.mission = m
      PROVE  subs'[s] = IF s.active # b THEN 0 ELSE subs[On(s)] + subs[Off(s)]
  BY <1>2 DEF WithActive
<1> HIDE DEF On, Off, m
<1>3. ASSUME NEW s \in Held(m)'
      PROVE  /\ s \in Subscription /\ s.mission = m /\ s.active = b
             /\ subs'[s] = subs[On(s)] + subs[Off(s)]
             /\ subs[On(s)] > 0 \/ subs[Off(s)] > 0
  <2>1. s \in Subscription /\ s.mission = m /\ subs'[s] > 0
    BY DEF Held
  <2>2. s.active = b /\ subs'[s] = subs[On(s)] + subs[Off(s)]
    BY <1>2, <2>1
  <2>3. subs[On(s)] \in Nat /\ subs[Off(s)] \in Nat
    BY <1>1, <2>1
  <2>4. \A x, y \in Nat : x + y > 0 => x > 0 \/ y > 0
    OBVIOUS
  <2>5. QED
    BY <2>1, <2>2, <2>3, <2>4
<1>4. ASSUME NEW s \in Own(rec)'
      PROVE  \E u \in Own(rec) : /\ u.target = s.target /\ u.id = s.id
                                 /\ subs'[s] = subs[u]
  <2>1. s \in Held(m)' /\ s.id = rec.id
    BY DEF Own, m
  <2>2. On(s) \in Own(rec) <=> subs[On(s)] > 0
    BY <1>1, <1>3, <2>1 DEF Own, Held, m
  <2>3. Off(s) \in Own(rec) <=> subs[Off(s)] > 0
    BY <1>1, <1>3, <2>1 DEF Own, Held, m
  <2>4. ~(On(s) \in Own(rec) /\ Off(s) \in Own(rec))
    BY <1>1, <1>3, <2>1 DEF RoutedAtMostOnce
  <2>5. s \in Subscription /\ subs'[s] = subs[On(s)] + subs[Off(s)]
    BY <1>3, <2>1
  <2>6. subs[On(s)] \in Nat /\ subs[Off(s)] \in Nat
    BY <1>1, <2>5
  <2>7. \A x \in Nat : (~(x > 0) => x = 0) /\ x + 0 = x /\ 0 + x = x
    OBVIOUS
  <2>8. CASE On(s) \in Own(rec)
    <3>1. subs[Off(s)] = 0
      BY <2>3, <2>4, <2>8, <2>6, <2>7
    <3>2. subs'[s] = subs[On(s)]
      BY <2>5, <2>6, <2>7, <3>1
    <3>3. QED
      BY <1>1, <1>3, <2>1, <2>8, <3>2
  <2>9. CASE On(s) \notin Own(rec)
    <3>1. subs[On(s)] = 0
      BY <2>2, <2>9, <2>6, <2>7
    <3>2. subs'[s] = subs[Off(s)]
      BY <2>5, <2>6, <2>7, <3>1
    <3>3. Off(s) \in Own(rec)
      BY <1>3, <2>1, <2>3, <3>1
    <3>4. QED
      BY <1>1, <1>3, <2>1, <3>2, <3>3
  <2>10. QED
    BY <2>8, <2>9
<1>5. RoutedAtMostOnce(rec)'
  <2>1. ASSUME NEW s \in Own(rec)', NEW t \in Own(rec)' PROVE s = t
    <3>1. s \in Held(m)' /\ t \in Held(m)' /\ s.id = rec.id /\ t.id = rec.id
      BY DEF Own, m
    <3>2. s.target = t.target
      BY <1>4 DEF RoutedAtMostOnce
    <3>3. QED
      BY <1>3, <3>1, <3>2, SameSubscription
  <2>2. ASSUME NEW s \in Own(rec)'
        PROVE  /\ subs'[s] = 1
               /\ \/ s.target = rec.assigned
                  \/ rec.assigned \in Teams /\ s.target = Coverage[rec.assigned]
    BY <1>4 DEF RoutedAtMostOnce
  <2>3. QED
    BY <2>1, <2>2 DEF RoutedAtMostOnce
<1>6. ASSUME NEW s \in Held(m) PROVE Held(m)' # {}
  <2>1. s \in Subscription /\ s.mission = m /\ subs[s] > 0
    BY DEF Held
  <2> DEFINE t == [s EXCEPT !.active = b]
  <2>2. /\ t \in Subscription /\ t.mission = m /\ t.active = b /\ t.id = s.id
        /\ t.target = s.target
    BY <2>1, Twins
  <2> HIDE DEF t
  <2>3. /\ On(t).id = s.id /\ On(t).target = s.target /\ On(t).mission = s.mission
        /\ Off(t).id = s.id /\ Off(t).target = s.target /\ Off(t).mission = s.mission
        /\ On(t) \in Subscription /\ Off(t) \in Subscription
        /\ On(t).active = TRUE /\ Off(t).active = FALSE
        /\ subs[On(t)] \in Nat /\ subs[Off(t)] \in Nat
    BY <1>1, <2>1, <2>2
  <2>4. s = On(t) \/ s = Off(t)
    <3>1. s.active \in BOOLEAN
      BY <2>1 DEF Subscription
    <3>2. CASE s.active = TRUE
      BY <2>1, <2>3, <3>2, SameSubscription
    <3>3. CASE s.active = FALSE
      BY <2>1, <2>3, <3>3, SameSubscription
    <3>4. QED
      BY <3>1, <3>2, <3>3
  <2>5. subs'[t] = subs[On(t)] + subs[Off(t)]
    BY <1>2, <2>2
  <2>6. subs'[t] > 0
    BY <2>1, <2>3, <2>4, <2>5
  <2>7. QED
    BY <2>2, <2>6 DEF Held
<1>7. QED
  BY <1>3, <1>5, <1>6 DEF m

\* Whatever the bus is told, it holds subscriptions of missions created before.
LEMMA IdsStayKnown ==
    ASSUME subs \in [Subscription -> Nat], NEW s \in Step, Done(s),
           \A x \in Subscription : subs[x] > 0 => x.id <= created,
           s.do = "subscribe" => /\ file[s.rec.name] \in Record
                                 /\ file[s.rec.name].id <= created,
           s.do = "reroute" => s.rec.id <= created,
           NEW x \in Subscription, subs'[x] > 0
    PROVE  x.id <= created
<1>1. s.rec \in Record /\ s.at \in Targets \cup {None}
  BY StepType
<1>2. ASSUME NEW rec \in Record, NEW target \in Targets \cup {None}, rec.id <= created,
             subs' = Added(MissionSubscription(rec, target))
      PROVE  x.id <= created
  <2> DEFINE sub == MissionSubscription(rec, target)
  <2>1. sub \in Subscription /\ sub.id = rec.id
    BY SubscriptionType
  <2>2. x # sub => subs'[x] = subs[x]
    BY <1>2, <2>1 DEF Added
  <2>3. QED
    BY <1>2, <2>1, <2>2
<1>3. ASSUME NEW b \in BOOLEAN, subs' = WithActive(s.rec.name, b)
      PROVE  x.id <= created
  <2> DEFINE on == [x EXCEPT !.active = TRUE]
             off == [x EXCEPT !.active = FALSE]
  <2>1. on \in Subscription /\ off \in Subscription /\ on.id = x.id /\ off.id = x.id
    BY Twins
  <2>2. subs'[x] \in {subs[x], 0, subs[on] + subs[off]}
    BY <1>3 DEF WithActive
  <2> HIDE DEF on, off
  <2>3. subs[x] \in Nat /\ subs[on] \in Nat /\ subs[off] \in Nat
    BY <2>1
  <2>4. subs[x] > 0 \/ subs[on] > 0 \/ subs[off] > 0
    BY <2>2, <2>3
  <2>5. QED
    BY <2>1, <2>4
<1>4. CASE s.do = "subscribe"
  <2> DEFINE rec == file[s.rec.name]
  <2>1. rec \in Record /\ rec # None /\ rec.id <= created /\ rec.assigned \in Targets \cup {None}
    BY <1>4, RecordIsSome DEF Record
  <2>2. subs' = Added(MissionSubscription(rec, rec.assigned))
    BY <1>4, <2>1 DEF Done
  <2>3. QED
    BY <1>2, <2>1, <2>2
<1>5. CASE s.do = "deactivate" \/ s.do = "activate"
  BY <1>3, <1>5 DEF Done
<1>6. CASE s.do = "remove"
  BY <1>6 DEF Done
<1>7. CASE s.do = "reroute"
  BY <1>1, <1>2, <1>7 DEF Done
<1>8. CASE s.do \notin BusSteps
  BY <1>8 DEF Done
<1>9. QED
  BY <1>4, <1>5, <1>6, <1>7, <1>8 DEF BusSteps

\* A step about a mission leaves the bus as the next one finds it.
LEMMA BusFitsStep ==
    ASSUME subs \in [Subscription -> Nat], NEW goal, GoodGoal(goal),
           NEW s \in Step, Done(s), NEW m \in Missions, OnBusOf(s, m),
           file[m] = goal[m], BusFits(m, goal[m], s.do),
           s.do = "reroute" => /\ s.rec = goal[m] /\ s.rec.assigned \in Teams
                               /\ s.at = Coverage[s.rec.assigned],
           NEW what,
           \/ /\ what = "nothing"
              /\ s.do = "remove" => goal[m].status # "active"
           \/ what = "reroute" /\ s.do = "remove" /\ goal[m].status = "active"
    PROVE  BusFits(m, goal[m], what)'
<1> DEFINE rec == goal[m]
<1>1. rec # None
  BY DEF BusFits, OnBusOf, BusSteps
<1>2. rec \in Record /\ rec.name = m /\ rec.assigned \in Targets \cup {None}
  BY <1>1 DEF GoodGoal, Record
<1>3. s.rec.name = m /\ s.at \in Targets \cup {None}
  BY StepType DEF OnBusOf
<1>4. Silenced(rec) => Silenced(rec)'
  BY DEF Silenced, Done
<1> HIDE DEF rec
<1>5. CASE s.do = "subscribe"
  <2>1. rec.status = "active" /\ Own(rec) = {}
    BY <1>5 DEF BusFits, rec
  <2>2. subs' = Added(MissionSubscription(rec, rec.assigned))
    BY <1>1, <1>3, <1>5 DEF Done, rec
  <2>3. RoutedAtMostOnce(rec)' /\ ActiveSubs(m)' # {}
    BY <1>2, <2>1, <2>2, OneIsAdded
  <2>4. BusFits(m, rec, "nothing")'
    BY <1>1, <2>1, <2>3 DEF BusFits
  <2>5. QED
    BY <1>5, <2>4 DEF rec
<1>6. CASE s.do = "deactivate"
  <2>1. rec.status = "paused" /\ RoutedAtMostOnce(rec) /\ (Held(m) # {} \/ Silenced(rec))
    BY <1>6 DEF BusFits, rec
  <2>2. subs' = WithActive(rec.name, FALSE)
    BY <1>2, <1>3, <1>6 DEF Done
  <2>3. /\ RoutedAtMostOnce(rec)' /\ \A x \in Held(m)' : x.active = FALSE
        /\ Held(m) # {} => Held(m)' # {}
    BY <1>2, <2>1, <2>2, AllAreSwitched
  <2>4. ActiveSubs(m)' = {}
    BY <2>3 DEF ActiveSubs
  <2>5. BusFits(m, rec, "nothing")'
    BY <1>1, <1>4, <2>1, <2>3, <2>4 DEF BusFits
  <2>6. QED
    BY <1>6, <2>5 DEF rec
<1>7. CASE s.do = "activate"
  <2>1. rec.status = "active" /\ RoutedAtMostOnce(rec) /\ (Held(m) # {} \/ Silenced(rec))
    BY <1>7 DEF BusFits, rec
  <2>2. subs' = WithActive(rec.name, TRUE)
    BY <1>2, <1>3, <1>7 DEF Done
  <2>3. /\ RoutedAtMostOnce(rec)' /\ \A x \in Held(m)' : x.active = TRUE
        /\ Held(m) # {} => Held(m)' # {}
    BY <1>2, <2>1, <2>2, AllAreSwitched
  <2>4. Held(m)' # {} => ActiveSubs(m)' # {}
    BY <2>3 DEF ActiveSubs
  <2>5. BusFits(m, rec, "nothing")'
    BY <1>1, <1>4, <2>1, <2>3, <2>4 DEF BusFits
  <2>6. QED
    BY <1>7, <2>5 DEF rec
<1>8. CASE s.do = "remove"
  <2>1. rec.status = "active" \/ (rec.status = "completed" /\ Silenced(rec))
    BY <1>8 DEF BusFits, rec
  <2>2. subs' = [x \in Subscription |-> IF x.mission = m THEN 0 ELSE subs[x]]
    BY <1>3, <1>8 DEF Done
  <2>3. Held(m)' = {}
    BY <2>2 DEF Held
  <2>4. ActiveSubs(m)' = {} /\ Own(rec)' = {}
    BY <1>2, <2>3 DEF ActiveSubs, Own
  <2>5. RoutedAtMostOnce(rec)'
    BY <2>4 DEF RoutedAtMostOnce
  <2>6. CASE what = "nothing" /\ rec.status # "active"
    <3>1. BusFits(m, rec, "nothing")'
      BY <1>1, <1>4, <2>1, <2>4, <2>5, <2>6 DEF BusFits
    <3>2. QED
      BY <2>6, <3>1 DEF rec
  <2>7. CASE what = "reroute" /\ rec.status = "active"
    <3>1. BusFits(m, rec, "reroute")'
      BY <1>1, <2>3, <2>7 DEF BusFits
    <3>2. QED
      BY <2>7, <3>1 DEF rec
  <2>8. QED
    BY <1>8, <2>6, <2>7 DEF rec
<1>9. CASE s.do = "reroute"
  <2>1. rec.status = "active" /\ Held(m) = {}
    BY <1>9 DEF BusFits, rec
  <2>2. Own(rec) = {}
    BY <1>2, <2>1 DEF Own
  <2>3. /\ rec.assigned \in Teams /\ s.at = Coverage[rec.assigned]
        /\ subs' = Added(MissionSubscription(rec, s.at))
    BY <1>9 DEF Done, rec
  <2>4. RoutedAtMostOnce(rec)' /\ ActiveSubs(m)' # {}
    BY <1>2, <1>3, <2>2, <2>3, OneIsAdded
  <2>5. BusFits(m, rec, "nothing")'
    BY <1>1, <2>1, <2>4 DEF BusFits
  <2>6. QED
    BY <1>9, <2>5 DEF rec
<1>10. QED
  BY <1>5, <1>6, <1>7, <1>8, <1>9 DEF OnBusOf, BusSteps

LEMMA BusFollowsStep ==
    ASSUME subs \in [Subscription -> Nat], NEW goal, GoodGoal(goal),
           NEW steps \in Seq(Step), NEW rest, NEW s \in Step,
           Follows(steps, rest), s = steps[1], Done(s),
           FilesFollow(steps, goal), BusFollows(steps, goal)
    PROVE  BusFollows(rest, goal)'
<1>1. BusIsToldOnce(rest, goal)
  BY BusIsToldOnceStep DEF BusFollows
<1>2. s.rec \in Record /\ s.rec.name \in Missions
  BY StepType
<1>3. s.do \in BusSteps => file[s.rec.name] = goal[s.rec.name]
  <2>1. ASSUME s.do \in BusSteps, NEW k \in 1..Len(steps), Rewrites(steps[k], s.rec.name)
        PROVE  FALSE
    <3>1. 1 \in 1..Len(steps) /\ (k = 1 \/ 1 < k)
      BY DEF Follows
    <3>2. steps[k].do \in {"write", "unlink"}
      BY <2>1 DEF Rewrites
    <3>3. QED
      BY <2>1, <3>1, <3>2 DEF FilesFollow, BusSteps
  <2>2. QED
    BY <1>2, <2>1 DEF FilesFollow
<1>4. s.do = "reroute" => /\ s.rec = goal[s.rec.name] /\ s.rec.assigned \in Teams
                          /\ s.at = Coverage[s.rec.assigned]
  BY DEF BusFollows, BusIsToldOnce, Follows
<1>5. ASSUME NEW m \in Missions, OnBusOf(s, m)
      PROVE  BusFits(m, goal[m], s.do)
  <2>1. Due(steps, m, s.do)
    <3>1. 1 \in 1..Len(steps) /\ \A j \in 1..(1 - 1) : FALSE
      BY DEF Follows
    <3>2. QED
      BY <1>5, <3>1 DEF Due
  <2>2. s.do \in BusSteps
    BY <1>5 DEF OnBusOf
  <2>3. QED
    BY <2>1, <2>2 DEF BusFollows
<1>6. ASSUME NEW m \in Missions, NEW what \in BusSteps \cup {"nothing"}, Due(rest, m, what)
      PROVE  BusFits(m, goal[m], what)'
  <2>1. CASE OnBusOf(s, m)
    <3>1. \/ what = "nothing" /\ (s.do = "remove" => goal[m].status # "active")
          \/ what = "reroute" /\ s.do = "remove" /\ goal[m].status = "active"
      BY <1>6, <2>1, DueAfter DEF BusFollows
    <3>2. s.rec.name = m /\ file[m] = goal[m]
      BY <1>3, <2>1 DEF OnBusOf
    <3>3. QED
      BY <1>4, <1>5, <2>1, <3>1, <3>2, BusFitsStep
  <2>2. CASE ~OnBusOf(s, m)
    <3>1. BusFits(m, goal[m], what)
      BY <1>6, <2>2, DueStep DEF BusFollows
    <3>2. ASSUME NEW x \in Subscription, x.mission = m PROVE subs'[x] = subs[x]
      <4>1. CASE s.do \notin BusSteps
        BY <4>1 DEF Done
      <4>2. CASE s.do \in BusSteps
        <5>1. s.rec.name # m
          BY <2>2, <4>2 DEF OnBusOf
        <5>2. ASSUME NEW rec \in Record, NEW target \in Targets \cup {None},
                     rec.name = s.rec.name, subs' = Added(MissionSubscription(rec, target))
              PROVE  subs'[x] = subs[x]
          <6>1. MissionSubscription(rec, target).mission # m
            BY <5>1, <5>2, SubscriptionType
          <6>2. QED
            BY <3>2, <5>2, <6>1 DEF Added
        <5>3. CASE s.do = "subscribe"
          <6> DEFINE rec == goal[s.rec.name]
          <6>1. rec # None /\ file[s.rec.name] = rec
            BY <1>2, <1>3, <1>5, <4>2, <5>3 DEF OnBusOf, BusFits
          <6>2. rec \in Record /\ rec.name = s.rec.name /\ rec.assigned \in Targets \cup {None}
            BY <1>2, <6>1 DEF GoodGoal, Record
          <6>3. subs' = Added(MissionSubscription(rec, rec.assigned))
            BY <5>3, <6>1 DEF Done
          <6>4. QED
            BY <5>2, <6>2, <6>3
        <5>4. CASE s.do = "deactivate" \/ s.do = "activate"
          <6>1. PICK b \in BOOLEAN : subs' = WithActive(s.rec.name, b)
            BY <5>4 DEF Done
          <6>2. QED
            BY <3>2, <5>1, <6>1 DEF WithActive
        <5>5. CASE s.do = "remove"
          BY <3>2, <5>1, <5>5 DEF Done
        <5>6. CASE s.do = "reroute"
          <6>1. s.at \in Targets \cup {None}
            BY StepType
          <6>2. QED
            BY <1>2, <5>2, <5>6, <6>1 DEF Done
        <5>7. QED
          BY <4>2, <5>3, <5>4, <5>5, <5>6 DEF BusSteps
      <4>3. QED
        BY <4>1, <4>2
    <3>3. goal[m] # None => goal[m].name = m
      BY DEF GoodGoal
    <3>4. silenced' = silenced
      BY DEF Done
    <3>5. QED
      BY <3>1, <3>2, <3>3, <3>4, BusFitsKept
  <2>3. QED
    BY <2>1, <2>2
<1>7. ASSUME NEW x \in Subscription, subs'[x] > 0 PROVE x.id <= created
  <2>1. ASSUME s.do = "subscribe"
        PROVE  file[s.rec.name] \in Record /\ file[s.rec.name].id <= created
    <3>1. goal[s.rec.name] # None /\ file[s.rec.name] = goal[s.rec.name]
      BY <1>2, <1>3, <1>5, <2>1 DEF OnBusOf, BusFits, BusSteps
    <3>2. QED
      BY <1>2, <3>1 DEF GoodGoal
  <2>2. ASSUME s.do = "reroute" PROVE s.rec.id <= created
    BY <1>2, <1>4, <2>2, RecordIsSome DEF GoodGoal
  <2>3. QED
    BY <1>7, <2>1, <2>2, IdsStayKnown DEF BusFollows
<1>8. created' = created
  BY DEF Done
<1>9. QED
  BY <1>1, <1>6, <1>7, <1>8 DEF BusFollows, BusIsToldOnce, Due, OnBusOf

\* What a request has left still leads to the same goal.
LEMMA TidyStep ==
    ASSUME IInv, BusTypeOK, NEW r \in Requests, TakeStep(r), NEW goal,
           Tidy(todo[r], goal)
    PROVE  Tidy(todo[r], goal)'
<1>1. PICK steps \in Seq(Step), rest \in Seq(Step), s \in Step :
         /\ steps = todo[r] /\ rest = todo'[r] /\ s = steps[1]
         /\ Follows(steps, rest) /\ Done(s)
  BY StepTaken
<1>2. /\ GoodGoal(goal) /\ FilesFollow(steps, goal) /\ CopiesFollow(steps, goal)
      /\ "mcp" \notin Interfaces => BusFollows(steps, goal)
  BY <1>1 DEF Tidy
<1>3. 1 \in 1..Len(steps) /\ CopyAllowed(steps, 1)
  BY <1>1 DEF IInv, RequestsAreGood, GoodSteps, Follows
<1>4. GoodGoal(goal)'
  <2>1. s.do = "copy" => s.rec = goal[s.rec.name]
    BY <1>1, <1>2, <1>3 DEF CopiesFollow
  <2>2. s.do = "copy" /\ s.at \in Agents => MayHold(s.at, s.rec)
    BY <1>1, <1>3 DEF CopyAllowed
  <2>3. QED
    BY <1>1, <1>2, <2>1, <2>2, GoodGoalStep
<1>5. FilesFollow(rest, goal)'
  BY <1>1, <1>2, FilesFollowStep
<1>6. CopiesFollow(rest, goal)'
  BY <1>1, <1>2, CopiesFollowStep
<1>7. ASSUME "mcp" \notin Interfaces PROVE BusFollows(rest, goal)'
  <2>1. subs \in [Subscription -> Nat]
    BY DEF BusTypeOK
  <2>2. QED
    BY <1>1, <1>2, <1>7, <2>1, BusFollowsStep
<1>8. Tidy(rest, goal)'
  BY <1>4, <1>5, <1>6, <1>7 DEF Tidy
<1>9. QED
  BY <1>1, <1>8

-----------------------------------------------------------------------------
(* A request begins *)

\* What the state is like when no request is under way.
Rested ==
    /\ GoodGoal(file)
    /\ CopiesFollow(<<>>, file)
    /\ "mcp" \notin Interfaces =>
         /\ \A s \in Subscription : subs[s] > 0 => s.id <= created
         /\ \A m \in Missions : BusFits(m, file[m], "nothing")

LEMMA ThroughIsRested ==
    ASSUME IInv, NEW goal, Tidy(<<>>, goal)
    PROVE  Rested
<1>1. /\ GoodGoal(goal) /\ FilesFollow(<<>>, goal) /\ CopiesFollow(<<>>, goal)
      /\ "mcp" \notin Interfaces => BusFollows(<<>>, goal)
  BY DEF Tidy
<1>2. \A m \in Missions : file[m] = goal[m]
  BY <1>1 DEF FilesFollow
<1>3. file = goal
  <2>1. file \in [Missions -> Record \cup {None}] /\ goal \in [Missions -> Record \cup {None}]
    BY <1>1 DEF IInv, FilesTypeOK, GoodGoal
  <2>2. QED
    BY <1>2, <2>1
<1>4. \A m \in Missions : Due(<<>>, m, "nothing")
  BY DEF Due
<1>5. ASSUME "mcp" \notin Interfaces
      PROVE  /\ \A s \in Subscription : subs[s] > 0 => s.id <= created
             /\ \A m \in Missions : BusFits(m, goal[m], "nothing")
  BY <1>1, <1>4, <1>5 DEF BusFollows
<1>6. QED
  BY <1>1, <1>3, <1>5 DEF Rested

\* The steps of a request about one mission, whose file they leave as new, and
\* of which they tell the bus at the end, if they do.
AboutMission(steps, m, new, what) ==
    /\ steps \in Seq(Step)
    /\ \A k \in 1..Len(steps) :
         /\ steps[k].rec.name = m
         /\ \/ steps[k].do \in {"write", "unlink"} /\ Leaves(steps[k]) = new
            \/ steps[k].do \in {"log", "uncopy"}
            \/ steps[k].do = "copy" /\ steps[k].rec = new
            \/ /\ k = Len(steps) /\ steps[k].do = what
               /\ what \in BusSteps \ {"reroute"}
    /\ what # "nothing" => Len(steps) >= 1 /\ steps[Len(steps)].do = what

HasRewrite(steps, m) == \E k \in 1..Len(steps) : Rewrites(steps[k], m)

LEMMA AboutConcat ==
    ASSUME NEW a, NEW b, NEW m, NEW new, NEW what,
           AboutMission(a, m, new, "nothing"), AboutMission(b, m, new, what)
    PROVE  AboutMission(a \o b, m, new, what)
<1>1. a \in Seq(Step) /\ b \in Seq(Step)
  BY DEF AboutMission
<1>2. /\ a \o b \in Seq(Step)
      /\ Len(a \o b) = Len(a) + Len(b)
      /\ \A i \in 1..Len(a) + Len(b) :
           (a \o b)[i] = IF i <= Len(a) THEN a[i] ELSE b[i - Len(a)]
  BY <1>1, ConcatProperties
<1>3. Len(a) \in Nat /\ Len(b) \in Nat
  BY <1>1, LenProperties
<1> DEFINE c == a \o b
<1> HIDE DEF c
<1>4. ASSUME NEW k \in 1..Len(c)
      PROVE  \/ k \in 1..Len(a) /\ c[k] = a[k]
             \/ /\ k - Len(a) \in 1..Len(b) /\ c[k] = b[k - Len(a)]
                /\ k - Len(a) = Len(b) => k = Len(c)
  BY <1>2, <1>3 DEF c
<1>5. ASSUME NEW k \in 1..Len(c)
      PROVE  /\ c[k].rec.name = m
             /\ \/ c[k].do \in {"write", "unlink"} /\ Leaves(c[k]) = new
                \/ c[k].do \in {"log", "uncopy"}
                \/ c[k].do = "copy" /\ c[k].rec = new
                \/ k = Len(c) /\ c[k].do = what /\ what \in BusSteps \ {"reroute"}
  <2>1. CASE k \in 1..Len(a) /\ c[k] = a[k]
    BY <2>1 DEF AboutMission, BusSteps
  <2>2. CASE /\ k - Len(a) \in 1..Len(b) /\ c[k] = b[k - Len(a)]
             /\ k - Len(a) = Len(b) => k = Len(c)
    <3> DEFINE j == k - Len(a)
    <3>1. j \in 1..Len(b) /\ c[k] = b[j] /\ (j = Len(b) => k = Len(c))
      BY <2>2
    <3> HIDE DEF j
    <3>2. QED
      BY <3>1 DEF AboutMission
  <2>3. QED
    BY <1>4, <2>1, <2>2
<1>6. ASSUME what # "nothing" PROVE Len(c) >= 1 /\ c[Len(c)].do = what
  <2>1. Len(b) >= 1 /\ b[Len(b)].do = what
    BY <1>6 DEF AboutMission
  <2>2. Len(c) >= 1 /\ c[Len(c)] = b[Len(b)]
    BY <1>2, <1>3, <2>1 DEF c
  <2>3. QED
    BY <2>1, <2>2
<1>7. QED
  BY <1>2, <1>5, <1>6 DEF AboutMission, c

\* Nothing is lost when steps are put together.
LEMMA PartsOccur ==
    ASSUME NEW a \in Seq(Step), NEW b \in Seq(Step)
    PROVE  /\ \A m : HasRewrite(a, m) \/ HasRewrite(b, m) => HasRewrite(a \o b, m)
           /\ \A x, rec : Refreshed(a, x, rec) \/ Refreshed(b, x, rec)
                            => Refreshed(a \o b, x, rec)
<1>1. /\ Len(a \o b) = Len(a) + Len(b)
      /\ \A i \in 1..Len(a) + Len(b) :
           (a \o b)[i] = IF i <= Len(a) THEN a[i] ELSE b[i - Len(a)]
  BY ConcatProperties
<1>2. Len(a) \in Nat /\ Len(b) \in Nat
  BY LenProperties
<1> DEFINE c == a \o b
<1> HIDE DEF c
<1>3. \A k \in 1..Len(a) : \E j \in 1..Len(c) : c[j] = a[k]
  <2>1. \A k \in 1..Len(a) : k \in 1..Len(c) /\ c[k] = a[k]
    BY <1>1, <1>2 DEF c
  <2>2. QED
    BY <2>1
<1>4. \A k \in 1..Len(b) : \E j \in 1..Len(c) : c[j] = b[k]
  <2>1. \A k \in 1..Len(b) : k + Len(a) \in 1..Len(c) /\ c[k + Len(a)] = b[k]
    BY <1>1, <1>2 DEF c
  <2>2. QED
    BY <2>1
<1>5. ASSUME NEW m, HasRewrite(a, m) \/ HasRewrite(b, m) PROVE HasRewrite(c, m)
  BY <1>3, <1>4, <1>5 DEF HasRewrite
<1>6. ASSUME NEW x, NEW rec, Refreshed(a, x, rec) \/ Refreshed(b, x, rec)
      PROVE  Refreshed(c, x, rec)
  BY <1>3, <1>4, <1>6 DEF Refreshed
<1>7. QED
  BY <1>5, <1>6 DEF c

LEMMA SingleStep ==
    ASSUME NEW s \in Step, NEW new, NEW what,
           \/ what = "nothing" /\ s.do \in {"write", "unlink"} /\ Leaves(s) = new
           \/ what = "nothing" /\ s.do \in {"log", "uncopy"}
           \/ what = "nothing" /\ s.do = "copy" /\ s.rec = new
           \/ s.do = what /\ what \in BusSteps \ {"reroute"}
    PROVE  /\ AboutMission(<<s>>, s.rec.name, new, what)
           /\ s.do \in {"write", "unlink"} => HasRewrite(<<s>>, s.rec.name)
<1>1. <<s>> \in Seq(Step) /\ Len(<<s>>) = 1 /\ <<s>>[1] = s
  OBVIOUS
<1> DEFINE q == <<s>>
<1>2. q \in Seq(Step) /\ Len(q) = 1 /\ q[1] = s
  BY <1>1
<1> HIDE DEF q
<1>3. AboutMission(q, s.rec.name, new, what)
  BY <1>2 DEF AboutMission
<1>4. s.do \in {"write", "unlink"} => HasRewrite(q, s.rec.name)
  BY <1>2 DEF HasRewrite, Rewrites
<1>5. QED
  BY <1>3, <1>4 DEF q

\* The copies a request writes or removes, for all who have the mission.
LEMMA AboutCopies ==
    ASSUME NEW rec \in Record
    PROVE  /\ AboutMission(WriteCopies(rec), rec.name, rec, "nothing")
           /\ \A new : AboutMission(RemoveCopies(rec), rec.name, new, "nothing")
           /\ \A a \in ToSet(AssignedAgents(rec)) :
                /\ Refreshed(WriteCopies(rec), a, rec)
                /\ Refreshed(RemoveCopies(rec), a, rec)
<1>1. PICK agents : agents = AssignedAgents(rec) /\ agents \in Seq(Agents)
  BY AssignedMayHold
<1>2. Len(agents) \in Nat
  BY <1>1, LenProperties
<1>3. DOMAIN agents = 1..Len(agents)
  BY <1>1, LenProperties
<1>4. \A k \in 1..Len(agents) : agents[k] \in Agents
  BY <1>1, ElementOfSeq
<1>5. ASSUME NEW what \in {"copy", "uncopy"}
      PROVE  LET s == ForEach(what, rec, agents) IN
             /\ s \in Seq(Step) /\ Len(s) = Len(agents)
             /\ \A k \in 1..Len(agents) : /\ s[k].do = what /\ s[k].rec = rec
                                          /\ s[k].at = agents[k]
  <2> DEFINE s == ForEach(what, rec, agents)
  <2>1. s = [k \in 1..Len(agents) |-> DoAt(what, rec, agents[k])]
    BY <1>3 DEF ForEach
  <2>2. \A k \in 1..Len(agents) : DoAt(what, rec, agents[k]) \in Step
    BY <1>4, DoIsStep DEF Targets
  <2>3. s \in Seq(Step) /\ Len(s) = Len(agents)
    BY <1>2, <2>1, <2>2, IsASeq
  <2>4. \A k \in 1..Len(agents) : s[k] = DoAt(what, rec, agents[k])
    BY <2>1
  <2>5. \A k \in 1..Len(agents) : /\ DoAt(what, rec, agents[k]).do = what
                                  /\ DoAt(what, rec, agents[k]).rec = rec
                                  /\ DoAt(what, rec, agents[k]).at = agents[k]
    BY DEF DoAt
  <2> HIDE DEF s
  <2>6. \A k \in 1..Len(agents) : s[k].do = what /\ s[k].rec = rec /\ s[k].at = agents[k]
    BY <2>4, <2>5
  <2>7. QED
    BY <2>3, <2>6 DEF s
<1>6. PICK w : /\ w = WriteCopies(rec)
               /\ w \in Seq(Step) /\ Len(w) = Len(agents)
               /\ \A k \in 1..Len(agents) : /\ w[k].do = "copy" /\ w[k].rec = rec
                                            /\ w[k].at = agents[k]
  BY <1>1, <1>5 DEF WriteCopies
<1>7. PICK u : /\ u = RemoveCopies(rec)
               /\ u \in Seq(Step) /\ Len(u) = Len(agents)
               /\ \A k \in 1..Len(agents) : /\ u[k].do = "uncopy" /\ u[k].rec = rec
                                            /\ u[k].at = agents[k]
  BY <1>1, <1>5 DEF RemoveCopies
<1>8. AboutMission(w, rec.name, rec, "nothing")
  BY <1>6 DEF AboutMission
<1>9. ASSUME NEW new PROVE AboutMission(u, rec.name, new, "nothing")
  BY <1>7 DEF AboutMission
<1>10. ASSUME NEW a \in ToSet(AssignedAgents(rec))
       PROVE  Refreshed(w, a, rec) /\ Refreshed(u, a, rec)
  <2>1. PICK k \in 1..Len(agents) : agents[k] = a
    BY <1>1, <1>3, <1>10 DEF ToSet
  <2>2. QED
    BY <1>6, <1>7, <2>1 DEF Refreshed
<1>11. QED
  BY <1>6, <1>7, <1>8, <1>9, <1>10

LEMMA AboutOnBus ==
    ASSUME NEW i \in Interfaces, NEW rec \in Record,
           NEW what \in {"subscribe", "deactivate", "activate", "remove"}
    PROVE  AboutMission(OnBus(i, what, rec), rec.name, rec,
                        IF i = "http" THEN what ELSE "nothing")
<1>1. CASE i = "http"
  <2>1. PICK s \in Step : s = Do(what, rec) /\ s.do = what /\ s.rec = rec
    BY DoIsStep, TeamsAssumption DEF Do
  <2>2. AboutMission(<<s>>, rec.name, rec, what)
    BY <2>1, SingleStep DEF BusSteps
  <2>3. QED
    BY <1>1, <2>1, <2>2 DEF OnBus
<1>2. CASE i # "http"
  <2>1. <<>> \in Seq(Step)
    OBVIOUS
  <2>2. AboutMission(<<>>, rec.name, rec, "nothing")
    BY <2>1 DEF AboutMission
  <2>3. QED
    BY <1>2, <2>2 DEF OnBus
<1>3. QED
  BY <1>1, <1>2

\* A request about one mission starts out tidy if what it leaves is good and
\* every copy that is to change is written or removed.
LEMMA BeginIsTidy ==
    ASSUME IInv, Rested, NEW r \in Requests, NEW steps, Begin(r, steps),
           created <= created', created' \in Nat, silenced \subseteq silenced',
           NEW m \in Missions, NEW new \in Record \cup {None},
           NEW what \in {"nothing", "subscribe", "deactivate", "activate", "remove"},
           AboutMission(steps, m, new, what), HasRewrite(steps, m),
           new # None =>
             /\ new.name = m /\ new.id <= created'
             /\ new.status = "unassigned" => new.assigned = None
             /\ \A n \in Missions : file[n] # None /\ file[n].id = new.id => n = m
             /\ new.assigned = None =>
                  \A a \in Agents : copy[a] # None => copy[a].id # new.id
             /\ \A a \in ToSet(AssignedAgents(new)) :
                  copy[a] # None /\ copy[a].id = new.id => Refreshed(steps, a, new),
           what = "remove" => new # None /\ new.status = "completed",
           "mcp" \notin Interfaces => BusFits(m, new, what)'
    PROVE  \E goal : Tidy(todo[r], goal)'
<1>1. PICK goal : goal = [file EXCEPT ![m] = new]
  OBVIOUS
<1>2. /\ file' = file /\ copy' = copy /\ subs' = subs /\ todo'[r] = steps
      /\ created \in Nat
  BY DEF Begin, IInv, FilesTypeOK
<1>3. /\ goal \in [Missions -> Record \cup {None}] /\ goal[m] = new
      /\ \A n \in Missions : n # m => goal[n] = file[n]
  BY <1>1 DEF IInv, FilesTypeOK
<1>4. GoodGoal(file) /\ CopiesFollow(<<>>, file)
  BY DEF Rested
<1>5. GoodGoal(goal)'
  <2>1. ASSUME NEW n \in Missions, goal[n] # None
        PROVE  /\ goal[n].name = n /\ goal[n].id <= created'
               /\ goal[n].status = "unassigned" => goal[n].assigned = None
               /\ goal[n].assigned = None =>
                    \A a \in Agents : copy[a] # None => copy[a].id # goal[n].id
    <3>1. CASE n = m
      BY <1>3, <2>1, <3>1
    <3>2. CASE n # m
      <4>1. goal[n] = file[n] /\ file[n] \in Record /\ file[n].id \in Nat
        BY <1>3, <2>1, <3>2 DEF Record, Ids
      <4>2. file[n].id <= created
        BY <1>4, <2>1, <4>1 DEF GoodGoal
      <4>3. file[n].id <= created'
        BY <1>2, <4>1, <4>2
      <4>4. QED
        BY <1>4, <2>1, <4>1, <4>3 DEF GoodGoal
    <3>3. QED
      BY <3>1, <3>2
  <2>2. ASSUME NEW n \in Missions, NEW p \in Missions, goal[n] # None, goal[p] # None,
               goal[p].id = goal[n].id
        PROVE  p = n
    BY <1>3, <1>4, <2>2 DEF GoodGoal
  <2>3. ASSUME NEW a \in Agents, copy[a] # None PROVE copy[a].id <= created'
    <3>1. copy[a] \in Record /\ copy[a].id \in Nat
      BY <2>3 DEF IInv, FilesTypeOK, Targets, Record, Ids
    <3>2. copy[a].id <= created
      BY <1>4, <2>3 DEF GoodGoal
    <3>3. QED
      BY <1>2, <3>1, <3>2
  <2>4. QED
    BY <1>2, <1>3, <2>1, <2>2, <2>3 DEF GoodGoal
<1>6. Len(steps) \in Nat
  BY LenProperties DEF AboutMission
<1>7. FilesFollow(steps, goal)'
  <2>1. ASSUME NEW n \in Missions
        PROVE  file[n] = goal[n] \/ \E k \in 1..Len(steps) : Rewrites(steps[k], n)
    BY <1>3 DEF HasRewrite
  <2>2. ASSUME NEW k \in 1..Len(steps), NEW n \in Missions, Rewrites(steps[k], n)
        PROVE  Leaves(steps[k]) = goal[n]
    BY <1>3, <2>2 DEF Rewrites, AboutMission, BusSteps
  <2>3. ASSUME NEW j \in 1..Len(steps), NEW k \in 1..Len(steps), j < k,
               steps[j].do \in BusSteps
        PROVE  FALSE
    <3>1. j = Len(steps)
      BY <2>3 DEF AboutMission, BusSteps
    <3>2. QED
      BY <1>6, <2>3, <3>1
  <2>4. QED
    BY <1>2, <2>1, <2>2, <2>3 DEF FilesFollow
<1>8. CopiesFollow(steps, goal)'
  <2>1. ASSUME NEW k \in 1..Len(steps), steps[k].do = "copy"
        PROVE  steps[k].rec = goal[steps[k].rec.name]
    BY <1>3, <2>1 DEF AboutMission, BusSteps
  <2>2. ASSUME NEW n \in Missions, goal[n] # None, NEW a \in ToSet(AssignedAgents(goal[n])),
               copy[a] # None, copy[a].id = goal[n].id
        PROVE  copy[a] = goal[n] \/ Refreshed(steps, a, goal[n])
    <3>1. CASE n = m
      BY <1>3, <2>2, <3>1
    <3>2. CASE n # m
      <4>1. goal[n] = file[n]
        BY <1>3, <3>2
      <4>2. copy[a] = file[n] \/ Refreshed(<<>>, a, file[n])
        BY <1>4, <2>2, <4>1 DEF CopiesFollow
      <4>3. ~Refreshed(<<>>, a, file[n])
        BY DEF Refreshed
      <4>4. QED
        BY <4>1, <4>2, <4>3
    <3>3. QED
      BY <3>1, <3>2
  <2>3. QED
    BY <1>2, <2>1, <2>2, CopiesFollowNext
<1>9. ASSUME "mcp" \notin Interfaces PROVE BusFollows(steps, goal)'
  <2>1. ASSUME NEW k \in 1..Len(steps), steps[k].do \in BusSteps
        PROVE  /\ k = Len(steps) /\ steps[k].do = what /\ steps[k].do # "reroute"
               /\ steps[k].rec.name = m
    BY <2>1 DEF AboutMission, BusSteps
  <2>2. BusIsToldOnce(steps, goal)'
    <3>1. ASSUME NEW j \in 1..Len(steps), NEW k \in 1..Len(steps), NEW n \in Missions,
                 j < k, OnBusOf(steps[j], n), OnBusOf(steps[k], n)
          PROVE  FALSE
      <4>1. j = Len(steps)
        BY <2>1, <3>1 DEF OnBusOf
      <4>2. QED
        BY <1>6, <3>1, <4>1
    <3>2. ASSUME NEW k \in 1..Len(steps)
          PROVE  /\ steps[k].do # "reroute"
                 /\ ~(steps[k].do = "remove" /\ goal[steps[k].rec.name].status = "active")
      BY <1>3, <2>1 DEF BusSteps
    <3>3. QED
      BY <1>2, <3>1, <3>2 DEF BusIsToldOnce
  <2>3. ASSUME NEW x \in Subscription, subs[x] > 0 PROVE x.id <= created'
    <3>1. x.id \in Nat /\ x.id <= created
      BY <1>9, <2>3 DEF Rested, Subscription, Ids
    <3>2. QED
      BY <1>2, <3>1
  <2>4. ASSUME NEW n \in Missions, NEW w \in BusSteps \cup {"nothing"}, Due(steps, n, w)
        PROVE  BusFits(n, goal[n], w)'
    <3>1. CASE n = m
      <4>1. w = what
        <5>1. CASE what = "nothing"
          <6>1. \A k \in 1..Len(steps) : ~OnBusOf(steps[k], m)
            BY <2>1, <5>1 DEF OnBusOf, BusSteps
          <6>2. QED
            BY <2>4, <3>1, <5>1, <6>1 DEF Due
        <5>2. CASE what # "nothing"
          <6>1. Len(steps) \in 1..Len(steps) /\ steps[Len(steps)].do = what
            BY <1>6, <5>2 DEF AboutMission
          <6>2. OnBusOf(steps[Len(steps)], m)
            BY <5>2, <6>1 DEF OnBusOf, BusSteps, AboutMission
          <6>3. QED
            BY <2>1, <2>4, <3>1, <6>1, <6>2 DEF Due, OnBusOf
        <5>3. QED
          BY <5>1, <5>2
      <4>2. QED
        BY <1>3, <1>9, <3>1, <4>1
    <3>2. CASE n # m
      <4>1. \A k \in 1..Len(steps) : ~OnBusOf(steps[k], n)
        BY <3>2 DEF OnBusOf, AboutMission
      <4>2. w = "nothing"
        BY <2>4, <4>1 DEF Due
      <4>3. BusFits(n, goal[n], w) /\ (goal[n] # None => goal[n].name = n)
        BY <1>3, <1>4, <1>9, <3>2, <4>2 DEF Rested, GoodGoal
      <4>4. QED
        BY <1>2, <4>3, BusFitsKept
    <3>3. QED
      BY <3>1, <3>2
  <2>5. QED
    BY <1>2, <2>2, <2>3, <2>4 DEF BusFollows, Due, OnBusOf
<1>10. Tidy(steps, goal)'
  BY <1>5, <1>7, <1>8, <1>9 DEF Tidy
<1>11. Tidy(todo[r], goal)'
  BY <1>2, <1>10
<1>12. QED
  BY <1>11

\* What is known of the mission on disk when no request is under way.
LEMMA RestedFile ==
    ASSUME IInv, Rested, NEW m \in Missions, Present(m)
    PROVE  /\ file[m] \in Record /\ file[m].name = m /\ file[m].id <= created
           /\ created \in Nat
           /\ file[m].status = "unassigned" => file[m].assigned = None
           /\ \A n \in Missions : file[n] # None /\ file[n].id = file[m].id => n = m
           /\ file[m].assigned = None =>
                \A a \in Agents : copy[a] # None => copy[a].id # file[m].id
           /\ \A a \in ToSet(AssignedAgents(file[m])) : a \in Agents
           /\ "mcp" \notin Interfaces => BusFits(m, file[m], "nothing")
<1>1. file[m] \in Record /\ file[m] # None
  BY OnDisk DEF Present
<1>2. AssignedAgents(file[m]) \in Seq(Agents)
  BY <1>1, AssignedMayHold
<1>3. ToSet(AssignedAgents(file[m])) \subseteq Agents
  BY <1>2, ToSetOfSeq
<1>4. created \in Nat
  BY DEF IInv, FilesTypeOK
<1>5. GoodGoal(file) /\ ("mcp" \notin Interfaces => BusFits(m, file[m], "nothing"))
  BY DEF Rested
<1>6. QED
  BY <1>1, <1>3, <1>4, <1>5 DEF GoodGoal

\* Missions are told apart by name and id; a record of the same mission with
\* the same assignee has the same subscriptions.
LEMMA SameRouting ==
    ASSUME NEW old, NEW new, new.name = old.name, new.id = old.id
    PROVE  /\ Own(new) = Own(old) /\ (Silenced(new) <=> Silenced(old))
           /\ new.assigned = old.assigned =>
                (RoutedAtMostOnce(new) <=> RoutedAtMostOnce(old))
BY DEF Own, Silenced, RoutedAtMostOnce

\* The shape of a request: the file, the copies, the bus.
LEMMA RewriteIsTidy ==
    ASSUME IInv, Rested, NEW r \in Requests, NEW i \in Interfaces,
           NEW m \in Missions, Present(m),
           NEW new \in Record, new.name = m, new.id = file[m].id,
           new.status # "unassigned",
           new.assigned = None => file[m].assigned = None,
           NEW what \in {"subscribe", "deactivate", "activate", "remove"},
           NEW copies, AboutMission(copies, m, new, "nothing"),
           \A a \in ToSet(AssignedAgents(new)) :
             copy[a] # None /\ copy[a].id = new.id => Refreshed(copies, a, new),
           Begin(r, <<Do("write", new)>> \o copies \o OnBus(i, what, new)),
           created' = created, silenced \subseteq silenced',
           what = "remove" => new.status = "completed",
           "mcp" \notin Interfaces => BusFits(m, new, what)'
    PROVE  \E goal : Tidy(todo[r], goal)'
<1>1. PICK w \in {"nothing", "subscribe", "deactivate", "activate", "remove"} :
         w = IF i = "http" THEN what ELSE "nothing"
  OBVIOUS
<1>2. new # None
  BY RecordIsSome
<1>3. PICK first \in Step : first = Do("write", new) /\ first.do = "write" /\ first.rec = new
  BY DoIsStep, TeamsAssumption DEF Do
<1>4. PICK a : a = <<first>>
  OBVIOUS
<1>5. AboutMission(a, m, new, "nothing") /\ HasRewrite(a, m)
  BY <1>3, <1>4, SingleStep DEF Leaves
<1>6. PICK b : b = OnBus(i, what, new)
  OBVIOUS
<1>7. AboutMission(b, m, new, w)
  BY <1>1, <1>6, AboutOnBus
<1>8. AboutMission(a \o copies, m, new, "nothing")
  BY <1>5, AboutConcat
<1>9. AboutMission((a \o copies) \o b, m, new, w)
  BY <1>7, <1>8, AboutConcat
<1>10. /\ HasRewrite((a \o copies) \o b, m)
       /\ \A x : Refreshed(copies, x, new) => Refreshed((a \o copies) \o b, x, new)
  <2>1. a \in Seq(Step) /\ copies \in Seq(Step) /\ b \in Seq(Step) /\ a \o copies \in Seq(Step)
    BY <1>5, <1>7, <1>8 DEF AboutMission
  <2>2. /\ HasRewrite(a \o copies, m)
        /\ \A x : Refreshed(copies, x, new) => Refreshed(a \o copies, x, new)
    BY <1>5, <2>1, PartsOccur
  <2>3. QED
    BY <2>1, <2>2, PartsOccur
<1>11. PICK steps : steps = (a \o copies) \o b
  OBVIOUS
<1>12. Begin(r, steps)
  BY <1>3, <1>4, <1>6, <1>11
<1>13. "mcp" \notin Interfaces => BusFits(m, new, w)'
  BY <1>1, MissionBoundsAssumption
<1>14. created' \in Nat /\ created <= created' /\ new.id <= created'
  BY RestedFile
<1>15. /\ \A n \in Missions : file[n] # None /\ file[n].id = new.id => n = m
       /\ new.assigned = None =>
            \A x \in Agents : copy[x] # None => copy[x].id # new.id
  BY RestedFile
<1>16. \A x \in ToSet(AssignedAgents(new)) :
         copy[x] # None /\ copy[x].id = new.id => Refreshed(steps, x, new)
  BY <1>10, <1>11
<1>17. AboutMission(steps, m, new, w) /\ HasRewrite(steps, m)
  BY <1>9, <1>10, <1>11
<1>18. w = "remove" => new # None /\ new.status = "completed"
  BY <1>1, <1>2
<1>19. QED
  BY <1>12, <1>13, <1>14, <1>15, <1>16, <1>17, <1>18, BeginIsTidy

LEMMA AssignIsTidy ==
    ASSUME IInv, Rested, NEW r \in Requests, NEW i \in Interfaces, NEW m \in Missions,
           NEW t \in Targets, Assign(r, i, m, t)
    PROVE  \E goal : Tidy(todo[r], goal)'
<1>0. PICK new : new = [file[m] EXCEPT !.status = "active", !.assigned = t]
  OBVIOUS
<1>1. /\ Present(m) /\ file[m].status = "unassigned"
      /\ created' = created /\ silenced' = silenced
  BY DEF Assign
<1>2. /\ file[m] \in Record /\ file[m].name = m /\ file[m].assigned = None
      /\ \A a \in Agents : copy[a] # None => copy[a].id # file[m].id
      /\ "mcp" \notin Interfaces => BusFits(m, file[m], "nothing")
  BY <1>1, RestedFile
<1>3. /\ new \in Record /\ new.id = file[m].id /\ new.name = m
      /\ new.assigned = t /\ new.status = "active"
  BY <1>0, <1>2 DEF Record, Statuses
<1>4. Begin(r, <<Do("write", new)>> \o FirstCopies(i, new) \o OnBus(i, "subscribe", new))
  BY <1>0, Zenon DEF Assign
<1>5. new.assigned # None
  BY <1>3, TeamsAssumption DEF Targets
<1>6. AboutMission(FirstCopies(i, new), m, new, "nothing")
  <2>1. AboutMission(WriteCopies(new), m, new, "nothing")
    BY <1>3, AboutCopies
  <2>2. AboutMission(<<DoAt("copy", new, new.assigned)>>, m, new, "nothing")
    <3>1. PICK s \in Step : /\ s = DoAt("copy", new, new.assigned)
                            /\ s.do = "copy" /\ s.rec = new
      <4>1. DoAt("copy", new, new.assigned) \in Step
        BY <1>3, DoIsStep
      <4>2. QED
        BY <4>1 DEF DoAt
    <3>2. QED
      BY <1>3, <3>1, SingleStep
  <2>3. QED
    BY <2>1, <2>2 DEF FirstCopies
<1>7. \A a \in ToSet(AssignedAgents(new)) :
        ~(copy[a] # None /\ copy[a].id = new.id)
  <2>1. AssignedAgents(new) \in Seq(Agents)
    BY <1>3, AssignedMayHold
  <2>2. ToSet(AssignedAgents(new)) \subseteq Agents
    BY <2>1, ToSetOfSeq
  <2>3. QED
    BY <1>2, <1>3, <2>2
<1>8. ASSUME "mcp" \notin Interfaces PROVE BusFits(m, new, "subscribe")'
  <2>1. Own(file[m]) = {}
    BY <1>1, <1>2, <1>8 DEF BusFits, Present
  <2>2. Own(new) = {}
    BY <1>2, <1>3, <2>1, SameRouting
  <2>3. subs' = subs
    BY <1>4 DEF Begin
  <2>4. BusFits(m, new, "subscribe")
    BY <1>3, <2>2, RecordIsSome DEF BusFits
  <2>5. QED
    BY <1>1, <1>3, <2>3, <2>4, BusFitsKept
<1>9. QED
  BY <1>1, <1>3, <1>4, <1>5, <1>6, <1>7, <1>8, RewriteIsTidy

\* The new status of a mission on disk.
LEMMA StatusOnDisk ==
    ASSUME IInv, Rested, NEW m \in Missions, Present(m),
           NEW status \in {"active", "paused", "completed"}
    PROVE  LET new == SetStatus(file[m], status) IN
           /\ new \in Record /\ new.name = m /\ new.id = file[m].id
           /\ new.status = status /\ new.assigned = file[m].assigned
<1>1. file[m] \in Record /\ file[m].name = m
  BY RestedFile
<1>2. QED
  BY <1>1 DEF SetStatus, Record, Statuses

LEMMA PauseIsTidy ==
    ASSUME IInv, Rested, NEW r \in Requests, NEW i \in Interfaces, NEW m \in Missions,
           Pause(r, i, m)
    PROVE  \E goal : Tidy(todo[r], goal)'
<1>0. PICK new : new = SetStatus(file[m], "paused")
  OBVIOUS
<1>1. /\ Present(m) /\ file[m].status = "active"
      /\ created' = created /\ silenced' = silenced
  BY DEF Pause
<1>2. /\ new \in Record /\ new.name = m /\ new.id = file[m].id
      /\ new.status = "paused" /\ new.assigned = file[m].assigned
  BY <1>0, <1>1, StatusOnDisk
<1>3. Begin(r, <<Do("write", new)>> \o WriteCopies(new) \o OnBus(i, "deactivate", new))
  BY <1>0, Zenon DEF Pause
<1>4. /\ AboutMission(WriteCopies(new), m, new, "nothing")
      /\ \A a \in ToSet(AssignedAgents(new)) : Refreshed(WriteCopies(new), a, new)
  BY <1>2, AboutCopies
<1>5. ASSUME "mcp" \notin Interfaces PROVE BusFits(m, new, "deactivate")'
  <2>1. file[m].name = m /\ BusFits(m, file[m], "nothing")
    BY <1>1, <1>5, RestedFile
  <2>2. /\ RoutedAtMostOnce(file[m])
        /\ ActiveSubs(m) # {} \/ Silenced(file[m])
    BY <1>1, <2>1 DEF BusFits, Present
  <2>3. RoutedAtMostOnce(new) /\ (Held(m) # {} \/ Silenced(new))
    BY <1>2, <2>1, <2>2, SameRouting DEF ActiveSubs
  <2>4. BusFits(m, new, "deactivate")
    BY <1>2, <2>3, RecordIsSome DEF BusFits
  <2>5. subs' = subs
    BY <1>3 DEF Begin
  <2>6. QED
    BY <1>1, <1>2, <2>4, <2>5, BusFitsKept
<1>6. QED
  BY <1>1, <1>2, <1>3, <1>4, <1>5, RewriteIsTidy

LEMMA ResumeIsTidy ==
    ASSUME IInv, Rested, NEW r \in Requests, NEW i \in Interfaces, NEW m \in Missions,
           Resume(r, i, m)
    PROVE  \E goal : Tidy(todo[r], goal)'
<1>0. PICK new : new = SetStatus(file[m], "active")
  OBVIOUS
<1>1. /\ Present(m) /\ file[m].status \in {"paused", "completed"}
      /\ created' = created /\ silenced' = silenced
  BY DEF Resume
<1>2. /\ new \in Record /\ new.name = m /\ new.id = file[m].id
      /\ new.status = "active" /\ new.assigned = file[m].assigned
  BY <1>0, <1>1, StatusOnDisk
<1>3. Begin(r, <<Do("write", new)>> \o WriteCopies(new) \o OnBus(i, "activate", new))
  BY <1>0, Zenon DEF Resume
<1>4. /\ AboutMission(WriteCopies(new), m, new, "nothing")
      /\ \A a \in ToSet(AssignedAgents(new)) : Refreshed(WriteCopies(new), a, new)
  BY <1>2, AboutCopies
<1>5. ASSUME "mcp" \notin Interfaces PROVE BusFits(m, new, "activate")'
  <2>1. file[m].name = m /\ BusFits(m, file[m], "nothing")
    BY <1>1, <1>5, RestedFile
  <2>2. RoutedAtMostOnce(file[m]) /\ (Held(m) # {} \/ Silenced(file[m]))
    BY <1>1, <2>1 DEF BusFits, Present
  <2>3. RoutedAtMostOnce(new) /\ (Held(m) # {} \/ Silenced(new))
    BY <1>2, <2>1, <2>2, SameRouting
  <2>4. BusFits(m, new, "activate")
    BY <1>2, <2>3, RecordIsSome DEF BusFits
  <2>5. subs' = subs
    BY <1>3 DEF Begin
  <2>6. QED
    BY <1>1, <1>2, <2>4, <2>5, BusFitsKept
<1>6. QED
  BY <1>1, <1>2, <1>3, <1>4, <1>5, RewriteIsTidy

LEMMA CompleteIsTidy ==
    ASSUME IInv, Rested, NEW r \in Requests, NEW i \in Interfaces, NEW m \in Missions,
           Complete(r, i, m)
    PROVE  \E goal : Tidy(todo[r], goal)'
<1>0. PICK new : new = SetStatus(file[m], "completed")
  OBVIOUS
<1>1. /\ Present(m) /\ created' = created
      /\ silenced' = silenced \cup {<<file[m].id, "completed">>}
  BY DEF Complete
<1>2. /\ new \in Record /\ new.name = m /\ new.id = file[m].id
      /\ new.status = "completed" /\ new.assigned = file[m].assigned
  BY <1>0, <1>1, StatusOnDisk
<1>3. Begin(r, <<Do("write", new)>> \o RemoveCopies(new) \o OnBus(i, "remove", new))
  BY <1>0, Zenon DEF Complete
<1>4. /\ AboutMission(RemoveCopies(new), m, new, "nothing")
      /\ \A a \in ToSet(AssignedAgents(new)) : Refreshed(RemoveCopies(new), a, new)
  BY <1>2, AboutCopies
<1>5. BusFits(m, new, "remove")'
  <2>1. Silenced(new)'
    BY <1>1, <1>2 DEF Silenced
  <2>2. QED
    BY <1>2, <2>1, RecordIsSome DEF BusFits
<1>6. QED
  BY <1>1, <1>2, <1>3, <1>4, <1>5, RewriteIsTidy

LEMMA TwoSteps ==
    ASSUME NEW a \in Step, NEW b \in Step
    PROVE  <<a>> \o <<b>> = <<a, b>>
<1>1. PICK s, t, u : s = <<a>> /\ t = <<b>> /\ u = <<a, b>>
  OBVIOUS
<1>2. /\ s \in Seq(Step) /\ Len(s) = 1 /\ s[1] = a
      /\ t \in Seq(Step) /\ Len(t) = 1 /\ t[1] = b
      /\ u \in Seq(Step) /\ Len(u) = 2 /\ u[1] = a /\ u[2] = b
  BY <1>1
<1>3. /\ s \o t \in Seq(Step) /\ Len(s \o t) = Len(s) + Len(t)
      /\ \A i \in 1..Len(s) + Len(t) :
           (s \o t)[i] = IF i <= Len(s) THEN s[i] ELSE t[i - Len(s)]
  BY <1>2, ConcatProperties
<1>4. PICK c \in Seq(Step) : c = s \o t
  BY <1>3
<1>5. Len(c) = 2 /\ c[1] = a /\ c[2] = b
  BY <1>2, <1>3, <1>4
<1>6. \A i \in 1..Len(c) : i = 1 \/ i = 2
  BY <1>5
<1>7. c = u
  BY <1>2, <1>5, <1>6, SeqEqual
<1>8. QED
  BY <1>1, <1>4, <1>7

LEMMA DoIsOneStep ==
    ASSUME NEW what \in {"write", "log", "unlink"}, NEW rec \in Record
    PROVE  \E s \in Step : s = Do(what, rec) /\ s.do = what /\ s.rec = rec
<1>1. Do(what, rec) \in Step
  BY DoIsStep, TeamsAssumption
<1>2. QED
  BY <1>1 DEF Do

LEMMA UpdateIsTidy ==
    ASSUME IInv, Rested, NEW r \in Requests, NEW m \in Missions, Update(r, m)
    PROVE  \E goal : Tidy(todo[r], goal)'
<1>0. PICK old, new : old = file[m] /\ new = Updated(old)
  OBVIOUS
<1>1. /\ Present(m) /\ old.version < MaxVersion
      /\ created' = created /\ silenced' = silenced
      /\ Begin(r, <<Do("log", old), Do("write", new)>> \o WriteCopies(new))
  BY <1>0 DEF Update
<1>2. /\ old \in Record /\ old.name = m /\ old.id <= created /\ created \in Nat
      /\ old.status = "unassigned" => old.assigned = None
      /\ \A n \in Missions : file[n] # None /\ file[n].id = old.id => n = m
      /\ old.assigned = None =>
           \A a \in Agents : copy[a] # None => copy[a].id # old.id
      /\ "mcp" \notin Interfaces => BusFits(m, old, "nothing")
  BY <1>0, <1>1, RestedFile
<1>3. /\ new \in Record /\ new.name = m /\ new.id = old.id
      /\ new.status = old.status /\ new.assigned = old.assigned
  <2>1. old.version \in Nat /\ old.version >= 1 /\ old.version + 1 \in 1..MaxVersion
    BY <1>1, <1>2, MissionBoundsAssumption DEF Record
  <2>2. QED
    BY <1>0, <1>2, <2>1 DEF Updated, Record
<1>4a. PICK log \in Step : log = Do("log", old) /\ log.do = "log" /\ log.rec = old
  BY <1>2, DoIsOneStep
<1>4b. PICK write \in Step : write = Do("write", new) /\ write.do = "write" /\ write.rec = new
  BY <1>3, DoIsOneStep
<1>5. PICK a, b, c : a = <<log>> /\ b = <<write>> /\ c = WriteCopies(new)
  OBVIOUS
<1>6. AboutMission(a, m, new, "nothing")
  BY <1>2, <1>4a, <1>5, SingleStep
<1>7. AboutMission(b, m, new, "nothing") /\ HasRewrite(b, m)
  BY <1>3, <1>4b, <1>5, SingleStep DEF Leaves
<1>8. /\ AboutMission(c, m, new, "nothing")
      /\ \A x \in ToSet(AssignedAgents(new)) : Refreshed(c, x, new)
  BY <1>3, <1>5, AboutCopies
<1>9. AboutMission(a \o b, m, new, "nothing")
  BY <1>6, <1>7, AboutConcat
<1>10. AboutMission((a \o b) \o c, m, new, "nothing")
  BY <1>8, <1>9, AboutConcat
<1>11. /\ HasRewrite((a \o b) \o c, m)
       /\ \A x \in ToSet(AssignedAgents(new)) : Refreshed((a \o b) \o c, x, new)
  <2>1. a \in Seq(Step) /\ b \in Seq(Step) /\ c \in Seq(Step) /\ a \o b \in Seq(Step)
    BY <1>6, <1>7, <1>8, <1>9 DEF AboutMission
  <2>2. HasRewrite(a \o b, m)
    BY <1>7, <2>1, PartsOccur
  <2>3. QED
    BY <1>8, <2>1, <2>2, PartsOccur
<1>12. PICK steps : steps = (a \o b) \o c
  OBVIOUS
<1>13. Begin(r, steps)
  BY <1>1, <1>4a, <1>4b, <1>5, <1>12, TwoSteps
<1>14. ASSUME "mcp" \notin Interfaces PROVE BusFits(m, new, "nothing")'
  <2>1. /\ RoutedAtMostOnce(new) <=> RoutedAtMostOnce(old)
        /\ Own(new) = Own(old) /\ (Silenced(new) <=> Silenced(old))
    BY <1>2, <1>3, SameRouting
  <2>2. old # None /\ new # None
    BY <1>2, <1>3, RecordIsSome
  <2>3. BusFits(m, new, "nothing")
    BY <1>2, <1>3, <1>14, <2>1, <2>2 DEF BusFits
  <2>4. subs' = subs
    BY <1>1 DEF Begin
  <2>5. QED
    BY <1>1, <1>3, <2>3, <2>4, BusFitsKept
<1>15. AboutMission(steps, m, new, "nothing") /\ HasRewrite(steps, m)
  BY <1>10, <1>11, <1>12
<1>16. \A x \in ToSet(AssignedAgents(new)) : Refreshed(steps, x, new)
  BY <1>11, <1>12
<1>17. created' \in Nat /\ created <= created' /\ new.id <= created'
  BY <1>1, <1>2, <1>3
<1>18. QED
  BY <1>1, <1>2, <1>3, <1>13, <1>14, <1>15, <1>16, <1>17, BeginIsTidy

LEMMA CreateIsTidy ==
    ASSUME IInv, Rested, NEW r \in Requests, NEW m \in Missions, Create(r, m)
    PROVE  \E goal : Tidy(todo[r], goal)'
<1>0. PICK new : new = NewRecord(m)
  OBVIOUS
<1>1. /\ ~Present(m) /\ created < MaxCreates
      /\ created' = created + 1 /\ silenced' = silenced
      /\ Begin(r, <<Do("write", new), Do("log", new)>>)
  BY <1>0 DEF Create
<1>2. created \in Nat /\ created + 1 \in Ids /\ 1 \in 1..MaxVersion
  BY <1>1, MissionBoundsAssumption DEF IInv, FilesTypeOK, Ids
<1>3. /\ new \in Record /\ new.name = m /\ new.id = created + 1
      /\ new.status = "unassigned" /\ new.assigned = None
  BY <1>0, <1>2 DEF NewRecord, Record, Statuses
<1>4a. PICK write \in Step : write = Do("write", new) /\ write.do = "write" /\ write.rec = new
  BY <1>3, DoIsOneStep
<1>4b. PICK log \in Step : log = Do("log", new) /\ log.do = "log" /\ log.rec = new
  BY <1>3, DoIsOneStep
<1>5. PICK a, b : a = <<write>> /\ b = <<log>>
  OBVIOUS
<1>6. AboutMission(a, m, new, "nothing") /\ HasRewrite(a, m)
  BY <1>3, <1>4a, <1>5, SingleStep DEF Leaves
<1>7. AboutMission(b, m, new, "nothing")
  BY <1>3, <1>4b, <1>5, SingleStep
<1>8. PICK steps : steps = a \o b
  OBVIOUS
<1>9. AboutMission(steps, m, new, "nothing")
  BY <1>6, <1>7, <1>8, AboutConcat
<1>10. HasRewrite(steps, m)
  <2>1. a \in Seq(Step) /\ b \in Seq(Step)
    BY <1>6, <1>7 DEF AboutMission
  <2>2. QED
    BY <1>6, <1>8, <2>1, PartsOccur
<1>11. Begin(r, steps)
  BY <1>1, <1>4a, <1>4b, <1>5, <1>8, TwoSteps
<1>12. /\ \A n \in Missions : file[n] # None => file[n].id # new.id
       /\ \A x \in Agents : copy[x] # None => copy[x].id # new.id
  <2>1. \A n \in Missions : file[n] # None => file[n].id <= created
    BY DEF Rested, GoodGoal
  <2>2. \A x \in Agents : copy[x] # None => copy[x].id <= created
    BY DEF Rested, GoodGoal
  <2>3. ~(new.id <= created)
    BY <1>2, <1>3
  <2>4. QED
    BY <2>1, <2>2, <2>3
<1>13. ToSet(AssignedAgents(new)) = {}
  <2>1. AssignedAgents(new) = <<>>
    BY <1>3, TeamsAssumption DEF AssignedAgents
  <2>2. DOMAIN <<>> = {}
    OBVIOUS
  <2>3. QED
    BY <2>1, <2>2 DEF ToSet
<1>14. ASSUME "mcp" \notin Interfaces PROVE BusFits(m, new, "nothing")'
  <2>1. BusFits(m, None, "nothing")
    BY <1>1, <1>14 DEF Rested, Present
  <2>2. ActiveSubs(m) = {}
    BY <2>1 DEF BusFits
  <2>3. Own(new) = {}
    <3>1. ASSUME NEW s \in Own(new) PROVE FALSE
      <4>1. s \in Subscription /\ subs[s] > 0 /\ s.id = created + 1
        BY <1>3, <3>1 DEF Own, Held
      <4>2. s.id <= created
        BY <1>14, <4>1 DEF Rested
      <4>3. QED
        BY <1>2, <4>1, <4>2
    <3>2. QED
      BY <3>1
  <2>4. BusFits(m, new, "nothing")
    BY <1>3, <2>2, <2>3 DEF BusFits, RoutedAtMostOnce
  <2>5. subs' = subs
    BY <1>11 DEF Begin
  <2>6. QED
    BY <1>1, <1>3, <2>4, <2>5, BusFitsKept
<1>15. created' \in Nat /\ created <= created' /\ new.id <= created'
  BY <1>1, <1>2, <1>3
<1>16. QED
  BY <1>1, <1>3, <1>9, <1>10, <1>11, <1>12, <1>13, <1>14, <1>15, BeginIsTidy

LEMMA DeleteIsTidy ==
    ASSUME IInv, Rested, NEW r \in Requests, NEW m \in Missions, Delete(r, m)
    PROVE  \E goal : Tidy(todo[r], goal)'
<1>0. PICK old : old = file[m]
  OBVIOUS
<1>1. /\ Present(m) /\ old.status # "active"
      /\ created' = created /\ silenced' = silenced
      /\ Begin(r, RemoveCopies(old) \o <<Do("unlink", old)>>)
  BY <1>0 DEF Delete
<1>2. /\ old \in Record /\ old.name = m /\ created \in Nat
      /\ "mcp" \notin Interfaces => BusFits(m, old, "nothing")
  BY <1>0, <1>1, RestedFile
<1>3. PICK s \in Step : s = Do("unlink", old) /\ s.do = "unlink" /\ s.rec = old
  BY <1>2, DoIsStep, TeamsAssumption DEF Do
<1>4. PICK a, b, steps : a = RemoveCopies(old) /\ b = <<s>> /\ steps = a \o b
  OBVIOUS
<1>5. AboutMission(a, m, None, "nothing")
  BY <1>2, <1>4, AboutCopies
<1>6. AboutMission(b, m, None, "nothing") /\ HasRewrite(b, m)
  BY <1>2, <1>3, <1>4, SingleStep DEF Leaves
<1>7. AboutMission(steps, m, None, "nothing")
  BY <1>4, <1>5, <1>6, AboutConcat
<1>8. HasRewrite(steps, m)
  <2>1. a \in Seq(Step) /\ b \in Seq(Step)
    BY <1>5, <1>6 DEF AboutMission
  <2>2. QED
    BY <1>4, <1>6, <2>1, PartsOccur
<1>9. Begin(r, steps)
  BY <1>1, <1>3, <1>4
<1>10. ASSUME "mcp" \notin Interfaces PROVE BusFits(m, None, "nothing")'
  <2>1. ActiveSubs(m) = {}
    BY <1>1, <1>2, <1>10 DEF BusFits
  <2>2. BusFits(m, None, "nothing")
    BY <2>1 DEF BusFits
  <2>3. subs' = subs
    BY <1>9 DEF Begin
  <2>4. QED
    BY <1>1, <2>2, <2>3, BusFitsKept
<1>11. created' \in Nat /\ created <= created'
  BY <1>1, <1>2
<1>12. QED
  BY <1>1, <1>7, <1>8, <1>9, <1>10, <1>11, BeginIsTidy

\* The steps of a failover, three for each mission, and no mission twice.
LEMMA FailoverShape ==
    ASSUME IInv, NEW r \in Requests, NEW a \in Agents, Failover(r, a)
    PROVE  \E n \in Nat : \E list \in [1..n -> Covered(a)], steps \in Seq(Step) :
             /\ \A j, k \in 1..n : list[j] = list[k] => j = k
             /\ Begin(r, steps) /\ Len(steps) = 3 * n
             /\ \A k \in 1..(3 * n) : \E q \in 1..n, i \in 1..3 :
                  /\ k = 3 * (q - 1) + i
                  /\ steps[k] = FailoverSteps(file[list[q]])[i]
<1>1. PICK list \in Listings(Covered(a)) :
        Begin(r, [k \in 1..(3 * Len(list)) |->
                    LET j == (k - 1) \div 3
                    IN FailoverSteps(file[list[j + 1]])[k - 3 * j]])
  BY DEF Failover
<1>2. PICK n \in Nat : /\ list \in [1..n -> Covered(a)] /\ Len(list) = n
                       /\ \A j, k \in 1..n : list[j] = list[k] => j = k
  <2> DEFINE c == Cardinality(Covered(a))
  <2>1. list \in [1..c -> Covered(a)] /\ \A j, k \in 1..c : list[j] = list[k] => j = k
    BY DEF Listings
  <2>2. c \in Nat
    BY MissionsFinite, FS_Subset, FS_CardinalityType DEF Covered
  <2>3. QED
    BY <2>1, <2>2, IsASeq
<1>3. PICK steps : steps = [k \in 1..(3 * n) |->
                              LET j == (k - 1) \div 3
                              IN FailoverSteps(file[list[j + 1]])[k - 3 * j]]
  OBVIOUS
<1>4. Begin(r, steps)
  BY <1>1, <1>2, <1>3
<1>5. ASSUME NEW k \in 1..(3 * n)
      PROVE  \E q \in 1..n, i \in 1..3 :
               /\ k = 3 * (q - 1) + i
               /\ steps[k] = FailoverSteps(file[list[q]])[i]
               /\ steps[k] \in Step
  <2>1. PICK j : j = (k - 1) \div 3
    OBVIOUS
  <2>2. j + 1 \in 1..n /\ k - 3 * j \in 1..3
    BY <2>1
  <2>3. k = 3 * ((j + 1) - 1) + (k - 3 * j)
    <3>1. k \in Int /\ j \in Int
      BY <2>1
    <3>2. \A x, y \in Int : x = 3 * ((y + 1) - 1) + (x - 3 * y)
      OBVIOUS
    <3>3. QED
      BY <3>1, <3>2
  <2>4. list[j + 1] \in Covered(a)
    BY <1>2, <2>2
  <2>5. steps[k] = FailoverSteps(file[list[j + 1]])[k - 3 * j]
    BY <1>3, <2>1
  <2>6. steps[k] \in Step
    BY <2>2, <2>4, <2>5, FailoverStep
  <2>7. QED
    BY <2>2, <2>3, <2>5, <2>6
<1>6. steps \in Seq(Step) /\ Len(steps) = 3 * n
  <2>1. 3 * n \in Nat
    OBVIOUS
  <2>2. \A k \in 1..(3 * n) : steps[k] \in Step
    BY <1>5
  <2>3. steps = [k \in 1..(3 * n) |-> steps[k]]
    BY <1>3
  <2>4. [k \in 1..(3 * n) |-> steps[k]] \in Seq(Step)
    BY <2>1, <2>2, IsASeq
  <2>5. steps \in Seq(Step)
    BY <2>3, <2>4
  <2>6. DOMAIN steps = 1..(3 * n) /\ DOMAIN steps = 1..Len(steps) /\ Len(steps) \in Nat
    BY <1>3, <2>5, LenProperties
  <2>7. QED
    BY <2>1, <2>5, <2>6
<1>7. \A k \in 1..(3 * n) : \E q \in 1..n, i \in 1..3 :
        /\ k = 3 * (q - 1) + i
        /\ steps[k] = FailoverSteps(file[list[q]])[i]
  BY <1>5
<1>8. \A j, k \in 1..n : list[j] = list[k] => j = k
  BY <1>2
<1>9. list \in [1..n -> Covered(a)] /\ steps \in Seq(Step)
  BY <1>2, <1>6
<1>10. WITNESS n \in Nat
<1>11. QED
  BY <1>4, <1>6, <1>7, <1>8, <1>9, ZenonT(60)

\* A failover leaves the files as they are: what the bus holds of a mission it
\* covers is removed first and then routed to the coverage agent.
LEMMA FailoverIsTidy ==
    ASSUME IInv, Rested, NEW r \in Requests, NEW a \in Agents, Failover(r, a)
    PROVE  \E goal : Tidy(todo[r], goal)'
<1>0. PICK n \in Nat : \E list \in [1..n -> Covered(a)], steps \in Seq(Step) :
             /\ \A j, k \in 1..n : list[j] = list[k] => j = k
             /\ Begin(r, steps) /\ Len(steps) = 3 * n
             /\ \A k \in 1..(3 * n) : \E q \in 1..n, i \in 1..3 :
                  /\ k = 3 * (q - 1) + i
                  /\ steps[k] = FailoverSteps(file[list[q]])[i]
  BY FailoverShape
<1>1. PICK list \in [1..n -> Covered(a)], steps \in Seq(Step) :
             /\ \A j, k \in 1..n : list[j] = list[k] => j = k
             /\ Begin(r, steps) /\ Len(steps) = 3 * n
             /\ \A k \in 1..(3 * n) : \E q \in 1..n, i \in 1..3 :
                  /\ k = 3 * (q - 1) + i
                  /\ steps[k] = FailoverSteps(file[list[q]])[i]
  BY <1>0
<1>2. PICK goal : goal = file
  OBVIOUS
<1>3. /\ file' = file /\ copy' = copy /\ subs' = subs /\ todo'[r] = steps
      /\ created' = created /\ silenced' = silenced
  BY <1>1 DEF Begin, IInv, FilesTypeOK, Failover
<1>4. GoodGoal(goal) /\ CopiesFollow(<<>>, goal)
  BY <1>2 DEF Rested
<1>5. ASSUME NEW m \in Covered(a)
      PROVE  /\ m \in Missions /\ goal[m] \in Record /\ goal[m].name = m
             /\ goal[m].status = "active" /\ goal[m].assigned \in Teams
  <2>1. m \in Missions /\ Present(m) /\ goal[m].status = "active" /\ goal[m].assigned \in Teams
    BY <1>2 DEF Covered
  <2>2. QED
    BY <1>2, <2>1, RestedFile
<1>6. ASSUME NEW k \in 1..Len(steps)
      PROVE  \E q \in 1..n, i \in 1..3 :
               /\ k = 3 * (q - 1) + i /\ list[q] \in Covered(a)
               /\ steps[k].rec = goal[list[q]] /\ steps[k].rec.name = list[q]
               /\ i = 1 => steps[k].do = "copy"
               /\ i = 2 => steps[k].do = "remove"
               /\ i = 3 => /\ steps[k].do = "reroute"
                           /\ steps[k].at = Coverage[goal[list[q]].assigned]
  <2>1. PICK q \in 1..n, i \in 1..3 : /\ k = 3 * (q - 1) + i
                                      /\ steps[k] = FailoverSteps(goal[list[q]])[i]
    <3>1. k \in 1..(3 * n)
      BY <1>1
    <3>2. QED
      BY <1>1, <1>2, <3>1, ZenonT(60)
  <2>2. list[q] \in Covered(a)
    BY <1>1
  <2>3. PICK rec : rec = goal[list[q]] /\ rec.name = list[q]
    BY <1>5, <2>2
  <2>4. /\ FailoverSteps(rec)[1] = DoAt("copy", rec, Coverage[rec.assigned])
        /\ FailoverSteps(rec)[2] = Do("remove", rec)
        /\ FailoverSteps(rec)[3] = DoAt("reroute", rec, Coverage[rec.assigned])
    BY DEF FailoverSteps
  <2>5. CASE i = 1
    BY <2>1, <2>2, <2>3, <2>4, <2>5 DEF DoAt
  <2>6. CASE i = 2
    BY <2>1, <2>2, <2>3, <2>4, <2>6 DEF Do
  <2>7. CASE i = 3
    BY <2>1, <2>2, <2>3, <2>4, <2>7 DEF DoAt
  <2>8. QED
    BY <2>5, <2>6, <2>7
<1>7. ASSUME NEW k \in 1..Len(steps)
      PROVE  /\ steps[k].do \in {"copy", "remove", "reroute"}
             /\ steps[k].rec.name \in Covered(a)
             /\ steps[k].rec = goal[steps[k].rec.name]
  BY <1>6
<1>8. FilesFollow(steps, goal)'
  <2>1. ASSUME NEW k \in 1..Len(steps), NEW m PROVE ~Rewrites(steps[k], m)
    BY <1>7 DEF Rewrites
  <2>2. QED
    BY <1>2, <1>3, <1>7, <2>1 DEF FilesFollow
<1>9. CopiesFollow(steps, goal)'
  <2>1. ASSUME NEW m \in Missions, goal[m] # None, NEW x \in ToSet(AssignedAgents(goal[m])),
               copy[x] # None, copy[x].id = goal[m].id
        PROVE  copy[x] = goal[m]
    BY <1>4, <2>1 DEF CopiesFollow, Refreshed
  <2>2. QED
    BY <1>3, <1>7, <2>1, CopiesFollowNext
<1>10. ASSUME NEW j \in 1..Len(steps), NEW k \in 1..Len(steps), NEW m \in Missions,
              j < k, OnBusOf(steps[j], m), OnBusOf(steps[k], m)
       PROVE  steps[j].do = "remove" /\ steps[k].do = "reroute"
  <2>1. PICK q \in 1..n, i \in 1..3 :
          /\ j = 3 * (q - 1) + i /\ list[q] = m
          /\ i # 1 /\ (i = 2 => steps[j].do = "remove")
    <3>1. steps[j].do # "copy" /\ steps[j].rec.name = m
      BY <1>10 DEF OnBusOf, BusSteps
    <3>2. QED
      BY <1>6, <3>1
  <2>2. PICK p \in 1..n, l \in 1..3 :
          /\ k = 3 * (p - 1) + l /\ list[p] = m
          /\ l # 1 /\ (l = 3 => steps[k].do = "reroute")
    <3>1. steps[k].do # "copy" /\ steps[k].rec.name = m
      BY <1>10 DEF OnBusOf, BusSteps
    <3>2. QED
      BY <1>6, <3>1
  <2>3. p = q
    BY <1>1, <2>1, <2>2
  <2>4. i = 2 /\ l = 3
    BY <1>10, <2>1, <2>2, <2>3
  <2>5. QED
    BY <2>1, <2>2, <2>4
<1>11. ASSUME NEW k \in 1..Len(steps), steps[k].do = "remove"
       PROVE  /\ k + 1 \in 1..Len(steps) /\ steps[k + 1].do = "reroute"
              /\ steps[k + 1].rec.name = steps[k].rec.name
  <2>1. PICK q \in 1..n, i \in 1..3 :
          /\ k = 3 * (q - 1) + i /\ steps[k].rec.name = list[q] /\ i = 2
    BY <1>6, <1>11
  <2>2. k + 1 = 3 * (q - 1) + 3 /\ k + 1 \in 1..Len(steps)
    BY <1>1, <2>1
  <2>3. PICK p \in 1..n, l \in 1..3 :
          /\ k + 1 = 3 * (p - 1) + l /\ steps[k + 1].rec.name = list[p]
          /\ l = 3 => steps[k + 1].do = "reroute"
    BY <1>6, <2>2
  <2>4. l = 3 /\ p = q
    BY <2>2, <2>3
  <2>5. QED
    BY <2>1, <2>2, <2>3, <2>4
<1>12. ASSUME NEW k \in 1..Len(steps), steps[k].do = "reroute"
       PROVE  /\ k - 1 \in 1..Len(steps) /\ steps[k - 1].do = "remove"
              /\ steps[k - 1].rec.name = steps[k].rec.name
              /\ steps[k].rec.status = "active" /\ steps[k].rec.assigned \in Teams
              /\ steps[k].at = Coverage[steps[k].rec.assigned]
  <2>1. PICK q \in 1..n, i \in 1..3 :
          /\ k = 3 * (q - 1) + i /\ steps[k].rec.name = list[q] /\ i = 3
          /\ list[q] \in Covered(a) /\ steps[k].rec = goal[list[q]]
          /\ steps[k].at = Coverage[goal[list[q]].assigned]
    <3>1. PICK q \in 1..n, i \in 1..3 :
            /\ k = 3 * (q - 1) + i /\ list[q] \in Covered(a)
            /\ steps[k].rec = goal[list[q]] /\ steps[k].rec.name = list[q]
            /\ i = 1 => steps[k].do = "copy"
            /\ i = 2 => steps[k].do = "remove"
            /\ i = 3 => /\ steps[k].do = "reroute"
                        /\ steps[k].at = Coverage[goal[list[q]].assigned]
      BY <1>6
    <3>2. i = 3
      BY <1>12, <3>1
    <3>3. QED
      BY <3>1, <3>2
  <2>2. k - 1 = 3 * (q - 1) + 2 /\ k - 1 \in 1..Len(steps)
    BY <1>1, <2>1
  <2>3. PICK p \in 1..n, l \in 1..3 :
          /\ k - 1 = 3 * (p - 1) + l /\ steps[k - 1].rec.name = list[p]
          /\ l = 2 => steps[k - 1].do = "remove"
    BY <1>6, <2>2
  <2>4. l = 2 /\ p = q
    BY <2>2, <2>3
  <2>5. QED
    BY <1>5, <2>1, <2>2, <2>3, <2>4
<1>13. Len(steps) \in Nat
  BY <1>1, LenProperties
<1>14. BusIsToldOnce(steps, goal)
  <2>1. ASSUME NEW k \in 1..Len(steps), steps[k].do = "remove"
        PROVE  \E j \in (k + 1)..Len(steps) :
                 steps[j].do = "reroute" /\ steps[j].rec.name = steps[k].rec.name
    <3>1. k + 1 \in (k + 1)..Len(steps)
      BY <1>11, <1>13, <2>1
    <3>2. QED
      BY <1>11, <2>1, <3>1
  <2>2. ASSUME NEW k \in 1..Len(steps), steps[k].do = "reroute"
        PROVE  /\ steps[k].rec = goal[steps[k].rec.name]
               /\ steps[k].rec.status = "active" /\ steps[k].rec.assigned \in Teams
               /\ steps[k].at = Coverage[steps[k].rec.assigned]
    BY <1>7, <1>12, <2>2
  <2>3. QED
    BY <1>10, <2>1, <2>2 DEF BusIsToldOnce
<1>15. ASSUME "mcp" \notin Interfaces, NEW m \in Missions, NEW what, Due(steps, m, what)
       PROVE  BusFits(m, goal[m], what)
  <2>1. CASE what = "nothing"
    BY <1>2, <1>15, <2>1 DEF Rested
  <2>2. CASE \E k \in 1..Len(steps) : /\ OnBusOf(steps[k], m) /\ steps[k].do = what
                                      /\ \A j \in 1..(k - 1) : ~OnBusOf(steps[j], m)
    <3>1. PICK k \in 1..Len(steps) : /\ OnBusOf(steps[k], m) /\ steps[k].do = what
                                     /\ \A j \in 1..(k - 1) : ~OnBusOf(steps[j], m)
      BY <2>2
    <3>2. m \in Covered(a)
      BY <1>7, <3>1 DEF OnBusOf
    <3>3. what # "reroute"
      <4>1. ASSUME what = "reroute" PROVE FALSE
        <5>1. k - 1 \in 1..(k - 1) /\ steps[k - 1].do = "remove" /\ steps[k - 1].rec.name = m
          BY <1>12, <3>1, <4>1 DEF OnBusOf
        <5>2. QED
          BY <3>1, <5>1 DEF OnBusOf, BusSteps
      <4>2. QED
        BY <4>1
    <3>4. what = "remove"
      BY <1>7, <3>1, <3>3 DEF OnBusOf, BusSteps
    <3>5. QED
      BY <1>5, <3>2, <3>4, RecordIsSome DEF BusFits
  <2>3. QED
    BY <1>15, <2>1, <2>2 DEF Due
<1>16. ASSUME "mcp" \notin Interfaces PROVE BusFollows(steps, goal)'
  <2>1. BusIsToldOnce(steps, goal)'
    BY <1>14 DEF BusIsToldOnce, OnBusOf
  <2>2. ASSUME NEW m \in Missions, NEW what \in BusSteps \cup {"nothing"},
               Due(steps, m, what)
        PROVE  BusFits(m, goal[m], what)'
    <3>1. BusFits(m, goal[m], what) /\ (goal[m] # None => goal[m].name = m)
      BY <1>4, <1>15, <1>16, <2>2 DEF GoodGoal
    <3>2. QED
      BY <1>3, <3>1, BusFitsKept
  <2>3. \A s \in Subscription : subs[s] > 0 => s.id <= created
    BY <1>16 DEF Rested
  <2>4. QED
    BY <1>3, <2>1, <2>2, <2>3 DEF BusFollows, Due, OnBusOf
<1>17. GoodGoal(goal)'
  BY <1>3, <1>4 DEF GoodGoal
<1>18. Tidy(steps, goal)'
  BY <1>8, <1>9, <1>16, <1>17 DEF Tidy
<1>19. Tidy(todo[r], goal)'
  BY <1>3, <1>18
<1>20. QED
  BY <1>19

-----------------------------------------------------------------------------
(* The gateway starts again *)

LEMMA RestartIsTidy ==
    ASSUME IInv, Rested, NEW r \in Requests, Restart
    PROVE  \E goal : Tidy(todo[r], goal)'
<1>1. PICK goal : goal = file
  OBVIOUS
<1>2. /\ file' = file /\ copy' = copy /\ created' = created /\ todo'[r] = <<>>
  BY DEF Restart
<1>3. GoodGoal(goal) /\ CopiesFollow(<<>>, goal)
  BY <1>1 DEF Rested
<1>4. GoodGoal(goal)'
  BY <1>2, <1>3 DEF GoodGoal
<1>5. FilesFollow(<<>>, goal)'
  BY <1>1, <1>2 DEF FilesFollow
<1>6. CopiesFollow(<<>>, goal)'
  BY <1>2, <1>3, CopiesFollowNext DEF CopiesFollow
<1>7. ASSUME NEW m \in Missions, goal[m] # None
      PROVE  /\ goal[m] \in Record /\ goal[m].name = m /\ goal[m].id <= created
             /\ goal[m].assigned \in Targets \cup {None}
             /\ \A n \in Missions : Present(n) /\ file[n].id = goal[m].id => n = m
  BY <1>1, <1>3, <1>7 DEF GoodGoal, Record, Present
<1> DEFINE Sub(m) == MissionSubscription(goal[m], goal[m].assigned)
           Routed(m) == m \in Missions /\ goal[m] # None /\ goal[m].status = "active"
<1>8. ASSUME NEW m, Routed(m)
      PROVE  /\ Sub(m) \in Subscription /\ Sub(m).mission = m /\ Sub(m).id = goal[m].id
             /\ Sub(m).target = goal[m].assigned /\ Sub(m).active
  BY <1>7, <1>8, SubscriptionType
<1>9. ASSUME NEW s \in Subscription
      PROVE  /\ subs'[s] > 0 => (\E m : Routed(m) /\ s = Sub(m)) /\ subs'[s] = 1
             /\ (\E m : Routed(m) /\ s = Sub(m)) => subs'[s] = 1
  BY <1>1 DEF Restart, Present
<1> HIDE DEF Sub
<1>10. ASSUME NEW s \in Subscription, subs'[s] > 0 PROVE s.id <= created
  <2>1. PICK m : Routed(m) /\ s = Sub(m)
    BY <1>9, <1>10
  <2>2. QED
    BY <1>7, <1>8, <2>1
<1>11. ASSUME NEW m \in Missions, NEW s \in Held(m)'
       PROVE  Routed(m) /\ s = Sub(m) /\ subs'[s] = 1
  <2>1. s \in Subscription /\ s.mission = m /\ subs'[s] > 0
    BY <1>11 DEF Held
  <2>2. PICK n : Routed(n) /\ s = Sub(n)
    BY <1>9, <2>1
  <2>3. n = m
    BY <1>8, <2>1, <2>2
  <2>4. QED
    BY <1>9, <2>1, <2>2, <2>3
<1>12. ASSUME NEW m \in Missions, Routed(m) PROVE Sub(m) \in ActiveSubs(m)'
  <2>1. subs'[Sub(m)] = 1
    BY <1>8, <1>9, <1>12
  <2>2. QED
    BY <1>8, <1>12, <2>1 DEF ActiveSubs, Held
<1>13. ASSUME "mcp" \notin Interfaces, NEW m \in Missions
       PROVE  BusFits(m, goal[m], "nothing")'
  <2>1. ASSUME ActiveSubs(m)' # {} PROVE goal[m] # None /\ goal[m].status = "active"
    BY <1>11, <2>1 DEF ActiveSubs
  <2>2. CASE goal[m] = None
    BY <2>1, <2>2 DEF BusFits
  <2>3. CASE goal[m] # None
    <3>1. RoutedAtMostOnce(goal[m])'
      <4>1. ASSUME NEW s \in Own(goal[m])'
            PROVE  s = Sub(m) /\ subs'[s] = 1 /\ s.target = goal[m].assigned
        <5>1. s \in Held(m)'
          BY <1>7, <2>3, <4>1 DEF Own
        <5>2. QED
          BY <1>8, <1>11, <5>1
      <4>2. QED
        BY <4>1 DEF RoutedAtMostOnce
    <3>2. goal[m].status # "active" => Own(goal[m])' = {}
      <4>1. ASSUME NEW s \in Own(goal[m])' PROVE goal[m].status = "active"
        <5>1. s \in Held(m)'
          BY <1>7, <2>3, <4>1 DEF Own
        <5>2. QED
          BY <1>11, <5>1
      <4>2. QED
        BY <4>1
    <3>3. goal[m].status = "active" => ActiveSubs(m)' # {}
      BY <1>12, <2>3
    <3>4. goal[m].status = "paused" => Silenced(goal[m])'
      <4>1. ASSUME goal[m].status = "paused"
            PROVE  <<goal[m].id, "restarted">> \in silenced'
        BY <1>1, <2>3, <4>1 DEF Restart, Present
      <4>2. QED
        BY <4>1 DEF Silenced
    <3>5. goal[m].status = "completed" => Silenced(goal[m])'
      <4>1. ASSUME goal[m].status = "completed" PROVE Silenced(goal[m])'
        <5>1. Silenced(goal[m])
          BY <1>1, <1>13, <2>3, <4>1 DEF Rested, BusFits
        <5>2. PICK why \in {"completed", "restarted"} : <<goal[m].id, why>> \in silenced
          BY <5>1 DEF Silenced
        <5>3. \A n \in Missions : Present(n) /\ file[n].id = <<goal[m].id, why>>[1]
                                    => file[n].status # "active"
          BY <1>1, <1>7, <2>3, <4>1
        <5>4. <<goal[m].id, why>> \in silenced'
          BY <5>2, <5>3 DEF Restart
        <5>5. QED
          BY <5>4 DEF Silenced
      <4>2. QED
        BY <4>1
    <3>6. QED
      BY <2>1, <2>3, <3>1, <3>2, <3>3, <3>4, <3>5 DEF BusFits
  <2>4. QED
    BY <2>2, <2>3
<1>14. ASSUME "mcp" \notin Interfaces PROVE BusFollows(<<>>, goal)'
  <2>1. ASSUME NEW m, NEW what, Due(<<>>, m, what) PROVE what = "nothing"
    BY <2>1 DEF Due
  <2>2. BusIsToldOnce(<<>>, goal)'
    BY DEF BusIsToldOnce
  <2>3. QED
    BY <1>2, <1>10, <1>13, <1>14, <2>1, <2>2 DEF BusFollows, Due, OnBusOf
<1>15. Tidy(<<>>, goal)'
  BY <1>4, <1>5, <1>6, <1>14 DEF Tidy
<1>16. Tidy(todo[r], goal)'
  BY <1>2, <1>15
<1>17. QED
  BY <1>16

-----------------------------------------------------------------------------
(* The invariant *)

OneAtATime == \E r : Requests = {r}

\* Every request, from the state it is in, leads to files that the copies and
\* the bus agree with.
SerialInv ==
    /\ IInv /\ BusTypeOK
    /\ \A r \in Requests :
         \E goal \in [Missions -> Record \cup {None}] : Tidy(todo[r], goal)

LEMMA SerialInit ==
    ASSUME Init
    PROVE  SerialInv
<1>1. IInv /\ BusTypeOK
  BY InitEstablishes DEF Init, BusTypeOK
<1>2. PICK goal : goal = file
  OBVIOUS
<1>3. /\ goal \in [Missions -> Record \cup {None}]
      /\ \A m \in Missions : goal[m] = None
      /\ \A a \in Agents : copy[a] = None
  BY <1>2 DEF Init, Targets
<1>4. GoodGoal(goal)
  BY <1>3 DEF GoodGoal
<1>5. FilesFollow(<<>>, goal) /\ CopiesFollow(<<>>, goal)
  BY <1>2, <1>3 DEF FilesFollow, CopiesFollow
<1>6. BusFollows(<<>>, goal)
  <2>1. \A s \in Subscription : ~(subs[s] > 0)
    BY DEF Init
  <2>2. ASSUME NEW m \in Missions PROVE BusFits(m, goal[m], "nothing")
    BY <1>3, <2>1 DEF BusFits, ActiveSubs, Held
  <2>3. ASSUME NEW m, NEW what, Due(<<>>, m, what) PROVE what = "nothing"
    BY <2>3 DEF Due
  <2>4. BusIsToldOnce(<<>>, goal)
    BY DEF BusIsToldOnce
  <2>5. QED
    BY <2>1, <2>2, <2>3, <2>4 DEF BusFollows
<1>7. Tidy(<<>>, goal)
  BY <1>4, <1>5, <1>6 DEF Tidy
<1>8. \A r \in Requests : todo[r] = <<>>
  BY DEF Init
<1>9. QED
  BY <1>1, <1>3, <1>7, <1>8 DEF SerialInv

LEMMA SerialNext ==
    ASSUME OneAtATime, ~Crashes, SerialInv, [Next]_vars
    PROVE  SerialInv'
<1>1. IInv /\ BusTypeOK
  BY DEF SerialInv
<1>2. IInv' /\ BusTypeOK'
  BY <1>1, NextPreserves, BusTypeNext
<1>3. PICK r : Requests = {r}
  BY DEF OneAtATime
<1>4. PICK before \in [Missions -> Record \cup {None}] : Tidy(todo[r], before)
  BY <1>3 DEF SerialInv
<1>5. ASSUME todo[r] = <<>> PROVE Rested
  BY <1>1, <1>4, <1>5, ThroughIsRested
<1>6. ASSUME NEW i \in Interfaces, NEW m \in Missions,
             \/ \E t \in Targets : Assign(r, i, m, t)
             \/ Pause(r, i, m) \/ Resume(r, i, m) \/ Complete(r, i, m)
      PROVE  \E goal : Tidy(todo[r], goal)'
  <2>1. todo[r] = <<>>
    BY <1>6, Zenon DEF Assign, Pause, Resume, Complete, Begin
  <2>2. QED
    BY <1>1, <1>3, <1>5, <1>6, <2>1, AssignIsTidy, PauseIsTidy, ResumeIsTidy, CompleteIsTidy
<1>7. ASSUME NEW m \in Missions, Create(r, m) \/ Update(r, m) \/ Delete(r, m)
      PROVE  \E goal : Tidy(todo[r], goal)'
  <2>1. todo[r] = <<>>
    BY <1>7, Zenon DEF Create, Update, Delete, Begin
  <2>2. QED
    BY <1>1, <1>3, <1>5, <1>7, <2>1, CreateIsTidy, UpdateIsTidy, DeleteIsTidy
<1>8. ASSUME NEW a \in Agents, Failover(r, a)
      PROVE  \E goal : Tidy(todo[r], goal)'
  <2>1. todo[r] = <<>>
    BY <1>8, Zenon DEF Failover, Begin
  <2>2. QED
    BY <1>1, <1>3, <1>5, <1>8, <2>1, FailoverIsTidy
<1>9. ASSUME TakeStep(r) PROVE \E goal : Tidy(todo[r], goal)'
  BY <1>1, <1>3, <1>4, <1>9, TidyStep
<1>10. ~StepFails(r)
  BY DEF StepFails
<1>11. ASSUME Restart PROVE \E goal : Tidy(todo[r], goal)'
  <2>1. todo[r] = <<>>
    BY <1>3, <1>11 DEF Restart, Idle
  <2>2. QED
    BY <1>1, <1>3, <1>5, <1>11, <2>1, RestartIsTidy
<1>12. ASSUME UNCHANGED vars PROVE \E goal : Tidy(todo[r], goal)'
  <2>1. /\ file' = file /\ copy' = copy /\ subs' = subs /\ todo' = todo
        /\ created' = created /\ silenced' = silenced
    BY <1>12 DEF vars
  <2>2. PICK steps : steps = todo[r]
    OBVIOUS
  <2>3. GoodGoal(before)'
    BY <1>4, <2>1 DEF Tidy, GoodGoal
  <2>4. FilesFollow(steps, before)'
    BY <1>4, <2>1, <2>2 DEF Tidy, FilesFollow, Rewrites, Leaves
  <2>5. CopiesFollow(steps, before)'
    <3>1. CopiesFollow(steps, before)
      BY <1>4, <2>2 DEF Tidy
    <3>2. ASSUME NEW m \in Missions, before[m] # None,
                 NEW a \in ToSet(AssignedAgents(before[m])),
                 copy[a] # None, copy[a].id = before[m].id
          PROVE  copy[a] = before[m] \/ Refreshed(steps, a, before[m])
      BY <3>1, <3>2 DEF CopiesFollow
    <3>3. QED
      BY <2>1, <3>1, <3>2, CopiesFollowNext DEF CopiesFollow
  <2>6. ASSUME "mcp" \notin Interfaces PROVE BusFollows(steps, before)'
    <3>1. BusFollows(steps, before) /\ GoodGoal(before)
      BY <1>4, <2>2, <2>6 DEF Tidy
    <3>2. BusIsToldOnce(steps, before)'
      BY <3>1 DEF BusFollows, BusIsToldOnce, OnBusOf
    <3>3. ASSUME NEW m \in Missions, NEW what \in BusSteps \cup {"nothing"},
                 Due(steps, m, what)
          PROVE  BusFits(m, before[m], what)'
      <4>1. BusFits(m, before[m], what) /\ (before[m] # None => before[m].name = m)
        BY <3>1, <3>3 DEF BusFollows, GoodGoal
      <4>2. QED
        BY <2>1, <4>1, BusFitsKept
    <3>4. QED
      BY <2>1, <3>1, <3>2, <3>3 DEF BusFollows, Due, OnBusOf
  <2>7. Tidy(steps, before)'
    BY <2>3, <2>4, <2>5, <2>6 DEF Tidy
  <2>8. QED
    BY <2>1, <2>2, <2>7
<1>13. \E goal : Tidy(todo[r], goal)'
  BY <1>3, <1>6, <1>7, <1>8, <1>9, <1>10, <1>11, <1>12 DEF Next
<1>14. PICK goal : Tidy(todo[r], goal)'
  BY <1>13
<1>15. goal \in [Missions -> Record \cup {None}]
  BY <1>14 DEF Tidy, GoodGoal
<1>16. QED
  BY <1>2, <1>3, <1>14, <1>15 DEF SerialInv

\* One request at a time, none of them cut short: whatever requests come, in
\* whatever order, each leads from where it is to files that the copies and the
\* bus agree with.
THEOREM SerialInvariant ==
    ASSUME OneAtATime, ~Crashes
    PROVE  Spec => []SerialInv
<1>1. Init => SerialInv
  BY SerialInit
<1>2. SerialInv /\ [Next]_vars => SerialInv'
  BY SerialNext
<1>3. QED
  BY <1>1, <1>2, PTL DEF Spec

-----------------------------------------------------------------------------
(* Between requests *)

LEMMA IdleIsRested ==
    ASSUME OneAtATime, SerialInv, Idle
    PROVE  IInv /\ Rested
<1>1. PICK r : Requests = {r}
  BY DEF OneAtATime
<1>2. PICK goal : Tidy(todo[r], goal)
  BY <1>1 DEF SerialInv
<1>3. todo[r] = <<>>
  BY <1>1 DEF Idle
<1>4. QED
  BY <1>2, <1>3, ThroughIsRested DEF SerialInv

\* Whoever changes statuses, REST handlers or tools: between requests the copy
\* an assignee holds of a mission is the mission's current file.
THEOREM CopiesStayCurrent ==
    ASSUME OneAtATime, ~Crashes
    PROVE  Spec => []CopiesAreCurrent
<1>1. SerialInv => CopiesAreCurrent
  <2>1. ASSUME SerialInv, Idle, NEW m \in Missions, Present(m),
               NEW a \in ToSet(AssignedAgents(file[m])),
               copy[a] # None, copy[a].id = file[m].id
        PROVE  copy[a] = file[m]
    <3>1. CopiesFollow(<<>>, file)
      BY <2>1, IdleIsRested DEF Rested
    <3>2. copy[a] = file[m] \/ Refreshed(<<>>, a, file[m])
      BY <2>1, <3>1 DEF CopiesFollow, Present
    <3>3. QED
      BY <3>2 DEF Refreshed
  <2>2. QED
    BY <2>1 DEF CopiesAreCurrent
<1>2. QED
  BY <1>1, SerialInvariant, PTL

\* Where all changes of status go through the REST handlers, which tell the
\* bus: between requests it routes triggers only to missions that are active.
THEOREM RoutesAreOfActive ==
    ASSUME OneAtATime, ~Crashes, "mcp" \notin Interfaces
    PROVE  Spec => []RoutesFollowStatus
<1>1. SerialInv => RoutesFollowStatus
  <2>1. ASSUME SerialInv, Idle, NEW m \in Missions PROVE BusFits(m, file[m], "nothing")
    BY <2>1, IdleIsRested DEF Rested
  <2>2. QED
    BY <2>1 DEF RoutesFollowStatus, BusFits, Present
<1>2. QED
  BY <1>1, SerialInvariant, PTL

\* ... and an active mission has a route, unless it was completed or paused
\* during a restart.
THEOREM ActiveStaysRouted ==
    ASSUME OneAtATime, ~Crashes, "mcp" \notin Interfaces
    PROVE  Spec => []ActiveIsRouted
<1>1. SerialInv => ActiveIsRouted
  <2>1. ASSUME SerialInv, Idle, NEW m \in Missions PROVE BusFits(m, file[m], "nothing")
    BY <2>1, IdleIsRested DEF Rested
  <2>2. QED
    BY <2>1 DEF ActiveIsRouted, BusFits, Present, Unrouted, Silenced
<1>2. QED
  BY <1>1, SerialInvariant, PTL

\* ... and a trigger is routed once, to the assignee or the coverage agent.
THEOREM TriggersRouteOnce ==
    ASSUME OneAtATime, ~Crashes, "mcp" \notin Interfaces
    PROVE  Spec => []RoutedOnce
<1>1. SerialInv => RoutedOnce
  <2>1. ASSUME SerialInv, Idle, NEW m \in Missions, Present(m)
        PROVE  /\ RoutedAtMostOnce(file[m])
               /\ Own(file[m]) = {s \in Held(m) : s.id = file[m].id}
    <3>1. BusFits(m, file[m], "nothing") /\ file[m].name = m
      BY <2>1, IdleIsRested, RestedFile
    <3>2. QED
      BY <2>1, <3>1 DEF BusFits, Present, Own
  <2>2. QED
    BY <2>1 DEF RoutedOnce, RoutedAtMostOnce
<1>2. QED
  BY <1>1, SerialInvariant, PTL

=============================================================================

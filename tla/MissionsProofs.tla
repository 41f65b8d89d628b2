--------------------------- MODULE MissionsProofs ---------------------------
(***************************************************************************)
(* Proofs about Missions, for any missions, agents, teams and concurrent   *)
(* requests, over both interfaces, with crashes anywhere.                  *)
(***************************************************************************)
EXTENDS Missions, SequenceTheorems, FiniteSetTheorems, TLAPS

-----------------------------------------------------------------------------
(* The invariant *)

\* Step k of a request, if it writes a mission file, finds every older
\* version in the history by the time it runs: it is there, or an earlier
\* step of the same request will record it.
WriteCovered(steps, k) ==
    steps[k].do = "write" =>
      \A v \in 1..(steps[k].rec.version - 1) :
        \/ v \in history[steps[k].rec.id]
        \/ \E j \in 1..(k - 1) : /\ steps[j].do = "log"
                                 /\ steps[j].rec.id = steps[k].rec.id
                                 /\ steps[j].rec.version = v

\* Step k, if it writes an agent's copy, writes one the agent may hold.
CopyAllowed(steps, k) ==
    steps[k].do = "copy" /\ steps[k].at \in Agents
      => MayHold(steps[k].at, steps[k].rec)

GoodSteps(steps) ==
    /\ steps \in Seq(Step)
    /\ \A k \in 1..Len(steps) : WriteCovered(steps, k) /\ CopyAllowed(steps, k)

\* Steps that write no mission file need nothing from the history.
HarmlessSteps(steps) ==
    /\ steps \in Seq(Step)
    /\ \A k \in 1..Len(steps) : steps[k].do # "write" /\ CopyAllowed(steps, k)

RequestsAreGood == \A r \in Requests : GoodSteps(todo[r])

IInv ==
    /\ FilesTypeOK
    /\ HistoryCoversOlderVersions
    /\ OnlyAssigneesHold
    /\ RequestsAreGood

-----------------------------------------------------------------------------
(* The steps of the requests *)

\* A request of one part whose writes are covered, and a harmless rest.
LEMMA GoodThenHarmless ==
    ASSUME NEW a, NEW b, GoodSteps(a), HarmlessSteps(b)
    PROVE  GoodSteps(a \o b)
<1>1. a \in Seq(Step) /\ b \in Seq(Step)
  BY DEF GoodSteps, HarmlessSteps
<1>2. /\ a \o b \in Seq(Step)
      /\ Len(a \o b) = Len(a) + Len(b)
      /\ \A i \in 1..Len(a) + Len(b) :
           (a \o b)[i] = IF i <= Len(a) THEN a[i] ELSE b[i - Len(a)]
  BY <1>1, ConcatProperties
<1>3. Len(a) \in Nat /\ Len(b) \in Nat
  BY <1>1, LenProperties
<1> DEFINE c == a \o b
<1> HIDE DEF c
<1>4. ASSUME NEW k \in 1..Len(c) PROVE WriteCovered(c, k) /\ CopyAllowed(c, k)
  <2>1. CASE k <= Len(a)
    <3>1. k \in 1..Len(a) /\ c[k] = a[k] /\ \A j \in 1..(k - 1) : c[j] = a[j]
      BY <2>1, <1>2, <1>3 DEF c
    <3>2. WriteCovered(a, k) /\ CopyAllowed(a, k)
      BY <3>1 DEF GoodSteps
    <3>3. QED
      BY <3>1, <3>2 DEF WriteCovered, CopyAllowed
  <2>2. CASE ~(k <= Len(a))
    <3>1. k - Len(a) \in 1..Len(b) /\ c[k] = b[k - Len(a)]
      BY <2>2, <1>2, <1>3 DEF c
    <3>2. b[k - Len(a)].do # "write" /\ CopyAllowed(b, k - Len(a))
      BY <3>1 DEF HarmlessSteps
    <3>3. QED
      BY <3>1, <3>2 DEF WriteCovered, CopyAllowed
  <2>3. QED
    BY <2>1, <2>2
<1>5. QED
  BY <1>2, <1>4 DEF c, GoodSteps

LEMMA HarmlessIsGood ==
    ASSUME NEW a, HarmlessSteps(a)
    PROVE  GoodSteps(a)
BY DEF HarmlessSteps, GoodSteps, WriteCovered

LEMMA HarmlessConcat ==
    ASSUME NEW a, NEW b, HarmlessSteps(a), HarmlessSteps(b)
    PROVE  HarmlessSteps(a \o b)
<1>1. a \in Seq(Step) /\ b \in Seq(Step)
  BY DEF HarmlessSteps
<1>2. /\ a \o b \in Seq(Step)
      /\ Len(a \o b) = Len(a) + Len(b)
      /\ \A i \in 1..Len(a) + Len(b) :
           (a \o b)[i] = IF i <= Len(a) THEN a[i] ELSE b[i - Len(a)]
  BY <1>1, ConcatProperties
<1>3. Len(a) \in Nat /\ Len(b) \in Nat
  BY <1>1, LenProperties
<1> DEFINE c == a \o b
<1> HIDE DEF c
<1>4. ASSUME NEW k \in 1..Len(c) PROVE c[k].do # "write" /\ CopyAllowed(c, k)
  <2>1. \/ k \in 1..Len(a) /\ c[k] = a[k]
        \/ k - Len(a) \in 1..Len(b) /\ c[k] = b[k - Len(a)]
    BY <1>2, <1>3 DEF c
  <2>2. QED
    BY <2>1 DEF HarmlessSteps, CopyAllowed
<1>5. QED
  BY <1>2, <1>4 DEF c, HarmlessSteps

LEMMA DoIsStep ==
    ASSUME NEW what \in {"write", "log", "copy", "uncopy", "unlink", "subscribe",
                         "deactivate", "activate", "remove", "reroute"},
           NEW rec \in Record, NEW where \in Targets \cup {None}
    PROVE  DoAt(what, rec, where) \in Step /\ Do(what, rec) \in Step
BY DEF Do, DoAt, Step

\* A single step that is neither a write of a file nor of a copy.
LEMMA DoIsHarmless ==
    ASSUME NEW what \in {"log", "unlink", "subscribe", "deactivate", "activate",
                         "remove"},
           NEW rec \in Record
    PROVE  HarmlessSteps(<<Do(what, rec)>>)
<1>1. Do(what, rec) \in Step
  BY DEF Do, Step
<1>2. <<Do(what, rec)>> \in Seq(Step) /\ Len(<<Do(what, rec)>>) = 1
      /\ <<Do(what, rec)>>[1] = Do(what, rec)
  BY <1>1
<1>3. QED
  BY <1>2 DEF HarmlessSteps, CopyAllowed, Do

LEMMA OnBusIsHarmless ==
    ASSUME NEW i \in Interfaces, NEW rec \in Record,
           NEW what \in {"subscribe", "deactivate", "activate", "remove"}
    PROVE  HarmlessSteps(OnBus(i, what, rec))
<1>1. HarmlessSteps(<<>>)
  BY DEF HarmlessSteps
<1>2. HarmlessSteps(<<Do(what, rec)>>)
  BY DoIsHarmless
<1>3. QED
  BY <1>1, <1>2 DEF OnBus

\* assignedAgentNames returns agents that may hold the mission.
LEMMA AssignedMayHold ==
    ASSUME NEW rec \in Record
    PROVE  /\ AssignedAgents(rec) \in Seq(Agents)
           /\ \A k \in 1..Len(AssignedAgents(rec)) :
                MayHold(AssignedAgents(rec)[k], rec)
<1>1. rec.assigned \in Agents \cup Teams \cup {None}
  BY DEF Record, Targets
<1>2. CASE rec.assigned = None
  <2>1. AssignedAgents(rec) = <<>>
    BY <1>2, TeamsAssumption DEF AssignedAgents
  <2>2. QED
    BY <2>1
<1>3. CASE rec.assigned \in Agents
  <2>1. rec.assigned # None /\ rec.assigned \notin Teams
    BY <1>3, TeamsAssumption
  <2>2. AssignedAgents(rec) = <<rec.assigned>>
    BY <1>3, <2>1 DEF AssignedAgents
  <2>3. QED
    BY <1>3, <2>2 DEF MayHold
<1>4. CASE rec.assigned \in Teams
  <2> DEFINE t == rec.assigned
  <2>1. t # None /\ t \notin Agents
    BY <1>4, TeamsAssumption
  <2>2. AssignedAgents(rec) =
          IF Coordinator[t] # None THEN <<Coordinator[t]>> ELSE Members[t]
    BY <1>4, <2>1 DEF AssignedAgents
  <2>3. /\ Coordinator[t] \in Agents \cup {None}
        /\ Members[t] \in Seq(Agents)
    BY <1>4, TeamsAssumption
  <2>4. CASE Coordinator[t] # None
    BY <1>4, <2>2, <2>3, <2>4 DEF MayHold
  <2>5. CASE Coordinator[t] = None
    <3>1. AssignedAgents(rec) = Members[t]
      BY <2>2, <2>5
    <3>2. DOMAIN Members[t] = 1..Len(Members[t])
      BY <2>3, LenProperties
    <3>3. \A k \in 1..Len(Members[t]) : Members[t][k] \in ToSet(Members[t])
      BY <3>2 DEF ToSet
    <3>4. QED
      BY <1>4, <2>3, <2>5, <3>1, <3>3 DEF MayHold
  <2>6. QED
    BY <2>4, <2>5
<1>5. QED
  BY <1>1, <1>2, <1>3, <1>4

\* writeAssignedAgentCopies and removeAssignedAgentCopies.
LEMMA CopiesAreHarmless ==
    ASSUME NEW rec \in Record
    PROVE  HarmlessSteps(WriteCopies(rec)) /\ HarmlessSteps(RemoveCopies(rec))
<1> DEFINE agents == AssignedAgents(rec)
<1>1. /\ agents \in Seq(Agents)
      /\ \A k \in 1..Len(agents) : MayHold(agents[k], rec)
  BY AssignedMayHold
<1> HIDE DEF agents
<1>2. /\ Len(agents) \in Nat /\ DOMAIN agents = 1..Len(agents)
      /\ \A k \in 1..Len(agents) : agents[k] \in Agents
  BY <1>1, LenProperties, ElementOfSeq
<1>3. ASSUME NEW what \in {"copy", "uncopy"}
      PROVE  HarmlessSteps(ForEach(what, rec, agents))
  <2> DEFINE s == ForEach(what, rec, agents)
  <2>1. s = [k \in 1..Len(agents) |-> DoAt(what, rec, agents[k])]
    BY <1>2 DEF ForEach
  <2>2. \A k \in 1..Len(agents) : DoAt(what, rec, agents[k]) \in Step
    BY <1>2, DoIsStep DEF Targets
  <2>3. s \in Seq(Step) /\ Len(s) = Len(agents)
    BY <1>2, <2>1, <2>2, IsASeq
  <2>4. \A k \in 1..Len(s) : s[k] = DoAt(what, rec, agents[k])
    BY <2>1, <2>3
  <2> HIDE DEF s
  <2>5. ASSUME NEW k \in 1..Len(s)
        PROVE  s[k].do # "write" /\ CopyAllowed(s, k)
    <3>1. s[k].do = what /\ s[k].rec = rec /\ s[k].at = agents[k]
      <4>1. s[k] = DoAt(what, rec, agents[k])
        BY <2>4
      <4>2. s[k].do = what
        BY <4>1 DEF DoAt
      <4>3. s[k].rec = rec /\ s[k].at = agents[k]
        BY <4>1 DEF DoAt
      <4>4. QED
        BY <4>2, <4>3
    <3>2. MayHold(agents[k], rec)
      BY <1>1, <2>3
    <3>3. QED
      BY <3>1, <3>2 DEF CopyAllowed
  <2>6. QED
    BY <2>3, <2>5 DEF s, HarmlessSteps
<1>4. QED
  BY <1>3 DEF WriteCopies, RemoveCopies, agents

\* A write whose older versions are all in the history.
LEMMA CoveredWrite ==
    ASSUME NEW rec \in Record, 1..(rec.version - 1) \subseteq history[rec.id]
    PROVE  GoodSteps(<<Do("write", rec)>>)
<1>1. Do("write", rec) \in Step
  BY DEF Do, Step
<1>2. <<Do("write", rec)>> \in Seq(Step) /\ Len(<<Do("write", rec)>>) = 1
      /\ <<Do("write", rec)>>[1] = Do("write", rec)
  BY <1>1
<1>3. QED
  BY <1>2 DEF GoodSteps, WriteCovered, CopyAllowed, Do

-----------------------------------------------------------------------------
(* The invariant is preserved *)

\* A request that begins leaves files, copies and history alone: what it still
\* has to write must be good.
LEMMA BeginPreserves ==
    ASSUME IInv, NEW r \in Requests, NEW steps, Begin(r, steps),
           GoodSteps(steps), created' \in 0..MaxCreates
    PROVE  IInv'
<1>1. UNCHANGED <<file, copy, history>>
  BY DEF Begin
<1>2. todo' \in [Requests -> Seq(Step)]
      /\ \A q \in Requests : todo'[q] = IF q = r THEN steps ELSE todo[q]
  BY DEF Begin, IInv, FilesTypeOK, GoodSteps
<1>3. FilesTypeOK'
  BY <1>1, <1>2 DEF IInv, FilesTypeOK
<1>4. HistoryCoversOlderVersions' /\ OnlyAssigneesHold'
  BY <1>1 DEF IInv, HistoryCoversOlderVersions, OnlyAssigneesHold, Present, MayHold
<1>5. ASSUME NEW q \in Requests PROVE GoodSteps(todo[q])'
  <2>1. GoodSteps(todo'[q])
    BY <1>2 DEF IInv, RequestsAreGood
  <2>2. QED
    BY <1>1, <2>1 DEF GoodSteps, WriteCovered, CopyAllowed, MayHold
<1>6. QED
  BY <1>3, <1>4, <1>5 DEF IInv, RequestsAreGood

LEMMA CreatePreserves ==
    ASSUME IInv, NEW r \in Requests, NEW m \in Missions, Create(r, m)
    PROVE  IInv'
<1> DEFINE rec == NewRecord(m)
<1>1. created \in 0..MaxCreates /\ created + 1 \in 0..MaxCreates
      /\ created' = created + 1
  BY MissionBoundsAssumption DEF IInv, FilesTypeOK, Create
<1>2. rec \in Record /\ rec.version = 1
  BY <1>1, MissionBoundsAssumption, TeamsAssumption
     DEF Create, NewRecord, Record, Ids, Statuses
<1> HIDE DEF rec
<1>3. GoodSteps(<<Do("write", rec)>>)
  BY <1>2, CoveredWrite
<1>4. HarmlessSteps(<<Do("log", rec)>>)
  BY <1>2, DoIsHarmless
<1>5. <<Do("write", rec), Do("log", rec)>> = <<Do("write", rec)>> \o <<Do("log", rec)>>
  OBVIOUS
<1>6. GoodSteps(<<Do("write", rec), Do("log", rec)>>)
  BY <1>3, <1>4, <1>5, GoodThenHarmless
<1>7. Begin(r, <<Do("write", rec), Do("log", rec)>>)
  BY DEF Create, rec
<1>8. QED
  BY <1>1, <1>6, <1>7, BeginPreserves

\* A mission on disk is a record, with its older versions in the history.
LEMMA OnDisk ==
    ASSUME IInv, NEW m \in Missions, Present(m)
    PROVE  /\ file[m] \in Record
           /\ file[m].version \in 1..MaxVersion
           /\ 1..(file[m].version - 1) \subseteq history[file[m].id]
<1>1. file[m] \in Record
  BY DEF IInv, FilesTypeOK, Present
<1>2. QED
  BY <1>1 DEF IInv, HistoryCoversOlderVersions, Record

LEMMA UpdatePreserves ==
    ASSUME IInv, NEW r \in Requests, NEW m \in Missions, Update(r, m)
    PROVE  IInv'
<1> DEFINE old == file[m]
           new == Updated(file[m])
           first == <<Do("log", old), Do("write", new)>>
<1>1. /\ old \in Record /\ old.version \in 1..MaxVersion
      /\ 1..(old.version - 1) \subseteq history[old.id]
      /\ old.version < MaxVersion
  BY OnDisk DEF Update
<1>2. new \in Record /\ new.id = old.id /\ new.version = old.version + 1
  <2>1. old.version + 1 \in 1..MaxVersion
    BY <1>1, MissionBoundsAssumption
  <2>2. QED
    BY <1>1, <2>1 DEF Updated, Record
<1> HIDE DEF old, new
<1>3. GoodSteps(first)
  <2>1. Do("log", old) \in Step /\ Do("write", new) \in Step
    BY <1>1, <1>2, DoIsStep, TeamsAssumption
  <2>2. first \in Seq(Step) /\ Len(first) = 2
        /\ first[1] = Do("log", old) /\ first[2] = Do("write", new)
    BY <2>1
  <2> HIDE DEF first
  <2>3. /\ first[1].do = "log" /\ first[1].rec = old
        /\ first[2].do = "write" /\ first[2].rec = new
    BY <2>2 DEF Do
  <2>4. WriteCovered(first, 1) /\ CopyAllowed(first, 1) /\ CopyAllowed(first, 2)
    BY <2>3 DEF WriteCovered, CopyAllowed
  <2>5. WriteCovered(first, 2)
    <3> SUFFICES ASSUME NEW v \in 1..(new.version - 1)
                 PROVE  \/ v \in history[new.id]
                        \/ \E j \in 1..(2 - 1) : /\ first[j].do = "log"
                                                 /\ first[j].rec.id = new.id
                                                 /\ first[j].rec.version = v
      BY <2>3 DEF WriteCovered
    <3>1. CASE v = old.version
      BY <1>2, <2>3, <3>1
    <3>2. CASE v # old.version
      BY <1>1, <1>2, <3>2
    <3>3. QED
      BY <3>1, <3>2
  <2>6. QED
    BY <2>2, <2>4, <2>5 DEF GoodSteps
<1>4. GoodSteps(first \o WriteCopies(new))
  BY <1>2, <1>3, CopiesAreHarmless, GoodThenHarmless
<1>5. Begin(r, first \o WriteCopies(new)) /\ created' = created
  BY DEF Update, old, new
<1>6. created' \in 0..MaxCreates
  BY <1>5 DEF IInv, FilesTypeOK
<1>7. QED
  BY <1>4, <1>5, <1>6, BeginPreserves

\* The shape of assign, pause, resume and complete: a record of the version
\* on disk is written, then come copies and the bus.
LEMMA RewritePreserves ==
    ASSUME IInv, NEW r \in Requests, NEW m \in Missions, Present(m),
           NEW new \in Record, new.id = file[m].id, new.version = file[m].version,
           NEW copies, HarmlessSteps(copies), NEW bus, HarmlessSteps(bus),
           Begin(r, <<Do("write", new)>> \o copies \o bus), created' = created
    PROVE  IInv'
<1>1. GoodSteps(<<Do("write", new)>>)
  BY OnDisk, CoveredWrite
<1>2. GoodSteps(<<Do("write", new)>> \o copies)
  BY <1>1, GoodThenHarmless
<1>3. GoodSteps(<<Do("write", new)>> \o copies \o bus)
  BY <1>2, GoodThenHarmless
<1>4. created' \in 0..MaxCreates
  BY DEF IInv, FilesTypeOK
<1>5. QED
  BY <1>3, <1>4, BeginPreserves

LEMMA AssignPreserves ==
    ASSUME IInv, NEW r \in Requests, NEW i \in Interfaces, NEW m \in Missions,
           NEW t \in Targets, Assign(r, i, m, t)
    PROVE  IInv'
<1> DEFINE new == [file[m] EXCEPT !.status = "active", !.assigned = t]
<1>1. Present(m)
  BY DEF Assign
<1>2. /\ new \in Record /\ new.id = file[m].id
      /\ new.version = file[m].version /\ new.assigned = t
  BY <1>1, OnDisk DEF Record, Statuses
<1>3. Begin(r, <<Do("write", new)>> \o FirstCopies(i, new)
               \o OnBus(i, "subscribe", new))
  BY Zenon DEF Assign
<1>4. created' = created
  BY DEF Assign
<1> HIDE DEF new
<1>5. HarmlessSteps(FirstCopies(i, new))
  <2>1. HarmlessSteps(WriteCopies(new))
    BY <1>2, CopiesAreHarmless
  <2>2. HarmlessSteps(<<DoAt("copy", new, new.assigned)>>)
    <3> DEFINE step == DoAt("copy", new, new.assigned)
    <3>1. step \in Step /\ step.do = "copy" /\ step.rec = new /\ step.at = new.assigned
      BY <1>2, DoIsStep DEF DoAt
    <3> HIDE DEF step
    <3>2. <<step>> \in Seq(Step) /\ Len(<<step>>) = 1 /\ <<step>>[1] = step
      BY <3>1
    <3>3. CopyAllowed(<<step>>, 1)
      BY <3>1, <3>2 DEF CopyAllowed, MayHold
    <3>4. HarmlessSteps(<<step>>)
      BY <3>1, <3>2, <3>3 DEF HarmlessSteps
    <3>5. QED
      BY <3>4 DEF step
  <2>3. QED
    BY <2>1, <2>2 DEF FirstCopies
<1>6. HarmlessSteps(OnBus(i, "subscribe", new))
  BY <1>2, OnBusIsHarmless
<1>7. QED
  BY <1>1, <1>2, <1>3, <1>4, <1>5, <1>6, RewritePreserves

\* A record with another status is a record of the same version.
LEMMA StatusRecord ==
    ASSUME IInv, NEW m \in Missions, Present(m), NEW s \in Statuses
    PROVE  LET new == SetStatus(file[m], s) IN
           /\ new \in Record
           /\ new.id = file[m].id
           /\ new.version = file[m].version
BY OnDisk DEF SetStatus, Record

LEMMA PausePreserves ==
    ASSUME IInv, NEW r \in Requests, NEW i \in Interfaces, NEW m \in Missions,
           Pause(r, i, m)
    PROVE  IInv'
<1> DEFINE new == SetStatus(file[m], "paused")
<1>1. Present(m) /\ created' = created
  BY DEF Pause
<1>2. new \in Record /\ new.id = file[m].id /\ new.version = file[m].version
  BY <1>1, StatusRecord DEF Statuses
<1>3. Begin(r, <<Do("write", new)>> \o WriteCopies(new) \o OnBus(i, "deactivate", new))
  BY Zenon DEF Pause
<1> HIDE DEF new
<1>4. HarmlessSteps(WriteCopies(new)) /\ HarmlessSteps(OnBus(i, "deactivate", new))
  BY <1>2, CopiesAreHarmless, OnBusIsHarmless
<1>5. QED
  BY <1>1, <1>2, <1>3, <1>4, RewritePreserves

LEMMA ResumePreserves ==
    ASSUME IInv, NEW r \in Requests, NEW i \in Interfaces, NEW m \in Missions,
           Resume(r, i, m)
    PROVE  IInv'
<1> DEFINE new == SetStatus(file[m], "active")
<1>1. Present(m) /\ created' = created
  BY DEF Resume
<1>2. new \in Record /\ new.id = file[m].id /\ new.version = file[m].version
  BY <1>1, StatusRecord DEF Statuses
<1>3. Begin(r, <<Do("write", new)>> \o WriteCopies(new) \o OnBus(i, "activate", new))
  BY Zenon DEF Resume
<1> HIDE DEF new
<1>4. HarmlessSteps(WriteCopies(new)) /\ HarmlessSteps(OnBus(i, "activate", new))
  BY <1>2, CopiesAreHarmless, OnBusIsHarmless
<1>5. QED
  BY <1>1, <1>2, <1>3, <1>4, RewritePreserves

LEMMA CompletePreserves ==
    ASSUME IInv, NEW r \in Requests, NEW i \in Interfaces, NEW m \in Missions,
           Complete(r, i, m)
    PROVE  IInv'
<1> DEFINE new == SetStatus(file[m], "completed")
<1>1. Present(m) /\ created' = created
  BY DEF Complete
<1>2. new \in Record /\ new.id = file[m].id /\ new.version = file[m].version
  BY <1>1, StatusRecord DEF Statuses
<1>3. Begin(r, <<Do("write", new)>> \o RemoveCopies(new) \o OnBus(i, "remove", new))
  BY Zenon DEF Complete
<1> HIDE DEF new
<1>4. HarmlessSteps(RemoveCopies(new)) /\ HarmlessSteps(OnBus(i, "remove", new))
  BY <1>2, CopiesAreHarmless, OnBusIsHarmless
<1>5. QED
  BY <1>1, <1>2, <1>3, <1>4, RewritePreserves

LEMMA DeletePreserves ==
    ASSUME IInv, NEW r \in Requests, NEW m \in Missions, Delete(r, m)
    PROVE  IInv'
<1> DEFINE steps == RemoveCopies(file[m]) \o <<Do("unlink", file[m])>>
<1>1. Begin(r, steps) /\ created' = created /\ file[m] \in Record
  BY OnDisk DEF Delete
<1>2. HarmlessSteps(RemoveCopies(file[m])) /\ HarmlessSteps(<<Do("unlink", file[m])>>)
  BY <1>1, CopiesAreHarmless, DoIsHarmless
<1>3. GoodSteps(steps)
  BY <1>2, HarmlessConcat, HarmlessIsGood
<1>4. created' \in 0..MaxCreates
  BY <1>1 DEF IInv, FilesTypeOK
<1>5. QED
  BY <1>1, <1>3, <1>4, BeginPreserves

\* The three steps of a failover are steps, none of them a write of the
\* mission, and the copy goes to the coverage agent.
LEMMA FailoverStep ==
    ASSUME IInv, NEW a \in Agents, NEW m \in Covered(a), NEW n \in 1..3
    PROVE  LET s == FailoverSteps(file[m])[n] IN
           /\ s \in Step
           /\ s.do # "write"
           /\ s.do = "copy" /\ s.at \in Agents => MayHold(s.at, s.rec)
<1> DEFINE t == file[m].assigned
<1>1. m \in Missions /\ Present(m) /\ t \in Teams /\ Coverage[t] # None
  BY DEF Covered
<1>2. file[m] \in Record /\ Coverage[t] \in Agents
  BY <1>1, OnDisk, TeamsAssumption
<1>3. /\ DoAt("copy", file[m], Coverage[t]) \in Step
      /\ Do("remove", file[m]) \in Step
      /\ DoAt("reroute", file[m], Coverage[t]) \in Step
  BY <1>2, DoIsStep DEF Targets
<1>4. MayHold(Coverage[t], file[m])
  BY <1>1 DEF MayHold
<1>5. CASE n = 1
  <2>1. FailoverSteps(file[m])[n] = DoAt("copy", file[m], Coverage[t])
    BY <1>5 DEF FailoverSteps
  <2>2. QED
    BY <1>3, <1>4, <2>1 DEF DoAt
<1>6. CASE n = 2
  <2>1. FailoverSteps(file[m])[n] = Do("remove", file[m])
    BY <1>6 DEF FailoverSteps
  <2>2. QED
    BY <1>3, <2>1 DEF Do
<1>7. CASE n = 3
  <2>1. FailoverSteps(file[m])[n] = DoAt("reroute", file[m], Coverage[t])
    BY <1>7 DEF FailoverSteps
  <2>2. QED
    BY <1>3, <2>1 DEF DoAt
<1>8. QED
  BY <1>5, <1>6, <1>7

LEMMA FailoverPreserves ==
    ASSUME IInv, NEW r \in Requests, NEW a \in Agents, Failover(r, a)
    PROVE  IInv'
<1>1. PICK list \in Listings(Covered(a)) :
        Begin(r, [k \in 1..(3 * Len(list)) |->
                    LET j == (k - 1) \div 3
                    IN FailoverSteps(file[list[j + 1]])[k - 3 * j]])
  BY DEF Failover
<1> DEFINE n == Len(list)
           steps == [k \in 1..(3 * n) |->
                       LET j == (k - 1) \div 3
                       IN FailoverSteps(file[list[j + 1]])[k - 3 * j]]
<1>2. created' = created
  BY DEF Failover
<1>3. PICK c \in Nat : list \in [1..c -> Covered(a)] /\ n = c
  <2> DEFINE c == Cardinality(Covered(a))
  <2>1. list \in [1..c -> Covered(a)]
    BY DEF Listings
  <2>2. c \in Nat
    BY MissionsFinite, FS_Subset, FS_CardinalityType DEF Covered
  <2>3. QED
    BY <2>1, <2>2, IsASeq
<1>4. ASSUME NEW k \in 1..(3 * n)
      PROVE  /\ steps[k] \in Step
             /\ steps[k].do # "write"
             /\ steps[k].do = "copy" /\ steps[k].at \in Agents
                  => MayHold(steps[k].at, steps[k].rec)
  <2> DEFINE j == (k - 1) \div 3
  <2>1. j + 1 \in 1..n /\ k - 3 * j \in 1..3
    BY <1>3
  <2>2. list[j + 1] \in Covered(a)
    BY <1>3, <2>1
  <2>3. steps[k] = FailoverSteps(file[list[j + 1]])[k - 3 * j]
    OBVIOUS
  <2>4. QED
    BY <2>1, <2>2, <2>3, FailoverStep
<1>5. Begin(r, steps)
  BY <1>1
<1>6. steps \in Seq(Step) /\ Len(steps) = 3 * n
  <2>1. 3 * n \in Nat
    BY <1>3
  <2>2. QED
    BY <1>4, <2>1, IsASeq
<1> HIDE DEF steps
<1>7. HarmlessSteps(steps)
  BY <1>4, <1>6 DEF HarmlessSteps, CopyAllowed
<1>8. created' \in 0..MaxCreates
  BY <1>2 DEF IInv, FilesTypeOK
<1>9. QED
  BY <1>5, <1>7, <1>8, HarmlessIsGood, BeginPreserves

-----------------------------------------------------------------------------
(* The steps keep the invariant *)

LEMMA StepType ==
    ASSUME NEW s \in Step
    PROVE  /\ s.rec \in Record /\ s.rec.name \in Missions /\ s.rec.id \in Ids
           /\ s.rec.version \in 1..MaxVersion
           /\ s.at \in Targets \cup {None}
           /\ s.do \in {"write", "log", "copy", "uncopy", "unlink", "subscribe",
                        "deactivate", "activate", "remove", "reroute"}
<1>1. /\ s.rec \in Record /\ s.at \in Targets \cup {None}
      /\ s.do \in {"write", "log", "copy", "uncopy", "unlink", "subscribe",
                   "deactivate", "activate", "remove", "reroute"}
  BY DEF Step
<1>2. QED
  BY <1>1 DEF Record

\* What the steps of a request need of the history survives its growth.
LEMMA HistoryGrows ==
    ASSUME NEW steps, GoodSteps(steps),
           \A id \in Ids : history[id] \subseteq history'[id]
    PROVE  GoodSteps(steps)'
<1>1. steps \in Seq(Step)
  BY DEF GoodSteps
<1>2. \A k \in 1..Len(steps) : steps[k].rec.id \in Ids
  BY <1>1, ElementOfSeq, StepType
<1>3. ASSUME NEW k \in 1..Len(steps) PROVE WriteCovered(steps, k)'
  <2>1. WriteCovered(steps, k)
    BY DEF GoodSteps
  <2>2. QED
    BY <1>2, <2>1 DEF WriteCovered
<1>4. ASSUME NEW k \in 1..Len(steps) PROVE CopyAllowed(steps, k)'
  BY DEF GoodSteps, CopyAllowed, MayHold
<1>5. QED
  BY <1>1, <1>3, <1>4 DEF GoodSteps

\* A request that takes its first step still has good steps before it: what
\* that step recorded is in the history now.
LEMMA TailIsGood ==
    ASSUME NEW steps, GoodSteps(steps), steps # <<>>,
           \A id \in Ids : history[id] \subseteq history'[id],
           Head(steps).do = "log"
             => Head(steps).rec.version \in history'[Head(steps).rec.id]
    PROVE  GoodSteps(Tail(steps))'
<1> DEFINE rest == Tail(steps)
<1>1. steps \in Seq(Step)
  BY DEF GoodSteps
<1>2. /\ rest \in Seq(Step)
      /\ Len(rest) = Len(steps) - 1
      /\ \A k \in 1..Len(rest) : rest[k] = steps[k + 1]
      /\ Head(steps) = steps[1]
      /\ Len(steps) \in Nat
  BY <1>1, HeadTailProperties, LenProperties
<1> HIDE DEF rest
<1>3. \A k \in 1..Len(steps) : steps[k].rec.id \in Ids
  BY <1>1, ElementOfSeq, StepType
<1>4. ASSUME NEW k \in 1..Len(rest) PROVE CopyAllowed(rest, k)'
  <2>1. k + 1 \in 1..Len(steps) /\ rest[k] = steps[k + 1]
    BY <1>2
  <2>2. CopyAllowed(steps, k + 1)
    BY <2>1 DEF GoodSteps
  <2>3. QED
    BY <2>1, <2>2 DEF CopyAllowed, MayHold
<1>5. ASSUME NEW k \in 1..Len(rest) PROVE WriteCovered(rest, k)'
  <2>1. k + 1 \in 1..Len(steps) /\ rest[k] = steps[k + 1]
    BY <1>2
  <2>2. WriteCovered(steps, k + 1)
    BY <2>1 DEF GoodSteps
  <2> SUFFICES ASSUME rest[k].do = "write", NEW v \in 1..(rest[k].rec.version - 1)
               PROVE  \/ v \in history'[rest[k].rec.id]
                      \/ \E j \in 1..(k - 1) : /\ rest[j].do = "log"
                                               /\ rest[j].rec.id = rest[k].rec.id
                                               /\ rest[j].rec.version = v
    BY DEF WriteCovered
  <2>3. CASE v \in history[steps[k + 1].rec.id]
    BY <1>3, <2>1, <2>3
  <2>4. CASE v \notin history[steps[k + 1].rec.id]
    <3>1. PICK j \in 1..k : /\ steps[j].do = "log"
                            /\ steps[j].rec.id = rest[k].rec.id
                            /\ steps[j].rec.version = v
      BY <2>1, <2>2, <2>4 DEF WriteCovered
    <3>2. CASE j = 1
      BY <1>2, <3>1, <3>2
    <3>3. CASE j # 1
      <4>1. j - 1 \in 1..(k - 1) /\ j - 1 \in 1..Len(rest) /\ rest[j - 1] = steps[j]
        BY <1>2, <3>3
      <4>2. QED
        BY <3>1, <4>1
    <3>4. QED
      BY <3>2, <3>3
  <2>5. QED
    BY <2>3, <2>4
<1>6. QED
  BY <1>2, <1>4, <1>5 DEF GoodSteps, rest

\* One step of a request: the file written has its older versions in the
\* history, the copy written is one its agent may hold.
LEMMA TakeStepPreserves ==
    ASSUME IInv, NEW r \in Requests, TakeStep(r)
    PROVE  IInv'
<1> DEFINE steps == todo[r]
           s == Head(steps)
<1>1. /\ steps # <<>> /\ GoodSteps(steps) /\ steps \in Seq(Step)
      /\ todo' = [todo EXCEPT ![r] = Tail(@)] /\ created' = created
  BY DEF IInv, RequestsAreGood, GoodSteps, TakeStep
<1>2. s \in Step /\ s = steps[1] /\ 1 \in 1..Len(steps)
  BY <1>1, HeadTailProperties, LenProperties, EmptySeq
<1>3. \/ WriteFile(s) \/ AppendHistory(s)
      \/ WriteAgentCopy(s) \/ RemoveMissionFromAgent(s) \/ Unlink(s)
      \/ UNCHANGED <<file, copy, history>> /\ s.do \notin {"log", "write", "copy"}
  BY Zenon DEF TakeStep, Subscribe, DeactivateByOrigin, ActivateByOrigin,
               RemoveByOrigin, Reroute
<1>4. /\ WriteCovered(steps, 1) /\ CopyAllowed(steps, 1)
  BY <1>1, <1>2 DEF GoodSteps
<1> HIDE DEF s, steps
<1>5. /\ s.rec \in Record /\ s.rec.name \in Missions /\ s.rec.id \in Ids
      /\ s.rec.version \in 1..MaxVersion
  BY <1>2, StepType
<1>6. /\ file' \in [Missions -> Record \cup {None}]
      /\ copy' \in [Targets -> Record \cup {None}]
      /\ history' \in [Ids -> SUBSET (1..MaxVersion)]
  BY <1>3, <1>5 DEF IInv, FilesTypeOK, WriteFile, AppendHistory, WriteAgentCopy,
                    RemoveMissionFromAgent, Unlink
<1>7. /\ \A id \in Ids : history[id] \subseteq history'[id]
      /\ s.do = "log" => s.rec.version \in history'[s.rec.id]
  BY <1>3, <1>5 DEF IInv, FilesTypeOK, WriteFile, AppendHistory, WriteAgentCopy,
                    RemoveMissionFromAgent, Unlink
<1>8. /\ todo' \in [Requests -> Seq(Step)]
      /\ \A q \in Requests : todo'[q] = IF q = r THEN Tail(steps) ELSE todo[q]
  BY <1>1, HeadTailProperties DEF IInv, FilesTypeOK, steps
<1>9. FilesTypeOK'
  BY <1>1, <1>6, <1>8 DEF IInv, FilesTypeOK
<1>10. RequestsAreGood'
  <2> SUFFICES ASSUME NEW q \in Requests PROVE GoodSteps(todo[q])'
    BY DEF RequestsAreGood
  <2>1. PICK old : old = todo[q] /\ GoodSteps(old)
    BY DEF IInv, RequestsAreGood
  <2>2. PICK new : new = todo'[q]
    OBVIOUS
  <2>3. GoodSteps(new)'
    <3>1. CASE q = r
      <4>1. new = Tail(old) /\ old = steps
        BY <1>8, <2>1, <2>2, <3>1 DEF steps
      <4>2. /\ old # <<>>
            /\ Head(old).do = "log"
                 => Head(old).rec.version \in history'[Head(old).rec.id]
        BY <1>1, <1>7, <4>1 DEF s
      <4>3. GoodSteps(Tail(old))'
        BY <1>7, <2>1, <4>2, TailIsGood
      <4>4. QED
        BY <4>1, <4>3
    <3>2. CASE q # r
      <4>1. new = old
        BY <1>8, <2>1, <2>2, <3>2
      <4>2. QED
        BY <1>7, <2>1, <4>1, HistoryGrows
    <3>3. QED
      BY <3>1, <3>2
  <2>4. QED
    BY <2>2, <2>3 DEF GoodSteps, WriteCovered, CopyAllowed, MayHold
<1>11. HistoryCoversOlderVersions'
  <2> SUFFICES ASSUME NEW m \in Missions, file'[m] # None
               PROVE  1..(file'[m].version - 1) \subseteq history'[file'[m].id]
    BY DEF HistoryCoversOlderVersions, Present
  <2>1. CASE file'[m] = file[m]
    <3>1. Present(m) /\ file[m].id \in Ids
      BY <2>1, OnDisk DEF Present, Record
    <3>2. 1..(file[m].version - 1) \subseteq history[file[m].id]
      BY <3>1, OnDisk
    <3>3. QED
      BY <1>7, <2>1, <3>1, <3>2
  <2>2. CASE file'[m] # file[m]
    <3>1. s.do = "write" /\ file'[m] = s.rec
      BY <1>3, <2>2 DEF IInv, FilesTypeOK, WriteFile, AppendHistory,
                        WriteAgentCopy, RemoveMissionFromAgent, Unlink
    <3>2. 1..(s.rec.version - 1) \subseteq history[s.rec.id]
      BY <1>2, <1>4, <3>1 DEF WriteCovered
    <3>3. QED
      BY <1>5, <1>7, <3>1, <3>2
  <2>3. QED
    BY <2>1, <2>2
<1>12. OnlyAssigneesHold'
  <2> SUFFICES ASSUME NEW a \in Agents, copy'[a] # None
               PROVE  MayHold(a, copy'[a])
    BY DEF OnlyAssigneesHold, MayHold
  <2>1. CASE copy'[a] = copy[a]
    BY <2>1 DEF IInv, OnlyAssigneesHold
  <2>2. CASE copy'[a] # copy[a]
    <3>1. s.do = "copy" /\ s.at = a /\ copy'[a] = s.rec
      BY <1>3, <2>2 DEF IInv, FilesTypeOK, Targets, WriteFile, AppendHistory,
                        WriteAgentCopy, RemoveMissionFromAgent, Unlink
    <3>2. QED
      BY <1>2, <1>4, <3>1 DEF CopyAllowed
  <2>3. QED
    BY <2>1, <2>2
<1>13. QED
  BY <1>9, <1>10, <1>11, <1>12 DEF IInv

\* A harmless step left out takes nothing from the steps behind it.
LEMMA SkipIsGood ==
    ASSUME NEW steps, GoodSteps(steps), steps # <<>>, steps[1].do # "log",
           UNCHANGED history
    PROVE  GoodSteps(Tail(steps))
<1>1. steps \in Seq(Step) /\ Head(steps) = steps[1]
  BY DEF GoodSteps
<1>2. GoodSteps(Tail(steps))'
  BY <1>1, TailIsGood
<1>3. QED
  BY <1>2 DEF GoodSteps, WriteCovered, CopyAllowed, MayHold

\* A request whose next file operation fails leaves out only steps that
\* record nothing, or all of them.
LEMMA StepFailsPreserves ==
    ASSUME IInv, NEW r \in Requests, StepFails(r)
    PROVE  IInv'
<1> DEFINE steps == todo[r]
<1>1. /\ steps # <<>> /\ GoodSteps(steps) /\ steps \in Seq(Step)
      /\ todo' = [todo EXCEPT ![r] = AfterFailure(steps)]
      /\ UNCHANGED <<file, copy, history, created>>
  BY DEF IInv, RequestsAreGood, GoodSteps, StepFails
<1> HIDE DEF steps
<1>2. GoodSteps(AfterFailure(steps))
  <2>1. CASE Head(steps).do = "uncopy"
    <3>1. steps \in Seq(Step)
      BY <1>1
    <3>2. steps[1] = Head(steps)
      BY <3>1
    <3>3. ~InFailover(steps)
      BY <2>1, <3>2 DEF InFailover
    <3>4. AfterFailure(steps) = Tail(steps)
      BY <2>1, <3>3 DEF AfterFailure
    <3>5. QED
      BY <1>1, <2>1, <3>2, <3>4, SkipIsGood
  <2>2. CASE Head(steps).do # "uncopy" /\ InFailover(steps)
    <3> DEFINE s2 == Tail(steps)
               s3 == Tail(s2)
    <3>1. AfterFailure(steps) = Tail(s3)
      BY <2>2 DEF AfterFailure
    <3>2. Len(steps) \in Nat /\ Len(steps) >= 3
      BY <1>1, <2>2, LenProperties DEF InFailover
    <3>3. /\ s2 \in Seq(Step) /\ Len(s2) = Len(steps) - 1
          /\ s2[1] = steps[2] /\ s2[2] = steps[3]
      BY <1>1, <3>2, HeadTailProperties
    <3> HIDE DEF s2
    <3>4. s2 # <<>>
      BY <3>2, <3>3
    <3>5. /\ s3 \in Seq(Step) /\ Len(s3) = Len(s2) - 1
           /\ s3[1] = s2[2]
      BY <3>2, <3>3, <3>4, HeadTailProperties
    <3> HIDE DEF s3
    <3>6. s3 # <<>>
      BY <3>2, <3>3, <3>5
    <3>7. /\ steps[1].do # "log" /\ s2[1].do # "log" /\ s3[1].do # "log"
      BY <2>2, <3>3, <3>5 DEF InFailover
    <3>8. GoodSteps(s2)
      BY <1>1, <3>7, SkipIsGood DEF s2
    <3>9. GoodSteps(s3)
      BY <1>1, <3>4, <3>7, <3>8, SkipIsGood DEF s3
    <3>10. GoodSteps(Tail(s3))
      BY <1>1, <3>6, <3>7, <3>9, SkipIsGood
    <3>11. QED
      BY <3>1, <3>10
  <2>3. CASE Head(steps).do # "uncopy" /\ ~InFailover(steps)
    <3>1. AfterFailure(steps) = <<>>
      BY <2>3 DEF AfterFailure
    <3>2. QED
      BY <3>1 DEF GoodSteps
  <2>4. QED
    BY <2>1, <2>2, <2>3
<1>3. FilesTypeOK'
  BY <1>1, <1>2 DEF IInv, FilesTypeOK, GoodSteps
<1>4. HistoryCoversOlderVersions' /\ OnlyAssigneesHold'
  BY <1>1 DEF IInv, HistoryCoversOlderVersions, OnlyAssigneesHold, Present, MayHold
<1>5. ASSUME NEW q \in Requests PROVE GoodSteps(todo[q])'
  <2>1. GoodSteps(todo'[q])
    BY <1>1, <1>2 DEF IInv, FilesTypeOK, RequestsAreGood
  <2>2. QED
    BY <1>1, <2>1 DEF GoodSteps, WriteCovered, CopyAllowed, MayHold
<1>6. QED
  BY <1>3, <1>4, <1>5 DEF IInv, RequestsAreGood

\* A restart drops what the requests had left to write.
LEMMA RestartPreserves ==
    ASSUME IInv, Restart
    PROVE  IInv'
<1>1. /\ todo' = [r \in Requests |-> <<>>]
      /\ UNCHANGED <<file, copy, history, created>>
  BY DEF Restart
<1>2. FilesTypeOK'
  BY <1>1 DEF IInv, FilesTypeOK
<1>3. HistoryCoversOlderVersions' /\ OnlyAssigneesHold'
  BY <1>1 DEF IInv, HistoryCoversOlderVersions, OnlyAssigneesHold, Present, MayHold
<1>4. ASSUME NEW r \in Requests PROVE GoodSteps(todo[r])'
  BY <1>1 DEF GoodSteps
<1>5. QED
  BY <1>2, <1>3, <1>4 DEF IInv, RequestsAreGood

LEMMA InitEstablishes ==
    ASSUME Init
    PROVE  IInv
<1>1. FilesTypeOK
  BY MissionBoundsAssumption DEF Init, FilesTypeOK
<1>2. HistoryCoversOlderVersions /\ OnlyAssigneesHold
  BY DEF Init, HistoryCoversOlderVersions, OnlyAssigneesHold, Present, Targets
<1>3. RequestsAreGood
  BY DEF Init, RequestsAreGood, GoodSteps
<1>4. QED
  BY <1>1, <1>2, <1>3 DEF IInv

LEMMA NextPreserves ==
    ASSUME IInv, [Next]_vars
    PROVE  IInv'
<1>1. ASSUME NEW r \in Requests, NEW i \in Interfaces, NEW m \in Missions,
             \/ \E t \in Targets : Assign(r, i, m, t)
             \/ Pause(r, i, m) \/ Resume(r, i, m) \/ Complete(r, i, m)
      PROVE  IInv'
  BY <1>1, AssignPreserves, PausePreserves, ResumePreserves, CompletePreserves
<1>2. ASSUME NEW r \in Requests, NEW m \in Missions,
             Create(r, m) \/ Update(r, m) \/ Delete(r, m)
      PROVE  IInv'
  BY <1>2, CreatePreserves, UpdatePreserves, DeletePreserves
<1>3. ASSUME NEW r \in Requests, NEW a \in Agents, Failover(r, a)
      PROVE  IInv'
  BY <1>3, FailoverPreserves
<1>4. ASSUME NEW r \in Requests, TakeStep(r) \/ StepFails(r)
      PROVE  IInv'
  BY <1>4, TakeStepPreserves, StepFailsPreserves
<1>5. CASE Restart
  BY <1>5, RestartPreserves
<1>6. CASE UNCHANGED vars
  BY <1>6 DEF vars, IInv, FilesTypeOK, HistoryCoversOlderVersions, Present,
              OnlyAssigneesHold, RequestsAreGood, GoodSteps, WriteCovered,
              CopyAllowed, MayHold
<1>7. QED
  BY <1>1, <1>2, <1>3, <1>4, <1>5, <1>6 DEF Next

-----------------------------------------------------------------------------
(* The theorems *)

\* The files, the history and the requests' writes have their types, and the
\* properties below hold with what makes them inductive.
THEOREM MissionsInvariant == Spec => []IInv
<1>1. Init => IInv
  BY InitEstablishes
<1>2. IInv /\ [Next]_vars => IInv'
  BY NextPreserves
<1>3. QED
  BY <1>1, <1>2, PTL DEF Spec

\* MissionManager.Update logs the version it is about to overwrite: however
\* the requests overlap, and wherever the gateway dies, no version of a
\* mission on disk lacks the history of the ones before it.
THEOREM HistoryIsKept == Spec => []HistoryCoversOlderVersions
<1>1. IInv => HistoryCoversOlderVersions
  BY DEF IInv
<1>2. QED
  BY <1>1, MissionsInvariant, PTL

\* assignedAgentNames and the coverage agent: whatever overlaps, no body reads
\* a mission that neither it nor its team was assigned, and of a team with a
\* coordinator only the coordinator and the coverage agent read one.
THEOREM OnlyAssignees == Spec => []OnlyAssigneesHold
<1>1. IInv => OnlyAssigneesHold
  BY DEF IInv
<1>2. QED
  BY <1>1, MissionsInvariant, PTL

=============================================================================

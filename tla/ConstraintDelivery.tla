-------------------------- MODULE ConstraintDelivery --------------------------
(***************************************************************************)
(* Delivery of constraint changes from the gateway to one agent's enforcer *)
(* (internal/context, internal/api/agents/handlers_context.go,             *)
(* images/enforcer/constraint.go).                                         *)
(*                                                                         *)
(* The gateway's Manager numbers every pushed constraint set, keeps the    *)
(* history of the agent's changes and starts one delivery goroutine per    *)
(* change.  The goroutine picks the websocket registered at that moment,   *)
(* pushes the change twice at most (alert stage, halt stage) and then      *)
(* either records the enforcer's ack or halts the agent.  Goroutines of    *)
(* different changes, the read loop of each socket, the handler that       *)
(* registers a socket, the enforcer's handler of each socket and the       *)
(* operator all run concurrently.                                          *)
(*                                                                         *)
(* A change is named by its version: ChangeID and Version are both fresh   *)
(* for every change of one gateway process.  Time is left out: a timer may *)
(* fire at any moment of the wait it belongs to.                           *)
(***************************************************************************)
EXTENDS Integers, Sequences, FiniteSets

CONSTANTS
    ConstraintSets,   \* the constraint sets operators push
    Garbled,          \* those whose hash the peer computes differently
    Overrides,        \* severity overrides of a push; NoOverride is ""
    MaxPushes,        \* bound: changes pushed
    MaxConns,         \* bound: sockets accepted
    MaxOps,           \* bound: halts and starts the operator commands
    AckCap            \* capacity of a socket's ack channel (8 in the code)

NoOverride == 0
NoLimit == -1
NoConn == 0
Free == 0

Severity == 1..4
Low == 1
Medium == 2
High == 3

\* The empty map a new agentState and a new enforcer start from.
EmptySet == [caps |-> {}, limit |-> NoLimit]

Versions == 1..MaxPushes
Conns == 1..MaxConns

ASSUME BoundsAssumption ==
    /\ MaxPushes \in Nat /\ MaxConns \in Nat /\ MaxOps \in Nat
    /\ AckCap \in Nat \ {0}

ASSUME InputsAssumption ==
    /\ Garbled \subseteq ConstraintSets
    /\ Overrides \subseteq Severity \cup {NoOverride}
    /\ \A s \in ConstraintSets :
          s = [caps |-> s.caps, limit |-> s.limit] /\ s.limit \in Nat \cup {NoLimit}

VARIABLES
    (* the Manager's record of the agent *)
    history,     \* agentState.history; its last entry is agentState.latest
    baseline,    \* agentState.constraints: the acknowledged set
    client,      \* wsClients[agent], or NoConn
    (* the delivery goroutines, one per change *)
    pc,          \* where the goroutine is
    stage,       \* which of the two pushes it is at
    via,         \* the socket it picked, or NoConn
    (* the gateway's end of each socket (InboundWSClient) *)
    handler,     \* the request handler that accepted it
    pump,        \* its read loop
    closed,      \* its closed flag and done channel
    doomed,      \* sockets some handler is about to Close()
    pushMu,      \* the change whose Push holds the socket's pushMu, or Free
    acks,        \* its acks channel, with the ack a blocked read loop holds
    (* the sockets and the enforcer *)
    link,        \* TRUE while the connection carries data
    toEnf,       \* pushes on their way
    fromEnf,     \* acks on their way
    enf,         \* the enforcer's ConstraintState
    running,     \* the agent's runtime (enforcer and body) is up
    stopping,    \* an operator's halt is between Unregister and Stop
    ops,         \* halts and starts commanded so far
    (* what happened, for the properties *)
    applied,     \* versions the enforcer has swapped in
    confirmed,   \* versions whose delivery received its own ack
    haltTried    \* versions for which haltFunc was called

managerVars == <<history, baseline, client>>
goVars      == <<pc, stage, via>>
sockVars    == <<handler, pump, closed, doomed, pushMu, acks>>
enfVars     == <<link, toEnf, fromEnf, enf>>
lifeVars    == <<running, stopping, ops>>
ghostVars   == <<applied, confirmed, haltTried>>
vars == <<managerVars, goVars, sockVars, enfVars, lifeVars, ghostVars>>

Latest == Len(history)

-----------------------------------------------------------------------------
(* Severity of a change: ClassifySeverity and ApplyEscalation. *)

CapabilitiesRevoked(old, new) == ~(old.caps \subseteq new.caps)

ConstraintsTightened(old, new) ==
    /\ old.limit # NoLimit
    /\ new.limit # NoLimit
    /\ new.limit < old.limit

ClassifySeverity(old, new) ==
    IF CapabilitiesRevoked(old, new) THEN High
    ELSE IF ConstraintsTightened(old, new) THEN Medium ELSE Low

\* An override below the classification is refused.
MayEscalate(auto, override) == override = NoOverride \/ override >= auto

ApplyEscalation(auto, override) == IF override = NoOverride THEN auto ELSE override

-----------------------------------------------------------------------------
Statuses == {"pending", "acked", "timeout", "hash_mismatch", "halted"}
Change == [set : ConstraintSets, severity : Severity, status : Statuses]
Ack == [version : Versions, intact : BOOLEAN]

PcLabels == {"unpushed", "resolve", "lock", "await", "ack", "mismatch",
             "expired", "halting", "halted", "done"}

TypeOK ==
    /\ history \in Seq(Change) /\ Latest <= MaxPushes
    /\ baseline \in ConstraintSets \cup {EmptySet}
    /\ client \in Conns \cup {NoConn}
    /\ pc \in [Versions -> PcLabels]
    /\ stage \in [Versions -> {1, 2}]
    /\ via \in [Versions -> Conns \cup {NoConn}]
    /\ handler \in [Conns -> {"unused", "accepted", "registered"}]
    /\ pump \in [Conns -> {"unused", "reading", "closing", "ended"}]
    /\ closed \in [Conns -> BOOLEAN]
    /\ doomed \in SUBSET Conns
    /\ pushMu \in [Conns -> Versions \cup {Free}]
    /\ acks \in [Conns -> Seq(Ack)]
    /\ link \in [Conns -> BOOLEAN]
    /\ toEnf \in [Conns -> Seq(Versions)]
    /\ fromEnf \in [Conns -> Seq(Ack)]
    /\ enf \in [version : Versions \cup {0}, set : ConstraintSets \cup {EmptySet}]
    /\ running \in BOOLEAN /\ stopping \in BOOLEAN /\ ops \in 0..MaxOps
    /\ applied \in SUBSET Versions
    /\ confirmed \in SUBSET Versions
    /\ haltTried \in SUBSET Versions

FreshEnforcer == [version |-> 0, set |-> EmptySet]

Init ==
    /\ history = <<>>
    /\ baseline = EmptySet
    /\ client = NoConn
    /\ pc = [v \in Versions |-> "unpushed"]
    /\ stage = [v \in Versions |-> 1]
    /\ via = [v \in Versions |-> NoConn]
    /\ handler = [c \in Conns |-> "unused"]
    /\ pump = [c \in Conns |-> "unused"]
    /\ closed = [c \in Conns |-> FALSE]
    /\ doomed = {}
    /\ pushMu = [c \in Conns |-> Free]
    /\ acks = [c \in Conns |-> <<>>]
    /\ link = [c \in Conns |-> FALSE]
    /\ toEnf = [c \in Conns |-> <<>>]
    /\ fromEnf = [c \in Conns |-> <<>>]
    /\ enf = FreshEnforcer
    /\ running = TRUE
    /\ stopping = FALSE
    /\ ops = 0
    /\ applied = {}
    /\ confirmed = {}
    /\ haltTried = {}

-----------------------------------------------------------------------------
\* Fault: the pushed set becomes the baseline before anyone acknowledged it.
PushAssumesAck(set, override) ==
    LET auto == ClassifySeverity(baseline, set)
        new  == [set |-> set, severity |-> ApplyEscalation(auto, override),
                 status |-> "pending"]
    IN  /\ Latest < MaxPushes
        /\ MayEscalate(auto, override)
        /\ history' = Append(history, new)
        /\ baseline' = set
        /\ pc' = [pc EXCEPT ![Latest + 1] = "resolve"]
        /\ UNCHANGED <<client, stage, via, sockVars, enfVars, lifeVars, ghostVars>>

\* The operator pushes a change.  Manager.Push appends it as the latest
\* change, whatever became of the one before, and the handler starts its
\* delivery.

Push(set, override) ==
    LET auto == ClassifySeverity(baseline, set)
        new  == [set |-> set, severity |-> ApplyEscalation(auto, override),
                 status |-> "pending"]
    IN  /\ Latest < MaxPushes
        /\ MayEscalate(auto, override)
        /\ history' = Append(history, new)
        /\ pc' = [pc EXCEPT ![Latest + 1] = "resolve"]
        /\ UNCHANGED <<baseline, client, stage, via, sockVars, enfVars, lifeVars, ghostVars>>

(***************************************************************************)
(* The delivery goroutine of change v                                      *)
(***************************************************************************)

\* The socket is looked up once; without one the goroutine gives up.
Resolve(v) ==
    /\ pc[v] = "resolve"
    /\ via' = [via EXCEPT ![v] = client]
    /\ pc' = [pc EXCEPT ![v] = IF client = NoConn THEN "done" ELSE "lock"]
    /\ UNCHANGED <<managerVars, stage, sockVars, enfVars, lifeVars, ghostVars>>

\* Fault: the stages are counted but never end.
StageRetriesForEver(v) ==
    /\ stage' = [stage EXCEPT ![v] = @ + 1]
    /\ pc' = [pc EXCEPT ![v] = "lock"]

\* A failed Push: the second stage follows the first, then the halt.
StageFails(v) ==
    IF stage[v] = 1
    THEN /\ stage' = [stage EXCEPT ![v] = 2]
         /\ pc' = [pc EXCEPT ![v] = "lock"]
    ELSE /\ pc' = [pc EXCEPT ![v] = "expired"]
         /\ UNCHANGED stage

\* Fault: Push does not take pushMu.
SendPushUnlocked(v) ==
    LET c == via[v] IN
    /\ pc[v] = "lock"
    /\ ~closed[c]
    /\ pushMu' = [pushMu EXCEPT ![c] = v]
    /\ toEnf' = [toEnf EXCEPT ![c] = IF link[c] THEN Append(@, v) ELSE @]
    /\ pc' = [pc EXCEPT ![v] = "await"]
    /\ UNCHANGED <<managerVars, stage, via, handler, pump, closed, doomed, acks,
                   link, fromEnf, enf, lifeVars, ghostVars>>

\* InboundWSClient.Push takes pushMu and writes the message.
SendPush(v) ==
    LET c == via[v] IN
    /\ pc[v] = "lock"
    /\ pushMu[c] = Free
    /\ ~closed[c]
    /\ pushMu' = [pushMu EXCEPT ![c] = v]
    /\ toEnf' = [toEnf EXCEPT ![c] = IF link[c] THEN Append(@, v) ELSE @]
    /\ pc' = [pc EXCEPT ![v] = "await"]
    /\ UNCHANGED <<managerVars, stage, via, handler, pump, closed, doomed, acks,
                   link, fromEnf, enf, lifeVars, ghostVars>>

\* Push returns at once on a closed client, or when the write fails.
PushRefused(v) ==
    LET c == via[v] IN
    /\ pc[v] = "lock"
    /\ pushMu[c] = Free
    /\ closed[c] \/ ~link[c]
    /\ StageFails(v)
    /\ UNCHANGED <<managerVars, via, sockVars, enfVars, lifeVars, ghostVars>>

\* Fault: any ack ends the wait.
MatchesAny(ack, v) == TRUE

Matches(ack, v) == ack.version = v

\* The select loop of Push receives an ack from the channel: its own ends the
\* wait, any other is dropped.
TakeAck(v) ==
    LET c == via[v]
        ack == Head(acks[c])
    IN  /\ pc[v] = "await"
        /\ acks[c] # <<>>
        /\ Matches(ack, v)
        /\ acks' = [acks EXCEPT ![c] = Tail(@)]
        /\ pushMu' = [pushMu EXCEPT ![c] = Free]
        /\ pc' = [pc EXCEPT ![v] = IF ack.intact THEN "ack" ELSE "mismatch"]
        /\ confirmed' = confirmed \cup {v}
        /\ UNCHANGED <<managerVars, stage, via, handler, pump, closed, doomed, enfVars,
                       lifeVars, applied, haltTried>>

DropAck(v) ==
    LET c == via[v] IN
    /\ pc[v] = "await"
    /\ acks[c] # <<>>
    /\ ~Matches(Head(acks[c]), v)
    /\ acks' = [acks EXCEPT ![c] = Tail(@)]
    /\ UNCHANGED <<managerVars, goVars, handler, pump, closed, doomed, pushMu, enfVars,
                   lifeVars, ghostVars>>

\* Fault: the wait has no timer.
PushFailsWhenClosed(v) ==
    LET c == via[v] IN
    /\ pc[v] = "await"
    /\ closed[c]
    /\ pushMu' = [pushMu EXCEPT ![c] = Free]
    /\ StageFails(v)
    /\ UNCHANGED <<managerVars, via, handler, pump, closed, doomed, acks, enfVars,
                   lifeVars, ghostVars>>

\* The timer fires, or the done channel is closed.
PushFails(v) ==
    LET c == via[v] IN
    /\ pc[v] = "await"
    /\ pushMu' = [pushMu EXCEPT ![c] = Free]
    /\ StageFails(v)
    /\ UNCHANGED <<managerVars, via, handler, pump, closed, doomed, acks, enfVars,
                   lifeVars, ghostVars>>

\* Fault: Ack does not compare the change with the latest one.
AckSuperseded(v) ==
    /\ pc[v] = "ack"
    /\ pc' = [pc EXCEPT ![v] = "done"]
    /\ history' = [history EXCEPT ![v].status = "acked"]
    /\ baseline' = history[v].set
    /\ UNCHANGED <<client, stage, via, sockVars, enfVars, lifeVars, ghostVars>>

\* Manager.Ack: only the latest change can be acknowledged, and an
\* acknowledged set becomes the baseline the next change is compared with.
AckChange(v) ==
    /\ pc[v] = "ack"
    /\ pc' = [pc EXCEPT ![v] = "done"]
    /\ IF v = Latest
       THEN /\ history' = [history EXCEPT ![v].status = "acked"]
            /\ baseline' = history[v].set
       ELSE UNCHANGED <<history, baseline>>
    /\ UNCHANGED <<client, stage, via, sockVars, enfVars, lifeVars, ghostVars>>

\* Faults: the status of the latest change is set whatever change timed out;
\* the new status does not reach the history.
SetStatusOfLatest(v, status) == history' = [history EXCEPT ![Latest].status = status]
SetStatusNowhere(v, status) == history' = history

\* MarkTimeout, MarkHalted and Ack's mismatch branch change the latest change
\* only, and copy it to the history (syncLatestToHistory).
SetStatus(v, status) ==
    history' = IF v = Latest THEN [history EXCEPT ![v].status = status] ELSE history

RejectAck(v) ==
    /\ pc[v] = "mismatch"
    /\ pc' = [pc EXCEPT ![v] = "done"]
    /\ SetStatus(v, "hash_mismatch")
    /\ UNCHANGED <<baseline, client, stage, via, sockVars, enfVars, lifeVars, ghostVars>>

\* Fault: a superseded change ends its delivery without a halt.
MarkTimeoutOfLatest(v) ==
    /\ pc[v] = "expired"
    /\ pc' = [pc EXCEPT ![v] = IF v = Latest THEN "halting" ELSE "done"]
    /\ SetStatus(v, "timeout")
    /\ UNCHANGED <<baseline, client, stage, via, sockVars, enfVars, lifeVars, ghostVars>>

MarkTimeout(v) ==
    /\ pc[v] = "expired"
    /\ pc' = [pc EXCEPT ![v] = "halting"]
    /\ SetStatus(v, "timeout")
    /\ UNCHANGED <<baseline, client, stage, via, sockVars, enfVars, lifeVars, ghostVars>>

\* The runtime goes down: its enforcer dies with it, and so do the sockets.
RuntimeStops ==
    /\ running' = FALSE
    /\ link' = [c \in Conns |-> FALSE]
    /\ toEnf' = [c \in Conns |-> <<>>]
    /\ enf' = FreshEnforcer
    /\ UNCHANGED fromEnf

\* haltFunc, that is HaltForUnackedConstraint; Runtime.Stop may fail.
HaltAgent(v) ==
    /\ pc[v] = "halting"
    /\ haltTried' = haltTried \cup {v}
    /\ \/ /\ pc' = [pc EXCEPT ![v] = "halted"]
          /\ RuntimeStops
       \/ /\ pc' = [pc EXCEPT ![v] = "done"]
          /\ UNCHANGED <<enfVars, running>>
    /\ UNCHANGED <<managerVars, stage, via, sockVars, stopping, ops, applied, confirmed>>

MarkHalted(v) ==
    /\ pc[v] = "halted"
    /\ pc' = [pc EXCEPT ![v] = "done"]
    /\ SetStatus(v, "halted")
    /\ UNCHANGED <<baseline, client, stage, via, sockVars, enfVars, lifeVars, ghostVars>>

(***************************************************************************)
(* The gateway's end of socket c                                           *)
(***************************************************************************)

\* connectContextWS upgrades the connection; NewInboundWSClient starts the
\* read loop before the client is registered.
Accept(c) ==
    /\ running
    /\ handler[c] = "unused"
    /\ \A d \in Conns : d < c => handler[d] # "unused"
    /\ handler' = [handler EXCEPT ![c] = "accepted"]
    /\ pump' = [pump EXCEPT ![c] = "reading"]
    /\ link' = [link EXCEPT ![c] = TRUE]
    /\ UNCHANGED <<managerVars, goVars, closed, doomed, pushMu, acks, toEnf, fromEnf, enf,
                   lifeVars, ghostVars>>

\* RegisterWSClient replaces the client and closes the one before.
Register(c) ==
    /\ handler[c] = "accepted"
    /\ handler' = [handler EXCEPT ![c] = "registered"]
    /\ client' = c
    /\ doomed' = IF client = NoConn THEN doomed ELSE doomed \cup {client}
    /\ UNCHANGED <<history, baseline, goVars, pump, closed, pushMu, acks, enfVars, lifeVars,
                   ghostVars>>

\* The Close() that follows RegisterWSClient's and UnregisterWSClient's update.
CloseReplaced(c) ==
    /\ c \in doomed
    /\ doomed' = doomed \ {c}
    /\ closed' = [closed EXCEPT ![c] = TRUE]
    /\ UNCHANGED <<managerVars, goVars, handler, pump, pushMu, acks, enfVars, lifeVars,
                   ghostVars>>

\* The read loop is stuck on a full channel, one more ack in its hands.
Blocked(c) == Len(acks[c]) > AckCap

ReadAck(c) ==
    /\ pump[c] = "reading"
    /\ fromEnf[c] # <<>>
    /\ ~Blocked(c)
    /\ acks' = [acks EXCEPT ![c] = Append(@, Head(fromEnf[c]))]
    /\ fromEnf' = [fromEnf EXCEPT ![c] = Tail(@)]
    /\ UNCHANGED <<managerVars, goVars, handler, pump, closed, doomed, pushMu, link, toEnf,
                   enf, lifeVars, ghostVars>>

\* Fault: the read loop hands an ack over without watching the done channel.
ReadFailsUnlessBlocked(c) ==
    /\ pump[c] = "reading"
    /\ ~Blocked(c)
    /\ closed[c] \/ ~link[c]
    /\ closed' = [closed EXCEPT ![c] = TRUE]
    /\ pump' = [pump EXCEPT ![c] = "closing"]
    /\ fromEnf' = [fromEnf EXCEPT ![c] = <<>>]
    /\ UNCHANGED <<managerVars, goVars, handler, doomed, pushMu, acks, link, toEnf, enf,
                   lifeVars, ghostVars>>

\* The read loop ends: the read failed, or the client was closed.
ReadFails(c) ==
    /\ pump[c] = "reading"
    /\ closed[c] \/ (~link[c] /\ ~Blocked(c))
    /\ closed' = [closed EXCEPT ![c] = TRUE]
    /\ pump' = [pump EXCEPT ![c] = "closing"]
    /\ acks' = [acks EXCEPT ![c] = IF Blocked(c) THEN SubSeq(@, 1, AckCap) ELSE @]
    /\ fromEnf' = [fromEnf EXCEPT ![c] = <<>>]
    /\ UNCHANGED <<managerVars, goVars, handler, doomed, pushMu, link, toEnf, enf,
                   lifeVars, ghostVars>>

\* Fault: the callback removes whatever client is registered.
OnDisconnectAny(c) ==
    /\ pump[c] = "closing"
    /\ pump' = [pump EXCEPT ![c] = "ended"]
    /\ client' = NoConn
    /\ UNCHANGED <<history, baseline, goVars, handler, closed, doomed, pushMu, acks, enfVars,
                   lifeVars, ghostVars>>

\* onDisconnect: UnregisterWSClientMatch leaves a newer client alone.
OnDisconnect(c) ==
    /\ pump[c] = "closing"
    /\ pump' = [pump EXCEPT ![c] = "ended"]
    /\ client' = IF client = c THEN NoConn ELSE client
    /\ UNCHANGED <<history, baseline, goVars, handler, closed, doomed, pushMu, acks, enfVars,
                   lifeVars, ghostVars>>

(***************************************************************************)
(* The network and the enforcer's handler of socket c                      *)
(***************************************************************************)

LinkDrops(c) ==
    /\ link[c]
    /\ link' = [link EXCEPT ![c] = FALSE]
    /\ UNCHANGED <<managerVars, goVars, sockVars, toEnf, fromEnf, enf, lifeVars,
                   ghostVars>>

\* An ack written to a socket nobody reads any more is lost.
Reply(c, ack) ==
    fromEnf' = [fromEnf EXCEPT ![c] = IF link[c] /\ ~closed[c] THEN Append(@, ack) ELSE @]

\* handleWS verifies the hash, swaps the state in and acks.  It compares
\* versions with nothing.
ApplyPush(c) ==
    LET v == Head(toEnf[c]) IN
    /\ toEnf[c] # <<>>
    /\ history[v].set \notin Garbled
    /\ toEnf' = [toEnf EXCEPT ![c] = Tail(@)]
    /\ enf' = [version |-> v, set |-> history[v].set]
    /\ Reply(c, [version |-> v, intact |-> TRUE])
    /\ applied' = applied \cup {v}
    /\ UNCHANGED <<managerVars, goVars, sockVars, link, lifeVars, confirmed, haltTried>>

RefusePush(c) ==
    LET v == Head(toEnf[c]) IN
    /\ toEnf[c] # <<>>
    /\ history[v].set \in Garbled
    /\ toEnf' = [toEnf EXCEPT ![c] = Tail(@)]
    /\ Reply(c, [version |-> v, intact |-> FALSE])
    /\ UNCHANGED <<managerVars, goVars, sockVars, link, enf, lifeVars, ghostVars>>

\* The enforcer's read fails: what was on its way is gone.
ServeEnds(c) ==
    /\ toEnf[c] # <<>>
    /\ ~link[c] \/ closed[c]
    /\ toEnf' = [toEnf EXCEPT ![c] = <<>>]
    /\ UNCHANGED <<managerVars, goVars, sockVars, link, fromEnf, enf, lifeVars, ghostVars>>

(***************************************************************************)
(* The operator halts and starts the agent                                 *)
(***************************************************************************)

\* haltAgent and restartAgent first remove and close the registered client.
Unregister ==
    /\ ~stopping
    /\ ops < MaxOps
    /\ ops' = ops + 1
    /\ stopping' = TRUE
    /\ client' = NoConn
    /\ doomed' = IF client = NoConn THEN doomed ELSE doomed \cup {client}
    /\ UNCHANGED <<history, baseline, goVars, handler, pump, closed, pushMu, acks, enfVars,
                   running, ghostVars>>

StopRuntime ==
    /\ stopping
    /\ stopping' = FALSE
    /\ \/ RuntimeStops
       \/ UNCHANGED <<enfVars, running>>     \* Runtime.Stop failed
    /\ UNCHANGED <<managerVars, goVars, sockVars, ops, ghostVars>>

\* A started enforcer begins with the empty constraint state.
StartRuntime ==
    /\ ~running /\ ~stopping
    /\ ops < MaxOps
    /\ ops' = ops + 1
    /\ running' = TRUE
    /\ UNCHANGED <<managerVars, goVars, sockVars, enfVars, stopping, ghostVars>>

-----------------------------------------------------------------------------
Deliver(v) ==
    \/ Resolve(v) \/ SendPush(v) \/ PushRefused(v) \/ TakeAck(v) \/ DropAck(v)
    \/ PushFails(v) \/ AckChange(v) \/ RejectAck(v) \/ MarkTimeout(v)
    \/ HaltAgent(v) \/ MarkHalted(v)

Socket(c) ==
    \/ Register(c) \/ CloseReplaced(c) \/ ReadAck(c) \/ ReadFails(c) \/ OnDisconnect(c)

Enforcer(c) == ApplyPush(c) \/ RefusePush(c) \/ ServeEnds(c)

Operator ==
    \/ \E s \in ConstraintSets, o \in Overrides : Push(s, o)
    \/ Unregister \/ StopRuntime \/ StartRuntime

Next ==
    \/ Operator
    \/ \E v \in Versions : Deliver(v)
    \/ \E c \in Conns : Accept(c) \/ LinkDrops(c) \/ Socket(c) \/ Enforcer(c)

\* The gateway's goroutines keep running and their timers fire.  Nothing is
\* asked of the operator, the network, or the peer.
Fairness ==
    /\ \A v \in Versions :
          /\ WF_vars(Resolve(v)) /\ WF_vars(SendPush(v) \/ PushRefused(v))
          /\ WF_vars(PushFails(v)) /\ WF_vars(AckChange(v)) /\ WF_vars(RejectAck(v))
          /\ WF_vars(MarkTimeout(v)) /\ WF_vars(HaltAgent(v)) /\ WF_vars(MarkHalted(v))
    /\ \A c \in Conns : WF_vars(Socket(c))

Spec == Init /\ [][Next]_vars
FairSpec == Spec /\ Fairness

-----------------------------------------------------------------------------
(* Safety *)

\* A change the Manager reports as acked was swapped in by the enforcer: acks
\* of other changes, duplicates of an earlier stage included, and acks that
\* arrive late never acknowledge it (Push's match, Ack's change_id check).
AckedWasApplied ==
    \A v \in 1..Latest : history[v].status = "acked" => v \in applied

AckedVersions == {v \in 1..Latest : history[v].status = "acked"}

\* The baseline that GET /context/constraints reports and that severity is
\* judged against is the set of the newest acknowledged change, never one that
\* was superseded, mismatched or timed out (Manager.Ack).
BaselineIsNewestAcked ==
    \/ AckedVersions = {} /\ baseline = EmptySet
    \/ \E v \in AckedVersions :
          /\ \A u \in AckedVersions : u <= v
          /\ baseline = history[v].set

\* While the latest change is undecided its severity is not below what
\* ClassifySeverity says of it against the current baseline: acks of
\* superseded changes are refused, so the baseline cannot move under it.
PendingSeverityCurrent ==
    Latest > 0 /\ history[Latest].status # "acked" =>
        history[Latest].severity >= ClassifySeverity(baseline, history[Latest].set)

\* A registered socket that nobody closed or replaced is the one deliveries
\* use: the disconnect callback of an older socket never removes a newer one
\* (UnregisterWSClientMatch).
LiveTransportRegistered ==
    \A c \in Conns :
        handler[c] = "registered" /\ pump[c] = "reading" /\ ~closed[c] /\ c \notin doomed
            => client = c

\* A delivery that had a socket and ended without an answer to its change called
\* the halt function (tenet 6: unacknowledged constraint changes trigger halt,
\* manager.go:374-382).  An ack of the change is an answer be its hash right or
\* wrong: after a wrong one nobody is halted, see FailedAckEscalates.
UnansweredIsHalted ==
    \A v \in Versions :
        pc[v] = "done" /\ via[v] # NoConn /\ v \notin confirmed => v \in haltTried

\* Violated.  An ack whose hash does not match is "a failed ack - same escalation
\* path as timeout" (mid-session-constraint-push.md:187): the delivery of a change
\* that ended so called the halt function.  Ack's mismatch branch only sets the
\* status (manager.go:125-140).
FailedAckEscalates ==
    \A v \in 1..Latest :
        pc[v] = "done" /\ history[v].status = "hash_mismatch" => v \in haltTried

\* The latest change is not left pending by a delivery that had a socket, and
\* the verdict it gets is the one its delivery reached.
VerdictOfLatest ==
    Latest > 0 /\ pc[Latest] = "done" /\ via[Latest] # NoConn =>
        \/ Latest \in confirmed /\ history[Latest].status \in {"acked", "hash_mismatch"}
        \/ Latest \in haltTried /\ history[Latest].status \in {"timeout", "halted"}

\* The history is append-only: a superseded change keeps its entry for ever,
\* and the latest one moves from pending to a verdict once (tenet 7).
HistoryImmutable ==
    [][ /\ Latest <= Len(history')
        /\ \A v \in 1..Latest :
              history'[v] # history[v] =>
                  /\ v = Len(history')
                  /\ history'[v] = [history[v] EXCEPT !.status = history'[v].status]
                  /\ \/ history[v].status = "pending" /\ history'[v].status # "halted"
                     \/ history[v].status = "timeout" /\ history'[v].status = "halted"
      ]_history

\* No Push throws away the ack another Push is waiting for: pushes on one
\* socket take turns (pushMu).
NoAckStolen ==
    [][ \A c \in Conns, v \in Versions :
            /\ acks[c] # <<>> /\ acks'[c] = Tail(acks[c]) /\ pump'[c] = pump[c]
            /\ pc[v] = "await" /\ via[v] = c /\ Matches(Head(acks[c]), v)
          => v \in confirmed' ]_vars

(* Liveness *)

\* Every delivery comes to an end, whatever the peer and the network do.
DeliveryEnds == \A v \in Versions : pc[v] = "resolve" ~> pc[v] = "done"

\* A socket that was replaced or unregistered is closed and its read loop ends,
\* even when it is stuck on a full ack channel (the Close of RegisterWSClient
\* and UnregisterWSClient, the done case of readPump).
ReplacedSocketsEnd ==
    \A c \in Conns : c \in doomed ~> closed[c] /\ pump[c] = "ended"

(* What makes the safety properties inductive *)

\* The goroutines that exist are those of the changes in the history, and only
\* changes in the history travel.
OnlyPushedTravel ==
    /\ \A v \in Versions : pc[v] # "unpushed" <=> v <= Latest
    /\ \A c \in Conns : \A i \in 1..Len(toEnf[c]) : toEnf[c][i] <= Latest

\* The status of a change lags behind its goroutine, and only a change that
\* was the latest at the time has a status other than pending.
StatusFollowsDelivery ==
    \A v \in 1..Latest :
        /\ pc[v] \in {"resolve", "lock", "await", "ack", "mismatch", "expired"}
              => history[v].status = "pending"
        /\ v = Latest /\ pc[v] \in {"halting", "halted"} => history[v].status = "timeout"

\* A goroutine that pushes has a socket, and holds its pushMu while it waits.
PushesTakeTurns ==
    \A v \in Versions :
        /\ pc[v] \in {"lock", "await"} => via[v] \in Conns
        /\ pc[v] = "await" => pushMu[via[v]] = v

\* An ack that says the set arrived intact, wherever it is, is the ack of a
\* change the enforcer swapped in.
AcksAreSound ==
    /\ \A c \in Conns :
          /\ \A i \in 1..Len(acks[c]) : acks[c][i].intact => acks[c][i].version \in applied
          /\ \A i \in 1..Len(fromEnf[c]) :
                fromEnf[c][i].intact => fromEnf[c][i].version \in applied
    /\ \A v \in Versions : pc[v] = "ack" => v \in applied

\* What a goroutine went through is on record.
DeliveryOnRecord ==
    \A v \in Versions :
        /\ pc[v] \in {"ack", "mismatch"} => v \in confirmed
        /\ pc[v] = "halted" => v \in haltTried

\* An ack or a halt on record belongs to a goroutine that is past it.
RecordIsFinal ==
    \A v \in Versions :
        /\ v \in haltTried => pc[v] \in {"halted", "done"}
        /\ v \in confirmed => pc[v] \in {"ack", "mismatch", "done"}

IInv ==
    /\ TypeOK /\ OnlyPushedTravel /\ StatusFollowsDelivery /\ PushesTakeTurns
    /\ AcksAreSound /\ DeliveryOnRecord
    /\ AckedWasApplied /\ BaselineIsNewestAcked /\ PendingSeverityCurrent
    /\ UnansweredIsHalted /\ VerdictOfLatest /\ LiveTransportRegistered

(***************************************************************************)
(* The delivery implements the promise of ConstraintPromise                *)
(***************************************************************************)

\* A delivery that halts the agent ends with the order: Runtime.Stop may fail,
\* and MarkHalted only relabels the verdict.
DeliveryOf(v) ==
    IF v \in haltTried THEN "halted"
    ELSE IF pc[v] # "done" THEN "open"
    ELSE IF v \in confirmed THEN "answered"
    ELSE IF via[v] = NoConn THEN "unsent" ELSE "open"

VerdictOf(v) ==
    IF v > Latest \/ history[v].status = "pending" THEN "open"
    ELSE IF history[v].status = "acked" THEN "accepted"
    ELSE IF history[v].status = "hash_mismatch" THEN "refused"
    ELSE "expired"

Promise == INSTANCE ConstraintPromise WITH
    Sets <- ConstraintSets,
    Initial <- EmptySet,
    MaxChanges <- MaxPushes,
    last <- Latest,
    set <- [v \in Versions |-> IF v <= Latest THEN history[v].set ELSE EmptySet],
    verdict <- [v \in Versions |-> VerdictOf(v)],
    delivery <- [v \in Versions |-> DeliveryOf(v)],
    accepted <- baseline,
    inForce <- applied

\* Whatever the sockets, timers and halts do, an operator sees changes issued in
\* order, the newest decided once, a set accepted only after the agent enforced
\* it, and each delivery closed once, by its answer, a halt order, or for want
\* of a socket (Manager.Push, deliverAsync, Ack, MarkTimeout).
KeepsPromise == Promise!Spec

=============================================================================

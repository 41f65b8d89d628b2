----------------------------- MODULE TaskDelivery -----------------------------
(***************************************************************************)
(* An event on its way to an agent (internal/events/bus.go and             *)
(* deliver_agent.go, services/comms/server.py and websocket.py,            *)
(* images/body/ws_listener.py and the main loop of images/body/body.py).   *)
(*                                                                         *)
(* The gateway posts the event to comms and retries; comms makes a task of *)
(* each request, writes it over the one before it in session-context.json  *)
(* and pushes it over the websocket its registry holds for the agent; the  *)
(* body's listener queues what the socket brings, and the file's task on   *)
(* every connect; the main loop runs what is queued and, when idle, polls  *)
(* the file.  A direct message is pushed when it is said, and comes a      *)
(* second time as the task the gateway makes of it.                        *)
(*                                                                         *)
(* An item is a pair: <<e, n>> is the task comms makes of the n-th request *)
(* for event e, <<e, 0>> is the message e itself.                          *)
(***************************************************************************)
EXTENDS Integers, Sequences, FiniteSets, SequencesExt

CONSTANTS
    Triggers,     \* events that match a mission's route to the agent
    Direct,       \* messages said in the agent's DM channel
    Shared,       \* is the host's state directory mounted in the body?
    MaxTries,     \* bound: posts of each event (60 in the code)
    MaxSockets,   \* bound: websockets of the body
    MaxFaults,    \* bound: crashes, halts, broken sockets, lost answers
    None

Events == Triggers \cup Direct
Tasks == UNION {{e} \X (1..MaxTries[e]) : e \in Events}
Messages == Direct \X {0}
Items == Tasks \cup Messages
Sockets == 1..MaxSockets

ASSUME DeliveryAssumption ==
    /\ Triggers \cap Direct = {} /\ IsFiniteSet(Direct)
    /\ Shared \in BOOLEAN
    /\ MaxTries \in [Events -> Nat \ {0}]
    /\ MaxSockets \in Nat /\ MaxFaults \in Nat
    /\ None \notin Items \cup Sockets

VARIABLES
    (* the gateway *)
    publish,     \* Publish of each event
    tries,       \* requests it has posted
    clearing,    \* loadAgentDetail found the file's task complete
    (* comms *)
    requests,    \* requests comms has yet to handle
    said,        \* direct messages in its store
    slot,        \* current_task in session-context.json
    registry,    \* the agent's entry in ConnectionRegistry
    server,      \* each socket as its handler in comms sees it
    wire,        \* what was sent over each socket and not received
    (* the body *)
    body,
    client,      \* the listener's socket
    caughtUp,    \* it has read the file and the missed messages
    lostAt,      \* what had been said at disconnect_at; Direct when it is unset
    queue,       \* _event_queue
    running,     \* the task or reply in _conversation_loop
    lastTask,    \* _last_task_hash
    answered,    \* _recent_idle_message_ids
    complete,    \* tasks with a task_complete signal
    (* what happened *)
    polls,       \* tasks the poll took in this life of the body
    replies,     \* messages answered in this life
    ran,         \* tasks begun, ever
    buried,      \* tasks created before the last halt
    faults

gatewayVars == <<publish, tries, clearing>>
commsVars == <<requests, said, slot, registry, server, wire>>
bodyVars == <<body, client, caughtUp, lostAt, queue, running, lastTask,
              answered, complete, polls, replies, ran>>
vars == <<gatewayVars, commsVars, bodyVars, buried, faults>>

IsDirect(i) == i[1] \in Direct
\* Requests no longer under way: handled, refused or lost.
Settled == {i \in Tasks : i[2] <= tries[i[1]] /\ i \notin requests}
Fault == faults < MaxFaults /\ faults' = faults + 1

TypeOK ==
    /\ publish \in [Events -> {"idle", "posting", "done"}]
    /\ tries \in [Events -> Nat] /\ \A e \in Events : tries[e] <= MaxTries[e]
    /\ clearing \in BOOLEAN
    /\ requests \subseteq Tasks
    /\ said \subseteq Direct
    /\ slot \in Settled \cup {None}
    /\ registry \in Sockets \cup {None}
    /\ server \in [Sockets -> {"new", "accepted", "open", "closing", "gone"}]
    /\ wire \in [Sockets -> Seq(Items)]
    /\ body \in {"up", "crashed", "halting", "halted"}
    /\ client \in Sockets \cup {None}
    /\ caughtUp \in BOOLEAN
    /\ lostAt \subseteq Direct
    /\ queue \in Seq(Items)
    /\ running \in Items \cup {None}
    /\ lastTask \in Tasks \cup {None}
    /\ answered \subseteq Direct
    /\ complete \subseteq ran
    /\ polls \in Seq(Tasks) /\ replies \in Seq(Direct)
    /\ ran \subseteq Settled
    /\ buried \subseteq Tasks
    /\ faults \in 0..MaxFaults

Init ==
    /\ publish = [e \in Events |-> "idle"]
    /\ tries = [e \in Events |-> 0]
    /\ clearing = FALSE
    /\ requests = {} /\ said = {}
    /\ slot = None /\ registry = None
    /\ server = [s \in Sockets |-> "new"]
    /\ wire = [s \in Sockets |-> <<>>]
    /\ body = "up"
    /\ client = None /\ caughtUp = FALSE /\ lostAt = Direct
    /\ queue = <<>> /\ running = None
    /\ lastTask = None /\ answered = {}
    /\ complete = {} /\ polls = <<>> /\ replies = <<>> /\ ran = {}
    /\ buried = {} /\ faults = 0

-----------------------------------------------------------------------------
(* The gateway. *)

\* Fault: the request is not counted.
PublishUncounted(e) ==
    /\ publish[e] = "idle"
    /\ e \in Direct => e \in said
    /\ publish' = [publish EXCEPT ![e] = "posting"]
    /\ requests' = requests \cup {<<e, 1>>}
    /\ UNCHANGED <<tries, clearing, said, slot, registry, server, wire,
                   bodyVars, buried, faults>>

\* Publish matches the event, and Deliver posts it.  A direct message was
\* said before the gateway could hear of it.
Publish(e) ==
    /\ publish[e] = "idle"
    /\ e \in Direct => e \in said
    /\ publish' = [publish EXCEPT ![e] = "posting"]
    /\ tries' = [tries EXCEPT ![e] = 1]
    /\ requests' = requests \cup {<<e, 1>>}
    /\ UNCHANGED <<clearing, said, slot, registry, server, wire,
                   bodyVars, buried, faults>>

\* The client gives up on a post, which may have been handled, be on its way
\* still or never arrive, and posts again; after the last post it is done.
Retry(e) ==
    /\ publish[e] = "posting"
    /\ Fault
    /\ \E arrives \in SUBSET (requests \cap {<<e, tries[e]>>}) :
           LET left == (requests \ {<<e, tries[e]>>}) \cup arrives
           IN  IF tries[e] < MaxTries[e]
               THEN /\ tries' = [tries EXCEPT ![e] = @ + 1]
                    /\ requests' = left \cup {<<e, tries[e] + 1>>}
                    /\ UNCHANGED publish
               ELSE /\ publish' = [publish EXCEPT ![e] = "done"]
                    /\ requests' = left
                    /\ UNCHANGED tries
    /\ UNCHANGED <<clearing, said, slot, registry, server, wire,
                   bodyVars, buried>>

\* loadAgentDetail reads the file and, when the signals say that its task is
\* complete, writes it back without the task.
FindComplete ==
    /\ ~clearing
    /\ Shared /\ slot \in complete
    /\ clearing' = TRUE
    /\ UNCHANGED <<publish, tries, commsVars, bodyVars, buried, faults>>

ClearTask ==
    /\ clearing
    /\ clearing' = FALSE
    /\ slot' = None
    /\ UNCHANGED <<publish, tries, requests, said, registry, server, wire,
                   bodyVars, buried, faults>>

\* A body that dies loses all it keeps in memory.
Forget ==
    /\ client' = None /\ caughtUp' = FALSE /\ lostAt' = Direct
    /\ queue' = <<>> /\ running' = None
    /\ lastTask' = None /\ answered' = {}
    /\ wire' = [s \in Sockets |-> <<>>]
    /\ polls' = <<>> /\ replies' = <<>>
    /\ UNCHANGED <<gatewayVars, requests, said, slot, registry, server,
                   complete, ran, buried>>

\* Halt stops the runtime, then clears the file.
HaltBody ==
    /\ body \in {"up", "crashed"}
    /\ Fault
    /\ body' = "halting"
    /\ Forget

\* Fault: the halt leaves the file's task.
HaltTaskKept == UNCHANGED slot

HaltTask == slot' = None

Halt ==
    /\ body = "halting"
    /\ body' = "halted"
    /\ HaltTask
    /\ buried' = Settled
    /\ UNCHANGED <<gatewayVars, requests, said, registry, server, wire,
                   client, caughtUp, lostAt, queue, running, lastTask, answered,
                   complete, polls, replies, ran, faults>>

\* The body comes back: after a crash by itself, after a halt by an operator.
Start ==
    /\ body \in {"crashed", "halted"}
    /\ body' = "up"
    /\ UNCHANGED <<gatewayVars, commsVars, client, caughtUp, lostAt,
                   queue, running, lastTask, answered, complete, polls, replies,
                   ran, buried, faults>>

-----------------------------------------------------------------------------
(* Comms. *)

\* push_to_agent; a socket whose other end is gone takes what nobody reads.
Push(i) ==
    IF registry # None /\ server[registry] = "open"
    THEN wire' = [wire EXCEPT ![registry] = IF registry = client
                                            THEN Append(@, i) ELSE @]
    ELSE UNCHANGED wire

\* handle_post_message: a message is stored and fanned out.
Say(e) ==
    /\ e \in Direct \ said
    /\ said' = said \cup {e}
    /\ Push(<<e, 0>>)
    /\ UNCHANGED <<gatewayVars, requests, slot, registry, server,
                   bodyVars, buried, faults>>

\* handle_deliver_task_v2; its answer ends the post it answers.
HandleTask(i) ==
    /\ i \in requests
    /\ requests' = requests \ {i}
    /\ slot' = i
    /\ Push(i)
    /\ \/ /\ publish[i[1]] = "posting" /\ tries[i[1]] = i[2]
          /\ publish' = [publish EXCEPT ![i[1]] = "done"]
       \/ UNCHANGED publish
    /\ UNCHANGED <<tries, clearing, said, registry, server, bodyVars,
                   buried, faults>>

\* The task cannot be written: an error other than 404 ends the delivery.
RefuseTask(i) ==
    /\ i \in requests
    /\ publish[i[1]] = "posting" /\ tries[i[1]] = i[2]
    /\ Fault
    /\ requests' = requests \ {i}
    /\ publish' = [publish EXCEPT ![i[1]] = "done"]
    /\ UNCHANGED <<tries, clearing, said, slot, registry, server, wire,
                   bodyVars, buried>>

\* ConnectionRegistry.add: the socket it replaces is closed.
Register(s) ==
    /\ server[s] = "accepted"
    /\ server' = [t \in Sockets |->
                     IF t = s THEN "open"
                     ELSE IF t = registry /\ server[t] = "open" THEN "closing"
                     ELSE server[t]]
    /\ registry' = s
    /\ UNCHANGED <<gatewayVars, requests, said, slot, wire, bodyVars,
                   buried, faults>>

\* ConnectionRegistry.remove pops the agent's entry, whichever socket it holds.
Unregister(s) == registry' = None

\* The handler of a socket that is closed, or whose other end is gone, ends.
EndSocket(s) ==
    /\ server[s] \in {"open", "closing"}
    /\ server[s] = "closing" \/ client # s
    /\ server' = [server EXCEPT ![s] = "gone"]
    /\ Unregister(s)
    /\ UNCHANGED <<gatewayVars, requests, said, slot, wire, bodyVars,
                   buried, faults>>

\* The comms process restarts: every socket is gone, the file and the store stay.
CommsRestarts ==
    /\ Fault
    /\ registry' = None
    /\ server' = [s \in Sockets |-> IF server[s] = "new" THEN "new" ELSE "gone"]
    /\ UNCHANGED <<gatewayVars, requests, said, slot, wire, bodyVars,
                   buried>>

-----------------------------------------------------------------------------
(* The body's websocket listener. *)

Connect(s) ==
    /\ body = "up" /\ client = None
    /\ server[s] = "new" /\ \A t \in Sockets : t < s => server[t] # "new"
    /\ client' = s
    /\ caughtUp' = FALSE
    /\ server' = [server EXCEPT ![s] = "accepted"]
    /\ UNCHANGED <<gatewayVars, requests, said, slot, registry, wire,
                   body, lostAt, queue, running, lastTask, answered, complete,
                   polls, replies, ran, buried, faults>>

\* read_context_fallback
FileTask == IF Shared /\ slot # None THEN <<slot>> ELSE <<>>

\* The file's task is queued and, when it is not the first connection, every
\* message said since the last one was lost, by channel; _fetch_missed_messages
\* logs a failure and is not repeated.
CatchUp ==
    /\ client # None /\ ~caughtUp
    /\ \/ /\ UNCHANGED faults
          /\ \E missed \in SetToSeqs((said \ lostAt) \X {0}) :
                 queue' = queue \o FileTask \o missed
       \/ /\ said \ lostAt # {} /\ Fault
          /\ queue' = queue \o FileTask
    /\ caughtUp' = TRUE /\ lostAt' = Direct
    /\ UNCHANGED <<gatewayVars, commsVars, body, client, running,
                   lastTask, answered, complete, polls, replies, ran, buried>>

Receive ==
    /\ client # None /\ caughtUp
    /\ wire[client] # <<>>
    /\ queue' = Append(queue, Head(wire[client]))
    /\ wire' = [wire EXCEPT ![client] = Tail(@)]
    /\ UNCHANGED <<gatewayVars, requests, said, slot, registry, server,
                   body, client, caughtUp, lostAt, running, lastTask, answered,
                   complete, polls, replies, ran, buried, faults>>

\* The listener finds its socket broken; what was on it is lost.
Disconnect ==
    /\ client # None /\ caughtUp
    /\ \/ server[client] = "gone" /\ UNCHANGED faults
       \/ server[client] # "gone" /\ Fault
    /\ client' = None
    /\ lostAt' = said
    /\ wire' = [wire EXCEPT ![client] = <<>>]
    /\ UNCHANGED <<gatewayVars, requests, said, slot, registry, server,
                   body, caughtUp, queue, running, lastTask, answered, complete,
                   polls, replies, ran, buried>>

-----------------------------------------------------------------------------
(* The body's main loop. *)

Run(i) ==
    /\ running' = i
    /\ ran' = ran \cup {i}
    /\ UNCHANGED <<answered, replies>>

\* Fault: only a message whose task the poll saw is known.
KnownFromFile(e) == \E i \in {lastTask} \cap Tasks : i[1] = e

Known(e) == e \in answered

\* _handle_idle_mention, for a message or for the task made of one.
Answer(e) ==
    /\ UNCHANGED ran
    /\ IF Known(e)
       THEN UNCHANGED <<running, answered, replies>>
       ELSE /\ running' = <<e, 0>>
            /\ answered' = answered \cup {e}
            /\ replies' = Append(replies, e)

Take ==
    /\ body = "up" /\ running = None
    /\ queue # <<>>
    /\ queue' = Tail(queue)
    /\ LET i == Head(queue) IN IF IsDirect(i) THEN Answer(i[1]) ELSE Run(i)
    /\ UNCHANGED <<gatewayVars, commsVars, body, client, caughtUp,
                   lostAt, lastTask, complete, polls, buried, faults>>

\* Fault: the poll is only for a body without a websocket.
IdleOffline == queue = <<>> /\ client = None

\* Nothing came in the two seconds the loop waits for an event.
Idle == queue = <<>>

\* Fault: only a direct message's task is remembered.
RememberDirect(i) == lastTask' = IF IsDirect(i) THEN i ELSE lastTask

Remember(i) == lastTask' = i

\* _poll_task_impl: the file's task, unless it is the one it saw last.  A
\* direct message's is remembered and left to its other copies.
Poll ==
    /\ body = "up" /\ running = None
    /\ Idle
    /\ Shared /\ slot \notin {None, lastTask}
    /\ Remember(slot)
    /\ IF IsDirect(slot)
       THEN UNCHANGED <<running, ran, answered, replies, polls>>
       ELSE Run(slot) /\ polls' = Append(polls, slot)
    /\ UNCHANGED <<gatewayVars, commsVars, body, client, caughtUp,
                   lostAt, queue, complete, buried, faults>>

\* _drain_event_queue at every turn: messages become notifications, and a
\* task that waits is dropped.
Drain ==
    /\ running # None /\ queue # <<>>
    /\ queue' = <<>>
    /\ UNCHANGED <<gatewayVars, commsVars, body, client, caughtUp,
                   lostAt, running, lastTask, answered, complete, polls, replies,
                   ran, buried, faults>>

\* The conversation ends.  A task is signalled as complete, or is not and the
\* gateway finds nothing; it need not look either.
Finish ==
    /\ running # None
    /\ running' = None
    /\ complete' = complete \cup ({running} \cap Tasks)
    /\ UNCHANGED <<gatewayVars, commsVars, body, client, caughtUp,
                   lostAt, queue, lastTask, answered, polls, replies, ran,
                   buried, faults>>

Crash ==
    /\ body = "up"
    /\ Fault
    /\ body' = "crashed"
    /\ Forget

-----------------------------------------------------------------------------
Gateway ==
    \/ \E e \in Events : Publish(e) \/ Retry(e)
    \/ FindComplete \/ ClearTask \/ HaltBody \/ Halt \/ Start

Comms ==
    \/ \E e \in Direct : Say(e)
    \/ \E i \in requests : HandleTask(i) \/ RefuseTask(i)
    \/ \E s \in Sockets : Register(s) \/ EndSocket(s)
    \/ CommsRestarts

Listener == (\E s \in Sockets : Connect(s)) \/ CatchUp \/ Receive \/ Disconnect

MainLoop == Take \/ Poll \/ Drain \/ Finish

Next == Gateway \/ Comms \/ Listener \/ MainLoop \/ Crash

Spec == Init /\ [][Next]_vars

\* The processes go on; nothing is assumed of the network, of operators or of
\* who says or publishes anything.
Fairness ==
    /\ WF_vars(MainLoop) /\ WF_vars(CatchUp) /\ WF_vars(Receive)
    /\ \A s \in Sockets : WF_vars(Register(s)) /\ WF_vars(Connect(s))
    /\ WF_vars(Halt) /\ WF_vars(body = "crashed" /\ Start)

FairSpec == Spec /\ Fairness

-----------------------------------------------------------------------------
(* Properties. *)

\* What an operator halted stays halted: a task made before a halt was through
\* does not run after it, however late its requests and pushes came.
HaltedTaskIsDropped == running \notin buried

\* The poll reads the file again and again and takes no task from it twice in the
\* life of a body, whatever the file held in between (_last_task_hash).  This is
\* said of the poll alone: the listener's catch-up reads the same file on every
\* connect and queues its task once more, and that one runs again
\* (ws_listener.py:151).
PollTakesOnce == IsInjective(polls)

\* A direct message comes as a message, as a task, once more on a reconnect and
\* from the file, and is answered at most once in the life of a body.
AnsweredOnce == IsInjective(replies)

\* A body that can see the file runs the trigger's task in it, unless another
\* task replaces it or the agent is halted: no push that was lost, drained or
\* sent to a socket nobody reads keeps it from that.
FiledTaskRuns ==
    Shared => \A i \in {j \in Tasks : ~IsDirect(j)} :
        (slot = i) ~> (i \in ran \/ slot # i \/ body = "halted")

\* What makes these invariants hold: whatever is on its way or in the file was
\* settled after the last halt; a body that is down holds nothing; of the tasks
\* polled only the last can be in the file; and replies are remembered.
Arrived == (Settled \cup Messages) \ buried

Flow ==
    /\ buried \subseteq Settled
    /\ queue \in Seq(Arrived) /\ wire \in [Sockets -> Seq(Arrived)]
    /\ running \in Arrived \cup {None} /\ slot \in Arrived \cup {None}
    /\ running \in Tasks => running \in ran
    /\ \A i \in requests : i[2] <= tries[i[1]]
    /\ \A e \in Events : publish[e] = "idle" => tries[e] = 0

Down ==
    body # "up" => /\ client = None /\ running = None /\ queue = <<>>
                   /\ wire = [s \in Sockets |-> <<>>]

Polled ==
    /\ polls \in Seq(Settled) /\ lastTask \in Settled \cup {None}
    /\ \A k \in DOMAIN polls : polls[k] = slot => slot = lastTask

Replied == \A k \in DOMAIN replies : replies[k] \in answered

IInv == TypeOK /\ Flow /\ Down /\ Polled /\ Replied
            /\ PollTakesOnce /\ AnsweredOnce

\* The registry holds the socket the body listens on, from the time comms
\* registers it until one of them leaves it.
LiveSocketIsRegistered ==
    client # None /\ server[client] = "open" => registry = client

=============================================================================

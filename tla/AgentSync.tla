----------------------------- MODULE AgentSync ------------------------------
(***************************************************************************)
(* How the values of one registered agent reach their mirror nodes: the    *)
(* thread aggregate_client_connection receives notifications and reads on  *)
(* demand, and queues responses; the main thread answers clients and       *)
(* writes the responses to the mirror.  Both queues are TAILQs filled at   *)
(* the head and emptied from the head, under the configuration's           *)
(* threadMutex.  The main thread forwards method calls and writes to the   *)
(* agent over the thread's client, and in the end clears the configuration *)
(* while the thread still runs.                                            *)
(*                                                                         *)
(* A value is the number of changes its node had seen when it was made, at *)
(* the agent or by a client's write.  A client (UA_Client) serves one      *)
(* caller at a time and runs callbacks in the thread that waits for it.    *)
(* add_agent_server configures subscriptions only; the other modes of      *)
(* UA_AggregateSynchronization are reached by configurations with an       *)
(* "on-demand-read" mapping.                                               *)
(***************************************************************************)
EXTENDS Integers, Sequences, FiniteSets

CONSTANTS
    Subscribed,   \* mirror nodes kept by a monitored item
    OnDemand,     \* mirror nodes fetched when a client reads them
    NoNode,       \* the node of a method call
    Writable,     \* on-demand nodes whose writes are forwarded
    Refusing,     \* writable nodes of which the agent may refuse a value
    Changing,     \* nodes that the agent itself changes
    MaxChanges,   \* bound: changes of a node
    MaxReads,     \* bound: client reads of on-demand nodes
    MaxCalls,     \* bound: method calls of clients
    MaxRestarts,  \* bound: restarts of the agent
    MayStop,      \* the registry may be stopped
    Backlog       \* bound: values of one node under way to its mirror

Nodes == Subscribed \cup OnDemand
NoValue == -1
Values == NoValue .. MaxChanges

ASSUME ModeAssumption ==
    /\ Subscribed \cap OnDemand = {}
    /\ Writable \subseteq OnDemand
    /\ Refusing \subseteq Writable
    /\ Changing \subseteq Nodes
    /\ NoNode \notin Nodes
    /\ MayStop \in BOOLEAN

ASSUME BoundAssumption ==
    /\ MaxChanges \in Nat
    /\ MaxReads \in Nat
    /\ MaxCalls \in Nat
    /\ MaxRestarts \in Nat
    /\ Backlog \in Nat \ {0}

VARIABLES
    remote,        \* the agent's values
    latest,        \* the newest value of each node, at the agent or written
    sampled,       \* the value each monitored item reported last
    subscription,  \* the monitored items exist at the agent
    connected,     \* the client's connection is open
    channel,       \* messages on their way from the agent to the client
    requests,      \* aggregateValueRequests, the head first
    responses,     \* aggregateValueResponses, the head first
    mutex,         \* who holds threadMutex
    thread,        \* where the agent's thread is
    inHand,        \* the notification the client's callback holds
    main,          \* where the main thread is
    order,         \* what the main thread has asked of the agent
    mirror,        \* the registry's values
    running,       \* aggregateConfig->running
    reads,         \* bound: reads so far
    calls,         \* bound: method calls so far
    restarts       \* bound: restarts so far

agentVars == <<remote, sampled, subscription, connected, restarts>>
queueVars == <<requests, responses, mutex>>
mainVars == <<main, order, mirror, latest, running, reads, calls>>
vars == <<agentVars, channel, queueVars, thread, inHand, mainVars>>

Response == [node : Nodes, value : Values]
Result == [kind |-> "result", node |-> NoNode, value |-> NoValue]
Notification == [kind : {"notification"}, node : Subscribed, value : 0 .. MaxChanges]
Reply == [kind : {"answer"}, node : OnDemand, value : 0 .. MaxChanges]
Message == Notification \cup Reply \cup {Result}
NoMessage == [kind |-> "none"]

\* A value to be written to a node of the agent, or a method to be called.
Call == [node |-> NoNode, value |-> NoValue]
Order == [node : Writable, value : 0 .. MaxChanges] \cup {Call}
NoOrder == [node |-> NoNode, value |-> -2]

ThreadPoints == {"start", "check", "iterate", "callback", "requests",
                 "asked", "answered", "nested", "ended"}
MainPoints == {"handlers", "sync", "calling", "writing", "echo", "clear",
               "delete", "deleted", "exited", "undefined"}

\* The process has neither ended nor left the defined behaviour of C.
Alive == main \notin {"exited", "undefined"}

ThreadInClient == thread \in {"callback", "asked", "answered", "nested"}
MainInClient == main \in {"calling", "writing", "echo"}
ClientExists == main # "deleted"

\* TAILQ_INSERT_HEAD
InsertHead(q, e) == <<e>> \o q

ResponseTo(m) == [node |-> m.node, value |-> m.value]

CountOf(q, n) == Cardinality({i \in DOMAIN q : q[i].node = n})

\* Values of n that have left the agent, or are asked for, and are not yet in
\* the mirror.
Underway(n) ==
    CountOf(channel, n) + CountOf(responses, n)
    + Cardinality({i \in DOMAIN requests : requests[i] = n})
    + (IF inHand # NoMessage /\ inHand.node = n THEN 1 ELSE 0)

-----------------------------------------------------------------------------
\* The state in which pthread_create leaves the configuration: connected,
\* every mirror node holding the value nodeIter copied.
Init ==
    /\ remote = [n \in Nodes |-> 0]
    /\ sampled = [n \in Subscribed |-> NoValue]
    /\ subscription = FALSE
    /\ connected = TRUE
    /\ channel = <<>>
    /\ requests = <<>>
    /\ responses = <<>>
    /\ mutex = "free"
    /\ thread = "start"
    /\ inHand = NoMessage
    /\ main = "handlers"
    /\ mirror = [n \in Nodes |-> 0]
    /\ latest = [n \in Nodes |-> 0]
    /\ order = NoOrder
    /\ running = TRUE
    /\ reads = 0
    /\ calls = 0
    /\ restarts = 0

-----------------------------------------------------------------------------
(* The agent.                                                              *)

Change(n) ==
    /\ Alive
    /\ latest[n] < MaxChanges
    /\ latest' = [latest EXCEPT ![n] = @ + 1]
    /\ remote' = [remote EXCEPT ![n] = latest[n] + 1]
    /\ UNCHANGED <<sampled, subscription, connected, restarts, channel,
                   queueVars, thread, inHand, main, order, mirror, running,
                   reads, calls>>

\* A monitored item reports a value it has not reported yet, the first one
\* included.
Publish(n) ==
    /\ Alive
    /\ subscription
    /\ connected
    /\ sampled[n] # remote[n]
    /\ Underway(n) < Backlog
    /\ channel' = Append(channel, [kind |-> "notification", node |-> n,
                                   value |-> remote[n]])
    /\ sampled' = [sampled EXCEPT ![n] = remote[n]]
    /\ UNCHANGED <<remote, subscription, connected, restarts, queueVars,
                   thread, inHand, mainVars>>

Answer ==
    /\ Alive
    /\ thread = "asked"
    /\ connected
    /\ channel' = Append(channel, [kind |-> "answer", node |-> Head(requests),
                                   value |-> remote[Head(requests)]])
    /\ thread' = "answered"
    /\ UNCHANGED <<agentVars, queueVars, inHand, mainVars>>

\* The agent does what the main thread asked for, or refuses it; the result of
\* either is only printed.
Serve ==
    /\ Alive
    /\ order # NoOrder
    /\ connected
    /\ ~ThreadInClient
    /\ \/ order # Call /\ remote' = [remote EXCEPT ![order.node] = order.value]
       \/ order.node \in Refusing \cup {NoNode} /\ UNCHANGED remote
    /\ channel' = Append(channel, Result)
    /\ order' = NoOrder
    /\ UNCHANGED <<sampled, subscription, connected, restarts, queueVars,
                   thread, inHand, main, mirror, latest, running, reads, calls>>

\* The agent comes back without the session and its monitored items; what it
\* had sent is lost.
Restart ==
    /\ Alive
    /\ restarts < MaxRestarts
    /\ restarts' = restarts + 1
    /\ connected' = FALSE
    /\ subscription' = FALSE
    /\ channel' = <<>>
    /\ UNCHANGED <<remote, sampled, queueVars, thread, inHand, mainVars>>

-----------------------------------------------------------------------------
(* The agent's thread.                                                     *)

\* Subscription and monitored items are created once; a failure is printed.
CreateSubscription ==
    /\ Alive
    /\ thread = "start"
    /\ ClientExists
    /\ ~MainInClient
    /\ subscription' = connected
    /\ thread' = "check"
    /\ UNCHANGED <<remote, sampled, connected, restarts, channel, queueVars,
                   inHand, mainVars>>

\* The head of the loop: a closed connection is opened again.
CheckConnection ==
    /\ Alive
    /\ thread = "check"
    /\ running
    /\ ~MainInClient
    /\ connected' = TRUE
    /\ thread' = "iterate"
    /\ UNCHANGED <<remote, sampled, subscription, restarts, channel, queueVars,
                   inHand, mainVars>>

LeaveLoop ==
    /\ Alive
    /\ thread = "check"
    /\ ~running
    /\ thread' = "ended"
    /\ UNCHANGED <<agentVars, channel, queueVars, inHand, mainVars>>

\* UA_Client_run_iterate delivers a notification: the callback wants the mutex.
Receive ==
    /\ Alive
    /\ thread = "iterate"
    /\ ClientExists
    /\ ~MainInClient
    /\ channel # <<>>
    /\ Head(channel).kind = "notification"
    /\ inHand' = Head(channel)
    /\ channel' = Tail(channel)
    /\ thread' = "callback"
    /\ UNCHANGED <<agentVars, queueVars, mainVars>>

\* Mutant: the queue is a mailbox for one response.
OverwriteResponses ==
    /\ thread = "callback"
    /\ mutex = "free"
    /\ responses' = <<ResponseTo(inHand)>>
    /\ inHand' = NoMessage
    /\ thread' = "iterate"
    /\ UNCHANGED <<agentVars, channel, requests, mutex, mainVars>>

\* handler_subscriptionSynchronization
QueueNotification ==
    /\ Alive
    /\ thread = "callback"
    /\ mutex = "free"
    /\ responses' = InsertHead(responses, ResponseTo(inHand))
    /\ inHand' = NoMessage
    /\ thread' = "iterate"
    /\ UNCHANGED <<agentVars, channel, requests, mutex, mainVars>>

LockRequests ==
    /\ Alive
    /\ thread = "iterate"
    /\ mutex = "free"
    /\ mutex' = "thread"
    /\ thread' = "requests"
    /\ UNCHANGED <<agentVars, channel, requests, responses, inHand, mainVars>>

SendRead ==
    /\ Alive
    /\ thread = "requests"
    /\ requests # <<>>
    /\ ~MainInClient
    /\ thread' = "asked"
    /\ UNCHANGED <<agentVars, channel, queueVars, inHand, mainVars>>

\* Mutant: an answer empties the queue of requests.
RespondToAll(v) ==
    /\ responses' = InsertHead(responses, [node |-> Head(requests), value |-> v])
    /\ requests' = <<>>
    /\ thread' = "requests"
    /\ UNCHANGED <<agentVars, mutex, inHand, mainVars>>

\* The request at the head becomes a response at the head.
Respond(v) ==
    /\ responses' = InsertHead(responses, [node |-> Head(requests), value |-> v])
    /\ requests' = Tail(requests)
    /\ thread' = "requests"
    /\ UNCHANGED <<agentVars, mutex, inHand, mainVars>>

ReceiveAnswer ==
    /\ Alive
    /\ thread = "answered"
    /\ channel # <<>>
    /\ Head(channel).kind = "answer"
    /\ channel' = Tail(channel)
    /\ Respond(Head(channel).value)

\* Mutant: a failed read leaves the critical section without unlocking it.
ReadFailsAndLeaves ==
    /\ thread \in {"asked", "answered"}
    /\ ~connected
    /\ thread' = "check"
    /\ UNCHANGED <<agentVars, channel, queueVars, inHand, mainVars>>

\* Mutant: a failed read is tried again at once.
RetryRead ==
    /\ thread \in {"asked", "answered"}
    /\ ~connected
    /\ thread' = "requests"
    /\ UNCHANGED <<agentVars, channel, queueVars, inHand, mainVars>>

\* A read on a closed connection returns no value, and the loop queues that.
ReadFails ==
    /\ Alive
    /\ thread \in {"asked", "answered"}
    /\ ~connected
    /\ Respond(NoValue)
    /\ UNCHANGED channel

\* The blocking read dispatches notifications that precede its answer: the
\* callback waits for the mutex its own thread holds.
ReceiveWhileLocked ==
    /\ Alive
    /\ thread \in {"asked", "answered"}
    /\ channel # <<>>
    /\ Head(channel).kind = "notification"
    /\ inHand' = Head(channel)
    /\ channel' = Tail(channel)
    /\ thread' = "nested"
    /\ UNCHANGED <<agentVars, queueVars, mainVars>>

UnlockRequests ==
    /\ Alive
    /\ thread = "requests"
    /\ requests = <<>>
    /\ mutex' = "free"
    /\ thread' = "check"
    /\ UNCHANGED <<agentVars, channel, requests, responses, inHand, mainVars>>

\* The thread was told to stop but nobody waited for it: it goes on with a
\* client that is gone.
UseDeletedClient ==
    /\ ~ClientExists
    /\ thread \in {"start", "iterate"}
    /\ main' = "undefined"
    /\ UNCHANGED <<agentVars, channel, queueVars, thread, inHand, order, mirror,
                   latest, running, reads, calls>>

-----------------------------------------------------------------------------
(* The main thread.                                                        *)

\* onRead: the client gets the value the mirror has; a fresh one is ordered.
ClientRead(n) ==
    /\ main = "handlers"
    /\ mutex = "free"
    /\ reads < MaxReads
    /\ Underway(n) < Backlog
    /\ reads' = reads + 1
    /\ requests' = InsertHead(requests, n)
    /\ UNCHANGED <<agentVars, channel, responses, mutex, thread, inHand, main,
                   order, mirror, latest, running, calls>>

LockResponses ==
    /\ main = "handlers"
    /\ mutex = "free"
    /\ mutex' = "main"
    /\ main' = "sync"
    /\ UNCHANGED <<agentVars, channel, requests, responses, thread, inHand,
                   order, mirror, latest, running, reads, calls>>

\* Mutant: writing one response empties the queue.
WriteOneMirror ==
    /\ main = "sync"
    /\ responses # <<>>
    /\ LET r == Head(responses)
       IN  mirror' = IF r.value = NoValue THEN mirror
                     ELSE [mirror EXCEPT ![r.node] = r.value]
    /\ responses' = <<>>
    /\ UNCHANGED <<agentVars, channel, requests, mutex, thread, inHand, main,
                   order, latest, running, reads, calls>>

\* Mutant: a failed read is written as the default value.
WriteDefault ==
    /\ main = "sync"
    /\ responses # <<>>
    /\ LET r == Head(responses)
       IN  mirror' = [mirror EXCEPT ![r.node] = IF r.value = NoValue THEN 0
                                                ELSE r.value]
    /\ responses' = Tail(responses)
    /\ UNCHANGED <<agentVars, channel, requests, mutex, thread, inHand, main,
                   order, latest, running, reads, calls>>

\* Mutant: the synchronization writes the mirror without onWrite.
WriteSilently ==
    /\ main = "sync"
    /\ responses # <<>>
    /\ responses' = Tail(responses)
    /\ LET r == Head(responses)
       IN  mirror' = IF r.value = NoValue THEN mirror
                     ELSE [mirror EXCEPT ![r.node] = r.value]
    /\ UNCHANGED <<agentVars, channel, requests, mutex, thread, inHand, main,
                   order, latest, running, reads, calls>>

\* The server refuses an empty value; the status is not looked at.  Of a
\* writable node onWrite then sends the value back to the agent.
WriteMirror ==
    /\ main = "sync"
    /\ responses # <<>>
    /\ responses' = Tail(responses)
    /\ LET r == Head(responses)
           echoed == r.node \in Writable /\ r.value # NoValue
       IN  /\ mirror' = IF r.value = NoValue THEN mirror
                        ELSE [mirror EXCEPT ![r.node] = r.value]
           /\ main' = IF echoed THEN "echo" ELSE main
           /\ order' = IF echoed THEN r ELSE order
    /\ UNCHANGED <<agentVars, channel, requests, mutex, thread, inHand,
                   latest, running, reads, calls>>

\* The end of the walk and the condition of the loop in main.c, which may
\* have been told to stop: clear_registered_modules_config begins.
UnlockResponses ==
    /\ main = "sync"
    /\ responses = <<>>
    /\ mutex' = "free"
    /\ \/ main' = "handlers" /\ running' = TRUE
       \/ MayStop /\ main' = "clear" /\ running' = FALSE
    /\ UNCHANGED <<agentVars, channel, requests, responses, thread, inHand,
                   order, mirror, latest, reads, calls>>

-----------------------------------------------------------------------------
(* The thread's client in the main thread: method calls and writes.        *)

\* methodCallback forwards the call and waits.
CallMethod ==
    /\ main = "handlers"
    /\ calls < MaxCalls
    /\ calls' = calls + 1
    /\ order' = Call
    /\ main' = "calling"
    /\ UNCHANGED <<agentVars, channel, queueVars, thread, inHand, mirror, latest,
                   running, reads>>

\* A client writes a node: its mirror has the value when onWrite forwards it,
\* whatever older values of the node are queued or on their way.
ClientWrite(n) ==
    /\ main = "handlers"
    /\ latest[n] < MaxChanges
    /\ latest' = [latest EXCEPT ![n] = @ + 1]
    /\ mirror' = [mirror EXCEPT ![n] = latest[n] + 1]
    /\ order' = [node |-> n, value |-> latest[n] + 1]
    /\ main' = "writing"
    /\ UNCHANGED <<agentVars, channel, queueVars, thread, inHand, running,
                   reads, calls>>

\* The main thread has the client to itself and runs no callback.
Waiting == MainInClient /\ ~ThreadInClient /\ inHand = NoMessage

\* The service returns to the handler, or to syncRegisteredAgents.
Resume == main' = IF main = "echo" THEN "sync" ELSE "handlers"

\* Mutant: the call is sent again.
CallAgain ==
    /\ Waiting
    /\ channel # <<>>
    /\ Head(channel).kind = "result"
    /\ channel' = Tail(channel)
    /\ order' = Call
    /\ UNCHANGED <<agentVars, queueVars, thread, inHand, main, mirror, latest,
                   running, reads, calls>>

ReceiveResult ==
    /\ Waiting
    /\ channel # <<>>
    /\ Head(channel).kind = "result"
    /\ channel' = Tail(channel)
    /\ Resume
    /\ UNCHANGED <<agentVars, queueVars, thread, inHand, order, mirror, latest,
                   running, reads, calls>>

\* The status is printed or returned.  A call that failed left the number of
\* output arguments as it was, uninitialised.
OrderFails ==
    /\ Waiting
    /\ ~connected
    /\ order' = NoOrder
    /\ Resume \/ (main = "calling" /\ main' = "undefined")
    /\ UNCHANGED <<agentVars, channel, queueVars, thread, inHand, mirror, latest,
                   running, reads, calls>>

\* A notification that precedes the result: the thread's callback runs in the
\* main thread.
DispatchInMain ==
    /\ Waiting
    /\ channel # <<>>
    /\ Head(channel).kind = "notification"
    /\ inHand' = Head(channel)
    /\ channel' = Tail(channel)
    /\ UNCHANGED <<agentVars, queueVars, thread, mainVars>>

QueueInMain ==
    /\ MainInClient
    /\ ~ThreadInClient
    /\ inHand # NoMessage
    /\ mutex = "free"
    /\ responses' = InsertHead(responses, ResponseTo(inHand))
    /\ inHand' = NoMessage
    /\ UNCHANGED <<agentVars, channel, requests, mutex, thread, mainVars>>

-----------------------------------------------------------------------------
(* The end of the configuration.                                           *)

\* The loops over the queues set the variable of the element they have freed
\* to NULL and go on from there: they are fit for empty queues only.
ClearQueues ==
    /\ main = "clear"
    /\ main' = IF requests = <<>> /\ responses = <<>> THEN "delete" ELSE "undefined"
    /\ UNCHANGED <<agentVars, channel, queueVars, thread, inHand, order, mirror,
                   latest, running, reads, calls>>

DeleteClient ==
    /\ main = "delete"
    /\ main' = "deleted"
    /\ UNCHANGED <<agentVars, channel, queueVars, thread, inHand, order, mirror,
                   latest, running, reads, calls>>

\* The server is deleted and main returns: the process ends.
Exit ==
    /\ main = "deleted"
    /\ main' = "exited"
    /\ UNCHANGED <<agentVars, channel, queueVars, thread, inHand, order, mirror,
                   latest, running, reads, calls>>

Terminated ==
    /\ ~Alive
    /\ UNCHANGED vars

-----------------------------------------------------------------------------
Agent ==
    \/ \E n \in Changing : Change(n)
    \/ \E n \in Subscribed : Publish(n)
    \/ Answer \/ Serve \/ Restart

\* Steps of the thread that wait neither for the mutex nor for a message.
ThreadStep ==
    \/ CreateSubscription \/ CheckConnection \/ LeaveLoop
    \/ SendRead \/ ReceiveAnswer \/ ReadFails \/ ReceiveWhileLocked
    \/ UnlockRequests

Thread == ThreadStep \/ Receive \/ QueueNotification \/ LockRequests \/ UseDeletedClient

MainStep ==
    \/ WriteMirror \/ UnlockResponses
    \/ ReceiveResult \/ OrderFails \/ DispatchInMain
    \/ ClearQueues \/ DeleteClient \/ Exit

Main ==
    \/ MainStep \/ LockResponses \/ QueueInMain \/ CallMethod
    \/ \E n \in OnDemand : ClientRead(n)
    \/ \E n \in Writable : ClientWrite(n)

Next == Agent \/ Thread \/ Main \/ Terminated

\* Both threads run: neither loop blocks but on the mutex, which no holder
\* keeps, and a waiter that can have the mutex again and again gets it.  The
\* agent's stack reports changes and answers reads.
Fairness ==
    /\ WF_vars(ThreadStep)
    /\ WF_vars(MainStep)
    /\ SF_vars(Receive)
    /\ SF_vars(QueueNotification)
    /\ SF_vars(QueueInMain)
    /\ SF_vars(LockRequests)
    /\ SF_vars(LockResponses)
    /\ WF_vars(Answer \/ Serve)
    /\ \A n \in Subscribed : WF_vars(Publish(n))

Spec == Init /\ [][Next]_vars /\ Fairness

-----------------------------------------------------------------------------
(* Properties.                                                             *)

\* Every variable has its type, and whoever is inside a critical section
\* holds the mutex.
TypeOK ==
    /\ remote \in [Nodes -> 0 .. MaxChanges]
    /\ sampled \in [Subscribed -> Values]
    /\ subscription \in BOOLEAN
    /\ connected \in BOOLEAN
    /\ channel \in Seq(Message)
    /\ requests \in Seq(OnDemand)
    /\ responses \in Seq(Response)
    /\ mutex \in {"free", "thread", "main"}
    /\ thread \in ThreadPoints
    /\ inHand \in Notification \cup {NoMessage}
    /\ main \in MainPoints
    /\ order \in Order \cup {NoOrder}
    /\ mirror \in [Nodes -> 0 .. MaxChanges]
    /\ latest \in [Nodes -> 0 .. MaxChanges]
    /\ running \in BOOLEAN
    /\ reads \in 0 .. MaxReads
    /\ calls \in 0 .. MaxCalls
    /\ restarts \in 0 .. MaxRestarts
    /\ mutex = "thread" <=> thread \in {"requests", "asked", "answered", "nested"}
    /\ mutex = "main" <=> main \in {"sync", "echo"}

HeldFor(n, v) ==
    \/ \E i \in DOMAIN channel : channel[i].node = n /\ channel[i].value = v
    \/ \E i \in DOMAIN responses : responses[i] = [node |-> n, value |-> v]
    \/ inHand # NoMessage /\ inHand.node = n /\ inHand.value = v

\* As long as the monitored items exist, the value a node reported last is in
\* the mirror or on its way there: no hand-over between the agent, the thread
\* and the main thread drops it (synchronization.c 21-27, internal.c 139-147).
NewestUnderway ==
    subscription =>
        \A n \in Subscribed :
            sampled[n] # NoValue =>
                mirror[n] = sampled[n] \/ HeldFor(n, sampled[n])

\* In either mode, while the main loop keeps up with the values of a node, the
\* mirror of a node that only the agent changes implements AgentMirror: it
\* never shows a value older than the one it showed (synchronization.c 21-43,
\* internal.c 136-148).
Plain == Nodes \ Writable

Shown == INSTANCE AgentMirror WITH Nodes <- Plain,
                                   remote <- [n \in Plain |-> remote[n]],
                                   mirror <- [n \in Plain |-> mirror[n]]

MirrorSpec == Shown!Spec

\* Whenever the registry serves clients, a node that clients write has the same
\* value on both sides, whatever answers are under way to it: an answer that left
\* the agent before a write does take the written value back, but at the mirror
\* and, through onWrite, at the agent alike (synchronization.c 45-87,
\* internal.c 140-146).  A restart may cut an order off and an agent may refuse a
\* value, neither of which a client is told.
WritesAgree ==
    main \notin {"writing", "echo"} /\ restarts = 0 =>
        \A n \in Writable \ (Changing \cup Refusing) : mirror[n] = remote[n]

\* The main thread gets back from a forwarded call, although it may have to
\* run the callback of the agent's thread and take its mutex meanwhile
\* (synchronization.c 21, 111).
MainReturns == (main = "calling") ~> (main # "calling")

\* Once the agent's values rest, the mirror shows them (register.rst:108),
\* unless the registry is stopped.
MirrorCatchesUp ==
    \A n \in Subscribed : <>[](mirror[n] = remote[n] \/ ~running)

IsRequested(n) == \E i \in DOMAIN requests : requests[i] = n

\* A client that reads an on-demand node makes the mirror at least as new as the
\* agent's value was before the thread turned to the queue, for good, if no
\* answer of an earlier read is still to be written: both queues hand the values
\* over last in, first out, and the earlier answer would be written after it
\* (synchronization.c 30-43, client_interface.c 99-112, internal.c 139-147).
\* A restart of the agent under the read excuses it, and a node that clients
\* write can be taken back by the echo of an answer.
ReadRefreshes ==
    \A n \in OnDemand \ Writable, v \in Values, r \in 0 .. MaxRestarts :
        (/\ IsRequested(n)
         /\ CountOf(responses, n) = 0
         /\ mutex # "thread"
         /\ connected
         /\ remote[n] = v
         /\ restarts = r)
            ~> ([](mirror[n] >= v) \/ restarts > r)

\* No read request stays queued, even if the agent restarts under the read.
RequestIsServed ==
    \A n \in OnDemand : IsRequested(n) ~> ~IsRequested(n)
=============================================================================

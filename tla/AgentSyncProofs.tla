-------------------------- MODULE AgentSyncProofs ---------------------------
(***************************************************************************)
(* What holds of the hand-over of values between an agent, its thread and  *)
(* the main thread, for any nodes and any number of changes, reads, calls  *)
(* and restarts: the critical sections exclude each other, and as long as  *)
(* the main loop keeps up with each node (Backlog = 1) no value that was   *)
(* reported is dropped and no mirror goes back.  For any Backlog both      *)
(* sides of a node that only clients write agree.                          *)
(***************************************************************************)
EXTENDS AgentSync, SequenceTheorems, FiniteSetTheorems, TLAPS

-----------------------------------------------------------------------------
(* Queues.                                                                 *)

Elements(q) == {q[i] : i \in DOMAIN q}

\* Where TAILQ_INSERT_HEAD leaves the elements of a queue.
LEMMA InsertAt ==
    ASSUME NEW S, NEW q \in Seq(S), NEW e \in S
    PROVE  LET r == InsertHead(q, e)
           IN  /\ r \in Seq(S) /\ Len(q) \in Nat
               /\ DOMAIN r = 1 .. Len(q) + 1 /\ DOMAIN q = 1 .. Len(q)
               /\ r[1] = e
               /\ \A i \in 2 .. Len(q) + 1 : i - 1 \in DOMAIN q /\ r[i] = q[i - 1]
<1> DEFINE r == InsertHead(q, e)
<1>1. <<e>> \in Seq(S) /\ Len(<<e>>) = 1 /\ Len(q) \in Nat /\ DOMAIN q = 1 .. Len(q)
  BY LenProperties
<1>2. /\ r \in Seq(S) /\ Len(r) = 1 + Len(q)
      /\ \A i \in 1 .. 1 + Len(q) : r[i] = IF i <= 1 THEN <<e>>[i] ELSE q[i - 1]
  BY <1>1, ConcatProperties DEF InsertHead
<1>3. <<e>>[1] = e
  OBVIOUS
<1> HIDE DEF r
<1>4. DOMAIN r = 1 .. Len(q) + 1
  BY <1>1, <1>2, LenProperties
<1>5. r[1] = e
  BY <1>1, <1>2, <1>3
<1>6. ASSUME NEW i \in 2 .. Len(q) + 1 PROVE i - 1 \in DOMAIN q /\ r[i] = q[i - 1]
  <2>1. i \in 1 .. 1 + Len(q) /\ ~(i <= 1) /\ i - 1 \in 1 .. Len(q)
    BY <1>1
  <2> QED
    BY <1>1, <1>2, <2>1
<1> QED
  BY <1>1, <1>2, <1>4, <1>5, <1>6 DEF r

\* What it does to the set of the elements.
LEMMA ElementsInsert ==
    ASSUME NEW S, NEW q \in Seq(S), NEW e \in S
    PROVE  /\ InsertHead(q, e) \in Seq(S)
           /\ InsertHead(q, e) # <<>>
           /\ Elements(InsertHead(q, e)) = Elements(q) \cup {e}
<1> DEFINE r == InsertHead(q, e)
<1>1. /\ r \in Seq(S) /\ Len(q) \in Nat
      /\ DOMAIN r = 1 .. Len(q) + 1 /\ DOMAIN q = 1 .. Len(q)
      /\ r[1] = e
      /\ \A i \in 2 .. Len(q) + 1 : i - 1 \in DOMAIN q /\ r[i] = q[i - 1]
  BY InsertAt
<1> HIDE DEF r
<1>2. \A i \in DOMAIN r : r[i] \in Elements(q) \cup {e}
  BY <1>1 DEF Elements
<1>3. ASSUME NEW j \in DOMAIN q PROVE q[j] \in Elements(r)
  <2>1. j + 1 \in 2 .. Len(q) + 1 /\ (j + 1) - 1 = j
    BY <1>1
  <2>2. j + 1 \in DOMAIN r /\ r[j + 1] = q[j]
    BY <1>1, <2>1
  <2> QED
    BY <2>2 DEF Elements
<1>4. 1 \in DOMAIN r /\ e \in Elements(r)
  BY <1>1 DEF Elements
<1>5. Elements(r) = Elements(q) \cup {e}
  BY <1>2, <1>3, <1>4 DEF Elements
<1>6. r # <<>>
  BY <1>4, EmptySeq
<1> QED
  BY <1>1, <1>5, <1>6 DEF r

\* What Append does to it.
LEMMA ElementsAppend ==
    ASSUME NEW S, NEW q \in Seq(S), NEW e \in S
    PROVE  /\ Append(q, e) \in Seq(S)
           /\ Elements(Append(q, e)) = Elements(q) \cup {e}
<1> DEFINE r == Append(q, e)
<1>1. /\ r \in Seq(S) /\ Len(q) \in Nat
      /\ DOMAIN r = 1 .. Len(q) + 1 /\ DOMAIN q = 1 .. Len(q)
      /\ r[Len(q) + 1] = e /\ \A i \in 1 .. Len(q) : r[i] = q[i]
  BY AppendProperties, LenProperties
<1> HIDE DEF r
<1>2. \A i \in DOMAIN r : r[i] \in Elements(q) \cup {e}
  BY <1>1 DEF Elements
<1>3. Elements(q) \cup {e} \subseteq Elements(r)
  BY <1>1 DEF Elements
<1>4. Elements(r) = Elements(q) \cup {e}
  BY <1>2, <1>3 DEF Elements
<1> QED
  BY <1>1, <1>4 DEF r

\* What Tail takes from it.
LEMMA ElementsTail ==
    ASSUME NEW S, NEW q \in Seq(S), q # <<>>
    PROVE  /\ Head(q) \in S /\ Tail(q) \in Seq(S)
           /\ Elements(q) = Elements(Tail(q)) \cup {Head(q)}
<1> DEFINE r == Tail(q)
           h == Head(q)
<1>1. /\ r \in Seq(S) /\ h \in S /\ Len(q) \in Nat /\ Len(q) # 0
      /\ DOMAIN r = 1 .. Len(q) - 1 /\ DOMAIN q = 1 .. Len(q)
      /\ h = q[1] /\ \A i \in 1 .. Len(q) - 1 : r[i] = q[i + 1]
  BY HeadTailProperties, LenProperties, EmptySeq
<1> HIDE DEF r, h
<1>2. \A i \in DOMAIN q : q[i] \in Elements(r) \cup {h}
  <2> SUFFICES ASSUME NEW i \in DOMAIN q, i # 1 PROVE q[i] \in Elements(r)
    BY <1>1
  <2>1. i - 1 \in DOMAIN r /\ r[i - 1] = q[i]
    BY <1>1
  <2> QED
    BY <2>1 DEF Elements
<1>3. \A i \in DOMAIN r : r[i] \in Elements(q)
  BY <1>1 DEF Elements
<1>4. h \in Elements(q)
  BY <1>1 DEF Elements
<1>5. Elements(q) = Elements(r) \cup {h}
  BY <1>2, <1>3, <1>4 DEF Elements
<1> QED
  BY <1>1, <1>5 DEF r, h

\* The elements of a sequence are of its set.
LEMMA ElementsOf ==
    ASSUME NEW S, NEW q \in Seq(S)
    PROVE  Elements(q) \subseteq S /\ Elements(<<>>) = {}
BY ElementOfSeq DEF Elements

-----------------------------------------------------------------------------
(***************************************************************************)
(* Who holds what.  The callback's message is taken by the thread that     *)
(* waits in the client, and a read under way has its request at the head   *)
(* of the queue; a closed connection carries nothing.                      *)
(***************************************************************************)
HandOver ==
    /\ thread \in {"callback", "nested"} => inHand # NoMessage
    /\ inHand # NoMessage =>
           thread \in {"callback", "nested"} \/ (MainInClient /\ ~ThreadInClient)
    /\ thread \in {"asked", "answered", "nested"} => requests # <<>>
    /\ ~connected => channel = <<>>

Inv == TypeOK /\ HandOver

\* Nothing is under way when the thread is created.
LEMMA InitInv == Init => Inv
<1> SUFFICES ASSUME Init PROVE Inv
  OBVIOUS
<1>1. <<>> \in Seq(Message) /\ <<>> \in Seq(OnDemand) /\ <<>> \in Seq(Response)
  BY EmptySeq
<1>2. /\ remote \in [Nodes -> 0 .. MaxChanges] /\ mirror \in [Nodes -> 0 .. MaxChanges]
      /\ latest \in [Nodes -> 0 .. MaxChanges]
  BY BoundAssumption DEF Init
<1>3. sampled \in [Subscribed -> Values]
  BY BoundAssumption DEF Init, Values, NoValue
<1>4. reads \in 0 .. MaxReads /\ calls \in 0 .. MaxCalls /\ restarts \in 0 .. MaxRestarts
  BY BoundAssumption DEF Init
<1>5. /\ subscription \in BOOLEAN /\ connected \in BOOLEAN /\ running \in BOOLEAN
      /\ mutex = "free" /\ thread = "start" /\ main = "handlers"
  BY DEF Init
<1>6. HandOver
  BY DEF Init, HandOver
<1>7. inHand \in Notification \cup {NoMessage} /\ order \in Order \cup {NoOrder}
  BY DEF Init
<1>8. /\ channel \in Seq(Message)
      /\ requests \in Seq(OnDemand)
      /\ responses \in Seq(Response)
  BY <1>1 DEF Init
<1> QED
  BY <1>2, <1>3, <1>4, <1>5, <1>6, <1>7, <1>8 DEF Inv, TypeOK, ThreadPoints, MainPoints

\* Every step keeps the types and the hand-over.
LEMMA NextInv == Inv /\ [Next]_vars => Inv'
<1> SUFFICES ASSUME Inv, [Next]_vars PROVE Inv'
  OBVIOUS
<1> USE DEF agentVars, queueVars, mainVars, MainInClient, ThreadInClient
<1>t. TypeOK /\ HandOver
  BY DEF Inv
<1>1. ASSUME NEW n \in Changing, Change(n) PROVE Inv'
  <2>1. latest[n] + 1 \in 0 .. MaxChanges
    BY <1>1, <1>t, BoundAssumption, ModeAssumption DEF Change, TypeOK
  <2>2. remote' \in [Nodes -> 0 .. MaxChanges] /\ latest' \in [Nodes -> 0 .. MaxChanges]
    BY <1>1, <2>1, <1>t DEF Change, TypeOK
  <2> QED
    BY <1>1, <1>t, <2>1, <2>2 DEF Change, Inv, TypeOK, HandOver
<1>2. ASSUME NEW n \in Subscribed, Publish(n) PROVE Inv'
  <2>1. [kind |-> "notification", node |-> n, value |-> remote[n]] \in Message
    BY <1>2, <1>t DEF Nodes, Message, Notification, TypeOK
  <2>2. channel' \in Seq(Message)
    BY <1>2, <2>1, <1>t, ElementsAppend DEF Publish, TypeOK
  <2>3. sampled' \in [Subscribed -> Values]
    BY <1>2, <1>t DEF Publish, Nodes, Values, NoValue, TypeOK
  <2> QED
    BY <1>2, <1>t, <2>1, <2>2, <2>3 DEF Publish, Inv, TypeOK, HandOver
<1>3. CASE Answer
  <2>1. Head(requests) \in OnDemand
    BY <1>3, <1>t, ElementsTail DEF Answer, HandOver, TypeOK
  <2>2. [kind |-> "answer", node |-> Head(requests),
         value |-> remote[Head(requests)]] \in Message
    BY <2>1, <1>t DEF Nodes, Message, Reply, TypeOK
  <2>3. channel' \in Seq(Message)
    BY <1>3, <2>2, <1>t, ElementsAppend DEF Answer, TypeOK
  <2> QED
    BY <1>3, <1>t, <2>1, <2>2, <2>3 DEF Answer, Inv, TypeOK, HandOver,
       ThreadPoints
<1>4. CASE Serve
  <2>1. channel' \in Seq(Message)
    BY <1>4, <1>t, ElementsAppend DEF Serve, Message, TypeOK
  <2>2. remote' \in [Nodes -> 0 .. MaxChanges]
    BY <1>4, <1>t DEF Serve, Order, TypeOK
  <2> QED
    BY <1>4, <1>t, <2>1, <2>2 DEF Serve, Inv, TypeOK, HandOver
<1>5. CASE Restart
  <2>1. channel' \in Seq(Message)
    BY <1>5, EmptySeq DEF Restart
  <2>2. restarts' \in 0 .. MaxRestarts
    BY <1>5, <1>t, BoundAssumption DEF Restart, TypeOK
  <2> QED
    BY <1>5, <1>t, <2>1, <2>2 DEF Restart, Inv, TypeOK, HandOver
<1>6. CASE CreateSubscription
  BY <1>6, <1>t DEF CreateSubscription, Inv, TypeOK, HandOver, ThreadPoints
<1>7. CASE CheckConnection
  BY <1>7, <1>t DEF CheckConnection, Inv, TypeOK, HandOver, ThreadPoints
<1>8. CASE LeaveLoop
  BY <1>8, <1>t DEF LeaveLoop, Inv, TypeOK, HandOver, ThreadPoints
<1>9. CASE SendRead
  BY <1>9, <1>t DEF SendRead, Inv, TypeOK, HandOver, ThreadPoints
<1>10. CASE ReceiveAnswer
  <2>1. channel' \in Seq(Message) /\ Head(channel) \in Message
    BY <1>10, <1>t, ElementsTail DEF ReceiveAnswer, TypeOK
  <2>2. Head(channel).value \in Values
    BY <1>10, <2>1 DEF ReceiveAnswer, Message, Notification, Reply, Result,
       Values, NoValue
  <2>3. Head(requests) \in OnDemand /\ requests' \in Seq(OnDemand)
    BY <1>10, <1>t, ElementsTail DEF ReceiveAnswer, Respond, HandOver, TypeOK
  <2>4. [node |-> Head(requests), value |-> Head(channel).value] \in Response
    BY <2>2, <2>3 DEF Response, Nodes
  <2>5. responses' \in Seq(Response)
    BY <1>10, <1>t, <2>4, ElementsInsert DEF ReceiveAnswer, Respond, TypeOK
  <2> QED
    BY <1>10, <1>t, <2>1, <2>2, <2>3, <2>4, <2>5 DEF ReceiveAnswer, Inv,
       TypeOK, HandOver, Respond, ThreadPoints
<1>11. CASE ReadFails
  <2>1. Head(requests) \in OnDemand /\ requests' \in Seq(OnDemand)
    BY <1>11, <1>t, ElementsTail DEF ReadFails, Respond, HandOver, TypeOK
  <2>2. [node |-> Head(requests), value |-> NoValue] \in Response
    BY <2>1, BoundAssumption DEF Response, Nodes, Values, NoValue
  <2>3. responses' \in Seq(Response)
    BY <1>11, <1>t, <2>2, ElementsInsert DEF ReadFails, Respond, TypeOK
  <2> QED
    BY <1>11, <1>t, <2>1, <2>2, <2>3 DEF ReadFails, Inv, TypeOK, HandOver,
       Respond, ThreadPoints
<1>12. CASE ReceiveWhileLocked
  <2>1. channel' \in Seq(Message) /\ Head(channel) \in Message
    BY <1>12, <1>t, ElementsTail DEF ReceiveWhileLocked, TypeOK
  <2>2. inHand' \in Notification /\ inHand' # NoMessage
    BY <1>12, <2>1 DEF ReceiveWhileLocked, Message, Notification, Reply,
       Result, NoMessage
  <2> QED
    BY <1>12, <1>t, <2>1, <2>2 DEF ReceiveWhileLocked, Inv, TypeOK,
       HandOver, ThreadPoints
<1>13. CASE UnlockRequests
  BY <1>13, <1>t DEF UnlockRequests, Inv, TypeOK, HandOver, ThreadPoints
<1>14. CASE Receive
  <2>1. channel' \in Seq(Message) /\ Head(channel) \in Message
    BY <1>14, <1>t, ElementsTail DEF Receive, TypeOK
  <2>2. inHand' \in Notification /\ inHand' # NoMessage
    BY <1>14, <2>1 DEF Receive, Message, Notification, Reply, Result, NoMessage
  <2> QED
    BY <1>14, <1>t, <2>1, <2>2 DEF Receive, Inv, TypeOK, HandOver, ThreadPoints
<1>15. CASE QueueNotification
  <2>1. ResponseTo(inHand) \in Response
    BY <1>15, <1>t DEF QueueNotification, HandOver, ResponseTo, Response,
       Notification, Nodes, Values, NoValue, TypeOK
  <2>2. responses' \in Seq(Response)
    BY <1>15, <1>t, <2>1, ElementsInsert DEF QueueNotification, TypeOK
  <2> QED
    BY <1>15, <1>t, <2>1, <2>2 DEF QueueNotification, Inv, TypeOK,
       HandOver, ThreadPoints
<1>16. CASE LockRequests
  BY <1>16, <1>t DEF LockRequests, Inv, TypeOK, HandOver, ThreadPoints
<1>17. CASE UseDeletedClient
  BY <1>17, <1>t DEF UseDeletedClient, Inv, TypeOK, HandOver, MainPoints,
     ClientExists
<1>18. CASE WriteMirror
  <2>1. responses' \in Seq(Response) /\ Head(responses) \in Response
    BY <1>18, <1>t, ElementsTail DEF WriteMirror, TypeOK
  <2>2. Head(responses).value # NoValue => Head(responses).value \in 0 .. MaxChanges
    BY <2>1, BoundAssumption DEF Response, Values, NoValue
  <2>3. mirror' \in [Nodes -> 0 .. MaxChanges]
    BY <1>18, <1>t, <2>1, <2>2 DEF WriteMirror, Response, TypeOK
  <2>4. \/ order' = order
        \/ /\ order' = Head(responses)
           /\ Head(responses).node \in Writable
           /\ Head(responses).value # NoValue
    BY <1>18 DEF WriteMirror
  <2>5. order' \in Order \cup {NoOrder}
    BY <1>t, <2>1, <2>2, <2>4 DEF Response, Order, TypeOK
  <2> QED
    BY <1>18, <1>t, <2>1, <2>2, <2>3, <2>4, <2>5 DEF WriteMirror, Inv,
       TypeOK, HandOver, MainPoints
<1>19. CASE UnlockResponses
  BY <1>19, <1>t DEF UnlockResponses, Inv, TypeOK, HandOver, MainPoints
<1>20. CASE ReceiveResult
  BY <1>20, <1>t DEF ReceiveResult, Inv, TypeOK, HandOver, Resume,
     MainPoints, Waiting
<1>21. CASE OrderFails
  BY <1>21, <1>t DEF OrderFails, Inv, TypeOK, HandOver, Resume, MainPoints,
     Waiting
<1>22. CASE DispatchInMain
  <2>1. channel' \in Seq(Message) /\ Head(channel) \in Message
    BY <1>22, <1>t, ElementsTail DEF DispatchInMain, TypeOK
  <2>2. inHand' \in Notification /\ inHand' # NoMessage
    BY <1>22, <2>1 DEF DispatchInMain, Message, Notification, Reply,
       Result, NoMessage
  <2> QED
    BY <1>22, <1>t, <2>1, <2>2 DEF DispatchInMain, Inv, TypeOK, HandOver,
       Waiting
<1>23. CASE ClearQueues
  BY <1>23, <1>t DEF ClearQueues, Inv, TypeOK, HandOver, MainPoints
<1>24. CASE DeleteClient
  BY <1>24, <1>t DEF DeleteClient, Inv, TypeOK, HandOver, MainPoints
<1>25. CASE Exit
  BY <1>25, <1>t DEF Exit, Inv, TypeOK, HandOver, MainPoints
<1>26. CASE LockResponses
  BY <1>26, <1>t DEF LockResponses, Inv, TypeOK, HandOver, MainPoints
<1>27. CASE QueueInMain
  <2>1. ResponseTo(inHand) \in Response
    BY <1>27, <1>t DEF QueueInMain, HandOver, ResponseTo, Response,
       Notification, Nodes, Values, NoValue, TypeOK
  <2>2. responses' \in Seq(Response)
    BY <1>27, <1>t, <2>1, ElementsInsert DEF QueueInMain, TypeOK
  <2> QED
    BY <1>27, <1>t, <2>1, <2>2 DEF QueueInMain, Inv, TypeOK, HandOver
<1>28. CASE CallMethod
  <2>1. Call \in Order
    BY DEF Order
  <2>2. calls' \in 0 .. MaxCalls
    BY <1>28, <1>t, BoundAssumption DEF CallMethod, TypeOK
  <2> QED
    BY <1>28, <1>t, <2>1, <2>2 DEF CallMethod, Inv, TypeOK, HandOver, MainPoints
<1>29. ASSUME NEW n \in OnDemand, ClientRead(n) PROVE Inv'
  <2>1. requests' \in Seq(OnDemand) /\ requests' # <<>>
    BY <1>29, <1>t, ElementsInsert DEF ClientRead, TypeOK
  <2>2. reads' \in 0 .. MaxReads
    BY <1>29, <1>t, BoundAssumption DEF ClientRead, TypeOK
  <2> QED
    BY <1>29, <1>t, <2>1, <2>2 DEF ClientRead, Inv, TypeOK, HandOver
<1>30. ASSUME NEW n \in Writable, ClientWrite(n) PROVE Inv'
  <2>1. latest[n] + 1 \in 0 .. MaxChanges
    BY <1>30, <1>t, BoundAssumption, ModeAssumption DEF ClientWrite, Nodes,
       TypeOK
  <2>2. mirror' \in [Nodes -> 0 .. MaxChanges] /\ latest' \in [Nodes -> 0 .. MaxChanges]
    BY <1>30, <2>1, <1>t DEF ClientWrite, TypeOK
  <2>3. order' \in Order
    BY <1>30, <2>1 DEF ClientWrite, Order
  <2> QED
    BY <1>30, <1>t, <2>1, <2>2, <2>3 DEF ClientWrite, Inv, TypeOK,
       HandOver, MainPoints
<1>31. CASE Terminated
  BY <1>31, <1>t DEF Terminated, Inv, TypeOK, HandOver, vars
<1>32. CASE UNCHANGED vars
  BY <1>32, <1>t DEF Inv, TypeOK, HandOver, vars
<1> QED
  BY <1>1, <1>2, <1>3, <1>4, <1>5, <1>6, <1>7, <1>8, <1>9, <1>10, <1>11,
     <1>12, <1>13, <1>14, <1>15, <1>16, <1>17, <1>18, <1>19, <1>20, <1>21,
     <1>22, <1>23, <1>24, <1>25, <1>26, <1>27, <1>28, <1>29, <1>30, <1>31,
     <1>32 DEF Next, Agent, Thread, ThreadStep, Main, MainStep

\* Inv holds throughout, for any Backlog.
LEMMA Invariance == Spec => []Inv
<1>1. Init => Inv
  BY InitInv
<1>2. Inv /\ [Next]_vars => Inv'
  BY NextInv
<1> QED
  BY <1>1, <1>2, PTL DEF Spec

\* Every variable keeps its type, and only the thread that holds threadMutex is
\* in a critical section: the thread that serves the requests, or the main
\* thread that empties the responses (client_interface.c 96-113, internal.c
\* 137-147), also when the callback runs in the thread that waits.
THEOREM TypeCorrect == Spec => []TypeOK
<1>1. Inv => TypeOK
  BY DEF Inv
<1> QED
  BY <1>1, Invariance, PTL

-----------------------------------------------------------------------------
(***************************************************************************)
(* While the main loop keeps up with each node, one value of it is under   *)
(* way at most.                                                            *)
(***************************************************************************)
\* Of the values of a subscribed node all that are under way are the one its
\* item reported last.
ReportedUnderway ==
    /\ \A m \in Elements(channel) : m \in Notification => m.value = sampled[m.node]
    /\ \A r \in Elements(responses) : r.node \in Subscribed => r.value = sampled[r.node]
    /\ inHand # NoMessage => inHand.value = sampled[inHand.node]
    /\ thread = "start" => ~subscription /\ \A n \in Subscribed : sampled[n] = NoValue

OneReply(q) == \A i, j \in DOMAIN q : q[i] \in Reply /\ q[j] \in Reply => i = j

\* An on-demand node is asked for once at a time, and answered before it is
\* asked for again.
AskedOnce ==
    /\ \A i, j \in DOMAIN requests : requests[i] = requests[j] => i = j
    /\ OneReply(channel)
    /\ \A m \in Elements(channel) : m \in Reply =>
           thread \in {"answered", "nested"} /\ m.node = Head(requests)
    /\ \A r \in Elements(responses) : r.node \notin Elements(requests)
    /\ \A r, s \in Elements(responses) :
           r.node = s.node /\ r.node \in OnDemand => r = s

\* What is under way to the mirror of a plain node lies between the value the
\* mirror shows and the one the agent has.
Between ==
    /\ \A n \in Plain : latest[n] = remote[n] /\ mirror[n] <= remote[n]
    /\ \A n \in Subscribed : /\ sampled[n] <= remote[n]
                             /\ mirror[n] = 0 \/ mirror[n] <= sampled[n]
    /\ \A m \in Elements(channel) : m \in Reply /\ m.node \in Plain =>
           mirror[m.node] <= m.value /\ m.value <= remote[m.node]
    /\ \A r \in Elements(responses) :
           r.node \in OnDemand /\ r.node \in Plain /\ r.value # NoValue =>
               mirror[r.node] <= r.value /\ r.value <= remote[r.node]


KeptUp == ReportedUnderway /\ NewestUnderway /\ AskedOnce /\ Between

\* HeldFor in terms of the elements of the queues, before a step and after it.
LEMMA HeldIn ==
    ASSUME NEW n, NEW v
    PROVE  /\ HeldFor(n, v) <=>
                  \/ \E m \in Elements(channel) : m.node = n /\ m.value = v
                  \/ [node |-> n, value |-> v] \in Elements(responses)
                  \/ inHand # NoMessage /\ inHand.node = n /\ inHand.value = v
           /\ HeldFor(n, v)' <=>
                  \/ \E m \in Elements(channel') : m.node = n /\ m.value = v
                  \/ [node |-> n, value |-> v] \in Elements(responses')
                  \/ inHand' # NoMessage /\ inHand'.node = n /\ inHand'.value = v
<1>1. HeldFor(n, v) <=>
          \/ \E m \in Elements(channel) : m.node = n /\ m.value = v
          \/ [node |-> n, value |-> v] \in Elements(responses)
          \/ inHand # NoMessage /\ inHand.node = n /\ inHand.value = v
  BY DEF HeldFor, Elements
<1>2. HeldFor(n, v)' <=>
          \/ \E m \in Elements(channel') : m.node = n /\ m.value = v
          \/ [node |-> n, value |-> v] \in Elements(responses')
          \/ inHand' # NoMessage /\ inHand'.node = n /\ inHand'.value = v
  BY DEF HeldFor, Elements
<1> QED
  BY <1>1, <1>2

\* What is held stays held where nothing is taken out.
LEMMA HeldStays ==
    ASSUME Elements(channel) \subseteq Elements(channel'),
           Elements(responses) \subseteq Elements(responses'),
           inHand' = inHand,
           NEW n, NEW v, HeldFor(n, v)
    PROVE  HeldFor(n, v)'
BY HeldIn

\* The positions of a queue that satisfy a condition are finitely many, and
\* none if they number nought.
LEMMA Positions ==
    ASSUME NEW S, NEW q \in Seq(S), NEW I \in SUBSET DOMAIN q
    PROVE  Cardinality(I) \in Nat /\ (Cardinality(I) = 0 => I = {})
<1>1. IsFiniteSet(DOMAIN q)
  BY LenProperties, FS_Interval
<1>2. IsFiniteSet(I)
  BY <1>1, FS_Subset
<1> QED
  BY <1>2, FS_CardinalityType, FS_EmptySet

\* With Backlog = 1 a node is asked for, or reports, when nothing of it is
\* under way.
LEMMA NoneUnderway ==
    ASSUME Backlog = 1, Inv, NEW n, Underway(n) < Backlog
    PROVE  /\ \A m \in Elements(channel) : m.node # n
           /\ \A r \in Elements(responses) : r.node # n
           /\ n \notin Elements(requests)
           /\ inHand # NoMessage => inHand.node # n
<1> DEFINE C == {i \in DOMAIN channel : channel[i].node = n}
           R == {i \in DOMAIN responses : responses[i].node = n}
           Q == {i \in DOMAIN requests : requests[i] = n}
           h == IF inHand # NoMessage /\ inHand.node = n THEN 1 ELSE 0
<1>1. /\ Cardinality(C) \in Nat /\ (Cardinality(C) = 0 => C = {})
      /\ Cardinality(R) \in Nat /\ (Cardinality(R) = 0 => R = {})
      /\ Cardinality(Q) \in Nat /\ (Cardinality(Q) = 0 => Q = {})
  BY Positions DEF Inv, TypeOK
<1>2. Cardinality(C) + Cardinality(R) + Cardinality(Q) + h < 1 /\ h \in Nat
  BY DEF Underway, CountOf
<1>3. C = {} /\ R = {} /\ Q = {} /\ h = 0
  <2> HIDE DEF C, R, Q, h
  <2> QED
    BY <1>1, <1>2
<1> QED
  BY <1>3 DEF Elements
\* A queue in which a condition singles out one position at most keeps it so.
LEMMA OnceInTail ==
    ASSUME NEW S, NEW q \in Seq(S), q # <<>>, NEW P,
           \A i, j \in DOMAIN q : q[i] \in P /\ q[j] \in P => i = j
    PROVE  LET r == Tail(q)
           IN  /\ \A i, j \in DOMAIN r : r[i] \in P /\ r[j] \in P => i = j
               /\ Head(q) \in P => Elements(r) \cap P = {}
<1> DEFINE r == Tail(q)
           h == Head(q)
<1>1. /\ Len(q) \in Nat /\ DOMAIN r = 1 .. Len(q) - 1 /\ DOMAIN q = 1 .. Len(q)
      /\ Len(q) # 0 /\ h = q[1] /\ \A i \in 1 .. Len(q) - 1 : r[i] = q[i + 1]
  BY HeadTailProperties, LenProperties, EmptySeq
<1> HIDE DEF r, h
<1>2. ASSUME NEW i \in DOMAIN r, NEW j \in DOMAIN r, r[i] \in P, r[j] \in P
      PROVE  i = j
  <2>1. i + 1 \in DOMAIN q /\ j + 1 \in DOMAIN q /\ q[i + 1] = r[i] /\ q[j + 1] = r[j]
    BY <1>1
  <2>2. i + 1 = j + 1
    BY <1>2, <2>1
  <2> QED
    BY <1>1, <2>2
<1>3. ASSUME h \in P, NEW i \in DOMAIN r, r[i] \in P PROVE FALSE
  <2>1. i + 1 \in DOMAIN q /\ 1 \in DOMAIN q /\ q[i + 1] = r[i] /\ q[1] = h /\ i + 1 # 1
    BY <1>1
  <2> QED
    BY <1>3, <2>1
<1>4. h \in P => Elements(r) \cap P = {}
  BY <1>3 DEF Elements
<1> QED
  BY <1>2, <1>4 DEF r, h

\* It may be given an element that satisfies the condition if it has none.
LEMMA OnceInAppend ==
    ASSUME NEW S, NEW q \in Seq(S), NEW e \in S, NEW P,
           \A i, j \in DOMAIN q : q[i] \in P /\ q[j] \in P => i = j,
           e \notin P \/ Elements(q) \cap P = {}
    PROVE  LET r == Append(q, e)
           IN  \A i, j \in DOMAIN r : r[i] \in P /\ r[j] \in P => i = j
<1> DEFINE r == Append(q, e)
<1>1. /\ Len(q) \in Nat /\ DOMAIN r = 1 .. Len(q) + 1 /\ DOMAIN q = 1 .. Len(q)
      /\ r[Len(q) + 1] = e /\ \A i \in 1 .. Len(q) : r[i] = q[i]
  BY AppendProperties, LenProperties
<1> HIDE DEF r
<1>2. ASSUME NEW i \in DOMAIN r, NEW j \in DOMAIN r, r[i] \in P, r[j] \in P
      PROVE  i = j
  <2>1. CASE e \notin P
    BY <1>1, <1>2, <2>1
  <2>2. CASE Elements(q) \cap P = {}
    <3>1. \A k \in DOMAIN q : q[k] \notin P
      BY <2>2 DEF Elements
    <3> QED
      BY <1>1, <1>2, <3>1
  <2> QED
    BY <2>1, <2>2
<1> QED
  BY <1>2 DEF r

\* A queue without repetitions.
LEMMA NoRepetition ==
    ASSUME NEW S, NEW q \in Seq(S), \A i, j \in DOMAIN q : q[i] = q[j] => i = j
    PROVE  /\ q # <<>> =>
                 /\ \A i, j \in DOMAIN Tail(q) : Tail(q)[i] = Tail(q)[j] => i = j
                 /\ Head(q) \notin Elements(Tail(q))
           /\ \A e \in S \ Elements(q) :
                 LET r == InsertHead(q, e)
                 IN  \A i, j \in DOMAIN r : r[i] = r[j] => i = j
<1>1. ASSUME q # <<>>
      PROVE  /\ \A i, j \in DOMAIN Tail(q) : Tail(q)[i] = Tail(q)[j] => i = j
             /\ Head(q) \notin Elements(Tail(q))
  <2> DEFINE r == Tail(q)
             h == Head(q)
  <2>1. /\ Len(q) \in Nat /\ DOMAIN r = 1 .. Len(q) - 1 /\ DOMAIN q = 1 .. Len(q)
        /\ Len(q) # 0 /\ h = q[1] /\ \A i \in 1 .. Len(q) - 1 : r[i] = q[i + 1]
    BY <1>1, HeadTailProperties, LenProperties, EmptySeq
  <2> HIDE DEF r, h
  <2>2. ASSUME NEW i \in DOMAIN r, NEW j \in DOMAIN r, r[i] = r[j] PROVE i = j
    <3>1. i + 1 \in DOMAIN q /\ j + 1 \in DOMAIN q /\ q[i + 1] = r[i] /\ q[j + 1] = r[j]
      BY <2>1
    <3>2. i + 1 = j + 1
      BY <2>2, <3>1
    <3> QED
      BY <2>1, <3>2
  <2>3. ASSUME NEW i \in DOMAIN r, r[i] = h PROVE FALSE
    <3>1. i + 1 \in DOMAIN q /\ 1 \in DOMAIN q /\ q[i + 1] = r[i] /\ q[1] = h /\ i + 1 # 1
      BY <2>1
    <3> QED
      BY <2>3, <3>1
  <2>4. h \notin Elements(r)
    BY <2>3 DEF Elements
  <2> QED
    BY <2>2, <2>4 DEF r, h
<1>2. ASSUME NEW e \in S \ Elements(q)
      PROVE  LET r == InsertHead(q, e)
             IN  \A i, j \in DOMAIN r : r[i] = r[j] => i = j
  <2> DEFINE r == InsertHead(q, e)
  <2>1. /\ Len(q) \in Nat /\ DOMAIN r = 1 .. Len(q) + 1 /\ DOMAIN q = 1 .. Len(q)
        /\ r[1] = e /\ \A i \in 2 .. Len(q) + 1 : i - 1 \in DOMAIN q /\ r[i] = q[i - 1]
    BY InsertAt
  <2> HIDE DEF r
  <2>2. \A i \in DOMAIN q : q[i] # e
    BY DEF Elements
  <2>3. ASSUME NEW i \in DOMAIN r, NEW j \in DOMAIN r, r[i] = r[j] PROVE i = j
    <3>1. CASE i = 1 \/ j = 1
      BY <2>1, <2>2, <2>3, <3>1
    <3>2. CASE i # 1 /\ j # 1
      <4>1. /\ i - 1 \in DOMAIN q /\ j - 1 \in DOMAIN q
            /\ q[i - 1] = r[i] /\ q[j - 1] = r[j]
        BY <2>1, <3>2
      <4>2. i - 1 = j - 1
        BY <2>3, <4>1
      <4> QED
        BY <2>1, <4>2
    <3> QED
      BY <3>1, <3>2
  <2> QED
    BY <2>3 DEF r
<1> QED
  BY <1>1, <1>2

-----------------------------------------------------------------------------
(* One lemma for each kind of step.                                        *)

\* A step that hands nothing over.
Quiet ==
    /\ UNCHANGED <<remote, latest, mirror, sampled, subscription, channel,
                   requests, responses, inHand>>
    /\ thread' = "start" => thread = "start"
    /\ thread \in {"answered", "nested"} => thread' \in {"answered", "nested"}

\* What the type invariant says of the values that are compared.
LEMMA Typed ==
    ASSUME Inv
    PROVE  /\ \A n \in Nodes : remote[n] \in Nat /\ latest[n] \in Nat /\ mirror[n] \in Nat
           /\ \A n \in Subscribed : n \in Nodes /\ n \notin OnDemand /\ n \in Plain
                                    /\ sampled[n] \in Int
           /\ \A n \in Plain : n \in Nodes /\ n \notin Writable
           /\ \A m \in Elements(channel) : m \in Message
           /\ \A m \in Notification : /\ m.node \in Subscribed /\ m.value \in Nat
                                      /\ m \notin Reply /\ m # NoMessage /\ m # Result
           /\ \A m \in Reply : m.node \in OnDemand /\ m.value \in Nat /\ m # Result
           /\ \A r \in Elements(responses) : r \in Response
           /\ \A r \in Response : r.node \in Nodes /\ r.value \in Int
<1>1. MaxChanges \in Nat
  BY BoundAssumption
<1>2. \A n \in Nodes : remote[n] \in Nat /\ latest[n] \in Nat /\ mirror[n] \in Nat
  BY <1>1 DEF Inv, TypeOK
<1>3. \A n \in Subscribed : n \in Nodes /\ n \notin OnDemand /\ n \in Plain
                            /\ sampled[n] \in Int
  BY <1>1, ModeAssumption DEF Inv, TypeOK, Values, NoValue, Nodes, Plain
<1>4. \A m \in Elements(channel) : m \in Message
  BY ElementsOf DEF Inv, TypeOK
<1>5. \A r \in Elements(responses) : r \in Response
  BY ElementsOf DEF Inv, TypeOK
<1>6. \A m \in Notification : /\ m.node \in Subscribed /\ m.value \in Nat
                              /\ m \notin Reply /\ m # NoMessage /\ m # Result
  BY <1>1 DEF Notification, Reply, NoMessage, Result
<1>7. \A m \in Reply : m.node \in OnDemand /\ m.value \in Nat /\ m # Result
  BY <1>1 DEF Reply, Result
<1>8. \A r \in Response : r.node \in Nodes /\ r.value \in Int
  BY <1>1 DEF Response, Values, NoValue
<1>9. \A n \in Plain : n \in Nodes /\ n \notin Writable
  BY DEF Plain
<1> QED
  BY <1>2, <1>3, <1>4, <1>5, <1>6, <1>7, <1>8, <1>9

\* Steps that hand nothing over keep what is under way.
LEMMA QuietStep == ASSUME KeptUp, Quiet PROVE KeptUp'
<1>1. ReportedUnderway' /\ AskedOnce' /\ Between'
  BY DEF KeptUp, Quiet, ReportedUnderway, AskedOnce, Between
<1>2. NewestUnderway'
  BY DEF KeptUp, Quiet, NewestUnderway, HeldFor
<1> QED
  BY <1>1, <1>2 DEF KeptUp

\* A change at the agent leaves the mirror behind.
LEMMA ChangeStep == ASSUME Inv, KeptUp, NEW n \in Changing, Change(n) PROVE KeptUp'
<1>1. ReportedUnderway' /\ AskedOnce'
  BY DEF KeptUp, Change, ReportedUnderway, AskedOnce, queueVars
<1>2. NewestUnderway'
  BY DEF KeptUp, Change, NewestUnderway, HeldFor, queueVars
<1>3. \A k \in Plain : latest[k] = remote[k] /\ remote[k] \in Nat
                       /\ mirror[k] <= remote[k] /\ mirror[k] \in Nat
  BY Typed DEF KeptUp, Between
<1>4. \A k \in Plain : /\ latest'[k] = remote'[k]
                       /\ remote[k] <= remote'[k] /\ remote'[k] \in Nat
  BY <1>3, Typed, ModeAssumption DEF Change, Inv, TypeOK
<1>5. Between'
  <2>1. \A k \in Plain : latest'[k] = remote'[k] /\ mirror'[k] <= remote'[k]
    BY <1>3, <1>4 DEF Change
  <2>2. \A k \in Subscribed : /\ sampled'[k] <= remote'[k]
                              /\ mirror'[k] = 0 \/ mirror'[k] <= sampled'[k]
    BY <1>3, <1>4, Typed DEF Change, KeptUp, Between
  <2>3. \A m \in Elements(channel) : m \in Reply /\ m.node \in Plain =>
            mirror[m.node] <= m.value /\ m.value <= remote'[m.node]
    BY <1>3, <1>4, Typed DEF KeptUp, Between
  <2>4. \A r \in Elements(responses) :
            r.node \in OnDemand /\ r.node \in Plain /\ r.value # NoValue =>
                mirror[r.node] <= r.value /\ r.value <= remote'[r.node]
    BY <1>3, <1>4, Typed DEF KeptUp, Between
  <2> QED
    BY <2>1, <2>2, <2>3, <2>4 DEF Between, Change, queueVars
<1> QED
  BY <1>1, <1>2, <1>5 DEF KeptUp

\* A monitored item reports when nothing of its node is under way.
LEMMA PublishStep ==
    ASSUME Backlog = 1, Inv, KeptUp, NEW n \in Subscribed, Publish(n)
    PROVE  KeptUp'
<1> DEFINE m == [kind |-> "notification", node |-> n, value |-> remote[n]]
<1>1. m \in Notification /\ channel \in Seq(Message) /\ m \in Message
  BY ModeAssumption DEF Notification, Message, Nodes, Inv, TypeOK
<1>2. m.node = n /\ m.value = remote[n]
  OBVIOUS
<1>3. /\ Elements(channel') = Elements(channel) \cup {m}
      /\ channel' = Append(channel, m)
      /\ m \notin Reply
  BY <1>1, ElementsAppend, Typed DEF Publish
<1>4. /\ sampled'[n] = remote[n]
      /\ \A k \in Subscribed : k # n => sampled'[k] = sampled[k]
  BY DEF Publish, Inv, TypeOK
<1>5. /\ \A l \in Elements(channel) : l.node # n
      /\ \A r \in Elements(responses) : r.node # n
      /\ inHand # NoMessage => inHand.node # n
  BY NoneUnderway DEF Publish
<1>6. /\ UNCHANGED <<remote, latest, mirror, subscription, requests, responses,
                     inHand, thread>>
      /\ subscription
  BY DEF Publish, queueVars, mainVars
<1>7. inHand # NoMessage => inHand \in Notification
  BY DEF Inv, TypeOK
<1> HIDE DEF m
<1>8. ReportedUnderway'
  <2>1. \A l \in Elements(channel') : l \in Notification => l.value = sampled'[l.node]
    BY <1>2, <1>3, <1>4, <1>5, Typed DEF KeptUp, ReportedUnderway
  <2>2. \A r \in Elements(responses) : r.node \in Subscribed => r.value = sampled'[r.node]
    BY <1>4, <1>5 DEF KeptUp, ReportedUnderway
  <2>3. inHand # NoMessage => inHand.value = sampled'[inHand.node]
    BY <1>4, <1>5, <1>7, Typed DEF KeptUp, ReportedUnderway
  <2> QED
    BY <2>1, <2>2, <2>3, <1>6 DEF KeptUp, ReportedUnderway
<1>9. NewestUnderway'
  <2>1. \E i \in DOMAIN channel' : channel'[i] = m
    BY <1>3 DEF Elements
  <2>2. \A k \in Subscribed : \A v : HeldFor(k, v) => HeldFor(k, v)'
    <3>1. \A i \in DOMAIN channel : i \in DOMAIN channel' /\ channel'[i] = channel[i]
      BY <1>1, <1>3, AppendProperties, LenProperties
    <3> QED
      BY <3>1, <1>6 DEF HeldFor
  <2>3. HeldFor(n, remote[n])'
    BY <2>1, <1>2, <1>6 DEF HeldFor
  <2> QED
    BY <2>2, <2>3, <1>4, <1>6 DEF KeptUp, NewestUnderway
<1>10. AskedOnce'
  <2>1. OneReply(channel')
    BY <1>1, <1>3, OnceInAppend DEF KeptUp, AskedOnce, OneReply
  <2> QED
    BY <2>1, <1>3, <1>6 DEF KeptUp, AskedOnce
<1>11. Between'
  <2>1. \A k \in Subscribed : /\ sampled'[k] <= remote[k]
                              /\ mirror[k] = 0 \/ mirror[k] <= sampled'[k]
    BY <1>4, Typed DEF KeptUp, Between
  <2> QED
    BY <2>1, <1>3, <1>6 DEF KeptUp, Between
<1> QED
  BY <1>8, <1>9, <1>10, <1>11 DEF KeptUp

\* The answer to a read is newer than what the mirror shows.
LEMMA AnswerStep == ASSUME Inv, KeptUp, Answer PROVE KeptUp'
<1> DEFINE h == Head(requests)
           m == [kind |-> "answer", node |-> h, value |-> remote[h]]
<1>1. /\ h \in OnDemand /\ h \in Elements(requests) /\ h \in Nodes
  BY ElementsTail DEF Answer, Inv, TypeOK, HandOver, Nodes
<1>2. remote[h] \in 0 .. MaxChanges
  BY <1>1 DEF Inv, TypeOK
<1>3. m.node = h /\ m.value = remote[h] /\ m \in Reply
  BY <1>1, <1>2 DEF Reply
<1>0. channel' = Append(channel, m)
  BY DEF Answer
<1> HIDE DEF m
<1>4. /\ channel \in Seq(Message) /\ m \in Message /\ channel' = Append(channel, m)
      /\ Elements(channel') = Elements(channel) \cup {m}
  <2>1. channel \in Seq(Message) /\ m \in Message
    BY <1>3 DEF Message, Inv, TypeOK
  <2> QED
    BY <1>0, <2>1, ElementsAppend
<1>5. /\ UNCHANGED <<remote, latest, mirror, sampled, subscription, requests,
                     responses, inHand>>
      /\ thread = "asked" /\ thread' = "answered"
  BY DEF Answer, agentVars, queueVars, mainVars
<1>6. \A l \in Elements(channel) : l \notin Reply
  BY <1>5 DEF KeptUp, AskedOnce
<1>7. ReportedUnderway'
  BY <1>3, <1>4, <1>5, Typed DEF KeptUp, ReportedUnderway
<1>8. NewestUnderway'
  <2>1. \A n, v : HeldFor(n, v) => HeldFor(n, v)'
    BY <1>4, <1>5, HeldStays
  <2> QED
    BY <2>1, <1>5 DEF KeptUp, NewestUnderway
<1>9. AskedOnce'
  <2>1. OneReply(channel')
    BY <1>4, <1>6, OnceInAppend DEF KeptUp, AskedOnce, OneReply
  <2> QED
    BY <2>1, <1>3, <1>4, <1>5, <1>6 DEF KeptUp, AskedOnce
<1>10. Between'
  <2>1. h \in Plain => mirror[h] <= remote[h] /\ remote[h] <= remote[h]
    BY <1>1, <1>2, BoundAssumption DEF KeptUp, Between
  <2> QED
    BY <2>1, <1>3, <1>4, <1>5 DEF KeptUp, Between
<1> QED
  BY <1>7, <1>8, <1>9, <1>10 DEF KeptUp

\* The result of a call or a write is no value, and writes are to nodes of
\* which nothing is claimed.
LEMMA ServeStep == ASSUME Inv, KeptUp, Serve PROVE KeptUp'
<1>0. /\ channel \in Seq(Message) /\ Result \in Message
      /\ channel' = Append(channel, Result)
  BY DEF Message, Inv, TypeOK, Serve
<1>1. /\ channel \in Seq(Message) /\ Result \in Message
      /\ channel' = Append(channel, Result)
      /\ Result \notin Reply /\ Result \notin Notification
      /\ Elements(channel') = Elements(channel) \cup {Result}
  BY <1>0, ElementsAppend, Typed
<1>2. /\ UNCHANGED <<latest, mirror, sampled, subscription, requests,
                     responses, inHand, thread>>
  BY DEF Serve, queueVars
<1>3. \A n \in Plain : remote'[n] = remote[n]
  BY Typed, ModeAssumption DEF Serve, Inv, TypeOK, Order, Call
<1>4. ReportedUnderway'
  BY <1>1, <1>2 DEF KeptUp, ReportedUnderway
<1>5. NewestUnderway'
  <2>1. \A n, v : HeldFor(n, v) => HeldFor(n, v)'
    BY <1>1, <1>2, HeldStays
  <2> QED
    BY <2>1, <1>2 DEF KeptUp, NewestUnderway
<1>6. AskedOnce'
  <2>1. OneReply(channel')
    BY <1>1, OnceInAppend DEF KeptUp, AskedOnce, OneReply
  <2> QED
    BY <2>1, <1>1, <1>2 DEF KeptUp, AskedOnce
<1>7. Between'
  BY <1>1, <1>2, <1>3, Typed DEF KeptUp, Between
<1> QED
  BY <1>4, <1>5, <1>6, <1>7 DEF KeptUp

\* A restart loses what was on its way, and the monitored items with it.
LEMMA RestartStep == ASSUME Inv, KeptUp, Restart PROVE KeptUp'
<1>1. /\ UNCHANGED <<remote, latest, mirror, sampled, requests, responses, inHand,
                     thread>>
      /\ ~subscription' /\ channel' = <<>>
  BY DEF Restart, queueVars, mainVars
<1>2. Elements(channel') = {} /\ DOMAIN channel' = {}
  BY <1>1, ElementsOf DEF Elements
<1>3. ReportedUnderway' /\ NewestUnderway'
  BY <1>1, <1>2 DEF KeptUp, ReportedUnderway, NewestUnderway
<1>4. AskedOnce' /\ Between'
  BY <1>1, <1>2 DEF KeptUp, AskedOnce, OneReply, Between
<1> QED
  BY <1>3, <1>4 DEF KeptUp

\* Before its items exist no node has reported anything.
LEMMA CreateStep == ASSUME KeptUp, CreateSubscription PROVE KeptUp'
<1>1. /\ UNCHANGED <<remote, latest, mirror, sampled, channel, requests, responses,
                     inHand>>
      /\ thread = "start" /\ thread' = "check"
  BY DEF CreateSubscription, queueVars, mainVars
<1>2. \A n \in Subscribed : sampled'[n] = NoValue
  BY <1>1 DEF KeptUp, ReportedUnderway
<1>3. NewestUnderway'
  BY <1>2 DEF NewestUnderway
<1>4. ReportedUnderway' /\ AskedOnce' /\ Between'
  BY <1>1 DEF KeptUp, ReportedUnderway, AskedOnce, Between
<1> QED
  BY <1>3, <1>4 DEF KeptUp

\* A response is queued.
LEMMA ResponseInserted ==
    ASSUME Inv, NEW r \in Response, responses' = InsertHead(responses, r)
    PROVE  Elements(responses') = Elements(responses) \cup {r}
<1>1. responses \in Seq(Response)
  BY DEF Inv, TypeOK
<1>2. Elements(InsertHead(responses, r)) = Elements(responses) \cup {r}
  BY ONLY <1>1, r \in Response, ElementsInsert
<1> QED
  BY <1>2

\* The request at the head becomes a response; the reply, if there was one, is
\* taken from the channel.
LEMMA RespondStep ==
    ASSUME Inv, KeptUp, NEW v, thread \in {"asked", "answered"}, Respond(v),
           [node |-> Head(requests), value |-> v] \in Response,
           Elements(channel') \subseteq Elements(channel),
           \A m \in Elements(channel) : m \in Notification => m \in Elements(channel'),
           \A m \in Elements(channel') : m \notin Reply,
           Head(requests) \in Plain /\ v # NoValue =>
               mirror[Head(requests)] <= v /\ v <= remote[Head(requests)]
    PROVE  KeptUp'
<1> DEFINE h == Head(requests)
           r == [node |-> h, value |-> v]
<1>1. /\ h \in OnDemand /\ h \notin Subscribed
      /\ Elements(requests) = Elements(requests') \cup {h} /\ h \notin Elements(requests')
      /\ \A i, j \in DOMAIN requests' : requests'[i] = requests'[j] => i = j
  BY ElementsTail, NoRepetition, ModeAssumption
     DEF Inv, TypeOK, HandOver, KeptUp, AskedOnce, Respond
<1>2. r.node = h /\ r.value = v
  OBVIOUS
<1>3. responses' = InsertHead(responses, r) /\ r \in Response
  BY DEF Respond
<1> HIDE DEF h, r
<1>4. Elements(responses') = Elements(responses) \cup {r}
  BY <1>3, ResponseInserted
<1>5. /\ UNCHANGED <<remote, latest, mirror, sampled, subscription, inHand>>
      /\ thread' = "requests"
  BY DEF Respond, agentVars, mainVars
<1>6. ReportedUnderway'
  BY <1>1, <1>2, <1>4, <1>5 DEF KeptUp, ReportedUnderway
<1>7. NewestUnderway'
  <2>1. ASSUME NEW n \in Subscribed, NEW w, HeldFor(n, w) PROVE HeldFor(n, w)'
    <3>1. \A m \in Elements(channel) : m.node = n => m \in Notification
      BY Typed, ModeAssumption DEF Message, Result, Nodes
    <3> QED
      BY <2>1, <3>1, <1>4, <1>5, HeldIn
  <2> QED
    BY <2>1, <1>5 DEF KeptUp, NewestUnderway
<1>8. AskedOnce'
  <2>1. \A s \in Elements(responses') : s.node \notin Elements(requests')
    BY <1>1, <1>2, <1>4 DEF KeptUp, AskedOnce
  <2>2. h \in Elements(requests)
    BY <1>1
  <2>3. \A s \in Elements(responses) : s.node # h
    BY <2>2 DEF KeptUp, AskedOnce
  <2>4. \A s, t \in Elements(responses') : s.node = t.node /\ s.node \in OnDemand => s = t
    BY <2>3, <1>2, <1>4 DEF KeptUp, AskedOnce
  <2>5. OneReply(channel')
    BY DEF Elements, OneReply
  <2> QED
    BY <2>1, <2>4, <2>5, <1>1 DEF AskedOnce
<1>9. Between'
  BY <1>2, <1>4, <1>5 DEF KeptUp, Between, h
<1> QED
  BY <1>6, <1>7, <1>8, <1>9 DEF KeptUp

\* The reply is the only one on its way, and it is taken.
LEMMA ReceiveAnswerStep == ASSUME Inv, KeptUp, ReceiveAnswer PROVE KeptUp'
<1> DEFINE m == Head(channel)
<1>1. /\ channel \in Seq(Message) /\ channel # <<>> /\ m \in Message
      /\ channel' = Tail(channel)
      /\ Elements(channel) = Elements(channel') \cup {m}
  BY ElementsTail DEF ReceiveAnswer, Inv, TypeOK
<1>2. m \in Reply
  BY <1>1 DEF ReceiveAnswer, Message, Notification, Result
<1>3. \A l \in Elements(channel') : l \notin Reply
  BY <1>1, <1>2, OnceInTail DEF KeptUp, AskedOnce, OneReply
<1>4. m.node = Head(requests)
  BY <1>1, <1>2 DEF KeptUp, AskedOnce
<1>5. [node |-> Head(requests), value |-> m.value] \in Response
  BY <1>2, <1>4, BoundAssumption DEF Reply, Response, Values, NoValue, Nodes
<1>6. m.node \in Plain => mirror[m.node] <= m.value /\ m.value <= remote[m.node]
  BY <1>1, <1>2 DEF KeptUp, Between
<1>7. \A l \in Notification : l # m
  BY <1>2, Typed
<1>8. Respond(m.value) /\ thread = "answered"
  BY DEF ReceiveAnswer
<1> HIDE DEF m
<1> QED
  BY <1>1, <1>3, <1>4, <1>5, <1>6, <1>7, <1>8, RespondStep

\* A read that failed had nothing on its way.
LEMMA ReadFailsStep == ASSUME Inv, KeptUp, ReadFails PROVE KeptUp'
<1>1. channel = <<>> /\ channel' = channel
  BY DEF ReadFails, Inv, HandOver
<1>2. Elements(channel) = {} /\ Elements(channel') = {}
  BY <1>1, ElementsOf DEF Elements
<1>3. Head(requests) \in OnDemand
  BY ElementsTail DEF ReadFails, Inv, TypeOK, HandOver
<1>4. [node |-> Head(requests), value |-> NoValue] \in Response
  BY <1>3, BoundAssumption DEF Response, Values, NoValue, Nodes
<1> QED
  BY <1>1, <1>2, <1>4, RespondStep DEF ReadFails

\* A callback takes a notification, in whichever thread waits in the client.
LEMMA TakeStep ==
    ASSUME Inv, KeptUp, inHand = NoMessage, channel # <<>>,
           Head(channel) \in Notification,
           inHand' = Head(channel), channel' = Tail(channel),
           UNCHANGED <<remote, latest, mirror, sampled, subscription, requests,
                       responses>>,
           thread' = "start" => thread = "start", thread # "nested",
           thread = "answered" => thread' \in {"answered", "nested"}
    PROVE  KeptUp'
<1> DEFINE m == Head(channel)
<1>1. channel \in Seq(Message)
  BY DEF Inv, TypeOK
<1>2. Elements(channel) = Elements(channel') \cup {m} /\ m \in Notification /\ inHand' = m
  BY <1>1, ElementsTail
<1>3. m # NoMessage
  BY <1>2, Typed
<1>4. OneReply(channel')
  BY <1>1, OnceInTail DEF KeptUp, AskedOnce, OneReply
<1> HIDE DEF m
<1>5. ReportedUnderway'
  BY <1>2 DEF KeptUp, ReportedUnderway
<1>6. NewestUnderway'
  <2>1. ASSUME NEW n, NEW v, HeldFor(n, v) PROVE HeldFor(n, v)'
    <3>1. Elements(responses') = Elements(responses)
      OBVIOUS
    <3>2. \/ \E l \in Elements(channel) : l.node = n /\ l.value = v
          \/ [node |-> n, value |-> v] \in Elements(responses)
      BY <2>1, HeldIn
    <3>3. \/ \E l \in Elements(channel') : l.node = n /\ l.value = v
          \/ [node |-> n, value |-> v] \in Elements(responses')
          \/ m.node = n /\ m.value = v
      BY <3>1, <3>2, <1>2
    <3>4. inHand' # NoMessage /\ inHand' = m
      BY <1>2, <1>3
    <3> QED
      BY <3>3, <3>4, HeldIn
  <2> QED
    BY <2>1 DEF KeptUp, NewestUnderway
<1>7. AskedOnce'
  BY <1>2, <1>4 DEF KeptUp, AskedOnce
<1>8. Between'
  BY <1>2 DEF KeptUp, Between
<1> QED
  BY <1>5, <1>6, <1>7, <1>8 DEF KeptUp

\* The callback queues what it holds.
LEMMA QueueStep ==
    ASSUME Inv, KeptUp, inHand # NoMessage,
           responses' = InsertHead(responses, ResponseTo(inHand)),
           inHand' = NoMessage,
           UNCHANGED <<remote, latest, mirror, sampled, subscription, requests,
                       channel>>,
           thread' = "start" => thread = "start",
           thread \in {"answered", "nested"} => thread' \in {"answered", "nested"}
    PROVE  KeptUp'
<1> DEFINE r == ResponseTo(inHand)
<1>1. inHand \in Notification
  BY DEF Inv, TypeOK
<1>2. r.node = inHand.node /\ r.value = inHand.value /\ r.node \in Subscribed
      /\ r = [node |-> inHand.node, value |-> inHand.value]
  BY <1>1, Typed DEF ResponseTo
<1>3. r \in Response
  BY <1>1, BoundAssumption DEF Notification, ResponseTo, Response, Nodes, Values, NoValue
<1>4. responses' = InsertHead(responses, r)
  OBVIOUS
<1> HIDE DEF r
<1>5. Elements(responses') = Elements(responses) \cup {r}
  BY <1>3, <1>4, ResponseInserted
<1>6. ReportedUnderway'
  BY <1>2, <1>5 DEF KeptUp, ReportedUnderway
<1>7. NewestUnderway'
  <2>1. ASSUME NEW n, NEW v, HeldFor(n, v) PROVE HeldFor(n, v)'
    BY <2>1, <1>2, <1>5, HeldIn
  <2> QED
    BY <2>1 DEF KeptUp, NewestUnderway
<1>8. AskedOnce'
  <2>1. r.node \notin Elements(requests) /\ r.node \notin OnDemand
    BY <1>2, Typed, ElementsOf DEF Inv, TypeOK
  <2> QED
    BY <2>1, <1>5 DEF KeptUp, AskedOnce
<1>9. Between'
  BY <1>2, <1>5, Typed DEF KeptUp, Between
<1> QED
  BY <1>6, <1>7, <1>8, <1>9 DEF KeptUp

\* The result of a call or a write leaves the channel.
LEMMA ResultStep == ASSUME Inv, KeptUp, ReceiveResult PROVE KeptUp'
<1> DEFINE m == Head(channel)
<1>1. channel \in Seq(Message) /\ channel # <<>> /\ channel' = Tail(channel)
  BY DEF ReceiveResult, Inv, TypeOK
<1>2. Elements(channel) = Elements(channel') \cup {m} /\ m \in Message
  BY <1>1, ElementsTail
<1>3. m = Result
  BY <1>2 DEF ReceiveResult, Message, Notification, Reply
<1>4. OneReply(channel')
  BY <1>1, OnceInTail DEF KeptUp, AskedOnce, OneReply
<1>5. UNCHANGED <<remote, latest, mirror, sampled, subscription, requests, responses,
                  inHand, thread>>
  BY DEF ReceiveResult, agentVars, queueVars
<1> HIDE DEF m
<1>6. ReportedUnderway'
  BY <1>2, <1>5 DEF KeptUp, ReportedUnderway
<1>7. NewestUnderway'
  <2>1. m.node = NoNode
    BY <1>3 DEF Result
  <2>2. ASSUME NEW n \in Subscribed, NEW v, HeldFor(n, v) PROVE HeldFor(n, v)'
    <3>1. n # NoNode
      BY ModeAssumption DEF Nodes
    <3> QED
      BY <2>1, <2>2, <3>1, <1>2, <1>5, HeldIn
  <2> QED
    BY <2>2, <1>5 DEF KeptUp, NewestUnderway
<1>8. AskedOnce'
  BY <1>2, <1>4, <1>5 DEF KeptUp, AskedOnce
<1>9. Between'
  BY <1>2, <1>5 DEF KeptUp, Between
<1> QED
  BY <1>6, <1>7, <1>8, <1>9 DEF KeptUp

\* A client's read orders a value of a node of which nothing is under way.
LEMMA AskStep ==
    ASSUME Backlog = 1, Inv, KeptUp, NEW n \in OnDemand, ClientRead(n)
    PROVE  KeptUp'
<1>1. /\ \A r \in Elements(responses) : r.node # n
      /\ n \notin Elements(requests)
  BY NoneUnderway DEF ClientRead
<1>2. requests \in Seq(OnDemand) /\ requests' = InsertHead(requests, n)
  BY DEF ClientRead, Inv, TypeOK
<1>3. Elements(requests') = Elements(requests) \cup {n}
  <2>1. requests \in Seq(OnDemand)
    BY <1>2
  <2>2. Elements(InsertHead(requests, n)) = Elements(requests) \cup {n}
    BY ONLY <2>1, n \in OnDemand, ElementsInsert
  <2> QED
    BY <1>2, <2>2
<1>4. \A i, j \in DOMAIN requests' : requests'[i] = requests'[j] => i = j
  BY <1>1, <1>2, NoRepetition DEF KeptUp, AskedOnce
<1>5. UNCHANGED <<remote, latest, mirror, sampled, subscription, channel, responses,
                  inHand, thread>>
  BY DEF ClientRead, agentVars
<1>6. thread \notin {"answered", "nested"}
  BY DEF ClientRead, Inv, TypeOK
<1>7. ReportedUnderway' /\ Between'
  BY <1>5 DEF KeptUp, ReportedUnderway, Between
<1>8. NewestUnderway'
  BY <1>5 DEF KeptUp, NewestUnderway, HeldFor
<1>9. AskedOnce'
  BY <1>1, <1>3, <1>4, <1>5, <1>6 DEF KeptUp, AskedOnce
<1> QED
  BY <1>7, <1>8, <1>9 DEF KeptUp

\* A client writes a node of which nothing is claimed.
LEMMA ClientWriteStep ==
    ASSUME Inv, KeptUp, NEW n \in Writable, ClientWrite(n)
    PROVE  KeptUp'
<1>1. UNCHANGED <<remote, sampled, subscription, channel, requests, responses, inHand,
                  thread>>
  BY DEF ClientWrite, agentVars, queueVars
<1>2. \A k \in Plain : latest'[k] = latest[k] /\ mirror'[k] = mirror[k]
  BY DEF ClientWrite, Inv, TypeOK, Plain
<1>3. \A k \in Subscribed : mirror'[k] = mirror[k]
  BY <1>2, Typed
<1>4. ReportedUnderway' /\ AskedOnce'
  BY <1>1 DEF KeptUp, ReportedUnderway, AskedOnce
<1>5. NewestUnderway'
  BY <1>1, <1>3 DEF KeptUp, NewestUnderway, HeldFor
<1>6. Between'
  BY <1>1, <1>2, <1>3, Typed DEF KeptUp, Between
<1> QED
  BY <1>4, <1>5, <1>6 DEF KeptUp

\* A mirror gets a value it did not have, or the server refuses it.
LEMMA WriteStep == ASSUME Inv, KeptUp, WriteMirror PROVE KeptUp'
<1> DEFINE r == Head(responses)
<1>1. responses \in Seq(Response) /\ responses # <<>> /\ responses' = Tail(responses)
  BY DEF WriteMirror, Inv, TypeOK
<1>2. Elements(responses) = Elements(responses') \cup {r} /\ r \in Response
  BY <1>1, ElementsTail
<1>3. UNCHANGED <<remote, latest, sampled, subscription, channel, requests, inHand,
                  thread>>
  BY DEF WriteMirror, agentVars
<1>4. /\ \A k \in Nodes : k # r.node \/ r.value = NoValue => mirror'[k] = mirror[k]
      /\ r.value # NoValue => mirror'[r.node] = r.value
  BY <1>2, Typed DEF WriteMirror, Inv, TypeOK
<1> HIDE DEF r
<1>5. r.node \in Nodes
  BY <1>2, Typed
<1>6. ReportedUnderway' /\ AskedOnce'
  BY <1>2, <1>3 DEF KeptUp, ReportedUnderway, AskedOnce
<1>7. r.node \in Subscribed => r.value = sampled[r.node]
  BY <1>2 DEF KeptUp, ReportedUnderway
<1>8. NewestUnderway'
  <2> SUFFICES ASSUME subscription, NEW n \in Subscribed, sampled[n] # NoValue
               PROVE  mirror'[n] = sampled[n] \/ HeldFor(n, sampled[n])'
    BY <1>3 DEF NewestUnderway
  <2>1. CASE r.node = n
    BY <2>1, <1>4, <1>7
  <2>2. CASE r.node # n
    <3>1. mirror'[n] = mirror[n]
      BY <2>2, <1>4, Typed
    <3>2. HeldFor(n, sampled[n]) => HeldFor(n, sampled[n])'
      <4>1. [node |-> n, value |-> sampled[n]] # r
        BY <2>2
      <4>2. sampled' = sampled
        BY <1>3
      <4>3. \A v : v = sampled[n] /\ HeldFor(n, v) => HeldFor(n, v)'
        BY <4>1, <1>2, <1>3, HeldIn
      <4> QED
        BY <4>2, <4>3
    <3> QED
      BY <3>1, <3>2 DEF KeptUp, NewestUnderway
  <2> QED
    BY <2>1, <2>2
<1>9. Between'
  <2>1. \A n \in Plain : latest[n] = remote[n] /\ mirror'[n] <= remote[n]
    <3> SUFFICES ASSUME NEW n \in Plain PROVE mirror'[n] <= remote[n]
      BY DEF KeptUp, Between
    <3>1. CASE r.node = n /\ r.value # NoValue
      <4>1. r.value <= remote[n]
        BY <3>1, <1>2, <1>7, Typed DEF KeptUp, Between, Plain, Nodes
      <4> QED
        BY <4>1, <3>1, <1>4
    <3>2. CASE ~(r.node = n /\ r.value # NoValue)
      BY <3>2, <1>4, Typed DEF KeptUp, Between
    <3> QED
      BY <3>1, <3>2
  <2>2. \A n \in Subscribed : mirror'[n] = 0 \/ mirror'[n] <= sampled[n]
    <3> SUFFICES ASSUME NEW n \in Subscribed
                 PROVE  mirror'[n] = 0 \/ mirror'[n] <= sampled[n]
      OBVIOUS
    <3>1. CASE r.node = n /\ r.value # NoValue
      BY <3>1, <1>4, <1>7, Typed
    <3>2. CASE ~(r.node = n /\ r.value # NoValue)
      BY <3>2, <1>4, Typed DEF KeptUp, Between
    <3> QED
      BY <3>1, <3>2
  <2>3. \A m \in Elements(channel) : m \in Reply /\ m.node \in Plain =>
            mirror'[m.node] <= m.value /\ m.value <= remote[m.node]
    <3> SUFFICES ASSUME NEW m \in Elements(channel), m \in Reply, m.node \in Plain
                 PROVE  mirror'[m.node] = mirror[m.node]
      BY DEF KeptUp, Between
    <3>1. m.node \in Elements(requests)
      BY ElementsTail DEF KeptUp, AskedOnce, Inv, TypeOK, HandOver
    <3>2. m.node # r.node
      BY <3>1, <1>2 DEF KeptUp, AskedOnce
    <3> QED
      BY <3>2, <1>4, Typed
  <2>4. \A s \in Elements(responses') :
            s.node \in OnDemand /\ s.node \in Plain /\ s.value # NoValue =>
                mirror'[s.node] <= s.value /\ s.value <= remote[s.node]
    <3> SUFFICES ASSUME NEW s \in Elements(responses'), s.node \in OnDemand,
                        s.node \in Plain, s.value # NoValue
                 PROVE  mirror'[s.node] <= s.value /\ s.value <= remote[s.node]
      OBVIOUS
    <3>1. mirror[s.node] <= s.value /\ s.value <= remote[s.node]
      BY <1>2 DEF KeptUp, Between
    <3>2. CASE s.node = r.node
      <4>1. s = r
        BY <3>2, <1>2 DEF KeptUp, AskedOnce
      <4> QED
        BY <4>1, <3>1, <1>2, <1>4, Typed
    <3>3. CASE s.node # r.node
      BY <3>1, <3>3, <1>4, Typed
    <3> QED
      BY <3>2, <3>3
  <2> QED
    BY <2>1, <2>2, <2>3, <2>4, <1>3 DEF KeptUp, Between
<1> QED
  BY <1>6, <1>8, <1>9 DEF KeptUp

-----------------------------------------------------------------------------
(* All steps.                                                              *)

\* Every step is one of those above.
LEMMA KeptUpNext ==
    ASSUME Backlog = 1, Inv, KeptUp, [Next]_vars
    PROVE  KeptUp'
<1> USE DEF agentVars, queueVars, mainVars
<1>1. ASSUME NEW n \in Changing, Change(n) PROVE KeptUp'
  BY <1>1, ChangeStep
<1>2. ASSUME NEW n \in Subscribed, Publish(n) PROVE KeptUp'
  BY <1>2, PublishStep
<1>3. CASE Answer \/ Serve \/ Restart
  BY <1>3, AnswerStep, ServeStep, RestartStep
<1>4. CASE CreateSubscription
  BY <1>4, CreateStep
<1>5. CASE CheckConnection \/ LeaveLoop \/ SendRead \/ UnlockRequests \/ LockRequests
  <2>1. Quiet
    BY <1>5 DEF Quiet, CheckConnection, LeaveLoop, SendRead, UnlockRequests, LockRequests
  <2> QED
    BY <2>1, QuietStep
<1>6. CASE UseDeletedClient \/ LockResponses \/ UnlockResponses \/ CallMethod
  <2>1. Quiet
    BY <1>6 DEF Quiet, UseDeletedClient, LockResponses, UnlockResponses, CallMethod
  <2> QED
    BY <2>1, QuietStep
<1>7. CASE OrderFails \/ ClearQueues \/ DeleteClient \/ Exit \/ Terminated \/ UNCHANGED vars
  <2>1. Quiet
    BY <1>7 DEF Quiet, OrderFails, ClearQueues, DeleteClient, Exit, Terminated, vars
  <2> QED
    BY <2>1, QuietStep
<1>8. CASE ReceiveAnswer \/ ReadFails
  BY <1>8, ReceiveAnswerStep, ReadFailsStep
<1>9. CASE Receive \/ ReceiveWhileLocked \/ DispatchInMain
  <2>1. Head(channel) \in Notification
    <3>1. channel \in Seq(Message) /\ channel # <<>>
      BY <1>9 DEF Receive, ReceiveWhileLocked, DispatchInMain, Inv, TypeOK
    <3>2. Head(channel) \in Message
      BY <3>1, ElementsTail
    <3> QED
      BY <1>9, <3>2 DEF Receive, ReceiveWhileLocked, DispatchInMain, Message, Reply, Result
  <2>2. inHand = NoMessage
    BY <1>9 DEF Receive, ReceiveWhileLocked, DispatchInMain, Waiting, Inv, HandOver,
                MainInClient, ThreadInClient
  <2>3. /\ channel # <<>> /\ inHand' = Head(channel) /\ channel' = Tail(channel)
        /\ UNCHANGED <<remote, latest, mirror, sampled, subscription, requests, responses>>
    BY <1>9 DEF Receive, ReceiveWhileLocked, DispatchInMain
  <2>4. /\ thread' = "start" => thread = "start"
        /\ thread # "nested"
        /\ thread = "answered" => thread' \in {"answered", "nested"}
    BY <1>9 DEF Receive, ReceiveWhileLocked, DispatchInMain, Waiting, ThreadInClient
  <2> QED
    BY <2>1, <2>2, <2>3, <2>4, TakeStep
<1>10. CASE QueueNotification \/ QueueInMain
  <2>1. /\ inHand # NoMessage /\ inHand' = NoMessage
        /\ responses' = InsertHead(responses, ResponseTo(inHand))
        /\ UNCHANGED <<remote, latest, mirror, sampled, subscription, requests, channel>>
    BY <1>10 DEF QueueNotification, QueueInMain, Inv, HandOver
  <2>2. /\ thread' = "start" => thread = "start"
        /\ thread \in {"answered", "nested"} => thread' \in {"answered", "nested"}
    BY <1>10 DEF QueueNotification, QueueInMain
  <2> QED
    BY <2>1, <2>2, QueueStep
<1>11. CASE WriteMirror \/ ReceiveResult
  BY <1>11, WriteStep, ResultStep
<1>12. ASSUME NEW n \in OnDemand, ClientRead(n) PROVE KeptUp'
  BY <1>12, AskStep
<1>13. ASSUME NEW n \in Writable, ClientWrite(n) PROVE KeptUp'
  BY <1>13, ClientWriteStep
<1> QED
  BY <1>1, <1>2, <1>3, <1>4, <1>5, <1>6, <1>7, <1>8, <1>9, <1>10, <1>11, <1>12,
     <1>13 DEF Next, Agent, Thread, ThreadStep, Main, MainStep

\* Nothing is under way at first.
LEMMA InitKeptUp == ASSUME Init PROVE KeptUp
<1>1. /\ channel = <<>> /\ requests = <<>> /\ responses = <<>> /\ inHand = NoMessage
      /\ thread = "start" /\ ~subscription
      /\ \A n \in Subscribed : sampled[n] = NoValue
      /\ \A n \in Nodes : remote[n] = 0 /\ latest[n] = 0 /\ mirror[n] = 0
  BY DEF Init
<1>2. /\ Elements(channel) = {} /\ Elements(requests) = {} /\ Elements(responses) = {}
      /\ DOMAIN channel = {} /\ DOMAIN requests = {}
  BY <1>1, ElementsOf DEF Elements
<1>3. ReportedUnderway /\ NewestUnderway /\ AskedOnce
  BY <1>1, <1>2 DEF ReportedUnderway, NewestUnderway, AskedOnce, OneReply
<1>4. Between
  BY <1>1, <1>2 DEF Between, Plain, Nodes, NoValue
<1> QED
  BY <1>3, <1>4 DEF KeptUp

\* KeptUp holds throughout.
LEMMA KeptUpInvariance == ASSUME Backlog = 1 PROVE Spec => [](Inv /\ KeptUp)
<1>1. Init => Inv /\ KeptUp
  BY InitInv, InitKeptUp
<1>2. Inv /\ KeptUp /\ [Next]_vars => Inv' /\ KeptUp'
  BY NextInv, KeptUpNext
<1> QED
  BY <1>1, <1>2, PTL DEF Spec

\* While the main loop keeps up with the values of each node, no hand-over
\* drops the value a node reported last: it is in the mirror or on its way
\* (synchronization.c 21-27, internal.c 139-147).
THEOREM NoReportIsDropped ==
    ASSUME Backlog = 1
    PROVE  Spec => []NewestUnderway
<1>1. Inv /\ KeptUp => NewestUnderway
  BY DEF KeptUp
<1> QED
  BY <1>1, KeptUpInvariance, PTL

-----------------------------------------------------------------------------
(* The refinement.                                                         *)

\* A step that touches no plain node is a stuttering step of AgentMirror.
LEMMA SamePlain ==
    ASSUME \A n \in Plain : remote'[n] = remote[n] /\ mirror'[n] = mirror[n]
    PROVE  UNCHANGED <<[n \in Plain |-> remote[n]], [n \in Plain |-> mirror[n]]>>
OBVIOUS

\* A change at the agent is a change there, if the node is plain.
LEMMA ChangeRefines ==
    ASSUME Inv, KeptUp, NEW n \in Changing, Change(n)
    PROVE  [Shown!Next]_<<[k \in Plain |-> remote[k]], [k \in Plain |-> mirror[k]]>>
<1>1. /\ mirror' = mirror
      /\ \A k \in Nodes : remote'[k] = IF k = n THEN latest[n] + 1 ELSE remote[k]
  BY ModeAssumption DEF Change, Inv, TypeOK
<1>2. CASE n \in Plain
  <2>1. latest[n] = remote[n]
    BY <1>2 DEF KeptUp, Between
  <2>2. [k \in Plain |-> remote'[k]] = [[k \in Plain |-> remote[k]] EXCEPT ![n] = @ + 1]
    BY <1>1, <1>2, <2>1 DEF Plain
  <2>3. Shown!Change(n)
    BY <1>1, <2>2 DEF Shown!Change
  <2> QED
    BY <1>2, <2>3 DEF Shown!Next
<1>3. CASE n \notin Plain
  BY <1>1, <1>3, SamePlain DEF Plain
<1> QED
  BY <1>2, <1>3

\* A write of the synchronization shows a value of the agent that is no older
\* than the one the mirror had.
LEMMA WriteRefines ==
    ASSUME Inv, KeptUp, WriteMirror
    PROVE  [Shown!Next]_<<[k \in Plain |-> remote[k]], [k \in Plain |-> mirror[k]]>>
<1> DEFINE r == Head(responses)
<1>1. r \in Response /\ r \in Elements(responses) /\ remote' = remote
  BY ElementsTail DEF WriteMirror, Inv, TypeOK, agentVars
<1>2. mirror' = IF r.value = NoValue THEN mirror ELSE [mirror EXCEPT ![r.node] = r.value]
  BY DEF WriteMirror
<1>3. mirror \in [Nodes -> 0 .. MaxChanges] /\ r.node \in Nodes
  BY <1>1, Typed DEF Inv, TypeOK
<1> HIDE DEF r
<1>4. CASE r.node \in Plain /\ r.value # NoValue
  <2>1. mirror[r.node] <= r.value /\ r.value <= remote[r.node]
    <3>1. CASE r.node \in Subscribed
      <4>1. r.value = sampled[r.node] /\ r.value # NoValue /\ r.value \in Values
        BY <1>1, <1>4, <3>1 DEF KeptUp, ReportedUnderway, Response
      <4>2. r.value >= 0
        BY <4>1, BoundAssumption DEF Values, NoValue
      <4> QED
        BY <3>1, <4>1, <4>2, Typed DEF KeptUp, Between
    <3>2. CASE r.node \in OnDemand
      BY <1>1, <1>4, <3>2 DEF KeptUp, Between
    <3> QED
      BY <1>3, <3>1, <3>2 DEF Nodes
  <2>2. r.value \in mirror[r.node] .. remote[r.node]
    BY <1>1, <1>3, <2>1, Typed
  <2>3. PICK n \in Plain : n = r.node
    BY <1>4
  <2>4. [k \in Plain |-> mirror'[k]] = [[k \in Plain |-> mirror[k]] EXCEPT ![n] = r.value]
    BY <1>2, <1>3, <1>4, <2>3 DEF Plain
  <2>5. Shown!Show(n)
    BY <1>1, <2>2, <2>3, <2>4 DEF Shown!Show
  <2> QED
    BY <2>3, <2>5 DEF Shown!Next
<1>5. CASE ~(r.node \in Plain /\ r.value # NoValue)
  <2>1. \A k \in Plain : remote'[k] = remote[k] /\ mirror'[k] = mirror[k]
    BY <1>1, <1>2, <1>3, <1>5 DEF Plain
  <2> QED
    BY <2>1, SamePlain
<1> QED
  BY <1>4, <1>5

\* Every other step leaves the plain nodes alone.
LEMMA OthersStutter ==
    ASSUME Inv, [Next]_vars, ~WriteMirror, \A n \in Changing : ~Change(n)
    PROVE  \A n \in Plain : remote'[n] = remote[n] /\ mirror'[n] = mirror[n]
<1> USE DEF agentVars, queueVars, mainVars
<1>1. CASE Serve
  BY <1>1, Typed, ModeAssumption DEF Serve, Inv, TypeOK, Order, Call
<1>2. ASSUME NEW n \in Writable, ClientWrite(n)
      PROVE  \A k \in Plain : remote'[k] = remote[k] /\ mirror'[k] = mirror[k]
  BY <1>2 DEF ClientWrite, Inv, TypeOK, Plain
<1>3. ASSUME NEW n, Publish(n) \/ ClientRead(n)
      PROVE  remote' = remote /\ mirror' = mirror
  BY <1>3 DEF Publish, ClientRead
<1>4. CASE Answer \/ Restart \/ CreateSubscription \/ CheckConnection \/ LeaveLoop
           \/ SendRead \/ ReceiveAnswer \/ ReadFails
  BY <1>4 DEF Answer, Restart, CreateSubscription, CheckConnection, LeaveLoop,
              SendRead, ReceiveAnswer, ReadFails, Respond
<1>5. CASE ReceiveWhileLocked \/ UnlockRequests \/ Receive \/ QueueNotification
           \/ LockRequests \/ UseDeletedClient
  BY <1>5 DEF ReceiveWhileLocked, UnlockRequests, Receive, QueueNotification,
              LockRequests, UseDeletedClient
<1>6. CASE UnlockResponses \/ ReceiveResult \/ OrderFails \/ DispatchInMain
           \/ ClearQueues \/ DeleteClient \/ Exit
  BY <1>6 DEF UnlockResponses, ReceiveResult, OrderFails, DispatchInMain,
              ClearQueues, DeleteClient, Exit
<1>7. CASE LockResponses \/ QueueInMain \/ CallMethod \/ Terminated \/ UNCHANGED vars
  BY <1>7 DEF LockResponses, QueueInMain, CallMethod, Terminated, vars
<1> QED
  BY <1>1, <1>2, <1>3, <1>4, <1>5, <1>6, <1>7
     DEF Next, Agent, Thread, ThreadStep, Main, MainStep

\* While the main loop keeps up with the values of each node, the mirror of
\* every node that only the agent changes implements AgentMirror: it shows
\* values the agent had, in the order in which it had them, through callbacks
\* in either thread, failed reads and restarts (synchronization.c 21-43,
\* client_interface.c 99-112, internal.c 136-148).
THEOREM MirrorImplemented ==
    ASSUME Backlog = 1
    PROVE  Spec => MirrorSpec
<1>1. Init => Shown!Init
  BY DEF Init, Shown!Init, Plain
<1>2. Inv /\ KeptUp /\ [Next]_vars =>
          [Shown!Next]_<<[n \in Plain |-> remote[n]], [n \in Plain |-> mirror[n]]>>
  BY ChangeRefines, WriteRefines, OthersStutter, SamePlain
<1> QED
  BY <1>1, <1>2, KeptUpInvariance, PTL DEF Spec, MirrorSpec, Shown!Spec

-----------------------------------------------------------------------------
(***************************************************************************)
(* What clients write.  An answer that left the agent before a write is    *)
(* written over it, but onWrite orders the same of the agent; the          *)
(* invariant says where the value of an order is.                          *)
(***************************************************************************)
Kept == Writable \ (Changing \cup Refusing)

\* The main thread waits for an order until its result has come.
Waited ==
    /\ order # NoOrder \/ Result \in Elements(channel) => MainInClient
    /\ order # NoOrder => Result \notin Elements(channel)
    /\ \A i, j \in DOMAIN channel : channel[i] \in {Result} /\ channel[j] \in {Result} => i = j

\* A message in the channel is a result exactly when it is of that kind.
LEMMA ResultKind ==
    ASSUME Inv
    PROVE  /\ \A m \in Notification : m # Result
           /\ channel # <<>> => /\ Head(channel) \in Message /\ Tail(channel) \in Seq(Message)
                                /\ Elements(channel) = Elements(Tail(channel)) \cup {Head(channel)}
                                /\ Head(channel).kind = "result" => Head(channel) = Result
<1>1. channel \in Seq(Message)
  BY DEF Inv, TypeOK
<1>2. channel # <<>> => /\ Head(channel) \in Message /\ Tail(channel) \in Seq(Message)
                        /\ Elements(channel) = Elements(Tail(channel)) \cup {Head(channel)}
  BY <1>1, ElementsTail
<1>3. \A m \in Message : m.kind = "result" => m = Result
  BY DEF Message, Notification, Reply
<1> QED
  BY <1>2, <1>3, Typed

\* A message that is taken from the channel.
LEMMA TakenWaited ==
    ASSUME Inv, Waited, channel # <<>>, channel' = Tail(channel), UNCHANGED order,
           MainInClient' = MainInClient \/ Head(channel) = Result
    PROVE  Waited'
<1>1. channel \in Seq(Message)
  BY DEF Inv, TypeOK
<1>2. /\ \A i, j \in DOMAIN channel' : channel'[i] \in {Result} /\ channel'[j] \in {Result} => i = j
      /\ Head(channel) \in {Result} => Elements(channel') \cap {Result} = {}
  BY <1>1, OnceInTail DEF Waited
<1>3. Elements(channel') \subseteq Elements(channel)
      /\ Head(channel) \in Elements(channel)
  BY ResultKind
<1> QED
  BY <1>2, <1>3 DEF Waited

\* A message that is no result is sent.
LEMMA SentWaited ==
    ASSUME Inv, Waited, NEW m \in Message, m # Result, channel' = Append(channel, m),
           UNCHANGED <<order, main>>
    PROVE  Waited'
<1>1. channel \in Seq(Message)
  BY DEF Inv, TypeOK
<1>2. /\ \A i, j \in DOMAIN channel' : channel'[i] \in {Result} /\ channel'[j] \in {Result} => i = j
      /\ Elements(channel') = Elements(channel) \cup {m}
  BY <1>1, OnceInAppend, ElementsAppend DEF Waited
<1> QED
  BY <1>2 DEF Waited, MainInClient

\* Every step keeps the main thread waiting for its order.
LEMMA WaitedNext == ASSUME Inv, Waited, [Next]_vars PROVE Waited'
<1> USE DEF agentVars, queueVars, mainVars
<1>1. CASE UNCHANGED <<channel, order, main>>
  BY <1>1 DEF Waited, MainInClient
<1>2. ASSUME NEW n, Change(n) \/ ClientRead(n)
      PROVE  UNCHANGED <<channel, order, main>>
  BY <1>2 DEF Change, ClientRead
<1>3. CreateSubscription \/ CheckConnection \/ LeaveLoop \/ SendRead \/ ReadFails
      \/ UnlockRequests \/ QueueNotification \/ LockRequests \/ QueueInMain
      \/ Terminated \/ UNCHANGED vars
          => UNCHANGED <<channel, order, main>>
  BY DEF CreateSubscription, CheckConnection, LeaveLoop, SendRead, ReadFails, Respond,
         UnlockRequests, QueueNotification, LockRequests, QueueInMain, Terminated, vars
<1>4. ASSUME ~MainInClient, channel' = channel, order' = order \/ MainInClient'
      PROVE  Waited'
  BY <1>4 DEF Waited
<1>5. CASE LockResponses \/ UnlockResponses \/ ClearQueues \/ DeleteClient \/ Exit
           \/ UseDeletedClient
  <2>1. ~MainInClient /\ channel' = channel /\ order' = order
    BY <1>5 DEF LockResponses, UnlockResponses, ClearQueues, DeleteClient, Exit,
                UseDeletedClient, ClientExists, MainInClient
  <2> QED
    BY <1>4, <2>1
<1>6. ASSUME NEW n, CallMethod \/ ClientWrite(n) PROVE Waited'
  <2>1. ~MainInClient /\ MainInClient' /\ channel' = channel
    BY <1>6 DEF CallMethod, ClientWrite, MainInClient
  <2> QED
    BY <1>4, <2>1
<1>7. CASE WriteMirror
  <2>1. ~MainInClient /\ channel' = channel /\ (order' = order \/ MainInClient')
    BY <1>7 DEF WriteMirror, MainInClient
  <2> QED
    BY <1>4, <2>1
<1>8. ASSUME NEW n \in Subscribed, Publish(n) PROVE Waited'
  <2> DEFINE m == [kind |-> "notification", node |-> n, value |-> remote[n]]
  <2>1. m \in Message /\ m # Result
    BY <1>8 DEF Inv, TypeOK, Nodes, Message, Notification, Result
  <2> HIDE DEF m
  <2>2. channel' = Append(channel, m) /\ UNCHANGED <<order, main>>
    BY <1>8 DEF Publish, m
  <2> QED
    BY <2>1, <2>2, SentWaited
<1>9. CASE Answer
  <2> DEFINE m == [kind |-> "answer", node |-> Head(requests), value |-> remote[Head(requests)]]
  <2>1. Head(requests) \in OnDemand
    <3>1. requests \in Seq(OnDemand) /\ requests # <<>>
      BY <1>9 DEF Answer, Inv, TypeOK, HandOver
    <3> QED
      BY <3>1, ElementsTail
  <2>2. m \in Message /\ m # Result
    BY <2>1 DEF Inv, TypeOK, Nodes, Message, Reply, Result
  <2> HIDE DEF m
  <2>3. channel' = Append(channel, m) /\ UNCHANGED <<order, main>>
    BY <1>9 DEF Answer, m
  <2> QED
    BY <2>2, <2>3, SentWaited
<1>10. CASE Serve
  <2>1. /\ channel \in Seq(Message) /\ Result \in Message
        /\ channel' = Append(channel, Result) /\ order' = NoOrder /\ main' = main
        /\ order # NoOrder
    BY <1>10 DEF Serve, Inv, TypeOK, Message
  <2>2. \A i, j \in DOMAIN channel' : channel'[i] \in {Result} /\ channel'[j] \in {Result} => i = j
    <3>1. Elements(channel) \cap {Result} = {}
      BY <2>1 DEF Waited
    <3>2. \A i, j \in DOMAIN channel : channel[i] \in {Result} /\ channel[j] \in {Result} => i = j
      BY DEF Waited
    <3> QED
      BY <2>1, <3>1, <3>2, OnceInAppend
  <2> QED
    BY <2>1, <2>2 DEF Waited, MainInClient
<1>11. CASE Restart
  <2>1. channel' = <<>> /\ UNCHANGED <<order, main>>
    BY <1>11 DEF Restart
  <2>2. Elements(channel') = {} /\ DOMAIN channel' = {}
    BY <2>1 DEF Elements
  <2> QED
    BY <2>1, <2>2 DEF Waited, MainInClient
<1>12. CASE OrderFails
  <2>1. channel = <<>> /\ channel' = channel /\ order' = NoOrder
    BY <1>12 DEF OrderFails, Inv, HandOver
  <2>2. Elements(channel') = {} /\ DOMAIN channel' = {}
    BY <2>1 DEF Elements
  <2> QED
    BY <2>1, <2>2 DEF Waited
<1>13. CASE Receive \/ ReceiveWhileLocked \/ ReceiveAnswer \/ DispatchInMain
  <2>1. channel # <<>> /\ channel' = Tail(channel) /\ order' = order
        /\ MainInClient' = MainInClient
    BY <1>13 DEF Receive, ReceiveWhileLocked, ReceiveAnswer, Respond, DispatchInMain, MainInClient
  <2> QED
    BY <2>1, TakenWaited
<1>14. CASE ReceiveResult
  <2>1. channel # <<>> /\ channel' = Tail(channel) /\ order' = order
        /\ Head(channel) = Result
    BY <1>14, ResultKind DEF ReceiveResult
  <2> QED
    BY <2>1, TakenWaited
<1> QED
  BY <1>1, <1>2, <1>3, <1>5, <1>6, <1>7, <1>8, <1>9, <1>10, <1>11, <1>12, <1>13, <1>14
     DEF Next, Agent, Thread, ThreadStep, Main, MainStep

\* The order that is under way carries the value its mirror has; without one,
\* and unless a restart has cut one off, both sides have the same value.
Agreed(n) ==
    /\ order.node = n => order.value = mirror[n]
    /\ restarts = 0 /\ order.node # n => mirror[n] = remote[n]

Agreement ==
    /\ Waited
    /\ restarts = 0 => connected
    /\ main = "calling" => order.node = NoNode
    /\ \A n \in Kept : Agreed(n)

\* Nothing is ordered at first, and the mirror has what nodeIter copied.
LEMMA InitAgreement == ASSUME Init PROVE Agreement
<1>1. /\ channel = <<>> /\ order = NoOrder /\ main = "handlers" /\ connected
      /\ \A n \in Nodes : remote[n] = 0 /\ mirror[n] = 0
  BY DEF Init
<1>2. Elements(channel) = {} /\ DOMAIN channel = {}
  BY <1>1, ElementsOf DEF Elements
<1>3. Waited
  BY <1>1, <1>2 DEF Waited
<1>4. ASSUME NEW n \in Kept PROVE Agreed(n)
  <2>1. n \in Nodes /\ order.node # n
    BY <1>1, ModeAssumption DEF Kept, Nodes, NoOrder
  <2> QED
    BY <1>1, <2>1 DEF Agreed
<1> QED
  BY <1>1, <1>3, <1>4 DEF Agreement

\* The connection closes only under a restart.
LEMMA OpenNext ==
    ASSUME Inv, restarts = 0 => connected, [Next]_vars
    PROVE  restarts' = 0 => connected'
<1> USE DEF agentVars, queueVars, mainVars
<1>1. CASE UNCHANGED <<restarts, connected>>
  BY <1>1
<1>2. CASE Restart
  <2>1. restarts' = restarts + 1 /\ restarts \in Nat
    BY <1>2, BoundAssumption DEF Restart, Inv, TypeOK
  <2> QED
    BY <2>1
<1>3. CASE CheckConnection
  BY <1>3 DEF CheckConnection
<1>4. ASSUME NEW n, Change(n) \/ Publish(n) \/ ClientRead(n) \/ ClientWrite(n)
      PROVE  UNCHANGED <<restarts, connected>>
  BY <1>4 DEF Change, Publish, ClientRead, ClientWrite
<1>5. Answer \/ Serve \/ CreateSubscription \/ LeaveLoop \/ SendRead \/ ReceiveAnswer
      \/ ReadFails \/ ReceiveWhileLocked \/ UnlockRequests \/ Receive \/ QueueNotification
      \/ LockRequests \/ UseDeletedClient
          => UNCHANGED <<restarts, connected>>
  BY DEF Answer, Serve, CreateSubscription, LeaveLoop, SendRead, ReceiveAnswer, ReadFails,
         Respond, ReceiveWhileLocked, UnlockRequests, Receive, QueueNotification,
         LockRequests, UseDeletedClient
<1>6. WriteMirror \/ UnlockResponses \/ ReceiveResult \/ OrderFails \/ DispatchInMain
      \/ ClearQueues \/ DeleteClient \/ Exit \/ LockResponses \/ QueueInMain \/ CallMethod
      \/ Terminated \/ UNCHANGED vars
          => UNCHANGED <<restarts, connected>>
  BY DEF WriteMirror, UnlockResponses, ReceiveResult, OrderFails, DispatchInMain, ClearQueues,
         DeleteClient, Exit, LockResponses, QueueInMain, CallMethod, Terminated, vars
<1> QED
  BY <1>1, <1>2, <1>3, <1>4, <1>5, <1>6 DEF Next, Agent, Thread, ThreadStep, Main, MainStep

\* A forwarded call orders no value.
LEMMA CallingNext ==
    ASSUME Waited, main = "calling" => order.node = NoNode, [Next]_vars
    PROVE  main' = "calling" => order'.node = NoNode
<1> USE DEF agentVars, queueVars, mainVars
<1>1. CASE UNCHANGED <<main, order>>
  BY <1>1
<1>2. CASE main' # "calling"
  BY <1>2
<1>3. CASE order' \in {NoOrder, Call}
  BY <1>3 DEF NoOrder, Call
<1>4. ASSUME NEW n, Change(n) \/ Publish(n) \/ ClientRead(n)
      PROVE  UNCHANGED <<main, order>>
  BY <1>4 DEF Change, Publish, ClientRead
<1>5. Answer \/ Restart \/ CreateSubscription \/ CheckConnection \/ LeaveLoop \/ SendRead
      \/ ReceiveAnswer \/ ReadFails \/ ReceiveWhileLocked \/ UnlockRequests \/ Receive
      \/ QueueNotification \/ LockRequests \/ DispatchInMain \/ QueueInMain \/ Terminated
      \/ UNCHANGED vars
          => UNCHANGED <<main, order>>
  BY DEF Answer, Restart, CreateSubscription, CheckConnection, LeaveLoop, SendRead,
         ReceiveAnswer, ReadFails, Respond, ReceiveWhileLocked, UnlockRequests, Receive,
         QueueNotification, LockRequests, DispatchInMain, QueueInMain, Terminated, vars
<1>6. UseDeletedClient \/ UnlockResponses \/ LockResponses \/ ReceiveResult
      \/ ClearQueues \/ DeleteClient \/ Exit
          => main' # "calling"
  BY DEF UseDeletedClient, UnlockResponses, LockResponses, ReceiveResult, Resume,
         ClearQueues, DeleteClient, Exit
<1>7. ASSUME NEW n, ClientWrite(n) PROVE main' # "calling"
  BY <1>7 DEF ClientWrite
<1>8. WriteMirror => main' # "calling"
  BY DEF WriteMirror
<1>9. Serve \/ OrderFails \/ CallMethod => order' \in {NoOrder, Call}
  BY DEF Serve, OrderFails, CallMethod
<1> QED
  BY <1>1, <1>2, <1>3, <1>4, <1>5, <1>6, <1>7, <1>8, <1>9
     DEF Next, Agent, Thread, ThreadStep, Main, MainStep

\* Outside the client no order is under way, and the two sides agree.
LEMMA AgreedOutside ==
    ASSUME Agreement, ~MainInClient, NEW n \in Kept
    PROVE  order = NoOrder /\ order.node # n /\ (restarts = 0 => mirror[n] = remote[n])
<1>1. order = NoOrder
  BY DEF Agreement, Waited
<1>2. order.node # n
  BY <1>1, ModeAssumption DEF NoOrder, Kept, Nodes
<1> QED
  BY <1>1, <1>2 DEF Agreement, Agreed

\* The agent takes the value of an order: the mirror has had it since the write.
LEMMA ServeAgreed == ASSUME Inv, Agreement, NEW n \in Kept, Serve PROVE Agreed(n)'
<1>1. /\ order' = NoOrder /\ order \in Order /\ UNCHANGED <<mirror, restarts>>
      /\ remote \in [Nodes -> 0 .. MaxChanges] /\ n \in Nodes /\ Agreed(n)
      /\ \/ remote' = [remote EXCEPT ![order.node] = order.value]
         \/ order.node \in Refusing \cup {NoNode} /\ remote' = remote
  BY ModeAssumption DEF Serve, Inv, TypeOK, Kept, Nodes, Agreement
<1>2. order'.node # n /\ n \notin Refusing \cup {NoNode}
  BY <1>1, ModeAssumption DEF NoOrder, Kept
<1>3. CASE order.node = n
  <2>1. remote'[n] = order.value
    BY <1>1, <1>2, <1>3
  <2> QED
    BY <1>1, <1>2, <1>3, <2>1 DEF Agreed
<1>4. CASE order.node # n
  <2>1. remote'[n] = remote[n]
    BY <1>1, <1>4
  <2> QED
    BY <1>1, <1>2, <1>4, <2>1 DEF Agreed
<1> QED
  BY <1>3, <1>4

\* A response that is written to a mirror that clients write is ordered of the agent.
LEMMA WriteAgreed == ASSUME Inv, Agreement, NEW n \in Kept, WriteMirror PROVE Agreed(n)'
<1> DEFINE r == Head(responses)
<1>1. /\ n \in Writable /\ n \in Nodes /\ mirror \in [Nodes -> 0 .. MaxChanges]
      /\ UNCHANGED <<remote, restarts>>
      /\ ~MainInClient
  BY ModeAssumption
     DEF WriteMirror, agentVars, Inv, TypeOK, Kept, Nodes, MainInClient
<1>2. /\ mirror' = IF r.value = NoValue THEN mirror
                   ELSE [mirror EXCEPT ![r.node] = r.value]
      /\ order' = IF r.node \in Writable /\ r.value # NoValue THEN r ELSE order
  BY DEF WriteMirror
<1> HIDE DEF r
<1>3. order.node # n /\ (restarts = 0 => mirror[n] = remote[n])
  BY <1>1, AgreedOutside
<1>4. CASE r.node = n /\ r.value # NoValue
  <2>1. mirror'[n] = r.value /\ order' = r
    BY <1>1, <1>2, <1>4
  <2> QED
    BY <1>4, <2>1 DEF Agreed
<1>5. CASE ~(r.node = n /\ r.value # NoValue)
  <2>1. mirror'[n] = mirror[n] /\ order'.node # n
    BY <1>1, <1>2, <1>3, <1>5
  <2> QED
    BY <1>1, <1>3, <2>1 DEF Agreed
<1> QED
  BY <1>4, <1>5

\* A write changes the mirror and orders the same of the agent.
LEMMA ClientWriteAgreed ==
    ASSUME Inv, Agreement, NEW n \in Kept, NEW k \in Writable, ClientWrite(k)
    PROVE  Agreed(n)'
<1>1. /\ UNCHANGED <<remote, restarts>> /\ ~MainInClient
      /\ mirror' = [mirror EXCEPT ![k] = latest[k] + 1]
      /\ order' = [node |-> k, value |-> latest[k] + 1]
      /\ mirror \in [Nodes -> 0 .. MaxChanges] /\ n \in Nodes
  BY ModeAssumption
     DEF ClientWrite, agentVars, Inv, TypeOK, Kept, Nodes, MainInClient
<1>2. order.node # n /\ (restarts = 0 => mirror[n] = remote[n])
  BY <1>1, AgreedOutside
<1>3. order'.node = k /\ order'.value = latest[k] + 1
  BY <1>1
<1>4. CASE k = n
  <2>1. mirror'[n] = latest[k] + 1
    BY <1>1, <1>4
  <2> QED
    BY <1>3, <1>4, <2>1 DEF Agreed
<1>5. CASE k # n
  <2>1. mirror'[n] = mirror[n]
    BY <1>1, <1>5
  <2> QED
    BY <1>1, <1>2, <1>3, <1>5, <2>1 DEF Agreed
<1> QED
  BY <1>4, <1>5

\* Every step keeps the two sides of a node that only clients write together.
LEMMA AgreedNext ==
    ASSUME Inv, Agreement, [Next]_vars, NEW n \in Kept
    PROVE  Agreed(n)'
<1> USE DEF agentVars, queueVars, mainVars
<1>1. /\ Agreed(n) /\ Waited /\ restarts \in Nat
      /\ n \in Nodes /\ n \notin Changing /\ n # NoNode
      /\ remote \in [Nodes -> 0 .. MaxChanges]
  BY ModeAssumption, BoundAssumption DEF Agreement, Kept, Nodes, Inv, TypeOK
<1>2. CASE remote'[n] = remote[n] /\ UNCHANGED <<order, mirror, restarts>>
  BY <1>1, <1>2 DEF Agreed
<1>3. CASE Answer \/ CreateSubscription \/ CheckConnection \/ LeaveLoop \/ SendRead
           \/ ReceiveAnswer \/ ReadFails \/ ReceiveWhileLocked \/ UnlockRequests \/ Receive
           \/ QueueNotification \/ LockRequests \/ UseDeletedClient
  BY <1>2, <1>3 DEF Answer, CreateSubscription, CheckConnection, LeaveLoop, SendRead,
         ReceiveAnswer, ReadFails, Respond, ReceiveWhileLocked, UnlockRequests, Receive,
         QueueNotification, LockRequests, UseDeletedClient
<1>4. CASE UnlockResponses \/ LockResponses \/ ReceiveResult \/ DispatchInMain \/ QueueInMain
           \/ ClearQueues \/ DeleteClient \/ Exit \/ Terminated \/ UNCHANGED vars
  BY <1>2, <1>4 DEF UnlockResponses, LockResponses, ReceiveResult, DispatchInMain, QueueInMain,
         ClearQueues, DeleteClient, Exit, Terminated, vars
<1>5. ASSUME NEW k \in Changing, Change(k) PROVE Agreed(n)'
  <2>1. remote'[n] = remote[n] /\ UNCHANGED <<order, mirror, restarts>>
    BY <1>1, <1>5 DEF Change
  <2> QED
    BY <1>2, <2>1
<1>6. ASSUME NEW k, Publish(k) \/ ClientRead(k) PROVE Agreed(n)'
  BY <1>2, <1>6 DEF Publish, ClientRead
<1>7. CASE Restart
  <2>1. restarts' # 0 /\ UNCHANGED <<order, mirror>>
    BY <1>1, <1>7 DEF Restart
  <2> QED
    BY <1>1, <2>1 DEF Agreed
<1>8. CASE OrderFails
  <2>1. restarts' # 0 /\ order' = NoOrder
    BY <1>8 DEF OrderFails, Agreement
  <2>2. order'.node # n
    BY <1>1, <2>1 DEF NoOrder
  <2> QED
    BY <2>1, <2>2 DEF Agreed
<1>9. CASE CallMethod
  <2>1. ~MainInClient /\ order' = Call /\ UNCHANGED <<remote, mirror, restarts>>
    BY <1>9 DEF CallMethod, MainInClient
  <2>2. restarts = 0 => mirror[n] = remote[n]
    BY <2>1, AgreedOutside
  <2>3. order'.node # n
    BY <1>1, <2>1 DEF Call
  <2> QED
    BY <2>1, <2>2, <2>3 DEF Agreed
<1>10. CASE Serve
  BY <1>10, ServeAgreed
<1>11. CASE WriteMirror
  BY <1>11, WriteAgreed
<1>12. ASSUME NEW k \in Writable, ClientWrite(k) PROVE Agreed(n)'
  BY <1>12, ClientWriteAgreed
<1> QED
  BY <1>3, <1>4, <1>5, <1>6, <1>7, <1>8, <1>9, <1>10, <1>11, <1>12
     DEF Next, Agent, Thread, ThreadStep, Main, MainStep

\* Whatever answers are under way, and however many: when the registry serves
\* clients, a node that only they write has the same value on both sides, as
\* long as no restart has cut an order off (synchronization.c 45-87,
\* internal.c 140-146).
THEOREM SidesAgree == Spec => []WritesAgree
<1>1. Init => Agreement
  BY InitAgreement
<1>2. Inv /\ Agreement /\ [Next]_vars => Agreement'
  <2> SUFFICES ASSUME Inv, Agreement, [Next]_vars PROVE Agreement'
    OBVIOUS
  <2>1. Waited'
    BY WaitedNext DEF Agreement
  <2>2. restarts' = 0 => connected'
    BY OpenNext DEF Agreement
  <2>3. main' = "calling" => order'.node = NoNode
    BY CallingNext DEF Agreement
  <2>4. \A n \in Kept : Agreed(n)'
    BY AgreedNext
  <2> QED
    BY <2>1, <2>2, <2>3, <2>4 DEF Agreement, Kept
<1>3. Agreement => WritesAgree
  <2> SUFFICES ASSUME Agreement, main \notin {"writing", "echo"}, restarts = 0, NEW n \in Kept
               PROVE  mirror[n] = remote[n]
    BY DEF WritesAgree, Kept
  <2>1. CASE main = "calling"
    BY <2>1, ModeAssumption DEF Agreement, Agreed, Kept, Nodes
  <2>2. CASE main # "calling"
    BY <2>2, AgreedOutside DEF MainInClient
  <2> QED
    BY <2>1, <2>2
<1> QED
  BY <1>1, <1>2, <1>3, Invariance, PTL DEF Spec
=============================================================================

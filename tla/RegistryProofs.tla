--------------------------- MODULE RegistryProofs ---------------------------
(***************************************************************************)
(* What holds of the registry for any number of agents, services and       *)
(* calls: the agent list stays parallel and in order, and no agent node    *)
(* loses its service, whatever clients do.                                 *)
(***************************************************************************)
EXTENDS Registry, SequenceTheorems, TLAPS

(***************************************************************************)
(* The inductive invariant is the conjunction of the properties proved.    *)
(* Only together they are inductive: the slots of agents are read as       *)
(* indices of configs, and an unregister call keeps the arrays parallel    *)
(* because it makes the same choices in both.                              *)
(***************************************************************************)
Inv == TypeOK /\ ListParallel /\ CounterTracksList /\ NoOrphanAgent /\ ListInOrder

-----------------------------------------------------------------------------
(* Operators on sequences.                                                 *)

\* Copying neighbours and dropping the last slot (callback_functions.c
\* 259-266) loses exactly one slot, and every slot it keeps holds what it held
\* or what its right-hand neighbour held: the value read past the end goes.
LEMMA RemoveSlots ==
    ASSUME NEW S, NEW a \in Seq(S), NEW hits
    PROVE  LET r == DropLast(CopyNeighbour(a, hits))
           IN  /\ r \in Seq(S)
               /\ Len(r) = IF Len(a) = 0 THEN 0 ELSE Len(a) - 1
               /\ \A i \in 1 .. Len(a) - 1 :
                      r[i] = IF i \in hits THEN a[i + 1] ELSE a[i]
<1> DEFINE n == Len(a)
           c == CopyNeighbour(a, hits)
<1>1. n \in Nat /\ DOMAIN a = 1 .. n /\ \A i \in 1 .. n : a[i] \in S
  BY LenProperties, ElementOfSeq
<1> HIDE DEF n
<1>2. /\ c \in [1 .. n -> S \cup {Garbage}]
      /\ \A i \in 1 .. n : i # n => c[i] = IF i \in hits THEN a[i + 1] ELSE a[i]
  <2> DEFINE e(i) == IF i \notin hits THEN a[i]
                     ELSE IF i = n THEN Garbage ELSE a[i + 1]
  <2>1. c = [i \in 1 .. n |-> e(i)]
    BY <1>1 DEF CopyNeighbour, n
  <2>2. \A i \in 1 .. n : i # n => i + 1 \in 1 .. n
    BY <1>1
  <2>3. \A i \in 1 .. n : e(i) \in S \cup {Garbage}
    BY <1>1, <2>2
  <2> HIDE DEF c
  <2> QED
    BY <2>1, <2>3
<1> HIDE DEF c
<1>3. c \in Seq(S \cup {Garbage}) /\ Len(c) = n
  <2>1. c \in Seq(S \cup {Garbage})
    BY <1>1, <1>2, SeqDef
  <2>2. Len(c) \in Nat /\ DOMAIN c = 1 .. Len(c)
    BY <2>1, LenProperties
  <2> QED
    BY <1>1, <1>2, <2>1, <2>2
<1>4. \A i \in 1 .. n - 1 : /\ c[i] = IF i \in hits THEN a[i + 1] ELSE a[i]
                            /\ c[i] \in S
  <2> SUFFICES ASSUME NEW i \in 1 .. n - 1
               PROVE  /\ c[i] = IF i \in hits THEN a[i + 1] ELSE a[i]
                      /\ c[i] \in S
    OBVIOUS
  <2>1. i \in 1 .. n /\ i # n /\ i + 1 \in 1 .. n
    BY <1>1
  <2> QED
    BY <1>1, <1>2, <2>1
<1> DEFINE r == SubSeq(c, 1, n - 1)
<1>5. /\ r \in Seq(S)
      /\ Len(r) = IF 1 <= n - 1 THEN n - 1 - 1 + 1 ELSE 0
      /\ \A i \in 1 .. (n - 1) - 1 + 1 : r[i] = c[1 + i - 1]
  <2>1. n - 1 \in Int
    BY <1>1
  <2> QED
    BY <1>4, <2>1, SubSeqProperties
<1>6. DropLast(c) = r
  BY <1>3 DEF DropLast
<1> HIDE DEF r
<1>7. /\ Len(r) = IF n = 0 THEN 0 ELSE n - 1
      /\ \A i \in 1 .. n - 1 : r[i] = c[i]
  BY <1>1, <1>5
<1>8. /\ DropLast(c) \in Seq(S)
      /\ Len(DropLast(c)) = IF n = 0 THEN 0 ELSE n - 1
      /\ \A i \in 1 .. n - 1 :
             DropLast(c)[i] = IF i \in hits THEN a[i + 1] ELSE a[i]
  BY <1>4, <1>5, <1>6, <1>7
<1> QED
  BY <1>8 DEF c, n

-----------------------------------------------------------------------------
(* The inductive invariant.                                                *)

\* The facts about lengths and domains every step below uses.
LEMMA Shapes ==
    ASSUME Inv
    PROVE  /\ Len(agents) \in Nat /\ DOMAIN agents = 1 .. Len(agents)
           /\ Len(agent_url) = Len(agents) /\ DOMAIN agent_url = 1 .. Len(agents)
           /\ Len(configs) \in 0 .. MaxConfigs /\ DOMAIN configs = 1 .. Len(configs)
           /\ DOMAIN configs \subseteq ConfigIds
           /\ \A c \in DOMAIN configs : configs[c] \in Config
<1>1. /\ agents \in Seq(ConfigIds \cup {Garbage})
      /\ agent_url \in Seq(Urls \cup {Garbage})
      /\ configs \in Seq(Config) /\ Len(configs) <= MaxConfigs
      /\ Len(agent_url) = Len(agents)
  BY DEF Inv, TypeOK, ListParallel
<1>2. /\ Len(agents) \in Nat /\ DOMAIN agents = 1 .. Len(agents)
      /\ DOMAIN agent_url = 1 .. Len(agents)
      /\ Len(configs) \in Nat /\ DOMAIN configs = 1 .. Len(configs)
      /\ \A c \in DOMAIN configs : configs[c] \in Config
  BY <1>1, LenProperties, ElementOfSeq
<1>3. Len(configs) \in 0 .. MaxConfigs /\ DOMAIN configs \subseteq ConfigIds
  BY <1>1, <1>2, BoundAssumption DEF ConfigIds
<1> QED
  BY <1>1, <1>2, <1>3

\* The registry starts with nothing registered.
LEMMA InitInv == Init => Inv
<1> SUFFICES ASSUME Init PROVE Inv
  OBVIOUS
<1>1. /\ agents = <<>> /\ agent_url = <<>> /\ configs = <<>>
      /\ DOMAIN agents = {} /\ Len(agents) = 0
      /\ Len(agent_url) = 0 /\ Len(configs) = 0
  BY DEF Init
<1>2. TypeOK
  <2>1. 1 \in 1 .. SizeMax + 1 /\ 0 \in 0 .. SizeMax /\ 0 <= MaxConfigs
    BY BoundAssumption
  <2>2. /\ <<>> \in Seq(ConfigIds \cup {Garbage})
        /\ <<>> \in Seq(Urls \cup {Garbage})
        /\ <<>> \in Seq(Config)
    BY EmptySeq
  <2> QED
    BY <1>1, <2>1, <2>2 DEF Init, TypeOK
<1> QED
  BY <1>1, <1>2 DEF Init, Inv, ListParallel, CounterTracksList, NoOrphanAgent,
                    ListInOrder

\* A step that leaves the list, the nodes and all urls and services alone
\* keeps everything but, possibly, the types.
LEMMA QuietStep ==
    ASSUME Inv, TypeOK', UNCHANGED <<list, nodes>>,
           DOMAIN configs' = DOMAIN configs,
           \A c \in DOMAIN configs : /\ configs'[c].url = configs[c].url
                                     /\ configs'[c].service = configs[c].service
    PROVE  Inv'
<1>1. ListParallel'
  BY DEF Inv, ListParallel, list
<1>2. CounterTracksList'
  BY DEF Inv, CounterTracksList, list
<1>3. NoOrphanAgent'
  BY DEF Inv, NoOrphanAgent, nodes
<1>4. ListInOrder'
  BY DEF Inv, ListInOrder, list
<1> QED
  BY <1>1, <1>2, <1>3, <1>4 DEF Inv

\* A registration keeps the invariant, whatever of it fails.
LEMMA AddAgentInv ==
    ASSUME Inv, NEW u \in Urls, NEW s \in Services, NEW load \in LoadKinds,
           AddAgent(u, s, load)
    PROVE  Inv'
<1> DEFINE c == Len(configs) + 1
<1>1. /\ c \in ConfigIds
      /\ number_agents = Len(agents)
      /\ number_agents + 1 \in 0 .. SizeMax
  BY Shapes, BoundAssumption DEF AddAgent, ListIntact, ConfigIds
<1>2. NewConfig(u, s, load) \in Config
  BY DEF NewConfig, Config
<1>3. /\ configs' \in Seq(Config)
      /\ Len(configs') = c
      /\ \A d \in 1 .. Len(configs) : configs'[d] = configs[d]
      /\ configs'[c] = NewConfig(u, s, load)
      /\ DOMAIN configs' = 1 .. c
  <2>1. configs \in Seq(Config) /\ configs' = Append(configs, NewConfig(u, s, load))
    BY DEF Inv, TypeOK, AddAgent
  <2> QED
    BY <1>2, <2>1, AppendProperties, LenProperties
<1>4. /\ agents' \in Seq(ConfigIds \cup {Garbage})
      /\ Len(agents') = Len(agents) + 1
      /\ \A i \in 1 .. Len(agents) : agents'[i] = agents[i]
      /\ agents'[Len(agents) + 1] = c
      /\ DOMAIN agents' = 1 .. Len(agents) + 1
  <2>1. agents \in Seq(ConfigIds \cup {Garbage}) /\ agents' = Append(agents, c)
    BY DEF Inv, TypeOK, AddAgent
  <2> QED
    BY <1>1, <2>1, AppendProperties, LenProperties
<1>5. /\ agent_url' \in Seq(Urls \cup {Garbage})
      /\ Len(agent_url') = Len(agents) + 1
      /\ \A i \in 1 .. Len(agents) : agent_url'[i] = agent_url[i]
      /\ agent_url'[Len(agents) + 1] = u
  <2>1. agent_url \in Seq(Urls \cup {Garbage}) /\ agent_url' = Append(agent_url, u)
    BY DEF Inv, TypeOK, AddAgent
  <2>2. Len(agent_url) = Len(agents)
    BY Shapes
  <2> QED
    BY <2>1, <2>2, AppendProperties
<1>6. TypeOK'
  <2>1. Len(configs') <= MaxConfigs
    BY <1>3, Shapes, BoundAssumption DEF AddAgent
  <2>2. service_nodes' \in SUBSET Services /\ agent_nodes' \in SUBSET ConfigIds
    BY <1>1 DEF Inv, TypeOK, AddAgent
  <2> QED
    BY <1>1, <1>3, <1>4, <1>5, <2>1, <2>2 DEF Inv, TypeOK, AddAgent
<1>7. ListParallel'
  <2> SUFFICES ASSUME NEW i \in 1 .. Len(agents) + 1
               PROVE  /\ agents'[i] \in 1 .. c
                      /\ agent_url'[i] = configs'[agents'[i]].url
    BY <1>3, <1>4, <1>5 DEF ListParallel
  <2>1. CASE i \in 1 .. Len(agents)
    <3>1. agents[i] \in 1 .. Len(configs) /\ agent_url[i] = configs[agents[i]].url
      BY <2>1, Shapes DEF Inv, ListParallel
    <3>2. agents[i] \in 1 .. c
      BY <3>1, Shapes
    <3> QED
      BY <1>3, <1>4, <1>5, <2>1, <3>1, <3>2
  <2>2. CASE i = Len(agents) + 1
    <3>1. c \in 1 .. c
      BY Shapes
    <3> QED
      BY <1>3, <1>4, <1>5, <2>2, <3>1 DEF NewConfig
  <2> QED
    BY <2>1, <2>2, Shapes
<1>8. CounterTracksList'
  BY <1>1, <1>4 DEF CounterTracksList, AddAgent
<1>9. NoOrphanAgent'
  <2> SUFFICES ASSUME NEW d \in agent_nodes'
               PROVE  d \in 1 .. c /\ configs'[d].service \in service_nodes'
    BY <1>3 DEF NoOrphanAgent
  <2>1. CASE d \in agent_nodes
    <3>1. d \in 1 .. Len(configs) /\ configs[d].service \in service_nodes
      BY <2>1, Shapes DEF Inv, NoOrphanAgent
    <3>2. d \in 1 .. c /\ service_nodes \subseteq service_nodes'
      BY <3>1, Shapes DEF AddAgent
    <3> QED
      BY <1>3, <3>1, <3>2
  <2>2. CASE d \notin agent_nodes
    <3>1. load = "ok" /\ d = c /\ s \in service_nodes'
      BY <2>2 DEF AddAgent
    <3>2. c \in 1 .. c
      BY Shapes
    <3> QED
      BY <1>3, <3>1, <3>2 DEF NewConfig
  <2> QED
    BY <2>1, <2>2
<1>10. ListInOrder'
  <2> SUFFICES ASSUME NEW i \in 1 .. Len(agents) + 1, i + 1 \in 1 .. Len(agents) + 1
               PROVE  agents'[i] <= agents'[i + 1]
    BY <1>4 DEF ListInOrder
  <2>1. i \in 1 .. Len(agents) /\ agents[i] \in 1 .. Len(configs)
    BY Shapes DEF Inv, ListParallel
  <2>2. CASE i + 1 \in 1 .. Len(agents)
    BY <1>4, <2>1, <2>2, Shapes DEF Inv, ListInOrder
  <2>3. CASE i = Len(agents)
    BY <1>4, <2>1, <2>3, Shapes
  <2>4. i + 1 \in 1 .. Len(agents) \/ i = Len(agents)
    <3>1. Len(agents) \in Nat
      BY Shapes
    <3> QED
      BY <3>1
  <2> QED
    BY <2>2, <2>3, <2>4
<1> QED
  BY <1>6, <1>7, <1>8, <1>9, <1>10 DEF Inv

\* So does an unregistration, whatever the list holds.
LEMMA RemoveAgentInv ==
    ASSUME Inv, NEW u \in Urls, NEW s \in Services, NEW read \in UrlReads,
           RemoveAgent(u, s, read)
    PROVE  Inv'
<1> DEFINE n == Len(agents)
<1>1. /\ agents' \in Seq(ConfigIds \cup {Garbage})
      /\ Len(agents') = IF n = 0 THEN 0 ELSE n - 1
      /\ \A i \in 1 .. n - 1 :
             agents'[i] = IF i \in Hits(u) THEN agents[i + 1] ELSE agents[i]
  <2>1. agents \in Seq(ConfigIds \cup {Garbage})
    BY DEF Inv, TypeOK
  <2>2. agents' = DropLast(CopyNeighbour(agents, Hits(u)))
    BY DEF RemoveAgent, RemoveFromList
  <2> QED
    BY <2>1, <2>2, RemoveSlots
<1>2. /\ agent_url' \in Seq(Urls \cup {Garbage})
      /\ Len(agent_url') = IF n = 0 THEN 0 ELSE n - 1
      /\ \A i \in 1 .. n - 1 :
             agent_url'[i] = IF i \in Hits(u) THEN agent_url[i + 1] ELSE agent_url[i]
  <2>1. agent_url \in Seq(Urls \cup {Garbage}) /\ Len(agent_url) = n
    BY DEF Inv, TypeOK, ListParallel
  <2>2. agent_url' = DropLast(CopyNeighbour(agent_url, Hits(u)))
    BY DEF RemoveAgent, RemoveFromList
  <2> QED
    BY <2>1, <2>2, RemoveSlots
<1>3. DOMAIN agents' = 1 .. Len(agents')
  BY <1>1, LenProperties
<1>4. n \in Nat /\ number_agents = n
  BY Shapes DEF RemoveAgent, ListIntact
<1> HIDE DEF n
<1>5. TypeOK'
  <2>1. number_agents' \in 0 .. SizeMax
    BY <1>4, BoundAssumption DEF Inv, TypeOK, RemoveAgent, RemoveFromList
  <2>2. service_nodes' \in SUBSET Services /\ agent_nodes' \in SUBSET ConfigIds
    BY DEF Inv, TypeOK, RemoveAgent, DeleteNodes
  <2> QED
    BY <1>1, <1>2, <2>1, <2>2 DEF Inv, TypeOK, RemoveAgent
<1>6. ASSUME NEW i \in DOMAIN agents'
      PROVE  i \in 1 .. n - 1 /\ i \in 1 .. n /\ i + 1 \in 1 .. n
  BY <1>1, <1>3, <1>4
<1>7. \A i \in 1 .. n : /\ agents[i] \in DOMAIN configs
                        /\ agent_url[i] = configs[agents[i]].url
  BY Shapes DEF Inv, ListParallel, n
<1>8. ListParallel'
  <2>1. configs' = configs /\ Len(agent_url') = Len(agents')
    BY <1>1, <1>2 DEF RemoveAgent
  <2>2. ASSUME NEW i \in DOMAIN agents'
        PROVE  /\ agents'[i] \in DOMAIN configs
               /\ agent_url'[i] = configs[agents'[i]].url
    BY <1>1, <1>2, <1>6, <1>7
  <2> QED
    BY <2>1, <2>2 DEF ListParallel
<1>9. CounterTracksList'
  <2>1. CASE n = 0
    <3>1. number_agents' = SizeMax /\ Len(agents') = 0
      BY <1>1, <1>4, <2>1 DEF RemoveAgent, RemoveFromList
    <3>2. agents' = <<>>
      BY <1>1, <3>1, EmptySeq
    <3> QED
      BY <3>1, <3>2 DEF CounterTracksList
  <2>2. CASE n # 0
    BY <1>1, <1>4, <2>2 DEF CounterTracksList, RemoveAgent, RemoveFromList
  <2> QED
    BY <2>1, <2>2
<1>10. NoOrphanAgent'
  <2> DEFINE found == FoundNodes(u, s, read)
  <2>1. /\ configs' = configs
        /\ agent_nodes' = agent_nodes \ found
        /\ service_nodes' = IF found # {} /\ AgentsOf(s, agent_nodes \ found) = {}
                            THEN service_nodes \ {s} ELSE service_nodes
    BY DEF RemoveAgent, DeleteNodes
  <2> SUFFICES ASSUME NEW c \in agent_nodes'
               PROVE  c \in DOMAIN configs /\ configs[c].service \in service_nodes'
    BY <2>1 DEF NoOrphanAgent
  <2>2. c \in DOMAIN configs /\ configs[c].service \in service_nodes
    BY <2>1 DEF Inv, NoOrphanAgent
  <2>3. configs[c].service = s => AgentsOf(s, agent_nodes \ found) # {}
    BY <2>1 DEF AgentsOf
  <2> QED
    BY <2>1, <2>2, <2>3
<1>11. ListInOrder'
  <2> SUFFICES ASSUME NEW i \in DOMAIN agents', i + 1 \in DOMAIN agents'
               PROVE  agents'[i] <= agents'[i + 1]
    BY DEF ListInOrder
  <2>1. /\ i \in 1 .. n - 1 /\ i + 1 \in 1 .. n - 1
        /\ i \in 1 .. n /\ i + 1 \in 1 .. n /\ (i + 1) + 1 \in 1 .. n
    BY <1>6
  <2>2. agents[i] <= agents[i + 1] /\ agents[i + 1] <= agents[(i + 1) + 1]
    BY <2>1, Shapes DEF Inv, ListInOrder, n
  <2>3. /\ agents[i] \in Nat /\ agents[i + 1] \in Nat
        /\ agents[(i + 1) + 1] \in Nat
    BY <1>7, <2>1, Shapes
  <2>4. agents'[i] = agents[i] \/ agents'[i] = agents[i + 1]
    BY <1>1, <2>1
  <2>5. agents'[i + 1] = agents[i + 1] \/ agents'[i + 1] = agents[(i + 1) + 1]
    BY <1>1, <2>1
  <2> QED
    BY <2>2, <2>3, <2>4, <2>5
<1> QED
  BY <1>5, <1>8, <1>9, <1>10, <1>11 DEF Inv

\* Steps of the main loop, the signal handler, the threads and the agents.
LEMMA EnvironmentInv ==
    ASSUME Inv, Environment
    PROVE  Inv'
<1>1. CASE BeginSync
  <2>1. TypeOK'
    BY <1>1 DEF Inv, TypeOK, BeginSync, list, nodes
  <2> QED
    BY <1>1, <2>1, QuietStep DEF BeginSync
<1>2. CASE SyncSlot
  <2>1. slot' \in 1 .. SizeMax + 1
    BY <1>2, BoundAssumption DEF Inv, TypeOK, SyncSlot
  <2>2. TypeOK'
    BY <1>2, <2>1 DEF Inv, TypeOK, SyncSlot, list, nodes
  <2> QED
    BY <1>2, <2>2, QuietStep DEF SyncSlot
<1>3. CASE EndSync
  <2>1. TypeOK'
    BY <1>3, BoundAssumption DEF Inv, TypeOK, EndSync, list, nodes
  <2> QED
    BY <1>3, <2>1, QuietStep DEF EndSync
<1>4. CASE TouchLostList
  <2>1. TypeOK'
    BY <1>4 DEF Inv, TypeOK, TouchLostList, list, nodes
  <2> QED
    BY <1>4, <2>1, QuietStep DEF TouchLostList
<1>5. CASE StopHandler
  <2>1. TypeOK'
    BY <1>5 DEF Inv, TypeOK, StopHandler, list, nodes
  <2> QED
    BY <1>5, <2>1, QuietStep DEF StopHandler
<1>6. ASSUME NEW c \in DOMAIN configs, SubscribeThread(c)
      PROVE  Inv'
  <2> DEFINE d == [configs[c] EXCEPT !.thread = "looping"]
  <2>1. /\ configs \in Seq(Config) /\ c \in 1 .. Len(configs)
        /\ configs[c] \in Config
        /\ configs' = [configs EXCEPT ![c] = d]
    BY <1>6, Shapes DEF Inv, TypeOK, SubscribeThread
  <2>2. /\ d \in Config
        /\ d.url = configs[c].url /\ d.service = configs[c].service
    BY <2>1 DEF Config
  <2> HIDE DEF d
  <2>3. configs' \in Seq(Config) /\ Len(configs') = Len(configs)
    BY <2>1, <2>2, ExceptSeq
  <2>4. DOMAIN configs' = DOMAIN configs
    BY <2>1
  <2>5. TypeOK'
    BY <1>6, <2>3 DEF Inv, TypeOK, SubscribeThread, list, nodes
  <2>6. \A e \in DOMAIN configs : /\ configs'[e].url = configs[e].url
                                  /\ configs'[e].service = configs[e].service
    BY <2>1, <2>2
  <2> QED
    BY <1>6, <2>4, <2>5, <2>6, QuietStep DEF SubscribeThread
<1>7. ASSUME NEW c \in DOMAIN configs, SubscribeWithoutClient(c)
      PROVE  Inv'
  <2>1. TypeOK'
    BY <1>7 DEF Inv, TypeOK, SubscribeWithoutClient, list, nodes
  <2> QED
    BY <1>7, <2>1, QuietStep DEF SubscribeWithoutClient
<1>8. ASSUME NEW c \in DOMAIN configs, Notify(c)
      PROVE  Inv'
  <2>1. TypeOK'
    BY <1>8, Shapes DEF Inv, TypeOK, Notify, list, nodes
  <2> QED
    BY <1>8, <2>1, QuietStep DEF Notify
<1>9. ASSUME NEW u \in Urls, AgentStartsOrStops(u)
      PROVE  Inv'
  <2>1. TypeOK'
    BY <1>9 DEF Inv, TypeOK, AgentStartsOrStops, list, nodes
  <2> QED
    BY <1>9, <2>1, QuietStep DEF AgentStartsOrStops
<1>10. CASE Terminated
  <2>1. TypeOK'
    BY <1>10 DEF Inv, TypeOK, Terminated, vars, list, nodes
  <2> QED
    BY <1>10, <2>1, QuietStep DEF Terminated, vars
<1> QED
  BY <1>1, <1>2, <1>3, <1>4, <1>5, <1>6, <1>7, <1>8, <1>9, <1>10
     DEF Environment, MainLoop, Thread

\* Every step keeps the invariant.
LEMMA NextInv == Inv /\ [Next]_vars => Inv'
<1> SUFFICES ASSUME Inv, [Next]_vars PROVE Inv'
  OBVIOUS
<1>1. ASSUME NEW u \in Urls, NEW s \in Services, NEW load \in Loads,
             AddAgent(u, s, load)
      PROVE  Inv'
  BY <1>1, AddAgentInv, InputAssumption
<1>2. ASSUME NEW u \in Urls, MapMissingEntryNode(u)
      PROVE  Inv'
  <2>1. TypeOK'
    BY <1>2 DEF Inv, TypeOK, MapMissingEntryNode, list, nodes
  <2> QED
    BY <1>2, <2>1, QuietStep DEF MapMissingEntryNode
<1>3. ASSUME NEW u \in Urls, NEW s \in Services, NEW read \in UrlReads,
             RemoveAgent(u, s, read)
      PROVE  Inv'
  BY <1>3, RemoveAgentInv
<1>4. CASE Environment
  BY <1>4, EnvironmentInv
<1>5. CASE UNCHANGED vars
  <2>1. TypeOK'
    BY <1>5 DEF Inv, TypeOK, vars, list, nodes
  <2> QED
    BY <1>5, <2>1, QuietStep DEF vars
<1> QED
  BY <1>1, <1>2, <1>3, <1>4, <1>5 DEF Next

-----------------------------------------------------------------------------
(* The theorems.                                                           *)

\* Everything in the invariant holds in every reachable state.
THEOREM Invariance == Spec => []Inv
  BY InitInv, NextInv, PTL DEF Spec

\* Every variable keeps its type; in particular the counter stays a size_t.
THEOREM TypeCorrect == Spec => []TypeOK
<1>1. Inv => TypeOK
  BY DEF Inv
<1> QED
  BY <1>1, Invariance, PTL

\* For any calls in any order, url and configuration of a slot belong
\* together, and nothing read past the end of the arrays stays in a slot.
THEOREM ListStaysParallel == Spec => []ListParallel
<1>1. Inv => ListParallel
  BY DEF Inv
<1> QED
  BY <1>1, Invariance, PTL

\* The counter agrees with the arrays until it wraps, and once it has wrapped
\* the arrays are gone.
THEOREM CounterStaysExact == Spec => []CounterTracksList
<1>1. Inv => CounterTracksList
  BY DEF Inv
<1> QED
  BY <1>1, Invariance, PTL

\* Collecting empty services never takes a service from under an agent node,
\* with duplicates, wrong services and failed loads included.
THEOREM NoOrphans == Spec => []NoOrphanAgent
<1>1. Inv => NoOrphanAgent
  BY DEF Inv
<1> QED
  BY <1>1, Invariance, PTL

\* The list keeps the order of registration; what a removal repeats is a
\* direct neighbour.
THEOREM ListStaysInOrder == Spec => []ListInOrder
<1>1. Inv => ListInOrder
  BY DEF Inv
<1> QED
  BY <1>1, Invariance, PTL
=============================================================================

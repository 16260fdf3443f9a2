-------------------------- MODULE DirectoryProofs ---------------------------
(***************************************************************************)
(* The nodes of the registry implement the directory clients see: for any  *)
(* clients, any number of duplicate registrations, any removals and any    *)
(* registration that fails.                                                *)
(***************************************************************************)
EXTENDS RegistryProofs

\* What a step that keeps the nodes and the names of all configurations means
\* for the directory: nothing.
LEMMA QuietDirectory ==
    ASSUME Inv, UNCHANGED nodes,
           \A c \in DOMAIN configs : /\ configs'[c].url = configs[c].url
                                     /\ configs'[c].service = configs[c].service
    PROVE  UNCHANGED <<Shown, service_nodes>>
<1>1. agent_nodes' = agent_nodes /\ service_nodes' = service_nodes
  BY DEF nodes
<1>2. \A c \in agent_nodes : c \in DOMAIN configs
  BY DEF Inv, NoOrphanAgent
<1> QED
  BY <1>1, <1>2 DEF Shown

\* A registration shows its pair, or only its service, or nothing new.
LEMMA AddAgentDirectory ==
    ASSUME Inv, NEW u \in Urls, NEW s \in Services, NEW load \in Loads,
           AddAgent(u, s, load)
    PROVE  \/ Directory!Register(u, s)
           \/ Directory!Announce(s)
           \/ UNCHANGED <<Shown, service_nodes>>
<1> DEFINE c == Len(configs) + 1
<1>1. /\ \A d \in DOMAIN configs : configs'[d] = configs[d]
      /\ configs'[c] = NewConfig(u, s, load)
  <2>1. configs \in Seq(Config) /\ configs' = Append(configs, NewConfig(u, s, load))
    BY DEF Inv, TypeOK, AddAgent
  <2>2. NewConfig(u, s, load) \in Config
    BY DEF NewConfig, Config
  <2> QED
    BY <2>1, <2>2, AppendProperties, LenProperties
<1>2. \A d \in agent_nodes : d \in DOMAIN configs
  BY DEF Inv, NoOrphanAgent
<1>3. CASE load = "ok"
  <2>1. agent_nodes' = agent_nodes \cup {c} /\ service_nodes' = service_nodes \cup {s}
    BY <1>3 DEF AddAgent
  <2>2. configs'[c].url = u /\ configs'[c].service = s
    BY <1>1 DEF NewConfig
  <2> HIDE DEF c
  <2>3. Shown' = Shown \cup {<<u, s>>}
    BY <1>1, <1>2, <2>1, <2>2 DEF Shown
  <2> QED
    BY <2>1, <2>3 DEF Directory!Register
<1>4. CASE load = "unparsed"
  <2>1. UNCHANGED nodes
    BY <1>4 DEF AddAgent, nodes
  <2> QED
    BY <1>1, <2>1, QuietDirectory
<1>5. CASE load \notin {"ok", "unparsed"}
  <2>1. agent_nodes' = agent_nodes /\ service_nodes' = service_nodes \cup {s}
    BY <1>5 DEF AddAgent
  <2>2. Shown' = Shown
    BY <1>1, <1>2, <2>1 DEF Shown
  <2> QED
    BY <2>1, <2>2 DEF Directory!Announce
<1> QED
  BY <1>3, <1>4, <1>5

\* A removal hides its pair, all duplicates at once, or hides nothing.
LEMMA RemoveAgentDirectory ==
    ASSUME Inv, NEW u \in Urls, NEW s \in Services, NEW read \in UrlReads,
           RemoveAgent(u, s, read)
    PROVE  Directory!Unregister(u, s) \/ UNCHANGED <<Shown, service_nodes>>
<1> DEFINE found == FoundNodes(u, s, read)
           rest == agent_nodes \ found
<1>1. /\ configs' = configs
      /\ agent_nodes' = rest
      /\ service_nodes' = IF found # {} /\ AgentsOf(s, rest) = {}
                          THEN service_nodes \ {s} ELSE service_nodes
  BY DEF RemoveAgent, DeleteNodes
<1>2. CASE found = {}
  <2>1. UNCHANGED nodes
    BY <1>1, <1>2 DEF nodes
  <2> QED
    BY <1>1, <2>1, QuietDirectory
<1>3. CASE found # {}
  <2>1. found = {c \in agent_nodes : configs[c].url = u /\ configs[c].service = s}
    BY <1>3 DEF FoundNodes
  <2>2. \E c \in found : configs[c].url = u /\ configs[c].service = s
    BY <1>3, <2>1
  <2>3. <<u, s>> \in Shown
    BY <2>1, <2>2 DEF Shown
  <2>4. Shown' = Shown \ {<<u, s>>}
    <3>1. Shown' = {<<configs[c].url, configs[c].service>> : c \in rest}
      BY <1>1 DEF Shown
    <3> QED
      BY <2>1, <3>1 DEF Shown
  <2>5. AgentsOf(s, rest) = {} <=> s \notin Directory!Offered(Shown')
    <3> DEFINE P == {<<configs[c].url, configs[c].service>> : c \in rest}
    <3>1. Shown' = P
      BY <1>1 DEF Shown
    <3>2. {a[2] : a \in P} = {configs[c].service : c \in rest}
      <4> HIDE DEF rest
      <4>1. \A c \in rest : <<configs[c].url, configs[c].service>>[2] = configs[c].service
        OBVIOUS
      <4> QED
        BY <4>1
    <3>3. Directory!Offered(Shown') = {configs[c].service : c \in rest}
      BY <3>1, <3>2 DEF Directory!Offered
    <3> QED
      BY <3>3 DEF AgentsOf
  <2> QED
    BY <1>1, <1>3, <2>3, <2>4, <2>5 DEF Directory!Unregister
<1> QED
  BY <1>2, <1>3

\* The main loop, the signal handler, the threads and the agents leave the
\* directory alone.
LEMMA EnvironmentShows ==
    ASSUME Inv, Environment \/ UNCHANGED vars
    PROVE  UNCHANGED <<Shown, service_nodes>>
<1>1. ASSUME UNCHANGED <<configs, nodes>>
      PROVE  UNCHANGED <<Shown, service_nodes>>
  BY <1>1, QuietDirectory
<1>2. ASSUME NEW c \in DOMAIN configs, SubscribeThread(c)
      PROVE  UNCHANGED <<Shown, service_nodes>>
  <2> DEFINE d == [configs[c] EXCEPT !.thread = "looping"]
  <2>1. /\ configs' = [configs EXCEPT ![c] = d]
        /\ configs[c] \in Config
        /\ UNCHANGED nodes
    BY <1>2, Shapes DEF SubscribeThread
  <2>2. d.url = configs[c].url /\ d.service = configs[c].service
    BY <2>1 DEF Config
  <2> HIDE DEF d
  <2>3. \A e \in DOMAIN configs : /\ configs'[e].url = configs[e].url
                                  /\ configs'[e].service = configs[e].service
    BY <2>1, <2>2
  <2> QED
    BY <2>1, <2>3, QuietDirectory
<1>3. ASSUME NEW c \in DOMAIN configs, Thread(c)
      PROVE  UNCHANGED <<Shown, service_nodes>>
  <2>1. CASE SubscribeThread(c)
    BY <1>2, <2>1
  <2>2. CASE SubscribeWithoutClient(c) \/ Notify(c)
    BY <1>1, <2>2 DEF SubscribeWithoutClient, Notify
  <2> QED
    BY <1>3, <2>1, <2>2 DEF Thread
<1>4. CASE MainLoop \/ StopHandler
  BY <1>1, <1>4 DEF MainLoop, BeginSync, SyncSlot, EndSync, TouchLostList, StopHandler
<1>5. CASE (\E u \in Urls : AgentStartsOrStops(u)) \/ Terminated \/ UNCHANGED vars
  BY <1>1, <1>5 DEF AgentStartsOrStops, Terminated, vars
<1> QED
  BY <1>3, <1>4, <1>5 DEF Environment

\* Every step registers, unregisters or stutters.
LEMMA NextDirectory ==
    ASSUME Inv, [Next]_vars
    PROVE  [Directory!Next]_<<Shown, service_nodes>>
<1>1. ASSUME NEW u \in Urls, NEW s \in Services, NEW load \in Loads,
             AddAgent(u, s, load)
      PROVE  [Directory!Next]_<<Shown, service_nodes>>
  BY <1>1, AddAgentDirectory DEF Directory!Next
<1>2. ASSUME NEW u \in Urls, NEW s \in Services, NEW read \in UrlReads,
             RemoveAgent(u, s, read)
      PROVE  [Directory!Next]_<<Shown, service_nodes>>
  BY <1>2, RemoveAgentDirectory DEF Directory!Next
<1>3. CASE Environment \/ UNCHANGED vars
  BY <1>3, EnvironmentShows
<1>4. CASE \E u \in Urls : MapMissingEntryNode(u)
  BY <1>4, QuietDirectory DEF MapMissingEntryNode
<1> QED
  BY <1>1, <1>2, <1>3, <1>4 DEF Next

-----------------------------------------------------------------------------
\* The address space of the registry implements AssetDirectory: the initial
\* states map to its initial state, every step to a step of it or a stutter.
THEOREM DirectoryImplemented == Spec => DirectorySpec
<1>1. Init => Directory!Init
  BY DEF Init, Directory!Init, Shown
<1>2. Inv /\ [Next]_vars => [Directory!Next]_<<Shown, service_nodes>>
  BY NextDirectory
<1> QED
  BY <1>1, <1>2, Invariance, PTL DEF Spec, DirectorySpec, Directory!Spec
=============================================================================

----------------------- MODULE RegistryClientsProofs ------------------------
(***************************************************************************)
(* What the registry gives clients that keep to the documented protocol,   *)
(* for any number of agents and services.  The process stays in the        *)
(* defined behaviour of C and the nodes are the enrolled agents, whatever  *)
(* the capacity; the list the main loop walks is right as long as no more  *)
(* than two agents are registered at a time.                               *)
(***************************************************************************)
EXTENDS RegistryClients, DirectoryProofs, FiniteSetTheorems

(***************************************************************************)
(* The list may forget an agent and keep another one twice, but it never   *)
(* loses count: an unregister call of an enrolled agent takes one slot and *)
(* one agent, so the counter cannot wrap.  And every configuration has a   *)
(* client, as its agent was up when it registered.                         *)
(***************************************************************************)
CountedInv ==
    /\ Inv
    /\ enrolled \subseteq Urls \X Services
    /\ \A u \in Urls, s, t \in Services :
           <<u, s>> \in enrolled /\ <<u, t>> \in enrolled => s = t
    /\ IsFiniteSet(enrolled)
    /\ number_agents = Cardinality(enrolled)
    /\ ListIntact
    /\ \A c \in DOMAIN configs : configs[c].client
    /\ NeverUndefined

LEMMA InitCounted == ClientInit => CountedInv
<1> SUFFICES ASSUME ClientInit PROVE CountedInv
  OBVIOUS
<1>1. Inv /\ Init /\ enrolled = {}
  BY InitInv DEF ClientInit
<1>2. IsFiniteSet(enrolled) /\ Cardinality(enrolled) = 0
  BY <1>1, FS_EmptySet
<1>3. DOMAIN configs = {} /\ Len(agents) = 0
  BY <1>1 DEF Init
<1> QED
  BY <1>1, <1>2, <1>3 DEF CountedInv, Init, ListIntact, NeverUndefined

\* An enrolment fills one slot.
LEMMA EnrolCounted ==
    ASSUME CountedInv, NEW u \in Urls, NEW s \in Services, Enrol(u, s)
    PROVE  CountedInv'
<1>1. /\ AddAgent(u, s, "ok") /\ u \in reachable /\ ~IsEnrolled(u)
      /\ enrolled' = enrolled \cup {<<u, s>>}
  BY DEF Enrol
<1>2. Inv'
  BY <1>1, AddAgentInv DEF CountedInv, LoadKinds
<1>3. <<u, s>> \notin enrolled
  BY <1>1 DEF IsEnrolled
<1>4. /\ IsFiniteSet(enrolled')
      /\ Cardinality(enrolled') = Cardinality(enrolled) + 1
  BY <1>1, <1>3, FS_AddElement DEF CountedInv
<1>5. number_agents' = Cardinality(enrolled') /\ ListIntact'
  <2>1. number_agents' = number_agents + 1 /\ agents' = Append(agents, Len(configs) + 1)
    BY <1>1 DEF AddAgent
  <2>2. Len(agents') = Len(agents) + 1
    BY <2>1 DEF CountedInv, Inv, TypeOK
  <2> QED
    BY <1>4, <2>1, <2>2 DEF CountedInv, ListIntact
<1>6. \A v \in Urls, t, r \in Services :
          <<v, t>> \in enrolled' /\ <<v, r>> \in enrolled' => t = r
  BY <1>1 DEF CountedInv, IsEnrolled
<1>7. \A c \in DOMAIN configs' : configs'[c].client
  <2>1. /\ configs' = Append(configs, NewConfig(u, s, "ok")) /\ configs \in Seq(Config)
        /\ NewConfig(u, s, "ok") \in Config /\ NewConfig(u, s, "ok").client
    BY <1>1 DEF AddAgent, CountedInv, Inv, TypeOK, NewConfig, Config
  <2>2. \A c \in DOMAIN configs' : c \in DOMAIN configs \/ configs'[c] = NewConfig(u, s, "ok")
    BY <2>1, AppendProperties, LenProperties
  <2>3. \A c \in DOMAIN configs : configs'[c] = configs[c]
    BY <2>1, AppendProperties, LenProperties
  <2> QED
    BY <2>1, <2>2, <2>3 DEF CountedInv
<1>8. NeverUndefined'
  BY <1>1 DEF AddAgent, CountedInv, NeverUndefined
<1>9. enrolled' \subseteq Urls \X Services
  BY <1>1 DEF CountedInv
<1> QED
  BY <1>2, <1>4, <1>5, <1>6, <1>7, <1>8, <1>9 DEF CountedInv

\* The withdrawal of an enrolled agent empties one slot, whichever that is.
LEMMA WithdrawCounted ==
    ASSUME CountedInv, NEW u \in Urls, NEW s \in Services, NEW read \in UrlReads,
           Withdraw(u, s, read)
    PROVE  CountedInv'
<1>1. /\ RemoveAgent(u, s, read) /\ <<u, s>> \in enrolled
      /\ enrolled' = enrolled \ {<<u, s>>}
  BY DEF Withdraw
<1>2. Inv'
  BY <1>1, RemoveAgentInv DEF CountedInv
<1>3. /\ IsFiniteSet(enrolled')
      /\ Cardinality(enrolled') = Cardinality(enrolled) - 1
      /\ Cardinality(enrolled) \in Nat /\ Cardinality(enrolled') \in Nat
  BY <1>1, FS_RemoveElement, FS_CardinalityType DEF CountedInv
<1>4. number_agents' = Cardinality(enrolled') /\ ListIntact'
  <2>1. number_agents # 0 /\ number_agents = Len(agents)
    <3>1. Cardinality(enrolled) # 0
      BY <1>3
    <3> QED
      BY <3>1 DEF CountedInv, ListIntact
  <2>2. number_agents' = number_agents - 1
    BY <1>1, <2>1 DEF RemoveAgent, RemoveFromList
  <2>3. Len(agents') = Len(agents) - 1
    <3>1. agents' = DropLast(CopyNeighbour(agents, Hits(u)))
      BY <1>1 DEF RemoveAgent, RemoveFromList
    <3>2. agents \in Seq(ConfigIds \cup {Garbage})
      BY DEF CountedInv, Inv, TypeOK
    <3> QED
      BY <2>1, <3>1, <3>2, RemoveSlots
  <2> QED
    BY <1>3, <2>1, <2>2, <2>3 DEF CountedInv, ListIntact
<1>5. configs' = configs /\ pc' = pc
  BY <1>1 DEF RemoveAgent
<1> QED
  BY <1>1, <1>2, <1>3, <1>4, <1>5 DEF CountedInv, NeverUndefined

\* What is no request leaves the list and the names of its slots alone.
LEMMA EnvironmentKeepsList ==
    ASSUME Inv, Environment \/ UNCHANGED vars
    PROVE  /\ UNCHANGED list
           /\ \A c \in Listed : /\ configs'[c].url = configs[c].url
                                /\ configs'[c].service = configs[c].service
<1>1. CASE UNCHANGED configs
  BY <1>1 DEF Environment, MainLoop, BeginSync, SyncSlot, EndSync, TouchLostList,
              StopHandler, AgentStartsOrStops, Terminated, vars, Thread, SubscribeThread,
              SubscribeWithoutClient, Notify
<1>2. ASSUME NEW c \in DOMAIN configs, SubscribeThread(c)
      PROVE  /\ UNCHANGED list
             /\ \A d \in Listed : /\ configs'[d].url = configs[d].url
                                  /\ configs'[d].service = configs[d].service
  <2>1. \A d \in Listed : d \in DOMAIN configs /\ configs[d] \in Config
    BY Shapes DEF Inv, ListParallel, Listed
  <2> QED
    BY <1>2, <2>1 DEF SubscribeThread, Config
<1>3. ASSUME NEW c \in DOMAIN configs, Thread(c)
      PROVE  UNCHANGED configs \/ SubscribeThread(c)
  BY <1>3 DEF Thread, SubscribeWithoutClient, Notify
<1>4. Environment \/ UNCHANGED vars =>
          UNCHANGED configs \/ \E c \in DOMAIN configs : SubscribeThread(c)
  BY <1>3 DEF Environment, MainLoop, BeginSync, SyncSlot, EndSync, TouchLostList,
              StopHandler, AgentStartsOrStops, Terminated, vars
<1> QED
  BY <1>1, <1>2, <1>4

\* No step of the main loop finds the list gone, no thread is without client.
LEMMA EnvironmentCounted ==
    ASSUME CountedInv, Environment, UNCHANGED enrolled
    PROVE  CountedInv'
<1>1. Inv'
  BY EnvironmentInv DEF CountedInv
<1>2. UNCHANGED list /\ pc' # "undefined" /\ \A c \in DOMAIN configs' : configs'[c].client
  <2>1. CASE MainLoop \/ StopHandler \/ (\E u \in Urls : AgentStartsOrStops(u)) \/ Terminated
    BY <2>1 DEF MainLoop, BeginSync, SyncSlot, EndSync, TouchLostList, StopHandler,
                AgentStartsOrStops, Terminated, vars, CountedInv, NeverUndefined, Alive
  <2>2. ASSUME NEW c \in DOMAIN configs, Thread(c)
        PROVE  UNCHANGED list /\ pc' # "undefined"
               /\ \A d \in DOMAIN configs' : configs'[d].client
    <3>1. CASE SubscribeThread(c)
      <4>1. \A d \in DOMAIN configs : configs[d] \in Config /\ configs[d].client
        BY Shapes DEF CountedInv
      <4>2. \A d \in DOMAIN configs : configs'[d].client
        BY <3>1, <4>1 DEF SubscribeThread, Config
      <4> QED
        BY <3>1, <4>2 DEF SubscribeThread, CountedInv, NeverUndefined
    <3>2. ~SubscribeWithoutClient(c)
      BY DEF SubscribeWithoutClient, CountedInv
    <3>3. CASE Notify(c)
      BY <3>3 DEF Notify, CountedInv, NeverUndefined
    <3> QED
      BY <2>2, <3>1, <3>2, <3>3 DEF Thread
  <2> QED
    BY <2>1, <2>2 DEF Environment
<1> QED
  BY <1>1, <1>2 DEF CountedInv, NeverUndefined, ListIntact, list

LEMMA NextCounted == CountedInv /\ [ClientNext]_clientVars => CountedInv'
<1> SUFFICES ASSUME CountedInv, [ClientNext]_clientVars PROVE CountedInv'
  OBVIOUS
<1>1. CASE UNCHANGED clientVars
  <2>1. UNCHANGED vars /\ UNCHANGED enrolled
    BY <1>1 DEF clientVars
  <2>2. Inv'
    BY <2>1, NextInv DEF CountedInv
  <2> QED
    BY <2>1, <2>2 DEF CountedInv, vars, list, ListIntact, NeverUndefined
<1> QED
  BY <1>1, EnrolCounted, WithdrawCounted, EnvironmentCounted DEF ClientNext

-----------------------------------------------------------------------------
(***************************************************************************)
(* The nodes.  An agent that withdraws takes all nodes of its pair with    *)
(* it, unless its request is read too far; then its node stays behind.     *)
(***************************************************************************)
NodesInv ==
    /\ CountedInv
    /\ enrolled \subseteq Shown
    /\ UrlReads = {"exact"} => Shown = enrolled

\* An enrolment shows its pair.
LEMMA EnrolShown ==
    ASSUME Inv, NEW u \in Urls, NEW s \in Services, AddAgent(u, s, "ok")
    PROVE  Shown' = Shown \cup {<<u, s>>}
<1> DEFINE c == Len(configs) + 1
<1>1. /\ \A d \in DOMAIN configs : configs'[d] = configs[d]
      /\ configs'[c] = NewConfig(u, s, "ok")
  <2>1. configs \in Seq(Config) /\ configs' = Append(configs, NewConfig(u, s, "ok"))
    BY DEF Inv, TypeOK, AddAgent
  <2>2. NewConfig(u, s, "ok") \in Config
    BY DEF NewConfig, Config
  <2> QED
    BY <2>1, <2>2, AppendProperties, LenProperties
<1>2. agent_nodes' = agent_nodes \cup {c} /\ \A d \in agent_nodes : d \in DOMAIN configs
  BY DEF AddAgent, Inv, NoOrphanAgent
<1>3. configs'[c].url = u /\ configs'[c].service = s
  BY <1>1 DEF NewConfig
<1> HIDE DEF c
<1> QED
  BY <1>1, <1>2, <1>3 DEF Shown

\* A withdrawal hides its pair and no other.
LEMMA WithdrawShown ==
    ASSUME Inv, NEW u \in Urls, NEW s \in Services, NEW read \in UrlReads,
           RemoveAgent(u, s, read)
    PROVE  /\ Shown \ {<<u, s>>} \subseteq Shown'
           /\ read = "exact" => Shown' = Shown \ {<<u, s>>}
<1>1. /\ configs' = configs
      /\ agent_nodes' = agent_nodes \ FoundNodes(u, s, read)
  BY DEF RemoveAgent, DeleteNodes
<1>2. \A c \in FoundNodes(u, s, read) : configs[c].url = u /\ configs[c].service = s
  BY DEF FoundNodes
<1>3. read = "exact" => \A c \in agent_nodes \ FoundNodes(u, s, read) :
                            <<configs[c].url, configs[c].service>> # <<u, s>>
  BY DEF FoundNodes
<1> QED
  BY <1>1, <1>2, <1>3 DEF Shown

LEMMA NextNodes == NodesInv /\ [ClientNext]_clientVars => NodesInv'
<1> SUFFICES ASSUME NodesInv, [ClientNext]_clientVars PROVE NodesInv'
  OBVIOUS
<1>1. CountedInv' /\ Inv
  BY NextCounted DEF NodesInv, CountedInv
<1>2. ASSUME NEW u \in Urls, NEW s \in Services, Enrol(u, s)
      PROVE  NodesInv'
  <2>1. AddAgent(u, s, "ok") /\ enrolled' = enrolled \cup {<<u, s>>}
    BY <1>2 DEF Enrol
  <2>2. Shown' = Shown \cup {<<u, s>>}
    BY <1>1, <2>1, EnrolShown
  <2> QED
    BY <1>1, <2>1, <2>2 DEF NodesInv
<1>3. ASSUME NEW u \in Urls, NEW s \in Services, NEW read \in UrlReads,
             Withdraw(u, s, read)
      PROVE  NodesInv'
  <2>1. RemoveAgent(u, s, read) /\ enrolled' = enrolled \ {<<u, s>>}
    BY <1>3 DEF Withdraw
  <2>2. /\ Shown \ {<<u, s>>} \subseteq Shown'
        /\ read = "exact" => Shown' = Shown \ {<<u, s>>}
    BY <1>1, <2>1, WithdrawShown
  <2> QED
    BY <1>1, <2>1, <2>2 DEF NodesInv
<1>4. ASSUME Environment \/ UNCHANGED vars, UNCHANGED enrolled
      PROVE  NodesInv'
  <2>1. UNCHANGED Shown
    BY <1>1, <1>4, EnvironmentShows
  <2> QED
    BY <1>1, <1>4, <2>1 DEF NodesInv
<1> QED
  BY <1>2, <1>3, <1>4 DEF ClientNext, clientVars

-----------------------------------------------------------------------------
(***************************************************************************)
(* The list.  The removal loop is right for an agent in one of the last    *)
(* two slots, and with two slots there are no others.                      *)
(***************************************************************************)
ListInv ==
    /\ CountedInv
    /\ number_agents <= Capacity
    /\ ListMirrorsClients

\* If the one hit is in one of the last two slots, it is cut out, and the
\* slots behind it move up (callback_functions.c 259-266).
LEMMA CutNearTheEnd ==
    ASSUME NEW S, NEW a \in Seq(S), NEW h \in 1 .. Len(a), h >= Len(a) - 1
    PROVE  LET r == DropLast(CopyNeighbour(a, {h}))
           IN  /\ DOMAIN r = 1 .. Len(a) - 1
               /\ \A i \in 1 .. Len(a) - 1 : r[i] = IF i < h THEN a[i] ELSE a[i + 1]
<1> DEFINE r == DropLast(CopyNeighbour(a, {h}))
<1>1. Len(a) \in Nat /\ Len(a) # 0
  BY LenProperties
<1>2. /\ r \in Seq(S) /\ Len(r) = Len(a) - 1
      /\ \A i \in 1 .. Len(a) - 1 : r[i] = IF i \in {h} THEN a[i + 1] ELSE a[i]
  BY <1>1, RemoveSlots
<1>3. DOMAIN r = 1 .. Len(r)
  BY <1>2, LenProperties
<1> HIDE DEF r
<1>4. \A i \in 1 .. Len(a) - 1 : i \in {h} <=> ~(i < h)
  BY <1>1
<1> QED
  BY <1>2, <1>3, <1>4 DEF r

\* So the list loses an agent that stands there, and nobody else.
LEMMA WithdrawNearTheEnd ==
    ASSUME Inv, ListMirrorsClients,
           NEW u \in Urls, NEW s \in Services, NEW read \in UrlReads,
           Withdraw(u, s, read),
           NEW h \in DOMAIN agents, agent_url[h] = u, h >= Len(agents) - 1
    PROVE  ListMirrorsClients'
<1> DEFINE n == Len(agents)
           kept(i) == IF i < h THEN i ELSE i + 1
           pair(c) == <<configs[c].url, configs[c].service>>
<1>1. /\ RemoveAgent(u, s, read) /\ <<u, s>> \in enrolled
      /\ enrolled' = enrolled \ {<<u, s>>} /\ configs' = configs
  BY DEF Withdraw, RemoveAgent
<1>2. /\ n \in Nat /\ DOMAIN agents = 1 .. n /\ DOMAIN agent_url = 1 .. n
      /\ Len(agent_url) = n /\ h \in 1 .. n
      /\ agents \in Seq(ConfigIds \cup {Garbage}) /\ agent_url \in Seq(Urls \cup {Garbage})
  BY Shapes DEF Inv, TypeOK
<1>3. Hits(u) = {h}
  BY <1>2 DEF Hits, ListMirrorsClients
<1>4. /\ DOMAIN agents' = 1 .. n - 1 /\ DOMAIN agent_url' = 1 .. n - 1
      /\ \A i \in 1 .. n - 1 : /\ agents'[i] = agents[kept(i)]
                               /\ agent_url'[i] = agent_url[kept(i)]
  <2>1. /\ agents' = DropLast(CopyNeighbour(agents, {h}))
        /\ agent_url' = DropLast(CopyNeighbour(agent_url, {h}))
    BY <1>1, <1>3 DEF RemoveAgent, RemoveFromList
  <2>2. /\ DOMAIN agents' = 1 .. n - 1
        /\ \A i \in 1 .. n - 1 : agents'[i] = IF i < h THEN agents[i] ELSE agents[i + 1]
    BY <1>2, <2>1, CutNearTheEnd
  <2>3. /\ DOMAIN agent_url' = 1 .. n - 1
        /\ \A i \in 1 .. n - 1 :
               agent_url'[i] = IF i < h THEN agent_url[i] ELSE agent_url[i + 1]
    BY <1>2, <2>1, CutNearTheEnd
  <2> QED
    BY <2>2, <2>3
<1> HIDE DEF n
<1>5. /\ \A i \in 1 .. n - 1 : kept(i) \in 1 .. n /\ kept(i) # h
      /\ \A j \in 1 .. n : j # h => \E i \in 1 .. n - 1 : kept(i) = j
      /\ \A i, j \in 1 .. n - 1 : kept(i) = kept(j) => i = j
  <2>1. ASSUME NEW j \in 1 .. n, j # h
        PROVE  \E i \in 1 .. n - 1 : kept(i) = j
    <3>1. CASE j < h
      BY <1>2, <3>1
    <3>2. CASE j > h
      <4>1. j - 1 \in 1 .. n - 1 /\ kept(j - 1) = j
        BY <1>2, <3>2
      <4> QED
        BY <4>1
    <3> QED
      BY <1>2, <2>1, <3>1, <3>2
  <2> QED
    BY <1>2, <2>1
<1>6. /\ \A j \in 1 .. n : agents[j] \in DOMAIN configs
                          /\ agent_url[j] = configs[agents[j]].url
      /\ \A i, j \in 1 .. n : agent_url[i] = agent_url[j] => i = j
      /\ {pair(c) : c \in Listed} = enrolled
  BY <1>2 DEF Inv, ListParallel, ListMirrorsClients
<1> HIDE DEF kept
<1>7. pair(agents[h]) = <<u, s>>
  <2>1. PICK j \in 1 .. n : pair(agents[j]) = <<u, s>>
    BY <1>1, <1>2, <1>6 DEF Listed
  <2>2. agent_url[j] = u
    BY <1>6, <2>1
  <2>3. j = h
    BY <1>2, <1>6, <2>2
  <2> QED
    BY <2>1, <2>3
<1>8. \A j \in 1 .. n : j # h => pair(agents[j]) # <<u, s>>
  BY <1>2, <1>6, <1>7
<1>9. {pair(c) : c \in Listed'} = enrolled'
  <2>1. Listed' = {agents[j] : j \in (1 .. n) \ {h}}
    <3>1. Listed' = {agents[kept(i)] : i \in 1 .. n - 1}
      BY <1>4 DEF Listed
    <3> QED
      BY <1>5, <3>1
  <2>2. Listed = {agents[j] : j \in 1 .. n}
    BY <1>2 DEF Listed
  <2> HIDE DEF pair
  <2> QED
    BY <1>1, <1>6, <1>7, <1>8, <2>1, <2>2
<1>10. \A i, j \in DOMAIN agent_url' : agent_url'[i] = agent_url'[j] => i = j
  BY <1>4, <1>5, <1>6
<1> QED
  BY <1>1, <1>9, <1>10 DEF ListMirrorsClients

\* An enrolment adds a slot for an agent that had none.
LEMMA EnrolListed ==
    ASSUME Inv, ListMirrorsClients, NEW u \in Urls, NEW s \in Services, Enrol(u, s)
    PROVE  ListMirrorsClients'
<1> DEFINE c == Len(configs) + 1
           n == Len(agents)
           pair(d) == <<configs[d].url, configs[d].service>>
<1>1. /\ AddAgent(u, s, "ok") /\ ~IsEnrolled(u) /\ enrolled' = enrolled \cup {<<u, s>>}
      /\ agents' = Append(agents, c) /\ agent_url' = Append(agent_url, u)
      /\ configs' = Append(configs, NewConfig(u, s, "ok"))
  BY DEF Enrol, AddAgent
<1>2. /\ agents \in Seq(ConfigIds \cup {Garbage}) /\ agent_url \in Seq(Urls \cup {Garbage})
      /\ configs \in Seq(Config) /\ NewConfig(u, s, "ok") \in Config /\ c \in ConfigIds
      /\ n \in Nat /\ DOMAIN agents = 1 .. n /\ DOMAIN agent_url = 1 .. n
      /\ Len(agent_url) = n
      /\ \A d \in Listed : d \in DOMAIN configs
  <2>1. /\ agents \in Seq(ConfigIds \cup {Garbage}) /\ agent_url \in Seq(Urls \cup {Garbage})
        /\ configs \in Seq(Config) /\ NewConfig(u, s, "ok") \in Config
    BY DEF Inv, TypeOK, NewConfig, Config
  <2>2. c \in ConfigIds
    BY <1>1, Shapes, BoundAssumption DEF ConfigIds, AddAgent
  <2>3. \A d \in Listed : d \in DOMAIN configs
    BY DEF Inv, Listed, ListParallel
  <2> QED
    BY <2>1, <2>2, <2>3, Shapes
<1>3. /\ \A d \in DOMAIN configs : configs'[d] = configs[d]
      /\ configs'[c] = NewConfig(u, s, "ok")
  BY <1>1, <1>2, AppendProperties, LenProperties
<1>4. /\ DOMAIN agents' = 1 .. n + 1 /\ DOMAIN agent_url' = 1 .. n + 1
      /\ \A i \in 1 .. n : agents'[i] = agents[i] /\ agent_url'[i] = agent_url[i]
      /\ agents'[n + 1] = c /\ agent_url'[n + 1] = u
  BY <1>1, <1>2, AppendProperties, LenProperties
<1> HIDE DEF c, n
<1>5. Listed' = Listed \cup {c}
  <2>1. 1 .. n + 1 = (1 .. n) \cup {n + 1}
    BY <1>2
  <2> QED
    BY <1>2, <1>4, <2>1 DEF Listed
<1>6. \A i \in 1 .. n : agent_url[i] # u
  <2> SUFFICES ASSUME NEW i \in 1 .. n, agent_url[i] = u PROVE FALSE
    OBVIOUS
  <2>1. agents[i] \in Listed /\ configs[agents[i]].url = u
    BY <1>2 DEF Listed, Inv, ListParallel
  <2>2. <<u, configs[agents[i]].service>> \in enrolled
    BY <2>1 DEF ListMirrorsClients
  <2>3. configs[agents[i]].service \in Services
    BY <1>2, <2>1, Shapes DEF Config
  <2> QED
    BY <1>1, <2>2, <2>3 DEF IsEnrolled
<1>7. {<<configs'[d].url, configs'[d].service>> : d \in Listed'} = enrolled'
  <2>1. \A d \in Listed : <<configs'[d].url, configs'[d].service>> = pair(d)
    BY <1>2, <1>3
  <2>2. <<configs'[c].url, configs'[c].service>> = <<u, s>>
    BY <1>3 DEF NewConfig
  <2>3. {pair(d) : d \in Listed} = enrolled
    BY DEF ListMirrorsClients
  <2> HIDE DEF pair
  <2> QED
    BY <1>1, <1>5, <2>1, <2>2, <2>3
<1>8. \A i, j \in 1 .. n + 1 : agent_url'[i] = agent_url'[j] => i = j
  <2>1. \A i, j \in 1 .. n : agent_url[i] = agent_url[j] => i = j
    BY <1>2 DEF ListMirrorsClients
  <2>2. \A i \in 1 .. n + 1 : i \in 1 .. n \/ i = n + 1
    BY <1>2
  <2> QED
    BY <1>4, <1>6, <2>1, <2>2
<1> QED
  BY <1>4, <1>7, <1>8 DEF ListMirrorsClients

LEMMA NextListed ==
    ASSUME Capacity <= 2
    PROVE  ListInv /\ [ClientNext]_clientVars => ListInv'
<1> SUFFICES ASSUME ListInv, [ClientNext]_clientVars PROVE ListInv'
  OBVIOUS
<1>1. CountedInv' /\ Inv
  BY NextCounted DEF ListInv, CountedInv
<1>2. ASSUME NEW u \in Urls, NEW s \in Services, Enrol(u, s)
      PROVE  ListInv'
  <2>1. number_agents' <= Capacity
    BY <1>1, <1>2, Shapes, BoundAssumption DEF Enrol, AddAgent, ListIntact
  <2> QED
    BY <1>1, <1>2, <2>1, EnrolListed DEF ListInv
<1>3. ASSUME NEW u \in Urls, NEW s \in Services, NEW read \in UrlReads,
             Withdraw(u, s, read)
      PROVE  ListInv'
  <2>1. number_agents = Len(agents) /\ Len(agents) \in Nat /\ Len(agents) <= 2
    BY <1>1, Shapes, BoundAssumption DEF ListInv, CountedInv, ListIntact
  <2>2. PICK h \in DOMAIN agents : agent_url[h] = u
    <3>1. <<u, s>> \in enrolled
      BY <1>3 DEF Withdraw
    <3>2. PICK c \in Listed : <<configs[c].url, configs[c].service>> = <<u, s>>
      BY <3>1 DEF ListInv, ListMirrorsClients
    <3> QED
      BY <1>1, <3>2 DEF Listed, Inv, ListParallel
  <2>3. h >= Len(agents) - 1
    BY <1>1, <2>1, Shapes
  <2>4. ListMirrorsClients'
    BY <1>1, <1>3, <2>2, <2>3, WithdrawNearTheEnd DEF ListInv
  <2>5. number_agents' <= Capacity
    <3>1. number_agents # 0
      BY <1>1, <2>1, Shapes
    <3> QED
      BY <1>3, <2>1, <3>1, BoundAssumption DEF ListInv, Withdraw, RemoveAgent, RemoveFromList
  <2> QED
    BY <1>1, <2>4, <2>5 DEF ListInv
<1>4. ASSUME Environment \/ UNCHANGED vars, UNCHANGED enrolled
      PROVE  ListInv'
  <2>1. /\ UNCHANGED list
        /\ \A c \in Listed : /\ configs'[c].url = configs[c].url
                             /\ configs'[c].service = configs[c].service
    BY <1>1, <1>4, EnvironmentKeepsList
  <2>2. agents' = agents /\ agent_url' = agent_url /\ number_agents' = number_agents
        /\ Listed' = Listed
    BY <2>1 DEF list, Listed
  <2>3. ListMirrorsClients'
    <3>1. {<<configs'[c].url, configs'[c].service>> : c \in Listed}
              = {<<configs[c].url, configs[c].service>> : c \in Listed}
      BY <2>1
    <3> QED
      BY <1>4, <2>2, <3>1 DEF ListInv, ListMirrorsClients
  <2> QED
    BY <1>1, <2>2, <2>3 DEF ListInv
<1> QED
  BY <1>2, <1>3, <1>4 DEF ClientNext, clientVars

-----------------------------------------------------------------------------
(* The theorems.                                                           *)

\* Whatever agents that are complete and up when they register do, in any
\* number: the counter does not wrap, no thread runs without a client.
THEOREM ClientsStayDefined == ClientSpec => []NeverUndefined
<1>1. CountedInv => NeverUndefined
  BY DEF CountedInv
<1> QED
  BY <1>1, InitCounted, NextCounted, PTL DEF ClientSpec

\* The invariants of the bare registry hold for these clients too: their calls
\* are calls of Registry.
THEOREM ClientsRegister == ClientSpec => []Inv
<1>1. CountedInv => Inv
  BY DEF CountedInv
<1> QED
  BY <1>1, InitCounted, NextCounted, PTL DEF ClientSpec

LEMMA NodesInvariance == ClientSpec => []NodesInv
<1>1. ClientInit => NodesInv
  <2> SUFFICES ASSUME ClientInit PROVE NodesInv
    OBVIOUS
  <2>1. CountedInv
    BY InitCounted
  <2>2. Shown = {} /\ enrolled = {}
    BY DEF ClientInit, Init, Shown
  <2> QED
    BY <2>1, <2>2 DEF NodesInv
<1> QED
  BY <1>1, NextNodes, PTL DEF ClientSpec

\* However requests are read, no removal takes an agent that stays enrolled out of
\* what clients browse (callback_functions.c 175-210).
THEOREM EnrolledAreShown == ClientSpec => [](enrolled \subseteq Shown)
<1>1. NodesInv => enrolled \subseteq Shown
  BY DEF NodesInv
<1> QED
  BY <1>1, NodesInvariance, PTL

\* For any number of agents and services the nodes clients browse are exactly
\* the enrolled agents (callback_functions.c 175-210), provided the bytes
\* behind a request's url are zero.
THEOREM NodesAreClients ==
    ASSUME UrlReads = {"exact"}
    PROVE  ClientSpec => []NodesMirrorClients
<1>1. NodesInv => NodesMirrorClients
  BY DEF NodesInv, NodesMirrorClients
<1> QED
  BY <1>1, NodesInvariance, PTL

\* With at most two agents at a time, of however many, the main loop walks
\* exactly the enrolled ones, each once (callback_functions.c 258-266).
THEOREM ListIsClients ==
    ASSUME Capacity <= 2
    PROVE  ClientSpec => []ListMirrorsClients
<1>1. ClientInit => ListInv
  <2> SUFFICES ASSUME ClientInit PROVE ListInv
    OBVIOUS
  <2>1. CountedInv
    BY InitCounted
  <2>2. /\ agents = <<>> /\ agent_url = <<>> /\ enrolled = {} /\ number_agents = 0
        /\ DOMAIN agents = {} /\ DOMAIN agent_url = {}
    BY DEF ClientInit, Init
  <2> QED
    BY <2>1, <2>2, BoundAssumption DEF ListInv, ListMirrorsClients, Listed
<1>2. ListInv /\ [ClientNext]_clientVars => ListInv'
  BY NextListed
<1>3. ListInv => ListMirrorsClients
  BY DEF ListInv
<1> QED
  BY <1>1, <1>2, <1>3, PTL DEF ClientSpec
=============================================================================

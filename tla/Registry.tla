------------------------------ MODULE Registry ------------------------------
(***************************************************************************)
(* The registry process: the agent list the main loop walks, the nodes of  *)
(* the registry's address space that describe the agents, and the thread   *)
(* that every registration starts.                                         *)
(*                                                                         *)
(* All method handlers and the synchronization of the list run in the one  *)
(* main thread: `UA_Server_run_iterate' runs handlers to completion (pc =  *)
(* "serve"), then the list is walked slot by slot (pc = "sync").  The      *)
(* threads and the agents themselves run concurrently with both.           *)
(*                                                                         *)
(* A configuration (UA_AggregateConfig) is named by the number of the      *)
(* register call that allocated it.  C arrays are sequences, so slot i of  *)
(* the code is slot i+1 here.  Where C leaves the defined behaviour (a     *)
(* NULL dereference, a walk over an array that is gone), pc becomes        *)
(* "undefined" and nothing is promised any more.                           *)
(***************************************************************************)
EXTENDS Integers, Sequences, FiniteSets

CONSTANTS
    Urls,        \* "address:port" of the agents
    Services,    \* service names the agents offer
    Loads,       \* how the registration of an agent can go
    UrlReads,    \* what strcat reads past the unterminated url of a request
    Capacity,    \* bound: clients register only while fewer slots are used
    MaxConfigs,  \* bound: number of register calls of a behaviour
    SizeMax,     \* the largest size_t
    Garbage      \* what a read past the end of an array returns

\* The text parses, a field behind the service node is bad, the text does not
\* parse, or one of the three mapped entry nodes does not exist at the agent.
LoadKinds == {"ok", "bad_field", "unparsed", "no_entry"}
ReadKinds == {"exact", "overrun"}
ConfigIds == 1 .. MaxConfigs

ASSUME InputAssumption ==
    /\ Loads \subseteq LoadKinds
    /\ UrlReads \subseteq ReadKinds

ASSUME BoundAssumption ==
    /\ Capacity \in Nat
    /\ MaxConfigs \in Nat
    /\ SizeMax \in Nat
    /\ Capacity < SizeMax

ASSUME GarbageAssumption == Garbage \notin Urls \cup ConfigIds

VARIABLES
    pc,             \* where the main thread is
    running,        \* main.c's flag, cleared by the signal handler
    slot,           \* index of the synchronization loop
    agents,         \* asc->agents: the configuration of every slot
    agent_url,      \* asc->agent_url: the url of every slot
    number_agents,  \* asc->number_agents
    configs,        \* all configurations ever allocated (they are never freed)
    pending,        \* configurations whose response queue is not empty
    service_nodes,  \* object nodes under PFDLServiceAgents
    agent_nodes,    \* configurations whose agent node exists
    reachable       \* agents that accept connections

list == <<agents, agent_url, number_agents>>
nodes == <<service_nodes, agent_nodes>>
vars == <<pc, running, slot, list, configs, pending, nodes, reachable>>

Config == [url     : Urls,
           service : Services,
           client  : BOOLEAN,                        \* client # NULL
           thread  : {"none", "created", "looping"}]

Listed == {agents[i] : i \in DOMAIN agents}

\* FALSE once number_agents has wrapped around and both arrays are NULL.
ListIntact == number_agents = Len(agents)

Alive == pc \in {"serve", "sync"}

-----------------------------------------------------------------------------
Init ==
    /\ pc = "serve"
    /\ running = TRUE
    /\ slot = 1
    /\ agents = <<>>
    /\ agent_url = <<>>
    /\ number_agents = 0
    /\ configs = <<>>
    /\ pending = {}
    /\ service_nodes = {}
    /\ agent_nodes = {}
    /\ reachable \in SUBSET Urls

-----------------------------------------------------------------------------
(* Registering an agent.                                                   *)

\* Mutant: the result of UA_Client_connect is tested the wrong way round.
NewConfigTestedWrong(u, s, load) ==
    [url |-> u, service |-> s,
     client |-> load = "ok" /\ u \notin reachable,
     thread |-> IF load = "ok" THEN "created" ELSE "none"]

\* What a registration leaves behind.  The slot is filled whatever the
\* result of loadRegisterAgentConfig, which nobody looks at; a client that
\* did not connect is NULL, and the thread is created all the same.
NewConfig(u, s, load) ==
    [url |-> u, service |-> s,
     client |-> load = "ok" /\ u \in reachable,
     thread |-> IF load = "ok" THEN "created" ELSE "none"]

\* The service node is found or created before the other fields are read.
AddAgent(u, s, load) ==
    /\ pc = "serve"
    /\ ListIntact
    /\ number_agents < Capacity
    /\ Len(configs) < MaxConfigs
    /\ load # "no_entry"
    /\ agents' = Append(agents, Len(configs) + 1)
    /\ agent_url' = Append(agent_url, u)
    /\ number_agents' = number_agents + 1
    /\ configs' = Append(configs, NewConfig(u, s, load))
    /\ service_nodes' = IF load = "unparsed" THEN service_nodes
                                             ELSE service_nodes \cup {s}
    /\ agent_nodes' = IF load = "ok" THEN agent_nodes \cup {Len(configs) + 1}
                                     ELSE agent_nodes
    /\ UNCHANGED <<pc, running, slot, pending, reachable>>

\* The agent answers but has no node on a mapped path: the handler
\* dereferences the empty result of the path translation.
MapMissingEntryNode(u) ==
    /\ pc = "serve"
    /\ ListIntact
    /\ u \in reachable
    /\ "no_entry" \in Loads
    /\ Len(configs) < MaxConfigs
    /\ pc' = "undefined"
    /\ UNCHANGED <<running, slot, list, configs, pending, nodes, reachable>>

-----------------------------------------------------------------------------
(* Unregistering an agent.                                                 *)

\* Slots whose url is the one of the request.
Hits(u) == {i \in DOMAIN agent_url : agent_url[i] = u}

\* Mutant: hits are not overwritten at all.
CopyNothing(a, hits) == a

\* Mutant: the last slot takes the place of a hit.
CopyLast(a, hits) == [i \in DOMAIN a |-> IF i \in hits THEN a[Len(a)] ELSE a[i]]

\* The loop copies the right-hand neighbour over every hit and moves nothing
\* else; behind the last slot it reads past the end.
CopyNeighbour(a, hits) ==
    [i \in DOMAIN a |-> IF i \notin hits THEN a[i]
                        ELSE IF i = Len(a) THEN Garbage ELSE a[i + 1]]

\* Mutant: the arrays are not reallocated.
KeepLast(a) == a

\* The arrays lose their last slot whether or not there was a hit.
DropLast(a) == SubSeq(a, 1, Len(a) - 1)

\* Mutant: the counter is a signed integer.
RemoveFromSignedList(u) ==
    /\ agents' = DropLast(CopyNeighbour(agents, Hits(u)))
    /\ agent_url' = DropLast(CopyNeighbour(agent_url, Hits(u)))
    /\ number_agents' = number_agents - 1

\* Mutant: only a hit decrements the counter, but the arrays shrink anyway.
RemoveFromListCountHits(u) ==
    /\ agents' = DropLast(CopyNeighbour(agents, Hits(u)))
    /\ agent_url' = DropLast(CopyNeighbour(agent_url, Hits(u)))
    /\ number_agents' = IF Hits(u) = {} THEN number_agents ELSE number_agents - 1


RemoveFromList(u) ==
    /\ agents' = DropLast(CopyNeighbour(agents, Hits(u)))
    /\ agent_url' = DropLast(CopyNeighbour(agent_url, Hits(u)))
    /\ number_agents' = IF number_agents = 0 THEN SizeMax ELSE number_agents - 1

\* Mutant: the search stops at the service and ignores the url.
FoundUnderService(u, s, read) ==
    {c \in agent_nodes : read = "exact" /\ configs[c].service = s}

\* Nodes find_agent reaches along AgentList/PFDLServiceAgents/service/url.
\* The browse name is built with a strcat from a string that has no
\* terminator; if the bytes behind it are not zero, no node has that name.
FoundNodes(u, s, read) ==
    {c \in agent_nodes : /\ read = "exact"
                         /\ configs[c].url = u
                         /\ configs[c].service = s}

AgentsOf(s, set) == {c \in set : configs[c].service = s}

\* Mutant: the service goes with any of its agents.
DeleteWithService(s, found) ==
    /\ agent_nodes' = agent_nodes \ found
    /\ service_nodes' = IF found # {} THEN service_nodes \ {s} ELSE service_nodes

\* Mutant: the remaining agents are counted before the agent is deleted.
CountThenDelete(s, found) ==
    /\ agent_nodes' = agent_nodes \ found
    /\ service_nodes' = IF found # {} /\ AgentsOf(s, agent_nodes) = {}
                        THEN service_nodes \ {s}
                        ELSE service_nodes


DeleteNodes(s, found) ==
    /\ agent_nodes' = agent_nodes \ found
    /\ service_nodes' = IF found # {} /\ AgentsOf(s, agent_nodes \ found) = {}
                        THEN service_nodes \ {s}
                        ELSE service_nodes

RemoveAgent(u, s, read) ==
    /\ pc = "serve"
    /\ ListIntact
    /\ RemoveFromList(u)
    /\ DeleteNodes(s, FoundNodes(u, s, read))
    /\ UNCHANGED <<pc, running, slot, configs, pending, reachable>>

-----------------------------------------------------------------------------
(* The main loop.                                                          *)

BeginSync ==
    /\ pc = "serve"
    /\ pc' = "sync"
    /\ UNCHANGED <<running, slot, list, configs, pending, nodes, reachable>>

\* Mutant: the index is incremented twice.
SyncEverySecondSlot ==
    /\ pc = "sync"
    /\ ListIntact
    /\ slot <= number_agents
    /\ pending' = pending \ {agents[slot]}
    /\ slot' = IF slot = number_agents THEN slot + 1 ELSE slot + 2
    /\ UNCHANGED <<pc, running, list, configs, nodes, reachable>>

\* syncRegisteredAgents: every queued response is written to its local node
\* and freed, whether or not that node still exists.
SyncSlot ==
    /\ pc = "sync"
    /\ ListIntact
    /\ slot <= number_agents
    /\ pending' = pending \ {agents[slot]}
    /\ slot' = slot + 1
    /\ UNCHANGED <<pc, running, list, configs, nodes, reachable>>

\* The index goes out of scope; the next walk begins at the first slot again.
EndSync ==
    /\ pc = "sync"
    /\ slot > number_agents
    /\ pc' = IF running THEN "serve" ELSE "stopped"
    /\ slot' = 1
    /\ UNCHANGED <<running, list, configs, pending, nodes, reachable>>

\* Any use of the list after the counter has wrapped indexes a NULL array.
TouchLostList ==
    /\ Alive
    /\ ~ListIntact
    /\ pc' = "undefined"
    /\ UNCHANGED <<running, slot, list, configs, pending, nodes, reachable>>

StopHandler ==
    /\ Alive
    /\ running
    /\ running' = FALSE
    /\ UNCHANGED <<pc, slot, list, configs, pending, nodes, reachable>>

-----------------------------------------------------------------------------
(* The threads and the agents.                                             *)

SubscribeThread(c) ==
    /\ Alive
    /\ configs[c].thread = "created"
    /\ configs[c].client
    /\ configs' = [configs EXCEPT ![c].thread = "looping"]
    /\ UNCHANGED <<pc, running, slot, list, pending, nodes, reachable>>

\* A thread whose client is NULL passes it to the subscription service.
SubscribeWithoutClient(c) ==
    /\ Alive
    /\ configs[c].thread = "created"
    /\ ~configs[c].client
    /\ pc' = "undefined"
    /\ UNCHANGED <<running, slot, list, configs, pending, nodes, reachable>>

\* A value of the agent changes and the thread queues it for the main loop.
Notify(c) ==
    /\ Alive
    /\ configs[c].thread = "looping"
    /\ configs[c].url \in reachable
    /\ pending' = pending \cup {c}
    /\ UNCHANGED <<pc, running, slot, list, configs, nodes, reachable>>

AgentStartsOrStops(u) ==
    /\ Alive
    /\ reachable' = IF u \in reachable THEN reachable \ {u}
                                       ELSE reachable \cup {u}
    /\ UNCHANGED <<pc, running, slot, list, configs, pending, nodes>>

\* The process has left the loop, or left the defined behaviour of C.
Terminated ==
    /\ ~Alive
    /\ UNCHANGED vars

-----------------------------------------------------------------------------
MainLoop == BeginSync \/ SyncSlot \/ EndSync \/ TouchLostList

Thread(c) == SubscribeThread(c) \/ SubscribeWithoutClient(c) \/ Notify(c)

Environment ==
    \/ MainLoop
    \/ StopHandler
    \/ \E c \in DOMAIN configs : Thread(c)
    \/ \E u \in Urls : AgentStartsOrStops(u)
    \/ Terminated

Next ==
    \/ \E u \in Urls, s \in Services, load \in Loads : AddAgent(u, s, load)
    \/ \E u \in Urls : MapMissingEntryNode(u)
    \/ \E u \in Urls, s \in Services, read \in UrlReads : RemoveAgent(u, s, read)
    \/ Environment

\* The loop of main.c never blocks: a step of it that can be taken is taken.
Spec == Init /\ [][Next]_vars /\ WF_vars(MainLoop)

-----------------------------------------------------------------------------
(* The directory the agent nodes show to the clients.                      *)

Shown == {<<configs[c].url, configs[c].service>> : c \in agent_nodes}

Directory == INSTANCE AssetDirectory WITH assets <- Shown,
                                          services <- service_nodes

-----------------------------------------------------------------------------
(* Properties.                                                             *)

\* Every variable has its type.
TypeOK ==
    /\ pc \in {"serve", "sync", "stopped", "undefined"}
    /\ running \in BOOLEAN
    /\ slot \in 1 .. SizeMax + 1
    /\ agents \in Seq(ConfigIds \cup {Garbage})
    /\ agent_url \in Seq(Urls \cup {Garbage})
    /\ number_agents \in 0 .. SizeMax
    /\ configs \in Seq(Config)
    /\ Len(configs) <= MaxConfigs
    /\ pending \in SUBSET ConfigIds
    /\ service_nodes \in SUBSET Services
    /\ agent_nodes \in SUBSET ConfigIds
    /\ reachable \in SUBSET Urls

\* The two arrays stay parallel: whatever sequence of register and
\* unregister calls ran, slot i names an allocated configuration and the url
\* stored beside it is that configuration's url.  In particular the value
\* read past the end of the arrays while unregistering never stays in a slot
\* the main loop walks (callback_functions.c 259-266).
ListParallel ==
    /\ Len(agent_url) = Len(agents)
    /\ \A i \in DOMAIN agents :
           /\ agents[i] \in DOMAIN configs
           /\ agent_url[i] = configs[agents[i]].url

\* The counter is the length of the arrays, or it has wrapped to the largest
\* size_t and the arrays are gone (callback_functions.c 265-266, 288).
CounterTracksList ==
    \/ number_agents = Len(agents)
    \/ number_agents = SizeMax /\ agents = <<>>

\* No agent node loses the service node it hangs under: collecting a service
\* whose last agent left never takes a live agent of a duplicate or of
\* another registration with it (callback_functions.c 189-199).
NoOrphanAgent ==
    \A c \in agent_nodes :
        /\ c \in DOMAIN configs
        /\ configs[c].service \in service_nodes

\* The nodes clients browse behave as the directory they stand for, even
\* when clients register twice, unregister what is not there, and the agent
\* list behind the nodes is wrong (callback_functions.c 175-210,
\* config_parse.c 184-197).
DirectorySpec == Directory!Spec

\* A removal never reorders the list: slots stay in order of registration,
\* and the only repetition it can leave is of a direct neighbour.
ListInOrder ==
    \A i \in DOMAIN agents :
        i + 1 \in DOMAIN agents => agents[i] <= agents[i + 1]

-----------------------------------------------------------------------------
(* What documentation and comments say, and the code does not do.          *)

\* Unregistering is "the removal of an Asset" (README.md:9): a configuration
\* leaves the list only together with its agent node.
RemovalSparesOthers ==
    [][\A c \in Listed \ Listed' : c \notin agent_nodes']_vars
=============================================================================

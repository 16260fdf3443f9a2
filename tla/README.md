# Verification of the SWAP-IT registry module

TLA+ models of the registry module in `src/`, model-checked with TLC and proved
with TLAPS.  The registry is an OPC UA server (open62541) that
mirrors the servers of assets ("agents") so that an execution engine can
find and filter them.  Every invariant, action property and refinement that the passing
runs check is also proved, for all values of the constants within the hypotheses
section 5 names.

## 1. The system

| Component | Code | State | Operations |
|---|---|---|---|
| Main loop | `main.c` | `running` | run the server's handlers, then walk the agent list; signal handler |
| Agent list | `include/registry_module_internal.h`, `callback_functions.c`, `register_agent.c` | `agents`, `agent_url`, `number_agents` | append (register), overwrite and cut (unregister), walk |
| Registration | `add_agent_to_registry`, `add_agent_server`, `loadRegisterAgentConfig`, `initRegisteredAgentNodes`, `readRegisteredAgentNS` | one `UA_AggregateConfig` per call; nodes under `AgentList/PFDLServiceAgents` | parse a json text, find or create the service node, create the agent's nodes, connect, mirror the mapped nodes, start a thread |
| Removal | `remove_agent_from_registry`, `find_agent`, `check_remaining_agents` | list and nodes | cut the list, delete the agent's node, collect an empty service |
| Mirroring | `node_iterator.c`, `readRegisteredAgentNS` | the agent's nodes in the registry, `subscriptionNodes`, value callbacks | look up the entry nodes, recursive copy |
| Synchronization | `client_interface.c`, `synchronization.c`, `internal.c` | two queues, a mutex and a client per configuration, one thread per registration | subscribe, reconnect, read on demand, queue, write; forward writes and method calls |
| Filter | `filter_agents`, `capability_matching_functions.c` | none (reads the mirrored nodes) | match capabilities |
| Namespace solver | `registry_module_namespace_solver.c` | none | map namespace indices |
| Shutdown | `registry_module_clear.c` | everything | free |

(Files without a directory are `src/src/registry_module_<name>.c`.)

**Who runs what.**  All method handlers and the walk over the list run in the one
main thread, one after the other; the signal handler only clears `running`.
Every registration starts a thread that nobody joins or stops before shutdown.
A thread and the main thread share the configuration: its client, its two
queues (`TAILQ`s, inserted at the head and emptied from the head) and
`threadMutex`.  The main thread uses the client of the thread to forward method
calls and writes, and clears the configuration at shutdown while the thread still
runs.  The threads feed the main thread through the response
queue; the main thread feeds them through the request queue.  Clients call the
registry's methods in any order; agents start, stop and change values
whenever they like.

**What is hard.**  The list is edited by hand with raw arrays and a counter;
handlers fail in the middle and nobody looks at results; duplicate and unknown
urls; agents that are down, incomplete, or restart; values that meet in a
queue; blocking calls inside a critical section; a connection that is lost in the
middle of a recursion that looks at no result; callbacks that run in whichever
thread happens to wait; positional matching over agents
that differ.  `PROJECT.json` lists every hazard at its line.

**What makes each part correct.**  List: slots are parallel, name allocated
configurations, stay in order, are counted exactly, and are the registered
agents.  Nodes: they are the registered pairs of agent and service; no agent
without its service node, no service without an agent.  Synchronization:
nothing reported is dropped, mirrors do not go back, mirrors catch up, read
requests are served, both sides agree on what clients write, the main thread gets
back.  Mirroring: what is copied is an image of the agent under names that mean the
same, every node of it is handed to the registry's server if the connection held,
each variable is kept up to date in one way and each method called on the object that
has it.  Filter: exactly the agents that meet the
capabilities asked for.

## 2. The modules

| Module | Models | Corresponds to |
|---|---|---|
| `AssetDirectory` | abstract: what a client sees | registered `<<url, service>>` pairs and service nodes |
| `Registry` | list, nodes, main loop, threads at the grain of a registration | `AddAgent` is the whole of `add_agent_server`; `RemoveAgent` the whole of `remove_agent_from_registry`; `BeginSync`/`SyncSlot`/`EndSync` the loop of `main.c`; `SubscribeThread`, `Notify` the thread |
| `RegistryClients` | `Registry` driven by agents that keep to the documented protocol | `Enrol`, `Withdraw` |
| `AgentMirror` | abstract: what a client sees of an agent's values | the agent's values and those shown |
| `AgentSync` | one configuration: its thread, client, queues, mutex, messages, from the thread's start to its end | one action per critical section or blocking call; `ClientRead` is `onRead`, `ClientWrite` with `Serve`, `ReceiveResult` and `OrderFails` `onWrite`, `CallMethod` with its wait `methodCallback`, `ClearQueues`/`DeleteClient` `clear_registered_modules_config` |
| `NamespaceSolver` | `namespace_solver.c` as operators | `map_namespace_idx`, the searches by name, `write_variable_value` |
| `NodeMirror` | one registration from the connect to the monitored items | `SearchName`..`ResolveEntry` are the loop of `readRegisteredAgentNS`; one `Visit` action per node class is a call of `nodeIter`; `stack` is its recursion |
| `CapabilityFilter` | `filter_agents` over mirrored capabilities | `FilterAgents`; `Unreadable` is the collection of the items, `FirstItems` to `Verdicts` the loops over them; `MirrorAgent`, `DeleteAgent`, `SyncValue` change the nodes between calls |
| `MC*` | instances for TLC | symmetry sets, capability layouts, address spaces |
| `RegistryProofs`, `DirectoryProofs` | theorems about `Registry` | invariants; the refinement of `AssetDirectory` |
| `RegistryClientsProofs` | theorems about `RegistryClients` | list, nodes and counter are the enrolled agents |
| `AgentSyncProofs` | theorems about `AgentSync` | mutual exclusion, hand-over, the refinement of `AgentMirror`, the two sides of a written node |
| `FilterProofs` | theorems about `CapabilityFilter` | which agents a call returns |
| `NodeMirrorLemmas` | lemmas | what the recursive functions and searches of `NodeMirror` and `NamespaceSolver` return |
| `NodeMirrorProofs`, `NodeMirrorCopyProofs` | theorems about `NodeMirror` | the mirror is right; nothing is left out of it, and it is kept up to date |

`RegistryClients` composes with `Registry` by joint actions; `Registry`
instantiates `AssetDirectory` with a refinement mapping (`Shown`, the pairs of
the existing agent nodes).  `AgentSync` is what `Registry` abstracts to the set
`pending` of configurations with a non-empty response queue, and it
instantiates `AgentMirror` for the nodes that only the agent changes.
`NodeMirror` is what happens inside `AddAgent`, and leaves the state `AgentSync`
starts from.  Operators whose
comment begins with "Mutant" are deliberate errors used to show that each
property can fail; no specification uses them.

### Conventions

*Arrays* are sequences, so slot `i` of the code is slot `i + 1`.  *Configurations* are
named by the number of the register call that allocated them: two slots can
hold the same one, which is what the removal loop produces.

*Undefined behaviour.*  A read past the end of an array returns the model value
`Garbage`.  A dereference of `NULL` or of a lost array sets `pc` (or the filter's
`status`) to `"undefined"`, where nothing is promised and nothing happens
any more.  Strings that are read past their end are an input:
`UrlReads` (the browse name of a removal, `callback_functions.c` 276-281) and
`StringReads` (service name 398, wishes 476) say whether the bytes behind them
happen to be zero.  A result that is used although the service failed
(`VisitUnread`, `VisitCut`, `NameNotFound`, `OrderFails`) takes the outcomes the
build can produce.

*Nodes the registry's server refused.*  `nodeIter` and `readRegisteredAgentNS` print or
drop the status of `UA_Server_add*Node` and of `writeValue` and go on with the id
(`node_iterator.c` 114, 171, 222, `internal.c` 112, `namespace_solver.c` 277-281).
`mirror` therefore lists what the server was asked for, in order.  `added` says which of
the nodes exist, the value `"refused"` which values did not arrive; the other fields say
what was asked for, of refused nodes too: what hangs below a refused object is walked
all the same, and a refused variable is in the list of subscriptions or has
callbacks set on its id.

*The OPC UA stack is external.*  Taken from how the code uses it: deleting a node
with its references removes its subtree; children are iterated over a copy;
a server refuses to write an empty value; a synchronous client call may
dispatch notifications that arrive before its answer; a restarted agent has
lost session and subscriptions.  The stack is built with `UA_MULTITHREADING`
(src/README.md:57): a client serves one caller at a time, and a callback runs in
the thread that waits in the client (`ThreadInClient`, `MainInClient`).
The server may refuse any node and any value it is asked to take: it refuses a node
under a parent it does not have and a value for a node it does not have, and what
else it refuses is open (`taken` in `NodeMirror`, `refused` in `CapabilityFilter`).
Outside of memory exhaustion a refused request leaves an id that names no node; that
the stack gives such an id to a node it makes later is not modelled.
A browse returns the references as they are at that moment; the address
space of an agent does not change while it is copied.

### Bounds

| Constant | Bounds | Why it is enough |
|---|---|---|
| `Capacity` | slots a client fills | 3 shows first, middle and last slot; 2 is the largest size at which removal is right |
| `MaxConfigs` | register calls | 3 lets a slot be refilled after a removal |
| `SizeMax` | `SIZE_MAX` | any value above `Capacity`; only the wrap matters |
| `MaxChanges`, `MaxReads`, `MaxRestarts` | environment events | 2 changes are needed for an order of three values, 1 for an old and a new one (`sync_ondemand`), 2-3 reads to overlap |
| `MaxCalls` | method calls | 1 call at any moment of a run |
| `MayStop` | whether the registry is told to stop | a constant, so that runs about an endless loop stay small |
| `Changing`, `Writable` | who changes a node | a subscribed node and an on-demand one of the agent's, an on-demand one of the clients' |
| `Refusing` | whose values the agent may refuse | a node of its own in `sync_ondemand`; none where `WritesAgree` is checked, which leaves them out |
| `StackDepth` | activations of `nodeIter` | 8, twice the depth of the agents without circles |
| `Agents` | address spaces | one for each shape the code treats in a way of its own: nested and shared nodes, unknown and abstract types, a missing entry, names used twice (in the same namespace and in another), a structure, a circle |
| `Backlog` | values of a node under way | 1: the main loop keeps up with a node; 2: two values meet in the queue |
| `MaxAgents` | agents of a service | 2: the first agent and another one, like it or not |

`Capacity` and `Backlog` are guards on the environment (a client that does not
register more, a sampling interval longer than a turn of the loop), never on the
registry's own steps.  `StackDepth` is the C stack: to exceed it ends the process.

### Fairness

`Registry`, `RegistryClients`: weak fairness of the main loop.  `main.c` calls
`UA_Server_run_iterate` without waiting and never blocks between two
turns.  Handlers, threads and agents have none.

`AgentSync`: weak fairness of the steps of the two loops that wait for nobody.
Strong fairness of the steps that take `threadMutex` or wait for a message:
the other side holds the mutex only for a moment, again and again, and the
thread sleeps 10 ms between its critical sections.  POSIX does not promise it of a
mutex; it is the assumption under which the liveness properties hold.  Weak
fairness of `CheckConnection` says that an agent that went away comes back.  The
agent's stack publishes changes, answers reads and serves calls.

`NodeMirror`: weak fairness of `Registration`.  It is one call in the main thread;
every service in it returns, if only by its timeout.

## 3. The runs

| Run | Question | Answer |
|---|---|---|
| `registry_core` | any client, failing registrations, overrun urls: invariants of list and nodes; do the nodes implement `AssetDirectory` | hold; yes |
| `clients_two` | well-behaved agents, two slots: list and nodes are the enrolled agents, reported changes are written, nothing undefined | hold |
| `sync_mixed` | subscriptions, on-demand reads, writes forwarded at any moment, a method call, a restart, a shutdown: nothing dropped, mirrors implement `AgentMirror`, mirror and agent agree on what clients write | hold |
| `sync_fresh` | the mode `add_agent_server` configures, a method call, a shutdown: mirrors catch up, the main thread gets back from the call | hold while the loop keeps up |
| `sync_ondemand` | a node of the agent's and one that clients write, whose writes may be refused: overlapping reads refresh the mirror of the former for good unless an earlier answer is still to be written; all end when the agent restarts under them | hold |
| `filter_alike` | agents that list their capabilities like the first one of the service are filtered exactly, whatever the others list, if every value arrived | holds |
| `mirror_tree` | six shapes of agents, a connection lost anywhere, any node or value refused: is the mirror an image of the agent, everything handed over once, kept up to date, correctly named; does a sound registration end | holds |
| `registry_unknown` | a removal removes what it was asked to (README.md:9) | violated |
| `clients_three` | a registered asset is mapped (README.md:6), three slots | violated |
| `sync_backlog` | changed values are synchronized (register.rst:108), two notifications in the queue | violated |
| `sync_restart` | a connection is set up again (client_interface.c:77), the agent restarts | violated |
| `filter_mixed` | capabilities are matched by BrowseName (init.c:42) | violated |

What the violated runs show:

* The removal loop copies one neighbour and cuts one slot.  It is right for the last
  slot and for lists of at most two; `clients_two` and `clients_three` are
  the two sides of that border.
* The cut and the decrement do not depend on a hit, so an unknown url
  costs a registered agent its slot, and on the empty list the counter wraps.
* Both ends of the response queue are its head.  With one value of a node under way
  (`sync_fresh`) this is harmless, with two the mirror keeps the older one.  On-demand
  reads pass two such stacks.  The reversal of the requests is harmless: all reads of a
  batch are made after the last request of it was queued.  The reversal of the
  responses is not: if a second read is answered before the first answer is written, the
  response queue holds the new value before the old one, main writes them in that
  order, and the mirror stays older than the second read until somebody reads again.
  `ReadRefreshes` (`sync_ondemand`) therefore speaks of reads that find no answer of
  an earlier one still to be written (`CountOf(responses, n) = 0`), and TLC finds it
  violated without that condition.
* The subscription is created before the loop that reconnects.
* The filter takes names from the first agent and everything else from the
  same position of another.  `filter_mixed` and `filter_alike` are the two sides
  of that: only agents that list their capabilities in another way are misjudged.

More that the code does is in the model without a run of its own: the
same server can be registered twice (register.rst:119 says it cannot; nothing
compares urls, `AddAgent` has no such guard); the thread of an agent that was
down while it was registered has no client and dereferences `NULL`
(`SubscribeWithoutClient`); an agent without one of the mapped entry nodes ends
the process in the main thread (`MapMissingEntryNode`; `NameNotFound` and
`EntryNotFound` of `NodeMirror`).  `NeverUndefined` of `clients_two` says that these
and the wrapped counter are the only ways out of the behaviour `Registry` defines, since
it holds for clients that avoid them.  `NodeMirror` adds the agent whose nodes
reference each other in a circle (`VisitTooDeep`) and the one that goes away
while it is copied (`VisitUnread`, `VisitCut`, `EntryCut`); `AgentSync` the forwarded
call that fails (`OrderFails`), the shutdown with values in a queue
(`ClearQueues`) and the thread that uses a client the main thread has deleted
(`UseDeletedClient`).  `CapabilityFilter` adds the capability whose value the server refused:
the filter dereferences an empty value (`Unreadable`).

A forwarded write can be undone.  A value that left the agent before the write
(an answer to any client's read) is written to the mirror after it, and as
every value the synchronization writes runs `onWrite`, it is sent to the agent as
well.  `sync_mixed` reaches that; two ordinary clients suffice, and nothing in `onWrite`
prevents it.  What does hold is `WritesAgree`: the value is taken back on both sides or
on none, unless the agent refuses a value (`Refusing`) or a restart cuts the order off; `onWrite`
prints either and leaves the mirror as it is.  No document, comment or test of the repository says what a write to a mirrored
node promises, so there is no claim to refute in a run of its own.  The search for an entry node goes by the text of a name, at any
depth, and keeps the last match; `EntryOnPath` shows that the path translation
behind it refuses what it found elsewhere, so a misleading name ends the process but
never mirrors a wrong node.

`sync_mixed` is run without the deadlock check: an agent with subscriptions and
on-demand nodes can stop both threads for good in three ways.

* The blocking read under `threadMutex` dispatches a notification whose callback
  waits for the same mutex in the same thread (`thread = "nested"`).
* The write of a value to a read-write node, under the mutex as well, does the same
  in the main thread (`main = "echo"` with a notification in hand).
* The main thread forwards a call or a write and dispatches a notification, whose
  callback waits for the mutex (`QueueInMain`), while the thread holds the mutex
  and waits for the client the main thread is using (`SendRead` in `"requests"`).

The json text `add_agent_server` builds has subscriptions only, so no documented promise
is broken; the states are kept in the model.  All other runs check deadlock: the modules
stutter explicitly after the end of the process (`Terminated`).

## 4. Properties worth reading

* `ListMirrorsClients`: the slots, walked by index and edited by hand,
  are the registered agents, each once.
* `DirectorySpec`: whatever happens to the list, the nodes behave as a
  directory; a removal hides all duplicates of its pair at once.
* `NewestUnderway`: the last value an item reported is in the mirror or in
  somebody's hand, over two queues, two threads and a mutex.
* `MirrorSpec`: through either queue, over failed reads, restarts and the echo
  of written values, a mirror only shows what the agent had, in its order.
* `WritesAgree`: between two turns of the main thread, a node that clients write has the
  same value at the registry and at the agent, whatever older answers are under
  way.  It depends on the main thread waiting for the agent, and on `onWrite` running for
  the synchronization's own writes, the very echo that can undo a client's write.
* `MainReturns`: a forwarded call ends although the main thread may have to run
  the other thread's callback and take its mutex meanwhile.
* `ReadRefreshes`: what a read of a node that only the agent changes orders is at least as
  new as the read, and is not taken back by what was queued after it, or before it if
  all of that was answered and written.
* `MirrorWithinImage`, `CalledOnItsObject`, `KeptInItsMode`: the handle of a
  recursion carries where to hang a child, what to call its methods on and how to
  keep it up to date; a wrong field shows only two levels down.
* `HandedOverOnce`: every reference is handed to the registry's server once, in its order,
  shared nodes once for every way that leads to them, and with them, unchanged, the value
  of every variable whose type the registry knows (`KnownType`: its namespace and the
  type in it, which is no structure; structures may not arrive, `node_iterator.c` 195,
  `namespace_solver.c` 202).  The mirror itself lacks what the server refused and what
  hangs below that.
* `NamesMeanTheSame`: an index that went through two namespace arrays means the
  same namespace.
* `AlikeAnsweredExactly`: a positional double loop agrees with matching by name for
  every agent that lists its capabilities like the first one; an agent that differs
  does not spoil the answer about one that does not.  It is about calls that are answered:
  an empty value ends the process.  Where all agents are alike it is
  `AnswerIsExact`.

## 5. The proofs

`RegistryProofs` proves for every set of urls and services, every `Capacity`,
`MaxConfigs` and `SizeMax`, from the assumptions of `Registry` alone, that `Spec`
implies `[]TypeOK`, `[]ListParallel`, `[]CounterTracksList`, `[]NoOrphanAgent`
and `[]ListInOrder`.  The inductive invariant `Inv` is their conjunction; none of
the list properties is inductive alone: slots are indices of `configs`, whose
length only `TypeOK` bounds, and a removal keeps the arrays parallel only because both
make the same choices at equal lengths.

1. `RemoveSlots`: copying neighbours and cutting the last slot loses exactly one
   slot; each slot kept holds its own or its right neighbour's content, never
   `Garbage`.  Everything about removal rests on it.
2. `Shapes`: domains and lengths, cited by every step.
3. `AddAgentInv`, `RemoveAgentInv`, `EnvironmentInv`: one lemma per kind of
   step; `QuietStep` covers the steps that touch neither list nor nodes.
4. `Invariance`: the temporal step.

`DirectoryProofs` proves `Spec => DirectorySpec` from the same invariant and
assumptions, for registrations that fail as well: `AddAgentDirectory` maps a
registration to `Register`, to `Announce` (the service node it leaves behind when it
fails) or to a stutter, `RemoveAgentDirectory` a removal to `Unregister`
or a stutter.

`NodeMirrorProofs` proves of every agent, every list of mappings and every
moment at which the connection is lost that `Spec` implies `[]TypeOK`,
`[]MirrorWithinImage`, `[]CalledOnItsObject` and `[]NamesMeanTheSame`, from
`AgentAssumption` and `MappingAssumption`.  The mirror alone does not determine what
the next node will hang under, so `Inv` adds that every activation on the stack is
`Working`: the handle names the mirror of the object whose references it visits.

1. `MaxOfPositions` to `TypeFound`: what the namespace solver returns.
2. `ImageGrows`, `CopyStep`: appending one node keeps the image.
3. `HandleWorks`: a new activation is `Working`.
4. One lemma per `Visit` action, `ResolveInv`, `WalkInv`, `FrameInv` for the rest.

`AgentSyncProofs` proves `Spec => []TypeOK` for all constants, with mutual
exclusion as part of `TypeOK`; `Inv` adds `HandOver`, which says who holds a
message when.  For `Backlog = 1` it proves `Spec => []NewestUnderway` and
`Spec => MirrorSpec`.  The condition is needed: the counterexample of `sync_backlog`,
where the older of two values is written last, is a step back of the mirror.  The
invariant is `KeptUp`: what is under way of a subscribed node is what its item
reported last (`ReportedUnderway`), an on-demand node is asked for and answered
once at a time (`AskedOnce`), and what is under way lies between the value shown and
the value the agent has (`Between`).  `NoneUnderway` turns the guard on `Underway` into
these terms, `InsertAt` to `NoRepetition` say what the queue operations do to the
elements of a queue, one lemma per kind of step keeps `KeptUp`, and `ChangeRefines`,
`WriteRefines`, `OthersStutter` give the refinement.

For every `Backlog` it also proves `SidesAgree`: `Spec => []WritesAgree`, about the nodes
only clients write and whose values the agent takes.  The invariant is `Agreement`: the
main thread waits for its order (`Waited`), an order that is out carries the value the
mirror has, and a node without one has the same value on both sides (`Agreed`).  No
hypothesis says what else is under way, so the older answers are in it.

`RegistryClientsProofs` proves of any number of agents and services:

1. `ClientsStayDefined`: `ClientSpec => []NeverUndefined`, with no further hypothesis.
   `CountedInv` says that the counter is the number of enrolled agents: with three slots
   or more a removal can lose the wrong agent from the list, but never a wrong
   number of them, so the counter cannot wrap.
2. `EnrolledAreShown`: an enrolled agent is always among the nodes.
   `NodesAreClients`: if requests are read as they were sent (`UrlReads = {"exact"}`),
   nothing else is.  Otherwise a removal may not find the node of its own agent, which
   `registry_core` reaches.
3. `ListIsClients`: `[]ListMirrorsClients` for `Capacity <= 2`, which is where the removal
   stops being right (`clients_three`): `CutNearTheEnd` shows that a hit in one of the
   last two slots is cut out cleanly.

`FilterProofs` proves `[]TypeOK` and `[]AlikeAnsweredExactly` for all layouts, values
and queries.  `AnswersAreExact` concludes `[]AnswerIsExact` under the hypothesis that all
layouts have the same names in the same order (`SameNames`), which `filter_mixed`
shows to be needed.  The argument: for an agent like the first one no comparison is
open (`AlikeVerdict`), and each matching function, with its swapped arguments and its
converted wish, is what its operator asks for (`MatchIsMeets`).  That all values are there
(`~Unreadable`) is what the answered call itself shows.  Besides the form of
the layouts, `ValueAssumption` is used: numbers are integers, and every type has values.

`NodeMirrorCopyProofs` proves, under the assumptions of `NodeMirrorProofs`:

1. `EntriesAreOnTheirPath`: `[]EntryOnPath`, from `FoundNamed` (the nodes found so far
   bear the names of the path): a path translation by the names of misleading nodes
   ends on the path or nowhere.
2. `ValuesKeptInTheirMode`: `[]KeptInItsMode`, from `Listed` (the list of subscriptions is
   without repetitions and holds the right variables at every moment) and `Monitored`.
   `EntryHasMapping` carries the mapping of a node up to its entry.
3. `EveryReferenceOnce`: `[]HandedOverOnce`, whatever the server refuses.  The invariant
   is `CopyInv`, stated while the connection holds: of every object that is copied either
   all references are done or exactly one activation on the stack works on it, and then
   what is mirrored below it and what the activation has left to visit are together
   what has to be mirrored (`Halfway`); every mapping before the current one has its
   entry; values of known types are written unchanged.  No hypothesis excludes circles or
   shared nodes: a registration that would not end never gets to the states the property
   is about.

The recursive functions in these proofs (`Picked`, `Entries`, `OnPath`, `LastMatch`,
`EntryOf`) are dealt with in `NodeMirrorLemmas`: `Recursion` gives a function that satisfies
the defining equation, and the values are described by `SetInduction`, induction with a
set in place of a predicate.

The strengthenings (`CopyInv`, `Listed`, `FoundNamed`, `CountedInv`,
`NodesInv`, `ListInv`) also hold on the instances of the runs, `CountedInv` and
`NodesInv` with three slots as well, where the list is wrong.

Only model-checked: the liveness properties (`EnrolledIsDrained`, `MirrorCatchesUp`,
`MainReturns`, `ReadRefreshes`, `RequestIsServed`, `RegistrationEnds`), for which
fairness and `ENABLED` are out of the prover's reach, and the counterexamples of the
violated runs.

## 6. Not modelled, and the plan

Not modelled:

* the text of the json and its parser, display names, the Assignment node of a service
  (`config_parse.c` 25-120), memory leaks, the vendored code in `src/deps`, the
  information model;
* code that is called from nowhere: `initAggregationServerNS` (`init.c` 173-230),
  `get_namespace` and what it calls (`namespace_solver.c` 144-184);
* of the mirror: that objects and methods keep the agent's namespace index in their
  browse names (`NamesMeanTheSame` is about variables and types), the
  children that instantiating an object type adds beside the copied ones
  (`node_iterator.c` 107-109), how the stack decodes structures, ids of refused nodes that
  the stack gives to later ones;
* of `onWrite`: the search for a custom data type at the agent (a read that changes
  nothing; what is written is the client's value either way);
* of the filter: components of an agent beside "Status" and the module type, which
  `initRegisteredAgentNodes` does not make (the list of items starts anew for each,
  `callback_functions.c` 375-376), and what two of them named "Capabilities" would do;
* of the shutdown: the walk over the list, `clear_node_context`, and the second
  clearing of a configuration that a removal left in two slots;
* how long a handler takes: handlers are atomic in `Registry`.

What is left of the plan, most important first:

1. `RegistryMirror`: `Registry` with the queues of `AgentSync` in place of
   `pending`, shown to implement `Registry`.
2. `Shutdown`: `clear_registry_module` over a list with a configuration in two
   slots.

## 7. Running

    tlc -workers 2 -config registry_core.cfg MCRegistry
    tlapm RegistryProofs.tla
    tlapm AgentSyncProofs.tla
    tlapm NodeMirrorCopyProofs.tla

Each `<run>.cfg` belongs to the MC module named in `PROJECT.json`.  The longest runs
are `registry_core` and `sync_mixed` (2.2 million distinct states each); each
takes less than two minutes.

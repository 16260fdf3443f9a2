----------------------------- MODULE NodeMirror -----------------------------
(***************************************************************************)
(* How the nodes of an agent are copied into the registry while it is      *)
(* registered: readRegisteredAgentNS looks up the entry node of every      *)
(* mapping, nodeIter copies what hangs below it, and the agent's thread    *)
(* turns the list it leaves behind into monitored items.                   *)
(*                                                                         *)
(* An agent is a record [nodes, root, class, name, refs, dataType, uris].  *)
(* nodeIter recurses; `stack' holds the references its activations have    *)
(* still to visit.  The connection can be lost between any two services.   *)
(* `mirror' lists the nodes the server was asked to make, and a mirror node *)
(* is named by its position in it.  A request the server refuses is printed *)
(* or ignored, and the walk goes on with an id that names no node: `added'  *)
(* says which of the nodes exist, the other fields what was asked for.     *)
(***************************************************************************)
EXTENDS NamespaceSolver, FiniteSets

CONSTANTS
    Agents,           \* the address spaces an agent can have
    Mappings,         \* the mapping entries: a path of names and a mode
    LocalUris,        \* the namespace array of the registry
    LocalObjectTypes, \* names of the object types the registry knows
    LocalDataTypes,   \* names of the data types the registry knows
    LocalStructures,  \* those of them that are structures of a model
    StackDepth        \* bound: activations the C stack has room for

Modes == {"subscription", "on-demand-read", "on-demand-read-write"}
Mirrored == {"object", "variable", "method"}

Reference(a) == [to : a.nodes, type : STRING, inverse : BOOLEAN]

NoName == [ns |-> 0, text |-> NullString]

QualifiedName(a) == [ns : 0 .. Len(a.uris) - 1, text : STRING]

\* References lead to nodes, names are in namespaces of the array, and the
\* first of them is the one of OPC UA at every server.
AgentOK(a) ==
    /\ a.root \in a.nodes
    /\ NoNode \notin a.nodes /\ Overflow \notin a.nodes
    /\ a.refs \in [a.nodes -> Seq(Reference(a))]
    /\ a.uris \in Seq(STRING)
    /\ a.uris[1] = LocalUris[1]
    /\ \A n \in a.nodes :
           /\ a.name[n] \in QualifiedName(a)
           /\ a.dataType[n] \in QualifiedName(a)

ASSUME AgentAssumption == \A a \in Agents : AgentOK(a)

ASSUME MappingAssumption ==
    /\ Mappings \in Seq([path : Seq(STRING), mode : Modes])
    /\ LocalUris \in Seq(STRING)
    /\ NoName \notin LocalObjectTypes
    /\ StackDepth \in Nat \ {0}

VARIABLES
    agent,              \* the address space of the agent that registers
    connection,         \* of the configuration's client
    client,             \* aggregateConfig->client is set
    status,             \* where the registration is
    index,              \* the mapping being resolved or walked
    found,              \* the nodes the names of its path were found at
    stack,              \* activations of nodeIter's caller, the innermost first
    mirror,             \* the nodes the server was asked to make
    subscriptionNodes,  \* aggregateConfig->subscriptionNodes, the head first
    items               \* the monitored items made at the agent

walk == <<index, found, stack>>
made == <<mirror, subscriptionNodes, items>>
vars == <<agent, connection, client, status, walk, made>>

\* Mutant: the iteration ends one reference early.
BrowseShort(n, open) ==
    IF open /\ agent.refs[n] # <<>> THEN Front(agent.refs[n]) ELSE <<>>

\* What a browse of n returns; nothing once the connection is lost.
Browse(n, open) == IF open THEN agent.refs[n] ELSE <<>>

\* internalNodeIteratorHandle, with the references not yet handed to nodeIter.
Handle(remote, parent, mapping, open) ==
    [remoteParentObject |-> remote, parent |-> parent,
     currentMappingIndex |-> mapping, rest |-> Browse(remote, open)]

\* The registry has the mirror node i; entries hang under a folder it has.
InRegistry(i) == i = 0 \/ mirror[i].added

\* The mirror of node n under the mirror node `parent'.  The server takes it
\* or not, and never under a parent it does not have.
Node(class, n, parent, mapping, taken) ==
    [class |-> class, remote |-> n, parent |-> parent, mapping |-> mapping,
     added |-> taken /\ InRegistry(parent),
     name |-> agent.name[n], type |-> NoNode, value |-> "none",
     callback |-> "none", object |-> NoNode]

Top == Head(stack)
Ref == Head(Top.rest)
ClassOfRef == agent.class[Ref.to]

\* The stack without the reference just visited.
Advanced == <<[Top EXCEPT !.rest = Tail(@)]>> \o Tail(stack)

\* An index of the agent becomes one of the registry; namespace 0 is the
\* same everywhere.
Translated(q, open) ==
    IF q.ns = 0 THEN q
    ELSE [q EXCEPT !.ns = map_namespace_idx(IF open THEN agent.uris ELSE <<>>,
                                            LocalUris, q.ns)]

-----------------------------------------------------------------------------
Init ==
    /\ agent \in Agents
    /\ connection = "none"
    /\ client = FALSE
    /\ status = "connect"
    /\ index = 1
    /\ found = <<>>
    /\ stack = <<>>
    /\ mirror = <<>>
    /\ subscriptionNodes = <<>>
    /\ items = <<>>

\* UA_Client_connect; if it fails the client is deleted, and the caller goes
\* on to start the thread.
Connect ==
    /\ status = "connect"
    /\ \/ connection' = "open" /\ status' = "resolve"
       \/ connection' = "lost" /\ status' = "thread"
    /\ UNCHANGED <<agent, client, walk, made>>

LoseConnection ==
    /\ connection = "open"
    /\ status \in {"resolve", "walk", "thread"}
    /\ connection' = "lost"
    /\ UNCHANGED <<agent, client, status, walk, made>>

-----------------------------------------------------------------------------
(* The entry node of a mapping.                                            *)

\* Node n of agent a has m among the targets of its forward references.
HasChild(a, n, m) ==
    \E i \in DOMAIN a.refs[n] : a.refs[n][i].to = m /\ ~a.refs[n][i].inverse

Path == Mappings[index].path

Resolving ==
    /\ status = "resolve"
    /\ index <= Len(Mappings)

\* The search for the next name of the path starts at the node found before,
\* wherever that was.
NextFound ==
    NamedBelow(agent, IF found = <<>> THEN agent.root ELSE Last(found),
               Path[Len(found) + 1], StackDepth)

SearchName ==
    /\ Resolving
    /\ connection = "open"
    /\ Len(found) < Len(Path)
    /\ NextFound \in agent.nodes
    /\ found' = Append(found, NextFound)
    /\ UNCHANGED <<agent, connection, client, status, index, stack, made>>

\* A name that is not found leaves the id of the node uninitialised.  Searched
\* with it or without, the path then has no target, and the first target is
\* dereferenced.
NameNotFound ==
    /\ Resolving
    /\ Len(found) < Len(Path)
    /\ connection = "open" => NextFound \notin agent.nodes
    /\ status' = "undefined"
    /\ UNCHANGED <<agent, connection, client, walk, made>>

\* Mutant: the node the last name was found at is the entry.
FoundEntries == {Last(found)}

\* The path translation follows the qualified names of the nodes found, from
\* the root folder and one reference at a time.
Entries ==
    LET reached[k \in 0 .. Len(found)] ==
            IF k = 0 THEN {agent.root}
            ELSE {n \in agent.nodes :
                     /\ agent.name[n] = agent.name[found[k]]
                     /\ \E m \in reached[k - 1] : HasChild(agent, m, n)}
    IN  reached[Len(found)]

\* The status of addObjectNode is not looked at.
ResolveEntry ==
    /\ Resolving
    /\ connection = "open"
    /\ Len(found) = Len(Path)
    /\ \E n \in Entries, stays, taken \in BOOLEAN :
           /\ connection' = IF stays THEN "open" ELSE "lost"
           /\ mirror' = Append(mirror, Node("entry", n, 0, index, taken))
           /\ stack' = <<Handle(n, Len(mirror) + 1, index, stays)>>
    /\ status' = "walk"
    /\ UNCHANGED <<agent, client, index, found, subscriptionNodes, items>>

EntryNotFound ==
    /\ Resolving
    /\ Len(found) = Len(Path)
    /\ connection = "open" => Entries = {}
    /\ status' = "undefined"
    /\ UNCHANGED <<agent, connection, client, walk, made>>

\* The connection is lost before the display name of the entry is read, which
\* is copied all the same.
EntryCut ==
    /\ Resolving
    /\ connection = "open"
    /\ Len(found) = Len(Path)
    /\ connection' = "lost"
    /\ status' = "undefined"
    /\ UNCHANGED <<agent, client, walk, made>>

-----------------------------------------------------------------------------
(* nodeIter.                                                               *)

Visiting == status = "walk" /\ Top.rest # <<>>

\* Mutant: the direction of a reference is not looked at.
FollowsAll(r) == TRUE

\* nodeIter leaves inverse references alone.
Follows(r) == ~r.inverse

SkipReference ==
    /\ Visiting
    /\ ~Follows(Ref) \/ (connection = "open" /\ ClassOfRef \notin Mirrored)
    /\ stack' = Advanced
    /\ UNCHANGED <<agent, connection, client, status, index, found, made>>

Visits(class) ==
    /\ Visiting
    /\ connection = "open"
    /\ Follows(Ref)
    /\ ClassOfRef = class

\* The result of reading the node class is not looked at: on a lost
\* connection the class is what the stack held before.  Any of the three
\* classes leads on to names that are not initialised either.
VisitUnread ==
    /\ Visiting
    /\ connection = "lost"
    /\ Follows(Ref)
    /\ \/ stack' = Advanced /\ UNCHANGED status
       \/ status' = "undefined" /\ UNCHANGED stack
    /\ UNCHANGED <<agent, connection, client, index, found, made>>

\* The connection is lost between the node class and the names.
VisitCut ==
    /\ Visiting
    /\ connection = "open"
    /\ Follows(Ref)
    /\ ClassOfRef \in Mirrored
    /\ connection' = "lost"
    /\ status' = "undefined"
    /\ UNCHANGED <<agent, client, walk, made>>

\* clientgetObjectType and the lookup of its name in the registry; an object
\* without a type that is known gets no type.
TypeOf(n, arrayRead) ==
    LET isType(r) == ~r.inverse /\ r.type = "HasTypeDefinition"
        last == SelectLastInSeq(agent.refs[n], isType)
        name == IF last = 0 THEN NoName
                ELSE Translated(agent.name[agent.refs[n][last].to], arrayRead)
    IN  ObjectTypeNamed(LocalObjectTypes, name)

\* Mutant: the nested handle keeps the parent of the object.
FlatHandle(local, stays) ==
    [Handle(Ref.to, local, Top.currentMappingIndex, stays)
        EXCEPT !.parent = Top.parent]

\* Mutant: the nested handle keeps the object the methods are called on.
OuterObjectHandle(local, stays) ==
    [Handle(Ref.to, local, Top.currentMappingIndex, stays)
        EXCEPT !.remoteParentObject = Top.remoteParentObject]

\* Mutant: the mapping index of the nested handle is left at zero.
FirstMappingHandle(local, stays) == Handle(Ref.to, local, 1, stays)

RecursiveHandle(local, stays) ==
    Handle(Ref.to, local, Top.currentMappingIndex, stays)

\* An object keeps the agent's namespace index in its browse name; what hangs
\* below it is copied under its mirror, even if the server refused to make one.
\* The connection may be lost before the type is known or the children are
\* browsed.
VisitObject ==
    /\ Visits("object")
    /\ Len(stack) < StackDepth
    /\ \E stays, taken \in BOOLEAN,
          type \in {TypeOf(Ref.to, TRUE), TypeOf(Ref.to, FALSE), NoNode} :
           /\ stays => type = TypeOf(Ref.to, TRUE)
           /\ connection' = IF stays THEN "open" ELSE "lost"
           /\ mirror' = Append(mirror,
                        [Node("object", Ref.to, Top.parent, Top.currentMappingIndex, taken)
                            EXCEPT !.type = type])
           /\ stack' = <<RecursiveHandle(Len(mirror) + 1, stays)>> \o Advanced
    /\ UNCHANGED <<agent, client, status, index, found, subscriptionNodes, items>>

\* References that lead back to where they came from never end the recursion.
VisitTooDeep ==
    /\ Visits("object")
    /\ Len(stack) = StackDepth
    /\ status' = "undefined"
    /\ UNCHANGED <<agent, connection, client, walk, made>>

VisitMethod ==
    /\ Visits("method")
    /\ \E taken \in BOOLEAN :
           mirror' = Append(mirror,
                        [Node("method", Ref.to, Top.parent, Top.currentMappingIndex, taken)
                            EXCEPT !.callback = "call", !.object = Top.remoteParentObject])
    /\ stack' = Advanced
    /\ UNCHANGED <<agent, connection, client, status, index, found,
                   subscriptionNodes, items>>

\* How the value of a variable is kept: by a monitored item or a callback.
ModeOf(handle) == Mappings[handle.currentMappingIndex].mode

\* What arrives of a value, if the value and the array with its type's
\* namespace could be read.
ValueOf(n, valueRead, typeRead) ==
    IF valueRead
    THEN write_variable_value(LocalDataTypes, LocalStructures,
                              Translated(agent.dataType[n], typeRead))
    ELSE {"missing"}

\* What is done with the id of the variable is done with the id of one that
\* the server refused: its value is refused as well, but it is listed.
CopyVariable(name, written, taken) ==
    IF written = "undefined"
    THEN status' = "undefined" /\ UNCHANGED <<stack, mirror, subscriptionNodes>>
    ELSE /\ mirror' = Append(mirror,
                [Node("variable", Ref.to, Top.parent, Top.currentMappingIndex, taken)
                    EXCEPT !.name = name,
                           !.value = IF taken /\ InRegistry(Top.parent) THEN written
                                     ELSE "refused",
                           !.callback = IF ModeOf(Top) = "subscription" THEN "none"
                                        ELSE ModeOf(Top)])
         /\ subscriptionNodes' = IF ModeOf(Top) = "subscription"
                                 THEN <<Len(mirror) + 1>> \o subscriptionNodes
                                 ELSE subscriptionNodes
         /\ stack' = Advanced
         /\ UNCHANGED status

\* A variable with its value.  If the connection is lost after its names were
\* read, its value and the namespace arrays may not have been.
VisitVariable ==
    /\ Visits("variable")
    /\ \E stays, valueRead, typeRead, nameRead, taken \in BOOLEAN :
        /\ (stays => nameRead) /\ (nameRead => typeRead) /\ (typeRead => valueRead)
        /\ connection' = IF stays THEN "open" ELSE "lost"
        /\ \E written \in ValueOf(Ref.to, valueRead, typeRead) :
               CopyVariable(Translated(agent.name[Ref.to], nameRead), written, taken)
    /\ UNCHANGED <<agent, client, index, found, items>>

\* Mutant: the walk returns and the loop over the mappings does not notice.
ReturnOnly ==
    /\ status = "walk"
    /\ Top.rest = <<>>
    /\ stack' = Tail(stack)
    /\ UNCHANGED <<agent, connection, client, status, index, found, made>>

\* The references of a node are exhausted: nodeIter returns to its caller, or
\* the walk to the loop over the mappings.
Return ==
    /\ status = "walk"
    /\ Top.rest = <<>>
    /\ stack' = Tail(stack)
    /\ IF Len(stack) > 1
       THEN UNCHANGED <<status, index, found>>
       ELSE status' = "resolve" /\ index' = index + 1 /\ found' = <<>>
    /\ UNCHANGED <<agent, connection, client, made>>

-----------------------------------------------------------------------------
(* The end of the registration and the first steps of the thread.          *)

Finish ==
    /\ status = "resolve"
    /\ index > Len(Mappings)
    /\ client' = TRUE
    /\ status' = "thread"
    /\ UNCHANGED <<agent, connection, walk, made>>

\* One monitored item for every list entry, created once; a failure is
\* printed.  A thread without a client passes NULL to the stack.
StartThread ==
    /\ status = "thread"
    /\ status' = IF client THEN "ready" ELSE "undefined"
    /\ items' = IF client /\ connection = "open" THEN subscriptionNodes ELSE <<>>
    /\ UNCHANGED <<agent, connection, client, walk, mirror, subscriptionNodes>>

Terminated ==
    /\ status \in {"ready", "undefined"}
    /\ UNCHANGED vars

-----------------------------------------------------------------------------
NodeIter ==
    \/ SkipReference \/ VisitUnread \/ VisitCut
    \/ VisitObject \/ VisitTooDeep \/ VisitMethod \/ VisitVariable
    \/ Return

Registration ==
    \/ Connect \/ SearchName \/ NameNotFound \/ ResolveEntry
    \/ EntryNotFound \/ EntryCut \/ NodeIter \/ Finish \/ StartThread

Next == Registration \/ LoseConnection \/ Terminated

\* Every service of the stack returns, if only by its timeout.
Spec == Init /\ [][Next]_vars /\ WF_vars(Registration)

-----------------------------------------------------------------------------
(* Properties.                                                             *)

MirrorNode ==
    [class : Mirrored \cup {"entry"}, remote : agent.nodes,
     parent : Nat, mapping : 1 .. Len(Mappings), added : BOOLEAN, name : [ns : Nat, text : STRING],
     type : LocalObjectTypes \cup {NoNode},
     value : {"none", "copied", "missing", "scrambled", "refused"},
     callback : Modes \cup {"none", "call"}, object : agent.nodes \cup {NoNode}]

Activation ==
    [remoteParentObject : agent.nodes, parent : DOMAIN mirror,
     currentMappingIndex : 1 .. Len(Mappings), rest : Seq(Reference(agent))]

\* Every variable has its type, and an activation works on an object that has
\* a mirror and on references the agent has.
TypeOK ==
    /\ agent \in Agents
    /\ connection \in {"none", "open", "lost"}
    /\ client \in BOOLEAN
    /\ status \in {"connect", "resolve", "walk", "thread", "ready", "undefined"}
    /\ index \in 1 .. Len(Mappings) + 1
    /\ found \in Seq(agent.nodes)
    /\ mirror \in Seq(MirrorNode)
    /\ stack \in Seq(Activation)
    /\ Len(stack) <= StackDepth
    /\ status = "walk" => stack # <<>>
    /\ subscriptionNodes \in Seq(DOMAIN mirror)
    /\ items \in Seq(DOMAIN mirror)

\* Whatever happens to the connection and whatever the server refuses, the
\* mirror is an image of the agent: a mirror node hangs under the mirror of a
\* node that references its original, made before it and for the same mapping,
\* and exists only if that one does (node_iterator.c 102-127: the handle of
\* every recursion).
MirrorWithinImage ==
    \A i \in DOMAIN mirror : mirror[i].class # "entry" =>
        /\ mirror[i].parent \in 1 .. i - 1
        /\ mirror[mirror[i].parent].class \in {"entry", "object"}
        /\ mirror[mirror[i].parent].mapping = mirror[i].mapping
        /\ HasChild(agent, mirror[mirror[i].parent].remote, mirror[i].remote)
        /\ mirror[i].added => mirror[mirror[i].parent].added

\* A method of the mirror is called at the agent on an object that has it:
\* the original of the object its mirror hangs under (node_iterator.c 125,
\* 174-179, synchronization.c 111-114).
CalledOnItsObject ==
    \A i \in DOMAIN mirror : mirror[i].class = "method" =>
        mirror[i].object = mirror[mirror[i].parent].remote

\* The nodes that the names of a path lead to.
OnPath(a, path) ==
    LET reached[k \in 0 .. Len(path)] ==
            IF k = 0 THEN {a.root}
            ELSE {n \in a.nodes : /\ a.name[n].text = path[k]
                                  /\ \E m \in reached[k - 1] : HasChild(a, m, n)}
    IN  reached[Len(path)]

\* However the searches by name go astray, what is mirrored for a mapping is
\* a node on its path (internal.c 62-107).
EntryOnPath ==
    \A i \in DOMAIN mirror : mirror[i].class = "entry" =>
        mirror[i].remote \in OnPath(agent, Mappings[mirror[i].mapping].path)

\* The elements of s at the positions in I, up to position n.
Picked(s, I, n) ==
    LET upTo[k \in 0 .. n] ==
            IF k = 0 THEN <<>>
            ELSE IF k \in I THEN Append(upTo[k - 1], s[k]) ELSE upTo[k - 1]
    IN  upTo[n]

\* The originals of the mirror nodes under i, and the nodes nodeIter has to
\* copy below its original, both in the order of the references.
Originals == [k \in DOMAIN mirror |-> mirror[k].remote]

Below(i) == {k \in DOMAIN mirror : mirror[k].class # "entry" /\ mirror[k].parent = i}

MirroredBelow(i) == Picked(Originals, Below(i), Len(mirror))

Targets(n) == [k \in DOMAIN agent.refs[n] |-> agent.refs[n][k].to]

ToCopy(n) ==
    {k \in DOMAIN agent.refs[n] :
        ~agent.refs[n][k].inverse /\ agent.class[agent.refs[n][k].to] \in Mirrored}

ToMirror(n) == Picked(Targets(n), ToCopy(n), Len(agent.refs[n]))

LocalUri(q) == LocalUris[q.ns + 1]
RemoteUri(q) == agent.uris[q.ns + 1]
KnownUri(q) == \E i \in DOMAIN LocalUris : LocalUris[i] = RemoteUri(q)

\* The registry knows the agent's data type q: it has its namespace, and the
\* type in it, which is no structure.
KnownType(q) ==
    /\ KnownUri(q)
    /\ \A i \in DOMAIN LocalUris : LocalUris[i] = RemoteUri(q) =>
           LET type == [ns |-> i - 1, text |-> q.text]
           IN  /\ type \in LocalDataTypes \ LocalStructures
               /\ type # [ns |-> 0, text |-> "Structure"]

\* A registration that kept its connection has handed every mapping and every
\* reference to the server exactly once and in order, shared nodes once for
\* every way that leads to them, and the values of the types the registry
\* knows unchanged.  What the registry lacks afterwards is what its server
\* refused, and what hangs below that (node_iterator.c 51-250,
\* namespace_solver.c 94-142).
HandedOverOnce ==
    status \in {"thread", "ready"} /\ connection = "open" =>
        /\ \A k \in DOMAIN Mappings :
               \E i \in DOMAIN mirror : mirror[i].class = "entry" /\ mirror[i].mapping = k
        /\ \A i \in DOMAIN mirror : mirror[i].class \in {"entry", "object"} =>
               MirroredBelow(i) = ToMirror(mirror[i].remote)
        /\ \A i \in DOMAIN mirror :
               mirror[i].class = "variable" /\ KnownType(agent.dataType[mirror[i].remote])
               => mirror[i].value \in {"copied", "refused"}

\* The entry the mirror node i was made below.
EntryOf(i) ==
    LET up[k \in 1 .. i] == IF mirror[k].class = "entry" THEN k ELSE up[mirror[k].parent]
    IN  up[i]

\* A variable is kept up to date in the mode of the mapping whose entry it is
\* below, once: it is in the list of subscriptions or has callbacks, never
\* both or neither, whether the server took it or not.  The thread monitors nothing else, and all of it if the
\* connection held (node_iterator.c 119-125, 222-248, client_interface.c
\* 43-69).
KeptInItsMode ==
    /\ \A i \in DOMAIN mirror : mirror[i].class = "variable" =>
           LET mode == Mappings[mirror[EntryOf(i)].mapping].mode
               listed == {k \in DOMAIN subscriptionNodes : subscriptionNodes[k] = i}
           IN  /\ Cardinality(listed) = IF mode = "subscription" THEN 1 ELSE 0
               /\ mirror[i].callback = IF mode = "subscription" THEN "none" ELSE mode
    /\ \A k \in DOMAIN subscriptionNodes :
           mirror[subscriptionNodes[k]].class = "variable"
    /\ items = subscriptionNodes \/ items = <<>>
    /\ status = "ready" /\ connection = "open" => items = subscriptionNodes

MeansTheSame(m) ==
    /\ m.class = "variable" /\ KnownUri(agent.name[m.remote]) =>
           LocalUri(m.name) = RemoteUri(agent.name[m.remote])
    /\ m.type # NoNode =>
           \E k \in DOMAIN agent.refs[m.remote] :
               LET q == agent.name[agent.refs[m.remote][k].to]
               IN  /\ q.text = m.type.text
                   /\ KnownUri(q) => LocalUri(m.type) = RemoteUri(q)

\* While the connection holds, the name of a mirrored variable and the type of
\* a mirrored object mean at the registry what they mean at the agent, if
\* the registry knows the namespace at all (namespace_solver.c 94-142).
NamesMeanTheSame ==
    connection = "open" => \A i \in DOMAIN mirror : MeansTheSame(mirror[i])

-----------------------------------------------------------------------------
(* Agents whose registration must succeed.                                 *)

\* What is left of the agent's nodes when those without a child among the
\* rest are taken away again and again.
Circles(a) ==
    FoldLeft(LAMBDA set, i : {m \in set : \E k \in set : HasChild(a, m, k)},
             a.nodes, [i \in 1 .. Cardinality(a.nodes) |-> i])

\* No references lead in a circle, the names of a path are unique and lead
\* somewhere, and no value is a structure.
Sound(a) ==
    /\ Circles(a) = {}
    /\ \A n \in a.nodes :
           a.dataType[n].text \notin {"Structure"} \cup {t.text : t \in LocalStructures}
    /\ \A j \in DOMAIN Mappings :
           /\ OnPath(a, Mappings[j].path) # {}
           /\ \A k \in DOMAIN Mappings[j].path :
                  Cardinality({n \in a.nodes : a.name[n].text = Mappings[j].path[k]}) = 1

SoundAgents == {a \in Agents : Sound(a)}

\* The registration of a sound agent whose connection holds ends with a
\* running thread, however its nodes are shared and refer back.
RegistrationEnds ==
    <>(status = "ready" \/ connection = "lost" \/ agent \notin SoundAgents)
=============================================================================

---------------------------- MODULE MCNodeMirror ----------------------------
(* Small address spaces for NodeMirror: the entry nodes of add_agent_server *)
(* with a few nodes below them.                                            *)
EXTENDS NodeMirror, TLC

Variables == {"v1", "v2", "v3", "v4"}
Methods == {"call"}
Types == {"AssetType", "FolderType"}

\* Two nodes have a name that another node has as well.
TextOf(n) == CASE n = "Queue2" -> "Queue"
               [] n = "ServiceQueue2" -> "ServiceQueue"
               [] OTHER -> n

\* An address space from its forward references, in the order of a browse,
\* the types of its objects, the nodes outside namespace 1 and the variables
\* whose type is not a standard one.  References back to the parent come first.
Agent(edges, typed, foreign, odd) ==
    LET links(s, Test(_), Make(_)) ==
            LET picked == SelectSeq(s, Test)
            IN  [i \in DOMAIN picked |-> Make(picked[i])]
        nodes == {e[1] : e \in ToSet(edges)} \cup {e[2] : e \in ToSet(edges \o typed)}
    IN  [nodes |-> nodes,
         root |-> "Root",
         class |-> [n \in nodes |-> IF n \in Variables THEN "variable"
                                    ELSE IF n \in Methods THEN "method"
                                    ELSE IF n \in Types THEN "objecttype"
                                    ELSE "object"],
         name |-> [n \in nodes |-> [ns |-> IF n \in DOMAIN foreign THEN foreign[n]
                                           ELSE IF n \in {"Root", "Objects"} THEN 0 ELSE 1,
                                    text |-> TextOf(n)]],
         refs |-> [n \in nodes |->
             links(edges, LAMBDA e : e[2] = n,
                   LAMBDA e : [to |-> e[1], type |-> "HasComponent", inverse |-> TRUE])
             \o links(typed, LAMBDA e : e[1] = n,
                   LAMBDA e : [to |-> e[2], type |-> "HasTypeDefinition", inverse |-> FALSE])
             \o links(edges, LAMBDA e : e[1] = n,
                   LAMBDA e : [to |-> e[2], type |-> "HasComponent", inverse |-> FALSE])],
         dataType |-> [n \in nodes |-> IF n \in DOMAIN odd THEN odd[n]
                                       ELSE [ns |-> 0, text |-> "Double"]],
         uris |-> <<"opcua", "vendor", "common", "asset">>]

Spine == << <<"Root", "Objects">>, <<"Objects", "Module">>,
            <<"Module", "Capabilities">>, <<"Module", "Queue">>,
            <<"Queue", "ServiceQueue">>, <<"Module", "State">> >>

NothingOdd == [n \in {} |-> 0]

\* Objects below objects, a variable two of them share, a method, types.
Nested == Agent(Spine \o << <<"Capabilities", "Part">>, <<"Part", "v1">>,
                            <<"Capabilities", "Tool">>, <<"Tool", "v1">>,
                            <<"Tool", "call">>, <<"ServiceQueue", "Slot">>,
                            <<"Slot", "v2">>, <<"Slot", "v3">>, <<"State", "v4">> >>,
                << <<"Part", "AssetType">>, <<"Tool", "FolderType">> >>,
                [n \in {"v1", "AssetType"} |-> 2], NothingOdd)

\* Values of a type the registry does not know, of the abstract one, and of a
\* structure both know.
Typed == Agent(Spine \o << <<"Capabilities", "v1">>, <<"ServiceQueue", "v2">>,
                           <<"State", "v3">>, <<"State", "v4">> >>,
               << >>, [n \in {"v1"} |-> 3],
               [n \in {"v1"} |-> [ns |-> 3, text |-> "Recipe"]]
                   @@ [n \in {"v2"} |-> [ns |-> 0, text |-> "Structure"]]
                   @@ [n \in {"v3"} |-> [ns |-> 2, text |-> "Enum"]]
                   @@ [n \in {"v4"} |-> [ns |-> 2, text |-> "Pose"]])

\* Without one of the entry nodes.
Incomplete == Agent(SubSeq(Spine, 1, 5), << >>, NothingOdd, NothingOdd)

\* A later node has the name of one on a path, in its namespace or another.
Misleading(ns) == Agent(Spine \o << <<"State", "Queue2">>, <<"Queue2", "ServiceQueue2">>,
                                    <<"ServiceQueue2", "v1">>, <<"ServiceQueue", "v2">> >>,
                        << >>, [n \in {"Queue2"} |-> ns], NothingOdd)

\* Two objects that reference each other.
Circular == Agent(Spine \o << <<"Capabilities", "Part">>, <<"Part", "Tool">>,
                              <<"Tool", "Part">> >>, << >>, NothingOdd, NothingOdd)

AllAgents == {Nested, Typed, Incomplete, Misleading(1), Misleading(3), Circular}

EntryMappings ==
    << [path |-> <<"Objects", "Module", "Capabilities">>, mode |-> "subscription"],
       [path |-> <<"Objects", "Module", "Queue", "ServiceQueue">>,
        mode |-> "on-demand-read-write"],
       [path |-> <<"Objects", "Module", "State">>, mode |-> "on-demand-read"] >>

RegistryUris == <<"opcua", "registry", "model", "common">>
RegistryObjectTypes == {[ns |-> 0, text |-> "FolderType"], [ns |-> 3, text |-> "AssetType"]}
RegistryDataTypes == {[ns |-> 0, text |-> "Double"], [ns |-> 0, text |-> "Structure"],
                      [ns |-> 3, text |-> "Enum"], [ns |-> 3, text |-> "Pose"]}
RegistryStructures == {[ns |-> 3, text |-> "Pose"]}
=============================================================================

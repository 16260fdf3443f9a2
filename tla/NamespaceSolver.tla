-------------------------- MODULE NamespaceSolver ---------------------------
(***************************************************************************)
(* How names of an agent's server become names of the registry:            *)
(* registry_module_namespace_solver.c as operators.  A namespace array is a *)
(* sequence of uris; namespace index i of the code is element i + 1.  A    *)
(* graph of nodes is a function from a node to the sequence of references a *)
(* browse of it returns.                                                   *)
(***************************************************************************)
EXTENDS Integers, Sequences, SequencesExt

CONSTANTS
    NoNode,      \* the null node id
    Overflow,    \* what a recursion ends in that finds no end on the stack
    NullString,  \* an initialised UA_String
    Garbage      \* what a read past the end of an array returns

\* check_source_server_namespace_array: the index is not compared with the
\* length; an array that cannot be read leaves the string empty.
SourceNamespace(uris, idx) ==
    IF uris = <<>> THEN NullString
    ELSE IF idx < Len(uris) THEN uris[idx + 1] ELSE Garbage

\* check_aggregation_server_namespace_array: the last match is written to
\* the result, no match leaves it as it was.
AggregationNamespace(uris, uri, before) ==
    LET last == SelectLastInSeq(uris, LAMBDA u : u = uri)
    IN  IF last = 0 THEN before ELSE last - 1

\* Mutant: the agent's index is taken for the registry's.
KeepIndex(remoteUris, localUris, idx) == idx

map_namespace_idx(remoteUris, localUris, idx) ==
    AggregationNamespace(localUris, SourceNamespace(remoteUris, idx), 0)

\* The searches by name walk the forward references depth first.  A match is
\* not descended into and does not end the search: the last one wins.  More
\* than `depth' calls on the stack end the process.
LastMatch(refs, Follows(_), Matches(_), start, depth) ==
    LET hits[d \in 0 .. depth] ==
            [n \in DOMAIN refs |->
                FlattenSeq([i \in DOMAIN refs[n] |->
                    LET r == refs[n][i]
                    IN  IF ~Follows(r) THEN <<>>
                        ELSE IF Matches(r.to) THEN <<r.to>>
                        ELSE IF d = 0 THEN <<Overflow>>
                        ELSE hits[d - 1][r.to]])]
        all == hits[depth][start]
    IN  IF Overflow \in ToSet(all) THEN Overflow
        ELSE IF all = <<>> THEN NoNode
        ELSE Last(all)

\* References that get_namespace_idx_from_config_node and
\* get_ObjectType_NodeId follow.
IsChild(r) == ~r.inverse /\ r.type \notin {"HasTypeDefinition", "HasModellingRule"}

\* get_namespace_idx_from_config_node compares the text of a name only.
NamedBelow(a, start, text, depth) ==
    LastMatch(a.refs, IsChild, LAMBDA n : a.name[n].text = text, start, depth)

\* get_ObjectType_NodeId compares the qualified name, which a server gives
\* to one type only: its search is a lookup.
ObjectTypeNamed(types, name) == IF name \in types THEN name ELSE NoNode

\* write_variable_value, for a value that gets the type UA_Server_findDataType
\* looked up.  Without a type the variant is empty and refused.  Of an extension
\* object the body is decoded as another extension object, and the array of
\* them that create_new_extension_object_array fills is not the one that is
\* written: what arrives is not the value, if anything arrives.  A structure of
\* the model may arrive as an extension object too, where the client did not
\* find its encoding; nodeIter gives that the structure's type all the same.
\* The status of writeValue is dropped: the server may refuse any value.
write_variable_value(types, structures, dataType) ==
    IF dataType \notin types THEN {"missing"}
    ELSE IF dataType = [ns |-> 0, text |-> "Structure"] THEN {"scrambled", "undefined"}
    ELSE IF dataType \in structures THEN {"copied", "refused", "scrambled", "undefined"}
    ELSE {"copied", "refused"}
=============================================================================

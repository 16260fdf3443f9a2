-------------------------- MODULE CapabilityFilter --------------------------
(***************************************************************************)
(* filter_agents: which agents of a service can make a product, decided    *)
(* from the mirrored capability nodes.  The agents come and go and their   *)
(* mirrored values change between the calls; a call runs to completion in  *)
(* the main thread.                                                        *)
(***************************************************************************)
EXTENDS Integers, Sequences, SequencesExt

CONSTANTS
    Layouts,       \* the capability lists agents have: name, type, operator
    Numbers,       \* values of numeric capabilities
    Strings,       \* values of string capabilities
    Wishes,        \* values clients ask for; the method takes strings
    Atof,          \* libc's atof on the wishes
    QueryNames,    \* capability names clients send
    Forms,         \* whether names and wishes are sent as arrays
    StringReads,   \* which unterminated string of a request is read too far
    Empty,         \* what a mirrored node holds until the server takes a value
    MaxAgents      \* bound: agents of the service

\* UA_operator_enum

OperatorOf == [Equal |-> 0, Greater |-> 1, Smaller |-> 2, GreaterOrEqual |-> 3,
               SmallerOrEqual |-> 4, IsTrue |-> 5, IsFalse |-> 6,
               EqualString |-> 7]

ValuesOf(type) == CASE type = "number"  -> Numbers
                    [] type = "boolean" -> BOOLEAN
                    [] type = "string"  -> Strings

ASSUME WishAssumption ==
    /\ Atof \in [Wishes -> Int]
    /\ Forms \subseteq {"array", "scalar"}
    /\ StringReads \subseteq {"exact", "service", "wish"}

ASSUME LayoutAssumption ==
    \A l \in Layouts :
        /\ l \in Seq([name : STRING, type : {"number", "boolean", "string"}, oper : 0 .. 7])
        /\ \A k \in DOMAIN l :
               \/ l[k].type = "number" /\ l[k].oper \in 0 .. 4
               \/ l[k].type = "boolean" /\ l[k].oper \in 5 .. 6
               \/ l[k].type = "string" /\ l[k].oper = 7

ASSUME ValueAssumption ==
    /\ Numbers \subseteq Int /\ Numbers # {}
    /\ Strings # {}
    /\ QueryNames \subseteq Seq(STRING)
    /\ MaxAgents \in Nat

VARIABLES
    agents,   \* the agents under the service node, in browse order: their layout
    values,   \* and the mirrored values, at the same positions
    query,    \* the last call, if it was answered: names and wishes
    status,   \* how it ended
    answer    \* the positions of the agents it returned

vars == <<agents, values, query, status, answer>>

NoQuery == [form |-> "array", read |-> "exact", names |-> <<>>, wishes |-> <<>>]
None == "None"

-----------------------------------------------------------------------------
(* The matching functions, at the index of their operator.                 *)

number_equal(resource, product) == resource = product
number_greater(resource, product) == resource < product
number_smaller(resource, product) == resource > product
number_greater_or_equal(resource, product) == resource <= product
number_smaller_or_equal(resource, product) == resource >= product
Is_true(resource, product) == resource /\ product
Is_false(resource, product) == ~resource /\ ~product
string_matching(resource, product) == resource = product

matching_functions(oper, resource, product) ==
    CASE oper = 0 -> number_equal(resource, product)
      [] oper = 1 -> number_greater(resource, product)
      [] oper = 2 -> number_smaller(resource, product)
      [] oper = 3 -> number_greater_or_equal(resource, product)
      [] oper = 4 -> number_smaller_or_equal(resource, product)
      [] oper = 5 -> Is_true(resource, product)
      [] oper = 6 -> Is_false(resource, product)
      [] oper = 7 -> string_matching(resource, product)

\* The wish is converted by the type of the capability it is compared with.
ProductValue(type, wish) ==
    CASE type = "number"  -> Atof[wish]
      [] type = "boolean" -> wish \in {"true", "True"}
      [] type = "string"  -> wish

ItemMatches(i, k, wish) ==
    matching_functions(agents[i][k].oper, values[i][k],
                       ProductValue(agents[i][k].type, wish))

-----------------------------------------------------------------------------
(* The call.                                                               *)

\* arrayLength of an argument is 0 when a client sends a scalar.
ArrayLength(form, a) == IF form = "scalar" THEN 0 ELSE Len(a)

\* Mutant: the item names are those of the last agent read.
LastItems(name) ==
    {k \in DOMAIN agents[Len(agents)] : agents[Len(agents)][k].name = name}

\* The loop over the capability items takes their number and their names from
\* the FIRST agent, and type, value and operator from agent i.
FirstItems(name) == {k \in DOMAIN agents[1] : agents[1][k].name = name}

\* Name j and item k that are compared, and those among them whose outcome is
\* open: the item lies past the end of agent i's array, or atof runs past
\* the unterminated wish into other digits.
Compared(q) == {p \in (1 .. ArrayLength(q.form, q.names)) \X (DOMAIN agents[1]) :
                    p[2] \in FirstItems(q.names[p[1]])}

Open(i, q) == {p \in Compared(q) :
                   \/ p[2] \notin DOMAIN agents[i]
                   \/ q.read = "wish" /\ agents[i][p[2]].type = "number"}

Verdicts(i, q) ==
    IF \E p \in Compared(q) \ Open(i, q) : ~ItemMatches(i, p[2], q.wishes[p[1]])
    THEN {FALSE}
    ELSE IF Open(i, q) = {} THEN {TRUE} ELSE BOOLEAN

\* A service name with other bytes behind it finds no service, so no agent.
Searched(q) == IF q.read = "service" THEN {} ELSE DOMAIN agents

Results(q) ==
    {found \in SUBSET Searched(q) :
        \A i \in Searched(q) : (i \in found) \in Verdicts(i, q)}

\* Every capability item of every agent is read before the first is compared:
\* its name, and type, value and operator from the structure its value points
\* to.  Nothing is behind an empty value.  Beside "Status" an agent has one
\* component, so the list of its items is started once.
Unreadable(i) == \E k \in DOMAIN agents[i] : values[i][k] = Empty

\* Arrays of unequal length are refused.  Of two empty arrays the first
\* element is read all the same.  The name "None" asks for all agents.
FilterAgents(q) ==
    /\ status # "undefined"
    /\ \/ /\ ArrayLength(q.form, q.names) # ArrayLength(q.form, q.wishes)
          /\ status' = "bad"
          /\ answer' = {}
       \/ /\ q.names = <<>> /\ q.wishes = <<>>
          /\ status' = "undefined"
          /\ answer' = {}
       \/ /\ ArrayLength(q.form, q.names) = ArrayLength(q.form, q.wishes)
          /\ q.names # <<>> /\ q.names[1] = None
          /\ status' = "good"
          /\ answer' = Searched(q)
       \/ /\ ArrayLength(q.form, q.names) = ArrayLength(q.form, q.wishes)
          /\ q.names # <<>> /\ q.names[1] # None
          /\ IF \E i \in Searched(q) : Unreadable(i)
             THEN status' = "undefined" /\ answer' = {}
             ELSE status' = "good" /\ answer' \in Results(q)
    /\ query' = IF status' = "good" THEN q ELSE NoQuery
    /\ UNCHANGED <<agents, values>>

-----------------------------------------------------------------------------
(* What happens to the capability nodes between the calls.                 *)

Init ==
    /\ agents = <<>>
    /\ values = <<>>
    /\ query = NoQuery
    /\ status = "none"
    /\ answer = {}

ForgetCall ==
    /\ status # "undefined"
    /\ query' = NoQuery
    /\ status' = "none"
    /\ answer' = {}

\* Registering an agent mirrors its capabilities.  The status of writing their
\* values is dropped: a node has some value of its type, SyncValue reaches the
\* others, or none yet.
MirrorAgent(l) ==
    /\ Len(agents) < MaxAgents
    /\ agents' = Append(agents, l)
    /\ \E refused \in SUBSET DOMAIN l :
           values' = Append(values,
               [k \in DOMAIN l |-> IF k \in refused THEN Empty
                                   ELSE CHOOSE v \in ValuesOf(l[k].type) : TRUE])
    /\ ForgetCall

\* Mutant: the values of a deleted agent stay.
DeleteAgentOnly(i) ==
    /\ agents' = RemoveAt(agents, i)
    /\ values' = values
    /\ ForgetCall

DeleteAgent(i) ==
    /\ agents' = RemoveAt(agents, i)
    /\ values' = RemoveAt(values, i)
    /\ ForgetCall

\* syncRegisteredAgents writes a value the agent reported.
SyncValue(i, k) ==
    /\ \E v \in ValuesOf(agents[i][k].type) : values' = [values EXCEPT ![i][k] = v]
    /\ UNCHANGED agents
    /\ ForgetCall

WishLists == UNION {[1 .. n -> Wishes] : n \in {Len(names) : names \in QueryNames}}

\* Scalars are one name and one wish.
Queries ==
    {q \in [form : Forms, read : StringReads, names : QueryNames, wishes : WishLists] :
        q.form = "scalar" => Len(q.names) = 1 /\ Len(q.wishes) = 1}

Crashed ==
    /\ status = "undefined"
    /\ UNCHANGED vars

Next ==
    \/ \E l \in Layouts : MirrorAgent(l)
    \/ \E i \in DOMAIN agents : DeleteAgent(i)
    \/ \E i \in DOMAIN agents : \E k \in DOMAIN agents[i] : SyncValue(i, k)
    \/ \E q \in Queries : FilterAgents(q)
    \/ Crashed

Spec == Init /\ [][Next]_vars

-----------------------------------------------------------------------------
(* Properties.                                                             *)

\* Every variable has its type; values and capabilities stay aligned.
TypeOK ==
    /\ agents \in Seq(Layouts)
    /\ DOMAIN values = DOMAIN agents
    /\ \A i \in DOMAIN agents :
           /\ DOMAIN values[i] = DOMAIN agents[i]
           /\ \A k \in DOMAIN agents[i] :
                  values[i][k] \in ValuesOf(agents[i][k].type) \cup {Empty}
    /\ status \in {"none", "good", "bad", "undefined"}
    /\ answer \in SUBSET (1 .. MaxAgents)

\* What a capability asks of a product, operator by operator.
Meets(oper, offer, wish) ==
    \/ oper = OperatorOf.Equal /\ Atof[wish] = offer
    \/ oper = OperatorOf.Greater /\ Atof[wish] > offer
    \/ oper = OperatorOf.Smaller /\ Atof[wish] < offer
    \/ oper = OperatorOf.GreaterOrEqual /\ Atof[wish] >= offer
    \/ oper = OperatorOf.SmallerOrEqual /\ Atof[wish] <= offer
    \/ oper = OperatorOf.IsTrue /\ offer /\ wish \in {"true", "True"}
    \/ oper = OperatorOf.IsFalse /\ ~offer /\ wish \notin {"true", "True"}
    \/ oper = OperatorOf.EqualString /\ wish = offer

\* Every capability of agent i that the query names is met.
CanMake(i, q) ==
    \A j \in DOMAIN q.names : \A k \in DOMAIN agents[i] :
        agents[i][k].name = q.names[j] => Meets(agents[i][k].oper, values[i][k], q.wishes[j])

\* A call about names and wishes that arrive as they were sent.
Answered ==
    /\ status = "good"
    /\ query.form = "array"
    /\ query.read = "exact"
    /\ query.names[1] # None

\* A call returns exactly the agents all of whose named capabilities are met
\* ("the BrowseName of the capabilities that should be matched", init.c:42):
\* the positional walk of filter_agents agrees with matching by name
\* (callback_functions.c 442-498).  It takes strings read as they were sent and
\* "arguments provided as arrays" (filter.rst:142); the name "None" means every
\* agent.
AnswerIsExact == Answered => answer = {i \in DOMAIN agents : CanMake(i, query)}

SameNames(l, m) == DOMAIN l = DOMAIN m /\ \A k \in DOMAIN l : l[k].name = m[k].name

\* Where agents list their capabilities in different ways, the ones that list
\* them like the first agent are answered exactly all the same, with their own
\* values and operators and whatever the other agents have
\* (callback_functions.c 451-498).
AlikeAnsweredExactly ==
    Answered =>
        \A i \in DOMAIN agents :
            SameNames(agents[1], agents[i]) => (i \in answer <=> CanMake(i, query))
=============================================================================

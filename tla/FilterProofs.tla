---------------------------- MODULE FilterProofs ----------------------------
(***************************************************************************)
(* What filter_agents answers, for any agents, values and calls.           *)
(***************************************************************************)
EXTENDS CapabilityFilter, SequenceTheorems, TLAPS

-----------------------------------------------------------------------------
(* Removal from a sequence.                                                *)

\* RemoveAt closes the gap.
LEMMA RemoveAtProperties ==
    ASSUME NEW S, NEW s \in Seq(S), NEW i \in 1 .. Len(s)
    PROVE  /\ RemoveAt(s, i) \in Seq(S)
           /\ Len(RemoveAt(s, i)) = Len(s) - 1
           /\ \A k \in 1 .. Len(s) - 1 :
                  RemoveAt(s, i)[k] = IF k < i THEN s[k] ELSE s[k + 1]
<1> DEFINE front == SubSeq(s, 1, i - 1)
           back == SubSeq(s, i + 1, Len(s))
<1>1. Len(s) \in Nat /\ \A k \in 1 .. Len(s) : s[k] \in S
  BY LenProperties, ElementOfSeq
<1>2. /\ front \in Seq(S) /\ Len(front) = i - 1
      /\ \A k \in 1 .. i - 1 : front[k] = s[k]
  <2>1. i - 1 \in Int /\ \A k \in 1 .. i - 1 : s[k] \in S
    BY <1>1
  <2> HIDE DEF front
  <2>2. /\ front \in Seq(S) /\ Len(front) = IF 1 <= i - 1 THEN (i - 1) - 1 + 1 ELSE 0
        /\ \A k \in 1 .. (i - 1) - 1 + 1 : front[k] = s[1 + k - 1]
    BY <2>1, SubSeqProperties DEF front
  <2> QED
    BY <1>1, <2>2
<1>3. /\ back \in Seq(S) /\ Len(back) = Len(s) - i
      /\ \A k \in 1 .. Len(s) - i : back[k] = s[i + k]
  <2>1. i + 1 \in Int /\ Len(s) \in Int /\ \A k \in i + 1 .. Len(s) : s[k] \in S
    BY <1>1
  <2> HIDE DEF back
  <2>2. /\ back \in Seq(S)
        /\ Len(back) = IF i + 1 <= Len(s) THEN Len(s) - (i + 1) + 1 ELSE 0
        /\ \A k \in 1 .. Len(s) - (i + 1) + 1 : back[k] = s[(i + 1) + k - 1]
    BY <2>1, SubSeqProperties DEF back
  <2> QED
    BY <1>1, <2>2
<1>4. RemoveAt(s, i) = front \o back
  BY DEF RemoveAt
<1> HIDE DEF front, back
<1>5. /\ front \o back \in Seq(S)
      /\ Len(front \o back) = Len(front) + Len(back)
      /\ \A k \in 1 .. Len(front) + Len(back) :
             (front \o back)[k] = IF k <= Len(front) THEN front[k] ELSE back[k - Len(front)]
  BY <1>2, <1>3, ConcatProperties
<1> QED
  BY <1>1, <1>2, <1>3, <1>4, <1>5

-----------------------------------------------------------------------------
(* The types.                                                              *)

Value == Numbers \cup BOOLEAN \cup Strings \cup {Empty}

\* The agents fit into the bound, what is mirrored of each is a list, and an
\* answer names agents that are still there.
Inv ==
    /\ TypeOK
    /\ answer \subseteq DOMAIN agents
    /\ Len(agents) <= MaxAgents
    /\ values \in Seq(Seq(Value))

\* Every type has a value.
LEMMA TypesHaveValues ==
    ASSUME NEW type \in {"number", "boolean", "string"}
    PROVE  ValuesOf(type) # {} /\ ValuesOf(type) \subseteq Value
BY ValueAssumption DEF ValuesOf, Value

\* The positions, types and operators of the capabilities an agent can have.
LEMMA Layout ==
    ASSUME NEW l \in Layouts
    PROVE  /\ DOMAIN l = 1 .. Len(l) /\ Len(l) \in Nat
           /\ \A k \in DOMAIN l :
                  \/ l[k].type = "number" /\ l[k].oper \in 0 .. 4
                  \/ l[k].type = "boolean" /\ l[k].oper \in 5 .. 6
                  \/ l[k].type = "string" /\ l[k].oper = 7
BY LayoutAssumption, LenProperties

\* The positions and types of the capabilities of the mirrored agents.
LEMMA AgentLists ==
    ASSUME Inv
    PROVE  /\ Len(agents) \in Nat /\ Len(agents) <= MaxAgents
           /\ DOMAIN agents = 1 .. Len(agents)
           /\ Len(values) = Len(agents) /\ DOMAIN values = DOMAIN agents
           /\ \A i \in DOMAIN agents :
                  /\ agents[i] \in Layouts
                  /\ values[i] \in Seq(Value)
                  /\ DOMAIN agents[i] = 1 .. Len(agents[i]) /\ Len(agents[i]) \in Nat
                  /\ DOMAIN values[i] = DOMAIN agents[i]
                  /\ \A k \in DOMAIN agents[i] :
                         agents[i][k].type \in {"number", "boolean", "string"}
<1>1. Len(agents) \in Nat /\ DOMAIN agents = 1 .. Len(agents)
  BY LenProperties DEF Inv, TypeOK
<1>2. Len(values) \in Nat /\ DOMAIN values = 1 .. Len(values)
  BY LenProperties DEF Inv
<1>3. Len(values) = Len(agents)
  BY <1>1, <1>2 DEF Inv, TypeOK
<1>4. ASSUME NEW i \in DOMAIN agents
      PROVE  agents[i] \in Layouts /\ values[i] \in Seq(Value)
  BY <1>1, <1>3, <1>4, ElementOfSeq DEF Inv, TypeOK
<1>5. ASSUME NEW l \in Layouts
      PROVE  /\ DOMAIN l = 1 .. Len(l) /\ Len(l) \in Nat
             /\ \A k \in DOMAIN l : l[k].type \in {"number", "boolean", "string"}
  BY Layout
<1> QED
  BY <1>1, <1>2, <1>3, <1>4, <1>5 DEF Inv, TypeOK

LEMMA InitInv ==
    ASSUME Init
    PROVE  Inv
<1>1. /\ <<>> \in Seq(Layouts) /\ <<>> \in Seq(Seq(Value)) /\ Len(<<>>) = 0
  BY EmptySeq
<1> QED
  BY <1>1, ValueAssumption DEF Init, Inv, TypeOK

LEMMA MirrorAgentInv ==
    ASSUME Inv, NEW l \in Layouts, MirrorAgent(l)
    PROVE  Inv'
<1>0. PICK refused \in SUBSET DOMAIN l :
          values' = Append(values,
              [k \in DOMAIN l |-> IF k \in refused THEN Empty
                                  ELSE CHOOSE v \in ValuesOf(l[k].type) : TRUE])
  BY DEF MirrorAgent
<1> DEFINE new == [k \in DOMAIN l |-> IF k \in refused THEN Empty
                                      ELSE CHOOSE v \in ValuesOf(l[k].type) : TRUE]
<1>1. DOMAIN l = 1 .. Len(l) /\ Len(l) \in Nat
  BY Layout
<1>2. \A k \in DOMAIN l : l[k].type \in {"number", "boolean", "string"}
  BY Layout
<1>3. \A type \in {"number", "boolean", "string"} : ValuesOf(type) # {} /\ ValuesOf(type) \subseteq Value
  BY TypesHaveValues
<1>4. \A k \in DOMAIN l : new[k] \in ValuesOf(l[k].type) \cup {Empty} /\ new[k] \in Value
  BY <1>2, <1>3 DEF Value
<1>5. new \in Seq(Value) /\ DOMAIN new = DOMAIN l
  <2>1. new \in [1 .. Len(l) -> Value]
    BY <1>1, <1>4
  <2> HIDE DEF new
  <2> QED
    BY <1>1, <2>1, SeqDef
<1> HIDE DEF new
<1>6. agents' = Append(agents, l) /\ values' = Append(values, new)
  BY <1>0 DEF MirrorAgent, new
<1>7. /\ Len(agents) \in Nat /\ Len(values) = Len(agents)
      /\ DOMAIN agents = 1 .. Len(agents)
  BY AgentLists
<1>8. /\ agents' \in Seq(Layouts) /\ Len(agents') = Len(agents) + 1
      /\ \A k \in 1 .. Len(agents) : agents'[k] = agents[k]
      /\ agents'[Len(agents) + 1] = l
  BY <1>6, AppendProperties DEF Inv, TypeOK
<1>9. /\ values' \in Seq(Seq(Value)) /\ Len(values') = Len(agents) + 1
      /\ \A k \in 1 .. Len(agents) : values'[k] = values[k]
      /\ values'[Len(agents) + 1] = new
  BY <1>5, <1>6, <1>7, AppendProperties DEF Inv
<1>10. /\ DOMAIN agents' = 1 .. Len(agents) + 1
       /\ DOMAIN values' = 1 .. Len(agents) + 1
  BY <1>8, <1>9, LenProperties
<1>11. ASSUME NEW i \in DOMAIN agents'
       PROVE  /\ DOMAIN values'[i] = DOMAIN agents'[i]
              /\ \A k \in DOMAIN agents'[i] : values'[i][k] \in ValuesOf(agents'[i][k].type) \cup {Empty}
  <2>1. CASE i = Len(agents) + 1
    BY <2>1, <1>4, <1>5, <1>8, <1>9
  <2>2. CASE i # Len(agents) + 1
    <3>1. i \in DOMAIN agents
      BY <2>2, <1>7, <1>10
    <3> QED
      BY <3>1, <1>7, <1>8, <1>9 DEF Inv, TypeOK
  <2> QED
    BY <2>1, <2>2
<1>12. Len(agents') <= MaxAgents
  BY <1>7, <1>8, ValueAssumption DEF MirrorAgent
<1>13. status' = "none" /\ answer' = {}
  BY DEF MirrorAgent, ForgetCall
<1> QED
  BY <1>8, <1>9, <1>10, <1>11, <1>12, <1>13 DEF Inv, TypeOK

LEMMA DeleteAgentInv ==
    ASSUME Inv, NEW i \in DOMAIN agents, DeleteAgent(i)
    PROVE  Inv'
<1>1. /\ Len(agents) \in Nat /\ Len(agents) <= MaxAgents /\ Len(values) = Len(agents)
      /\ DOMAIN agents = 1 .. Len(agents)
  BY AgentLists
<1>2. /\ agents' \in Seq(Layouts) /\ Len(agents') = Len(agents) - 1
      /\ \A k \in 1 .. Len(agents) - 1 : agents'[k] = IF k < i THEN agents[k] ELSE agents[k + 1]
  BY <1>1, RemoveAtProperties DEF Inv, TypeOK, DeleteAgent
<1>3. /\ values' \in Seq(Seq(Value)) /\ Len(values') = Len(agents) - 1
      /\ \A k \in 1 .. Len(agents) - 1 : values'[k] = IF k < i THEN values[k] ELSE values[k + 1]
  <2>1. values \in Seq(Seq(Value)) /\ i \in 1 .. Len(values)
    BY <1>1 DEF Inv
  <2>2. values' = RemoveAt(values, i)
    BY DEF DeleteAgent
  <2> QED
    BY <1>1, <2>1, <2>2, RemoveAtProperties
<1>4. DOMAIN agents' = 1 .. Len(agents) - 1 /\ DOMAIN values' = 1 .. Len(agents) - 1
  BY <1>2, <1>3, LenProperties
<1>5. ASSUME NEW k \in DOMAIN agents'
      PROVE  /\ DOMAIN values'[k] = DOMAIN agents'[k]
             /\ \A c \in DOMAIN agents'[k] : values'[k][c] \in ValuesOf(agents'[k][c].type) \cup {Empty}
  <2> DEFINE old == IF k < i THEN k ELSE k + 1
  <2>1. old \in DOMAIN agents /\ agents'[k] = agents[old] /\ values'[k] = values[old]
    BY <1>1, <1>2, <1>3, <1>4
  <2> HIDE DEF old
  <2> QED
    BY <2>1 DEF Inv, TypeOK
<1>6. status' = "none" /\ answer' = {}
  BY DEF DeleteAgent, ForgetCall
<1>7. Len(agents') <= MaxAgents
  BY <1>1, <1>2, ValueAssumption
<1> QED
  BY <1>2, <1>3, <1>4, <1>5, <1>6, <1>7 DEF Inv, TypeOK

LEMMA SyncValueInv ==
    ASSUME Inv, NEW i \in DOMAIN agents, NEW k \in DOMAIN agents[i], SyncValue(i, k)
    PROVE  Inv'
<1>1. PICK v \in ValuesOf(agents[i][k].type) : values' = [values EXCEPT ![i][k] = v]
  BY DEF SyncValue
<1> DEFINE new == [values[i] EXCEPT ![k] = v]
<1>2. /\ Len(values) = Len(agents) /\ DOMAIN agents = 1 .. Len(agents)
      /\ values[i] \in Seq(Value) /\ DOMAIN values[i] = DOMAIN agents[i]
      /\ agents[i][k].type \in {"number", "boolean", "string"}
  BY AgentLists
<1>3. v \in Value
  BY <1>1, <1>2, TypesHaveValues
<1>4. Len(values[i]) \in Nat /\ DOMAIN values[i] = 1 .. Len(values[i])
  BY <1>2, LenProperties
<1>5. new \in Seq(Value) /\ DOMAIN new = DOMAIN agents[i]
  BY <1>2, <1>3, <1>4, ExceptSeq
<1>6. \A c \in DOMAIN agents[i] : new[c] = IF c = k THEN v ELSE values[i][c]
  BY <1>2
<1>7. values' = [values EXCEPT ![i] = new]
  BY <1>1
<1> HIDE DEF new
<1>8. /\ values' \in Seq(Seq(Value)) /\ Len(values') = Len(values)
      /\ \A j \in 1 .. Len(values) : values'[j] = IF j = i THEN new ELSE values[j]
  BY <1>2, <1>5, <1>7, ExceptSeq DEF Inv
<1>9. DOMAIN values' = DOMAIN agents
  BY <1>2, <1>8, LenProperties
<1>10. UNCHANGED agents /\ status' = "none" /\ answer' = {}
  BY DEF SyncValue, ForgetCall
<1>11. ASSUME NEW j \in DOMAIN agents
       PROVE  /\ DOMAIN values'[j] = DOMAIN agents[j]
              /\ \A c \in DOMAIN agents[j] : values'[j][c] \in ValuesOf(agents[j][c].type) \cup {Empty}
  BY <1>1, <1>2, <1>5, <1>6, <1>8 DEF Inv, TypeOK
<1> QED
  BY <1>8, <1>9, <1>10, <1>11 DEF Inv, TypeOK

LEMMA FilterAgentsInv ==
    ASSUME Inv, NEW q, FilterAgents(q)
    PROVE  Inv'
<1>1. DOMAIN agents \subseteq 1 .. MaxAgents
  BY AgentLists, ValueAssumption
<1>2. UNCHANGED <<agents, values>> /\ status' \in {"good", "bad", "undefined"}
  BY DEF FilterAgents
<1>3. answer' \subseteq DOMAIN agents
  BY DEF FilterAgents, Searched, Results
<1> QED
  BY <1>1, <1>2, <1>3 DEF Inv, TypeOK

LEMMA NextInv ==
    ASSUME Inv, [Next]_vars
    PROVE  Inv'
<1>1. CASE \E l \in Layouts : MirrorAgent(l)
  BY <1>1, MirrorAgentInv
<1>2. CASE \E i \in DOMAIN agents : DeleteAgent(i)
  BY <1>2, DeleteAgentInv
<1>3. CASE \E i \in DOMAIN agents : \E k \in DOMAIN agents[i] : SyncValue(i, k)
  BY <1>3, SyncValueInv
<1>4. CASE \E q \in Queries : FilterAgents(q)
  BY <1>4, FilterAgentsInv
<1>5. CASE Crashed \/ UNCHANGED vars
  BY <1>5 DEF Crashed, vars, Inv, TypeOK
<1> QED
  BY <1>1, <1>2, <1>3, <1>4, <1>5 DEF Next

LEMMA Invariance == Spec => []Inv
<1>1. Init => Inv
  BY InitInv
<1>2. Inv /\ [Next]_vars => Inv'
  BY NextInv
<1> QED
  BY <1>1, <1>2, PTL DEF Spec

\* The values stay aligned with the capabilities of the agents, whatever agents
\* come and go and whatever is synchronized.
THEOREM TypeCorrect == Spec => []TypeOK
<1>1. Inv => TypeOK
  BY DEF Inv
<1> QED
  BY <1>1, Invariance, PTL

-----------------------------------------------------------------------------
(* The answers.                                                            *)

\* What the function at the index of an operator compares.
LEMMA MatchingFunction ==
    ASSUME NEW offer, NEW product
    PROVE  /\ matching_functions(0, offer, product) <=> offer = product
           /\ matching_functions(1, offer, product) <=> offer < product
           /\ matching_functions(2, offer, product) <=> offer > product
           /\ matching_functions(3, offer, product) <=> offer <= product
           /\ matching_functions(4, offer, product) <=> offer >= product
           /\ matching_functions(5, offer, product) <=> offer /\ product
           /\ matching_functions(6, offer, product) <=> ~offer /\ ~product
           /\ matching_functions(7, offer, product) <=> offer = product
<1>1. /\ matching_functions(0, offer, product) <=> offer = product
      /\ matching_functions(1, offer, product) <=> offer < product
      /\ matching_functions(2, offer, product) <=> offer > product
      /\ matching_functions(3, offer, product) <=> offer <= product
      /\ matching_functions(4, offer, product) <=> offer >= product
  BY DEF matching_functions, number_equal, number_greater, number_smaller,
         number_greater_or_equal, number_smaller_or_equal
<1>2. /\ matching_functions(5, offer, product) <=> offer /\ product
      /\ matching_functions(6, offer, product) <=> ~offer /\ ~product
      /\ matching_functions(7, offer, product) <=> offer = product
  BY DEF matching_functions, Is_true, Is_false, string_matching
<1> QED
  BY <1>1, <1>2

\* What an operator asks for.
LEMMA MeetsOperator ==
    ASSUME NEW offer, NEW wish
    PROVE  /\ Meets(0, offer, wish) <=> Atof[wish] = offer
           /\ Meets(1, offer, wish) <=> Atof[wish] > offer
           /\ Meets(2, offer, wish) <=> Atof[wish] < offer
           /\ Meets(3, offer, wish) <=> Atof[wish] >= offer
           /\ Meets(4, offer, wish) <=> Atof[wish] <= offer
           /\ Meets(5, offer, wish) <=> offer /\ wish \in {"true", "True"}
           /\ Meets(6, offer, wish) <=> ~offer /\ wish \notin {"true", "True"}
           /\ Meets(7, offer, wish) <=> wish = offer
BY DEF Meets, OperatorOf

\* The function chosen for an operator does what the operator asks for.
LEMMA MatchIsMeets ==
    ASSUME NEW type, NEW oper, NEW offer \in ValuesOf(type), NEW wish \in Wishes,
           \/ type = "number" /\ oper \in 0 .. 4
           \/ type = "boolean" /\ oper \in 5 .. 6
           \/ type = "string" /\ oper = 7
    PROVE  matching_functions(oper, offer, ProductValue(type, wish)) <=> Meets(oper, offer, wish)
<1> DEFINE product == ProductValue(type, wish)
<1>1. CASE type = "number" /\ oper \in 0 .. 4
  <2>1. offer \in Int /\ Atof[wish] \in Int /\ product = Atof[wish]
    BY <1>1, ValueAssumption, WishAssumption DEF ValuesOf, ProductValue
  <2>2. CASE oper = 0
    BY <2>1, <2>2, MatchingFunction, MeetsOperator
  <2>3. CASE oper = 1
    BY <2>1, <2>3, MatchingFunction, MeetsOperator
  <2>4. CASE oper = 2
    BY <2>1, <2>4, MatchingFunction, MeetsOperator
  <2>5. CASE oper = 3
    BY <2>1, <2>5, MatchingFunction, MeetsOperator
  <2>6. CASE oper = 4
    BY <2>1, <2>6, MatchingFunction, MeetsOperator
  <2> QED
    BY <1>1, <2>2, <2>3, <2>4, <2>5, <2>6
<1>2. CASE type = "boolean" /\ oper \in 5 .. 6
  <2>1. product <=> wish \in {"true", "True"}
    BY <1>2 DEF ProductValue
  <2>2. CASE oper = 5
    BY <2>1, <2>2, MatchingFunction, MeetsOperator
  <2>3. CASE oper = 6
    BY <2>1, <2>3, MatchingFunction, MeetsOperator
  <2> QED
    BY <1>2, <2>2, <2>3
<1>3. CASE type = "string" /\ oper = 7
  <2>1. product = wish
    BY <1>3 DEF ProductValue
  <2> QED
    BY <1>3, <2>1, MatchingFunction, MeetsOperator
<1> QED
  BY <1>1, <1>2, <1>3

\* Every comparison of the walk.
LEMMA ItemIsMet ==
    ASSUME Inv, NEW i \in DOMAIN agents, ~Unreadable(i),
           NEW k \in DOMAIN agents[i], NEW wish \in Wishes
    PROVE  ItemMatches(i, k, wish) <=> Meets(agents[i][k].oper, values[i][k], wish)
<1>1. agents[i] \in Layouts /\ values[i][k] \in ValuesOf(agents[i][k].type)
  BY AgentLists DEF Inv, TypeOK, Unreadable
<1>2. \/ agents[i][k].type = "number" /\ agents[i][k].oper \in 0 .. 4
      \/ agents[i][k].type = "boolean" /\ agents[i][k].oper \in 5 .. 6
      \/ agents[i][k].type = "string" /\ agents[i][k].oper = 7
  BY <1>1, Layout
<1> QED
  BY <1>1, <1>2, MatchIsMeets DEF ItemMatches

\* An agent that lists its capabilities like the first has no open outcome, and
\* the walk compares what the query names.
LEMMA AlikeVerdict ==
    ASSUME Inv, NEW q \in Queries, q.form = "array", q.read = "exact",
           Len(q.names) = Len(q.wishes),
           NEW i \in DOMAIN agents, ~Unreadable(i), SameNames(agents[1], agents[i])
    PROVE  Verdicts(i, q) = {CanMake(i, q)}
<1>1. PICK n \in Nat : q.wishes \in [1 .. n -> Wishes]
  BY ValueAssumption, LenProperties DEF Queries, WishLists
<1>2. /\ DOMAIN q.names = 1 .. Len(q.names)
      /\ \A j \in DOMAIN q.names : q.wishes[j] \in Wishes
  <2>1. q.names \in Seq(STRING) /\ q.wishes \in Seq(Wishes)
    BY <1>1, ValueAssumption, SeqDef DEF Queries
  <2> QED
    BY <2>1, LenProperties, ElementOfSeq
<1>3. DOMAIN agents[1] = DOMAIN agents[i] /\ \A k \in DOMAIN agents[i] : agents[1][k].name = agents[i][k].name
  BY DEF SameNames
<1>4. Compared(q) = {p \in (DOMAIN q.names) \X (DOMAIN agents[i]) :
                         agents[i][p[2]].name = q.names[p[1]]}
  BY <1>2, <1>3 DEF Compared, ArrayLength, FirstItems
<1>5. Open(i, q) = {}
  BY <1>4 DEF Open
<1>6. (\E p \in Compared(q) : ~ItemMatches(i, p[2], q.wishes[p[1]])) <=> ~CanMake(i, q)
  <2>1. ASSUME NEW p \in Compared(q), ~ItemMatches(i, p[2], q.wishes[p[1]])
        PROVE  ~CanMake(i, q)
    <3>1. p[1] \in DOMAIN q.names /\ p[2] \in DOMAIN agents[i] /\ agents[i][p[2]].name = q.names[p[1]]
      BY <1>4
    <3> QED
      BY <1>2, <2>1, <3>1, ItemIsMet DEF CanMake
  <2>2. ASSUME NEW j \in DOMAIN q.names, NEW k \in DOMAIN agents[i],
               agents[i][k].name = q.names[j],
               ~Meets(agents[i][k].oper, values[i][k], q.wishes[j])
        PROVE  \E p \in Compared(q) : ~ItemMatches(i, p[2], q.wishes[p[1]])
    <3>1. <<j, k>> \in Compared(q)
      BY <1>4, <2>2
    <3>2. ~ItemMatches(i, k, q.wishes[j])
      BY <1>2, <2>2, ItemIsMet
    <3> QED
      BY <3>1, <3>2
  <2> QED
    BY <2>1, <2>2 DEF CanMake
<1> QED
  BY <1>5, <1>6 DEF Verdicts, CanMake

\* A call answers the agents like the first exactly.
LEMMA FilterAgentsExact ==
    ASSUME Inv, NEW q \in Queries, FilterAgents(q)
    PROVE  AlikeAnsweredExactly'
<1> SUFFICES ASSUME Answered', NEW i \in DOMAIN agents, SameNames(agents[1], agents[i])
             PROVE  i \in answer' <=> CanMake(i, q)
  BY DEF FilterAgents, AlikeAnsweredExactly, Answered, SameNames, CanMake
<1>1. /\ status' = "good" /\ query' = q
      /\ q.form = "array" /\ q.read = "exact" /\ q.names[1] # None
  BY DEF Answered, FilterAgents
<1>2. /\ ArrayLength(q.form, q.names) = ArrayLength(q.form, q.wishes)
      /\ answer' \in Results(q) /\ ~Unreadable(i)
  BY <1>1 DEF FilterAgents, Searched
<1>3. Verdicts(i, q) = {CanMake(i, q)}
  BY <1>1, <1>2, AlikeVerdict DEF ArrayLength
<1>4. (i \in answer') \in Verdicts(i, q)
  BY <1>1, <1>2 DEF Results, Searched
<1>5. (i \in answer') = CanMake(i, q)
  BY <1>3, <1>4
<1> QED
  BY <1>5

\* A call that is answered gives every agent that lists its capabilities like
\* the first one the right answer, whatever the other agents list
\* (callback_functions.c 442-498).
THEOREM AlikeAnswers == Spec => []AlikeAnsweredExactly
<1>1. Init => AlikeAnsweredExactly
  BY DEF Init, AlikeAnsweredExactly, Answered
<1>2. Inv /\ AlikeAnsweredExactly /\ [Next]_vars => AlikeAnsweredExactly'
  <2> SUFFICES ASSUME Inv, AlikeAnsweredExactly, [Next]_vars
               PROVE  AlikeAnsweredExactly'
    OBVIOUS
  <2>1. CASE ForgetCall
    BY <2>1 DEF ForgetCall, AlikeAnsweredExactly, Answered
  <2>2. CASE \E q \in Queries : FilterAgents(q)
    BY <2>2, FilterAgentsExact
  <2>3. CASE UNCHANGED vars
    BY <2>3 DEF vars, AlikeAnsweredExactly, Answered, CanMake, SameNames
  <2> QED
    BY <2>1, <2>2, <2>3 DEF Next, MirrorAgent, DeleteAgent, SyncValue, Crashed
<1> QED
  BY <1>1, <1>2, Invariance, PTL DEF Spec

\* Where all agents of a service list the same names in the same order, every
\* answered call returns exactly the agents that can make the product
\* (callback_functions.c 442-498).
THEOREM AnswersAreExact ==
    ASSUME \A l, m \in Layouts : SameNames(l, m)
    PROVE  Spec => []AnswerIsExact
<1>1. Inv /\ AlikeAnsweredExactly => AnswerIsExact
  <2> SUFFICES ASSUME Inv, AlikeAnsweredExactly, Answered
               PROVE  answer = {i \in DOMAIN agents : CanMake(i, query)}
    BY DEF AnswerIsExact
  <2>1. ASSUME NEW i \in DOMAIN agents
        PROVE  i \in answer <=> CanMake(i, query)
    <3>1. 1 \in DOMAIN agents
      BY AgentLists
    <3>2. agents[1] \in Layouts /\ agents[i] \in Layouts
      BY <3>1, AgentLists
    <3> QED
      BY <3>2 DEF AlikeAnsweredExactly
  <2> QED
    BY <2>1 DEF Inv
<1> QED
  BY <1>1, Invariance, AlikeAnswers, PTL
=============================================================================

-------------------------- MODULE NodeMirrorLemmas --------------------------
(***************************************************************************)
(* What the operators of NodeMirror compute.  Most of them are recursive   *)
(* functions; each is first shown to exist, and then described by what     *)
(* induction shows of its values.                                          *)
(***************************************************************************)
EXTENDS NodeMirror, SequenceTheorems, WellFoundedInduction, TLAPS

-----------------------------------------------------------------------------
(* Induction over the numbers up to a bound.  A set stands for what is to  *)
(* be shown of every number.                                               *)

\* A set of numbers that has 0 and goes on has all up to the bound.
LEMMA SetInduction ==
    ASSUME NEW n \in Nat, NEW T, 0 \in T,
           \A k \in 1 .. n : k - 1 \in T => k \in T
    PROVE  0 .. n \subseteq T
<1> DEFINE Missing == {k \in 0 .. n : k \notin T}
<1> SUFFICES ASSUME Missing # {} PROVE FALSE
  OBVIOUS
<1>1. PICK x \in Missing : \A y \in Missing : <<y, x>> \notin OpToRel(<, Nat)
  <2>1. Missing \subseteq Nat
    OBVIOUS
  <2> HIDE DEF Missing
  <2> QED
    BY <2>1, NatLessThanWellFounded, WFMin
<1>2. x \in 1 .. n /\ x - 1 \in 0 .. n
  OBVIOUS
<1>3. x - 1 \in Missing
  BY <1>2
<1>4. <<x - 1, x>> \in OpToRel(<, Nat)
  BY <1>2 DEF OpToRel
<1> QED
  BY <1>1, <1>3, <1>4

\* A set of numbers that has each one all smaller ones of which it has, has all
\* up to the bound.
LEMMA SetInductionBelow ==
    ASSUME NEW n \in Nat, NEW T,
           \A k \in 1 .. n : 1 .. k - 1 \subseteq T => k \in T
    PROVE  1 .. n \subseteq T
<1> DEFINE UpTo == {k \in 0 .. n : 1 .. k \subseteq T}
<1>1. 0 \in UpTo
  OBVIOUS
<1>2. ASSUME NEW k \in 1 .. n, k - 1 \in UpTo PROVE k \in UpTo
  <2>1. k \in T
    BY <1>2
  <2>2. 1 .. k \subseteq (1 .. k - 1) \cup {k}
    OBVIOUS
  <2> QED
    BY <1>2, <2>1, <2>2
<1>3. 0 .. n \subseteq UpTo
  <2> HIDE DEF UpTo
  <2> QED
    BY <1>1, <1>2, SetInduction
<1>4. n \in UpTo
  BY <1>3
<1> QED
  BY <1>4

\* What takes every value to the next, and the values that makes from a base.
Steps(n, V) == [1 .. n -> [V -> V]]

Run(f, n, V, base, step) ==
    /\ f \in [0 .. n -> V]
    /\ f[0] = base
    /\ \A k \in 1 .. n : f[k] = step[k][f[k - 1]]

\* Steps from a base define a function.
LEMMA Recursion ==
    ASSUME NEW n \in Nat, NEW V, NEW base \in V, NEW step \in Steps(n, V)
    PROVE  \E f : Run(f, n, V, base, step)
<1> DEFINE Starts(k, f) == f[0] = base /\ \A j \in 1 .. k : f[j] = step[j][f[j - 1]]
           Reached == {k \in 0 .. n : \E f \in [0 .. k -> V] : Starts(k, f)}
<1>1. 0 \in Reached
  <2> DEFINE f == [i \in 0 .. 0 |-> base]
  <2>1. f \in [0 .. 0 -> V] /\ Starts(0, f)
    OBVIOUS
  <2> HIDE DEF f, Starts
  <2> QED
    BY <2>1
<1>2. ASSUME NEW k \in 1 .. n, k - 1 \in Reached PROVE k \in Reached
  <2>1. PICK f \in [0 .. k - 1 -> V] : Starts(k - 1, f)
    BY <1>2
  <2> DEFINE g == [j \in 0 .. k |-> IF j = k THEN step[k][f[k - 1]] ELSE f[j]]
  <2>2. g \in [0 .. k -> V]
    BY DEF Steps
  <2>3. g[0] = base
    BY <2>1
  <2>4. ASSUME NEW j \in 1 .. k PROVE g[j] = step[j][g[j - 1]]
    <3>1. CASE j = k
      BY <3>1
    <3>2. CASE j # k
      <4>1. j \in 1 .. k - 1 /\ j - 1 \in 0 .. k - 1
        BY <3>2
      <4>2. f[j] = step[j][f[j - 1]]
        BY <2>1, <4>1
      <4>3. g[j] = f[j] /\ g[j - 1] = f[j - 1]
        BY <3>2, <4>1
      <4> QED
        BY <4>2, <4>3
    <3> QED
      BY <3>1, <3>2
  <2>5. Starts(k, g)
    BY <2>3, <2>4
  <2> HIDE DEF g, Starts
  <2> QED
    BY <2>2, <2>5
<1>3. 0 .. n \subseteq Reached
  <2> HIDE DEF Reached
  <2> QED
    BY <1>1, <1>2, SetInduction
<1>4. n \in Reached
  BY <1>3
<1> QED
  BY <1>4 DEF Run

-----------------------------------------------------------------------------
(* The namespace solver.                                                   *)

\* Positions in a sequence have a last one.
LEMMA MaxOfPositions ==
    ASSUME NEW n \in Nat, NEW I \in SUBSET (1 .. n), I # {}
    PROVE  Max(I) \in I
<1> DEFINE T == {k \in Nat : n - k \in I}
<1>1. T \subseteq Nat /\ T # {}
  <2>1. PICK i \in I : TRUE
    OBVIOUS
  <2>2. n - i \in T
    OBVIOUS
  <2> QED
    BY <2>2
<1>2. PICK x \in T : \A y \in T : <<y, x>> \notin OpToRel(<, Nat)
  <2> HIDE DEF T
  <2> QED
    BY <1>1, NatLessThanWellFounded, WFMin
<1>3. \A y \in T : ~(y < x)
  <2> HIDE DEF T
  <2>1. \A y \in T : <<y, x>> \in Nat \X Nat
    BY <1>1
  <2> QED
    BY <1>2, <2>1 DEF OpToRel
<1>4. \A i \in I : n - i \in T
  OBVIOUS
<1>5. n - x \in I /\ \A i \in I : n - x >= i
  BY <1>3, <1>4
<1> QED
  BY <1>5 DEF Max

\* A search for the last element in a namespace array finds one if there is
\* one.
LEMMA LastUri ==
    ASSUME NEW uris \in Seq(STRING), NEW uri
    PROVE  LET last == SelectLastInSeq(uris, LAMBDA u : u = uri)
           IN  \/ last \in 1 .. Len(uris) /\ uris[last] = uri
               \/ last = 0 /\ \A i \in 1 .. Len(uris) : uris[i] # uri
<1> DEFINE I == {i \in 1 .. Len(uris) : uris[i] = uri}
<1>1. SelectLastInSeq(uris, LAMBDA u : u = uri) = IF I # {} THEN Max(I) ELSE 0
  BY DEF SelectLastInSeq
<1>2. Len(uris) \in Nat /\ I \in SUBSET (1 .. Len(uris))
  BY LenProperties
<1>3. I # {} => Max(I) \in I
  BY <1>2, MaxOfPositions
<1> QED
  BY <1>1, <1>3

\* A namespace index is always mapped to an index, to one with the same uri if
\* the registry has the uri.
LEMMA MappedIndex ==
    ASSUME NEW remoteUris \in Seq(STRING), NEW idx \in Nat
    PROVE  /\ map_namespace_idx(remoteUris, LocalUris, idx) \in Nat
           /\ \A i \in DOMAIN LocalUris :
                  idx < Len(remoteUris) /\ LocalUris[i] = remoteUris[idx + 1] =>
                      LET k == map_namespace_idx(remoteUris, LocalUris, idx)
                      IN  k + 1 \in DOMAIN LocalUris /\ LocalUris[k + 1] = remoteUris[idx + 1]
<1> DEFINE uri == SourceNamespace(remoteUris, idx)
           last == SelectLastInSeq(LocalUris, LAMBDA u : u = uri)
           k == map_namespace_idx(remoteUris, LocalUris, idx)
<1>1. LocalUris \in Seq(STRING) /\ DOMAIN LocalUris = 1 .. Len(LocalUris)
      /\ Len(remoteUris) \in Nat /\ Len(LocalUris) \in Nat
  BY MappingAssumption, LenProperties
<1>2. k = IF last = 0 THEN 0 ELSE last - 1
  BY DEF map_namespace_idx, AggregationNamespace
<1>3. \/ last \in 1 .. Len(LocalUris) /\ LocalUris[last] = uri
      \/ last = 0 /\ \A i \in 1 .. Len(LocalUris) : LocalUris[i] # uri
  <2> HIDE DEF uri
  <2> QED
    BY <1>1, LastUri
<1>4. idx < Len(remoteUris) => uri = remoteUris[idx + 1]
  <2>1. idx < Len(remoteUris) => remoteUris # <<>>
    BY <1>1
  <2> QED
    BY <2>1 DEF SourceNamespace
<1> HIDE DEF uri, last, k
<1>5. k \in Nat
  BY <1>1, <1>2, <1>3
<1>6. ASSUME NEW i \in DOMAIN LocalUris, idx < Len(remoteUris),
             LocalUris[i] = remoteUris[idx + 1]
      PROVE  k + 1 \in DOMAIN LocalUris /\ LocalUris[k + 1] = remoteUris[idx + 1]
  <2>1. last \in 1 .. Len(LocalUris) /\ LocalUris[last] = uri
    BY <1>1, <1>3, <1>4, <1>6
  <2>2. k + 1 = last
    BY <1>1, <1>2, <2>1
  <2> QED
    BY <1>1, <1>4, <1>6, <2>1, <2>2
<1> QED
  BY <1>5, <1>6 DEF k

\* What an agent's address space is known to be.
LEMMA AgentShape ==
    ASSUME agent \in Agents
    PROVE  /\ agent.root \in agent.nodes /\ NoNode \notin agent.nodes /\ Overflow \notin agent.nodes
           /\ agent.refs \in [agent.nodes -> Seq(Reference(agent))]
           /\ agent.uris \in Seq(STRING) /\ Len(agent.uris) \in Nat
           /\ agent.uris[1] = LocalUris[1]
           /\ QualifiedName(agent) \subseteq [ns : Nat, text : STRING]
           /\ \A n \in agent.nodes :
                  /\ agent.name[n] \in QualifiedName(agent)
                  /\ agent.dataType[n] \in QualifiedName(agent)
BY AgentAssumption, LenProperties DEF AgentOK, QualifiedName

\* A name is translated to a name with the same text.
LEMMA TranslatedName ==
    ASSUME agent \in Agents, NEW q \in QualifiedName(agent), NEW open \in BOOLEAN
    PROVE  /\ Translated(q, open) \in [ns : Nat, text : STRING]
           /\ Translated(q, open).text = q.text
<1> DEFINE uris == IF open THEN agent.uris ELSE <<>>
<1>1. agent.uris \in Seq(STRING) /\ q \in [ns : Nat, text : STRING]
  BY AgentShape
<1>2. uris \in Seq(STRING)
  BY <1>1, EmptySeq
<1> HIDE DEF uris
<1>3. map_namespace_idx(uris, LocalUris, q.ns) \in Nat
  BY <1>1, <1>2, MappedIndex
<1>4. Translated(q, open) = IF q.ns = 0 THEN q
                            ELSE [q EXCEPT !.ns = map_namespace_idx(uris, LocalUris, q.ns)]
  BY DEF Translated, uris
<1> QED
  BY <1>1, <1>3, <1>4

\* While the connection is open a translated name means what it meant at the
\* agent (namespace_solver.c 134-142).
LEMMA TranslatedMeaning ==
    ASSUME agent \in Agents, NEW q \in QualifiedName(agent), KnownUri(q)
    PROVE  LocalUri(Translated(q, TRUE)) = RemoteUri(q)
<1>1. /\ agent.uris \in Seq(STRING) /\ Len(agent.uris) \in Nat
      /\ agent.uris[1] = LocalUris[1]
      /\ q \in [ns : 0 .. Len(agent.uris) - 1, text : STRING]
  BY AgentShape DEF QualifiedName
<1>2. q.ns \in Nat /\ q.ns < Len(agent.uris)
  BY <1>1
<1>3. PICK i \in DOMAIN LocalUris : LocalUris[i] = agent.uris[q.ns + 1]
  BY DEF KnownUri, RemoteUri
<1>4. CASE q.ns = 0
  BY <1>1, <1>4 DEF Translated, LocalUri, RemoteUri
<1>5. CASE q.ns # 0
  <2> DEFINE k == map_namespace_idx(agent.uris, LocalUris, q.ns)
  <2>1. LocalUris[k + 1] = agent.uris[q.ns + 1]
    BY <1>1, <1>2, <1>3, MappedIndex
  <2> HIDE DEF k
  <2>2. Translated(q, TRUE) = [q EXCEPT !.ns = k]
    BY <1>5 DEF Translated, k
  <2>3. Translated(q, TRUE).ns = k
    BY <1>1, <2>2
  <2> QED
    BY <2>1, <2>3 DEF LocalUri, RemoteUri
<1> QED
  BY <1>4, <1>5

\* The type an object is given is named like the target of one of its
\* references, and means the same while the connection is open.
LEMMA TypeFound ==
    ASSUME agent \in Agents, NEW n \in agent.nodes, NEW open \in BOOLEAN
    PROVE  /\ TypeOf(n, open) \in LocalObjectTypes \cup {NoNode}
           /\ TypeOf(n, TRUE) # NoNode =>
                  \E k \in DOMAIN agent.refs[n] :
                      LET q == agent.name[agent.refs[n][k].to]
                      IN  /\ q.text = TypeOf(n, TRUE).text
                          /\ KnownUri(q) => LocalUri(TypeOf(n, TRUE)) = RemoteUri(q)
<1> DEFINE refs == agent.refs[n]
           I == {i \in 1 .. Len(refs) : ~refs[i].inverse /\ refs[i].type = "HasTypeDefinition"}
           last == IF I # {} THEN Max(I) ELSE 0
           name(o) == IF last = 0 THEN NoName
                      ELSE Translated(agent.name[refs[last].to], o)
<1>1. \A o : TypeOf(n, o) = IF name(o) \in LocalObjectTypes THEN name(o) ELSE NoNode
  BY DEF TypeOf, ObjectTypeNamed, SelectLastInSeq
<1>2. TypeOf(n, open) \in LocalObjectTypes \cup {NoNode}
  <2> HIDE DEF name
  <2> QED
    BY <1>1
<1>3. ASSUME TypeOf(n, TRUE) # NoNode
      PROVE  \E k \in DOMAIN refs :
                 LET q == agent.name[refs[k].to]
                 IN  /\ q.text = TypeOf(n, TRUE).text
                     /\ KnownUri(q) => LocalUri(TypeOf(n, TRUE)) = RemoteUri(q)
  <2>1. /\ refs \in Seq(Reference(agent)) /\ Len(refs) \in Nat
        /\ DOMAIN refs = 1 .. Len(refs)
    BY AgentAssumption, LenProperties DEF AgentOK
  <2>2. last # 0
    BY <1>1, <1>3, MappingAssumption
  <2>3. last \in DOMAIN refs
    <3>1. I \in SUBSET (1 .. Len(refs))
      OBVIOUS
    <3> HIDE DEF I
    <3> QED
      BY <2>1, <2>2, <3>1, MaxOfPositions
  <2> HIDE DEF last
  <2>4. refs[last].to \in agent.nodes
    <3>1. refs[last] \in Reference(agent)
      <4> HIDE DEF refs
      <4> QED
        BY <2>1, <2>3
    <3> QED
      BY <3>1 DEF Reference
  <2>5. TypeOf(n, TRUE) = Translated(agent.name[refs[last].to], TRUE)
    BY <1>1, <1>3, <2>2
  <2>6. agent.name[refs[last].to] \in QualifiedName(agent)
    BY <2>4, AgentShape
  <2> HIDE DEF refs
  <2> QED
    BY <2>3, <2>5, <2>6, TranslatedName, TranslatedMeaning
<1> QED
  BY <1>2, <1>3

-----------------------------------------------------------------------------
(* The nodes that a path leads to.                                         *)

\* The nodes a path translation reaches, name by name.
LEMMA EntriesReached ==
    ASSUME agent \in Agents, found \in Seq(agent.nodes)
    PROVE  \E reached \in [0 .. Len(found) -> SUBSET agent.nodes] :
               /\ reached[0] = {agent.root}
               /\ \A k \in 1 .. Len(found) :
                      reached[k] = {n \in agent.nodes :
                                       /\ agent.name[n] = agent.name[found[k]]
                                       /\ \E m \in reached[k - 1] : HasChild(agent, m, n)}
               /\ Entries = reached[Len(found)]
<1> DEFINE len == Len(found)
           root == {agent.root}
           V == SUBSET agent.nodes
           On(k, R) == {n \in agent.nodes : /\ agent.name[n] = agent.name[found[k]]
                                            /\ \E m \in R : HasChild(agent, m, n)}
           Is(f) == f = [k \in 0 .. len |-> IF k = 0 THEN root ELSE On(k, f[k - 1])]
           chosen == CHOOSE f : Is(f)
<1>1. len \in Nat /\ root \in V /\ \A k, R : On(k, R) \in V
  BY LenProperties, AgentShape
<1>2. Entries = chosen[len]
  BY DEF Entries
<1> HIDE DEF len, root, V, On
<1>3. \E f : Is(f)
  <2> DEFINE step == [k \in 1 .. len |-> [R \in V |-> On(k, R)]]
  <2>1. step \in Steps(len, V)
    BY <1>1 DEF Steps
  <2>2. \A k \in 1 .. len : \A R \in V : step[k][R] = On(k, R)
    OBVIOUS
  <2> HIDE DEF step
  <2>3. PICK f : Run(f, len, V, root, step)
    BY <1>1, <2>1, Recursion
  <2>4. f \in [0 .. len -> V] /\ f[0] = root
    BY <2>3 DEF Run
  <2>5. \A k \in 1 .. len : f[k] = On(k, f[k - 1])
    BY <1>1, <2>2, <2>3 DEF Run
  <2>6. \A k \in 0 .. len : f[k] = IF k = 0 THEN root ELSE On(k, f[k - 1])
    BY <1>1, <2>4, <2>5
  <2> QED
    BY <2>4, <2>6
<1>4. Is(chosen)
  <2> HIDE DEF Is
  <2> QED
    BY <1>3
<1> HIDE DEF chosen
<1>5. \A k \in 0 .. len : chosen[k] = IF k = 0 THEN root ELSE On(k, chosen[k - 1])
  BY <1>4
<1>6. chosen \in [0 .. len -> V]
  BY <1>1, <1>4
<1>7. chosen[0] = root /\ \A k \in 1 .. len : chosen[k] = On(k, chosen[k - 1])
  BY <1>1, <1>5
<1> QED
  BY <1>2, <1>6, <1>7 DEF len, root, V, On

\* The nodes on a path, name by name.
LEMMA PathReached ==
    ASSUME agent \in Agents, NEW path \in Seq(STRING)
    PROVE  \E reached \in [0 .. Len(path) -> SUBSET agent.nodes] :
               /\ reached[0] = {agent.root}
               /\ \A k \in 1 .. Len(path) :
                      reached[k] = {n \in agent.nodes :
                                       /\ agent.name[n].text = path[k]
                                       /\ \E m \in reached[k - 1] : HasChild(agent, m, n)}
               /\ OnPath(agent, path) = reached[Len(path)]
<1> DEFINE len == Len(path)
           root == {agent.root}
           V == SUBSET agent.nodes
           On(k, R) == {n \in agent.nodes : /\ agent.name[n].text = path[k]
                                            /\ \E m \in R : HasChild(agent, m, n)}
           Is(f) == f = [k \in 0 .. len |-> IF k = 0 THEN root ELSE On(k, f[k - 1])]
           chosen == CHOOSE f : Is(f)
<1>1. len \in Nat /\ root \in V /\ \A k, R : On(k, R) \in V
  BY LenProperties, AgentShape
<1>2. OnPath(agent, path) = chosen[len]
  BY DEF OnPath
<1> HIDE DEF len, root, V, On
<1>3. \E f : Is(f)
  <2> DEFINE step == [k \in 1 .. len |-> [R \in V |-> On(k, R)]]
  <2>1. step \in Steps(len, V)
    BY <1>1 DEF Steps
  <2>2. \A k \in 1 .. len : \A R \in V : step[k][R] = On(k, R)
    OBVIOUS
  <2> HIDE DEF step
  <2>3. PICK f : Run(f, len, V, root, step)
    BY <1>1, <2>1, Recursion
  <2>4. f \in [0 .. len -> V] /\ f[0] = root
    BY <2>3 DEF Run
  <2>5. \A k \in 1 .. len : f[k] = On(k, f[k - 1])
    BY <1>1, <2>2, <2>3 DEF Run
  <2>6. \A k \in 0 .. len : f[k] = IF k = 0 THEN root ELSE On(k, f[k - 1])
    BY <1>1, <2>4, <2>5
  <2> QED
    BY <2>4, <2>6
<1>4. Is(chosen)
  <2> HIDE DEF Is
  <2> QED
    BY <1>3
<1> HIDE DEF chosen
<1>5. \A k \in 0 .. len : chosen[k] = IF k = 0 THEN root ELSE On(k, chosen[k - 1])
  BY <1>4
<1>6. chosen \in [0 .. len -> V]
  BY <1>1, <1>4
<1>7. chosen[0] = root /\ \A k \in 1 .. len : chosen[k] = On(k, chosen[k - 1])
  BY <1>1, <1>5
<1> QED
  BY <1>2, <1>6, <1>7 DEF len, root, V, On

\* An entry is a node.
LEMMA EntriesAreNodes ==
    ASSUME agent \in Agents, found \in Seq(agent.nodes)
    PROVE  Entries \subseteq agent.nodes
<1>1. Len(found) \in 0 .. Len(found)
  BY LenProperties
<1> QED
  BY <1>1, EntriesReached

\* Searches that found nodes with the names of a path make every entry one on
\* the path.
LEMMA EntriesOnPath ==
    ASSUME agent \in Agents, found \in Seq(agent.nodes), NEW path \in Seq(STRING),
           Len(found) = Len(path),
           \A k \in 1 .. Len(path) : agent.name[found[k]].text = path[k]
    PROVE  Entries \subseteq OnPath(agent, path)
<1>1. PICK there \in [0 .. Len(found) -> SUBSET agent.nodes] :
          /\ there[0] = {agent.root}
          /\ \A k \in 1 .. Len(found) :
                 there[k] = {n \in agent.nodes :
                                /\ agent.name[n] = agent.name[found[k]]
                                /\ \E m \in there[k - 1] : HasChild(agent, m, n)}
          /\ Entries = there[Len(found)]
  BY EntriesReached
<1>2. PICK on \in [0 .. Len(path) -> SUBSET agent.nodes] :
          /\ on[0] = {agent.root}
          /\ \A k \in 1 .. Len(path) :
                 on[k] = {n \in agent.nodes :
                             /\ agent.name[n].text = path[k]
                             /\ \E m \in on[k - 1] : HasChild(agent, m, n)}
          /\ OnPath(agent, path) = on[Len(path)]
  BY PathReached
<1> DEFINE len == Len(path)
           T == {k \in 0 .. len : there[k] \subseteq on[k]}
<1>3. len \in Nat /\ Len(found) = len
  BY LenProperties
<1> HIDE DEF len
<1>4. 0 \in T
  BY <1>1, <1>2, <1>3
<1>5. ASSUME NEW k \in 1 .. len, k - 1 \in T PROVE k \in T
  <2>1. there[k - 1] \subseteq on[k - 1]
    BY <1>5
  <2>2. there[k] = {n \in agent.nodes :
                        /\ agent.name[n] = agent.name[found[k]]
                        /\ \E m \in there[k - 1] : HasChild(agent, m, n)}
    BY <1>1, <1>3
  <2>3. on[k] = {n \in agent.nodes :
                     /\ agent.name[n].text = path[k]
                     /\ \E m \in on[k - 1] : HasChild(agent, m, n)}
    BY <1>2 DEF len
  <2>4. agent.name[found[k]].text = path[k]
    BY DEF len
  <2>5. there[k] \subseteq on[k]
    BY <2>1, <2>2, <2>3, <2>4
  <2> QED
    BY <1>3, <2>5
<1>6. 0 .. len \subseteq T
  <2> HIDE DEF T
  <2> QED
    BY <1>3, <1>4, <1>5, SetInduction
<1>7. len \in T
  BY <1>3, <1>6
<1> QED
  BY <1>1, <1>2, <1>3, <1>7 DEF len

-----------------------------------------------------------------------------
(* The searches by name.                                                   *)

\* Sequences of a set are concatenated to one of the set.
LEMMA Flattened ==
    ASSUME NEW S, NEW seqs \in Seq(Seq(S))
    PROVE  FlattenSeq(seqs) \in Seq(S)
<1> DEFINE len == Len(seqs)
           V == Seq(S)
           Is(f) == f = [i \in 1 .. len |-> IF i = 1 THEN seqs[i] ELSE f[i - 1] \o seqs[i]]
           chosen == CHOOSE f : Is(f)
<1>1. len \in Nat /\ <<>> \in V /\ \A i \in 1 .. len : seqs[i] \in V
  BY LenProperties, EmptySeq, ElementOfSeq
<1>2. FlattenSeq(seqs) = IF len = 0 THEN seqs ELSE chosen[len]
  BY DEF FlattenSeq
<1>3. len = 0 => seqs = <<>>
  BY EmptySeq
<1>4. \A s, u \in V : s \o u \in V /\ <<>> \o s = s
  BY ConcatProperties, ConcatEmptySeq
<1> HIDE DEF len, V
<1>5. \E f : Is(f)
  <2> DEFINE step == [k \in 1 .. len |-> [R \in V |-> R \o seqs[k]]]
  <2>1. step \in Steps(len, V)
    BY <1>1, <1>4 DEF Steps
  <2>2. \A k \in 1 .. len : \A R \in V : step[k][R] = R \o seqs[k]
    OBVIOUS
  <2> HIDE DEF step
  <2>3. PICK f : Run(f, len, V, <<>>, step)
    BY <1>1, <2>1, Recursion
  <2>4. f \in [0 .. len -> V] /\ f[0] = <<>> /\ \A k \in 1 .. len : f[k] = step[k][f[k - 1]]
    BY <2>3 DEF Run
  <2>5. ASSUME NEW k \in 1 .. len
        PROVE  f[k] = IF k = 1 THEN seqs[k] ELSE f[k - 1] \o seqs[k]
    <3>1. f[k - 1] \in V
      BY <1>1, <2>4
    <3>2. f[k] = f[k - 1] \o seqs[k]
      BY <2>2, <2>4, <3>1
    <3>3. k = 1 => f[k - 1] = <<>>
      BY <2>4
    <3>4. <<>> \o seqs[k] = seqs[k]
      BY <1>1, <1>4
    <3> QED
      BY <3>2, <3>3, <3>4
  <2> DEFINE g == [k \in 1 .. len |-> f[k]]
  <2>7. \A k \in 1 .. len : k = 1 \/ k - 1 \in 1 .. len
    BY <1>1
  <2>8. \A k \in 1 .. len : f[k] = IF k = 1 THEN seqs[k] ELSE g[k - 1] \o seqs[k]
    BY <2>5, <2>7
  <2>9. Is(g)
    BY <2>8
  <2> HIDE DEF g, Is
  <2> QED
    BY <2>9
<1>6. Is(chosen)
  <2> HIDE DEF Is
  <2> QED
    BY <1>5
<1> HIDE DEF chosen
<1>7. \A k \in 1 .. len : chosen[k] = IF k = 1 THEN seqs[k] ELSE chosen[k - 1] \o seqs[k]
  BY <1>6
<1> DEFINE T == {k \in 0 .. len : k = 0 \/ chosen[k] \in V}
<1>8. \A k \in 1 .. len : k - 1 \in T => k \in T
  BY <1>1, <1>4, <1>7
<1>9. 0 .. len \subseteq T
  <2>1. 0 \in T
    BY <1>1
  <2> HIDE DEF T
  <2> QED
    BY <1>1, <1>8, <2>1, SetInduction
<1>10. len = 0 \/ chosen[len] \in V
  BY <1>1, <1>9
<1> QED
  BY <1>1, <1>2, <1>3, <1>10 DEF V

\* A search that finds a node finds one with the name
\* (namespace_solver.c 35-92).
LEMMA NameFound ==
    ASSUME agent \in Agents, NEW start \in agent.nodes, NEW text, NEW depth \in Nat,
           NEW n, n = NamedBelow(agent, start, text, depth), n \in agent.nodes
    PROVE  agent.name[n].text = text
<1> DEFINE Named == {m \in agent.nodes : agent.name[m].text = text}
           S == Named \cup {Overflow}
           V == [agent.nodes -> Seq(S)]
           Hits(d, r, g) == IF ~IsChild(r) THEN <<>>
                            ELSE IF agent.name[r.to].text = text THEN <<r.to>>
                            ELSE IF d = 0 THEN <<Overflow>>
                            ELSE g[r.to]
           Level(d, g) == [m \in DOMAIN agent.refs |->
                              FlattenSeq([i \in DOMAIN agent.refs[m] |-> Hits(d, agent.refs[m][i], g)])]
           Is(f) == f = [d \in 0 .. depth |-> Level(d, f[d - 1])]
           chosen == CHOOSE f : Is(f)
           all == chosen[depth][start]
<1>1. n = IF Overflow \in ToSet(all) THEN Overflow
          ELSE IF all = <<>> THEN NoNode ELSE Last(all)
  BY DEF NamedBelow, LastMatch
<1>2. n = Last(all) /\ all # <<>> /\ n # Overflow
  BY <1>1, AgentShape
<1>3. ASSUME NEW m \in agent.nodes, NEW i \in DOMAIN agent.refs[m], NEW d, NEW g, d = 0 \/ g \in V
      PROVE  Hits(d, agent.refs[m][i], g) \in Seq(S)
  <2>1. agent.refs[m] \in Seq(Reference(agent))
    BY AgentShape
  <2>2. agent.refs[m][i] \in Reference(agent)
    BY <2>1, LenProperties, ElementOfSeq
  <2>3. agent.refs[m][i].to \in agent.nodes
    BY <2>2 DEF Reference
  <2> DEFINE r == agent.refs[m][i]
  <2> HIDE DEF r
  <2>4. agent.name[r.to].text = text => r.to \in S
    BY <2>3 DEF r
  <2>5. d # 0 => g[r.to] \in Seq(S)
    BY <1>3, <2>3 DEF r
  <2>6. \A e \in S : <<e>> \in Seq(S)
    OBVIOUS
  <2>7. <<>> \in Seq(S) /\ <<Overflow>> \in Seq(S)
    OBVIOUS
  <2> HIDE DEF S
  <2> QED
    BY <2>4, <2>5, <2>6, <2>7 DEF r
<1>4. ASSUME NEW d \in 0 .. depth, NEW g, d = 0 \/ g \in V
      PROVE  Level(d, g) \in V
  <2>1. DOMAIN agent.refs = agent.nodes
    BY AgentShape
  <2>2. ASSUME NEW m \in agent.nodes
        PROVE  FlattenSeq([i \in DOMAIN agent.refs[m] |-> Hits(d, agent.refs[m][i], g)]) \in Seq(S)
    <3> DEFINE hits == [i \in DOMAIN agent.refs[m] |-> Hits(d, agent.refs[m][i], g)]
    <3>1. DOMAIN agent.refs[m] = 1 .. Len(agent.refs[m]) /\ Len(agent.refs[m]) \in Nat
      <4>1. agent.refs[m] \in Seq(Reference(agent))
        BY AgentShape
      <4> QED
        BY <4>1, LenProperties
    <3>2. \A i \in DOMAIN agent.refs[m] : Hits(d, agent.refs[m][i], g) \in Seq(S)
      BY <1>3, <1>4
    <3>3. hits \in [1 .. Len(agent.refs[m]) -> Seq(S)]
      <4> HIDE DEF Hits, S
      <4> QED
        BY <3>1, <3>2
    <3>4. hits \in Seq(Seq(S))
      <4> HIDE DEF hits, S
      <4> QED
        BY <3>1, <3>3, SeqDef
    <3> HIDE DEF hits, S
    <3>5. FlattenSeq(hits) \in Seq(S)
      BY <3>4, Flattened
    <3> QED
      BY <3>5 DEF hits
  <2> HIDE DEF Hits, S
  <2> QED
    BY <2>1, <2>2
<1>5. \A g, h : Level(0, g) = Level(0, h)
  OBVIOUS
<1> HIDE DEF V, Level
<1>6. \E f : Is(f)
  <2> DEFINE base == Level(0, <<>>)
             step == [k \in 1 .. depth |-> [g \in V |-> Level(k, g)]]
  <2>1. base \in V /\ \A k \in 1 .. depth : \A g \in V : Level(k, g) \in V
    BY <1>4
  <2>2. step \in Steps(depth, V)
    BY <2>1 DEF Steps
  <2>3. \A k \in 1 .. depth : \A g \in V : step[k][g] = Level(k, g)
    OBVIOUS
  <2>4. \A g : Level(0, g) = base
    BY <1>5
  <2> HIDE DEF step, base
  <2>5. PICK f : Run(f, depth, V, base, step)
    BY <2>1, <2>2, Recursion
  <2>6. f \in [0 .. depth -> V] /\ f[0] = base /\ \A k \in 1 .. depth : f[k] = step[k][f[k - 1]]
    BY <2>5 DEF Run
  <2>7. ASSUME NEW k \in 0 .. depth PROVE f[k] = Level(k, f[k - 1])
    <3>1. CASE k = 0
      BY <2>4, <2>6, <3>1
    <3>2. CASE k # 0
      <4>1. k \in 1 .. depth /\ f[k - 1] \in V
        BY <2>6, <3>2
      <4> QED
        BY <2>3, <2>6, <4>1
    <3> QED
      BY <3>1, <3>2
  <2> QED
    BY <2>6, <2>7
<1>7. Is(chosen)
  <2> HIDE DEF Is
  <2> QED
    BY <1>6
<1> HIDE DEF chosen
<1>8. \A d \in 0 .. depth : chosen[d] = Level(d, chosen[d - 1])
  BY <1>7
<1> DEFINE T == {d \in 0 .. depth : chosen[d] \in V}
<1>9. 0 .. depth \subseteq T
  <2>1. 0 \in T
    BY <1>4, <1>8
  <2>2. ASSUME NEW d \in 1 .. depth, d - 1 \in T PROVE d \in T
    <3>1. d \in 0 .. depth /\ chosen[d - 1] \in V
      BY <2>2
    <3> QED
      BY <1>4, <1>8, <3>1
  <2> HIDE DEF T
  <2> QED
    BY <2>1, <2>2, SetInduction
<1>10. all \in Seq(S)
  <2>1. chosen[depth] \in V
    BY <1>9
  <2> HIDE DEF S
  <2> QED
    BY <2>1 DEF V
<1> HIDE DEF all
<1>11. Last(all) \in S
  <2>1. Len(all) \in 1 .. Len(all)
    <3> HIDE DEF S
    <3> QED
      BY <1>2, <1>10, EmptySeq
  <2> HIDE DEF S
  <2> QED
    BY <1>10, <2>1, ElementOfSeq DEF Last
<1> QED
  BY <1>2, <1>11

-----------------------------------------------------------------------------
(* The elements picked from a sequence.                                    *)

PicksOn(f, s, I, n) ==
    /\ f[0] = <<>>
    /\ \A k \in 1 .. n : f[k] = IF k \in I THEN Append(f[k - 1], s[k]) ELSE f[k - 1]

\* Picked is the last value of a function that picks on.
LEMMA PickedFollows ==
    ASSUME NEW n \in Nat, NEW s, NEW I
    PROVE  \E f : PicksOn(f, s, I, n) /\ Picked(s, I, n) = f[n]
<1> DEFINE S == {s[k] : k \in 1 .. n}
           V == Seq(S)
           On(k, v) == IF k \in I THEN Append(v, s[k]) ELSE v
           Is(f) == f = [k \in 0 .. n |-> IF k = 0 THEN <<>>
                                           ELSE IF k \in I THEN Append(f[k - 1], s[k]) ELSE f[k - 1]]
           chosen == CHOOSE f : Is(f)
<1>1. Picked(s, I, n) = chosen[n]
  BY DEF Picked
<1>2. <<>> \in V /\ \A k \in 1 .. n : \A v \in V : On(k, v) \in V
  <2>1. \A k \in 1 .. n : s[k] \in S
    OBVIOUS
  <2> HIDE DEF S
  <2> QED
    BY <2>1, EmptySeq, AppendProperties
<1>3. \E f : Is(f)
  <2> DEFINE step == [k \in 1 .. n |-> [v \in V |-> On(k, v)]]
  <2> HIDE DEF V, On
  <2>1. step \in Steps(n, V)
    BY <1>2 DEF Steps
  <2>2. \A k \in 1 .. n : \A v \in V : step[k][v] = On(k, v)
    OBVIOUS
  <2> HIDE DEF step
  <2>3. PICK f : Run(f, n, V, <<>>, step)
    BY <1>2, <2>1, Recursion
  <2>4. f \in [0 .. n -> V] /\ f[0] = <<>> /\ \A k \in 1 .. n : f[k] = step[k][f[k - 1]]
    BY <2>3 DEF Run
  <2>5. ASSUME NEW k \in 0 .. n
        PROVE  f[k] = IF k = 0 THEN <<>> ELSE On(k, f[k - 1])
    <3>1. CASE k = 0
      BY <2>4, <3>1
    <3>2. CASE k # 0
      <4>1. k \in 1 .. n /\ f[k - 1] \in V
        BY <2>4, <3>2
      <4> QED
        BY <2>2, <2>4, <4>1
    <3> QED
      BY <3>1, <3>2
  <2> QED
    BY <2>4, <2>5 DEF On
<1>4. Is(chosen)
  <2> HIDE DEF Is
  <2> QED
    BY <1>3
<1> HIDE DEF chosen
<1>5. \A k \in 0 .. n : chosen[k] = IF k = 0 THEN <<>> ELSE On(k, chosen[k - 1])
  BY <1>4
<1>6. PicksOn(chosen, s, I, n)
  <2>1. \A k \in 1 .. n : k \in 0 .. n /\ k # 0
    OBVIOUS
  <2>2. \A k \in 1 .. n : chosen[k] = On(k, chosen[k - 1])
    <3> HIDE DEF On
    <3> QED
      BY <1>5, <2>1
  <2> QED
    BY <1>5, <2>2 DEF PicksOn
<1> QED
  BY <1>1, <1>6

\* What is picked depends on what there is to pick only.
LEMMA PicksAgree ==
    ASSUME NEW n \in Nat, NEW f, NEW g, NEW s, NEW t, NEW I, NEW J,
           PicksOn(f, s, I, n), PicksOn(g, t, J, n),
           \A k \in 1 .. n : s[k] = t[k] /\ (k \in I <=> k \in J)
    PROVE  f[n] = g[n]
<1> DEFINE T == {k \in 0 .. n : f[k] = g[k]}
<1>1. 0 \in T
  BY DEF PicksOn
<1>2. \A k \in 1 .. n : k - 1 \in T => k \in T
  BY DEF PicksOn
<1>3. 0 .. n \subseteq T
  <2> HIDE DEF T
  <2> QED
    BY <1>1, <1>2, SetInduction
<1> QED
  BY <1>3

LEMMA PickedSame ==
    ASSUME NEW n \in Nat, NEW s, NEW t, NEW I, NEW J,
           \A k \in 1 .. n : s[k] = t[k] /\ (k \in I <=> k \in J)
    PROVE  Picked(s, I, n) = Picked(t, J, n)
BY PickedFollows, PicksAgree

\* One position more.
LEMMA PickedNext ==
    ASSUME NEW n \in Nat, NEW s, NEW I
    PROVE  Picked(s, I, n + 1) = IF n + 1 \in I THEN Append(Picked(s, I, n), s[n + 1])
                                                ELSE Picked(s, I, n)
<1>1. PICK f : PicksOn(f, s, I, n + 1) /\ Picked(s, I, n + 1) = f[n + 1]
  BY PickedFollows
<1>2. PICK g : PicksOn(g, s, I, n) /\ Picked(s, I, n) = g[n]
  BY PickedFollows
<1>3. PicksOn(f, s, I, n)
  BY <1>1 DEF PicksOn
<1>4. f[n] = g[n]
  BY <1>2, <1>3, PicksAgree
<1>5. f[n + 1] = IF n + 1 \in I THEN Append(f[n], s[n + 1]) ELSE f[n]
  BY <1>1 DEF PicksOn
<1> QED
  BY <1>1, <1>2, <1>4, <1>5

\* Nothing to pick.
LEMMA PickedNone ==
    ASSUME NEW n \in Nat, NEW s, NEW I, \A k \in 1 .. n : k \notin I
    PROVE  Picked(s, I, n) = <<>>
<1>1. PICK f : PicksOn(f, s, I, n) /\ Picked(s, I, n) = f[n]
  BY PickedFollows
<1> DEFINE g == [k \in 0 .. n |-> <<>>]
<1>2. PicksOn(g, s, I, n)
  BY DEF PicksOn
<1>3. g[n] = <<>>
  OBVIOUS
<1> HIDE DEF g
<1> QED
  BY <1>1, <1>2, <1>3, PicksAgree

-----------------------------------------------------------------------------
(* The way up to the entry.                                                *)

\* A mirror node was made for the same mapping as the entry it is below.
LEMMA EntryHasMapping ==
    ASSUME MirrorWithinImage, Len(mirror) \in Nat, DOMAIN mirror = 1 .. Len(mirror),
           NEW i \in DOMAIN mirror
    PROVE  mirror[EntryOf(i)].mapping = mirror[i].mapping
<1> DEFINE Up(k, f) == IF mirror[k].class = "entry" THEN k ELSE f[mirror[k].parent]
           Is(f, n) == f = [k \in 1 .. n |-> Up(k, f)]
           chosen == CHOOSE f : Is(f, i)
<1> i \in Nat
  OBVIOUS
<1>1. EntryOf(i) = chosen[i]
  BY DEF EntryOf
<1>2. \A k \in 1 .. i : mirror[k].class # "entry" =>
          mirror[k].parent \in 1 .. k - 1 /\ mirror[mirror[k].parent].mapping = mirror[k].mapping
  BY DEF MirrorWithinImage
<1>3. \E f : Is(f, i)
  <2> DEFINE T == {n \in 0 .. i : \E f : Is(f, n)}
  <2>1. 0 \in T
    <3>1. Is(<<>>, 0)
      OBVIOUS
    <3> HIDE DEF Is
    <3> QED
      BY <3>1
  <2>2. ASSUME NEW n \in 1 .. i, n - 1 \in T PROVE n \in T
    <3>1. PICK f : Is(f, n - 1)
      BY <2>2
    <3> DEFINE g == [k \in 1 .. n |-> IF k = n THEN Up(n, f) ELSE f[k]]
    <3>2. \A k \in 1 .. n - 1 : g[k] = f[k]
      OBVIOUS
    <3>3. ASSUME NEW k \in 1 .. n PROVE g[k] = Up(k, g)
      <4>1. Up(k, g) = Up(k, f)
        BY <1>2, <3>2
      <4>2. k # n => k \in 1 .. n - 1
        OBVIOUS
      <4>3. \A j \in 1 .. n - 1 : f[j] = Up(j, f)
        BY <3>1
      <4> HIDE DEF Up
      <4> QED
        BY <4>1, <4>2, <4>3
    <3>4. Is(g, n)
      BY <3>3
    <3> HIDE DEF Is, g
    <3> QED
      BY <3>4
  <2>3. 0 .. i \subseteq T
    <3> HIDE DEF T
    <3> QED
      BY <2>1, <2>2, SetInduction
  <2> QED
    BY <2>3
<1>4. Is(chosen, i)
  <2> HIDE DEF Is
  <2> QED
    BY <1>3
<1> HIDE DEF chosen
<1>5. \A k \in 1 .. i : chosen[k] = Up(k, chosen)
  BY <1>4
<1> DEFINE T == {k \in 1 .. i : mirror[chosen[k]].mapping = mirror[k].mapping}
<1>6. ASSUME NEW k \in 1 .. i, 1 .. k - 1 \subseteq T PROVE k \in T
  <2>1. CASE mirror[k].class = "entry"
    BY <1>5, <2>1
  <2>2. CASE mirror[k].class # "entry"
    BY <1>2, <1>5, <1>6, <2>2
  <2> QED
    BY <2>1, <2>2
<1>7. 1 .. i \subseteq T
  <2> HIDE DEF T
  <2> QED
    BY <1>6, SetInductionBelow
<1> QED
  BY <1>1, <1>7
=============================================================================

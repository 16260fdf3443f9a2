-------------------------- MODULE NodeMirrorProofs --------------------------
(***************************************************************************)
(* What holds of the mirror of any agent, for any mappings, namespaces and *)
(* types, and wherever the connection is lost.                             *)
(***************************************************************************)
EXTENDS NodeMirrorLemmas

-----------------------------------------------------------------------------
(***************************************************************************)
(* The inductive invariant.  The mirror alone does not say what the next   *)
(* node will hang under: the activations on the stack do, so the invariant *)
(* ties every activation to the mirror of the object it works on.          *)
(***************************************************************************)
Works(h) ==
    /\ mirror[h.parent].class \in {"entry", "object"}
    /\ mirror[h.parent].mapping = h.currentMappingIndex
    /\ mirror[h.parent].remote = h.remoteParentObject
    /\ \A j \in DOMAIN h.rest :
           ~h.rest[j].inverse => HasChild(agent, h.remoteParentObject, h.rest[j].to)

Working == {h \in Activation : Works(h)}

Inv ==
    /\ TypeOK
    /\ stack \in Seq(Working)
    /\ status = "walk" => index <= Len(Mappings)
    /\ status = "connect" => mirror = <<>>
    /\ MirrorWithinImage
    /\ CalledOnItsObject
    /\ NamesMeanTheSame

\* Nothing is mirrored before the connect.
LEMMA InitInv == Init => Inv
<1> SUFFICES ASSUME Init PROVE Inv
  OBVIOUS
<1>1. /\ agent \in Agents /\ mirror = <<>> /\ DOMAIN mirror = {}
      /\ stack = <<>> /\ found = <<>> /\ subscriptionNodes = <<>> /\ items = <<>>
  BY DEF Init
<1>2. \A S : <<>> \in Seq(S) /\ Len(<<>>) = 0
  BY EmptySeq
<1>3. Len(Mappings) \in Nat /\ Len(stack) <= StackDepth
  BY <1>1, <1>2, MappingAssumption, LenProperties
<1>4. TypeOK
  <2>1. /\ found \in Seq(agent.nodes) /\ mirror \in Seq(MirrorNode)
        /\ stack \in Seq(Activation)
        /\ subscriptionNodes \in Seq(DOMAIN mirror) /\ items \in Seq(DOMAIN mirror)
    BY <1>1, <1>2
  <2>2. index \in 1 .. Len(Mappings) + 1
    BY <1>3 DEF Init
  <2> QED
    BY <1>1, <1>3, <2>1, <2>2 DEF Init, TypeOK
<1>5. MirrorWithinImage /\ CalledOnItsObject /\ NamesMeanTheSame
  BY <1>1 DEF MirrorWithinImage, CalledOnItsObject, NamesMeanTheSame
<1> QED
  BY <1>1, <1>2, <1>4, <1>5 DEF Inv, Init

\* The activation that visits a reference has a mirror to hang its copy under,
\* and stays on the stack without the reference.
LEMMA Visited ==
    ASSUME Inv, Visiting
    PROVE  /\ Top \in Working
           /\ Ref \in Reference(agent)
           /\ ~Ref.inverse => HasChild(agent, Top.remoteParentObject, Ref.to)
           /\ Advanced \in Seq(Working)
           /\ Advanced # <<>>
           /\ Len(Advanced) = Len(stack)
<1>1. stack \in Seq(Working) /\ stack # <<>> /\ Top.rest # <<>>
  BY DEF Inv, TypeOK, Visiting
<1>2. Top \in Working /\ Tail(stack) \in Seq(Working) /\ Len(Tail(stack)) = Len(stack) - 1
      /\ Len(stack) \in Nat
  BY <1>1, HeadTailProperties, LenProperties DEF Top
<1>3. Top \in Activation /\ Works(Top) /\ Top.rest \in Seq(Reference(agent))
  BY <1>2 DEF Working, Activation
<1>4. /\ Ref \in Reference(agent) /\ Tail(Top.rest) \in Seq(Reference(agent))
      /\ Len(Tail(Top.rest)) = Len(Top.rest) - 1
      /\ \A j \in 1 .. Len(Tail(Top.rest)) : Tail(Top.rest)[j] = Top.rest[j + 1]
      /\ DOMAIN Top.rest = 1 .. Len(Top.rest) /\ Len(Top.rest) \in Nat
      /\ DOMAIN Tail(Top.rest) = 1 .. Len(Tail(Top.rest))
      /\ 1 \in DOMAIN Top.rest /\ Ref = Top.rest[1]
  <2> DEFINE rest == Top.rest
  <2> SUFFICES /\ Head(rest) \in Reference(agent) /\ Tail(rest) \in Seq(Reference(agent))
               /\ Len(Tail(rest)) = Len(rest) - 1
               /\ \A j \in 1 .. Len(Tail(rest)) : Tail(rest)[j] = rest[j + 1]
               /\ DOMAIN rest = 1 .. Len(rest) /\ Len(rest) \in Nat
               /\ DOMAIN Tail(rest) = 1 .. Len(Tail(rest))
               /\ 1 \in DOMAIN rest /\ Head(rest) = rest[1]
    BY DEF Ref
  <2>1. rest \in Seq(Reference(agent)) /\ rest # <<>>
    BY <1>1, <1>3
  <2> HIDE DEF rest
  <2>2. DOMAIN rest = 1 .. Len(rest) /\ Len(rest) \in Nat /\ Len(rest) # 0
    BY <2>1, LenProperties, EmptySeq
  <2> QED
    BY <2>1, <2>2, HeadTailProperties, LenProperties
<1>5. ~Ref.inverse => HasChild(agent, Top.remoteParentObject, Ref.to)
  BY <1>3, <1>4 DEF Works
<1> DEFINE next == [Top EXCEPT !.rest = Tail(@)]
<1>6. /\ next \in Activation /\ next.rest = Tail(Top.rest) /\ next.parent = Top.parent
      /\ next.currentMappingIndex = Top.currentMappingIndex
      /\ next.remoteParentObject = Top.remoteParentObject
  BY <1>3, <1>4 DEF Activation
<1>7. next \in Working
  <2> HIDE DEF next
  <2> DEFINE rest == Tail(Top.rest)
  <2>1. \A j \in DOMAIN rest : j + 1 \in DOMAIN Top.rest /\ rest[j] = Top.rest[j + 1]
    BY <1>4
  <2> HIDE DEF rest
  <2>2. \A j \in DOMAIN rest :
            ~rest[j].inverse => HasChild(agent, Top.remoteParentObject, rest[j].to)
    BY <1>3, <2>1 DEF Works
  <2>3. Works(next)
    BY <1>3, <1>6, <2>2 DEF Works, rest
  <2> QED
    BY <1>6, <2>3 DEF Working
<1>8. Advanced = <<next>> \o Tail(stack)
  BY DEF Advanced
<1> HIDE DEF next
<1>9. <<next>> \in Seq(Working) /\ Len(<<next>>) = 1
  BY <1>7
<1>10. /\ Advanced \in Seq(Working) /\ Len(Advanced) = Len(stack)
  BY <1>2, <1>8, <1>9, ConcatProperties
<1>11. Advanced # <<>>
  BY <1>1, <1>2, <1>10, EmptySeq
<1> QED
  BY <1>2, <1>4, <1>5, <1>10, <1>11

\* A sequence of indices stays one when the range grows.
LEMMA SeqGrows ==
    ASSUME NEW S, NEW T, S \subseteq T
    PROVE  Seq(S) \subseteq Seq(T)
BY SeqDef

\* A new mirror node leaves the older ones and the work of all activations as
\* they are.
LEMMA MirrorGrows ==
    ASSUME Inv, NEW m \in MirrorNode, agent' = agent, mirror' = Append(mirror, m)
    PROVE  /\ mirror' \in Seq(MirrorNode')
           /\ Len(mirror) \in Nat /\ DOMAIN mirror = 1 .. Len(mirror)
           /\ DOMAIN mirror' = 1 .. Len(mirror) + 1
           /\ \A i \in DOMAIN mirror : mirror'[i] = mirror[i]
           /\ mirror'[Len(mirror) + 1] = m
           /\ Seq(Working) \subseteq Seq(Working')
           /\ Seq(DOMAIN mirror) \subseteq Seq(DOMAIN mirror')
<1>1. mirror \in Seq(MirrorNode)
  BY DEF Inv, TypeOK
<1>2. MirrorNode' = MirrorNode
  BY DEF MirrorNode
<1>3. /\ mirror' \in Seq(MirrorNode)
      /\ Len(mirror) \in Nat /\ DOMAIN mirror = 1 .. Len(mirror)
      /\ DOMAIN mirror' = 1 .. Len(mirror) + 1
      /\ \A i \in DOMAIN mirror : mirror'[i] = mirror[i]
      /\ mirror'[Len(mirror) + 1] = m
  BY <1>1, AppendProperties, LenProperties
<1>4. DOMAIN mirror \subseteq DOMAIN mirror'
  BY <1>3
<1>5. Working \subseteq Working'
  <2> SUFFICES ASSUME NEW h \in Working PROVE h \in Working'
    OBVIOUS
  <2>1. h \in Activation /\ Works(h)
    BY DEF Working
  <2>2. h \in Activation'
    BY <1>4, <2>1 DEF Activation
  <2>3. h.parent \in DOMAIN mirror
    BY <2>1 DEF Activation
  <2>4. mirror'[h.parent] = mirror[h.parent]
    BY <1>3, <2>3
  <2>5. Works(h)'
    BY <2>1, <2>4 DEF Works
  <2> QED
    BY <2>2, <2>5 DEF Working
<1> QED
  BY <1>2, <1>3, <1>4, <1>5, SeqGrows

\* The properties of the mirror after a node has been added to it: as an
\* entry, or under the mirror of the object an activation works on.
LEMMA ImageGrows ==
    ASSUME Inv, NEW m \in MirrorNode, agent' = agent, mirror' = Append(mirror, m),
           \/ m.class = "entry"
           \/ \E h \in Working :
                  /\ m.parent = h.parent /\ m.mapping = h.currentMappingIndex
                  /\ HasChild(agent, h.remoteParentObject, m.remote)
                  /\ m.class = "method" => m.object = h.remoteParentObject
                  /\ m.added => mirror[h.parent].added,
           connection' = "open" => connection = "open" /\ MeansTheSame(m)
    PROVE  MirrorWithinImage' /\ CalledOnItsObject' /\ NamesMeanTheSame'
<1> DEFINE new == Len(mirror) + 1
<1>1. /\ Len(mirror) \in Nat /\ DOMAIN mirror = 1 .. Len(mirror)
      /\ DOMAIN mirror' = 1 .. new /\ mirror'[new] = m
      /\ \A i \in DOMAIN mirror : mirror'[i] = mirror[i]
  BY MirrorGrows
<1> HIDE DEF new
<1>2. /\ new \in Nat /\ \A i \in DOMAIN mirror' : i \in DOMAIN mirror \/ i = new
      /\ \A i \in DOMAIN mirror : i < new
  BY <1>1 DEF new
<1>3. ASSUME m.class # "entry"
      PROVE  /\ m.parent \in 1 .. new - 1
             /\ mirror'[m.parent] = mirror[m.parent]
             /\ mirror[m.parent].class \in {"entry", "object"}
             /\ mirror[m.parent].mapping = m.mapping
             /\ HasChild(agent, mirror[m.parent].remote, m.remote)
             /\ m.class = "method" => m.object = mirror[m.parent].remote
             /\ m.added => mirror[m.parent].added
  <2>1. PICK h \in Working :
            /\ m.parent = h.parent /\ m.mapping = h.currentMappingIndex
            /\ HasChild(agent, h.remoteParentObject, m.remote)
            /\ m.class = "method" => m.object = h.remoteParentObject
            /\ m.added => mirror[h.parent].added
    BY <1>3
  <2>2. h.parent \in DOMAIN mirror /\ Works(h)
    BY DEF Working, Activation
  <2>3. m.parent \in 1 .. new - 1 /\ mirror'[m.parent] = mirror[m.parent]
    BY <1>1, <2>1, <2>2 DEF new
  <2> QED
    BY <2>1, <2>2, <2>3 DEF Works
<1>4. MirrorWithinImage'
  <2> SUFFICES ASSUME NEW i \in DOMAIN mirror', mirror'[i].class # "entry"
               PROVE  /\ mirror'[i].parent \in 1 .. i - 1
                      /\ mirror'[mirror'[i].parent].class \in {"entry", "object"}
                      /\ mirror'[mirror'[i].parent].mapping = mirror'[i].mapping
                      /\ HasChild(agent, mirror'[mirror'[i].parent].remote, mirror'[i].remote)
                      /\ mirror'[i].added => mirror'[mirror'[i].parent].added
    BY DEF MirrorWithinImage
  <2>1. CASE i = new
    BY <1>1, <1>3, <2>1
  <2>2. CASE i \in DOMAIN mirror
    <3>1. /\ mirror[i].parent \in 1 .. i - 1
          /\ mirror[mirror[i].parent].class \in {"entry", "object"}
          /\ mirror[mirror[i].parent].mapping = mirror[i].mapping
          /\ HasChild(agent, mirror[mirror[i].parent].remote, mirror[i].remote)
          /\ mirror[i].added => mirror[mirror[i].parent].added
      BY <1>1, <2>2 DEF Inv, MirrorWithinImage
    <3>2. mirror[i].parent \in DOMAIN mirror
      BY <1>1, <2>2, <3>1
    <3> QED
      BY <1>1, <2>2, <3>1, <3>2
  <2> QED
    BY <1>2, <2>1, <2>2
<1>5. CalledOnItsObject'
  <2> SUFFICES ASSUME NEW i \in DOMAIN mirror', mirror'[i].class = "method"
               PROVE  mirror'[i].object = mirror'[mirror'[i].parent].remote
    BY DEF CalledOnItsObject
  <2>1. CASE i = new
    BY <1>1, <1>3, <2>1
  <2>2. CASE i \in DOMAIN mirror
    <3>1. /\ mirror[i].parent \in 1 .. i - 1
          /\ mirror[i].object = mirror[mirror[i].parent].remote
      BY <1>1, <2>2 DEF Inv, MirrorWithinImage, CalledOnItsObject
    <3>2. mirror[i].parent \in DOMAIN mirror
      BY <1>1, <2>2, <3>1
    <3> QED
      BY <1>1, <2>2, <3>1, <3>2
  <2> QED
    BY <1>2, <2>1, <2>2
<1>6. NamesMeanTheSame'
  <2> SUFFICES ASSUME connection' = "open", NEW i \in DOMAIN mirror'
               PROVE  MeansTheSame(mirror[i])'
    BY DEF NamesMeanTheSame
  <2>1. MeansTheSame(mirror'[i])
    BY <1>1, <1>2 DEF Inv, NamesMeanTheSame
  <2> QED
    BY <2>1 DEF MeansTheSame, KnownUri, RemoteUri, LocalUri
<1> QED
  BY <1>4, <1>5, <1>6

-----------------------------------------------------------------------------
(* The steps.                                                              *)

\* Steps that leave the mirror alone.  The invariant then depends on where the
\* registration goes on.
LEMMA QuietStep ==
    ASSUME Inv, UNCHANGED <<agent, mirror, subscriptionNodes>>,
           connection' \in {"none", "open", "lost"},
           connection' = "open" => connection = "open" \/ mirror = <<>>,
           client' \in BOOLEAN,
           status' \in {"resolve", "walk", "thread", "ready", "undefined"},
           index' \in 1 .. Len(Mappings) + 1,
           found' \in Seq(agent.nodes),
           stack' \in Seq(Working), Len(stack') <= StackDepth,
           status' = "walk" => stack' # <<>> /\ index' <= Len(Mappings),
           items' \in Seq(DOMAIN mirror)
    PROVE  Inv'
<1>1. MirrorNode' = MirrorNode /\ Activation' = Activation
  BY DEF MirrorNode, Activation
<1>2. Working' = Working
  BY <1>1 DEF Working, Works
<1>3. Working \subseteq Activation
  BY DEF Working
<1>4. /\ stack' \in Seq(Working') /\ stack' \in Seq(Activation')
      /\ mirror' \in Seq(MirrorNode')
      /\ subscriptionNodes' \in Seq(DOMAIN mirror') /\ items' \in Seq(DOMAIN mirror')
  BY <1>1, <1>2, <1>3, SeqGrows DEF Inv, TypeOK
<1>5. TypeOK'
  BY <1>4 DEF Inv, TypeOK
<1>6. MirrorWithinImage' /\ CalledOnItsObject'
  BY DEF Inv, MirrorWithinImage, CalledOnItsObject
<1>7. NamesMeanTheSame'
  <2> SUFFICES ASSUME connection' = "open", NEW i \in DOMAIN mirror
               PROVE  MeansTheSame(mirror[i])'
    BY DEF NamesMeanTheSame
  <2>1. mirror # <<>>
    OBVIOUS
  <2>2. MeansTheSame(mirror[i])
    BY <2>1 DEF Inv, NamesMeanTheSame
  <2> QED
    BY <2>2 DEF MeansTheSame, KnownUri, RemoteUri, LocalUri
<1> QED
  BY <1>4, <1>5, <1>6, <1>7 DEF Inv

\* Steps that copy a node.
LEMMA CopyStep ==
    ASSUME Inv, NEW m \in MirrorNode, agent' = agent, mirror' = Append(mirror, m),
           connection = "open",
           connection' \in {"open", "lost"},
           \/ m.class = "entry"
           \/ \E h \in Working :
                  /\ m.parent = h.parent /\ m.mapping = h.currentMappingIndex
                  /\ HasChild(agent, h.remoteParentObject, m.remote)
                  /\ m.class = "method" => m.object = h.remoteParentObject
                  /\ m.added => mirror[h.parent].added,
           connection' = "open" => MeansTheSame(m),
           UNCHANGED <<client, index, found, items>>,
           index <= Len(Mappings), status' = "walk",
           stack' \in Seq(Working'), stack' # <<>>, Len(stack') <= StackDepth,
           subscriptionNodes' \in Seq(DOMAIN mirror')
    PROVE  Inv'
<1>1. MirrorWithinImage' /\ CalledOnItsObject' /\ NamesMeanTheSame'
  BY ImageGrows
<1>2. mirror' \in Seq(MirrorNode') /\ items' \in Seq(DOMAIN mirror')
  BY MirrorGrows DEF Inv, TypeOK
<1>3. Working' \subseteq Activation'
  BY DEF Working
<1>4. stack' \in Seq(Activation')
  BY <1>3, SeqGrows
<1>5. TypeOK'
  BY <1>2, <1>4 DEF Inv, TypeOK
<1> QED
  BY <1>1, <1>5 DEF Inv

\* What is browsed of an object or an entry that has just been copied makes an
\* activation.
LEMMA HandleWorks ==
    ASSUME Inv, NEW m \in MirrorNode, agent' = agent, mirror' = Append(mirror, m),
           m.class \in {"entry", "object"}, NEW open \in BOOLEAN
    PROVE  Handle(m.remote, Len(mirror) + 1, m.mapping, open) \in Working'
<1> DEFINE new == Len(mirror) + 1
<1> SUFFICES ASSUME NEW h, h = Handle(m.remote, new, m.mapping, open)
             PROVE  h \in Working'
  OBVIOUS
<1>1. m.remote \in agent.nodes /\ m.mapping \in 1 .. Len(Mappings)
  BY DEF MirrorNode
<1>2. agent.refs[m.remote] \in Seq(Reference(agent)) /\ <<>> \in Seq(Reference(agent))
  BY <1>1, AgentAssumption, EmptySeq DEF AgentOK, Inv, TypeOK
<1>3. new \in DOMAIN mirror' /\ mirror'[new] = m
  BY MirrorGrows
<1> HIDE DEF new
<1>4. /\ h.rest = (IF open THEN agent.refs[m.remote] ELSE <<>>)
      /\ h.remoteParentObject = m.remote /\ h.parent = new
      /\ h.currentMappingIndex = m.mapping
      /\ h = [remoteParentObject |-> m.remote, parent |-> new,
              currentMappingIndex |-> m.mapping, rest |-> h.rest]
  BY DEF Handle, Browse
<1>5. h.rest \in Seq(Reference(agent))
  BY <1>2, <1>4
<1>6. h \in Activation'
  BY <1>1, <1>3, <1>4, <1>5 DEF Activation
<1>7. \A j \in DOMAIN h.rest :
          ~h.rest[j].inverse => HasChild(agent, m.remote, h.rest[j].to)
  <2>1. DOMAIN <<>> = {}
    OBVIOUS
  <2> QED
    BY <1>4, <2>1 DEF HasChild
<1>8. Works(h)'
  BY <1>3, <1>4, <1>7 DEF Works
<1> QED
  BY <1>6, <1>8 DEF Working

\* The steps of readRegisteredAgentNS that find an entry node.
LEMMA ResolveInv ==
    ASSUME Inv,
           SearchName \/ NameNotFound \/ ResolveEntry \/ EntryNotFound \/ EntryCut
    PROVE  Inv'
<1>1. /\ found \in Seq(agent.nodes) /\ stack \in Seq(Working) /\ Len(stack) <= StackDepth
      /\ index \in 1 .. Len(Mappings) + 1 /\ client \in BOOLEAN
      /\ items \in Seq(DOMAIN mirror) /\ connection \in {"none", "open", "lost"}
      /\ subscriptionNodes \in Seq(DOMAIN mirror)
      /\ agent \in Agents
  BY DEF Inv, TypeOK
<1>2. CASE SearchName
  <2>1. found' \in Seq(agent.nodes)
    BY <1>1, <1>2, AppendProperties DEF SearchName
  <2> QED
    BY <1>1, <1>2, <2>1, QuietStep DEF SearchName, Resolving, made
<1>3. CASE NameNotFound
  BY <1>1, <1>3, QuietStep DEF NameNotFound, Resolving, walk, made
<1>4. CASE ResolveEntry
  <2>1. PICK n \in Entries, stays \in BOOLEAN, taken \in BOOLEAN :
            /\ connection' = IF stays THEN "open" ELSE "lost"
            /\ mirror' = Append(mirror, Node("entry", n, 0, index, taken))
            /\ stack' = <<Handle(n, Len(mirror) + 1, index, stays)>>
    BY <1>4 DEF ResolveEntry
  <2> DEFINE m == Node("entry", n, 0, index, taken)
  <2>2. n \in agent.nodes /\ index \in 1 .. Len(Mappings)
    <3>1. n \in agent.nodes
      BY <1>1, EntriesAreNodes
    <3>2. Len(Mappings) \in Nat /\ index <= Len(Mappings)
      BY <1>4, MappingAssumption, LenProperties DEF ResolveEntry, Resolving
    <3> QED
      BY <1>1, <3>1, <3>2
  <2>3. /\ agent.name[n] \in [ns : Nat, text : STRING]
        /\ m = [class |-> "entry", remote |-> n, parent |-> 0, mapping |-> index,
                added |-> taken, name |-> agent.name[n], type |-> NoNode, value |-> "none",
                callback |-> "none", object |-> NoNode]
    BY <1>1, <2>2, AgentShape DEF Node, InRegistry
  <2>4. m \in MirrorNode
    BY <2>2, <2>3 DEF MirrorNode
  <2>5. m.class = "entry" /\ m.type = NoNode /\ m.remote = n /\ m.mapping = index
    BY <2>3
  <2> HIDE DEF m
  <2>6. mirror' = Append(mirror, m) /\ agent' = agent
    BY <1>4, <2>1 DEF m, ResolveEntry
  <2>7. stack' \in Seq(Working') /\ stack' # <<>> /\ Len(stack') = 1
    <3> DEFINE h == Handle(n, Len(mirror) + 1, index, stays)
    <3>1. h \in Working'
      BY <2>4, <2>5, <2>6, HandleWorks
    <3> HIDE DEF h
    <3>2. <<h>> \in Seq(Working') /\ <<h>> # <<>> /\ Len(<<h>>) = 1
      BY <3>1
    <3> QED
      BY <2>1, <3>2 DEF h
  <2>8. Len(stack') <= StackDepth
    BY <2>7, MappingAssumption
  <2>9. subscriptionNodes' \in Seq(DOMAIN mirror')
    BY <1>1, <1>4, <2>4, <2>6, MirrorGrows DEF ResolveEntry
  <2>10. MeansTheSame(m)
    BY <2>5 DEF MeansTheSame
  <2> QED
    BY <1>4, <2>1, <2>2, <2>4, <2>5, <2>6, <2>7, <2>8, <2>9, <2>10, CopyStep
       DEF ResolveEntry
<1>5. CASE EntryNotFound
  BY <1>1, <1>5, QuietStep DEF EntryNotFound, Resolving, walk, made
<1>6. CASE EntryCut
  BY <1>1, <1>6, QuietStep DEF EntryCut, Resolving, walk, made
<1> QED
  BY <1>2, <1>3, <1>4, <1>5, <1>6

\* What every step of the walk uses.
LEMMA Shapes ==
    ASSUME Inv
    PROVE  /\ found \in Seq(agent.nodes) /\ stack \in Seq(Working)
           /\ Len(stack) \in Nat /\ Len(stack) <= StackDepth
           /\ index \in 1 .. Len(Mappings) + 1 /\ client \in BOOLEAN
           /\ items \in Seq(DOMAIN mirror) /\ connection \in {"none", "open", "lost"}
           /\ subscriptionNodes \in Seq(DOMAIN mirror)
           /\ agent \in Agents
           /\ status = "walk" => stack # <<>> /\ index <= Len(Mappings)
BY LenProperties DEF Inv, TypeOK

\* A node that is copied is named as at the agent and keeps the mapping of the
\* activation that visits it.
LEMMA CopiedNode ==
    ASSUME Inv, Visiting, Follows(Ref), NEW taken \in BOOLEAN
    PROVE  LET m == Node(ClassOfRef, Ref.to, Top.parent, Top.currentMappingIndex, taken)
           IN  /\ \E a \in BOOLEAN :
                      /\ m = [class |-> ClassOfRef, remote |-> Ref.to, parent |-> Top.parent,
                              mapping |-> Top.currentMappingIndex, added |-> a,
                              name |-> agent.name[Ref.to], type |-> NoNode,
                              value |-> "none", callback |-> "none", object |-> NoNode]
                      /\ a => mirror[Top.parent].added
               /\ Ref.to \in agent.nodes /\ Top.parent \in Nat
               /\ Top.currentMappingIndex \in 1 .. Len(Mappings)
               /\ Top.remoteParentObject \in agent.nodes
               /\ agent.name[Ref.to] \in [ns : Nat, text : STRING]
               /\ Top \in Working
               /\ HasChild(agent, Top.remoteParentObject, Ref.to)
               /\ Advanced \in Seq(Working) /\ Advanced # <<>>
               /\ Len(Advanced) = Len(stack)
<1>1. /\ Top \in Working /\ Ref \in Reference(agent)
      /\ HasChild(agent, Top.remoteParentObject, Ref.to)
      /\ Advanced \in Seq(Working) /\ Advanced # <<>> /\ Len(Advanced) = Len(stack)
  BY Visited DEF Follows
<1>2. Ref.to \in agent.nodes
  BY <1>1 DEF Reference
<1>3. agent.name[Ref.to] \in [ns : Nat, text : STRING]
  BY <1>2, Shapes, AgentShape
<1>4. Top \in Activation /\ DOMAIN mirror = 1 .. Len(mirror) /\ Len(mirror) \in Nat
  BY <1>1, LenProperties DEF Working, Inv, TypeOK
<1>5. /\ Top.parent \in Nat /\ Top.currentMappingIndex \in 1 .. Len(Mappings)
      /\ Top.remoteParentObject \in agent.nodes
  BY <1>4 DEF Activation
<1>6. Top.parent # 0
  BY <1>4 DEF Activation
<1> DEFINE m == Node(ClassOfRef, Ref.to, Top.parent, Top.currentMappingIndex, taken)
           a == taken /\ InRegistry(Top.parent)
<1>7. a \in BOOLEAN /\ (a => mirror[Top.parent].added)
  BY <1>6 DEF InRegistry
<1>8. m = [class |-> ClassOfRef, remote |-> Ref.to, parent |-> Top.parent,
           mapping |-> Top.currentMappingIndex, added |-> a,
           name |-> agent.name[Ref.to], type |-> NoNode, value |-> "none",
           callback |-> "none", object |-> NoNode]
  BY DEF Node
<1> QED
  BY <1>1, <1>2, <1>3, <1>5, <1>7, <1>8

\* An object is mirrored under the parent of its handle, and its handle works.
LEMMA VisitObjectInv == Inv /\ VisitObject => Inv'
<1> SUFFICES ASSUME Inv, VisitObject PROVE Inv'
  OBVIOUS
<1>1. PICK stays \in BOOLEAN, taken \in BOOLEAN,
           type \in {TypeOf(Ref.to, TRUE), TypeOf(Ref.to, FALSE), NoNode} :
          /\ stays => type = TypeOf(Ref.to, TRUE)
          /\ connection' = IF stays THEN "open" ELSE "lost"
          /\ mirror' = Append(mirror,
                [Node("object", Ref.to, Top.parent, Top.currentMappingIndex, taken)
                    EXCEPT !.type = type])
          /\ stack' = <<RecursiveHandle(Len(mirror) + 1, stays)>> \o Advanced
  BY DEF VisitObject
<1> DEFINE base == Node("object", Ref.to, Top.parent, Top.currentMappingIndex, taken)
<1>2. Visiting /\ Follows(Ref) /\ ClassOfRef = "object" /\ connection = "open"
      /\ Len(stack) < StackDepth /\ agent' = agent
      /\ UNCHANGED <<client, status, index, found, subscriptionNodes, items>>
  BY DEF VisitObject, Visits
<1>3. PICK a \in BOOLEAN :
      /\ base = [class |-> "object", remote |-> Ref.to, parent |-> Top.parent,
                 mapping |-> Top.currentMappingIndex, added |-> a,
                 name |-> agent.name[Ref.to], type |-> NoNode, value |-> "none",
                 callback |-> "none", object |-> NoNode]
      /\ a => mirror[Top.parent].added
      /\ Ref.to \in agent.nodes /\ Top.parent \in Nat
      /\ Top.currentMappingIndex \in 1 .. Len(Mappings)
      /\ agent.name[Ref.to] \in [ns : Nat, text : STRING]
      /\ Top \in Working
      /\ HasChild(agent, Top.remoteParentObject, Ref.to)
      /\ Advanced \in Seq(Working) /\ Len(Advanced) = Len(stack)
  BY <1>2, CopiedNode
<1> SUFFICES ASSUME NEW m, m = [base EXCEPT !.type = type] PROVE Inv'
  OBVIOUS
<1>4. type \in LocalObjectTypes \cup {NoNode}
  BY <1>1, <1>3, Shapes, TypeFound
<1>5. /\ m.class = "object" /\ m.remote = Ref.to /\ m.parent = Top.parent
      /\ m.mapping = Top.currentMappingIndex /\ m.type = type
      /\ m.added => mirror[Top.parent].added
      /\ m \in MirrorNode
  <2>1. m = [class |-> "object", remote |-> Ref.to, parent |-> Top.parent,
             mapping |-> Top.currentMappingIndex, added |-> a,
             name |-> agent.name[Ref.to], type |-> type, value |-> "none", callback |-> "none", object |-> NoNode]
    <3> HIDE DEF base
    <3> QED
      BY <1>3
  <2> QED
    BY <1>3, <1>4, <2>1 DEF MirrorNode, Mirrored
<1>6. stays => MeansTheSame(m)
  <2> SUFFICES ASSUME stays, type # NoNode
               PROVE  \E k \in DOMAIN agent.refs[Ref.to] :
                          LET q == agent.name[agent.refs[Ref.to][k].to]
                          IN  /\ q.text = type.text
                              /\ KnownUri(q) => LocalUri(type) = RemoteUri(q)
    BY <1>5 DEF MeansTheSame
  <2>1. agent \in Agents /\ Ref.to \in agent.nodes /\ type = TypeOf(Ref.to, TRUE)
    BY <1>1, <1>3, Shapes
  <2> QED
    BY <2>1, TypeFound
<1>7. mirror' = Append(mirror, m)
  BY <1>1
<1>8. Advanced \in Seq(Working') /\ subscriptionNodes' \in Seq(DOMAIN mirror')
  BY <1>2, <1>3, <1>5, <1>7, MirrorGrows, Shapes
<1> DEFINE h == Handle(m.remote, Len(mirror) + 1, m.mapping, stays)
<1>9. h \in Working' /\ RecursiveHandle(Len(mirror) + 1, stays) = h
  BY <1>2, <1>5, <1>7, HandleWorks DEF RecursiveHandle
<1> HIDE DEF h
<1>10. <<h>> \in Seq(Working') /\ Len(<<h>>) = 1
  BY <1>9
<1>11. stack' = <<h>> \o Advanced
  BY <1>1, <1>9
<1>12. /\ stack' \in Seq(Working') /\ Len(stack') = 1 + Len(stack)
       /\ Len(stack') <= StackDepth /\ stack' # <<>>
  <2> DEFINE rest == Advanced
  <2>1. rest \in Seq(Working') /\ Len(rest) = Len(stack) /\ stack' = <<h>> \o rest
    BY <1>3, <1>8, <1>11
  <2> HIDE DEF rest
  <2>2. stack' \in Seq(Working') /\ Len(stack') = 1 + Len(stack)
    BY <2>1, <1>10, ConcatProperties
  <2>3. Len(stack') <= StackDepth /\ Len(stack') # 0
    BY <2>2, <1>2, Shapes, MappingAssumption
  <2> QED
    BY <2>2, <2>3, EmptySeq
<1>13. status' = "walk" /\ index <= Len(Mappings)
  BY <1>2, Shapes DEF Visiting
<1> QED
  BY <1>1, <1>2, <1>3, <1>5, <1>6, <1>7, <1>8, <1>12, <1>13, CopyStep

\* A method is mirrored with the object its handle has.
LEMMA VisitMethodInv == Inv /\ VisitMethod => Inv'
<1> SUFFICES ASSUME Inv, VisitMethod PROVE Inv'
  OBVIOUS
<1>0. PICK taken \in BOOLEAN :
          mirror' = Append(mirror,
              [Node("method", Ref.to, Top.parent, Top.currentMappingIndex, taken)
                  EXCEPT !.callback = "call", !.object = Top.remoteParentObject])
  BY DEF VisitMethod
<1> DEFINE base == Node("method", Ref.to, Top.parent, Top.currentMappingIndex, taken)
<1>1. /\ Visiting /\ Follows(Ref) /\ ClassOfRef = "method" /\ connection = "open"
      /\ agent' = agent /\ connection' = connection
      /\ mirror' = Append(mirror, [base EXCEPT !.callback = "call",
                                               !.object = Top.remoteParentObject])
      /\ stack' = Advanced
      /\ UNCHANGED <<client, status, index, found, subscriptionNodes, items>>
  BY <1>0 DEF VisitMethod, Visits
<1>2. PICK a \in BOOLEAN :
      /\ base = [class |-> "method", remote |-> Ref.to, parent |-> Top.parent,
                 mapping |-> Top.currentMappingIndex, added |-> a,
                 name |-> agent.name[Ref.to], type |-> NoNode, value |-> "none",
                 callback |-> "none", object |-> NoNode]
      /\ a => mirror[Top.parent].added
      /\ Ref.to \in agent.nodes /\ Top.parent \in Nat
      /\ Top.currentMappingIndex \in 1 .. Len(Mappings)
      /\ Top.remoteParentObject \in agent.nodes
      /\ agent.name[Ref.to] \in [ns : Nat, text : STRING]
      /\ Top \in Working
      /\ HasChild(agent, Top.remoteParentObject, Ref.to)
      /\ Advanced \in Seq(Working) /\ Advanced # <<>> /\ Len(Advanced) = Len(stack)
  BY <1>1, CopiedNode
<1> SUFFICES ASSUME NEW m, m = [base EXCEPT !.callback = "call",
                                            !.object = Top.remoteParentObject]
             PROVE  Inv'
  OBVIOUS
<1>3. /\ m.class = "method" /\ m.remote = Ref.to /\ m.parent = Top.parent
      /\ m.mapping = Top.currentMappingIndex /\ m.type = NoNode
      /\ m.object = Top.remoteParentObject
      /\ m.added => mirror[Top.parent].added
      /\ m \in MirrorNode
  <2> HIDE DEF base
  <2>1. m = [class |-> "method", remote |-> Ref.to, parent |-> Top.parent,
             mapping |-> Top.currentMappingIndex, added |-> a,
             name |-> agent.name[Ref.to], type |-> NoNode, value |-> "none",
             callback |-> "call",
             object |-> Top.remoteParentObject]
    BY <1>2
  <2> QED
    BY <1>2, <2>1 DEF MirrorNode, Mirrored
<1>4. mirror' = Append(mirror, m) /\ MeansTheSame(m)
  BY <1>1, <1>3 DEF MeansTheSame
<1>5. stack' \in Seq(Working') /\ subscriptionNodes' \in Seq(DOMAIN mirror')
      /\ stack' # <<>> /\ Len(stack') <= StackDepth
  BY <1>1, <1>2, <1>3, <1>4, MirrorGrows, Shapes
<1>6. status' = "walk" /\ index <= Len(Mappings)
  BY <1>1, Shapes DEF Visiting
<1> QED
  BY <1>1, <1>2, <1>3, <1>4, <1>5, <1>6, CopyStep

\* A variable is mirrored under a name that means the same, or nothing is.
LEMMA VisitVariableInv == Inv /\ VisitVariable => Inv'
<1> SUFFICES ASSUME Inv, VisitVariable PROVE Inv'
  OBVIOUS
<1>1. PICK stays \in BOOLEAN, valueRead \in BOOLEAN, typeRead \in BOOLEAN,
           nameRead \in BOOLEAN, taken \in BOOLEAN :
          /\ stays => nameRead
          /\ connection' = IF stays THEN "open" ELSE "lost"
          /\ \E written \in ValueOf(Ref.to, valueRead, typeRead) :
                 CopyVariable(Translated(agent.name[Ref.to], nameRead), written, taken)
  BY DEF VisitVariable
<1>2. PICK written \in ValueOf(Ref.to, valueRead, typeRead) :
          CopyVariable(Translated(agent.name[Ref.to], nameRead), written, taken)
  BY <1>1
<1> DEFINE base == Node("variable", Ref.to, Top.parent, Top.currentMappingIndex, taken)
           mode == IF ModeOf(Top) = "subscription" THEN "none" ELSE ModeOf(Top)
           value == IF taken /\ InRegistry(Top.parent) THEN written ELSE "refused"
<1>3. written \in {"copied", "missing", "scrambled", "refused", "undefined"}
  BY DEF ValueOf, write_variable_value
<1>4. /\ Visiting /\ Follows(Ref) /\ ClassOfRef = "variable" /\ connection = "open"
      /\ UNCHANGED <<agent, client, index, found, items>>
  BY DEF VisitVariable, Visits
<1>5. CASE written = "undefined"
  <2>1. status' = "undefined" /\ UNCHANGED <<stack, mirror, subscriptionNodes>>
    BY <1>2, <1>5 DEF CopyVariable
  <2> QED
    BY <1>1, <1>4, <2>1, Shapes, QuietStep
<1>6. CASE written # "undefined"
  <2>1. PICK a \in BOOLEAN :
        /\ base = [class |-> "variable", remote |-> Ref.to, parent |-> Top.parent,
                   mapping |-> Top.currentMappingIndex, added |-> a,
                   name |-> agent.name[Ref.to], type |-> NoNode, value |-> "none",
                   callback |-> "none", object |-> NoNode]
        /\ a => mirror[Top.parent].added
        /\ Ref.to \in agent.nodes /\ Top.parent \in Nat
        /\ Top.currentMappingIndex \in 1 .. Len(Mappings)
        /\ Top \in Working
        /\ HasChild(agent, Top.remoteParentObject, Ref.to)
        /\ Advanced \in Seq(Working) /\ Advanced # <<>> /\ Len(Advanced) = Len(stack)
    BY <1>4, CopiedNode
  <2>2. mode \in Modes \cup {"none"}
    <3>1. Mappings[Top.currentMappingIndex] \in [path : Seq(STRING), mode : Modes]
      <4> DEFINE S == [path : Seq(STRING), mode : Modes]
                 i == Top.currentMappingIndex
      <4>1. i \in 1 .. Len(Mappings) /\ Mappings \in Seq(S)
        BY <2>1, MappingAssumption
      <4> HIDE DEF S, i
      <4>2. Mappings[i] \in S
        BY <4>1, ElementOfSeq
      <4> QED
        BY <4>2 DEF S, i
    <3> QED
      BY <3>1 DEF ModeOf
  <2> HIDE DEF mode
  <2> agent \in Agents /\ agent.name[Ref.to] \in QualifiedName(agent)
    BY <2>1, Shapes, AgentShape
  <2> DEFINE name == Translated(agent.name[Ref.to], nameRead)
  <2>3. name \in [ns : Nat, text : STRING]
    BY TranslatedName
  <2>4. stays /\ KnownUri(agent.name[Ref.to]) =>
            LocalUri(name) = RemoteUri(agent.name[Ref.to])
    BY <1>1, TranslatedMeaning
  <2> HIDE DEF name
  <2> HIDE DEF base
  <2>30. value \in {"none", "copied", "missing", "scrambled", "refused"}
    BY <1>3, <1>6
  <2> HIDE DEF value
  <2> SUFFICES ASSUME NEW m, m = [base EXCEPT !.name = name, !.value = value,
                                              !.callback = mode]
               PROVE  Inv'
    OBVIOUS
  <2>5. /\ m.class = "variable" /\ m.remote = Ref.to /\ m.parent = Top.parent
        /\ m.mapping = Top.currentMappingIndex /\ m.type = NoNode /\ m.name = name
        /\ m.added => mirror[Top.parent].added
        /\ m \in MirrorNode
    <3>1. m = [class |-> "variable", remote |-> Ref.to, parent |-> Top.parent,
               mapping |-> Top.currentMappingIndex, added |-> a, name |-> name,
               type |-> NoNode, value |-> value, callback |-> mode, object |-> NoNode]
      BY <2>1
    <3> QED
      BY <2>1, <2>2, <2>3, <2>30, <3>1 DEF MirrorNode, Mirrored
  <2>6. mirror' = Append(mirror, m) /\ stack' = Advanced /\ status' = status
        /\ subscriptionNodes' = IF ModeOf(Top) = "subscription"
                                THEN <<Len(mirror) + 1>> \o subscriptionNodes
                                ELSE subscriptionNodes
    BY <1>2, <1>6 DEF CopyVariable, name, mode, base, value
  <2>7. connection' = "open" => MeansTheSame(m)
    BY <1>1, <2>4, <2>5 DEF MeansTheSame
  <2>8. subscriptionNodes' \in Seq(DOMAIN mirror')
    <3>1. Len(mirror) + 1 \in DOMAIN mirror' /\ subscriptionNodes \in Seq(DOMAIN mirror')
      BY <1>4, <2>5, <2>6, MirrorGrows, Shapes
    <3>2. <<Len(mirror) + 1>> \in Seq(DOMAIN mirror')
      BY <3>1
    <3> QED
      BY <2>6, <3>1, <3>2, ConcatProperties
  <2>9. stack' \in Seq(Working') /\ stack' # <<>> /\ Len(stack') <= StackDepth
    BY <1>4, <2>1, <2>5, <2>6, MirrorGrows, Shapes
  <2>10. status' = "walk" /\ index <= Len(Mappings)
    BY <1>4, <2>6, Shapes DEF Visiting
  <2> QED
    BY <1>1, <1>4, <2>1, <2>5, <2>6, <2>7, <2>8, <2>9, <2>10, CopyStep
<1> QED
  BY <1>5, <1>6

\* The steps of nodeIter that copy nothing.
LEMMA WalkInv ==
    ASSUME Inv, SkipReference \/ VisitUnread \/ VisitCut \/ VisitTooDeep \/ Return
    PROVE  Inv'
<1>1. ASSUME Visiting
      PROVE  /\ Advanced \in Seq(Working) /\ Advanced # <<>> /\ Len(Advanced) <= StackDepth
             /\ status = "walk"
  BY <1>1, Visited, Shapes DEF Visiting
<1>2. CASE SkipReference
  BY <1>1, <1>2, Shapes, QuietStep DEF SkipReference, made
<1>3. CASE VisitUnread
  BY <1>1, <1>3, Shapes, QuietStep DEF VisitUnread, made
<1>4. CASE VisitCut
  BY <1>4, Shapes, QuietStep DEF VisitCut, walk, made
<1>5. CASE VisitTooDeep
  BY <1>5, Shapes, QuietStep DEF VisitTooDeep, walk, made
<1>6. CASE Return
  <2>1. stack # <<>> /\ index <= Len(Mappings) /\ stack \in Seq(Working)
    BY <1>6, Shapes DEF Return
  <2>2. /\ Tail(stack) \in Seq(Working) /\ Len(Tail(stack)) = Len(stack) - 1
    BY <2>1, HeadTailProperties
  <2>3. Len(Tail(stack)) <= StackDepth /\ (Len(stack) > 1 => Tail(stack) # <<>>)
    <3> DEFINE rest == Tail(stack)
    <3>1. Len(rest) = Len(stack) - 1 /\ Len(stack) \in Nat /\ Len(stack) <= StackDepth
      BY <2>2, Shapes
    <3> HIDE DEF rest
    <3>2. Len(<<>>) = 0
      OBVIOUS
    <3>3. Len(rest) <= StackDepth /\ (Len(stack) > 1 => rest # <<>>)
      BY <3>1, <3>2, MappingAssumption
    <3> QED
      BY <3>3 DEF rest
  <2>4. index + 1 \in 1 .. Len(Mappings) + 1 /\ <<>> \in Seq(agent.nodes)
    BY <2>1, Shapes, MappingAssumption, LenProperties
  <2>5. CASE Len(stack) > 1
    BY <1>6, <2>1, <2>2, <2>3, <2>5, Shapes, QuietStep DEF Return, made
  <2>6. CASE ~(Len(stack) > 1)
    BY <1>6, <2>2, <2>3, <2>4, <2>6, Shapes, QuietStep DEF Return, made
  <2> QED
    BY <2>5, <2>6
<1> QED
  BY <1>2, <1>3, <1>4, <1>5, <1>6

\* The beginning and the end of the registration, and the connection.
LEMMA FrameInv ==
    ASSUME Inv, Connect \/ LoseConnection \/ Finish \/ StartThread
    PROVE  Inv'
<1>1. CASE Connect
  <2>1. mirror = <<>>
    BY <1>1 DEF Connect, Inv
  <2> QED
    BY <1>1, <2>1, Shapes, QuietStep DEF Connect, walk, made
<1>2. CASE LoseConnection
  BY <1>2, Shapes, QuietStep DEF LoseConnection, walk, made
<1>3. CASE Finish
  BY <1>3, Shapes, QuietStep DEF Finish, walk, made
<1>4. CASE StartThread
  <2>1. items' \in Seq(DOMAIN mirror)
    BY <1>4, Shapes, EmptySeq DEF StartThread
  <2> QED
    BY <1>4, <2>1, Shapes, QuietStep DEF StartThread, walk
<1> QED
  BY <1>1, <1>2, <1>3, <1>4

\* Every step keeps the invariant.
LEMMA NextInv == Inv /\ [Next]_vars => Inv'
<1> SUFFICES ASSUME Inv, [Next]_vars PROVE Inv'
  OBVIOUS
<1>1. CASE Registration
  BY <1>1, FrameInv, ResolveInv, WalkInv, VisitObjectInv, VisitMethodInv, VisitVariableInv
     DEF Registration, NodeIter
<1>2. CASE LoseConnection
  BY <1>2, FrameInv
<1>3. CASE UNCHANGED vars
  <2>1. UNCHANGED <<agent, connection, client, status, index, found, stack,
                    mirror, subscriptionNodes, items>>
    BY <1>3 DEF vars, walk, made
  <2>2. Working' = Working /\ MirrorNode' = MirrorNode /\ Activation' = Activation
    BY <2>1 DEF Working, Works, MirrorNode, Activation
  <2>3. TypeOK'
    BY <2>1, <2>2 DEF Inv, TypeOK
  <2>4. MirrorWithinImage' /\ CalledOnItsObject' /\ NamesMeanTheSame'
    BY <2>1 DEF Inv, MirrorWithinImage, CalledOnItsObject, NamesMeanTheSame,
                MeansTheSame, KnownUri, RemoteUri, LocalUri
  <2> QED
    BY <2>1, <2>2, <2>3, <2>4 DEF Inv
<1> QED
  BY <1>1, <1>2, <1>3 DEF Next, Terminated

\* The invariant holds throughout.
LEMMA Invariance == Spec => []Inv
<1>1. Inv /\ [Next]_vars => Inv'
  BY NextInv
<1> QED
  BY <1>1, InitInv, PTL DEF Spec

-----------------------------------------------------------------------------
(* The theorems.                                                           *)

\* Every variable keeps its type for any agents, mappings and namespaces; no
\* activation outlives the mirror of its object, and the stack stays within
\* its bound.
THEOREM TypeCorrect == Spec => []TypeOK
<1>1. Inv => TypeOK
  BY DEF Inv
<1> QED
  BY <1>1, Invariance, PTL

\* The mirror is an image of the agent, wherever the connection is lost
\* (node_iterator.c 102-127).
THEOREM MirrorIsImage == Spec => []MirrorWithinImage
<1>1. Inv => MirrorWithinImage
  BY DEF Inv
<1> QED
  BY <1>1, Invariance, PTL

\* Every mirrored method is called on the object it hangs under
\* (node_iterator.c 174-179).
THEOREM MethodsFindTheirObject == Spec => []CalledOnItsObject
<1>1. Inv => CalledOnItsObject
  BY DEF Inv
<1> QED
  BY <1>1, Invariance, PTL

\* Translated names keep their meaning between any two namespace arrays that
\* agree in the first entry (namespace_solver.c 94-142).
THEOREM NamesKeepTheirMeaning == Spec => []NamesMeanTheSame
<1>1. Inv => NamesMeanTheSame
  BY DEF Inv
<1> QED
  BY <1>1, Invariance, PTL
=============================================================================

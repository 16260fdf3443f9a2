------------------------ MODULE NodeMirrorCopyProofs ------------------------
(***************************************************************************)
(* That the right nodes are copied, that all of them are handed to the     *)
(* server, and that their values are kept as the configuration says: of    *)
(* any agent, for any mappings, namespaces and types.                      *)
(***************************************************************************)
EXTENDS NodeMirrorProofs, FiniteSetTheorems

-----------------------------------------------------------------------------
(* Sequences that grow at the head.                                        *)

LEMMA Pushed ==
    ASSUME NEW S, NEW s \in Seq(S), NEW x \in S
    PROVE  LET longer == <<x>> \o s
           IN  /\ longer \in Seq(S) /\ Len(longer) = Len(s) + 1
               /\ DOMAIN longer = 1 .. Len(s) + 1
               /\ longer[1] = x
               /\ \A k \in DOMAIN s : longer[k + 1] = s[k]
<1> DEFINE one == <<x>>
<1>1. one \in Seq(S) /\ Len(one) = 1 /\ one[1] = x
  OBVIOUS
<1>2. DOMAIN s = 1 .. Len(s) /\ Len(s) \in Nat
  BY LenProperties
<1> HIDE DEF one
<1>3. /\ one \o s \in Seq(S) /\ Len(one \o s) = Len(one) + Len(s)
      /\ \A i \in 1 .. Len(one) + Len(s) :
             (one \o s)[i] = IF i <= Len(one) THEN one[i] ELSE s[i - Len(one)]
  BY <1>1, ConcatProperties
<1> DEFINE longer == one \o s
<1>4. DOMAIN longer = 1 .. Len(s) + 1
  BY <1>1, <1>2, <1>3, LenProperties
<1> HIDE DEF longer
<1>5. longer[1] = x /\ \A k \in DOMAIN s : longer[k + 1] = s[k]
  BY <1>1, <1>2, <1>3 DEF longer
<1> QED
  BY <1>1, <1>2, <1>3, <1>4, <1>5 DEF longer, one

-----------------------------------------------------------------------------
(* What the steps do that copy a node.                                     *)

\* A node that is added to the mirror is its last.
LEMMA NodeAdded ==
    ASSUME Inv, NEW m, mirror' = Append(mirror, m)
    PROVE  /\ Len(mirror) \in Nat /\ Len(mirror') = Len(mirror) + 1
           /\ DOMAIN mirror = 1 .. Len(mirror) /\ DOMAIN mirror' = 1 .. Len(mirror) + 1
           /\ \A i \in DOMAIN mirror : mirror'[i] = mirror[i]
           /\ mirror'[Len(mirror) + 1] = m
<1> DEFINE S == MirrorNode \cup {m}
<1>1. mirror \in Seq(S) /\ m \in S
  BY SeqGrows DEF Inv, TypeOK
<1> HIDE DEF S
<1>2. /\ mirror' \in Seq(S) /\ Len(mirror') = Len(mirror) + 1
      /\ \A i \in 1 .. Len(mirror) : mirror'[i] = mirror[i]
      /\ mirror'[Len(mirror) + 1] = m
  BY <1>1, AppendProperties
<1> QED
  BY <1>1, <1>2, LenProperties

\* What may arrive of the value of n while the connection holds.
Arriving(n) == write_variable_value(LocalDataTypes, LocalStructures,
                                    Translated(agent.dataType[n], TRUE))

\* A visit makes the copy of the node the reference leads to, under the mirror
\* of the object that is visited.
Copies(m) ==
    /\ mirror' = Append(mirror, m)
    /\ m.class = ClassOfRef /\ m.class \in Mirrored
    /\ m.remote = Ref.to /\ m.parent = Top.parent /\ m.mapping = Top.currentMappingIndex
    /\ stack' = IF m.class = "object"
                THEN <<Handle(m.remote, Len(mirror) + 1, m.mapping, connection' = "open")>> \o Advanced
                ELSE Advanced
    /\ IF m.class = "variable"
       THEN /\ m.callback = IF ModeOf(Top) = "subscription" THEN "none" ELSE ModeOf(Top)
            /\ subscriptionNodes' = IF ModeOf(Top) = "subscription"
                                    THEN <<Len(mirror) + 1>> \o subscriptionNodes
                                    ELSE subscriptionNodes
            /\ connection' = "open" =>
                   m.value \in Arriving(Ref.to) \cup {"refused"}
       ELSE UNCHANGED subscriptionNodes

Visit == VisitObject \/ VisitMethod \/ VisitVariable

LEMMA VisitCopies ==
    ASSUME Inv, Visit
    PROVE  /\ Visiting /\ Follows(Ref) /\ connection = "open"
           /\ UNCHANGED <<agent, client, index, found, items>>
           /\ \/ /\ status' = "undefined"
                 /\ UNCHANGED <<mirror, stack, subscriptionNodes>>
              \/ UNCHANGED status /\ \E m : Copies(m)
<1>1. CASE VisitObject
  <2>1. PICK stays \in BOOLEAN, taken \in BOOLEAN,
             type \in {TypeOf(Ref.to, TRUE), TypeOf(Ref.to, FALSE), NoNode} :
            /\ connection' = IF stays THEN "open" ELSE "lost"
            /\ mirror' = Append(mirror,
                            [Node("object", Ref.to, Top.parent, Top.currentMappingIndex, taken)
                                EXCEPT !.type = type])
            /\ stack' = <<RecursiveHandle(Len(mirror) + 1, stays)>> \o Advanced
    BY <1>1 DEF VisitObject
  <2> DEFINE m == [Node("object", Ref.to, Top.parent, Top.currentMappingIndex, taken)
                      EXCEPT !.type = type]
  <2>2. /\ m.class = "object" /\ m.remote = Ref.to
        /\ m.parent = Top.parent /\ m.mapping = Top.currentMappingIndex
    BY DEF Node
  <2>3. mirror' = Append(mirror, m)
    BY <2>1
  <2> HIDE DEF m
  <2>4. (connection' = "open") = stays
    BY <2>1
  <2>5. RecursiveHandle(Len(mirror) + 1, stays)
            = Handle(m.remote, Len(mirror) + 1, m.mapping, connection' = "open")
    BY <2>2, <2>4 DEF RecursiveHandle
  <2>6. /\ Visits("object")
        /\ UNCHANGED <<agent, client, status, index, found, subscriptionNodes, items>>
    BY <1>1 DEF VisitObject
  <2>7. Copies(m)
    BY <2>1, <2>2, <2>3, <2>5, <2>6 DEF Copies, Mirrored, Visits
  <2> QED
    BY <2>6, <2>7 DEF Visits
<1>2. CASE VisitMethod
  <2>0. PICK taken \in BOOLEAN :
            mirror' = Append(mirror,
                         [Node("method", Ref.to, Top.parent, Top.currentMappingIndex, taken)
                             EXCEPT !.callback = "call", !.object = Top.remoteParentObject])
    BY <1>2 DEF VisitMethod
  <2> DEFINE m == [Node("method", Ref.to, Top.parent, Top.currentMappingIndex, taken)
                      EXCEPT !.callback = "call", !.object = Top.remoteParentObject]
  <2>1. /\ m.class = "method" /\ m.remote = Ref.to
        /\ m.parent = Top.parent /\ m.mapping = Top.currentMappingIndex
    BY DEF Node
  <2>2. mirror' = Append(mirror, m) /\ stack' = Advanced /\ Visits("method")
        /\ UNCHANGED <<agent, client, status, index, found, subscriptionNodes, items>>
    BY <1>2, <2>0 DEF VisitMethod
  <2> HIDE DEF m
  <2>3. Copies(m)
    BY <2>1, <2>2 DEF Copies, Mirrored, Visits
  <2> QED
    BY <2>2, <2>3 DEF Visits
<1>3. CASE VisitVariable
  <2>1. PICK stays \in BOOLEAN, valueRead \in BOOLEAN, typeRead \in BOOLEAN, nameRead \in BOOLEAN,
             taken \in BOOLEAN :
            /\ (stays => nameRead) /\ (nameRead => typeRead) /\ (typeRead => valueRead)
            /\ connection' = IF stays THEN "open" ELSE "lost"
            /\ \E written \in ValueOf(Ref.to, valueRead, typeRead) :
                   CopyVariable(Translated(agent.name[Ref.to], nameRead), written, taken)
    BY <1>3 DEF VisitVariable
  <2>2. PICK written \in ValueOf(Ref.to, valueRead, typeRead) :
            CopyVariable(Translated(agent.name[Ref.to], nameRead), written, taken)
    BY <2>1
  <2>3. Visits("variable") /\ UNCHANGED <<agent, client, index, found, items>>
    BY <1>3 DEF VisitVariable
  <2>4. CASE written = "undefined"
    BY <2>2, <2>3, <2>4 DEF CopyVariable, Visits
  <2>5. CASE written # "undefined"
    <3> DEFINE name == Translated(agent.name[Ref.to], nameRead)
               mode == IF ModeOf(Top) = "subscription" THEN "none" ELSE ModeOf(Top)
               value == IF taken /\ InRegistry(Top.parent) THEN written ELSE "refused"
               m == [Node("variable", Ref.to, Top.parent, Top.currentMappingIndex, taken)
                        EXCEPT !.name = name, !.value = value, !.callback = mode]
    <3>1. /\ m.class = "variable" /\ m.remote = Ref.to
          /\ m.parent = Top.parent /\ m.mapping = Top.currentMappingIndex
          /\ m.value \in {written, "refused"} /\ m.callback = mode
      <4> HIDE DEF name, mode, value
      <4>1. value \in {written, "refused"}
        BY DEF value
      <4> QED
        BY <4>1 DEF Node
    <3>2. /\ mirror' = Append(mirror, m) /\ stack' = Advanced /\ UNCHANGED status
          /\ subscriptionNodes' = IF ModeOf(Top) = "subscription"
                                  THEN <<Len(mirror) + 1>> \o subscriptionNodes
                                  ELSE subscriptionNodes
      BY <2>2, <2>5 DEF CopyVariable
    <3>3. connection' = "open" => written \in Arriving(Ref.to)
      BY <2>1 DEF ValueOf, Arriving
    <3> HIDE DEF m
    <3>4. Copies(m)
      BY <2>3, <3>1, <3>2, <3>3 DEF Copies, Mirrored, Visits
    <3> QED
      BY <2>3, <3>2, <3>4 DEF Visits
  <2> QED
    BY <2>4, <2>5
<1> QED
  BY <1>1, <1>2, <1>3 DEF Visit

-----------------------------------------------------------------------------
(* How the values are kept.                                                *)

ModeAt(m) == Mappings[m.mapping].mode

\* Every variable of a mapping with subscriptions is listed, nothing else is,
\* and nothing twice.
Listed ==
    /\ \A i \in DOMAIN mirror : mirror[i].class = "variable" =>
           /\ mirror[i].callback = IF ModeAt(mirror[i]) = "subscription" THEN "none" ELSE ModeAt(mirror[i])
           /\ ModeAt(mirror[i]) = "subscription" =>
                  \E k \in DOMAIN subscriptionNodes : subscriptionNodes[k] = i
    /\ \A k \in DOMAIN subscriptionNodes :
           /\ mirror[subscriptionNodes[k]].class = "variable"
           /\ ModeAt(mirror[subscriptionNodes[k]]) = "subscription"
    /\ \A j, k \in DOMAIN subscriptionNodes :
           subscriptionNodes[j] = subscriptionNodes[k] => j = k

\* Nothing is monitored before the thread runs.
Monitored ==
    /\ status \in {"connect", "resolve", "walk", "thread"} => items = <<>>
    /\ items = subscriptionNodes \/ items = <<>>
    /\ status = "ready" /\ connection = "open" => items = subscriptionNodes

\* A copied node that is no variable leaves the list alone.
LEMMA ListedBeside ==
    ASSUME Inv, Listed, NEW m, mirror' = Append(mirror, m), m.class # "variable",
           UNCHANGED subscriptionNodes
    PROVE  Listed'
<1>1. /\ DOMAIN mirror = 1 .. Len(mirror) /\ DOMAIN mirror' = 1 .. Len(mirror) + 1
      /\ Len(mirror) \in Nat
      /\ \A i \in DOMAIN mirror : mirror'[i] = mirror[i]
      /\ mirror'[Len(mirror) + 1] = m
  BY NodeAdded
<1>2. subscriptionNodes \in Seq(DOMAIN mirror)
  BY Shapes
<1>3. \A k \in DOMAIN subscriptionNodes : subscriptionNodes[k] \in DOMAIN mirror
  BY <1>2, ElementOfSeq, LenProperties
<1>4. \A i \in DOMAIN mirror' : i \in DOMAIN mirror \/ mirror'[i] = m
  BY <1>1
<1>5. \A i \in DOMAIN mirror : ModeAt(mirror'[i]) = ModeAt(mirror[i])
  BY <1>1 DEF ModeAt
<1> QED
  BY <1>1, <1>3, <1>4, <1>5 DEF Listed

\* A copied variable comes first in the list if its mapping has subscriptions.
LEMMA ListedVariable ==
    ASSUME Inv, Listed, NEW m, mirror' = Append(mirror, m), m.class = "variable",
           NEW mode, mode = Mappings[m.mapping].mode,
           m.callback = IF mode = "subscription" THEN "none" ELSE mode,
           subscriptionNodes' = IF mode = "subscription"
                                THEN <<Len(mirror) + 1>> \o subscriptionNodes
                                ELSE subscriptionNodes
    PROVE  Listed'
<1> SUFFICES ASSUME NEW new, new = Len(mirror) + 1, NEW list, list = subscriptionNodes,
                    NEW longer, longer = subscriptionNodes'
             PROVE  Listed'
  OBVIOUS
<1>1. /\ DOMAIN mirror = 1 .. Len(mirror) /\ DOMAIN mirror' = 1 .. new
      /\ Len(mirror) \in Nat
      /\ \A i \in DOMAIN mirror : mirror'[i] = mirror[i]
      /\ mirror'[new] = m
  BY NodeAdded
<1>2. list \in Seq(DOMAIN mirror)
  BY Shapes
<1>3. /\ DOMAIN list = 1 .. Len(list) /\ Len(list) \in Nat
      /\ \A k \in DOMAIN list : list[k] \in DOMAIN mirror
  BY <1>2, ElementOfSeq, LenProperties
<1>4. /\ \A i \in DOMAIN mirror' : i \in DOMAIN mirror \/ i = new
      /\ new \in DOMAIN mirror' /\ new \notin DOMAIN mirror
      /\ DOMAIN mirror \subseteq DOMAIN mirror'
  BY <1>1
<1>5. /\ \A i \in DOMAIN mirror : ModeAt(mirror'[i]) = ModeAt(mirror[i])
      /\ ModeAt(mirror'[new]) = mode
  BY <1>1 DEF ModeAt
<1>6. CASE mode # "subscription"
  <2>1. longer = list
    BY <1>6
    <2>2. \A k \in DOMAIN list : mirror'[list[k]] = mirror[list[k]] /\ ModeAt(mirror'[list[k]]) = ModeAt(mirror[list[k]])
    BY <1>1, <1>3, <1>5
  <2> QED
    BY <1>1, <1>3, <1>4, <1>5, <1>6, <2>1, <2>2 DEF Listed
<1>7. CASE mode = "subscription"
  <2>1. longer = <<new>> \o list
    BY <1>7
  <2>2. /\ DOMAIN longer = 1 .. Len(list) + 1
        /\ longer[1] = new
        /\ \A k \in DOMAIN list : longer[k + 1] = list[k]
    <3>1. list \in Seq(DOMAIN mirror') /\ new \in DOMAIN mirror'
      BY <1>2, <1>4, SeqGrows
    <3> QED
      BY <2>1, <3>1, Pushed
  <2>3. \A k \in DOMAIN longer : \/ k = 1 /\ longer[k] = new
                                 \/ k - 1 \in DOMAIN list /\ longer[k] = list[k - 1]
    <3>1. \A k \in 1 .. Len(list) + 1 : k = 1 \/ k - 1 \in 1 .. Len(list)
      BY <1>3
    <3> QED
      BY <1>3, <2>2, <3>1
  <2>4. ASSUME NEW k \in DOMAIN longer
        PROVE  mirror'[longer[k]].class = "variable" /\ ModeAt(mirror'[longer[k]]) = "subscription"
    <3>1. CASE longer[k] = new
      BY <1>1, <1>5, <1>7, <3>1
    <3>2. CASE k - 1 \in DOMAIN list /\ longer[k] = list[k - 1]
      BY <1>1, <1>3, <1>5, <3>2 DEF Listed
    <3> QED
      BY <2>3, <3>1, <3>2
  <2>5. ASSUME NEW j \in DOMAIN longer, NEW k \in DOMAIN longer, longer[j] = longer[k]
        PROVE  j = k
    <3>1. \A i \in DOMAIN list : list[i] # new
      BY <1>3, <1>4
    <3>2. CASE longer[k] = new
      BY <2>3, <2>5, <3>1, <3>2
    <3>3. CASE longer[k] # new
      <4>1. j - 1 \in DOMAIN list /\ k - 1 \in DOMAIN list /\ list[j - 1] = list[k - 1]
        BY <2>3, <2>5, <3>3
      <4>2. j - 1 = k - 1
        BY <4>1 DEF Listed
      <4> QED
        BY <2>2, <4>2, <1>3
    <3> QED
      BY <3>2, <3>3
  <2>6. ASSUME NEW i \in DOMAIN mirror', mirror'[i].class = "variable"
        PROVE  /\ mirror'[i].callback = IF ModeAt(mirror'[i]) = "subscription" THEN "none" ELSE ModeAt(mirror'[i])
               /\ ModeAt(mirror'[i]) = "subscription" => \E k \in DOMAIN longer : longer[k] = i
    <3>1. CASE i = new
      <4>1. 1 \in DOMAIN longer
        BY <1>3, <2>2
      <4> QED
        BY <1>1, <1>5, <1>7, <2>2, <3>1, <4>1
    <3>2. CASE i \in DOMAIN mirror
      <4>1. ASSUME NEW k \in DOMAIN list, list[k] = i
            PROVE  \E n \in DOMAIN longer : longer[n] = i
        <5>1. k + 1 \in DOMAIN longer
          BY <1>3, <2>2
        <5> QED
          BY <2>2, <4>1, <5>1
      <4>2. mirror'[i] = mirror[i]
        BY <1>1, <3>2
      <4>3. /\ mirror[i].callback = IF ModeAt(mirror[i]) = "subscription" THEN "none"
                                    ELSE ModeAt(mirror[i])
            /\ ModeAt(mirror[i]) = "subscription" => \E k \in DOMAIN list : list[k] = i
        BY <2>6, <3>2, <4>2 DEF Listed
      <4> QED
        BY <4>1, <4>2, <4>3
    <3> QED
      BY <1>4, <3>1, <3>2
  <2>7. longer = subscriptionNodes'
    OBVIOUS
  <2> HIDE DEF ModeAt
  <2> QED
    BY ONLY <2>4, <2>5, <2>6, <2>7 DEF Listed
<1> QED
  BY <1>6, <1>7

\* The steps that copy nothing; their list is what it was.
LEMMA QuietListed ==
    ASSUME Inv, Listed, UNCHANGED <<mirror, subscriptionNodes>>
    PROVE  Listed'
BY DEF Listed, ModeAt

\* What every step does to the mirror and the list.
Quiet == UNCHANGED <<mirror, subscriptionNodes>>

LEMMA StepKinds ==
    ASSUME Next
    PROVE  Quiet \/ Visit \/ ResolveEntry
<1>1. SearchName \/ NameNotFound \/ EntryNotFound \/ EntryCut => Quiet
  BY DEF SearchName, NameNotFound, EntryNotFound, EntryCut, made, Quiet
<1>2. SkipReference \/ VisitUnread \/ VisitCut \/ VisitTooDeep \/ Return => Quiet
  BY DEF SkipReference, VisitUnread, VisitCut, VisitTooDeep, Return, made, Quiet
<1>3. Connect \/ LoseConnection \/ Finish \/ StartThread \/ Terminated => Quiet
  BY DEF Connect, LoseConnection, Finish, StartThread, Terminated, vars, made, Quiet
<1> QED
  BY <1>1, <1>2, <1>3 DEF Next, Registration, NodeIter, Visit

\* Every step keeps the list right.
LEMMA NextListed == Inv /\ Listed /\ [Next]_vars => Listed'
<1> SUFFICES ASSUME Inv, Listed, [Next]_vars PROVE Listed'
  OBVIOUS
<1>1. CASE Quiet
  BY <1>1, QuietListed DEF Quiet
<1>2. CASE Visit
  <2>1. ASSUME NEW m, Copies(m)
        PROVE  Listed'
    <3>1. CASE m.class = "variable"
      <4> DEFINE mode == ModeOf(Top)
      <4>1. mode = Mappings[m.mapping].mode
        BY <2>1 DEF Copies, ModeOf
      <4> HIDE DEF mode
      <4>2. /\ m.callback = IF mode = "subscription" THEN "none" ELSE mode
            /\ subscriptionNodes' = IF mode = "subscription"
                                    THEN <<Len(mirror) + 1>> \o subscriptionNodes
                                    ELSE subscriptionNodes
            /\ mirror' = Append(mirror, m)
        BY <2>1, <3>1 DEF Copies, mode
      <4> QED
        BY <3>1, <4>1, <4>2, ListedVariable
    <3>2. CASE m.class # "variable"
      BY <2>1, <3>2, ListedBeside DEF Copies
    <3> QED
      BY <3>1, <3>2
  <2>2. (UNCHANGED <<mirror, subscriptionNodes>>) \/ \E m : Copies(m)
    BY <1>2, VisitCopies
  <2> QED
    BY <2>1, <2>2, QuietListed
<1>3. CASE ResolveEntry
  <2>1. PICK n, taken : mirror' = Append(mirror, Node("entry", n, 0, index, taken))
    BY <1>3 DEF ResolveEntry
  <2> DEFINE m == Node("entry", n, 0, index, taken)
  <2>2. m.class # "variable"
    BY DEF Node
  <2> HIDE DEF m
  <2>3. mirror' = Append(mirror, m) /\ UNCHANGED subscriptionNodes
    BY <1>3, <2>1 DEF ResolveEntry, m
  <2> QED
    BY <2>2, <2>3, ListedBeside
<1>4. (UNCHANGED vars) => Quiet
  BY DEF vars, made, Quiet
<1> QED
  BY <1>1, <1>2, <1>3, <1>4, StepKinds

\* The monitored items are made of the finished list.
LEMMA NextMonitored == Inv /\ Monitored /\ [Next]_vars => Monitored'
<1> SUFFICES ASSUME Inv, Monitored, [Next]_vars PROVE Monitored'
  OBVIOUS
<1>1. CASE Visit
  <2>1. status = "walk" /\ UNCHANGED items
        /\ status' \in {"walk", "undefined"}
    BY <1>1, VisitCopies DEF Visiting
  <2> QED
    BY <2>1 DEF Monitored
<1>2. CASE ResolveEntry
  BY <1>2 DEF ResolveEntry, Resolving, Monitored
<1>3. CASE SearchName \/ NameNotFound \/ EntryNotFound \/ EntryCut
  BY <1>3 DEF SearchName, NameNotFound, EntryNotFound, EntryCut, Resolving, made, Monitored
<1>4. CASE SkipReference \/ VisitUnread \/ VisitCut \/ VisitTooDeep \/ Return
  BY <1>4 DEF SkipReference, VisitUnread, VisitCut, VisitTooDeep, Return, Visits, Visiting,
              made, Monitored
<1>5. CASE Connect \/ LoseConnection \/ Finish \/ StartThread
  BY <1>5 DEF Connect, LoseConnection, Finish, StartThread, made, Monitored
<1>6. CASE UNCHANGED vars
  BY <1>6 DEF vars, made, Monitored
<1> QED
  BY <1>1, <1>2, <1>3, <1>4, <1>5, <1>6
     DEF Next, Registration, NodeIter, Visit, Terminated

\* A list that has what is listed says how a variable is kept.
LEMMA ListKeepsModes == Inv /\ Listed /\ Monitored => KeptInItsMode
<1> SUFFICES ASSUME Inv, Listed, Monitored PROVE KeptInItsMode
  OBVIOUS
<1>1. MirrorWithinImage /\ Len(mirror) \in Nat /\ DOMAIN mirror = 1 .. Len(mirror)
  BY LenProperties DEF Inv, TypeOK
<1>2. ASSUME NEW i \in DOMAIN mirror, mirror[i].class = "variable", NEW mode,
             mode = Mappings[mirror[EntryOf(i)].mapping].mode,
             NEW listed, listed = {k \in DOMAIN subscriptionNodes : subscriptionNodes[k] = i}
      PROVE  /\ Cardinality(listed) = IF mode = "subscription" THEN 1 ELSE 0
             /\ mirror[i].callback = IF mode = "subscription" THEN "none" ELSE mode
  <2>1. mode = ModeAt(mirror[i])
    BY <1>1, <1>2, EntryHasMapping DEF ModeAt
  <2>2. CASE mode = "subscription"
    <3>1. PICK k \in DOMAIN subscriptionNodes : subscriptionNodes[k] = i
      BY <1>2, <2>1, <2>2 DEF Listed
    <3>2. listed = {k}
      BY <1>2, <3>1 DEF Listed
    <3>3. Cardinality(listed) = 1
      BY <3>2, FS_Singleton
    <3> QED
      BY <1>2, <2>1, <2>2, <3>3 DEF Listed
  <2>3. CASE mode # "subscription"
    <3>1. listed = {}
      BY <1>2, <2>1, <2>3 DEF Listed
    <3>2. Cardinality(listed) = 0
      BY <3>1, FS_EmptySet
    <3> QED
      BY <1>2, <2>1, <2>3, <3>2 DEF Listed
  <2> QED
    BY <2>2, <2>3
<1> QED
  BY <1>2 DEF KeptInItsMode, Listed, Monitored

\* Every mirrored variable is kept up to date in the mode of its mapping, once,
\* and the thread monitors what is listed (node_iterator.c 222-248,
\* client_interface.c 43-69).
THEOREM ValuesKeptInTheirMode == Spec => []KeptInItsMode
<1>1. Init => Listed /\ Monitored
  BY DEF Init, Listed, Monitored
<1> QED
  BY <1>1, InitInv, NextInv, NextListed, NextMonitored, ListKeepsModes, PTL DEF Spec

-----------------------------------------------------------------------------
(* Where the entries are.                                                  *)

\* The nodes found so far have the names of the path, whatever the searches
\* went through.
Named(nodes, k) ==
    k <= Len(Mappings) =>
        /\ Len(nodes) <= Len(Mappings[k].path)
        /\ \A j \in 1 .. Len(nodes) : agent.name[nodes[j]].text = Mappings[k].path[j]

FoundNamed == Named(found, index)

LEMMA PathShape ==
    ASSUME NEW k \in 1 .. Len(Mappings)
    PROVE  /\ Mappings[k].path \in Seq(STRING)
           /\ Len(Mappings[k].path) \in Nat
           /\ DOMAIN Mappings[k].path = 1 .. Len(Mappings[k].path)
<1> DEFINE S == [path : Seq(STRING), mode : Modes]
           path == Mappings[k].path
<1>1. Mappings \in Seq(S)
  BY MappingAssumption
<1> HIDE DEF S
<1>2. Mappings[k] \in S
  BY <1>1, ElementOfSeq
<1>3. path \in Seq(STRING)
  BY <1>2 DEF S
<1> HIDE DEF path
<1>4. Len(path) \in Nat /\ DOMAIN path = 1 .. Len(path)
  BY <1>3, LenProperties
<1> QED
  BY <1>3, <1>4 DEF path

\* A search adds a node with the next name; the next mapping starts anew.
LEMMA NextNamed == Inv /\ FoundNamed /\ [Next]_vars => FoundNamed'
<1> SUFFICES ASSUME Inv, FoundNamed, [Next]_vars PROVE FoundNamed'
  OBVIOUS
<1>1. CASE UNCHANGED <<agent, index, found>>
  BY <1>1 DEF FoundNamed, Named
<1>2. CASE SearchName
  <2>1. /\ index \in 1 .. Len(Mappings) /\ index' = index /\ agent' = agent
        /\ found' = Append(found, NextFound)
        /\ NextFound \in agent.nodes /\ Len(found) < Len(Path)
    BY <1>2, Shapes, MappingAssumption, LenProperties DEF SearchName, Resolving
  <2>2. found \in Seq(agent.nodes) /\ Len(found) \in Nat /\ agent \in Agents
    BY Shapes, LenProperties
  <2>3. Path \in Seq(STRING) /\ Len(Path) \in Nat /\ Path = Mappings[index].path
    BY <2>1, PathShape DEF Path
  <2> DEFINE start == IF found = <<>> THEN agent.root ELSE Last(found)
             text == Path[Len(found) + 1]
  <2>4. start \in agent.nodes
    <3>1. agent.root \in agent.nodes
      BY <2>2, AgentShape
    <3>2. found # <<>> => Len(found) \in 1 .. Len(found)
      BY <2>2, EmptySeq
    <3>3. found # <<>> => Last(found) \in agent.nodes
      BY <2>2, <3>2, ElementOfSeq DEF Last
    <3> QED
      BY <3>1, <3>3
  <2>5. agent.name[NextFound].text = text
    <3>1. NextFound = NamedBelow(agent, start, text, StackDepth)
      BY DEF NextFound
    <3> HIDE DEF start, text
    <3> QED
      BY <2>1, <2>2, <2>4, <3>1, NameFound, MappingAssumption
  <2>6. /\ Len(found') = Len(found) + 1
        /\ \A j \in 1 .. Len(found) : found'[j] = found[j]
        /\ found'[Len(found) + 1] = NextFound
    BY <2>1, <2>2, AppendProperties
  <2>7. /\ Len(found') <= Len(Mappings[index].path)
    BY <2>1, <2>2, <2>3, <2>6
  <2>8. ASSUME NEW j \in 1 .. Len(found')
        PROVE  agent.name[found'[j]].text = Mappings[index].path[j]
    <3>1. CASE j = Len(found) + 1
      BY <2>3, <2>5, <2>6, <3>1
    <3>2. CASE j \in 1 .. Len(found)
      BY <2>1, <2>6, <3>2 DEF FoundNamed, Named
    <3> QED
      BY <2>2, <2>6, <3>1, <3>2
  <2> QED
    BY <2>1, <2>7, <2>8 DEF FoundNamed, Named
<1>3. CASE found' = <<>> /\ index' \in 1 .. Len(Mappings) + 1
  <2>1. index' <= Len(Mappings) => index' \in 1 .. Len(Mappings)
    BY <1>3, MappingAssumption, LenProperties
  <2>2. Len(found') = 0
    BY <1>3
  <2> QED
    BY <2>1, <2>2, PathShape DEF FoundNamed, Named
<1>4. NameNotFound \/ EntryNotFound \/ EntryCut \/ ResolveEntry
          => UNCHANGED <<agent, index, found>>
  BY DEF NameNotFound, EntryNotFound, EntryCut, ResolveEntry, walk
<1>5. SkipReference \/ VisitUnread \/ VisitCut \/ VisitTooDeep \/ Visit
          => UNCHANGED <<agent, index, found>>
  BY DEF SkipReference, VisitUnread, VisitCut, VisitTooDeep, Visit,
         VisitObject, VisitMethod, VisitVariable, walk
<1>6. Return => \/ UNCHANGED <<agent, index, found>>
                \/ found' = <<>> /\ index' \in 1 .. Len(Mappings) + 1
  <2>1. status = "walk" => index + 1 \in 1 .. Len(Mappings) + 1
    BY Shapes, MappingAssumption, LenProperties
  <2> QED
    BY <2>1 DEF Return
<1>7. Connect \/ LoseConnection \/ Finish \/ StartThread \/ UNCHANGED vars
          => UNCHANGED <<agent, index, found>>
  BY DEF Connect, LoseConnection, Finish, StartThread, vars, walk
<1> QED
  BY <1>1, <1>2, <1>3, <1>4, <1>5, <1>6, <1>7
     DEF Next, Registration, NodeIter, Visit, Terminated

\* An entry is resolved when every name of the path has been found.
LEMMA NextEntryOnPath == Inv /\ FoundNamed /\ EntryOnPath /\ [Next]_vars => EntryOnPath'
<1> SUFFICES ASSUME Inv, FoundNamed, EntryOnPath, [Next]_vars PROVE EntryOnPath'
  OBVIOUS
<1>1. agent' = agent
  BY DEF Next, Registration, NodeIter, SearchName, NameNotFound, EntryNotFound, EntryCut,
         ResolveEntry, SkipReference, VisitUnread, VisitCut, VisitTooDeep, VisitObject,
         VisitMethod, VisitVariable, Return, Connect, LoseConnection, Finish, StartThread,
         Terminated, vars
<1>2. CASE UNCHANGED mirror
  BY <1>1, <1>2 DEF EntryOnPath
<1>3. ASSUME NEW m, mirror' = Append(mirror, m),
             m.class = "entry" => m.remote \in OnPath(agent, Mappings[m.mapping].path)
      PROVE  EntryOnPath'
  <2>1. /\ \A i \in DOMAIN mirror' : i \in DOMAIN mirror \/ mirror'[i] = m
        /\ \A i \in DOMAIN mirror : mirror'[i] = mirror[i]
    BY <1>3, NodeAdded
  <2> QED
    BY <1>1, <1>3, <2>1 DEF EntryOnPath
<1>4. CASE Visit
  <2>1. UNCHANGED mirror \/ \E m : Copies(m)
    BY <1>4, VisitCopies
  <2>2. \A m : Copies(m) => mirror' = Append(mirror, m) /\ m.class # "entry"
    BY DEF Copies, Mirrored
  <2> QED
    BY <1>2, <1>3, <2>1, <2>2
<1>5. CASE ResolveEntry
  <2>1. PICK n \in Entries, taken \in BOOLEAN : mirror' = Append(mirror, Node("entry", n, 0, index, taken))
    BY <1>5 DEF ResolveEntry
  <2> DEFINE m == Node("entry", n, 0, index, taken)
  <2>2. m.remote = n /\ m.mapping = index
    BY DEF Node
  <2> HIDE DEF m
  <2>3. index \in 1 .. Len(Mappings) /\ Len(found) = Len(Path) /\ Path = Mappings[index].path
    BY <1>5, Shapes, MappingAssumption, LenProperties DEF ResolveEntry, Resolving, Path
  <2>4. Path \in Seq(STRING) /\ \A k \in 1 .. Len(Path) : agent.name[found[k]].text = Path[k]
    BY <2>3, PathShape DEF FoundNamed, Named
  <2>5. n \in OnPath(agent, Path)
    BY <2>3, <2>4, Shapes, EntriesOnPath
  <2> QED
    BY <1>3, <2>1, <2>2, <2>3, <2>5 DEF m
<1>6. UNCHANGED vars => UNCHANGED mirror
  BY DEF vars, made
<1> QED
  BY <1>2, <1>4, <1>5, <1>6, StepKinds DEF Quiet

\* Whatever nodes the searches by name find, the entry of a mapping is on its
\* path, for any paths, names and stack (internal.c 62-107).
THEOREM EntriesAreOnTheirPath == Spec => []EntryOnPath
<1>1. Init => FoundNamed /\ EntryOnPath
  <2> SUFFICES ASSUME Init PROVE FoundNamed /\ EntryOnPath
    OBVIOUS
  <2>1. Len(found) = 0 /\ index = 1 /\ mirror = <<>>
    BY DEF Init
  <2>2. 1 <= Len(Mappings) => Len(Mappings[1].path) \in Nat
    BY PathShape, MappingAssumption, LenProperties
  <2>3. FoundNamed
    BY <2>1, <2>2 DEF FoundNamed, Named
  <2> QED
    BY <2>1, <2>3 DEF EntryOnPath
<1> QED
  BY <1>1, InitInv, NextInv, NextNamed, NextEntryOnPath, PTL DEF Spec

-----------------------------------------------------------------------------
(***************************************************************************)
(* That nothing is left out.  The copies below a mirror node are complete  *)
(* only when its activation has returned; until then they are what the     *)
(* references already visited lead to, and each node has one activation.   *)
(***************************************************************************)
Done(i) == MirroredBelow(i) = ToMirror(mirror[i].remote)

\* Of the references of node n, those after the first p are left.
Left(rest, n, p) ==
    /\ Len(rest) = Len(agent.refs[n]) - p
    /\ \A j \in 1 .. Len(rest) : rest[j] = agent.refs[n][p + j]

Halfway(h) ==
    \E p \in 0 .. Len(agent.refs[h.remoteParentObject]) :
        /\ Left(h.rest, h.remoteParentObject, p)
        /\ MirroredBelow(h.parent)
               = Picked(Targets(h.remoteParentObject), ToCopy(h.remoteParentObject), p)

AllVisited ==
    /\ \A d \in DOMAIN stack : Halfway(stack[d])
    /\ \A d, e \in DOMAIN stack : stack[d].parent = stack[e].parent => d = e
    /\ \A i \in DOMAIN mirror : mirror[i].class \in {"entry", "object"} =>
           Done(i) \/ \E d \in DOMAIN stack : stack[d].parent = i

EntryMade(k) == \E i \in DOMAIN mirror : mirror[i].class = "entry" /\ mirror[i].mapping = k

EntriesMade ==
    \A k \in DOMAIN Mappings : k < index \/ (k = index /\ status = "walk") => EntryMade(k)

ValuesCopied ==
    \A i \in DOMAIN mirror :
        mirror[i].class = "variable" /\ KnownType(agent.dataType[mirror[i].remote])
        => mirror[i].value \in {"copied", "refused"}

WalkOver ==
    /\ status # "walk" => stack = <<>>
    /\ status \in {"thread", "ready"} => index > Len(Mappings)

CopyInv ==
    /\ status = "connect" => stack = <<>> /\ index = 1
    /\ connection = "open" /\ status # "undefined" =>
           AllVisited /\ EntriesMade /\ ValuesCopied /\ WalkOver

\* A copy is the last below the node it hangs under.
LEMMA BelowGrows ==
    ASSUME Inv, NEW m, mirror' = Append(mirror, m), NEW i
    PROVE  MirroredBelow(i)' = IF m.class # "entry" /\ m.parent = i
                               THEN Append(MirroredBelow(i), m.remote)
                               ELSE MirroredBelow(i)
<1> SUFFICES ASSUME NEW len, len = Len(mirror), NEW J, J = Below(i)', NEW t, t = Originals',
                    NEW before, before = MirroredBelow(i)
             PROVE  Picked(t, J, Len(mirror')) = IF m.class # "entry" /\ m.parent = i
                                                 THEN Append(before, m.remote) ELSE before
  BY DEF MirroredBelow
<1>1. /\ len \in Nat /\ Len(mirror') = len + 1
      /\ DOMAIN mirror = 1 .. len /\ DOMAIN mirror' = 1 .. len + 1
      /\ \A k \in DOMAIN mirror : mirror'[k] = mirror[k]
      /\ mirror'[len + 1] = m
  BY NodeAdded
<1>2. t[len + 1] = m.remote /\ (len + 1 \in J <=> m.class # "entry" /\ m.parent = i)
  BY <1>1 DEF Originals, Below
<1>3. \A k \in 1 .. len : t[k] = Originals[k] /\ (k \in J <=> k \in Below(i))
  BY <1>1 DEF Originals, Below
<1>4. Picked(t, J, len) = before
  BY <1>1, <1>3, PickedSame DEF MirroredBelow
<1> QED
  BY <1>1, <1>2, <1>4, PickedNext

\* Nothing hangs under a node that is not there yet.
LEMMA NothingBelow ==
    ASSUME Inv, NEW i \in Nat, i > Len(mirror)
    PROVE  MirroredBelow(i) = <<>>
<1>1. Len(mirror) \in Nat /\ DOMAIN mirror = 1 .. Len(mirror)
  BY LenProperties DEF Inv, TypeOK
<1>2. \A k \in 1 .. Len(mirror) : k \notin Below(i)
  BY <1>1 DEF Inv, MirrorWithinImage, Below
<1> QED
  BY <1>1, <1>2, PickedNone DEF MirroredBelow

\* An activation whose copies stay the same stays where it was.
LEMMA HalfwayStays ==
    ASSUME UNCHANGED agent, NEW h, Halfway(h),
           MirroredBelow(h.parent)' = MirroredBelow(h.parent)
    PROVE  Halfway(h)'
BY DEF Halfway, Left, Targets, ToCopy

\* An activation that has visited everything has made all the copies.
LEMMA HalfwayEnds ==
    ASSUME NEW h, Halfway(h), h.rest = <<>>, NEW i, i = h.parent,
           mirror[i].remote = h.remoteParentObject,
           Len(agent.refs[h.remoteParentObject]) \in Nat
    PROVE  Done(i)
<1>1. PICK p \in 0 .. Len(agent.refs[h.remoteParentObject]) :
          /\ Left(h.rest, h.remoteParentObject, p)
          /\ MirroredBelow(h.parent)
                 = Picked(Targets(h.remoteParentObject), ToCopy(h.remoteParentObject), p)
  BY DEF Halfway
<1>2. Len(h.rest) = 0
  OBVIOUS
<1>3. p = Len(agent.refs[h.remoteParentObject])
  BY <1>1, <1>2 DEF Left
<1> QED
  BY <1>1, <1>3 DEF Done, ToMirror

\* An activation begins with nothing visited and nothing below its mirror.
LEMMA HalfwayBegins ==
    ASSUME agent \in Agents, UNCHANGED agent, NEW h, NEW n \in agent.nodes,
           h.remoteParentObject = n, h.rest = agent.refs[n],
           MirroredBelow(h.parent)' = <<>>
    PROVE  Halfway(h)'
<1> DEFINE refs == agent.refs[n]
<1>1. refs \in Seq(Reference(agent))
  BY AgentShape
<1> HIDE DEF refs
<1>2. Len(refs) \in Nat
  BY <1>1, LenProperties
<1>3. Left(h.rest, n, 0)'
  BY <1>2 DEF Left, refs
<1>4. Picked(Targets(n)', ToCopy(n)', 0) = <<>>
  BY PickedNone
<1> QED
  BY <1>2, <1>3, <1>4 DEF Halfway, refs

\* Every activation has a mirror and the references of a node of the agent.
LEMMA StackShape ==
    ASSUME Inv
    PROVE  /\ DOMAIN stack = 1 .. Len(stack) /\ Len(stack) \in Nat
           /\ DOMAIN mirror = 1 .. Len(mirror) /\ Len(mirror) \in Nat
           /\ agent \in Agents
           /\ \A d \in DOMAIN stack :
                  /\ stack[d] \in Working
                  /\ stack[d].parent \in DOMAIN mirror
                  /\ mirror[stack[d].parent].remote = stack[d].remoteParentObject
                  /\ stack[d].remoteParentObject \in agent.nodes
                  /\ Len(agent.refs[stack[d].remoteParentObject]) \in Nat
                  /\ stack[d].rest \in Seq(Reference(agent))
<1>1. stack \in Seq(Working) /\ mirror \in Seq(MirrorNode) /\ agent \in Agents
  BY DEF Inv, TypeOK
<1>2. /\ DOMAIN stack = 1 .. Len(stack) /\ Len(stack) \in Nat
      /\ DOMAIN mirror = 1 .. Len(mirror) /\ Len(mirror) \in Nat
  BY <1>1, LenProperties
<1>3. ASSUME NEW d \in DOMAIN stack PROVE stack[d] \in Working
  <2> HIDE DEF Working
  <2> QED
    BY <1>1, <1>2, <1>3, ElementOfSeq
<1>4. ASSUME NEW h \in Working
      PROVE  /\ h.parent \in DOMAIN mirror /\ h.rest \in Seq(Reference(agent))
             /\ mirror[h.parent].remote = h.remoteParentObject
             /\ h.remoteParentObject \in agent.nodes
             /\ Len(agent.refs[h.remoteParentObject]) \in Nat
  <2>1. /\ h.parent \in DOMAIN mirror /\ h.rest \in Seq(Reference(agent))
        /\ mirror[h.parent].remote = h.remoteParentObject
        /\ h.remoteParentObject \in agent.nodes
    BY <1>4 DEF Working, Works, Activation
  <2> DEFINE refs == agent.refs[h.remoteParentObject]
  <2>2. refs \in Seq(Reference(agent))
    BY <1>1, <2>1, AgentShape
  <2> HIDE DEF refs
  <2>3. Len(refs) \in Nat
    BY <2>2, LenProperties
  <2> QED
    BY <2>1, <2>3 DEF refs
<1> QED
  BY <1>1, <1>2, <1>3, <1>4

\* What the head and the tail of a sequence are.
LEMMA Ends ==
    ASSUME NEW S, NEW s \in Seq(S), s # <<>>
    PROVE  /\ Len(s) \in Nat /\ Len(s) >= 1 /\ DOMAIN s = 1 .. Len(s)
           /\ 1 \in DOMAIN s /\ Head(s) = s[1]
           /\ Tail(s) \in Seq(S) /\ Len(Tail(s)) = Len(s) - 1
           /\ DOMAIN Tail(s) = 1 .. Len(s) - 1
           /\ \A d \in 1 .. Len(s) - 1 : Tail(s)[d] = s[d + 1]
<1>1. Len(s) \in Nat /\ DOMAIN s = 1 .. Len(s) /\ Len(s) # 0
  BY EmptySeq, LenProperties
<1>2. /\ Tail(s) \in Seq(S) /\ Len(Tail(s)) = Len(s) - 1
      /\ \A d \in 1 .. Len(Tail(s)) : Tail(s)[d] = s[d + 1]
  BY HeadTailProperties
<1> DEFINE rest == Tail(s)
<1>3. DOMAIN rest = 1 .. Len(s) - 1
  BY <1>2, LenProperties
<1> HIDE DEF rest
<1>4. Head(s) = s[1]
  BY <1>1
<1> QED
  BY <1>1, <1>2, <1>3, <1>4 DEF rest

\* Only the innermost activation goes on.
LEMMA AdvancedStack ==
    ASSUME Inv, Visiting
    PROVE  /\ DOMAIN Advanced = DOMAIN stack /\ 1 \in DOMAIN stack /\ stack[1] = Top
           /\ Advanced \in Seq(Working)
           /\ Advanced[1].parent = Top.parent
           /\ Advanced[1].remoteParentObject = Top.remoteParentObject
           /\ Advanced[1].rest = Tail(Top.rest)
           /\ \A d \in DOMAIN stack : d # 1 => Advanced[d] = stack[d]
<1> DEFINE next == [Top EXCEPT !.rest = Tail(@)]
           behind == Tail(stack)
<1>1. stack \in Seq(Working) /\ stack # <<>>
  BY DEF Visiting, Inv, TypeOK
<1>2. /\ Len(stack) \in Nat /\ Len(stack) >= 1 /\ DOMAIN stack = 1 .. Len(stack)
      /\ 1 \in DOMAIN stack /\ Top = stack[1]
      /\ behind \in Seq(Working) /\ DOMAIN behind = 1 .. Len(stack) - 1
      /\ Len(behind) = Len(stack) - 1
      /\ \A d \in 1 .. Len(stack) - 1 : behind[d] = stack[d + 1]
  <2> HIDE DEF Working
  <2> QED
    BY <1>1, Ends DEF Top
<1>3. Top \in Activation
  BY Visited DEF Working
<1>4. /\ next.parent = Top.parent /\ next.remoteParentObject = Top.remoteParentObject
      /\ next.rest = Tail(Top.rest)
  BY <1>3 DEF Activation
<1>5. Advanced \in Seq(Working) /\ Advanced = <<next>> \o behind
  BY Visited DEF Advanced
<1> HIDE DEF next, behind
<1> DEFINE S == Working \cup {next}
<1>6. behind \in Seq(S) /\ next \in S
  BY <1>2, SeqGrows
<1> HIDE DEF S
<1>7. /\ DOMAIN Advanced = 1 .. Len(behind) + 1
      /\ Advanced[1] = next
      /\ \A k \in DOMAIN behind : Advanced[k + 1] = behind[k]
  BY <1>5, <1>6, Pushed
<1>8. ASSUME NEW d \in DOMAIN stack, d # 1
      PROVE  Advanced[d] = stack[d]
  <2>1. d - 1 \in DOMAIN behind /\ (d - 1) + 1 = d
    BY <1>2, <1>8
  <2> QED
    BY <1>2, <1>7, <2>1
<1>9. DOMAIN Advanced = DOMAIN stack
  BY <1>2, <1>7
<1>10. /\ Advanced[1].parent = Top.parent
       /\ Advanced[1].remoteParentObject = Top.remoteParentObject
       /\ Advanced[1].rest = Tail(Top.rest)
  BY <1>4, <1>7
<1> QED
  BY <1>2, <1>5, <1>8, <1>9, <1>10

\* The innermost activation goes on halfway if it copies the node exactly when
\* nodeIter has to.
LEMMA HalfwayAdvances ==
    ASSUME Inv, Visiting, Halfway(Top), UNCHANGED agent,
           NEW h, h.parent = Top.parent, h.remoteParentObject = Top.remoteParentObject,
           h.rest = Tail(Top.rest),
           MirroredBelow(h.parent)' = IF Follows(Ref) /\ ClassOfRef \in Mirrored
                                      THEN Append(MirroredBelow(h.parent), Ref.to)
                                      ELSE MirroredBelow(h.parent)
    PROVE  Halfway(h)'
<1> SUFFICES ASSUME NEW n, n = Top.remoteParentObject, NEW refs, refs = agent.refs[n],
                    NEW rest, rest = Top.rest
             PROVE  Halfway(h)'
  OBVIOUS
<1>1. PICK p \in 0 .. Len(refs) :
          Left(rest, n, p) /\ MirroredBelow(h.parent) = Picked(Targets(n), ToCopy(n), p)
  BY DEF Halfway
<1>2. /\ rest # <<>> /\ rest \in Seq(Reference(agent)) /\ Ref = Head(rest)
      /\ n \in agent.nodes /\ refs \in Seq(Reference(agent))
      /\ Len(refs) \in Nat /\ DOMAIN refs = 1 .. Len(refs)
  <2>1. Top \in Working /\ agent \in Agents
    BY Visited, StackShape
  <2>2. Top \in Activation
    BY <2>1 DEF Working
  <2>3. /\ rest # <<>> /\ rest \in Seq(Reference(agent)) /\ Ref = Head(rest)
        /\ n \in agent.nodes
    BY <2>2 DEF Visiting, Ref, Activation
  <2>4. refs \in Seq(Reference(agent))
    BY <2>1, <2>3, AgentShape
  <2> QED
    BY <2>3, <2>4, LenProperties
<1>3. /\ Len(rest) \in Nat /\ Len(rest) >= 1 /\ Ref = rest[1]
      /\ Len(h.rest) = Len(rest) - 1
      /\ \A j \in 1 .. Len(rest) - 1 : h.rest[j] = rest[j + 1]
  BY <1>2, Ends
<1>4. /\ Len(rest) = Len(refs) - p
      /\ \A j \in 1 .. Len(rest) : rest[j] = refs[p + j]
  BY <1>1 DEF Left
<1>5. p + 1 \in 1 .. Len(refs) /\ p \in Nat /\ Ref = refs[p + 1]
  BY <1>2, <1>3, <1>4
<1>6. Len(h.rest) = Len(refs) - (p + 1)
  BY <1>2, <1>3, <1>4
<1>7. ASSUME NEW j \in 1 .. Len(h.rest) PROVE h.rest[j] = refs[(p + 1) + j]
  <2>1. /\ j \in 1 .. Len(rest) - 1 /\ j + 1 \in 1 .. Len(rest)
        /\ p + (j + 1) = (p + 1) + j
    BY <1>3, <1>5
  <2> QED
    BY <1>3, <1>4, <2>1
<1>8. Left(h.rest, n, p + 1)'
  BY <1>6, <1>7 DEF Left
<1>9. /\ p + 1 \in ToCopy(n) <=> Follows(Ref) /\ ClassOfRef \in Mirrored
      /\ Targets(n)[p + 1] = Ref.to
  BY <1>2, <1>5 DEF ToCopy, Targets, Follows, ClassOfRef
<1>10. MirroredBelow(h.parent)' = Picked(Targets(n), ToCopy(n), p + 1)
  <2> DEFINE T == Targets(n)
             C == ToCopy(n)
  <2>1. Picked(T, C, p + 1) = IF p + 1 \in C THEN Append(Picked(T, C, p), T[p + 1])
                              ELSE Picked(T, C, p)
    <3> HIDE DEF T, C
    <3> QED
      BY <1>5, PickedNext
  <2> QED
    BY <1>1, <1>9, <2>1
<1>11. Targets(n)' = Targets(n) /\ ToCopy(n)' = ToCopy(n)
  BY DEF Targets, ToCopy
<1> QED
  BY <1>5, <1>8, <1>10, <1>11 DEF Halfway

\* A reference is visited: its copy, if it gets one, is the last below the
\* mirror of the innermost activation.
LEMMA AdvanceVisits ==
    ASSUME Inv, AllVisited, Visiting, UNCHANGED agent,
           \A i \in DOMAIN mirror : mirror'[i] = mirror[i],
           \A i : MirroredBelow(i)' =
                      IF i = Top.parent /\ Follows(Ref) /\ ClassOfRef \in Mirrored
                      THEN Append(MirroredBelow(i), Ref.to)
                      ELSE MirroredBelow(i),
           NEW A, A = Advanced
    PROVE  /\ \A d \in DOMAIN A : Halfway(A[d])' /\ A[d].parent \in DOMAIN mirror
           /\ \A d, e \in DOMAIN A : A[d].parent = A[e].parent => d = e
           /\ \A i \in DOMAIN mirror : mirror[i].class \in {"entry", "object"} =>
                  Done(i)' \/ \E d \in DOMAIN A : A[d].parent = i
<1>1. /\ DOMAIN A = DOMAIN stack /\ 1 \in DOMAIN stack /\ stack[1] = Top
      /\ A[1].parent = Top.parent /\ A[1].remoteParentObject = Top.remoteParentObject
      /\ A[1].rest = Tail(Top.rest)
      /\ \A d \in DOMAIN stack : d # 1 => A[d] = stack[d]
  BY AdvancedStack
<1>2. \A d \in DOMAIN stack : A[d].parent = stack[d].parent
  BY <1>1
<1>3. ASSUME NEW d \in DOMAIN stack PROVE Halfway(A[d])'
  <2>1. CASE d = 1
    <3>1. Halfway(Top)
      BY <1>1 DEF AllVisited
    <3> QED
      BY <1>1, <2>1, <3>1, HalfwayAdvances
  <2>2. CASE d # 1
    <3>1. A[d] = stack[d] /\ Halfway(stack[d]) /\ stack[d].parent # stack[1].parent
      BY <1>1, <2>2 DEF AllVisited
    <3>2. MirroredBelow(A[d].parent)' = MirroredBelow(A[d].parent)
      BY <1>1, <3>1
    <3>3. Halfway(A[d])
      BY <3>1
    <3> QED
      BY <3>2, <3>3, HalfwayStays
  <2> QED
    BY <2>1, <2>2
<1>4. \A d \in DOMAIN stack : stack[d].parent \in DOMAIN mirror
  BY StackShape
<1>5. ASSUME NEW i \in DOMAIN mirror, mirror[i].class \in {"entry", "object"}
      PROVE  Done(i)' \/ \E d \in DOMAIN A : A[d].parent = i
  <2>1. CASE \E d \in DOMAIN stack : stack[d].parent = i
    BY <1>1, <1>2, <2>1
  <2>2. CASE ~\E d \in DOMAIN stack : stack[d].parent = i
    <3>1. Done(i) /\ i # Top.parent
      BY <1>1, <1>5, <2>2 DEF AllVisited
    <3>2. MirroredBelow(i)' = MirroredBelow(i)
      BY <3>1
    <3> QED
      BY <3>1, <3>2 DEF Done, ToMirror, Targets, ToCopy
  <2> QED
    BY <2>1, <2>2
<1> QED
  BY <1>1, <1>2, <1>3, <1>4, <1>5 DEF AllVisited

\* A reference that is skipped leads to nothing that has to be copied.
LEMMA SkipVisited ==
    ASSUME Inv, AllVisited, Visiting, UNCHANGED <<agent, mirror>>, stack' = Advanced,
           ~Follows(Ref) \/ ClassOfRef \notin Mirrored
    PROVE  AllVisited'
<1>1. \A i : MirroredBelow(i)' = MirroredBelow(i)
  BY DEF MirroredBelow, Originals, Below
<1> SUFFICES ASSUME NEW A, A = Advanced, stack' = A PROVE AllVisited'
  OBVIOUS
<1>2. /\ \A d \in DOMAIN A : Halfway(A[d])'
      /\ \A d, e \in DOMAIN A : A[d].parent = A[e].parent => d = e
      /\ \A i \in DOMAIN mirror : mirror[i].class \in {"entry", "object"} =>
             Done(i)' \/ \E d \in DOMAIN A : A[d].parent = i
  BY <1>1, AdvanceVisits
<1>3. \A d \in DOMAIN stack' : Halfway(stack[d])'
  BY <1>2
<1> QED
  BY <1>2, <1>3 DEF AllVisited

\* A copied object or entry begins an activation of its own.
LEMMA NewActivation ==
    ASSUME Inv, UNCHANGED agent, NEW m, mirror' = Append(mirror, m),
           m.remote \in agent.nodes, m.class # "entry" => m.parent \in DOMAIN mirror,
           NEW h, h = Handle(m.remote, Len(mirror) + 1, m.mapping, TRUE)
    PROVE  Halfway(h)' /\ h.parent = Len(mirror) + 1
<1> SUFFICES ASSUME NEW new, new = Len(mirror) + 1 PROVE Halfway(h)' /\ h.parent = new
  OBVIOUS
<1>1. new \in Nat /\ new > Len(mirror) /\ new \notin DOMAIN mirror /\ agent \in Agents
  BY StackShape
<1>2. /\ h.remoteParentObject = m.remote /\ h.rest = agent.refs[m.remote]
      /\ h.parent = new
  BY DEF Handle, Browse
<1>3. MirroredBelow(new)' = <<>>
  BY <1>1, NothingBelow, BelowGrows
<1> QED
  BY <1>1, <1>2, <1>3, HalfwayBegins

\* A copy is what its reference was left for.
LEMMA CopyVisited ==
    ASSUME Inv, AllVisited, Visiting, Follows(Ref), UNCHANGED agent, NEW m, Copies(m),
           connection' = "open"
    PROVE  AllVisited'
<1> SUFFICES ASSUME NEW A, A = Advanced, NEW new, new = Len(mirror) + 1 PROVE AllVisited'
  OBVIOUS
<1>1. /\ mirror' = Append(mirror, m) /\ m.class = ClassOfRef /\ m.class \in Mirrored
      /\ m.remote = Ref.to /\ m.parent = Top.parent /\ m.class # "entry"
  BY DEF Copies, Mirrored
<1>2. /\ DOMAIN mirror = 1 .. Len(mirror) /\ DOMAIN mirror' = 1 .. Len(mirror) + 1
      /\ Len(mirror) \in Nat
      /\ \A i \in DOMAIN mirror : mirror'[i] = mirror[i]
      /\ mirror'[new] = m
  BY <1>1, NodeAdded
<1>3. /\ \A i \in DOMAIN mirror' : i \in DOMAIN mirror \/ i = new
      /\ new \notin DOMAIN mirror
  BY <1>2
<1>4. \A i : MirroredBelow(i)' = IF i = Top.parent /\ Follows(Ref) /\ ClassOfRef \in Mirrored
                                 THEN Append(MirroredBelow(i), Ref.to)
                                 ELSE MirroredBelow(i)
  BY <1>1, BelowGrows
<1>5. /\ \A d \in DOMAIN A : Halfway(A[d])' /\ A[d].parent \in DOMAIN mirror
      /\ \A d, e \in DOMAIN A : A[d].parent = A[e].parent => d = e
      /\ \A i \in DOMAIN mirror : mirror[i].class \in {"entry", "object"} =>
             Done(i)' \/ \E d \in DOMAIN A : A[d].parent = i
  BY <1>2, <1>4, AdvanceVisits
<1>6. CASE m.class # "object"
  <2>1. stack' = A
    BY <1>6 DEF Copies
  <2>2. \A d \in DOMAIN stack' : Halfway(stack[d])'
    BY <1>5, <2>1
  <2>3. \A i \in DOMAIN mirror' : mirror'[i].class \in {"entry", "object"} => i \in DOMAIN mirror
    BY <1>1, <1>2, <1>3, <1>6
  <2> QED
    BY <1>2, <1>5, <2>1, <2>2, <2>3 DEF AllVisited
<1>7. CASE m.class = "object"
  <2> DEFINE f == Handle(m.remote, Len(mirror) + 1, m.mapping, TRUE)
  <2>1. PICK h : h = f
    OBVIOUS
  <2> HIDE DEF f
  <2>2. stack' = <<h>> \o A
    BY <1>7, <2>1 DEF Copies, f
  <2>3. Ref.to \in agent.nodes
    BY Visited DEF Reference
  <2>4. Halfway(h)' /\ h.parent = new
    <3>1. Top.parent \in DOMAIN mirror
      BY AdvancedStack, StackShape
    <3> QED
      BY <1>1, <2>1, <2>3, <3>1, NewActivation DEF f
  <2> DEFINE S == Working \cup {h}
  <2>5. A \in Seq(S) /\ h \in S
    BY SeqGrows, AdvancedStack
  <2> HIDE DEF S
  <2>6. /\ DOMAIN A = 1 .. Len(A) /\ Len(A) \in Nat
        /\ DOMAIN stack' = 1 .. Len(A) + 1
        /\ stack'[1] = h
        /\ \A d \in DOMAIN A : stack'[d + 1] = A[d]
    BY <2>2, <2>5, Pushed, LenProperties
  <2>7. \A d \in DOMAIN stack' : \/ d = 1 /\ stack'[d] = h
                                 \/ d - 1 \in DOMAIN A /\ stack'[d] = A[d - 1]
    <3>1. \A d \in 1 .. Len(A) + 1 : d = 1 \/ (d - 1 \in 1 .. Len(A) /\ (d - 1) + 1 = d)
      BY <2>6
    <3> QED
      BY <2>6, <3>1
  <2>8. ASSUME NEW d \in DOMAIN stack' PROVE Halfway(stack[d])'
    BY <1>5, <2>4, <2>7
  <2>9. ASSUME NEW d \in DOMAIN stack', NEW e \in DOMAIN stack', stack'[d].parent = stack'[e].parent
        PROVE  d = e
    <3>1. \A k \in DOMAIN A : A[k].parent # new
      BY <1>3, <1>5
    <3>2. CASE d = 1 \/ e = 1
      BY <2>4, <2>6, <2>7, <2>9, <3>1, <3>2
    <3>3. CASE d # 1 /\ e # 1
      <4>1. /\ d - 1 \in DOMAIN A /\ e - 1 \in DOMAIN A
            /\ A[d - 1].parent = A[e - 1].parent
        BY <2>7, <2>9, <3>3
      <4>2. d - 1 = e - 1
        BY <1>5, <4>1
      <4> QED
        BY <2>6, <4>2
    <3> QED
      BY <3>2, <3>3
  <2>10. ASSUME NEW i \in DOMAIN mirror', mirror'[i].class \in {"entry", "object"}
         PROVE  Done(i)' \/ \E d \in DOMAIN stack' : stack'[d].parent = i
    <3>1. CASE i = new
      <4>1. 1 \in DOMAIN stack' /\ stack'[1].parent = i
        BY <2>4, <2>6, <3>1
      <4> QED
        BY <4>1
    <3>2. CASE i \in DOMAIN mirror
      <4>1. Done(i)' \/ \E d \in DOMAIN A : A[d].parent = i
        BY <1>2, <1>5, <2>10, <3>2
      <4>2. \A d \in DOMAIN A : d + 1 \in DOMAIN stack' /\ stack'[d + 1] = A[d]
        BY <2>6
      <4> QED
        BY <4>1, <4>2
    <3> QED
      BY <1>3, <3>1, <3>2
  <2> QED
    BY <2>8, <2>9, <2>10 DEF AllVisited
<1> QED
  BY <1>6, <1>7

\* An entry that is resolved is the only object in the making.
LEMMA EntryVisited ==
    ASSUME Inv, AllVisited, stack = <<>>, ResolveEntry, connection' = "open"
    PROVE  AllVisited' /\ EntryMade(index)' /\ \E m : mirror' = Append(mirror, m) /\ m.class = "entry"
<1>1. PICK n \in Entries, stays \in BOOLEAN, taken \in BOOLEAN :
          /\ connection' = IF stays THEN "open" ELSE "lost"
          /\ mirror' = Append(mirror, Node("entry", n, 0, index, taken))
          /\ stack' = <<Handle(n, Len(mirror) + 1, index, stays)>>
  BY DEF ResolveEntry
<1> DEFINE node == Node("entry", n, 0, index, taken)
           f == Handle(n, Len(mirror) + 1, index, TRUE)
<1>2. node.class = "entry" /\ node.remote = n /\ node.mapping = index
  BY DEF Node
<1> HIDE DEF node, f
<1>3. PICK m, h, new : m = node /\ h = f /\ new = Len(mirror) + 1
  OBVIOUS
<1>4. mirror' = Append(mirror, m) /\ stack' = <<h>> /\ agent' = agent /\ index' = index
  BY <1>1, <1>3 DEF node, f, ResolveEntry
<1>5. n \in agent.nodes
  BY Shapes, EntriesAreNodes
<1>6. h = Handle(m.remote, Len(mirror) + 1, m.mapping, TRUE)
  BY <1>2, <1>3 DEF f
<1>7. Halfway(h)' /\ h.parent = new
  BY <1>2, <1>3, <1>4, <1>5, <1>6, NewActivation
<1>8. /\ DOMAIN mirror = 1 .. Len(mirror) /\ DOMAIN mirror' = 1 .. Len(mirror) + 1
      /\ Len(mirror) \in Nat
      /\ \A i \in DOMAIN mirror : mirror'[i] = mirror[i]
      /\ mirror'[new] = m
  BY <1>3, <1>4, NodeAdded
<1>9. new \in DOMAIN mirror' /\ \A i \in DOMAIN mirror' : i \in DOMAIN mirror \/ i = new
  BY <1>3, <1>8
<1>10. DOMAIN stack' = {1} /\ stack'[1] = h
  BY <1>4
<1>11. DOMAIN stack = {}
  OBVIOUS
<1>12. ASSUME NEW i \in DOMAIN mirror, mirror[i].class \in {"entry", "object"}
       PROVE  Done(i)'
  <2>1. Done(i)
    BY <1>11, <1>12 DEF AllVisited
  <2>2. MirroredBelow(i)' = MirroredBelow(i)
    BY <1>2, <1>3, <1>4, BelowGrows
  <2> QED
    BY <1>4, <1>8, <2>1, <2>2 DEF Done, ToMirror, Targets, ToCopy
<1>13. AllVisited'
  <2>1. \A d \in DOMAIN stack' : Halfway(stack[d])'
    BY <1>7, <1>10
  <2>2. \A i \in DOMAIN mirror' : mirror'[i].class \in {"entry", "object"} =>
            Done(i)' \/ \E d \in DOMAIN stack' : stack'[d].parent = i
    BY <1>7, <1>8, <1>9, <1>10, <1>12
  <2> QED
    BY <1>10, <2>1, <2>2 DEF AllVisited
<1>14. EntryMade(index)'
  BY <1>2, <1>3, <1>4, <1>8, <1>9 DEF EntryMade
<1> QED
  BY <1>2, <1>3, <1>4, <1>13, <1>14

\* An activation returns when its copies are complete.
LEMMA ReturnVisited ==
    ASSUME Inv, AllVisited, Return
    PROVE  AllVisited'
<1> SUFFICES ASSUME NEW T, T = Tail(stack) PROVE AllVisited'
  OBVIOUS
<1>1. /\ stack \in Seq(Working) /\ stack # <<>> /\ Top.rest = <<>>
      /\ UNCHANGED <<agent, mirror>> /\ stack' = T
  BY Shapes DEF Return, made
<1>2. /\ Len(stack) \in Nat /\ DOMAIN stack = 1 .. Len(stack)
      /\ 1 \in DOMAIN stack /\ Top = stack[1]
      /\ DOMAIN T = 1 .. Len(stack) - 1
      /\ \A d \in 1 .. Len(stack) - 1 : T[d] = stack[d + 1]
  <2> HIDE DEF Working
  <2> QED
    BY <1>1, Ends DEF Top
<1>3. \A i : MirroredBelow(i)' = MirroredBelow(i)
  BY <1>1 DEF MirroredBelow, Originals, Below
<1>4. \A d \in DOMAIN T : d + 1 \in DOMAIN stack /\ T[d] = stack[d + 1]
  BY <1>2
<1>5. ASSUME NEW d \in DOMAIN T PROVE Halfway(T[d])'
  <2>1. Halfway(T[d])
    BY <1>4 DEF AllVisited
  <2>2. MirroredBelow(T[d].parent)' = MirroredBelow(T[d].parent)
    BY <1>3
  <2> QED
    BY <1>1, <2>1, <2>2, HalfwayStays
<1>6. ASSUME NEW d \in DOMAIN T, NEW e \in DOMAIN T, T[d].parent = T[e].parent
      PROVE  d = e
  <2>1. d + 1 = e + 1
    BY <1>4, <1>6 DEF AllVisited
  <2> QED
    BY <1>2, <2>1
<1>7. Done(Top.parent)
  <2>1. Halfway(Top)
    BY <1>2 DEF AllVisited
  <2> QED
    BY <1>1, <1>2, <2>1, StackShape, HalfwayEnds
<1>8. ASSUME NEW i \in DOMAIN mirror, mirror[i].class \in {"entry", "object"}
      PROVE  Done(i)' \/ \E d \in DOMAIN T : T[d].parent = i
  <2>1. ASSUME NEW d \in DOMAIN stack, stack[d].parent = i, d # 1
        PROVE  \E e \in DOMAIN T : T[e].parent = i
    <3>1. d - 1 \in DOMAIN T /\ T[d - 1] = stack[d]
      BY <1>2, <2>1
    <3> QED
      BY <2>1, <3>1
  <2>2. Done(i) => Done(i)'
    BY <1>1, <1>3 DEF Done, ToMirror, Targets, ToCopy
  <2>3. Done(i) \/ \E d \in DOMAIN stack : stack[d].parent = i
    BY <1>8 DEF AllVisited
  <2> QED
    BY <1>2, <1>7, <2>1, <2>2, <2>3
<1>9. \A d \in DOMAIN stack' : Halfway(stack[d])'
  BY <1>1, <1>5
<1> QED
  BY <1>1, <1>6, <1>8, <1>9 DEF AllVisited

\* A value whose type the registry knows is written unchanged, if the server
\* takes it: the type is found under its translated name (namespace_solver.c
\* 94-142).
LEMMA KnownTypeCopied ==
    ASSUME agent \in Agents, NEW q \in QualifiedName(agent), KnownType(q),
           NEW v \in write_variable_value(LocalDataTypes, LocalStructures, Translated(q, TRUE))
    PROVE  v \in {"copied", "refused"}
<1> DEFINE k == map_namespace_idx(agent.uris, LocalUris, q.ns)
           Typed(i) == [ns |-> i - 1, text |-> q.text]
<1>1. /\ agent.uris \in Seq(STRING) /\ Len(agent.uris) \in Nat
      /\ agent.uris[1] = LocalUris[1]
      /\ q \in [ns : 0 .. Len(agent.uris) - 1, text : STRING]
      /\ LocalUris \in Seq(STRING) /\ Len(LocalUris) \in Nat
      /\ DOMAIN LocalUris = 1 .. Len(LocalUris)
  BY AgentShape, MappingAssumption, LenProperties DEF QualifiedName
<1>2. PICK j \in DOMAIN LocalUris : LocalUris[j] = agent.uris[q.ns + 1]
  BY DEF KnownType, KnownUri, RemoteUri
<1>3. \A i \in DOMAIN LocalUris : LocalUris[i] = agent.uris[q.ns + 1] =>
          Typed(i) \in LocalDataTypes \ LocalStructures /\ Typed(i) # [ns |-> 0, text |-> "Structure"]
  BY DEF KnownType, RemoteUri
<1>4. \E i \in DOMAIN LocalUris :
          LocalUris[i] = agent.uris[q.ns + 1] /\ Translated(q, TRUE) = Typed(i)
  <2>1. CASE q.ns = 0
    <3>1. 1 \in DOMAIN LocalUris /\ LocalUris[1] = agent.uris[q.ns + 1]
      BY <1>1, <1>2, <2>1
    <3>2. Translated(q, TRUE) = q /\ q = Typed(1)
      BY <1>1, <2>1 DEF Translated
    <3> QED
      BY <3>1, <3>2
  <2>2. CASE q.ns # 0
    <3>1. q.ns \in Nat /\ q.ns < Len(agent.uris)
      BY <1>1
    <3>2. k \in Nat /\ k + 1 \in DOMAIN LocalUris /\ LocalUris[k + 1] = agent.uris[q.ns + 1]
      BY <1>1, <1>2, <3>1, MappedIndex
    <3> HIDE DEF k
    <3>3. Translated(q, TRUE) = [q EXCEPT !.ns = k]
      BY <2>2 DEF Translated, k
    <3>4. [q EXCEPT !.ns = k] = Typed(k + 1)
      BY <1>1, <3>2
    <3> QED
      BY <3>2, <3>3, <3>4
  <2> QED
    BY <2>1, <2>2
<1>5. /\ Translated(q, TRUE) \in LocalDataTypes \ LocalStructures
      /\ Translated(q, TRUE) # [ns |-> 0, text |-> "Structure"]
  BY <1>3, <1>4
<1> QED
  BY <1>5 DEF write_variable_value

\* The steps that add to the mirror keep all values of known types unchanged.
LEMMA ValuesGrow ==
    ASSUME Inv, ValuesCopied, UNCHANGED agent, NEW m, mirror' = Append(mirror, m),
           m.class = "variable" => /\ m.remote \in agent.nodes
                                   /\ m.value \in Arriving(m.remote) \cup {"refused"}
    PROVE  ValuesCopied'
<1>1. /\ \A i \in DOMAIN mirror' : i \in DOMAIN mirror \/ mirror'[i] = m
      /\ \A i \in DOMAIN mirror : mirror'[i] = mirror[i]
  BY NodeAdded
<1>2. ASSUME NEW q PROVE KnownType(q)' = KnownType(q)
  BY DEF KnownType, KnownUri, RemoteUri
<1>3. ASSUME m.class = "variable", KnownType(agent.dataType[m.remote])
      PROVE  m.value \in {"copied", "refused"}
  <2>1. agent.dataType[m.remote] \in QualifiedName(agent) /\ agent \in Agents
    BY <1>3, AgentShape, Shapes
  <2> QED
    BY <1>3, <2>1, KnownTypeCopied DEF Arriving
<1>4. ASSUME NEW i \in DOMAIN mirror', mirror'[i].class = "variable",
             KnownType(agent.dataType[mirror'[i].remote])
      PROVE  mirror'[i].value \in {"copied", "refused"}
  BY <1>1, <1>3, <1>4 DEF ValuesCopied
<1>5. ASSUME NEW i \in DOMAIN mirror',
             mirror'[i].class = "variable" /\ KnownType(agent.dataType[mirror[i].remote])'
      PROVE  mirror'[i].value \in {"copied", "refused"}
  BY <1>4, <1>5 DEF KnownType, KnownUri, RemoteUri
<1> QED
  BY <1>5 DEF ValuesCopied

\* An entry stays; the mirror only grows.
LEMMA EntriesStay ==
    ASSUME Inv, mirror' = mirror \/ \E m : mirror' = Append(mirror, m), NEW k, EntryMade(k)
    PROVE  EntryMade(k)'
<1>1. \A i \in DOMAIN mirror : i \in DOMAIN mirror' /\ mirror'[i] = mirror[i]
  BY NodeAdded
<1> QED
  BY <1>1 DEF EntryMade

\* What the invariant says is kept where mirror and stack are left alone.
LEMMA NothingCopied ==
    ASSUME UNCHANGED <<agent, mirror, stack>>
    PROVE  /\ AllVisited => AllVisited'
           /\ ValuesCopied => ValuesCopied'
           /\ \A k : EntryMade(k)' = EntryMade(k)
<1>1. \A i : MirroredBelow(i)' = MirroredBelow(i)
  BY DEF MirroredBelow, Originals, Below
<1>2. ASSUME NEW h PROVE Halfway(h) => Halfway(h)'
  BY <1>1, HalfwayStays
<1>3. ASSUME AllVisited PROVE AllVisited'
  <2>1. \A d \in DOMAIN stack' : Halfway(stack[d])'
    <3> SUFFICES ASSUME NEW d \in DOMAIN stack' PROVE Halfway(stack[d])'
      OBVIOUS
    <3>1. PICK h : h = stack[d] /\ h = stack'[d]
      OBVIOUS
    <3>2. Halfway(h)
      BY <1>3, <3>1 DEF AllVisited
    <3> QED
      BY <1>2, <3>1, <3>2
  <2>2. \A i \in DOMAIN mirror : Done(i) => Done(i)'
    BY <1>1 DEF Done, ToMirror, Targets, ToCopy
  <2> QED
    BY <1>3, <2>1, <2>2 DEF AllVisited
<1>4. ValuesCopied => ValuesCopied'
  BY DEF ValuesCopied, KnownType, KnownUri, RemoteUri
<1>5. \A k : EntryMade(k)' = EntryMade(k)
  BY DEF EntryMade
<1> QED
  BY <1>3, <1>4, <1>5

\* No step leads back to the connect.
LEMMA NextConnect ==
    ASSUME CopyInv, [Next]_vars, status' = "connect"
    PROVE  stack' = <<>> /\ index' = 1
<1>1. UNCHANGED <<status, stack, index>>
  <2>1. CASE Visit
    BY <2>1 DEF Visit, VisitObject, VisitMethod, VisitVariable, CopyVariable, Visits, Visiting
  <2>2. CASE SearchName \/ NameNotFound \/ EntryNotFound \/ EntryCut \/ ResolveEntry
    BY <2>2 DEF SearchName, NameNotFound, EntryNotFound, EntryCut, ResolveEntry, Resolving
  <2>3. CASE SkipReference \/ VisitUnread \/ VisitCut \/ VisitTooDeep \/ Return
    BY <2>3 DEF SkipReference, VisitUnread, VisitCut, VisitTooDeep, Return, Visits, Visiting
  <2>4. CASE Connect \/ LoseConnection \/ Finish \/ StartThread \/ UNCHANGED vars
    BY <2>4 DEF Connect, LoseConnection, Finish, StartThread, vars, walk
  <2> QED
    BY <2>1, <2>2, <2>3, <2>4 DEF Next, Registration, NodeIter, Visit, Terminated
<1> QED
  BY <1>1 DEF CopyInv

\* The invariant of the copying.
LEMMA NextCopy == Inv /\ CopyInv /\ [Next]_vars => CopyInv'
<1> SUFFICES ASSUME Inv, CopyInv, [Next]_vars, connection' = "open", status' # "undefined"
             PROVE  AllVisited' /\ EntriesMade' /\ ValuesCopied' /\ WalkOver'
  BY NextConnect DEF CopyInv
<1>1. CASE Connect
  <2>1. /\ UNCHANGED <<mirror, stack, index>>
        /\ mirror = <<>> /\ stack = <<>> /\ index = 1 /\ status' = "resolve"
    BY <1>1 DEF Connect, walk, made, Inv, CopyInv
  <2>2. DOMAIN mirror' = {} /\ DOMAIN stack' = {}
    BY <2>1
  <2>3. DOMAIN Mappings = 1 .. Len(Mappings) /\ Len(Mappings) \in Nat
    BY MappingAssumption, LenProperties
  <2>4. EntriesMade'
    BY <2>1, <2>3 DEF EntriesMade
  <2> QED
    BY <2>1, <2>2, <2>4 DEF AllVisited, ValuesCopied, WalkOver
<1> SUFFICES ASSUME ~Connect PROVE AllVisited' /\ EntriesMade' /\ ValuesCopied' /\ WalkOver'
  BY <1>1
<1>2. connection = "open"
  BY DEF Next, Registration, NodeIter, SearchName, NameNotFound, EntryNotFound, EntryCut,
         ResolveEntry, SkipReference, VisitUnread, VisitCut, VisitTooDeep, VisitObject,
         VisitMethod, VisitVariable, Visits, Return, LoseConnection, Finish, StartThread,
         Terminated, vars
<1>3. agent' = agent /\ status # "undefined"
  BY DEF Next, Registration, NodeIter, SearchName, NameNotFound, EntryNotFound, EntryCut,
         ResolveEntry, SkipReference, VisitUnread, VisitCut, VisitTooDeep, VisitObject,
         VisitMethod, VisitVariable, Visits, Visiting, Resolving, Return, LoseConnection,
         Finish, StartThread, Terminated, vars
<1>4. AllVisited /\ EntriesMade /\ ValuesCopied /\ WalkOver
  BY <1>2, <1>3 DEF CopyInv
<1>5. CASE UNCHANGED <<mirror, stack, status, index>>
  BY <1>3, <1>4, <1>5, NothingCopied DEF EntriesMade, WalkOver
<1>6. CASE SkipReference
  <2>1. /\ Visiting /\ UNCHANGED <<agent, mirror, status, index>> /\ stack' = Advanced
        /\ ~Follows(Ref) \/ ClassOfRef \notin Mirrored
    BY <1>6 DEF SkipReference, made
  <2>2. AllVisited'
    BY <1>4, <2>1, SkipVisited
  <2>3. ValuesCopied'
    BY <1>4, <2>1 DEF ValuesCopied, KnownType, KnownUri, RemoteUri
  <2> QED
    BY <1>4, <2>1, <2>2, <2>3 DEF EntriesMade, EntryMade, WalkOver, Visiting
<1>7. CASE Visit
  <2>1. /\ Visiting /\ Follows(Ref) /\ status' = status /\ index' = index
        /\ \E m : Copies(m)
    BY <1>3, <1>7, VisitCopies DEF Visiting
  <2>2. PICK m : Copies(m)
    BY <2>1
  <2>3. AllVisited'
    BY <1>3, <1>4, <2>1, <2>2, CopyVisited
  <2>4. mirror' = Append(mirror, m) /\ m.remote = Ref.to
    BY <2>2 DEF Copies
  <2>5. Ref.to \in agent.nodes
    BY <2>1, Visited DEF Reference
  <2>6. m.class = "variable" => m.value \in Arriving(m.remote) \cup {"refused"}
    BY <2>2 DEF Copies
  <2>7. ValuesCopied'
    BY <1>3, <1>4, <2>4, <2>5, <2>6, ValuesGrow
  <2>8. \A k : EntryMade(k) => EntryMade(k)'
    BY <2>4, EntriesStay
  <2> QED
    BY <1>4, <2>1, <2>3, <2>7, <2>8 DEF EntriesMade, WalkOver, Visiting
<1>8. CASE Return
  <2>1. /\ UNCHANGED <<agent, mirror>> /\ status = "walk" /\ stack' = Tail(stack)
        /\ IF Len(stack) > 1 THEN UNCHANGED <<status, index>>
           ELSE status' = "resolve" /\ index' = index + 1
    BY <1>8 DEF Return, made
  <2>2. AllVisited'
    BY <1>4, <1>8, ReturnVisited
  <2>3. ValuesCopied'
    BY <1>4, <2>1 DEF ValuesCopied, KnownType, KnownUri, RemoteUri
  <2>4. index \in Nat /\ DOMAIN Mappings = 1 .. Len(Mappings) /\ Len(Mappings) \in Nat
    BY Shapes, MappingAssumption, LenProperties
  <2>5. EntriesMade'
    BY <1>4, <2>1, <2>4 DEF EntriesMade, EntryMade
  <2>6. ~(Len(stack) > 1) => Tail(stack) = <<>>
    <3>1. /\ stack \in Seq(Working) /\ Len(stack) \in Nat /\ stack # <<>>
      BY <2>1, Shapes
    <3> DEFINE T == Tail(stack)
    <3>2. T \in Seq(Working) /\ Len(T) = Len(stack) - 1 /\ Len(stack) >= 1
      <4> HIDE DEF Working
      <4> QED
        BY <3>1, Ends
    <3> HIDE DEF T
    <3>3. ~(Len(stack) > 1) => T = <<>>
      <4> HIDE DEF Working
      <4> QED
        BY <3>1, <3>2, EmptySeq
    <3> QED
      BY <3>3 DEF T
  <2> QED
    BY <2>1, <2>2, <2>3, <2>5, <2>6 DEF WalkOver
<1>9. CASE ResolveEntry
  <2>1. status = "resolve" /\ status' = "walk" /\ index' = index
    BY <1>9 DEF ResolveEntry, Resolving
  <2>2. stack = <<>>
    BY <1>4, <2>1 DEF WalkOver
  <2>3. AllVisited' /\ EntryMade(index)' /\ \E m : mirror' = Append(mirror, m) /\ m.class = "entry"
    BY <1>4, <1>9, <2>2, EntryVisited
  <2>4. PICK m : mirror' = Append(mirror, m) /\ m.class = "entry"
    BY <2>3
  <2>5. ValuesCopied'
    BY <1>3, <1>4, <2>4, ValuesGrow
  <2>6. \A k : EntryMade(k) => EntryMade(k)'
    BY <2>4, EntriesStay
  <2>7. EntriesMade'
    BY <1>4, <2>1, <2>3, <2>6 DEF EntriesMade
  <2> QED
    BY <2>1, <2>3, <2>5, <2>7 DEF WalkOver
<1>10. CASE Finish
  <2>1. /\ UNCHANGED <<agent, mirror, stack, index>> /\ status = "resolve" /\ status' = "thread"
        /\ index > Len(Mappings)
    BY <1>10 DEF Finish, walk, made
  <2> QED
    BY <1>4, <2>1, NothingCopied DEF EntriesMade, WalkOver
<1>11. CASE StartThread
  <2>1. /\ UNCHANGED <<agent, mirror, stack, index>> /\ status = "thread" /\ status' = "ready"
    BY <1>11 DEF StartThread, walk
  <2> QED
    BY <1>4, <2>1, NothingCopied DEF EntriesMade, WalkOver
<1>12. SearchName \/ LoseConnection \/ UNCHANGED vars
           => UNCHANGED <<mirror, stack, status, index>>
  BY DEF SearchName, LoseConnection, vars, walk, made
<1>13. ~(NameNotFound \/ EntryNotFound \/ EntryCut \/ VisitUnread \/ VisitCut \/ VisitTooDeep)
  BY <1>2 DEF NameNotFound, EntryNotFound, EntryCut, VisitUnread, VisitCut, VisitTooDeep
<1> QED
  BY <1>5, <1>6, <1>7, <1>8, <1>9, <1>10, <1>11, <1>12, <1>13
     DEF Next, Registration, NodeIter, Visit, Terminated

\* A registration that kept its connection has handed every mapping and every
\* reference to the server exactly once and in their order, and all values of
\* known types unchanged, whichever of them the server refused; for any agent,
\* whatever its nodes share and however its references turn back
\* (node_iterator.c 68-250).
THEOREM EveryReferenceOnce == Spec => []HandedOverOnce
<1>1. Init => CopyInv
  <2> SUFFICES ASSUME Init PROVE CopyInv
    OBVIOUS
  <2> QED
    BY DEF Init, CopyInv
<1>2. Inv /\ CopyInv => HandedOverOnce
  <2> SUFFICES ASSUME CopyInv, Inv, status \in {"thread", "ready"}, connection = "open"
               PROVE  /\ \A k \in DOMAIN Mappings : EntryMade(k)
                      /\ \A i \in DOMAIN mirror : mirror[i].class \in {"entry", "object"} => Done(i)
                      /\ ValuesCopied
    BY DEF HandedOverOnce, EntryMade, Done, ValuesCopied
  <2>1. AllVisited /\ EntriesMade /\ ValuesCopied /\ WalkOver
    BY DEF CopyInv
  <2>2. stack = <<>> /\ index > Len(Mappings)
    BY <2>1 DEF WalkOver
  <2>3. DOMAIN Mappings = 1 .. Len(Mappings) /\ Len(Mappings) \in Nat /\ index \in Nat
    BY MappingAssumption, LenProperties, Shapes
  <2>4. DOMAIN stack = {}
    BY <2>2
  <2> QED
    BY <2>1, <2>2, <2>3, <2>4 DEF AllVisited, EntriesMade
<1> QED
  BY <1>1, <1>2, InitInv, NextInv, NextCopy, PTL DEF Spec
=============================================================================

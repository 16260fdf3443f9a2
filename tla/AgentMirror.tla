---------------------------- MODULE AgentMirror -----------------------------
(***************************************************************************)
(* What a client can rely on when it looks at the mirror of a node that    *)
(* only the agent changes: it shows values the agent had, in the order in  *)
(* which the agent had them, though not all of them.                       *)
(***************************************************************************)
EXTENDS Integers

CONSTANT Nodes

VARIABLES
    remote,  \* how often each node has changed at the agent
    mirror   \* the change whose value the mirror shows

Init ==
    /\ remote = [n \in Nodes |-> 0]
    /\ mirror = [n \in Nodes |-> 0]

Change(n) ==
    /\ remote' = [remote EXCEPT ![n] = @ + 1]
    /\ UNCHANGED mirror

Show(n) ==
    /\ \E v \in mirror[n] .. remote[n] : mirror' = [mirror EXCEPT ![n] = v]
    /\ UNCHANGED remote

Next == \E n \in Nodes : Change(n) \/ Show(n)

Spec == Init /\ [][Next]_<<remote, mirror>>
=============================================================================

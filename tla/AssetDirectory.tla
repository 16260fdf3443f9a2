--------------------------- MODULE AssetDirectory ---------------------------
(***************************************************************************)
(* What the registry promises a client that browses AgentList: the agents  *)
(* registered and not yet unregistered, grouped under the services they    *)
(* offer.  A service that nobody offers is there only because a            *)
(* registration failed half-way; it goes with its next agent that leaves.  *)
(***************************************************************************)
CONSTANTS Urls, Services

VARIABLES
    assets,   \* the registered <<url, service>> pairs
    services  \* the service nodes a client can see

Offered(set) == {a[2] : a \in set}

Init ==
    /\ assets = {}
    /\ services = {}

Register(u, s) ==
    /\ assets' = assets \cup {<<u, s>>}
    /\ services' = services \cup {s}

\* A registration that fails after it looked up its service.
Announce(s) ==
    /\ services' = services \cup {s}
    /\ UNCHANGED assets

\* The last agent of a service takes the service node with it.
Unregister(u, s) ==
    /\ <<u, s>> \in assets
    /\ assets' = assets \ {<<u, s>>}
    /\ services' = IF s \in Offered(assets') THEN services ELSE services \ {s}

Next ==
    \/ \E u \in Urls, s \in Services : Register(u, s) \/ Unregister(u, s)
    \/ \E s \in Services : Announce(s)

Spec == Init /\ [][Next]_<<assets, services>>
=============================================================================

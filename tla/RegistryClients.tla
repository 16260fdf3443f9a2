-------------------------- MODULE RegistryClients ---------------------------
(***************************************************************************)
(* The registry together with well-behaved agents: an agent registers      *)
(* itself while it is up, not a second time before it has unregistered     *)
(* (register.rst: "a single server can only be registered once"), and      *)
(* unregisters with the service it registered under.  The module asks      *)
(* what the registry gives clients that respect all it documents.          *)
(***************************************************************************)
EXTENDS Registry

VARIABLE enrolled  \* <<url, service>> pairs, as the agents remember them

clientVars == <<vars, enrolled>>

IsEnrolled(u) == \E s \in Services : <<u, s>> \in enrolled

ClientInit == Init /\ enrolled = {}

Enrol(u, s) ==
    /\ u \in reachable
    /\ ~IsEnrolled(u)
    /\ AddAgent(u, s, "ok")
    /\ enrolled' = enrolled \cup {<<u, s>>}

Withdraw(u, s, read) ==
    /\ <<u, s>> \in enrolled
    /\ RemoveAgent(u, s, read)
    /\ enrolled' = enrolled \ {<<u, s>>}

ClientNext ==
    \/ \E u \in Urls, s \in Services : Enrol(u, s)
    \/ \E u \in Urls, s \in Services, read \in UrlReads : Withdraw(u, s, read)
    \/ Environment /\ UNCHANGED enrolled

\* As in Registry: main.c takes a step of its loop whenever it can.
ClientSpec ==
    /\ ClientInit
    /\ [][ClientNext]_clientVars
    /\ WF_clientVars(MainLoop /\ UNCHANGED enrolled)

-----------------------------------------------------------------------------
(* Properties.                                                             *)

\* The configuration an enrolled agent's last registration allocated.
Current(c) ==
    /\ c \in DOMAIN configs
    /\ <<configs[c].url, configs[c].service>> \in enrolled
    /\ \A d \in DOMAIN configs : configs[d].url = configs[c].url => d <= c

\* The main loop walks exactly the enrolled agents, each once: unregistering
\* one agent never drops or duplicates another (callback_functions.c 258-266,
\* register_agent.c 147-155).  So clearing the list frees no configuration
\* twice (registry_module_clear.c 92-99).
ListMirrorsClients ==
    /\ {<<configs[c].url, configs[c].service>> : c \in Listed} = enrolled
    /\ \A i, j \in DOMAIN agent_url : agent_url[i] = agent_url[j] => i = j

\* Where the request's url is read as it was sent, the nodes clients browse
\* are the enrolled agents (callback_functions.c 175-210).
NodesMirrorClients == Shown = enrolled

\* With agents that are complete and up when they register, no sequence of
\* their calls, outages and the threads' steps leaves the defined behaviour:
\* the counter never wraps and no thread runs without a client.
NeverUndefined == pc # "undefined"

\* A change that an enrolled agent reported reaches its mirrored node (main.c
\* 40-45; README.md: "The Data Values are mapped to the registry module").
EnrolledIsDrained ==
    \A c \in ConfigIds :
        (c \in pending /\ Current(c)) ~>
            (c \notin pending \/ ~Current(c) \/ ~Alive)
=============================================================================

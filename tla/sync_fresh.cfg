\* Subscriptions only, as add_agent_server configures them: the mirror
\* catches up.
CONSTANTS
    NoNode = NoNode
    n1 = n1
    n2 = n2
    Subscribed = {n1, n2}
    OnDemand = {}
    Writable = {}
    Refusing = {}
    Changing = {n1, n2}
    MaxChanges = 2
    MaxReads = 0
    MaxCalls = 1
    MaxRestarts = 0
    MayStop = TRUE
    Backlog = 1
SPECIFICATION Spec
PROPERTIES  MainReturns

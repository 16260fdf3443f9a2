\* On-demand nodes only: overlapping reads, the agent restarts under them, and
\* refuses writes.
CONSTANTS
    NoNode = NoNode
    n1 = n1
    n2 = n2
    Subscribed = {}
    OnDemand = {n1, n2}
    Writable = {n2}
    Refusing = {n2}
    Changing = {n1}
    MaxChanges = 1
    MaxReads = 3
    MaxCalls = 0
    MaxRestarts = 1
    MayStop = FALSE
    Backlog = 2
SPECIFICATION Spec
PROPERTIES ReadRefreshes RequestIsServed

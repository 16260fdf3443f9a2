\* The agent restarts once.
CONSTANTS
    NoNode = NoNode
    n1 = n1
    Subscribed = {n1}
    OnDemand = {}
    Writable = {}
    Refusing = {}
    Changing = {n1}
    MaxChanges = 2
    MaxReads = 0
    MaxCalls = 0
    MaxRestarts = 1
    MayStop = FALSE
    Backlog = 1
SPECIFICATION Spec
PROPERTIES MirrorCatchesUp

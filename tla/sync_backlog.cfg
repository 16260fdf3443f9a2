\* Two notifications of a node meet in the response queue.
CONSTANTS
    NoNode = NoNode
    n1 = n1
    Subscribed = {n1}
    OnDemand = {}
    Writable = {}
    Refusing = {}
    Changing = {n1}
    MaxChanges = 2
    MaxReads = 0
    MaxCalls = 0
    MaxRestarts = 0
    MayStop = FALSE
    Backlog = 2
SPECIFICATION Spec
PROPERTIES MirrorCatchesUp

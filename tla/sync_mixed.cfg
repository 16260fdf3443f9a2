\* Both modes, a restart: what is never lost and never goes back.  The
\* process can stop: with both modes the thread can wait for its own mutex.
CONSTANTS
    NoNode = NoNode
    n1 = n1
    n2 = n2
    n3 = n3
    Subscribed = {n1}
    OnDemand = {n2, n3}
    Writable = {n3}
    Refusing = {}
    Changing = {n1, n2}
    MaxChanges = 2
    MaxReads = 2
    MaxCalls = 1
    MaxRestarts = 1
    MayStop = TRUE
    Backlog = 1
SPECIFICATION Spec
INVARIANTS TypeOK  WritesAgree
PROPERTIES MirrorSpec
CHECK_DEADLOCK FALSE

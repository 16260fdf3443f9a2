\* Agents of a service list their capabilities differently, some of them like the
\* first.
CONSTANTS
    Layouts <- AlikeLayouts
    Numbers = {0, 1}
    Strings = {"true"}
    Wishes <- AllWishes
    Atof <- WishNumbers
    QueryNames <- AllQueries
    Forms = {"array", "scalar"}
    StringReads = {"exact", "service", "wish"}
    Empty = Empty
    MaxAgents = 2
SPECIFICATION Spec
INVARIANTS TypeOK AlikeAnsweredExactly

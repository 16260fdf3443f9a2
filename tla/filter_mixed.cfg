\* Agents of a service list their capabilities differently.
CONSTANTS
    Layouts <- MixedLayouts
    Numbers = {0, 1}
    Strings = {"red"}
    Wishes <- AllWishes
    Atof <- WishNumbers
    QueryNames <- AllQueries
    Forms = {"array"}
    StringReads = {"exact"}
    Empty = Empty
    MaxAgents = 2
SPECIFICATION Spec
INVARIANTS AnswerIsExact

\* Every small graph, read in every order, by each of the three traversals.
SPECIFICATION Spec
CONSTANTS
    Start = Start
    a = a
    b = b
    c = c
    d = d
    Node <- MCNode
    Graphs <- MCGraphs
    Classings <- MCClassings
    Walkers = {"reach", "trust", "paths"}
    MaxHops = 3
    Limits = {1, 2}
INVARIANTS
    TypeOK
    PathsAreReal
    HopsAreShortest
    NearestAreGathered
    BestAreReported
    BlastIsExact
CHECK_DEADLOCK FALSE

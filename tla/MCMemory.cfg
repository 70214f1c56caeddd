CONSTANTS
    o1 = o1
    o2 = o2
    Objects = {o1, o2}
    Pairings <- MCPairings
    Literals <- MCLiterals
    Values = {1, 2}
    MaxSize = 3
SPECIFICATION Spec
INVARIANTS TypeOK ValueKept Terminated OneOwner ElementsAlive NoFault
VIEW View

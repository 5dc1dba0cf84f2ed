SPECIFICATION ScopedSpec
CONSTANTS
    w1 = w1
    w2 = w2
    o1 = o1
    o2 = o2
    j1 = j1
    None = None
    Jobs = {j1}
    Workers = {w1, w2}
    Operators = {o1, o2}
    Stoppable = {w1}
    MaxGen = 2
INVARIANTS TypeOK InputStaysWithOwner
PROPERTIES LiveSessionIsNotOverwritten StaleOwnerIsPowerless ImplementsTakeover FencedWaitEnds

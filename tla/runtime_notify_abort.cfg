SPECIFICATION Spec
CONSTANTS
    PoolSize = 2
    Tasks = {t1, t2}
    Parks = {c1}
    Conds = {c1}
    TicksMax = 2
    EpollEventSize = 1
    MaxFunctions = 3
    None = None
SYMMETRY Symmetry
INVARIANTS AssertionsHold

SPECIFICATION FairSpec
CONSTANTS
    PoolSize = 2
    Tasks = {t1, t2}
    Parks = {p1}
    Conds = {}
    TicksMax = 2
    EpollEventSize = 1
    MaxFunctions = 0
    None = None
PROPERTIES LoopTurns ReadyIsResumed TimedWaitEnds

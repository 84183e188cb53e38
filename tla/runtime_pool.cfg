SPECIFICATION SocketSpec
CONSTANTS
    PoolSize = 2
    Tasks = {t1, t2, t3}
    Parks = {p1}
    Conds = {}
    TicksMax = 2
    EpollEventSize = 1
    MaxFunctions = 0
    None = None
INVARIANTS PoolConsistent AssertionsHold OneWakeup NoLostWakeup TimerBelongsToWait
PROPERTIES ImplementsService

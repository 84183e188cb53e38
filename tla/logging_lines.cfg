SPECIFICATION FairSpec
CONSTANTS
    BufferSize = 3
    DropLimit = 2
    RollSize = 2
    CheckEveryN = 2
    Day = 2
    MaxLines = 6
    MaxTime = 2
    MaxFailures = 1
INVARIANTS NothingLost FileNamesDiffer OversizeIsTransient
PROPERTIES LinesReachFile StopLosesOnlyTheLast StopReturns

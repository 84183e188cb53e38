SPECIFICATION Spec
CONSTANTS
    WheelNum = 3
    WheelSize = 4
    Timers = {t1, t2}
    Delays = {0, 3, 4, 6, 9}
    Periods = {0, 3}
    StartTimes = {9}
    MaxNow = 28
    MaxLag = 2
INVARIANTS TypeOK MoveAssertion NotOverdue
PROPERTIES RunsNear StaysLinked
SYMMETRY Symmetry

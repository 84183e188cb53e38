SPECIFICATION Spec
CONSTANTS
    WheelNum = 3
    WheelSize = 4
    Timers = {t1}
    Delays = {17, 40}
    Periods = {0}
    StartTimes = {0}
    MaxNow = 60
    MaxLag = 1
INVARIANTS NotOverdue
SYMMETRY Symmetry

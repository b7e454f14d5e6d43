SPECIFICATION Spec
CONSTANTS
    UnitsPerMs = 2
    PeriodMs = 1
    MsPerSec = 2
    SecPerMin = 4
    Word = 8
    MinIdle = 2
    FloorMs = 3
    CalEvery = 2
    MaxLeft = 4
    MaxOver = 2
    MaxLate = 1
    MaxSleeps = 2
INVARIANTS NeverHalted NeverAhead DriftBounded
PROPERTIES BankReplayed DriftRepaired

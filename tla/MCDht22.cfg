CONSTANTS
    Values <- MCValues
    Timings <- MCTimings
    Glitches <- MCGlitches
    PollPeriod = 1
SPECIFICATION Spec
CHECK_DEADLOCK FALSE
INVARIANTS
    TypeOK
    ReadsWhatWasSent
    NoCorruptReading

CONSTANTS
    c1 = c1
    c2 = c2
    Clients <- MCOneClient
    MaxRequests = 4
    MaxPresses = 0
    ToggleRoute = TRUE
    ParamToggleRoute = TRUE
    SecondsInputs = {0, 3, 7}
    SecondsMax = 5

SPECIFICATION Spec

\* Once the bounds are spent every task awaits a button edge, a connection
\* or NOTIFY_LED: the firmware idles, it has not stopped.
CHECK_DEADLOCK FALSE

INVARIANT TypeOK
PROPERTY LastCommandWins
PROPERTY TogglePeriodFollows

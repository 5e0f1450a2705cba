CONSTANTS
    c1 = c1
    c2 = c2
    Clients <- MCTwoClients
    MaxRequests = 2
    MaxPresses = 0
    ToggleRoute = TRUE
    ParamToggleRoute = FALSE
    SecondsInputs = {1}
    SecondsMax = 5

SPECIFICATION Spec

\* Once the bounds are spent every task awaits a button edge, a connection
\* or NOTIFY_LED: the firmware idles, it has not stopped.
CHECK_DEADLOCK FALSE

PROPERTY LastCommandWins

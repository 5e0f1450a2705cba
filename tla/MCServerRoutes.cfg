\* The light-with-events route table, built by up to three extra route
\* calls in any order, against every request target of up to five tokens
\* that starts with '/'.  The handler never changes the device, so each
\* behaviour serves one request and then stops: deadlock is not checked.
SPECIFICATION Spec
CONSTANTS
    hOn = hOn
    hOff = hOff
    hToggle = hToggle
    hToggleState = hToggleState
    hToggleSeconds = hToggleSeconds
    hInfo = hInfo
    Words <- MCWords
    Numerals <- MCNumerals
    MainRoute <- MCMainRoute
    LightOnCalls <- MCLightOnCalls
    LightOffCalls <- MCLightOffCalls
    RouteCalls <- MCRouteCalls
    Handlers <- MCHandlers
    RequestPaths <- MCSlashPaths
    Bodies <- MCBodies
    MaxRoutes = 5
CHECK_DEADLOCK FALSE
INVARIANT TypeOK
INVARIANT DispatchAgrees
INVARIANT HazardCatalogueConsistent
INVARIANT AnswerAsAdvertised

CONSTANTS
    d1 = d1
    d2 = d2
    Devices <- MCDevices
    EventDevices <- MCEventDevicesOne
    Discoverable <- MCDiscoverable
    BufferSizes = {1}
    FailingBrokers <- MCFailingOne
    MaxPolls = 2
    MaxCalls = 2
    MaxReceivers = 2

SPECIFICATION Spec

\* A task whose broker stays quiet waits in its select! for good, a state
\* the program can rest in; whether shutdown may then hang is the question
\* ShutdownReturns asks, so it is not reported as a deadlock.
CHECK_DEADLOCK FALSE

PROPERTY ShutdownStopsRegistryTasks
PROPERTY ShutdownReturns

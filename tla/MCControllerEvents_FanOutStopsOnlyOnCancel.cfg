CONSTANTS
    d1 = d1
    d2 = d2
    Devices <- MCDevices
    EventDevices <- MCEventDevices
    Discoverable <- MCDiscoverable
    BufferSizes = {1}
    FailingBrokers <- MCFailingNone
    MaxPolls = 1
    MaxCalls = 2
    MaxReceivers = 2

SPECIFICATION Spec

INVARIANT FanOutStopsOnlyOnCancel

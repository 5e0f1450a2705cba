CONSTANTS
    d1 = d1
    d2 = d2
    FireHazard = FireHazard
    LogEnergyConsumption = LogEnergyConsumption
    on = on
    off = off
    toggle = toggle
    Devices <- MCDevices
    Routes <- MCRoutes
    DeviceRoutes <- MCDeviceRoutes
    RouteHazards <- MCRouteHazards
    ParamRoutes <- MCParamRoutes
    Discoverable <- MCDiscoverable
    Policies <- MCPolicies
    MaxOps = 8

SPECIFICATION Spec

\* The caller stops after MaxOps operations; there is nothing else to run.
CHECK_DEADLOCK FALSE

INVARIANT GateDecides

---------------------------- MODULE MCRequestGate ----------------------------
(* The controller test scenario (controller.rs tests): global block       *)
(* {LogEnergyConsumption}, local block {FireHazard} for device 0; /on     *)
(* declares no hazard, /off LogEnergyConsumption, /toggle FireHazard.     *)
EXTENDS RequestGate

CONSTANTS d1, d2, FireHazard, LogEnergyConsumption, on, off, toggle

MCDevices == {d1, d2}
MCRoutes == {on, off, toggle}
MCDeviceRoutes == (d1 :> {on, off, toggle}) @@ (d2 :> {on, toggle})
MCRouteHazards ==
    (on :> {}) @@ (off :> {LogEnergyConsumption}) @@ (toggle :> {FireHazard})
MCParamRoutes == {on}
MCDiscoverable == {<<d1, d2>>, <<d2, d1>>, <<d1>>}
MCPolicies ==
    { BlockDeviceOnHazards(PolicyNew({LogEnergyConsumption}), 0, {FireHazard}),
      BlockDeviceOnHazards(OnlyLocalPolicy(1, {LogEnergyConsumption}),
                           1, {FireHazard}) }
=============================================================================

------------------------- MODULE MCControllerEvents -------------------------
(* Instantiation of ControllerEvents for TLC: two physical devices, both  *)
(* publishing events, one whose broker may refuse the subscription, and   *)
(* discovery returning them in either order.                               *)
EXTENDS ControllerEvents

CONSTANTS d1, d2

MCDevices == {d1, d2}
MCEventDevices == {d1, d2}
MCDiscoverable == {<<d1, d2>>, <<d2, d1>>}
MCFailingBrokers == {d2}
MCFailingNone == {}

(* d2 without an EventsDescription; d1's broker may refuse.             *)
MCEventDevicesOne == {d1}
MCFailingOne == {d1}
=============================================================================

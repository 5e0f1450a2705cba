----------------------------- MODULE RequestGate -----------------------------
(***************************************************************************)
(* The request path of tosca-controller (controller.rs): the caller holds *)
(* the Controller, builds a DeviceSender with Controller::device(id), a    *)
(* RequestSender with DeviceSender::request(route), which caches the      *)
(* policy decision, and sends.  Senders borrow the Controller, so         *)
(* discover and change_policy (&mut self) wait until they are dropped.    *)
(*                                                                         *)
(* Devices are physical devices (model values); the registry is the list  *)
(* discovery returned, and a device id is an index into it (0-based).     *)
(* Every send is recorded in log with the policy in force.                *)
(***************************************************************************)
EXTENDS Naturals, Sequences, FiniteSets, Policy

CONSTANTS
    Devices,        \* physical devices
    Routes,         \* route names
    DeviceRoutes,   \* [Devices -> SUBSET Routes]: the routes a device has
    RouteHazards,   \* [Routes -> SUBSET Hazards]: hazards a route declares
    ParamRoutes,    \* routes whose parameters_data is not empty
    Discoverable,   \* the registries Discovery::discover can return
    Policies,       \* the policies the caller may install
    MaxOps          \* bound: caller operations

ASSUME /\ \A r \in Discoverable : r \in Seq(Devices)
       /\ DeviceRoutes \in [Devices -> SUBSET Routes]
       /\ ParamRoutes \subseteq Routes

VARIABLES
    registry,   \* Controller.devices
    policy,     \* Controller.privacy_policy
    dsender,    \* the DeviceSender the caller holds, or None
    rsender,    \* the RequestSender the caller holds, or None
    log,        \* the sends, in order
    result,     \* the outcome of the caller's last operation
    ops         \* caller operations made, for the MaxOps bound

vars == <<registry, policy, dsender, rsender, log, result, ops>>

None == [none |-> TRUE]

MaxId == Cardinality(Devices)   \* ids 0..MaxId include one out of range

Step == ops < MaxOps /\ ops' = ops + 1

Borrowed == dsender # None \/ rsender # None

-----------------------------------------------------------------------------

(* Controller::discover: the registry is replaced when discovery succeeds *)
(* and left as it was when `?` returns its error.                          *)
Discover ==
    /\ ~Borrowed
    /\ Step
    /\ \/ \E r \in Discoverable : registry' = r /\ result' = "ok"
       \/ UNCHANGED registry /\ result' = "discovery_error"
    /\ UNCHANGED <<policy, dsender, rsender, log>>

(* Controller::change_policy                                               *)
ChangePolicy ==
    /\ ~Borrowed
    /\ Step
    /\ \E p \in Policies : policy' = p
    /\ result' = "ok"
    /\ UNCHANGED <<registry, dsender, rsender, log>>

(* Controller::device(id): "No devices found." for an empty registry, a  *)
(* not-found error for an index past its end.                              *)
Device ==
    /\ dsender = None
    /\ Step
    /\ \E id \in 0..MaxId :
          \/ /\ registry = <<>>
             /\ result' = "no_devices"
             /\ UNCHANGED dsender
          \/ /\ registry # <<>>
             /\ id >= Len(registry)
             /\ result' = "device_not_found"
             /\ UNCHANGED dsender
          \/ /\ id < Len(registry)
             /\ dsender' = [id |-> id, dev |-> registry[id + 1]]
             /\ result' = "ok"
    /\ UNCHANGED <<registry, policy, rsender, log>>

(* DeviceSender::request(route): route lookup, then the skip decision of  *)
(* the policy of this moment, cached in the RequestSender.                 *)
Request ==
    /\ dsender # None
    /\ rsender = None
    /\ Step
    /\ \E route \in Routes :
          \/ /\ route \notin DeviceRoutes[dsender.dev]
             /\ result' = "route_not_found"
             /\ UNCHANGED rsender
          \/ /\ route \in DeviceRoutes[dsender.dev]
             /\ rsender' = [id |-> dsender.id, dev |-> dsender.dev,
                            route |-> route,
                            skip |-> RequestSkip(policy, dsender.id,
                                                 RouteHazards[route])]
             /\ result' = "ok"
    /\ UNCHANGED <<registry, policy, dsender, log>>

(* Request::retrieve_response(skip, call): Skipped without a call when    *)
(* skip is set, otherwise the transport call, which may fail.              *)
RetrieveResponse(call) ==
    \E outcome \in IF rsender.skip THEN {"skipped"}
                                   ELSE {call, "transport_error"} :
       /\ log' = Append(log, [dev |-> rsender.dev, id |-> rsender.id,
                              route |-> rsender.route, outcome |-> outcome,
                              policy |-> policy])
       /\ result' = outcome

(* RequestSender::send: plain_send.                                        *)
Send ==
    /\ rsender # None
    /\ Step
    /\ RetrieveResponse("plain")
    /\ UNCHANGED <<registry, policy, dsender, rsender>>

(* RequestSender::send_with_parameters: a route without parameters falls  *)
(* back to send(); otherwise create_response with the values.             *)
SendWithParameters ==
    /\ rsender # None
    /\ Step
    /\ \/ rsender.route \notin ParamRoutes /\ RetrieveResponse("plain")
       \/ rsender.route \in ParamRoutes /\ RetrieveResponse("params")
    /\ UNCHANGED <<registry, policy, dsender, rsender>>

(* The RequestSender borrows the DeviceSender: it is dropped first.       *)
DropRequestSender ==
    /\ rsender # None
    /\ rsender' = None
    /\ UNCHANGED <<registry, policy, dsender, log, result, ops>>

DropDeviceSender ==
    /\ dsender # None
    /\ rsender = None
    /\ dsender' = None
    /\ UNCHANGED <<registry, policy, rsender, log, result, ops>>

-----------------------------------------------------------------------------

(* Controller::new or from_devices, with the Controller::policy builder.  *)
Init ==
    /\ registry \in {<<>>} \cup Discoverable
    /\ policy \in {PolicyInit} \cup Policies
    /\ dsender = None
    /\ rsender = None
    /\ log = <<>>
    /\ result = "ok"
    /\ ops = 0

Next ==
    \/ Discover \/ ChangePolicy \/ Device \/ Request
    \/ Send \/ SendWithParameters
    \/ DropRequestSender \/ DropDeviceSender

Spec == Init /\ [][Next]_vars

-----------------------------------------------------------------------------
(* Properties                                                              *)

(* Spec, section 8: a send is Skipped, with no transport call, exactly    *)
(* when the request's hazards meet the global block set or the block set  *)
(* of its device id in the policy in force when it is sent: the decision  *)
(* cached by DeviceSender::request is still the right one at send time.   *)
GateDecides ==
    \A k \in DOMAIN log :
       (log[k].outcome = "skipped")
          <=> BlockedByPolicy(log[k].policy, log[k].id,
                              RouteHazards[log[k].route])

=============================================================================

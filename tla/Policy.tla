------------------------------- MODULE Policy -------------------------------
(***************************************************************************)
(* The privacy policy of tosca-controller (policy.rs) and the decision     *)
(* DeviceSender takes from it (controller.rs).  A policy is a record: the *)
(* global block set and the per-device block sets, a function from device *)
(* ids (registry indexes, 0-based as in the code) to hazard sets; an id    *)
(* outside its domain has no local entry (HashMap::get returns None).     *)
(***************************************************************************)
EXTENDS Naturals, FiniteSets, TLC

(* Policy::init: nothing is blocked.                                       *)
PolicyInit ==
    [block_on_hazards |-> {}, block_device_on_hazards |-> <<>>]

(* Policy::new(block_on_hazards)                                           *)
PolicyNew(block_on_hazards) ==
    [PolicyInit EXCEPT !.block_on_hazards = block_on_hazards]

(* Policy::block_device_on_hazards(self, id, hazards): HashMap::insert,    *)
(* so a second call for the same id replaces the earlier set.              *)
BlockDeviceOnHazards(p, id, hazards) ==
    [p EXCEPT !.block_device_on_hazards = (id :> hazards) @@ @]

(* Policy::only_local_policy(id, hazards)                                  *)
OnlyLocalPolicy(id, hazards) == BlockDeviceOnHazards(PolicyInit, id, hazards)

(* Policy::global_blocked_hazards: the request's hazards in the global set *)
GlobalBlockedHazards(p, hazards) ==
    {h \in hazards : h \in p.block_on_hazards}

(* Policy::local_blocked_hazards: those in the set of device id, if any.   *)
LocalBlockedHazards(p, id, hazards) ==
    IF id \in DOMAIN p.block_device_on_hazards
    THEN {h \in hazards : h \in p.block_device_on_hazards[id]}
    ELSE {}

(* Mutation: the local rule is not consulted.                              *)
EvaluateGlobalOnly(p, id, hazards) ==
    GlobalBlockedHazards(p, hazards) # {}

(* DeviceSender::evaluate_privacy_policy: skip if either rule blocks one   *)
(* of the request's hazards.                                               *)
EvaluatePrivacyPolicy(p, id, hazards) ==
    \/ GlobalBlockedHazards(p, hazards) # {}
    \/ LocalBlockedHazards(p, id, hazards) # {}

(* DeviceSender::request: a route that declares no hazards is never        *)
(* evaluated and never skipped.                                            *)
RequestSkip(p, id, hazards) ==
    IF hazards = {} THEN FALSE ELSE EvaluatePrivacyPolicy(p, id, hazards)

(* Reference decision of the specification (section 8): skip iff the     *)
(* request's hazards meet the global set or the set of its device id.      *)
BlockedByPolicy(p, id, hazards) ==
    LET local == IF id \in DOMAIN p.block_device_on_hazards
                 THEN p.block_device_on_hazards[id] ELSE {}
    IN  hazards \cap (p.block_on_hazards \cup local) # {}

=============================================================================

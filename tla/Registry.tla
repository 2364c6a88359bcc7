------------------------------ MODULE Registry ------------------------------
(***************************************************************************)
(* The pool of executors: what the registry file declares of each, what a   *)
(* contract demands and whom it grants, the offer made when the contract is *)
(* prepared and the candidates a dispatch chooses from.  The offer and the  *)
(* candidates are computed by two pieces of code that share only the        *)
(* capability match.  Everything here is a function of its arguments.       *)
(***************************************************************************)
EXTENDS Naturals, Sequences

CONSTANTS
    Executors,
    Models,
    AnyModel         \* "*" in a list of models

ASSUME AnyAssumption == AnyModel \notin Models

Roles == {"executor", "verifier"}

(* The contexts an executor offers are in "offers" when it mounts them at   *)
(* all; the three sandbox axes are compared one by one.                     *)
Entries ==
    [enabled : BOOLEAN, models : SUBSET (Models \cup {AnyModel}),
     declared : Models \cup {AnyModel},       \* --model in launch.argv; AnyModel: none
     offers : SUBSET {"spawn", "observe", "cancel", "context", "evidence"},
     files : {"unsupported", "read-only", "workspace-write"},
     network : {"unsupported", "deny"},
     process : {"unsupported", "restricted", "deny"},
     proven : BOOLEAN,                   \* sandbox.enforcement other than none
     slots : Nat, cost : 1..3]

(* An entry is refused when the model its command line fixes is not in its   *)
(* list, or when it lists models and fixes none.                             *)
WellFormed(entry) ==
    IF entry.declared = AnyModel THEN entry.models = {AnyModel}
                            ELSE entry.models = {AnyModel} \/ entry.declared \in entry.models

Bindings == [executor : Executors, models : SUBSET (Models \cup {AnyModel}), roles : SUBSET Roles]

(* explicit_allow with no binding is an empty pool; closed with no binding   *)
(* is a contract that guards nothing.                                        *)
Guarded(grant) == grant.policy = "explicit_allow" \/ grant.bindings # <<>>

Bound(grant, e) == \E i \in DOMAIN grant.bindings : grant.bindings[i].executor = e

IsFirstBinding(grant, e, i) ==
    /\ grant.bindings[i].executor = e
    /\ \A j \in DOMAIN grant.bindings : grant.bindings[j].executor = e => i <= j

IsLastBinding(grant, e, i) ==
    /\ grant.bindings[i].executor = e
    /\ \A j \in DOMAIN grant.bindings : grant.bindings[j].executor = e => j <= i

ModelsOverlap(allowed, available) ==
    /\ allowed # {}
    /\ AnyModel \in allowed \cup available \/ allowed \cap available # {}

(* What the contract demands of whoever runs it. *)
CapabilityMatch(entry, demand) ==
    /\ demand.needs \subseteq entry.offers
    /\ demand.context => "context" \in entry.offers
    /\ demand.files # "any" => entry.files # "unsupported"
    /\ demand.files = "workspace-write" => entry.files = "workspace-write"
    /\ demand.network = "deny" => entry.network = "deny"
    /\ demand.process \in {"restricted", "deny"} => entry.process \in {"restricted", "deny"}

\* Mutant: the role is not asked of the binding.
DispatchAllowsAnyRole(grant, e, entry, role) ==
    Guarded(grant) =>
        \E i \in DOMAIN grant.bindings :
            /\ IsLastBinding(grant, e, i)
            /\ ModelsOverlap(grant.bindings[i].models, entry.models)

(* The table of a dispatch keeps one binding per executor: the last. *)
DispatchAllows(grant, e, entry, role) ==
    Guarded(grant) =>
        \E i \in DOMAIN grant.bindings :
            /\ IsLastBinding(grant, e, i)
            /\ role \in grant.bindings[i].roles
            /\ ModelsOverlap(grant.bindings[i].models, entry.models)

Candidates(registry, running, grant, demand, role) ==
    {e \in Executors :
        /\ registry[e].enabled
        /\ DispatchAllows(grant, e, registry[e], role)
        /\ CapabilityMatch(registry[e], demand)
        /\ running[e] < registry[e].slots}

(* Cheapest first, then the least loaded; which identifier sorts first among *)
(* equals is left open.                                                      *)
Preferred(registry, running, pool) ==
    {e \in pool : \A f \in pool :
        \/ registry[e].cost < registry[f].cost
        \/ registry[e].cost = registry[f].cost /\ running[e] <= running[f]}

(* The offer takes the first binding, tries every model the entry lists (the *)
(* binding's, when the entry lists AnyModel) and wants the sandbox proven.   *)
Tried(binding, entry) ==
    IF AnyModel \in entry.models /\ binding.models # {AnyModel} THEN binding.models ELSE entry.models

OfferAllows(grant, e, entry, role) ==
    Guarded(grant) =>
        \E i \in DOMAIN grant.bindings :
            LET binding == grant.bindings[i] IN
            /\ IsFirstBinding(grant, e, i)
            /\ role \in binding.roles
            /\ \E m \in Tried(binding, entry) : AnyModel \in binding.models \/ m \in binding.models

Offered(registry, running, grant, demand) ==
    {e \in Executors :
        /\ registry[e].enabled
        /\ OfferAllows(grant, e, registry[e], "executor")
        /\ CapabilityMatch(registry[e], demand)
        /\ registry[e].proven
        /\ running[e] < registry[e].slots}

(* The switch of an entry; everything else it declares stays. *)
SetEnabled(registry, e, on) == [registry EXCEPT ![e].enabled = on]

(* What the subprocess adapter can turn into a launch: it binds a working    *)
(* directory and nothing else.                                               *)
Translates(entry, demand, workspace) ==
    /\ workspace
    /\ demand.files \in {"any", "workspace-write"}
    /\ demand.files = "workspace-write" => entry.files = "workspace-write"
    /\ demand.network = "deny" => entry.network = "deny"
    /\ demand.process # "restricted"
    /\ ~demand.packages
=============================================================================

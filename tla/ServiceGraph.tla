---------------------------- MODULE ServiceGraph ----------------------------
(***************************************************************************)
(* tools/sourceos_service_graph.py: what `validate`, `graph` and           *)
(* `release-gates` conclude from service manifests that keep the schema.   *)
(* There is no state.  Texts that are only printed are left out; a field   *)
(* that is only asked whether it is empty is a Boolean.                    *)
(***************************************************************************)
EXTENDS Integers

CONSTANTS ServiceIds, Domains, Owners, Capabilities, FaultClasses

App       == "app"
LeakCap   == "identity.product.upstream_leak"
RemoteCap == "telemetry.emit.remote.default"

\* REQUIRED_FAULT_CLASSES.
RequiredFaultClasses ==
  {"crashes", "denial-storms", "wake-anomalies", "identity-mismatches", "parser-faults"}

\* A manifest; the schema has it declare all three capability lists.  An
\* owner is NoOwner if its organisation or repository is empty.
NoOwner == "none"

Service ==
  [id : ServiceIds, domain : Domains, owner : Owners \union {NoOwner},
   required : SUBSET Capabilities, optional : SUBSET Capabilities, denied : SUBSET Capabilities,
   dataClasses : BOOLEAN, launchTriggers : BOOLEAN, resourceBudget : BOOLEAN,
   emitsEvents : BOOLEAN, incidentBundle : BOOLEAN,
   eventsExemption : BOOLEAN,                  \* events_exemption
   hermeticLaunch : BOOLEAN, noRemoteTrust : BOOLEAN, coalesces : BOOLEAN,
   keepsCausality : BOOLEAN, metric : BOOLEAN, \* release_gates
   faultClasses : SUBSET FaultClasses]

-----------------------------------------------------------------------------
\* The conditions of audit_service whose failure is an error; those that only
\* warn are left out.
Audited(s) ==
  /\ s.required \intersect s.denied = {}
  /\ s.required # {}
  /\ s.dataClasses /\ s.launchTriggers /\ s.resourceBudget
  /\ s.emitsEvents /\ s.incidentBundle
  /\ s.domain = App => LeakCap \in s.denied
  /\ s.owner # NoOwner

\* release_gate_audit: gate n holds (the manifest is gate 1, which the schema
\* implies).
Gate(n, s) ==
  CASE n = 1  -> TRUE
    [] n = 2  -> s.emitsEvents \/ s.eventsExemption
    [] n = 3  -> s.required # {} /\ s.denied # {}
    [] n = 4  -> s.domain = App => s.hermeticLaunch
    [] n = 5  -> s.incidentBundle /\ RequiredFaultClasses \subseteq s.faultClasses
    [] n = 6  -> s.noRemoteTrust
    [] n = 7  -> RemoteCap \in s.denied
    [] n = 8  -> s.coalesces
    [] n = 9  -> s.keepsCausality
    [] n = 10 -> s.metric

FailedGates(s) == {n \in 1..10 : ~Gate(n, s)}

\* cmd_validate and cmd_release_gates exit with 0.  Both refuse an empty
\* selection, and one in which a file is not a manifest (`broken`).
Validates(services, broken) ==
  services # {} /\ ~broken /\ \A s \in services : Audited(s)

ReleaseReady(services, broken) ==
  services # {} /\ ~broken /\ \A s \in services : FailedGates(s) = {}

\* graph_summary: capability_index, and the services of a domain and an owner.
RequiredBy(services, cap)   == {s.id : s \in {t \in services : cap \in t.required}}
OptionalFor(services, cap)  == {s.id : s \in {t \in services : cap \in t.optional}}
DeniedBy(services, cap)     == {s.id : s \in {t \in services : cap \in t.denied}}
InDomain(services, domain)  == {s.id : s \in {t \in services : t.domain = domain}}
OwnedBy(services, owner)    == {s.id : s \in {t \in services : t.owner = owner}}

=============================================================================

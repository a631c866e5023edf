-------------------------- MODULE PolicyNormalizer --------------------------
(***************************************************************************)
(* tools/sourceos_policy_normalizer.py: a registry of explanation codes, a *)
(* policy observation that names one of them, and the policy.decision      *)
(* event made of both.  There is no state: each command reads its files    *)
(* and prints or writes one document.                                      *)
(*                                                                         *)
(* Actors, subjects, narratives and evidence are copied into the event and *)
(* decide nothing; they are left out.                                      *)
(***************************************************************************)
EXTENDS Integers, Sequences

CONSTANTS
  Codes,          \* explanation codes
  Operations,
  TargetClasses,
  ObservationIds,
  EventIds,
  EventIdOf       \* an observation id, with "evt_" put before it if it is not there

Results    == {"allow", "deny", "defer", "degrade"}
Outcomes   == {"allowed", "blocked_expected", "blocked_unexpected",
               "blocked_attack_like", "degraded", "failed", "observed"}
Risks      == {"none", "low", "medium", "high", "critical", "unknown"}

\* SEVERITY_ORDER.
Rank == [trace |-> 0, debug |-> 1, info |-> 2, notice |-> 3,
         warning |-> 4, error |-> 5, critical |-> 6]

Severities == DOMAIN Rank

AnyClass == "*"      \* in a list of allowed operations or target classes
Absent   == "absent" \* an optional field that the observation does not have

\* "x" and "evt_x" are two observation ids of one event: EventIdOf need not be
\* injective.
ASSUME EventIdAssumption == EventIdOf \in [ObservationIds -> EventIds]

Entry == [code : Codes, result : Results, outcome : Outcomes,
          severity : Severities, risk : Risks,
          stricter   : BOOLEAN,            \* allow_stricter_severity
          operations : SUBSET (Operations \union {AnyClass}),
          targets    : SUBSET (TargetClasses \union {AnyClass})]

Observation == [id : ObservationIds, code : Codes, result : Results,
                outcome   : Outcomes \union {Absent},
                severity  : Severities \union {Absent},
                risk      : Risks \union {Absent},
                operation : Operations, target : TargetClasses]

-----------------------------------------------------------------------------
\* load_registry: a code that is listed twice is an error.
Loads(registry) ==
  \A i, j \in DOMAIN registry : registry[i].code = registry[j].code => i = j

EntriesFor(registry, code) ==
  {registry[i] : i \in {j \in DOMAIN registry : registry[j].code = code}}

MatchesAllowed(value, allowed) == AnyClass \in allowed \/ value \in allowed

\* Mutant: the comparison of severities is turned around.
WeakerOrEqual(candidate, baseline) == Rank[candidate] <= Rank[baseline]

StricterOrEqual(candidate, baseline) == Rank[candidate] >= Rank[baseline]

\* An optional field is absent or repeats the registry.
Repeats(field, registered) == field \in {Absent, registered}

SeverityAccepted(observation, entry) ==
  \/ Repeats(observation.severity, entry.severity)
  \/ entry.stricter /\ StricterOrEqual(observation.severity, entry.severity)

\* validate_observation_semantics finds no error.
Consistent(observation, entry) ==
  /\ observation.result = entry.result
  /\ Repeats(observation.outcome, entry.outcome)
  /\ SeverityAccepted(observation, entry)
  /\ Repeats(observation.risk, entry.risk)
  /\ MatchesAllowed(observation.operation, entry.operations)
  /\ MatchesAllowed(observation.target, entry.targets)

Given(field, default) == IF field = Absent THEN default ELSE field

\* normalize_observation.
Normalized(observation, entry) ==
  [id        |-> EventIdOf[observation.id],
   class     |-> "policy.decision",
   code      |-> entry.code,
   result    |-> observation.result,
   outcome   |-> Given(observation.outcome, entry.outcome),
   severity  |-> Given(observation.severity, entry.severity),
   risk      |-> Given(observation.risk, entry.risk),
   operation |-> observation.operation,
   target    |-> observation.target]

\* cmd_normalize: the event, or none when the registry does not load, the code
\* is unknown, or the observation contradicts its entry.
NormalizedEvents(registry, observation) ==
  IF Loads(registry)
  THEN {Normalized(observation, entry) : entry \in
          {e \in EntriesFor(registry, observation.code) : Consistent(observation, e)}}
  ELSE {}

\* What a dashboard relies on: a decision says of its code what the registry
\* says, with a severity that is stricter only where the registry allows it.
Keeps(event, entry) ==
  /\ <<event.result, event.outcome, event.risk>> = <<entry.result, entry.outcome, entry.risk>>
  /\ event.severity = entry.severity \/ entry.stricter
  /\ Rank[event.severity] >= Rank[entry.severity]
  /\ {event.operation, AnyClass} \intersect entry.operations # {}
  /\ {event.target, AnyClass} \intersect entry.targets # {}

=============================================================================

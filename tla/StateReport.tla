---------------------------- MODULE StateReport ----------------------------
(***************************************************************************)
(* What the program concludes from a State Integrity Report: the           *)
(* invariants of `health verify` and the diagnosis (reports.py), the       *)
(* repair plan, the trust gate (trust.py), the delivery scorecard          *)
(* (scorecard.py) and the readiness of the HTTP service (service.py).      *)
(* All of them are functions of the report.                                *)
(***************************************************************************)
EXTENDS Integers, FiniteSets

DefaultLanes == {"normal", "priority", "secure", "memory", "policy", "audit",
                 "tombstone", "migration", "repair", "archive"}

Pressures == {"none", "watch", "warning", "critical", "unknown"}

\* A report, by what the conclusions look at.
Report ==
  [contractValid : BOOLEAN,       \* validate_report finds no error
   fresh         : BOOLEAN,       \* the heartbeat's age is known and within every lane's SLA
   lag           : Nat,           \* replay lag, in events, of all lanes
   allowedLag    : Nat,           \* what their SLAs allow
   shadowDamaged : BOOLEAN,       \* an active store has a shadow and a bad checksum
   pressure      : Pressures,     \* of the disk
   dirtyOpen     : BOOLEAN,
   lanes         : SUBSET STRING,
   signed        : BOOLEAN,
   denied        : Nat,           \* policy decisions
   initialized   : BOOLEAN]       \* FALSE if local_state says so

Request == [lane : STRING, allowDegraded : BOOLEAN, requireAttestation : BOOLEAN]

-----------------------------------------------------------------------------
(* reports.py *)

\* disk_pressure, of what collect_resources measures
MeasuredPressures == Pressures \ {"unknown"}

(***************************************************************************)
(* base_snapshot, the report without a store.  Its heartbeat is as old as  *)
(* the report, and it says nothing of a local state.                       *)
(***************************************************************************)
Snapshot(pressure) ==
  [contractValid |-> TRUE,
   fresh         |-> TRUE,
   lag           |-> 0,
   allowedLag    |-> 100,
   shadowDamaged |-> FALSE,
   pressure      |-> pressure,
   dirtyOpen     |-> FALSE,
   lanes         |-> {"normal"},
   signed        |-> FALSE,
   denied        |-> 0,
   initialized   |-> TRUE]

Invariants == {"contract_valid", "heartbeat", "replay_lag", "shadow", "disk_pressure",
               "dirty_open"}
Critical   == {"contract_valid", "disk_pressure"}

\* verify
Failed(report) ==
  {id \in Invariants :
     \/ id = "contract_valid" /\ ~report.contractValid
     \/ id = "heartbeat" /\ ~report.fresh
     \/ id = "replay_lag" /\ report.lag > report.allowedLag
     \/ id = "disk_pressure" /\ report.pressure \in {"critical", "unknown"}}

Warned(report) ==
  {id \in Invariants :
     \/ id = "shadow" /\ report.shadowDamaged
     \/ id = "dirty_open" /\ report.dirtyOpen}

Diagnosis(report) ==
  IF Failed(report) \intersect Critical # {} THEN "unsafe"
  ELSE IF Failed(report) \union Warned(report) # {} THEN "degraded"
  ELSE "healthy"

RepairOf ==
  [heartbeat  |-> "mark_stale_and_restart_if_managed",
   replay_lag |-> "run_replay",
   shadow     |-> "verify_or_rebuild_shadow",
   dirty_open |-> "verify_dirty_open_recovery"]

RepairSteps(report) ==
  LET causes == (Failed(report) \union Warned(report)) \intersect DOMAIN RepairOf
      needed == {RepairOf[id] : id \in causes}
                \union (IF report.pressure \in {"watch", "warning", "critical"}
                        THEN {"generate_purge_preview"} ELSE {})
  IN  IF needed = {} THEN {"no_op"} ELSE needed

-----------------------------------------------------------------------------
(* policy.py, without a remote PolicyFabric *)

Actions == {"index", "retain", "replicate", "agent_access", "repair_preview",
            "purge_preview", "read", "write"}

\* evaluate_policy, for data that is not sensitive.
PolicyStatus(action, lane) ==
  CASE action \notin Actions -> "deferred"
    [] lane = "secure" /\ action \in {"agent_access", "replicate"} -> "denied"
    [] lane = "secure" /\ action = "index" -> "redacted"
    [] lane = "repair" /\ action \in {"agent_access", "write"} -> "denied"
    [] lane = "ephemeral" /\ action = "retain" -> "deferred"
    [] OTHER -> "allowed"

\* evaluate_report_policy and decision_counts
DeniedDecisions(lanes) ==
  Cardinality({decision \in {"index", "retain", "replicate", "agent_access"} \X lanes :
                 PolicyStatus(decision[1], decision[2]) = "denied"})

-----------------------------------------------------------------------------
(* trust.py *)

\* The early returns of evaluate_trust.
Blocked(report, request) ==
  \/ ~report.contractValid
  \/ request.lane \notin report.lanes
  \/ request.requireAttestation /\ ~report.signed
  \/ Diagnosis(report) = "unsafe"
  \/ Diagnosis(report) = "degraded" /\ ~request.allowDegraded

Trust(report, request) ==
  IF \/ Blocked(report, request)
     \/ request.lane \in {"secure", "repair"} /\ report.denied > 0
  THEN "blocked"
  ELSE IF Diagnosis(report) = "degraded" THEN "degraded_allowed" ELSE "allowed"

-----------------------------------------------------------------------------
(* scorecard.py *)

GatesPass(report) ==
  /\ report.contractValid
  /\ Diagnosis(report) # "unsafe"
  /\ Failed(report) \intersect Critical = {}
  /\ report.pressure # "critical"

AtMost(bound, number) == IF number <= bound THEN number ELSE bound

Score(report) ==
  LET debt ==
        AtMost(40, 20 * Cardinality(Failed(report) \intersect Critical))
        + AtMost(30, 10 * Cardinality(Failed(report)))
        + AtMost(15, 5 * Cardinality(Warned(report)))
        + (IF report.lag > 0 THEN 10 ELSE 0)
        + (IF report.pressure = "warning" THEN 10 ELSE 0)
        + (IF report.pressure = "critical" THEN 20 ELSE 0)
        + (IF report.signed THEN 0 ELSE 5)
  IN  IF debt <= 100 THEN 100 - debt ELSE 0

Scorecard(report) ==
  IF ~GatesPass(report) THEN "blocked"
  ELSE IF Score(report) >= 90 THEN "ready"
  ELSE IF Score(report) >= 70 THEN "watch"
  ELSE "degraded"

-----------------------------------------------------------------------------
(* service.py *)

\* readiness_from_report: 200, or 503
Ready(report) == report.initialized /\ Diagnosis(report) \in {"healthy", "degraded"}

-----------------------------------------------------------------------------
(***************************************************************************)
(* What the conclusions may never say of one report: that it is not ready, *)
(* but to be trusted or fit for delivery; that it is to be trusted         *)
(* outright, but in need of a replay, a restart or a verification; that it *)
(* needs no repair, but is not healthy.  The last is said of reports that  *)
(* keep their contract and know the disk's pressure: the repair plan has   *)
(* no step for the others.  The first leaves out the uninitialized store,  *)
(* which is not ready although its report is healthy.                      *)
(***************************************************************************)
Agree(report, request) ==
  /\ report.initialized /\ ~Ready(report) =>
       Trust(report, request) = "blocked" /\ Scorecard(report) = "blocked"
  /\ Trust(report, request) = "allowed" =>
       RepairSteps(report) \subseteq {"no_op", "generate_purge_preview"}
  /\ report.contractValid /\ report.pressure # "unknown" /\ RepairSteps(report) = {"no_op"} =>
       Diagnosis(report) = "healthy"

=============================================================================

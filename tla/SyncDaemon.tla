----------------------------- MODULE SyncDaemon -----------------------------
(***************************************************************************)
(* Daemons polling Katello (daemon.py) and operators running               *)
(* `sourceos-syncd sync apply` (cli.py), all syncing one host through      *)
(* ContentViewSyncer (content_sync.py) and recording what they did in one  *)
(* ReceiptStore (receipt_store.py).                                        *)
(*                                                                         *)
(* A syncer is a process; a step is the code between two accesses to what  *)
(* it shares with the others: the receipt store, the system profile, and   *)
(* what upstream publishes.  A process can die between any two steps.      *)
(***************************************************************************)
EXTENDS SyncPlan, Integers, FiniteSets

CONSTANTS
  Mixed,          \* what two versions written over one another leave in a file
  Daemons,        \* processes of `sync daemon`
  Operators,      \* invocations of `sync apply`, each run at most once
  Configurations, \* the settings the syncers can be constructed with
  Releases,       \* the releases the flake's repository can move to
  Attestations,   \* the attestations the producer can publish
  Tools,          \* the sets of executables a host can have in its PATH
  MinBackoff,     \* MIN_BACKOFF_S
  MaxBackoff,     \* MAX_BACKOFF_S
  MaxFaults       \* bound: errors and crashes in a behaviour

Syncers == Daemons \union Operators

ASSUME MixedAssumption == Mixed \notin MaybeVersion
ASSUME SyncersAssumption == Daemons \intersect Operators = {}
ASSUME ConfigurationsAssumption == Configurations \subseteq [Syncers -> Settings]
ASSUME ReleasesAssumption == Releases \subseteq Versions
ASSUME AttestationsAssumption == Attestations \subseteq Attestation
ASSUME ToolsAssumption == Tools \subseteq SUBSET {"nix", "nixos-rebuild"}
ASSUME BoundsAssumption ==
  /\ MinBackoff \in Nat \ {0}
  /\ MaxBackoff \in Nat
  /\ MinBackoff <= MaxBackoff
  /\ MaxFaults \in Nat

VARIABLES
  \* Upstream: Katello, the flake's repository and the attestation directory.
  head,          \* the release the flake reference resolves to
  promoted,      \* the version promoted to the lifecycle environment
  directory,     \* the attestation file of each version
  \* The host.
  config,        \* the settings of each syncer
  tools,         \* the executables in PATH
  running,       \* the release the system profile was last switched to
  \* The receipt store.
  versionFile,   \* the text of the current-version file, NoVersion if absent or empty
  receipts,      \* the complete receipts on disk
  \* The processes.
  pc,
  cycle,         \* the locals of a syncer's sync cycle
  stopRequested, \* not self._running
  backoff,       \* self._backoff_s
  \* Observed by the properties only.
  overlapped,    \* two syncers have had the version file open at once
  published,     \* every attestation ever published
  switchedFor,   \* the versions planned by cycles whose switch step succeeded
  failures,      \* polls that failed since the last that did not
  faults         \* errors and crashes so far

upstreamVars == <<head, promoted, directory, published>>
hostVars     == <<config, tools>>
storeVars    == <<versionFile, receipts, overlapped>>
systemVars   == <<running, switchedFor>>
daemonVars   == <<stopRequested, backoff, failures>>

vars == <<upstreamVars, hostVars, systemVars, storeVars, pc, cycle, daemonVars, faults>>

Receipt == [to : Versions, outcome : Outcomes, level : Levels]

VersionTexts == MaybeVersion \union {Mixed}

Cycle == [current : VersionTexts,   \* the version the plan starts from
          target  : MaybeVersion,   \* manifest.version
          gate    : Gates \union {"none"},
          level   : Levels,
          mode    : Modes,
          results : Seq(StepStatuses)]

NoCycle == [current |-> NoVersion, target |-> NoVersion, gate |-> "none",
            level |-> "Speculative", mode |-> "execute", results |-> << >>]

DaemonPcs   == {"loop", "poll", "stopped", "down"}
OperatorPcs == {"start", "exit"}
CyclePcs    == {"fetch", "plan", "run", "version", "version-open"}

-----------------------------------------------------------------------------
(***************************************************************************)
(* How a cycle ends.  A daemon goes back to its loop, with the backoff     *)
(* reset or doubled up to its maximum; an operator's process exits.        *)
(***************************************************************************)
\* Mutant: the doubled backoff is not capped.
NextBackoffUncapped(b) == IF b = 0 THEN MinBackoff ELSE 2 * b

\* Mutant: the cap is checked before the doubling.
NextBackoffOvershoots(b) ==
  IF b >= MaxBackoff THEN MaxBackoff ELSE IF b = 0 THEN MinBackoff ELSE 2 * b

NextBackoff(b) ==
  LET doubled == IF b = 0 THEN MinBackoff ELSE 2 * b
  IN  IF doubled < MaxBackoff THEN doubled ELSE MaxBackoff

Least(m, n) == IF m < n THEN m ELSE n

EndCycle(a, failed) ==
  /\ cycle' = [cycle EXCEPT ![a] = NoCycle]
  /\ IF a \in Daemons
     THEN /\ pc' = [pc EXCEPT ![a] = "loop"]
          /\ backoff' = [backoff EXCEPT ![a] = IF failed THEN NextBackoff(@) ELSE 0]
          /\ failures' = [failures EXCEPT ![a] =
                            IF failed THEN Least(@ + 1, MaxBackoff + 1) ELSE 0]
     ELSE /\ pc' = [pc EXCEPT ![a] = "exit"]
          /\ UNCHANGED <<backoff, failures>>
  /\ UNCHANGED stopRequested

Goto(a, label) == pc' = [pc EXCEPT ![a] = label] /\ UNCHANGED daemonVars

Fault == faults < MaxFaults /\ faults' = faults + 1

-----------------------------------------------------------------------------
(* A cycle, step by step. *)

\* SyncDaemon._poll_once: read the version file.
DaemonPoll(d) ==
  /\ pc[d] = "poll"
  /\ cycle' = [cycle EXCEPT ![d].current = versionFile]
  /\ Goto(d, "fetch")
  /\ UNCHANGED <<upstreamVars, systemVars, storeVars, faults>>

\* `sync apply`: the current version is an argument, never the version file.
OperatorStart(o) ==
  /\ pc[o] = "start"
  /\ \E current \in MaybeVersion, mode \in Modes :
       cycle' = [cycle EXCEPT ![o] = [@ EXCEPT !.current = current, !.mode = mode]]
  /\ Goto(o, "fetch")
  /\ UNCHANGED <<upstreamVars, systemVars, storeVars, faults>>

\* KatelloContentClient.get_latest_version.
Fetch(a) ==
  /\ pc[a] = "fetch"
  /\ promoted # NoVersion
  /\ cycle' = [cycle EXCEPT ![a].target = promoted]
  /\ Goto(a, "plan")
  /\ UNCHANGED <<upstreamVars, systemVars, storeVars, faults>>

\* A KatelloClientError: nothing is promoted, or a request failed.  For an
\* operator, an unreadable --attestation-file ends the command the same way.
FetchFails(a) ==
  /\ pc[a] = "fetch"
  /\ \/ promoted = NoVersion /\ UNCHANGED faults
     \/ Fault
  /\ EndCycle(a, TRUE)
  /\ UNCHANGED <<upstreamVars, systemVars, storeVars>>

\* The attestation a syncer passes to plan(): a daemon that has an attestation
\* directory looks its target up there, an operator may name any file or none.
AttestationsAtHand(a) ==
  IF a \in Operators THEN published \union {NoAttestation}
  ELSE IF config[a].attestationDir THEN {directory[cycle[a].target]}
  ELSE {NoAttestation}

\* ContentViewSyncer.plan, and for a daemon the early return on "no-op".
Plan(a) ==
  /\ pc[a] = "plan"
  /\ \E attestation \in AttestationsAtHand(a) :
       LET gate == PolicyGate(config[a], cycle[a].current, cycle[a].target, attestation)
       IN  IF gate = "no-op" /\ a \in Daemons
           THEN EndCycle(a, FALSE)
           ELSE /\ cycle' = [cycle EXCEPT ![a] =
                     [@ EXCEPT !.gate = gate,
                               !.level = EpistemicLevel(config[a], gate)]]
                /\ Goto(a, "run")
  /\ UNCHANGED <<upstreamVars, systemVars, storeVars, faults>>

NextStep(a) == PlanSteps(config[a])[Len(cycle[a].results) + 1]

StepsLeft(a) ==
  /\ cycle[a].gate = "allowed"
  /\ Len(cycle[a].results) < Len(PlanSteps(config[a]))

AddResult(a, status) == cycle' = [cycle EXCEPT ![a].results = Append(@, status)]

\* A step that execute() does not run: after an abort, in a dry run, or
\* because its executable is not in PATH.
SkipStep(a) ==
  /\ pc[a] = "run" /\ StepsLeft(a)
  /\ \/ Aborted(cycle[a].results) /\ AddResult(a, "not-run")
     \/ /\ ~Aborted(cycle[a].results)
        /\ cycle[a].mode = "dry-run"
        /\ AddResult(a, "dry_run")
     \/ /\ ~Aborted(cycle[a].results) /\ cycle[a].mode = "execute"
        /\ ~(NeedsTool(NextStep(a)) \subseteq tools)
        /\ AddResult(a, "skipped")
  /\ UNCHANGED <<upstreamVars, systemVars, storeVars, pc, daemonVars, faults>>

\* subprocess.run is reached.
Launches(a) ==
  /\ pc[a] = "run" /\ StepsLeft(a)
  /\ ~Aborted(cycle[a].results) /\ cycle[a].mode = "execute"
  /\ NeedsTool(NextStep(a)) \subseteq tools

\* The switch builds whatever the flake reference resolves to at that moment.
StepSucceeds(a) ==
  /\ Launches(a)
  /\ AddResult(a, "ok")
  /\ IF NextStep(a) = "switch"
     THEN /\ running' = head
          /\ switchedFor' = switchedFor \union {cycle[a].target}
     ELSE UNCHANGED systemVars
  /\ UNCHANGED <<upstreamVars, storeVars, pc, daemonVars, faults>>

\* A non-zero exit or the 600 s timeout.  A switch that fails or is killed
\* may or may not have activated the new system.
StepFails(a) ==
  /\ Launches(a)
  /\ Fault
  /\ \E status \in {"failed", "timeout"} : AddResult(a, status)
  /\ running' \in IF NextStep(a) = "switch" THEN {running, head} ELSE {running}
  /\ UNCHANGED <<upstreamVars, storeVars, pc, daemonVars, switchedFor>>

\* A daemon has a default store root.
HasStore(a) == a \in Daemons \/ config[a].storeRoot

Outcome(a) == SyncOutcome(cycle[a].gate, cycle[a].mode, cycle[a].results)

\* _build_receipt and write_receipt.  An applied sync goes on to record its
\* version; a daemon raises on a failed one.
WriteReceipt(a) ==
  /\ pc[a] = "run" /\ ~StepsLeft(a) /\ HasStore(a)
  /\ receipts' = receipts \union
       {[to |-> cycle[a].target, outcome |-> Outcome(a), level |-> cycle[a].level]}
  /\ IF Outcome(a) = "applied"
     THEN Goto(a, "version") /\ UNCHANGED cycle
     ELSE EndCycle(a, Outcome(a) = "failed")
  /\ UNCHANGED <<upstreamVars, systemVars, versionFile, overlapped, faults>>

\* Mutant: an error of write_receipt is swallowed.
WriteReceiptFailsSilently(a) ==
  /\ pc[a] = "run" /\ ~StepsLeft(a) /\ HasStore(a) /\ Outcome(a) = "applied"
  /\ Fault
  /\ Goto(a, "version")
  /\ UNCHANGED <<upstreamVars, systemVars, storeVars, cycle>>

\* write_receipt raises, leaving no complete receipt.
WriteReceiptFails(a) ==
  /\ pc[a] = "run" /\ ~StepsLeft(a) /\ HasStore(a)
  /\ Fault
  /\ EndCycle(a, TRUE)
  /\ UNCHANGED <<upstreamVars, systemVars, storeVars>>

\* `sync apply` without --store-root prints the result and exits.
LeaveUnrecorded(a) ==
  /\ pc[a] = "run" /\ ~StepsLeft(a) /\ ~HasStore(a)
  /\ EndCycle(a, FALSE)
  /\ UNCHANGED <<upstreamVars, systemVars, storeVars, faults>>

\* Does another syncer have the version file open?
OpenElsewhere(a) == \E b \in Syncers \ {a} : pc[b] = "version-open"

\* Mutant: the file is opened without being truncated.
OpenVersion(a) ==
  /\ pc[a] = "version"
  /\ overlapped' = (overlapped \/ OpenElsewhere(a))
  /\ Goto(a, "version-open")
  /\ UNCHANGED <<upstreamVars, systemVars, versionFile, receipts, cycle, faults>>

\* write_current_version: write_text opens the file, which truncates it ...
TruncateVersion(a) ==
  /\ pc[a] = "version"
  /\ versionFile' = NoVersion
  /\ overlapped' = (overlapped \/ OpenElsewhere(a))
  /\ Goto(a, "version-open")
  /\ UNCHANGED <<upstreamVars, systemVars, receipts, cycle, faults>>

\* Mutant: records the release that is running, not the one that was planned.
WriteRunningVersion(a) ==
  /\ pc[a] = "version-open"
  /\ versionFile' = running
  /\ EndCycle(a, FALSE)
  /\ UNCHANGED <<upstreamVars, systemVars, receipts, overlapped, faults>>

\* The texts that a write of `new` at the start of the file can leave: one
\* that is there already keeps its tail if it is longer.
TextsAfterWrite(old, new) == IF old \in {NoVersion, new} THEN {new} ELSE {new, Mixed}

\* ... and then writes it at the start of the file, whatever another syncer
\* has written there after the truncation.
WriteVersion(a) ==
  /\ pc[a] = "version-open"
  /\ versionFile' \in TextsAfterWrite(versionFile, cycle[a].target)
  /\ EndCycle(a, FALSE)
  /\ UNCHANGED <<upstreamVars, systemVars, receipts, overlapped, faults>>

WriteVersionFails(a) ==
  /\ pc[a] \in {"version", "version-open"}
  /\ Fault
  /\ EndCycle(a, TRUE)
  /\ UNCHANGED <<upstreamVars, systemVars, storeVars>>

Advance(a) ==
  \/ Fetch(a) \/ FetchFails(a) \/ Plan(a)
  \/ SkipStep(a) \/ StepSucceeds(a) \/ StepFails(a)
  \/ WriteReceipt(a) \/ WriteReceiptFails(a) \/ LeaveUnrecorded(a)
  \/ TruncateVersion(a) \/ WriteVersion(a) \/ WriteVersionFails(a)

-----------------------------------------------------------------------------
(* The life of a process. *)

\* Mutant: the sleep ends in another poll without a look at self._running.
WakeRegardless(d) ==
  /\ pc[d] = "loop"
  /\ Goto(d, "poll")
  /\ UNCHANGED <<upstreamVars, systemVars, storeVars, cycle, faults>>

\* The loop condition holds, once the sleep is over.
Wake(d) ==
  /\ pc[d] = "loop"
  /\ ~stopRequested[d]
  /\ Goto(d, "poll")
  /\ UNCHANGED <<upstreamVars, systemVars, storeVars, cycle, faults>>

\* SIGTERM or SIGINT: the handler only clears self._running.
Signal(d) ==
  /\ pc[d] \notin {"stopped", "down"}
  /\ ~stopRequested[d]
  /\ stopRequested' = [stopRequested EXCEPT ![d] = TRUE]
  /\ UNCHANGED <<upstreamVars, systemVars, storeVars, pc, cycle, backoff, failures, faults>>

\* Mutant: the signal handler exits wherever the cycle is.
StopMidCycle(d) ==
  /\ pc[d] \notin {"stopped", "down"}
  /\ stopRequested[d]
  /\ Goto(d, "stopped")
  /\ UNCHANGED <<upstreamVars, systemVars, storeVars, cycle, faults>>

\* The loop is left after a cycle, or cuts the sleep short.
Stop(d) ==
  /\ pc[d] = "loop"
  /\ stopRequested[d]
  /\ Goto(d, "stopped")
  /\ UNCHANGED <<upstreamVars, systemVars, storeVars, cycle, faults>>

\* The process dies wherever it is and its memory is lost.
Crash(a) ==
  /\ pc[a] \notin {"stopped", "down", "start", "exit"}
  /\ Fault
  /\ pc' = [pc EXCEPT ![a] = IF a \in Daemons THEN "down" ELSE "exit"]
  /\ cycle' = [cycle EXCEPT ![a] = NoCycle]
  /\ UNCHANGED <<upstreamVars, systemVars, storeVars, daemonVars>>

\* systemd's Restart=on-failure constructs a new SyncDaemon.
Restart(d) ==
  /\ pc[d] = "down"
  /\ pc' = [pc EXCEPT ![d] = "loop"]
  /\ stopRequested' = [stopRequested EXCEPT ![d] = FALSE]
  /\ backoff' = [backoff EXCEPT ![d] = 0]
  /\ failures' = [failures EXCEPT ![d] = 0]
  /\ UNCHANGED <<upstreamVars, systemVars, storeVars, cycle, faults>>

-----------------------------------------------------------------------------
(* Upstream. *)

Release(v) ==
  /\ head' = v
  /\ UNCHANGED <<promoted, directory, published>>

Promote(v) ==
  /\ promoted' = v
  /\ UNCHANGED <<head, directory, published>>

\* The producer writes, or replaces, the attestation file of a version.
Publish(v, attestation) ==
  /\ directory' = [directory EXCEPT ![v] = attestation]
  /\ published' = published \union {attestation}
  /\ UNCHANGED <<head, promoted>>

Upstream ==
  /\ \/ \E v \in Releases : Release(v)
     \/ \E v \in Versions : Promote(v)
     \/ \E v \in Versions, attestation \in Attestations : Publish(v, attestation)
  /\ UNCHANGED <<systemVars, storeVars, pc, cycle, daemonVars, faults>>

-----------------------------------------------------------------------------
Init ==
  /\ head \in Releases
  /\ promoted = NoVersion
  /\ directory = [v \in Versions |-> NoAttestation]
  /\ published = {}
  /\ config \in Configurations
  /\ tools \in Tools
  /\ running = NoVersion
  /\ switchedFor = {}
  /\ versionFile = NoVersion
  /\ receipts = {}
  /\ overlapped = FALSE
  /\ pc = [a \in Syncers |-> IF a \in Daemons THEN "loop" ELSE "start"]
  /\ cycle = [a \in Syncers |-> NoCycle]
  /\ stopRequested = [d \in Daemons |-> FALSE]
  /\ backoff = [d \in Daemons |-> 0]
  /\ failures = [d \in Daemons |-> 0]
  /\ faults = 0

DaemonStep(d) == DaemonPoll(d) \/ Advance(d) \/ Wake(d) \/ Stop(d) \/ Restart(d)

Next ==
  /\ \/ \E d \in Daemons : DaemonStep(d) \/ Signal(d)
     \/ \E o \in Operators : OperatorStart(o) \/ Advance(o)
     \/ \E a \in Syncers : Crash(a)
     \/ Upstream
  /\ UNCHANGED hostVars

Spec == Init /\ [][Next]_vars

(***************************************************************************)
(* The poll loop is sequential code that never waits for anyone, and       *)
(* systemd restarts it: every daemon keeps taking steps.  An operator's    *)
(* invocation, once started, runs to its end.  Nothing is assumed of       *)
(* upstream, of signals, of faults or of an operator who never starts.     *)
(***************************************************************************)
Fairness ==
  /\ \A d \in Daemons : WF_vars(DaemonStep(d) /\ UNCHANGED hostVars)
  /\ \A o \in Operators : WF_vars(Advance(o) /\ UNCHANGED hostVars)

FairSpec == Spec /\ Fairness

-----------------------------------------------------------------------------
(***************************************************************************)
(* Properties.                                                             *)
(***************************************************************************)

\* A syncer that has fetched the manifest and not yet ended its cycle.
HasTarget(a) == pc[a] \in {"plan", "run", "version", "version-open"}

\* Every variable has its type; a daemon is never at an operator's label, and
\* from the plan on a cycle is for a version that Katello reported.
TypeOK ==
  /\ head \in Releases
  /\ promoted \in MaybeVersion
  /\ directory \in [Versions -> MaybeAttestation]
  /\ published \subseteq Attestation
  /\ config \in Configurations
  /\ tools \in Tools
  /\ running \in MaybeVersion
  /\ switchedFor \subseteq Versions
  /\ versionFile \in VersionTexts
  /\ receipts \subseteq Receipt
  /\ overlapped \in BOOLEAN
  /\ pc \in [Syncers -> DaemonPcs \union OperatorPcs \union CyclePcs]
  /\ \A d \in Daemons : pc[d] \notin OperatorPcs
  /\ \A o \in Operators : pc[o] \notin DaemonPcs
  /\ cycle \in [Syncers -> Cycle]
  /\ \A a \in Syncers : HasTarget(a) => cycle[a].target \in Versions
  /\ stopRequested \in [Daemons -> BOOLEAN]
  /\ backoff \in [Daemons -> 0..MaxBackoff]
  /\ failures \in [Daemons -> 0..MaxBackoff + 1]
  /\ faults \in 0..MaxFaults

AppliedReceipts == {r \in receipts : r.outcome = "applied"}

\* The version the store reports is one for which an applied receipt is on
\* disk: the receipt is written before the version file, and neither a crash
\* nor another syncer in between can leave a version without its receipt.  The
\* text of the file is no version at all only after two syncers have written
\* it at the same time, and then both versions have their receipts.
RecordBackedByReceipt ==
  /\ versionFile \in Versions => \E r \in AppliedReceipts : r.to = versionFile
  /\ versionFile = Mixed =>
       overlapped /\ \E r, other \in AppliedReceipts : r.to # other.to

Authorized(v) == [binds |-> v, verifies |-> TRUE] \in published

\* A receipt claims "Proved" only for a version for which a verifying
\* attestation naming that version was published ("never laundered to
\* Proved", content_sync.py:347).
ProvedMeansAttested ==
  \A r \in receipts : r.level = "Proved" => Authorized(r.to)

\* On a host where every syncer requires attestations, the recorded version
\* and every version that was switched for had been attested.
OnlyAttestedApplied ==
  (\A a \in Syncers : config[a].gated) =>
     \A v \in switchedFor \union ({versionFile} \intersect Versions) : Authorized(v)

\* Can an attestation ever authorize this syncer?
CanVerify(a) == config[a].trustedKey /\ (a \in Daemons => config[a].attestationDir)

\* "None means the gate refuses (fail closed)" (daemon.py:125-126): syncers
\* that require attestations, but lack the key or, as a daemon, the directory,
\* never switch or record anything, whatever the producer publishes.
FailsClosed ==
  (\A a \in Syncers : config[a].gated /\ ~CanVerify(a)) =>
     switchedFor = {} /\ running = NoVersion /\ AppliedReceipts = {} /\ versionFile = NoVersion

\* On a host that has nixos-rebuild, the store reports a version only if some
\* cycle planned for that version has completed its switch.
RecordedWasSwitched ==
  "nixos-rebuild" \in tools /\ versionFile \in Versions => versionFile \in switchedFor

BetweenCycles(a) == pc[a] \in {"loop", "stopped", "start", "exit"}

\* As long as nothing failed or crashed and every syncer has a store, a switch
\* that completed is on record as an applied receipt once the syncers are
\* between cycles: a stop request never cuts a cycle short.
SwitchesOnRecord ==
  faults = 0 /\ (\A a \in Syncers : HasStore(a) /\ BetweenCycles(a)) =>
    \A v \in switchedFor : \E r \in AppliedReceipts : r.to = v

\* The system is switched only by a syncer whose earlier steps, the signature
\* verification and the copy among them, all ended "ok" or were skipped for
\* want of nix: a failed or timed-out step prevents the switch.
NoSwitchAfterFailure ==
  [][running' # running =>
       \E a \in Syncers :
         /\ cycle'[a].results # cycle[a].results
         /\ NextStep(a) = "switch"
         /\ StatusesOf(cycle[a].results) \subseteq {"ok", "skipped"}]_vars

\* A daemon that is alone on its host runs no step of a sync, a dry one
\* included, for the version that the store reports: what was applied once and
\* recorded is not applied again, wherever earlier cycles failed or died.
RecordedIsNotRedone ==
  [][\A d \in Daemons :
       /\ Syncers = {d}
       /\ cycle'[d].results \notin {cycle[d].results, << >>}
       => cycle[d].target # versionFile]_vars

\* The backoff after n consecutive failed polls is MIN_BACKOFF_S * 2^(n-1)
\* capped at MAX_BACKOFF_S, and it is zero after a poll that did not fail.
BackoffSchedule ==
  \A d \in Daemons :
    backoff[d] = IF failures[d] = 0 THEN 0
                 ELSE Least(MaxBackoff, MinBackoff * 2^(failures[d] - 1))

\* The receipt store is an append-only ledger of applied syncs together with
\* a version drawn from it, for any number of concurrent syncers; or with a
\* mixture of two, once two syncers have recorded at the same time.
Ledger == INSTANCE SyncLedger WITH
  authorized <- {v \in Versions : Authorized(v)},
  ledger     <- {<<r.to, r.level>> : r \in AppliedReceipts},
  recorded   <- versionFile

ImplementsLedger == Ledger!Init /\ [][Ledger!Next]_(Ledger!vars)

\* The promoted version and its attestation, if one is required, are such that
\* the daemon may switch: it has the directory and the key to find that out.
Deployable(d, v) ==
  /\ promoted = v
  /\ config[d].gated =>
       config[d].attestationDir /\ Authorizes(config[d], directory[v], v)

\* A version that stays promoted, and attested if attestations are required,
\* is eventually recorded for good by a daemon that is allowed to sync, has the
\* attestation directory and the key if attestations are required, and is never
\* asked to stop, whatever failed, crashed or was applied meanwhile.
Converges ==
  \A v \in Versions, d \in Daemons :
    <>[]Deployable(d, v) /\ [](~stopRequested[d] /\ config[d].allowedLocus)
      => <>[](versionFile = v)

\* A stop request ends the daemon, unless it crashes and is restarted first.
StopsWhenAsked ==
  \A d \in Daemons : stopRequested[d] ~> (pc[d] = "stopped" \/ ~stopRequested[d])

(***************************************************************************)
(* The inductive invariant behind the properties above: what holds of the  *)
(* locals of a syncer at each label, and of the shared state they become.  *)
(***************************************************************************)
Recording(a) == pc[a] \in {"version", "version-open"}

\* Each status stands for what happened to the step at the same position.
ResultExplained(a, i) ==
  LET status == cycle[a].results[i]
      step   == PlanSteps(config[a])[i]
  IN  /\ status = "ok" /\ step = "switch" => cycle[a].target \in switchedFor
      /\ status = "skipped" => ~(NeedsTool(step) \subseteq tools)
      /\ status = "dry_run" => cycle[a].mode = "dry-run"
      /\ status = "not-run" => Aborted(cycle[a].results)

CycleInv(a) ==
  /\ pc[a] \in {"run", "version", "version-open"} =>
       /\ cycle[a].gate # "none"
       /\ Len(cycle[a].results) <= Len(PlanSteps(config[a]))
       /\ \A i \in DOMAIN cycle[a].results : ResultExplained(a, i)
       /\ cycle[a].gate = "allowed" /\ config[a].gated =>
            Authorized(cycle[a].target) /\ CanVerify(a)
       /\ cycle[a].level = "Proved" => cycle[a].gate = "allowed" /\ config[a].gated
  /\ pc[a] \notin {"run", "version", "version-open"} => cycle[a].results = << >>
  /\ Recording(a) =>
       /\ cycle[a].gate = "allowed"
       /\ \E r \in AppliedReceipts : r.to = cycle[a].target
       /\ "nixos-rebuild" \in tools => cycle[a].target \in switchedFor

\* Until two syncers overlap in it, the version file is empty while it is open
\* and only one syncer has it open.
OpenFileInv ==
  ~overlapped =>
    \A a \in Syncers : pc[a] = "version-open" => versionFile = NoVersion /\ ~OpenElsewhere(a)

\* The code behind it: execute() and write_receipt come before
\* write_current_version in _poll_once and in the `sync apply` command.
SyncInv ==
  /\ \A v \in Versions : directory[v] \in published \union {NoAttestation}
  /\ \A a \in Syncers : CycleInv(a)
  /\ OpenFileInv
  /\ RecordBackedByReceipt
  /\ ProvedMeansAttested
  /\ OnlyAttestedApplied
  /\ RecordedWasSwitched
  /\ FailsClosed

\* Behind RecordedIsNotRedone: the version that a lone daemon read at the start
\* of its cycle is still the one on record when its plan is executed.
LoneInv ==
  \A d \in Daemons : Syncers = {d} =>
    /\ pc[d] \in {"fetch", "plan", "run"} => cycle[d].current = versionFile
    /\ pc[d] = "run" /\ cycle[d].gate = "allowed" => cycle[d].target # versionFile

\* A cycle all of whose steps have been run, and nothing left but to record it.
AboutToRecord(a) ==
  pc[a] = "run" /\ cycle[a].gate = "allowed" /\ cycle[a].mode = "execute" /\ ~StepsLeft(a)

\* Behind SwitchesOnRecord: the switch is the last step of a plan, so that
\* without a fault a cycle that has switched goes on to an applied receipt,
\* whoever else switches, records or is asked to stop meanwhile.
SwitchInv ==
  faults = 0 /\ (\A a \in Syncers : HasStore(a)) =>
    /\ \A a \in Syncers : StatusesOf(cycle[a].results) \subseteq {"ok", "skipped", "dry_run"}
    /\ \A v \in switchedFor :
         \/ \E r \in AppliedReceipts : r.to = v
         \/ \E a \in Syncers : AboutToRecord(a) /\ cycle[a].target = v

-----------------------------------------------------------------------------
(***************************************************************************)
(* What the repository says and the code does not do.                      *)
(***************************************************************************)

\* "The store also tracks the last successfully applied content view version"
\* (receipt_store.py:4-5): a reported version was switched to, on any host.
RecordedWasApplied == versionFile \in Versions => versionFile \in switchedFor

\* "current-version - plain-text file: current applied CV version"
\* (receipt_store.py:9): while nothing fails, the version reported between
\* cycles is the release the system was switched to.
RecordedIsRunning ==
  (/\ faults = 0 /\ versionFile \in Versions
   /\ \A a \in Syncers : BetweenCycles(a)) => running = versionFile

\* "current-version - plain-text file: current applied CV version"
\* (receipt_store.py:9): between cycles the file holds a version or nothing.
RecordIsOneVersion == (\A a \in Syncers : BetweenCycles(a)) => versionFile # Mixed

\* "When a new content view version is available, plans and applies the sync"
\* (daemon.py:3-4), also for a daemon that requires attestations: a version
\* that stays promoted, with a verifying attestation that the producer has
\* published under its name, is eventually recorded.
AttestedIsRecorded ==
  \A v \in Versions, d \in Daemons :
    (/\ <>[](promoted = v /\ directory[v] = [binds |-> v, verifies |-> TRUE])
     /\ [](~stopRequested[d] /\ config[d].allowedLocus))
    => <>[](versionFile = v)

\* "Re-apply the previous version: sync apply --execute --current-version
\* <previous-version>" (docs/estate-rollout.md:172-174): an applied sync of
\* an operator is for the version passed as --current-version.
RollbackReappliesVersion ==
  \A o \in Operators :
    pc[o] = "version" /\ cycle[o].current # NoVersion
      => cycle[o].target = cycle[o].current

=============================================================================

# A TLA+ development of sourceos-syncd

sourceos-syncd keeps a SourceOS host in step with the content view that is
promoted for it in Katello, records what it did, and keeps a small local store
of state events from which health reports are made; its tools keep a store of
canonical events. This directory models the parts of it that keep state or
decide, checks them with TLC and proves the most important properties with
TLAPS.

Paths below are relative to the repository; `content_sync.py` and the other
bare names are in `src/sourceos_syncd/`.

## 1. Inventory

| component | state | operations | who it meets |
|---|---|---|---|
| Content view sync (`content_sync.py`) | none between syncs; plan and step results within one | `plan`, `execute`, `_build_receipt` | called by the daemon and by `sync apply`; runs `nix copy` and `nixos-rebuild switch` |
| Release attestation gate (`release_attestation.py`) | none | `verify_release_attestation` | called by `plan`; reads what the producer published |
| Sync daemon (`daemon.py`) | `_running`, `_backoff_s` | `run`, `_poll_once`, signal handler | Katello, attestation directory, receipt store; systemd restarts it |
| Katello client (`katello_client.py`) | none | `get_latest_version` | Katello's REST API |
| Receipt store (`receipt_store.py`) | `current-version`, `receipts/*.json` | write and read of both | daemon and operators write, status commands read, without locks |
| Operator commands (`cli.py`) | none | `sync plan/apply/status/check-health`, `receipts` | the same stores |
| Local state store (`local_store.py`, `store_reports.py`) | journal, manifest with its generation, registries of records | `init`, `append_event`, `put_record`, `get_record`, `list_records`, `iter_events`, `summarize` | commands write, reports and the HTTP service read, without locks |
| HTTP service (`service.py`) | none | GET routes, readiness, metrics | reads the local store |
| State report (`reports.py`, `trust.py`, `scorecard.py`, `policy.py`, `evidence.py`) | none | validate, verify, diagnose, repair plan, trust, scorecard, policy | pure functions of a snapshot; policy may ask a remote service |
| Orchestration queue (`orchestration_events.py`) | state directories, audit log, replays | enqueue, list, replay, summarize | several producers without locks |
| Noise budget (`noise_budget.py`) | counts per event key and totals, in memory | `ingest`, `budget_report`, `flush` | the CLI, each command with an engine of its own |
| Canonical event store (`tools/sourceos_eventctl.py`) | a JSONL file | `write`, `emit-policy-decision`, `list`, `show`, `verify-store` | several commands without locks |
| Policy normalizer (`tools/sourceos_policy_normalizer.py`) | none; writes an event file | registry, observation semantics, `normalize` | `write` of the event store reads the file |
| Process provenance (`tools/sourceos_process_provenance.py`) | none; writes event files | `emit-events` | the same |
| Service graph (`tools/sourceos_service_graph.py`) | none | `validate`, `graph`, `release-gates` | service manifests |
| Contracts, authority, coherence, systemd adapter, harvest, narrative, other tools | none | schema checks, fixed or formatted documents | files |

How they interact: the daemon and the operators share the receipt store and the
system profile; commands and the HTTP service share the local state store; the
attestation producer, Katello and the flake's repository are outside and change
at any time. Nothing takes a lock anywhere, and every process can be killed.

What is hard, and what makes each component correct:

- *Sync*: a cycle reads the version, fetches, plans, runs up to five commands,
  writes a receipt and writes the version; everything can change or fail in
  between. Correct: no switch after a failed step, nothing applied or called
  "Proved" without an attestation, no version recorded without its receipt, the
  promoted version recorded in the end.
- *Daemon*: failures, backoff, signals and restarts around that cycle. Correct:
  the backoff is the documented one, and a stop request ends the loop but never
  a cycle.
- *Local state store*: read-count-append-write without a lock, and writes that
  are cut short. Correct: the journal is append-only, ids are unique, the
  manifest is readable and its generation is accounted for by the journal.
- *Registries*: one temporary file per record shared by its writers. Correct:
  records are replaced whole and never mixed up.
- *Orchestration queue*: check-then-write per key and a separate audit line.
  Correct: no directory holds a record it does not admit, one record per key,
  audit and replays account for the records.
- *Receipt store as the status commands read it*: file names as order, files
  written in place, a list that is cut before it is read. Correct: no receipt
  replaces another, and a sync that failed shows until the next one.
- *Noise budget*: counters per key. Correct: an ordinary event surfaces no more
  often than the budget says, a critical one always, and the report accounts for
  every event.
- *Canonical events*: event files that are written in place while `write` loads
  them, an id that is looked up before the append, appends that other commands
  interrupt or a crash cuts short. Correct: a store that verifies has lost
  nothing, an id is there twice only if its writers overlapped, a stored
  decision says of its code what the registry says.
- *State report*: it is made without a lock from a store that commands write
  and may have damaged. Correct: a healthy report leaves out nothing that was
  acknowledged, and what is concluded from one report does not contradict itself.

## 2. Modules

| module | models | builds on |
|---|---|---|
| `SyncPlan` | the pure decisions of `plan` and `execute` and of the attestation gate | |
| `SyncDaemon` | daemons and operators syncing one host through one receipt store | `SyncPlan` |
| `SyncLedger` | what the receipt store promises to its readers (abstract) | |
| `ReplacedFile` | the write-then-rename idiom with open descriptors | |
| `LocalStore` | journal and manifest of the local state store | `ReplacedFile` |
| `RecordRegistry` | the record files of one registry | `ReplacedFile` |
| `AtomicRegistry` | a registry of records replaced in one step (abstract) | |
| `OrchestrationQueue` | the queue of orchestration events: init, enqueue, list, replay | `ReplacedFile` |
| `IdempotentQueue` | a queue that takes one record per place (abstract) | |
| `StateReport` | what is concluded from a report: verify, diagnosis, repair plan, policy counts, trust, scorecard, readiness | |
| `StoreReports` | the reports that readers make of the local store while commands write it | `LocalStore`, `StateReport` |
| `ReceiptLog` | the receipt directory and the health that is read from it | |
| `PolicyNormalizer` | registry, observations and the decisions made of them | |
| `ProcessProvenance` | the events of a process | |
| `EventStore` | the store of canonical events and its commands | |
| `CanonicalEvents` | the pipeline: producers of event files and the store | `EventStore`, `PolicyNormalizer`, `ProcessProvenance` |
| `NoiseBudget` | one engine of the noise budget | |
| `ServiceGraph` | what the service graph tool concludes from manifests | |
| `MCSyncDaemon`, `MCLocalStore`, `MCRecordRegistry`, `MCOrchestrationQueue`, `MCStoreReports`, `MCCanonicalEvents` | instances for TLC | |
| `SyncDaemonProofs`, `ReplacedFileProofs`, `LocalStoreProofs`, `RecordRegistryProofs`, `OrchestrationQueueProofs`, `StoreReportsProofs`, `EventStoreProofs`, `ObservationProofs` | theorems | |

A definition whose comment begins with "Mutant:" is a wrong version of the
definition that follows it: a plausible bug in that piece of code. It is used
nowhere in the specifications. For every property of every run there is one
that the run must catch, so that no property holds by the shape of the model.

### SyncPlan and SyncDaemon

A content view version is an opaque value, as in the code, which only compares
version strings. An attestation is the version its `artifactId` binds and
whether it is complete and verifies. The settings of a syncer say, beside its
locus and its gate, whether it has the producer's key (`trustedKey`) and, for a
daemon, a directory of attestations (`attestationDir`): without the key
`verify_release_attestation` refuses everything, without the directory
`_load_attestation` finds nothing (`daemon.py:129`). Neither `daemon_from_env`
nor `sync daemon` passes either, although `require_attestation` stays true. `PolicyGate` lists the early returns of
`plan()` in their order; `StepsOutcome` is the outcome `execute()` derives from
the step statuses.

A syncer is a process with a program counter. A step is the code between two
accesses to shared state:

| action | code |
|---|---|
| `DaemonPoll`, `OperatorStart` | `_poll_once` reads the version file; `sync apply` takes `--current-version`, any value |
| `Fetch`, `FetchFails` | `get_latest_version`, or `KatelloClientError` |
| `Plan` | `_load_attestation` and `plan()`, with the daemon's return on "no-op" |
| `SkipStep`, `StepSucceeds`, `StepFails` | one round of the loop in `execute()` |
| `WriteReceipt`, `WriteReceiptFails`, `LeaveUnrecorded` | `_build_receipt` and `write_receipt`; no store root, no receipt |
| `TruncateVersion`, `WriteVersion`, `WriteVersionFails` | `write_current_version`, which truncates and then writes at the start of the file |
| `Wake`, `Signal`, `Stop` | the loop of `run()`, its sleep and the signal handler |
| `Crash`, `Restart` | the process dies anywhere; systemd starts it again (`daemon.py:16`) |
| `Release`, `Promote`, `Publish` | the flake's repository, Katello and the attestation producer (outside) |

`running` is the release the system profile was last switched to: the steps name
only the flake reference, so a successful switch activates `head`, whatever
version was planned. `published`, `switchedFor`, `overlapped`, `failures` and `faults`
are history read by properties only, with the exception of the bound on `faults`.

The version file is a text: a version, nothing, or `Mixed`. Each writer opens the
file, which truncates it, and writes at offset 0 of its own descriptor. Of two
that are open at the same time the later write leaves the end of the earlier
one, if that was longer: "10.10" and then "9.0" leave "9.0" and a "0" below it,
which `read_current_version` takes for a version. `TextsAfterWrite` allows for
this whatever the versions are, since they are opaque and either may be the longer
one. `overlapped` is history: two syncers have had the file open at once.

Two abstractions to know of: `nix copy` and `curl` change nothing that the
properties see; and a receipt that is only partly written is not in `receipts`.

### ReplacedFile, LocalStore and RecordRegistry

`_write_manifest` and `put_record` write `<name>.json.tmp` and rename it. All
writers of a file use the same temporary name, so a file is modelled with both
contents and with what each writer's descriptor refers to: opening truncates
the temporary file under whoever has it open; a rename makes open descriptors
refer to the target; a write through a descriptor whose file already holds a
text may leave it torn, since the end of a longer text stays; `tails` says which
torn files hold such a text and are not merely empty, so that a third writer may
leave it torn as well.

In `LocalStore` a command is a process, a step one file operation. `store init`
runs `init`; `store record` runs `init` and then `append_event`
(`store_reports.append_store_event`); a reader runs `summarize`. A line of the
journal is the event of an appender, or not parsable: "torn" while it is still
unterminated after an append that was cut short, "corrupt" once the next append
has been merged into it. The id of an event is the number in its `event_id`. A
manifest is its `active_generation`.

In `RecordRegistry` a process is one call of `put_record` or `get_record`.
`SafeId` is `safe_record_id`, any function, injective or not. The id of a record
is the one it was put under: a record that brings a `record_id` of its own keeps
it in its text (`setdefault`, `local_store.py:257`), but is found by the other.

An append that is cut short after the last brace and before the end of the line
is not told apart from one that is cut earlier: the command fails, so the event
is not acknowledged either way.

`LocalStore`, `RecordRegistry` and `OrchestrationQueue` choose in `Init` whether
commands follow one another (`oneAtATime`: a command is started only once the
previous one has ended), and `LocalStore` also whether the store exists before
the first command (`existing`); no step changes them. The repository does not
say which it expects; the properties that hold only in one case name it, the
others are checked and proved for concurrent commands. What overlapping commands
do to the properties of the first kind is shown apart: `first_use` for
`JournalIsAppendOnly`, `MCLocalStore_same_id.cfg` for `IdIsPosition` and
`AcknowledgedIsFound`, `torn_record` for `ImplementsAtomicRegistry`.

### StateReport and StoreReports

`StateReport` has no state. A report is a record of what the conclusions look
at; that it keeps its contract (`validate_report`) and that its heartbeat is
fresh are attributes of it. Each operator is one function of the code, its
alternatives in the code's order.

`StoreReports` gives every appender an event (`Content`: its type and its
object), computes from the journal that a reader has seen what `summarize`
counts, and makes the report of `snapshot_from_store` (`ReportOf`). What a
report says besides is any of `Surroundings`: the pressure of the disk, and how
many decisions the policy denied, locally or by a remote PolicyFabric. Its steps
are those of `LocalStore`; `acknowledged` is history: the `store record` commands
that had ended when a reader began.

### OrchestrationQueue

A process is `orchestration enqueue` of a batch or `orchestration replay`, and
starts with `init_event_queue`; a step is one file operation. A record is its
idempotency key and what decides its queue state: the policy outcome, the
approval, the flaws of its receipts and its risk. A file of a state directory is
a `ReplacedFile`, since `_write_json` writes a temporary file and renames it. The
audit log is how often each status was written for each place, without the order
of its lines; the manifest, written in place, is missing, torn or made.

| action | code |
|---|---|
| `CheckAudit`, `CreateAudit`, `CheckManifest`, `OpenManifest`, `WriteManifest`, `ReadManifest` | `init_event_queue` |
| `RejectKey`, `CheckRecord`, `OpenRecord`, `WriteRecord`, `ReplaceRecord`, `AppendAudit`, `Finish` | one record of the loop in `enqueue_event_records`, and the summary that ends it |
| `ListState`, `ReadListed`, `EmitReplay` | `replay_event_queue` over `list_event_queue` |
| `Crash` | a process dies anywhere |

Later calls of `init_event_queue` by the same command, when everything exists,
are part of `ListState` and `Finish`. The file a replay leaves under `replay/` is
read by nobody and left out, as are audit lines that are cut short.

### ReceiptLog

`SyncDaemon` treats receipts as a set. Here a cycle makes a receipt, which gets
its second, and writes it later under a name of the second and the beginning of
its random id; a cycle is a number, which stands for that id. The file is
truncated and then filled, and a cycle may die before or in between. A check
lists the names, takes the greatest and then reads that file, as
`last_receipt` does; `Report` is the outcome and health that `check-health` or
`status` print. `rest` is what else decides: Katello's answer, the unit's state.
`With` is what `write_text` makes of the directory: a file that is new or replaced.
`alone` and `failing` are history, for the property only.

### EventStore and CanonicalEvents

The text of an event is two fragments and an end of line. `append_event` writes
them at once, unless the event is larger than the buffer of the file object: then
they reach the file in any number of writes, between which other commands append.
A line is what stands between two ends of line, so that fragments of two commands
can meet in one, and no reader takes such a line for an event. `lines` is the
store, `files` the event files.

| action | code |
|---|---|
| `Load` | `load_valid_event`: a missing, torn or invalid file ends the command |
| `Emit` | `policy_event` and its validation |
| `Lookup` | `find_event` of `cmd_write`, without `--allow-duplicate` |
| `AppendEvent` | `append_event`, one piece of it |
| `Die` | the command is killed or the disk is full: the rest of its event is cut |
| `Normalize`, `Collect` | `cmd_normalize` and `cmd_emit_events` up to their output |
| `OpenFile`, `WriteFile` | `write_text` of an event file: truncated, then written at its start |

In `EventStore` alone anybody may change an event file at any time
(`ChangeFile`); in `CanonicalEvents` the two producers do, and it implements
`EventStore` (theorem `PipelineImplementsStore`). `Found`, `Listed` and
`VerifyStore` are `show`, `list` and `verify-store`. `before` is history: which
rejecting runs had ended when one began.

### NoiseBudget and ServiceGraph

A key of `NoiseBudget` is the kind, source and subject of an event; the kind or
the source make it critical. `surfaced` counts, for the properties only, the
events that `ingest` has returned since the last flush, and `MaxReceived` bounds
the events of a window. A manifest of
`ServiceGraph` keeps the schema; a field that is only asked whether it is empty
is a Boolean. `Audited` is `audit_service` without its warnings, `Gate` the ten
gates of `release_gate_audit`.

## 3. Runs

Versions, processes and record ids are model values. Symmetry is used only
where there is no liveness property.

| run | instance | question |
|---|---|---|
| `MCSyncDaemon_host` | one daemon, every kind of settings, without key and directory as shipped among them, hosts with and without `nix` and `nixos-rebuild`, attestations for one version, authentic or not, that come and go | does anything switch after a failed step, is anything recorded that was not switched for, is anything applied or called "Proved" without an attestation, does a daemon that cannot verify fail closed, is a recorded version ever applied again, is the backoff the documented one? |
| `MCSyncDaemon_concurrent` | a daemon and an operator, each with or without a store | do they, crashing anywhere and writing the version file at the same time, implement `SyncLedger`, is a reported version always backed by a receipt, does the inductive invariant hold of overlapping writers? |
| `MCSyncDaemon_live` | a daemon that requires attestations, with key and directory, and an operator who does not | is a version that stays promoted and attested recorded in the end, is a stop request obeyed? |
| `MCStoreReports_store` | three `store record` commands, which add, delete and add one object, and a reader that makes a report, with or without a store, concurrent or in turn, three crashes or cut lines | is every generation accounted for, are lines kept, ids right, acknowledged events found, the manifest readable, how far does the generation lag, and can a healthy report leave out an acknowledged event or show a deleted object? |
| `MCRecordRegistry_registry` | four puts and two gets of three records, two of which share a file name, two callers that die | does a get return its own record, do puts in turn implement `AtomicRegistry`? |
| `MCOrchestrationQueue_queue` | two enqueuers of two records each, from six pairs, and a replayer, concurrent or in turn, two deaths | does every directory and replay hold only what it admits, is every audited record there, does the audit account for the records, does a replay cover what was there before, do enqueuers in turn implement `IdempotentQueue`? |
| `MCCanonicalEvents_events` | a normalizer, a provenance helper, an event file written by hand, two `write` and two emitted decisions of which one is large, one death | does a store that verifies hold every acknowledged event, is an id there twice only through overlap, does a stored decision agree with the registry? |
| `ReceiptLog_health` | two cycles of the daemon and one `sync apply` in three seconds, one of which may die, and a check | whose is each file and is it whole, does a failed sync show in both commands, is a receipt ever replaced? |

Bounds and why they are enough. Two versions: one that is recorded and one that
is promoted meanwhile; a third would only repeat the second. A daemon and an
operator: the code knows no more than "another process", and one of each kind
covers the pairs; two are enough to leave a mixture in the version file, and a third
writer finds one there already. Attestations for one of the two versions: the other one is the
version without any, to which they must not be applied. `MaxFaults` bounds the
crashes, failing commands, requests and writes of a behaviour (a poll that fails
because nothing is promoted yet is not one of them): a fault hits any step of
any cycle and leaves the cycles that recover from it. The backoff has minimum 1
and maximum 3, which is not a power of two times the minimum, so that the cap
bites in the middle of a doubling, as 1800 does with 30. For the journal: three
events are needed for a torn line, the one merged with it and a later one, and
three faults can hit each of them. `store init` runs what `store record` runs
first, and an appender that is rejected or dies there is one, so the run leaves
`Initializers` empty (with one initializer and two faults the state space is 22
million, and the properties hold as well). Three record ids with four puts give
two writers of one record and two records of one file. The pairs of records of
the queue are the ways two records can meet: two keys in one state, one key
twice in one state and in two, a key that `safe_id` rejects after one that it
accepts. Between them they fill every state directory. A report is about one
object, because objects do not meet in `summarize`. A canonical event meets three others: one
that it is merged with, one that has its id, and one between whose pieces it
lands; two `write` and two emitters give all of them, and one death cuts a line.
The shell of `events` still runs; exit events, which differ from launches in
their id alone, are in `child_process`, and in the theorems.
The registry has a code of fixed and one of flexible severity, and the
observations go against each clause that the properties depend on. Three
receipts give two of one second and a third that is later or earlier. The
properties proved below do not depend on any of these bounds.

`CHECK_DEADLOCK FALSE` is said where the system may really stop: a command
ends, a daemon is stopped by a signal, and the bounds on faults are used up.

Fairness (`FairSpec`): the poll loop is sequential code that waits for nothing
but its own sleep and timeouts (`timeout=600` per step, `timeout=30` per
request), and systemd restarts a daemon that died, so every daemon keeps taking
steps; an operator's command, once started, runs to its end. Nothing is assumed
of Katello, of the producer, of signals or faults, or of an operator who never
starts. Convergence is then claimed only for a version that stays promoted (and
attested where that is required), for a daemon whose locus is allowed, which has
the key and the directory if attestations are required (`Deployable`), and which
is never asked to stop. The shipped command line builds no daemon that requires
attestations and has them; what such a daemon does is `FailsClosed`, and the
configuration `shipped_daemon` below. Errors are bounded by `MaxFaults`, which is the usual
"failures end eventually".

### What the code does not do

Four runs expect a violation; each checks what the repository says.

- `skipped_switch`: without `nixos-rebuild` in PATH the switch is skipped, the
  sync counts as applied and its version is recorded (`receipt_store.py:4-5`).
- `first_use`: two first commands; `init` truncates the journal that already
  holds an event (`local_store.py:11`).
- `torn_record`: two puts of one record share the temporary file, and a torn
  one is renamed (`docs/contracts.md:268`).
- `child_process`: the launch of a process and that of the shell it belongs to
  have one event id, so that `write` refuses the second as a duplicate
  (`docs/process-provenance-collector.md:150`).

Another configuration, `NoiseBudget_noise.cfg`, passes: two ordinary keys and an
exempt one, a budget of two, and eight events in a window, which bring both
ordinary keys past the budget between exempt ones.

Six more configurations reproduce a disagreement that is as real and says less;
TLC finds each of them violated.

- `MCSyncDaemon_moved_head.cfg`: the recorded version and the running release
  differ once the flake's repository has moved (`receipt_store.py:10`).
- `MCSyncDaemon_shipped_daemon.cfg`: a daemon as `sync daemon` constructs it never
  records a version, however long it stays promoted and attested, although "when a
  new content view version is available" it "plans and applies the sync"
  (`daemon.py:3-4`). The code calls this "the intended posture until the paired
  producer WO publishes attestations" (`daemon.py:126-127`); but then no option
  names their directory.
- `MCSyncDaemon_mixed_version.cfg`: two syncers that record at the same time leave
  a text in `current-version` that is no version (`receipt_store.py:9`), until the
  next sync.
- `MCSyncDaemon_rollback.cfg`: the documented rollback applies the promoted
  version (`docs/estate-rollout.md:172-175`).
- `MCLocalStore_same_id.cfg`: two concurrent appends get the same id, and
  `/events/{id}` finds one of them (`docs/service-boundary.md:77-79`).
- `ReceiptLog_nothing_to_do.cfg`: a `sync apply` that has nothing to do leaves a
  receipt with the outcome "skipped", which `status` and `check-health` call
  unhealthy until the next version; what `status` calls healthy is "no_change",
  which nothing writes (`tests/test_cli_sync_status.py:72`).

A further disagreement can be read off `Plan` and needs no run: a denied sync is
planned, executed and recorded again at every poll, whereas `daemon.py:10-11`
says that it is "not retried".

## 4. Theorems

All theorems hold for every value of the constants that satisfies the named
assumptions of the modules: any number of processes, versions, settings, faults.

`SyncDaemonProofs`. `TypeCorrect` is inductive by itself. The safety properties
follow from `SyncInv` (`InvariantHolds`), which adds to them what holds of a
cycle at each label: the results so far explain what was done (an "ok" switch
is in `switchedFor`, a "not-run" step follows an abort), an allowed gate under
`require_attestation` stands on a published attestation, and a cycle that is
about to write the version file has its receipt on disk. `OpenFileInv` says that,
until two syncers overlap in it, the version file is empty while it is open and
one syncer has it open, so that a write leaves its version; after an overlap it
may leave `Mixed`, but only over another version, which has a receipt as well.
None of the properties
is inductive without it: a version file is backed by a receipt only because
`WriteVersion` is reached through `WriteReceipt`. From it follow
`RecordHasReceipt`, `ProvedIsAttested`, `AppliedIsAttested`, `RecordedIsSwitched`
and `UnverifiableFailsClosed`, that syncers without the means to verify switch
and record nothing; the action property `SwitchNeedsCleanRun`; and
`StoreImplementsLedger`, that every step is a step of `SyncLedger` or a stutter: there the
recorded version is drawn from the ledger, forgotten, or, after an overlap, mixed
of two that are in it.

Three theorems of that module have invariants of their own.
`SwitchesAreRecorded` proves `SwitchesOnRecord`, for any number of syncers, from
`SwitchInv`. As long as there was no fault, a step ends "ok", skipped or as a dry
run (`CleanInv`), and a version that was switched for has its applied receipt or
is the target of a syncer that has no step left (`BackedInv`). The second holds
after a switch because the switch is the last step of every plan, and
is what a stop request in the middle of a cycle would break.
`BackoffIsScheduled` proves `BackoffSchedule` from `BackoffInv`, for any base and
cap. The provers do not know what `^` means; that `2^(n+1)` is twice `2^n` is
derived from the theorem `FS_SUBSET` of the library, on the number of subsets of
a finite set (the library's own proof of it leaves one arithmetical step open).
The model counts failures up to one more than the cap only; beyond it the
schedule stays at the cap, since each failure before has added at least a second
to the backoff. `RecordedStaysDone` proves the action property
`RecordedIsNotRedone` from `LoneInv`: what a lone daemon read from the version
file is still there when its plan is executed. It says nothing of a host with
an operator, whose sync may record the same version in the middle of a cycle.

`ReplacedFileProofs` says what each file operation does to the contents of a
file, whatever descriptors are open; `WrittenToEmpty`, that a write to a temporary
file which is empty (`EmptyTmp`) leaves just what is written, is what the theorems
about commands in turn need.

`LocalStoreProofs`. `GenerationInv` says that no generation in the manifest, in
its temporary file or in a process exceeds `Explained`: one more than the lines,
not counting a last line that is torn, because the next append will be merged
with it and will still add one to the generation. That correction is what makes
the invariant inductive. It gives `ReadersFindGenerationExplained` for any
number of concurrent, crashing commands. `LinesAreKept` proves
`JournalIsAppendOnly`, for an existing store from `GenerationInv`, for commands
that follow one another from `FirstUseInv`: whoever is about to truncate the
journal is alone, and it is still empty. With neither assumption it is false:
run `first_use`. Three theorems are about commands that follow one another.
`IdsArePositions` keeps with each line its position (`IdInv`): a command that
dies in the middle of a line leaves a torn one, with which the next is merged, so
that positions never shift. `ManifestStaysReadable` (`ManifestInv`) follows the
temporary file, which holds a whole manifest whenever it is renamed.
`LagIsBounded` (`LagInv`) relates what the one running command is about to write
to the journal: between commands the two differ by the commands that died after
their append.

`RecordRegistryProofs`. Every complete content of a record file or of its
temporary file has an id that leads to that file (`FilesAreNamed`), so that a
`get_record` returns a record of the id it was asked for
(`GetReturnsOwnRecord`) unless `safe_record_id` maps another id to the same
name. `RegistryIsAtomic` is the refinement of `AtomicRegistry` for calls that
follow one another: with `AloneInv`, the call that is under way finds its
temporary file empty, so that what it renames is its whole record.

`StoreReportsProofs`. `AcknowledgedEventsAreKept` is the inductive invariant
`AcknowledgedKept`: once a command is past its append, its event is in the
journal or some line is corrupt. `KeptByAppend` is its heart: an append either
adds the event or is merged with a torn line, which is corrupt from then on. The
manifest, which a reader looks for before it reads the journal, exists once any
command has ended. With `GenerationInv` and `FirstUseInv`, which keep the journal
from being truncated, it gives `HealthyReportsAreComplete` and from that
`HealthyReportsSeeDeletions`, for any number of concurrent, crashing commands on
an existing store, or of commands in turn on any. `ConclusionsAgree` is about
`StateReport` alone and every report; `RestrictedLanesStayBlocked` says that the
trust gate is closed for the lanes "secure" and "repair" unless a remote
PolicyFabric decides otherwise. `AcknowledgedAreFound` puts `AcknowledgedKept`
and `IdIsPosition` together with `AuthorInv`, that an event of the journal is
the one its appender was given an id for. `LossIsBounded` follows from `LossInv`:
an append loses an event only by merging it with a torn line, which then is
corrupt, so that the events past their append that are not in the journal are
never more than the corrupt lines.

`OrchestrationQueueProofs`. `IInv` adds to the types that what an enqueuer
files is a record of its batch whose key has a file name (`InBatch`), that every
content of a file, complete or temporary, is in the directory and under the name
its own record leads to (`Filed`), that what a replay has read is so too, that an
audited record is present, and that a process about to write the audit line has
renamed its file (`Renamed`). From it follow
`QueueHoldsAdmitted`, `AuditIsBacked` and, with `ReplayInv` (no file is ever
removed, so a replay reads what was there when it started), `ReplaysCover`. For
commands that follow one another `TurnInv` adds what the one that is under way
knows of its record: the place stays empty between its look and its rename, and
the audit log, which is made before anything is filed, has no line about it.
That gives the refinement of `IdempotentQueue` (`QueueIsIdempotent`) and, with
`AccountInv` (each record that nobody is going to audit has cost a fault),
`AuditIsAccounted`.

`EventStoreProofs`. `StoreInv` relates the text of the store to what the commands
have done. `SentInv`: the first fragment of an event is in the store exactly when
its command has sent it, since fragments are never removed. In a store that
verifies, the line it stands in can only be that event, whole: this is
`StoreComplete`, and why an event that was merged or cut cannot pass
`verify-store`. `LookupInv`: once a rejecting command is past its lookup, no
command that had ended before it began has an event of its id in the store; such
a command writes no more (`BeforeInv`), so it stays so, which gives
`StoreOverlap`. `PipelineImplementsStore` maps every step of a producer to a
change of an event file or a stutter, so that the invariant of the store carries
over; with `ProducerInv` (a valid document in an event file, and one that a
command has loaded, keeps the registry if it is a decision) it gives
`DecisionsKept`.

`ObservationProofs`. `LogInvariant` is the inductive invariant of `ReceiptLog`.
`FilesInv` says whose file each file is and when it is whole; two cycles never
share one, because the name holds the cycle's id beside its second. `AloneInv`:
while a cycle is the last that made a receipt, and was alone when it did, all
other files are of earlier seconds. `ChecksInv`: a check that began when such a
cycle had failed is going to read that cycle's file. `AloneIsLast`, that the
greatest name is then the one of that cycle, is what links the order of the names
to the order of events. From it follow `FailuresShow` and `ReceiptsKept`, for any
number of cycles, checks, crashes and seconds. `DirectoryIsASet` justifies the way
`SyncDaemon` looks at the same store: the receipts that can be parsed are those
of the cycles whose `write_receipt` has ended (`WholeAreWritten`), and each step
adds the one of the cycle that ends it, or none.

The module instantiates `NoiseBudget` as `Noise`. `NoiseBudgetKept` and
`NoiseReportAccounts` follow from the count of a key being how often it surfaced
since the flush, for every budget in Int, zero and less included (the first event
of a key surfaces even then), and any number of events.
`ReadyGraphDenies`, `IndexIsConsistent` and `ExemptionNeverValidates` say of any
set of manifests what `validate`, `graph` and `release-gates` conclude together.
`IndexIsConsistent` assumes distinct service ids, which the tool does not check.
`ServiceGraph` has no state and no run.

Only model-checked: liveness (`Converges`, `StopsWhenAsked`), which is beyond
the prover's reach. Every other property of a passing run is proved. The
inductive invariants `SwitchInv` and `LoneInv` stand beside the properties of
`SyncDaemon`, so that TLC can check them too: add them as `INVARIANT` to the
configurations `concurrent` and `host`.

## 5. Not modelled

Formatting, logging, HTTP and the texts of reasons; `minisign`, `nix` and
`nixos-rebuild` beyond their exit; the command line parser; the contents of
records and events. Of the orchestration queue: the files under `replay/`, cut
audit lines, the summary's counts. Of reports: the checks of single fields in
`validate_report` and the wording of causes, remediations and controls; of the
policy hook: the rules for sensitive data. Not at all: `contracts.py`, a long
list of checks of single fields, each of which a model could only repeat;
`authority.py`, `coherence.py`, `systema.py`, `harvest.py`, `narrative.py` and
`evidence.py`, which map one document to another; and the remaining tools, which
read the operating system once and print.

## 6. Observations and plan

Read off the models, of behaviour about which the repository promises nothing:

- A queue command that dies between creating and writing `manifest.json` leaves
  it torn, and every later command raises in `init_event_queue`.
- A key is unique per state directory: a record whose policy outcome changes is
  queued again in another state. Keys that differ only where `safe_id` replaces
  characters share a file, so that the second is taken for a duplicate.
- A high-risk record whose outcome is "redacted" is put under `pending`, although
  one whose outcome is "allowed" is an error.
- A corrupt line counts twice in `sourceos_syncd_corrupted_objects` (its lane,
  then the lane "repair"), and an object that is deleted and added again does not
  count as live.
- An uninitialized store is diagnosed "healthy": the trust gate allows and the
  scorecard says "ready" while `/readyz` answers 503. `ConclusionsAgree` excepts
  exactly this.
- The repair plan of an unsafe report with an invalid contract or an unknown disk
  pressure may say `no_op`. The age of a heartbeat is taken relative to the
  report, so that no report file gets stale.

- A receipt that is being written, or was cut short by a crash, is skipped only
  after the list has been cut to one: `last_receipt` returns none, which
  `check-health` and `status` take for "no sync yet" and call healthy, whatever
  the receipts before it say.
- Two receipts of one second are ordered by their random ids.
- `list` of the event store stops at the first damaged line, while `show` looks
  beyond it; `emit-policy-decision` neither looks for duplicates nor consults
  the registry of explanation codes.
- The observations "x" and "evt_x" make events of one id; the tuples of one
  chain make files of one name, which replace each other.
- `noise-budget flush` and `status` act on the engine of their own process, and
  nothing in `src/` calls `ingest`, so that the documented flush
  (`docs/estate-rollout.md:199`) lowers nobody's budget. `window_seconds` is
  only reported: a window ends with a flush.
- The service graph takes two manifests with one `service_id`, and lists such a
  service as requiring and as denying a capability if they disagree. The release
  gates do not see a capability that is both required and denied, and a service
  that documents why it emits no events passes gate 2 but never validates.

The plan, what is left, the most consequential first.

1. The policy hook with a remote PolicyFabric that fails in the middle of a
   report, and its rules for sensitive data.
2. The queue's replay files, cut audit lines and the extraction of records from
   a bundle; the fields that `validate_report` checks.

------------------------- MODULE OrchestrationQueue -------------------------
(***************************************************************************)
(* The queue of event-capability records (orchestration_events.py): one    *)
(* file per record, in the directory of its queue state, named after its   *)
(* idempotency key, and an audit log.  Commands `orchestration enqueue`    *)
(* and `orchestration replay` (or `list`) share it without a lock; a step  *)
(* is one file operation.                                                  *)
(***************************************************************************)
EXTENDS ReplacedFile, Sequences, FiniteSets

CONSTANTS
  Keys,        \* idempotency keys, or the record ids that stand in for them
  Names,       \* file names
  NoName,      \* safe_id raises
  SafeId,      \* safe_id: the name of a key, or NoName
  Payloads,    \* what else is in a record
  Enqueuers,   \* invocations of `orchestration enqueue`
  Replayers,   \* invocations of `orchestration replay`
  Workloads,   \* the record lists the enqueuers may be given
  ReplayState, \* the queue state that replayers read
  MaxFaults    \* bound: commands that die

Executable == {"allowed", "redacted"}
Waiting    == {"requires_approval"}
Blocking   == {"denied", "degraded", "requires_local_only"}
PolicyOutcomes == Executable \union Waiting \union Blocking \union {"other"}

QueueStates == {"pending", "waiting-approval", "blocked", "dead-letter"}

\* A record, by what validate_event_record looks at.  It is complete when no
\* id, key or receipt is missing and dead_letter_on_failure is true.
EventRecord ==
  [key : Keys, payload : Payloads, complete : BOOLEAN,
   outcome : PolicyOutcomes, required : PolicyOutcomes,
   highRisk : BOOLEAN, strictApproval : BOOLEAN]

Processes == Enqueuers \union Replayers
Slots     == QueueStates \X Names
Statuses  == {"queued", "deduped"}

ASSUME QueueAssumption ==
  /\ NoName \notin Names
  /\ SafeId \in [Keys -> Names \union {NoName}]
  /\ Enqueuers \intersect Replayers = {}
  /\ Workloads \subseteq [Enqueuers -> Seq(EventRecord)]
  /\ ReplayState \in QueueStates
  /\ MaxFaults \in Nat
  /\ {Nothing, Torn} \intersect EventRecord = {}

VARIABLES
  oneAtATime,   \* is a command started only once the previous one has ended?
  batch,        \* the records of each enqueuer
  files,        \* the file, and the temporary file, of each slot
  audit,        \* audit.jsonl: how many lines of each kind, not their order
  auditMade,    \* does audit.jsonl exist?
  manifest,     \* manifest.json: Nothing, Torn or "made"
  pc,
  position,     \* the index of the record an enqueuer has come to
  status,       \* the status it has given that record
  listed,       \* the names a replayer has found, less those it has read
  replayed,     \* name by name, what it has read
  presentBefore, \* the names that were there when it started
  faults

scenarioVars == <<oneAtATime, batch>>
initVars     == <<audit, auditMade, manifest>>
enqueueVars  == <<position, status>>
replayVars   == <<listed, replayed, presentBefore>>
vars == <<scenarioVars, files, initVars, pc, enqueueVars, replayVars, faults>>

-----------------------------------------------------------------------------
(* validate_event_record *)

Flawed(record) ==
  \/ ~record.complete
  \/ record.outcome # record.required
  \/ record.highRisk /\ record.outcome = "allowed"
  \/ record.highRisk /\ record.outcome = "requires_approval" /\ ~record.strictApproval

\* Mutant: an executable outcome is queued in spite of errors.
StateOfUnchecked(record) ==
  CASE record.outcome \in Executable -> "pending"
    [] record.outcome \in Waiting /\ ~Flawed(record) -> "waiting-approval"
    [] record.outcome \in Blocking /\ ~Flawed(record) -> "blocked"
    [] OTHER -> "dead-letter"

StateOf(record) ==
  CASE record.outcome \in Executable /\ ~Flawed(record) -> "pending"
    [] record.outcome \in Waiting /\ ~Flawed(record) -> "waiting-approval"
    [] record.outcome \in Blocking /\ ~Flawed(record) -> "blocked"
    [] OTHER -> "dead-letter"

CurrentRecord(p) == batch[p][position[p]]
SlotOf(record)   == <<StateOf(record), SafeId[record.key]>>
Slot(p)          == SlotOf(CurrentRecord(p))

Present(slot) == files[slot].target # Nothing

Ended == {"done", "failed"}

Goto(p, label) == pc' = [pc EXCEPT ![p] = label]

-----------------------------------------------------------------------------
(* init_event_queue *)

EmptyAudit == [line \in Statuses \X Slots |-> 0]

PresentNames == {name \in Names : Present(<<ReplayState, name>>)}

\* if not paths["audit"].exists()
CheckAudit(p) ==
  /\ pc[p] = "start"
  /\ oneAtATime => \A q \in Processes \ {p} : pc[q] \in {"start"} \union Ended
  /\ Goto(p, IF auditMade THEN "check-manifest" ELSE "create-audit")
  /\ presentBefore' = IF p \in Replayers
                      THEN [presentBefore EXCEPT ![p] = PresentNames]
                      ELSE presentBefore
  /\ UNCHANGED <<files, initVars, enqueueVars, listed, replayed, faults>>

\* write_text(""), which truncates a log that another command has begun.
CreateAudit(p) ==
  /\ pc[p] = "create-audit"
  /\ audit' = EmptyAudit
  /\ auditMade' = TRUE
  /\ Goto(p, "check-manifest")
  /\ UNCHANGED <<files, manifest, enqueueVars, replayVars, faults>>

CheckManifest(p) ==
  /\ pc[p] = "check-manifest"
  /\ Goto(p, IF manifest = Nothing THEN "open-manifest" ELSE "read-manifest")
  /\ UNCHANGED <<files, initVars, enqueueVars, replayVars, faults>>

\* write_text in place: truncates ...
OpenManifest(p) ==
  /\ pc[p] = "open-manifest"
  /\ manifest' = Torn
  /\ Goto(p, "write-manifest")
  /\ UNCHANGED <<files, audit, auditMade, enqueueVars, replayVars, faults>>

\* ... and writes.
WriteManifest(p) ==
  /\ pc[p] = "write-manifest"
  /\ manifest' = "made"
  /\ Goto(p, "read-manifest")
  /\ UNCHANGED <<files, audit, auditMade, enqueueVars, replayVars, faults>>

\* json.loads raises on a manifest that is cut short.
ReadManifest(p) ==
  /\ pc[p] = "read-manifest"
  /\ Goto(p, CASE manifest = Torn -> "failed"
               [] p \in Enqueuers -> "next"
               [] OTHER -> "list")
  /\ UNCHANGED <<files, initVars, enqueueVars, replayVars, faults>>

-----------------------------------------------------------------------------
(* enqueue_event_records *)

Left(p) == pc[p] = "next" /\ position[p] <= Len(batch[p])

\* safe_id raises: the rest of the batch is dropped, what was queued stays.
RejectKey(p) ==
  /\ Left(p)
  /\ SafeId[CurrentRecord(p).key] = NoName
  /\ Goto(p, "failed")
  /\ UNCHANGED <<files, initVars, enqueueVars, replayVars, faults>>

\* Mutant: the existing file is not looked for.
CheckRecordBlindly(p) ==
  /\ Left(p)
  /\ SafeId[CurrentRecord(p).key] # NoName
  /\ status' = [status EXCEPT ![p] = "queued"]
  /\ Goto(p, "open")
  /\ UNCHANGED <<files, initVars, position, replayVars, faults>>

\* Mutant: a temporary file counts as a record.
CheckRecordOrTemporary(p) ==
  /\ Left(p)
  /\ SafeId[CurrentRecord(p).key] # NoName
  /\ LET found == Present(Slot(p)) \/ files[Slot(p)].tmp # Nothing
     IN  /\ status' = [status EXCEPT ![p] = IF found THEN "deduped" ELSE "queued"]
         /\ Goto(p, IF found THEN "audit" ELSE "open")
  /\ UNCHANGED <<files, initVars, position, replayVars, faults>>

\* "deduped" if target.exists() else "queued"
CheckRecord(p) ==
  /\ Left(p)
  /\ SafeId[CurrentRecord(p).key] # NoName
  /\ status' = [status EXCEPT ![p] = IF Present(Slot(p)) THEN "deduped" ELSE "queued"]
  /\ Goto(p, IF Present(Slot(p)) THEN "audit" ELSE "open")
  /\ UNCHANGED <<files, initVars, position, replayVars, faults>>

\* _write_json
OpenRecord(p) ==
  /\ pc[p] = "open"
  /\ files' = [files EXCEPT ![Slot(p)] = Opened(@, p)]
  /\ Goto(p, "write")
  /\ UNCHANGED <<initVars, enqueueVars, replayVars, faults>>

WriteRecord(p) ==
  /\ pc[p] = "write"
  /\ \E file \in Written(files[Slot(p)], p, CurrentRecord(p)) :
       files' = [files EXCEPT ![Slot(p)] = file]
  /\ Goto(p, "replace")
  /\ UNCHANGED <<initVars, enqueueVars, replayVars, faults>>

\* FileNotFoundError if another enqueuer has already renamed the file.
ReplaceRecord(p) ==
  /\ pc[p] = "replace"
  /\ IF files[Slot(p)].tmp = Nothing
     THEN Goto(p, "failed") /\ UNCHANGED files
     ELSE files' = [files EXCEPT ![Slot(p)] = Replaced(@)] /\ Goto(p, "audit")
  /\ UNCHANGED <<initVars, enqueueVars, replayVars, faults>>

\* Mutant: every record is audited as queued.
AppendAuditQueued(p) ==
  /\ pc[p] = "audit"
  /\ audit' = [audit EXCEPT ![<<"queued", Slot(p)>>] = @ + 1]
  /\ position' = [position EXCEPT ![p] = @ + 1]
  /\ Goto(p, "next")
  /\ UNCHANGED <<files, auditMade, manifest, status, replayVars, faults>>

\* Mutant: the record after a duplicate is skipped as well.
AppendAuditSkipping(p) ==
  /\ pc[p] = "audit"
  /\ audit' = [audit EXCEPT ![<<status[p], Slot(p)>>] = @ + 1]
  /\ position' = [position EXCEPT ![p] = IF status[p] = "deduped" THEN @ + 2 ELSE @ + 1]
  /\ Goto(p, "next")
  /\ UNCHANGED <<files, auditMade, manifest, status, replayVars, faults>>

\* _append_audit, and on to the next record.
AppendAudit(p) ==
  /\ pc[p] = "audit"
  /\ audit' = [audit EXCEPT ![<<status[p], Slot(p)>>] = @ + 1]
  /\ position' = [position EXCEPT ![p] = @ + 1]
  /\ Goto(p, "next")
  /\ UNCHANGED <<files, auditMade, manifest, status, replayVars, faults>>

\* summarize_event_queue, which reads the manifest again.
Finish(p) ==
  /\ pc[p] = "next"
  /\ position[p] > Len(batch[p])
  /\ Goto(p, IF manifest = Torn THEN "failed" ELSE "done")
  /\ UNCHANGED <<files, initVars, enqueueVars, replayVars, faults>>

-----------------------------------------------------------------------------
(* replay_event_queue, with list_event_queue *)

\* init_event_queue once more, and directory.glob("*.json")
ListState(r) ==
  /\ pc[r] = "list"
  /\ IF manifest = Torn
     THEN Goto(r, "failed") /\ UNCHANGED listed
     ELSE Goto(r, "read") /\ listed' = [listed EXCEPT ![r] = PresentNames]
  /\ UNCHANGED <<files, initVars, enqueueVars, replayed, presentBefore, faults>>

\* Mutant: a file that does not parse is skipped.
ReadListedLeniently(r) ==
  /\ pc[r] = "read"
  /\ \E name \in listed[r] :
       /\ listed' = [listed EXCEPT ![r] = @ \ {name}]
       /\ replayed' = [replayed EXCEPT ![r][name] =
                         IF files[<<ReplayState, name>>].target = Torn
                         THEN Nothing ELSE files[<<ReplayState, name>>].target]
       /\ UNCHANGED pc
  /\ UNCHANGED <<files, initVars, enqueueVars, presentBefore, faults>>

\* json.loads of one file after the other.
ReadListed(r) ==
  /\ pc[r] = "read"
  /\ \E name \in listed[r] :
       LET content == files[<<ReplayState, name>>].target
       IN  IF content = Torn
           THEN Goto(r, "failed") /\ UNCHANGED <<listed, replayed>>
           ELSE /\ listed' = [listed EXCEPT ![r] = @ \ {name}]
                /\ replayed' = [replayed EXCEPT ![r][name] = content]
                /\ UNCHANGED pc
  /\ UNCHANGED <<files, initVars, enqueueVars, presentBefore, faults>>

\* The replay is returned, and written under replay/.
EmitReplay(r) ==
  /\ pc[r] = "read"
  /\ listed[r] = {}
  /\ Goto(r, "done")
  /\ UNCHANGED <<files, initVars, enqueueVars, replayVars, faults>>

\* A command dies between two file operations.
Crash(p) ==
  /\ pc[p] \notin {"start"} \union Ended
  /\ faults < MaxFaults
  /\ faults' = faults + 1
  /\ files' = IF pc[p] = "write"
              THEN [files EXCEPT ![Slot(p)] = Abandoned(@, p)]
              ELSE files
  /\ Goto(p, "failed")
  /\ UNCHANGED <<initVars, enqueueVars, replayVars>>

-----------------------------------------------------------------------------
Init ==
  /\ oneAtATime \in BOOLEAN
  /\ batch \in Workloads
  /\ files = [slot \in Slots |-> FileWith(Nothing, Enqueuers)]
  /\ audit = EmptyAudit
  /\ auditMade = FALSE
  /\ manifest = Nothing
  /\ pc = [p \in Processes |-> "start"]
  /\ position = [p \in Enqueuers |-> 1]
  /\ status = [p \in Enqueuers |-> "queued"]
  /\ listed = [r \in Replayers |-> {}]
  /\ replayed = [r \in Replayers |-> [name \in Names |-> Nothing]]
  /\ presentBefore = [r \in Replayers |-> {}]
  /\ faults = 0

InitStep(p) ==
  \/ CheckAudit(p) \/ CreateAudit(p) \/ CheckManifest(p)
  \/ OpenManifest(p) \/ WriteManifest(p) \/ ReadManifest(p) \/ Crash(p)

EnqueueStep(p) ==
  \/ RejectKey(p) \/ CheckRecord(p) \/ OpenRecord(p) \/ WriteRecord(p)
  \/ ReplaceRecord(p) \/ AppendAudit(p) \/ Finish(p)

ReplayStep(r) == ListState(r) \/ ReadListed(r) \/ EmitReplay(r)

Next ==
  /\ \/ \E p \in Processes : InitStep(p)
     \/ \E p \in Enqueuers : EnqueueStep(p)
     \/ \E r \in Replayers : ReplayStep(r)
  /\ UNCHANGED scenarioVars

Spec == Init /\ [][Next]_vars

-----------------------------------------------------------------------------
(***************************************************************************)
(* Properties.                                                             *)
(***************************************************************************)

InitPcs == {"start", "create-audit", "check-manifest", "open-manifest", "write-manifest",
            "read-manifest"} \union Ended
EnqueuerPcs == InitPcs \union {"next", "open", "write", "replace", "audit"}
ReplayerPcs == InitPcs \union {"list", "read"}

\* Every variable has its type, and no enqueuer leaves its batch.
TypeOK ==
  /\ oneAtATime \in BOOLEAN
  /\ batch \in Workloads
  /\ files \in [Slots -> FileOf(EventRecord, Enqueuers)]
  /\ audit \in [Statuses \X Slots -> Nat]
  /\ auditMade \in BOOLEAN
  /\ manifest \in {Nothing, Torn, "made"}
  /\ pc \in [Processes -> EnqueuerPcs \union ReplayerPcs]
  /\ \A p \in Enqueuers : pc[p] \in EnqueuerPcs
  /\ \A r \in Replayers : pc[r] \in ReplayerPcs
  /\ position \in [Enqueuers -> Nat]
  /\ \A p \in Enqueuers : position[p] \in 1..(Len(batch[p]) + 1)
  /\ status \in [Enqueuers -> Statuses]
  /\ listed \in [Replayers -> SUBSET Names]
  /\ replayed \in [Replayers -> [Names -> EventRecord \union {Nothing}]]
  /\ presentBefore \in [Replayers -> SUBSET Names]
  /\ faults \in 0..MaxFaults

\* What the directories of executable and of waiting records may hold: no
\* record that lacks an id or a receipt, or whose outcome the capability does
\* not require, no high-risk one that is allowed outright, and none that waits
\* without a strict approval mode.
Admissible(state, record) ==
  CASE state = "pending" ->
         /\ record.complete
         /\ record.outcome = record.required
         /\ record.outcome \in Executable
         /\ record.highRisk => record.outcome # "allowed"
    [] state = "waiting-approval" ->
         /\ record.complete
         /\ record.outcome = record.required
         /\ record.outcome \in Waiting
         /\ record.highRisk => record.strictApproval
    [] OTHER -> TRUE

\* However enqueuers race for a name, and wherever they die, a record is never
\* found in a directory, or replayed from one, that its policy outcome and its
\* receipts do not admit it to, nor under the name of another key.
OnlyAdmitted ==
  /\ \A state \in QueueStates, name \in Names :
       LET content == files[<<state, name>>].target
       IN  content \in EventRecord =>
             Admissible(state, content) /\ SafeId[content.key] = name
  /\ \A r \in Replayers, name \in Names :
       replayed[r][name] # Nothing => Admissible(ReplayState, replayed[r][name])

\* Every line of the audit log, "deduped" ones included, is about a record
\* whose file is there: enqueue_event_records audits what it has renamed, and a
\* temporary file that a dead enqueuer left is not taken for a record.
AuditedIsPresent ==
  \A action \in Statuses, slot \in Slots : audit[<<action, slot>>] > 0 => Present(slot)

Quiet == \A p \in Processes : pc[p] \in {"start"} \union Ended

\* When commands follow one another, a record is audited as queued at most
\* once, and between commands the records that never were are at most as many
\* as the commands that died.
AuditAccounts ==
  oneAtATime =>
    /\ \A slot \in Slots : audit[<<"queued", slot>>] <= 1
    /\ Quiet => Cardinality({slot \in Slots : Present(slot) /\ audit[<<"queued", slot>>] = 0})
                  <= faults

\* A replay that ends holds every record that was in the state when its command
\* started: no enqueuer takes one away, and a file that cannot be parsed ends
\* the replay instead of being left out.
ReplayCovers ==
  \A r \in Replayers : pc[r] = "done" =>
    \A name \in presentBefore[r] : replayed[r][name] # Nothing

\* What the readers of the queue see.
Queue == INSTANCE IdempotentQueue WITH
  Record  <- EventRecord,
  Absent  <- Nothing,
  records <- [slot \in Slots |-> files[slot].target]

\* When commands follow one another, the queue delivers once per idempotency
\* key and queue state (orchestration_events.py:64): a place is filled in one
\* step, by a whole record, and the first record in it stays, wherever commands
\* die.
ImplementsIdempotentQueue ==
  Queue!Init /\ [][oneAtATime => Queue!Next]_(Queue!vars)

=============================================================================

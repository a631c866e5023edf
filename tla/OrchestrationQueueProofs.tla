---------------------- MODULE OrchestrationQueueProofs ----------------------
(***************************************************************************)
(* Theorems about OrchestrationQueue, for any number of enqueuers and      *)
(* replayers, any records and any safe_id.                                 *)
(***************************************************************************)
EXTENDS OrchestrationQueue, ReplacedFileProofs, FiniteSetTheorems

USE ContentsAssumption, QueueAssumption

File == FileOf(EventRecord, Enqueuers)

\* The labels at which an enqueuer is about its current record.
Busy == {"open", "write", "replace", "audit"}

\* The current record is in the batch, and has a file name.
HasRecord(p) == position[p] <= Len(batch[p]) /\ SafeId[CurrentRecord(p).key] # NoName

InBatch == \A p \in Enqueuers : pc[p] \in Busy => HasRecord(p)

\* A record is in the slot that its own contents lead to.
Filed ==
  \A slot \in Slots : \A content \in {files[slot].target, files[slot].tmp} :
    content \in EventRecord => SlotOf(content) = slot

ReplaysFiled ==
  \A r \in Replayers, name \in Names :
    replayed[r][name] \in EventRecord => StateOf(replayed[r][name]) = ReplayState

Renamed == \A p \in Enqueuers : pc[p] = "audit" => Present(Slot(p))

IInv == TypeOK /\ InBatch /\ Filed /\ ReplaysFiled /\ AuditedIsPresent /\ Renamed

-----------------------------------------------------------------------------
(* Records and slots. *)

\* validate_event_record gives every record a queue state that admits it.
LEMMA StateAdmits ==
  ASSUME NEW record \in EventRecord
  PROVE  StateOf(record) \in QueueStates /\ Admissible(StateOf(record), record)
<1> USE DEF Executable, Waiting, Blocking, QueueStates
<1>1. CASE record.outcome \in Executable /\ ~Flawed(record)
  <2>1. StateOf(record) = "pending"
    BY <1>1 DEF StateOf
  <2>2. QED BY <1>1, <2>1 DEF Admissible, Flawed, EventRecord
<1>2. CASE record.outcome \in Waiting /\ ~Flawed(record)
  <2>1. StateOf(record) = "waiting-approval"
    BY <1>2 DEF StateOf
  <2>2. QED BY <1>2, <2>1 DEF Admissible, Flawed, EventRecord
<1>3. CASE record.outcome \in Blocking /\ ~Flawed(record)
  <2>1. StateOf(record) = "blocked"
    BY <1>3 DEF StateOf
  <2>2. QED BY <2>1 DEF Admissible
<1>4. CASE \/ record.outcome \notin Executable \union Waiting \union Blocking
           \/ Flawed(record)
  <2>1. StateOf(record) = "dead-letter"
    BY <1>4 DEF StateOf
  <2>2. QED BY <2>1 DEF Admissible
<1>5. QED BY <1>1, <1>2, <1>3, <1>4

\* The current record of an enqueuer has its place in the queue.
LEMMA SlotType ==
  ASSUME TypeOK, NEW p \in Enqueuers, HasRecord(p)
  PROVE  /\ CurrentRecord(p) \in EventRecord
         /\ Slot(p) \in Slots
         /\ SlotOf(CurrentRecord(p)) = Slot(p)
<1>1. batch[p] \in Seq(EventRecord) /\ position[p] \in 1..Len(batch[p])
  BY DEF TypeOK, HasRecord
<1>2. CurrentRecord(p) \in EventRecord
  BY <1>1 DEF CurrentRecord
<1>3. SafeId[CurrentRecord(p).key] \in Names
  BY <1>2 DEF HasRecord, EventRecord
<1>4. QED BY <1>2, <1>3, StateAdmits DEF Slot, SlotOf, Slots

-----------------------------------------------------------------------------
(* What a step must do to preserve the invariant. *)

\* A step on the file of the current record that leaves in it what was there,
\* or that record, or nothing readable, and never removes the target.
LEMMA FileStep ==
  ASSUME IInv, NEW p \in Enqueuers, HasRecord(p), NEW file \in File,
         files' = [files EXCEPT ![Slot(p)] = file],
         \A content \in {file.target, file.tmp} : content \in
           {files[Slot(p)].target, files[Slot(p)].tmp, CurrentRecord(p), Torn, Nothing},
         Present(Slot(p)) => file.target # Nothing
  PROVE  /\ files' \in [Slots -> File]
         /\ Filed'
         /\ \A slot \in Slots : Present(slot) => Present(slot)'
<1>1. Slot(p) \in Slots /\ SlotOf(CurrentRecord(p)) = Slot(p)
  BY SlotType DEF IInv
<1>2. /\ files' \in [Slots -> File] /\ files'[Slot(p)] = file
      /\ \A slot \in Slots : slot # Slot(p) => files'[slot] = files[slot]
  BY <1>1 DEF IInv, TypeOK, File
<1>3. ASSUME NEW slot \in Slots
      PROVE  /\ \A content \in {files'[slot].target, files'[slot].tmp} :
                  content \in EventRecord => SlotOf(content) = slot
             /\ Present(slot) => files'[slot].target # Nothing
  <2>1. CASE slot = Slot(p)
    BY <1>1, <1>2, <2>1 DEF IInv, Filed
  <2>2. CASE slot # Slot(p)
    BY <1>2, <2>2 DEF IInv, Filed, Present
  <2>3. QED BY <2>1, <2>2
<1>4. QED BY <1>2, <1>3 DEF Filed, Present

\* A step of one process that keeps the position of all.
LEMMA Frame ==
  ASSUME IInv, TypeOK', NEW p \in Processes, NEW label, Goto(p, label),
         batch' = batch, position' = position,
         p \in Enqueuers /\ label \in Busy => HasRecord(p),
         p \in Enqueuers /\ label = "audit" => Present(Slot(p))',
         \A slot \in Slots : Present(slot) => Present(slot)',
         Filed', ReplaysFiled', AuditedIsPresent'
  PROVE  IInv'
<1>1. /\ pc'[p] = label
      /\ \A q \in Processes \ {p} : pc'[q] = pc[q]
  BY DEF Goto, IInv, TypeOK
<1>2. \A q \in Enqueuers : HasRecord(q)' = HasRecord(q) /\ Slot(q)' = Slot(q)
  BY DEF HasRecord, Slot, CurrentRecord, SlotOf
<1>3. InBatch'
  BY <1>1, <1>2 DEF IInv, InBatch, Processes
<1>4. Renamed'
  <2> SUFFICES ASSUME NEW q \in Enqueuers, pc'[q] = "audit"  PROVE Present(Slot(q))'
    BY DEF Renamed
  <2>1. CASE q = p
    BY <1>1, <2>1
  <2>2. CASE q # p
    <3>1. pc[q] = "audit" /\ Present(Slot(q))
      BY <1>1, <2>2 DEF IInv, Renamed, Processes
    <3>2. Slot(q) \in Slots
      BY <3>1, SlotType DEF IInv, InBatch, Busy
    <3>3. Present(Slot(q)) => files'[Slot(q)].target # Nothing
      BY <3>2 DEF Present
    <3>4. QED BY <1>2, <3>1, <3>3 DEF Present
  <2>3. QED BY <2>1, <2>2
<1>5. QED BY <1>3, <1>4 DEF IInv

\* The same for a step that leaves files, audit log and replays alone.
LEMMA QuietStep ==
  ASSUME IInv, TypeOK', NEW p \in Processes, NEW label, Goto(p, label),
         batch' = batch, position' = position, files' = files, audit' = audit,
         replayed' = replayed,
         p \in Enqueuers /\ label \in Busy => HasRecord(p),
         p \in Enqueuers /\ label = "audit" => Present(Slot(p))
  PROVE  IInv'
<1>1. \A slot : Present(slot)' = Present(slot)
  BY DEF Present
<1>2. Filed' /\ ReplaysFiled' /\ AuditedIsPresent'
  BY <1>1 DEF IInv, Filed, ReplaysFiled, AuditedIsPresent
<1>3. Present(Slot(p))' = Present(Slot(p))
  BY DEF Present, Slot, SlotOf, CurrentRecord
<1>4. QED BY <1>1, <1>2, <1>3, Frame

-----------------------------------------------------------------------------
(* The steps. *)

\* No step of any command moves a record to another slot or removes one.
LEMMA FilesNext ==
  ASSUME IInv, [Next]_vars
  PROVE  /\ files' \in [Slots -> File]
         /\ Filed'
         /\ \A slot \in Slots : Present(slot) => Present(slot)'
<1>0. TypeOK /\ InBatch /\ Filed
  BY DEF IInv
<1>1. CASE files' = files
  BY <1>0, <1>1 DEF TypeOK, File, Filed, Present
<1>2. ASSUME NEW p \in Enqueuers, pc[p] \in Busy
      PROVE  HasRecord(p) /\ files[Slot(p)] \in File /\ CurrentRecord(p) \in EventRecord
  BY <1>0, <1>2, SlotType DEF InBatch, TypeOK, File
<1>3. ASSUME NEW p \in Enqueuers, OpenRecord(p)
      PROVE  /\ files' \in [Slots -> File] /\ Filed'
             /\ \A slot \in Slots : Present(slot) => Present(slot)'
  <2>1. HasRecord(p) /\ files[Slot(p)] \in File
    BY <1>2, <1>3 DEF OpenRecord, Busy
  <2>2. QED BY <1>3, <2>1, OpenedFile, FileStep DEF OpenRecord, File, Present
<1>4. ASSUME NEW p \in Enqueuers, WriteRecord(p)
      PROVE  /\ files' \in [Slots -> File] /\ Filed'
             /\ \A slot \in Slots : Present(slot) => Present(slot)'
  <2>1. /\ HasRecord(p) /\ files[Slot(p)] \in File /\ CurrentRecord(p) \in EventRecord
    BY <1>2, <1>4 DEF WriteRecord, Busy
  <2>2. PICK file \in Written(files[Slot(p)], p, CurrentRecord(p)) :
          files' = [files EXCEPT ![Slot(p)] = file]
    BY <1>4 DEF WriteRecord
  <2>3. /\ file \in File
        /\ file.target \in {files[Slot(p)].target, CurrentRecord(p), Torn}
        /\ file.tmp \in {files[Slot(p)].tmp, CurrentRecord(p), Torn}
    BY <2>1, <2>2, WrittenFile DEF File
  <2>4. Present(Slot(p)) => file.target # Nothing
    BY <2>1, <2>3 DEF Present
  <2>5. QED BY <2>1, <2>2, <2>3, <2>4, FileStep
<1>5. ASSUME NEW p \in Enqueuers, ReplaceRecord(p), files' # files
      PROVE  /\ files' \in [Slots -> File] /\ Filed'
             /\ \A slot \in Slots : Present(slot) => Present(slot)'
  <2>1. HasRecord(p) /\ files[Slot(p)] \in File
    BY <1>2, <1>5 DEF ReplaceRecord, Busy
  <2>2. /\ files' = [files EXCEPT ![Slot(p)] = Replaced(files[Slot(p)])]
        /\ files[Slot(p)].tmp # Nothing
    BY <1>5 DEF ReplaceRecord
  <2>3. QED BY <2>1, <2>2, ReplacedFileContents, FileStep DEF File
<1>6. ASSUME NEW p \in Processes, Crash(p), files' # files
      PROVE  /\ files' \in [Slots -> File] /\ Filed'
             /\ \A slot \in Slots : Present(slot) => Present(slot)'
  <2>1. pc[p] = "write" /\ files' = [files EXCEPT ![Slot(p)] = Abandoned(files[Slot(p)], p)]
    BY <1>6 DEF Crash
  <2>2. p \in Enqueuers
    BY <1>0, <2>1 DEF TypeOK, Processes, ReplayerPcs, InitPcs, Ended
  <2>3. HasRecord(p) /\ files[Slot(p)] \in File
    BY <1>2, <2>1, <2>2 DEF Busy
  <2>4. QED BY <2>1, <2>2, <2>3, AbandonedFile, FileStep DEF File, Present
<1>7. CASE UNCHANGED vars
  BY <1>1, <1>7 DEF vars
<1>8. ASSUME NEW p \in Processes, InitStep(p), ~Crash(p)  PROVE files' = files
  BY <1>8 DEF InitStep, CheckAudit, CreateAudit, CheckManifest, OpenManifest, WriteManifest,
              ReadManifest
<1>9. ASSUME NEW p \in Enqueuers, EnqueueStep(p),
             ~OpenRecord(p), ~WriteRecord(p), ~ReplaceRecord(p)
      PROVE  files' = files
  BY <1>9 DEF EnqueueStep, RejectKey, CheckRecord, AppendAudit, Finish
<1>10. ASSUME NEW r \in Replayers, ReplayStep(r)  PROVE files' = files
  BY <1>10 DEF ReplayStep, ListState, ReadListed, EmitReplay
<1>11. QED
  BY <1>1, <1>3, <1>4, <1>5, <1>6, <1>7, <1>8, <1>9, <1>10 DEF Next

-----------------------------------------------------------------------------
(* Type correctness. *)

\* The parts of TypeOK: the labels, what enqueuers have, what replayers have,
\* and the rest but for the files.
PcTypeOK ==
  /\ pc \in [Processes -> EnqueuerPcs \union ReplayerPcs]
  /\ \A p \in Enqueuers : pc[p] \in EnqueuerPcs
  /\ \A r \in Replayers : pc[r] \in ReplayerPcs

EnqueueTypeOK ==
  /\ position \in [Enqueuers -> Nat]
  /\ \A p \in Enqueuers : position[p] \in 1..(Len(batch[p]) + 1)
  /\ status \in [Enqueuers -> Statuses]

ReplayTypeOK ==
  /\ listed \in [Replayers -> SUBSET Names]
  /\ replayed \in [Replayers -> [Names -> EventRecord \union {Nothing}]]
  /\ presentBefore \in [Replayers -> SUBSET Names]

LogTypeOK ==
  /\ audit \in [Statuses \X Slots -> Nat]
  /\ auditMade \in BOOLEAN
  /\ manifest \in {Nothing, Torn, "made"}
  /\ faults \in 0..MaxFaults

\* These parts and the types of the files make up TypeOK.
LEMMA TypeParts ==
  TypeOK <=> /\ PcTypeOK /\ EnqueueTypeOK /\ ReplayTypeOK /\ LogTypeOK
             /\ oneAtATime \in BOOLEAN /\ batch \in Workloads /\ files \in [Slots -> File]
BY DEF TypeOK, PcTypeOK, EnqueueTypeOK, ReplayTypeOK, LogTypeOK, File

\* A jump to a label that the process has.
LEMMA GotoType ==
  ASSUME PcTypeOK, NEW p \in Processes, NEW label, Goto(p, label),
         p \in Enqueuers => label \in EnqueuerPcs,
         p \in Replayers => label \in ReplayerPcs
  PROVE  PcTypeOK'
BY DEF PcTypeOK, Goto, Processes

\* Every step keeps the types.
LEMMA TypeNext == IInv /\ [Next]_vars => TypeOK'
<1> SUFFICES ASSUME IInv, [Next]_vars  PROVE TypeOK'
  OBVIOUS
<1> USE DEF initVars, enqueueVars, replayVars
<1>0. /\ PcTypeOK /\ EnqueueTypeOK /\ ReplayTypeOK /\ LogTypeOK
      /\ oneAtATime' \in BOOLEAN /\ batch' \in Workloads /\ batch' = batch
      /\ files' \in [Slots -> File]
  BY TypeParts, FilesNext DEF IInv, Next, vars, scenarioVars
<1>1. ASSUME NEW p \in Processes, InitStep(p)  PROVE TypeOK'
  <2>1. PICK label \in InitPcs \union {"next", "list"} :
          /\ Goto(p, label)
          /\ p \in Enqueuers => label # "list"
          /\ p \in Replayers => label # "next"
    BY <1>1 DEF InitStep, CheckAudit, CreateAudit, CheckManifest, OpenManifest, WriteManifest,
                ReadManifest, Crash, InitPcs, Ended
  <2>2. PcTypeOK'
    BY <1>0, <2>1, GotoType DEF EnqueuerPcs, ReplayerPcs
  <2>3. EnqueueTypeOK'
    BY <1>0, <1>1 DEF InitStep, CheckAudit, CreateAudit, CheckManifest, OpenManifest,
                      WriteManifest, ReadManifest, Crash, EnqueueTypeOK
  <2>4. ReplayTypeOK'
    <3>1. CASE CheckAudit(p)
      <4>1. PresentNames \in SUBSET Names
        BY DEF PresentNames
      <4>2. presentBefore' \in [Replayers -> SUBSET Names]
        BY <1>0, <3>1, <4>1 DEF CheckAudit, ReplayTypeOK
      <4>3. QED BY <1>0, <3>1, <4>2 DEF CheckAudit, ReplayTypeOK
    <3>2. CASE ~CheckAudit(p)
      BY <1>0, <1>1, <3>2 DEF InitStep, CreateAudit, CheckManifest, OpenManifest, WriteManifest,
                              ReadManifest, Crash, ReplayTypeOK
    <3>3. QED BY <3>1, <3>2
  <2>5. LogTypeOK'
    <3>1. CASE CreateAudit(p)
      <4>1. EmptyAudit \in [Statuses \X Slots -> Nat]
        BY DEF EmptyAudit
      <4>2. QED BY <1>0, <3>1, <4>1 DEF CreateAudit, LogTypeOK
    <3>2. CASE OpenManifest(p) \/ WriteManifest(p)
      BY <1>0, <3>2 DEF OpenManifest, WriteManifest, LogTypeOK
    <3>3. CASE Crash(p)
      BY <1>0, <3>3 DEF Crash, LogTypeOK
    <3>4. CASE CheckAudit(p) \/ CheckManifest(p) \/ ReadManifest(p)
      BY <1>0, <3>4 DEF CheckAudit, CheckManifest, ReadManifest, LogTypeOK
    <3>5. QED BY <1>1, <3>1, <3>2, <3>3, <3>4 DEF InitStep
  <2>6. QED
    BY <1>0, <2>2, <2>3, <2>4, <2>5 DEF TypeOK, PcTypeOK,
        EnqueueTypeOK, ReplayTypeOK, LogTypeOK, File
<1>2. ASSUME NEW p \in Enqueuers, EnqueueStep(p)  PROVE TypeOK'
  <2>1. PICK label \in EnqueuerPcs : Goto(p, label)
    BY <1>2 DEF EnqueueStep, RejectKey, CheckRecord, OpenRecord, WriteRecord, ReplaceRecord,
                AppendAudit, Finish, EnqueuerPcs, InitPcs, Ended
  <2>2. PcTypeOK'
    BY <1>0, <2>1, GotoType DEF Processes
  <2>3. ReplayTypeOK'
    BY <1>0, <1>2 DEF EnqueueStep, RejectKey, CheckRecord, OpenRecord, WriteRecord,
                      ReplaceRecord, AppendAudit, Finish, ReplayTypeOK
  <2>4. EnqueueTypeOK' /\ LogTypeOK'
    <3>1. CASE AppendAudit(p)
      <4>1. HasRecord(p)
        BY <3>1 DEF AppendAudit, IInv, InBatch, Busy
      <4>2. /\ position[p] \in Nat /\ position[p] >= 1 /\ Len(batch[p]) \in Nat
            /\ position[p] <= Len(batch[p])
        BY <1>0, <4>1 DEF EnqueueTypeOK, HasRecord, IInv, TypeOK
      <4>3. position' = [position EXCEPT ![p] = position[p] + 1] /\ status' = status
        BY <3>1 DEF AppendAudit
      <4>4. EnqueueTypeOK'
        BY <1>0, <4>2, <4>3 DEF EnqueueTypeOK
      <4>5. <<status[p], Slot(p)>> \in Statuses \X Slots
        BY <1>0, <4>1, SlotType DEF EnqueueTypeOK, IInv
      <4>6. audit[<<status[p], Slot(p)>>] + 1 \in Nat
        BY <1>0, <4>5 DEF LogTypeOK
      <4>7. QED BY <1>0, <3>1, <4>4, <4>6 DEF AppendAudit, LogTypeOK
    <3>2. CASE ~AppendAudit(p)
      BY <1>0, <1>2, <3>2 DEF EnqueueStep, RejectKey, CheckRecord, OpenRecord, WriteRecord,
                              ReplaceRecord, Finish, EnqueueTypeOK, LogTypeOK, Statuses
    <3>3. QED BY <3>1, <3>2
  <2>5. QED
    BY <1>0, <2>2, <2>3, <2>4 DEF TypeOK, PcTypeOK,
        EnqueueTypeOK, ReplayTypeOK, LogTypeOK, File
<1>3. ASSUME NEW r \in Replayers, ReplayStep(r)  PROVE TypeOK'
  <2>1. EnqueueTypeOK' /\ LogTypeOK'
    BY <1>0, <1>3 DEF ReplayStep, ListState, ReadListed, EmitReplay, EnqueueTypeOK, LogTypeOK
  <2>2. PcTypeOK'
    <3>1. CASE pc' = pc
      BY <1>0, <3>1 DEF PcTypeOK
    <3>2. CASE pc' # pc
      <4>1. PICK label \in ReplayerPcs : Goto(r, label)
        BY <1>3, <3>2 DEF ReplayStep, ListState, ReadListed, EmitReplay, ReplayerPcs, InitPcs,
                          Ended
      <4>2. QED BY <1>0, <4>1, GotoType DEF Processes
    <3>3. QED BY <3>1, <3>2
  <2>3. ReplayTypeOK'
    <3>1. CASE ListState(r)
      <4>1. PresentNames \in SUBSET Names
        BY DEF PresentNames
      <4>2. listed' \in [Replayers -> SUBSET Names]
        BY <1>0, <3>1, <4>1 DEF ListState, ReplayTypeOK
      <4>3. QED BY <1>0, <3>1, <4>2 DEF ListState, ReplayTypeOK
    <3>2. CASE ReadListed(r)
      <4>1. PICK name \in listed[r] :
              IF files[<<ReplayState, name>>].target = Torn
              THEN UNCHANGED <<listed, replayed>>
              ELSE /\ listed' = [listed EXCEPT ![r] = @ \ {name}]
                   /\ replayed' = [replayed EXCEPT ![r][name] =
                                     files[<<ReplayState, name>>].target]
        BY <3>2 DEF ReadListed
      <4>2. name \in Names /\ <<ReplayState, name>> \in Slots
        BY <1>0 DEF ReplayTypeOK, Slots
      <4>3. files[<<ReplayState, name>>].target \in EventRecord \union {Nothing, Torn}
        BY <4>2 DEF IInv, TypeOK, FileOf, Contents
      <4>4. CASE files[<<ReplayState, name>>].target = Torn
        BY <1>0, <3>2, <4>1, <4>4 DEF ReadListed, ReplayTypeOK
      <4>5. CASE files[<<ReplayState, name>>].target # Torn
        <5>1. listed' \in [Replayers -> SUBSET Names]
          <6>1. listed[r] \ {name} \in SUBSET Names
            BY <1>0 DEF ReplayTypeOK
          <6>2. listed' = [listed EXCEPT ![r] = listed[r] \ {name}]
            BY <4>1, <4>5
          <6>3. QED BY <1>0, <6>1, <6>2 DEF ReplayTypeOK
        <5>2. replayed' \in [Replayers -> [Names -> EventRecord \union {Nothing}]]
          <6> DEFINE content == files[<<ReplayState, name>>].target
          <6>1. content \in EventRecord \union {Nothing}
            BY <4>3, <4>5
          <6>2. replayed' = [replayed EXCEPT ![r] = [replayed[r] EXCEPT ![name] = content]]
            BY <4>1, <4>5
          <6>3. [replayed[r] EXCEPT ![name] = content] \in [Names -> EventRecord \union {Nothing}]
            BY <1>0, <6>1 DEF ReplayTypeOK
          <6>4. QED BY <1>0, <6>2, <6>3 DEF ReplayTypeOK
        <5>3. QED BY <1>0, <3>2, <5>1, <5>2 DEF ReadListed, ReplayTypeOK
      <4>6. QED BY <4>4, <4>5
    <3>3. CASE EmitReplay(r)
      BY <1>0, <3>3 DEF EmitReplay, ReplayTypeOK
    <3>4. QED BY <1>3, <3>1, <3>2, <3>3 DEF ReplayStep
  <2>4. QED
    BY <1>0, <2>1, <2>2, <2>3 DEF TypeOK, PcTypeOK,
        EnqueueTypeOK, ReplayTypeOK, LogTypeOK, File
<1>4. CASE UNCHANGED vars
  BY <1>0, <1>4
  DEF vars, TypeOK, PcTypeOK, EnqueueTypeOK, ReplayTypeOK, LogTypeOK, File
<1>5. QED BY <1>1, <1>2, <1>3, <1>4 DEF Next

-----------------------------------------------------------------------------
(* The invariant. *)

\* An empty queue satisfies the invariant.
LEMMA InvInit == Init => IInv
<1> SUFFICES ASSUME Init  PROVE IInv
  OBVIOUS
<1>1. FileWith(Nothing, Enqueuers) \in File
  BY DEF File, FileWith, FileOf, Contents, Descriptors
<1>2. FileWith(Nothing, Enqueuers).target = Nothing /\ FileWith(Nothing, Enqueuers).tmp = Nothing
  BY DEF FileWith
<1>3. Nothing \notin EventRecord
  OBVIOUS
<1>4. PcTypeOK /\ EnqueueTypeOK
  BY DEF Init, PcTypeOK, EnqueueTypeOK, EnqueuerPcs, ReplayerPcs, InitPcs, Statuses, Processes
<1>5. ReplayTypeOK /\ LogTypeOK
  <2>1. [name \in Names |-> Nothing] \in [Names -> EventRecord \union {Nothing}]
    OBVIOUS
  <2>2. ReplayTypeOK
    BY <2>1 DEF Init, ReplayTypeOK
  <2>3. EmptyAudit \in [Statuses \X Slots -> Nat]
    BY DEF EmptyAudit
  <2>4. audit = EmptyAudit /\ auditMade = FALSE /\ manifest = Nothing /\ faults = 0
    BY DEF Init
  <2>5. 0 \in 0..MaxFaults
    OBVIOUS
  <2>6. QED BY <2>2, <2>3, <2>4, <2>5 DEF LogTypeOK
<1>6. TypeOK
  BY <1>1, <1>4, <1>5, TypeParts DEF Init
<1>7. Filed /\ ReplaysFiled
  BY <1>2, <1>3 DEF Init, Filed, ReplaysFiled
<1>8. InBatch /\ Renamed
  BY DEF Init, InBatch, Renamed, Busy, Processes
<1>9. AuditedIsPresent
  BY DEF Init, AuditedIsPresent, EmptyAudit
<1>10. QED BY <1>6, <1>7, <1>8, <1>9 DEF IInv

\* Presence outlives every step, and so does what the audit log says of it.
LEMMA AuditNext ==
  ASSUME IInv, [Next]_vars, audit' = audit  PROVE AuditedIsPresent'
BY FilesNext DEF IInv, AuditedIsPresent

\* Every step preserves the invariant.
LEMMA InvNext == IInv /\ [Next]_vars => IInv'
<1> SUFFICES ASSUME IInv, [Next]_vars  PROVE IInv'
  OBVIOUS
<1> USE DEF initVars, enqueueVars, replayVars
<1>0. /\ TypeOK' /\ Filed' /\ batch' = batch
      /\ \A slot \in Slots : Present(slot) => Present(slot)'
  BY TypeNext, FilesNext DEF Next, vars, scenarioVars
<1>1. ASSUME NEW p \in Processes, InitStep(p)  PROVE IInv'
  <2>1. PICK label \in InitPcs \union {"next", "list"} : Goto(p, label)
    BY <1>1 DEF InitStep, CheckAudit, CreateAudit, CheckManifest, OpenManifest, WriteManifest,
                ReadManifest, Crash, InitPcs, Ended
  <2>2. position' = position /\ replayed' = replayed
    BY <1>1 DEF InitStep, CheckAudit, CreateAudit, CheckManifest, OpenManifest, WriteManifest,
                ReadManifest, Crash
  <2>3. label \notin Busy
    BY DEF InitPcs, Busy, Ended
  <2>4. label # "audit"
    BY <2>3 DEF Busy
  <2>5. AuditedIsPresent'
    <3>1. CASE CreateAudit(p)
      BY <3>1 DEF CreateAudit, AuditedIsPresent, EmptyAudit
    <3>2. CASE ~CreateAudit(p)
      <4>1. audit' = audit
        BY <1>1, <3>2 DEF InitStep, CheckAudit, CheckManifest, OpenManifest, WriteManifest,
                          ReadManifest, Crash
      <4>2. QED BY <4>1, AuditNext
    <3>3. QED BY <3>1, <3>2
  <2>6. ReplaysFiled'
    BY <2>2 DEF IInv, ReplaysFiled
  <2>7. QED BY <1>0, <2>1, <2>2, <2>3, <2>4, <2>5, <2>6, Frame
<1>2. ASSUME NEW p \in Enqueuers, EnqueueStep(p), ~AppendAudit(p)  PROVE IInv'
  <2>1. PICK label : Goto(p, label) /\ (label \in Busy => HasRecord(p))
    BY <1>2 DEF EnqueueStep, RejectKey, CheckRecord, OpenRecord, WriteRecord, ReplaceRecord,
                Finish, Busy, Ended, IInv, InBatch, HasRecord, Left
  <2>2. position' = position /\ replayed' = replayed /\ audit' = audit
    BY <1>2 DEF EnqueueStep, RejectKey, CheckRecord, OpenRecord, WriteRecord, ReplaceRecord, Finish
  <2>3. AuditedIsPresent' /\ ReplaysFiled'
    BY <2>2, AuditNext DEF IInv, ReplaysFiled
  <2>4. Slot(p)' = Slot(p)
    BY <1>0, <2>2 DEF Slot, SlotOf, CurrentRecord
  <2>5. label = "audit" => Present(Slot(p))'
    <3> SUFFICES ASSUME label = "audit"  PROVE Present(Slot(p))'
      OBVIOUS
    <3>1. HasRecord(p) /\ pc'[p] = "audit"
      BY <2>1 DEF Goto, IInv, TypeOK, Processes, Busy
    <3>2. Slot(p) \in Slots
      BY <3>1, SlotType DEF IInv
    <3>3. CASE CheckRecord(p)
      <4>1. Present(Slot(p))
        BY <2>1, <3>1, <3>3 DEF CheckRecord, Goto, IInv, TypeOK, Processes
      <4>2. QED BY <1>0, <2>4, <3>2, <4>1 DEF Present
    <3>4. CASE ReplaceRecord(p)
      <4>1. files[Slot(p)].tmp # Nothing /\ files' = [files EXCEPT ![Slot(p)] = Replaced(@)]
        BY <3>1, <3>4 DEF ReplaceRecord, Goto, IInv, TypeOK, Processes
      <4>2. files[Slot(p)] \in File
        BY <3>2 DEF IInv, TypeOK, File
      <4>3. files'[Slot(p)].target # Nothing
        BY <3>2, <4>1, <4>2, ReplacedFileContents DEF IInv, TypeOK, File
      <4>4. QED BY <2>4, <4>3 DEF Present
    <3>5. CASE RejectKey(p) \/ OpenRecord(p) \/ WriteRecord(p) \/ Finish(p)
      BY <3>1, <3>5 DEF RejectKey, OpenRecord, WriteRecord, Finish, Goto, IInv, TypeOK, Processes
    <3>6. QED BY <1>2, <3>3, <3>4, <3>5 DEF EnqueueStep
  <2>6. QED BY <1>0, <2>1, <2>2, <2>3, <2>5, Frame DEF Processes
<1>3. ASSUME NEW p \in Enqueuers, AppendAudit(p)  PROVE IInv'
  <2>1. /\ pc[p] = "audit" /\ Goto(p, "next") /\ files' = files /\ replayed' = replayed
        /\ position' = [position EXCEPT ![p] = position[p] + 1]
        /\ audit' = [audit EXCEPT ![<<status[p], Slot(p)>>] = @ + 1]
    BY <1>3 DEF AppendAudit
  <2>2. HasRecord(p) /\ Slot(p) \in Slots /\ Present(Slot(p))
    BY <2>1, SlotType DEF IInv, InBatch, Busy, Renamed
  <2>3. AuditedIsPresent'
    <3> SUFFICES ASSUME NEW action \in Statuses, NEW slot \in Slots, audit'[<<action, slot>>] > 0
                 PROVE  Present(slot)'
      BY DEF AuditedIsPresent
    <3>1. CASE slot = Slot(p)
      BY <2>1, <2>2, <3>1 DEF Present
    <3>2. CASE slot # Slot(p)
      <4>1. audit'[<<action, slot>>] = audit[<<action, slot>>]
        BY <2>1, <3>2 DEF IInv, TypeOK
      <4>2. QED BY <2>1, <4>1 DEF IInv, AuditedIsPresent, Present
    <3>3. QED BY <3>1, <3>2
  <2>4. ReplaysFiled'
    BY <2>1 DEF IInv, ReplaysFiled
  <2>5. \A q \in Enqueuers : pc'[q] \in Busy =>
          /\ q # p /\ pc[q] = pc'[q]
          /\ HasRecord(q)' = HasRecord(q) /\ Slot(q)' = Slot(q)
    BY <1>0, <2>1
    DEF Goto, IInv, TypeOK, Processes, Busy, HasRecord, Slot, SlotOf, CurrentRecord
  <2>6. InBatch'
    BY <2>5 DEF IInv, InBatch
  <2>7. Renamed'
    BY <2>1, <2>5 DEF IInv, Renamed, Busy, Present
  <2>8. QED BY <1>0, <2>3, <2>4, <2>6, <2>7 DEF IInv
<1>4. ASSUME NEW r \in Replayers, ReplayStep(r)  PROVE IInv'
  <2>1. r \notin Enqueuers /\ r \in Processes
    BY DEF Processes
  <2>2. PICK label : Goto(r, label)
    <3>1. pc = [pc EXCEPT ![r] = pc[r]]
      BY DEF IInv, TypeOK
    <3>2. QED BY <1>4, <3>1 DEF ReplayStep, ListState, ReadListed, EmitReplay, Goto
  <2>3. position' = position /\ audit' = audit
    BY <1>4 DEF ReplayStep, ListState, ReadListed, EmitReplay
  <2>4. ReplaysFiled'
    <3>1. CASE replayed' = replayed
      BY <3>1 DEF IInv, ReplaysFiled
    <3>2. CASE replayed' # replayed
      <4>1. PICK name \in listed[r] :
              replayed' = [replayed EXCEPT ![r] =
                [replayed[r] EXCEPT ![name] = files[<<ReplayState, name>>].target]]
        BY <1>4, <3>2 DEF ReplayStep, ListState, ReadListed, EmitReplay
      <4>2. name \in Names /\ <<ReplayState, name>> \in Slots
        BY DEF IInv, TypeOK, Slots
      <4>3. files[<<ReplayState, name>>].target \in EventRecord
              => StateOf(files[<<ReplayState, name>>].target) = ReplayState
        BY <4>2 DEF IInv, Filed, SlotOf
      <4>4. QED BY <4>1, <4>2, <4>3 DEF IInv, TypeOK, ReplaysFiled
    <3>3. QED BY <3>1, <3>2
  <2>5. QED BY <1>0, <2>1, <2>2, <2>3, <2>4, AuditNext, Frame
<1>5. CASE UNCHANGED vars
  <2>1. \A p \in Enqueuers : HasRecord(p)' = HasRecord(p) /\ Slot(p)' = Slot(p)
    BY <1>5 DEF vars, scenarioVars, HasRecord, Slot, SlotOf, CurrentRecord
  <2>2. QED
    BY <1>0, <1>5, <2>1, AuditNext
    DEF vars, IInv, InBatch, ReplaysFiled, Renamed, Present
<1>6. QED BY <1>1, <1>2, <1>3, <1>4, <1>5 DEF Next

\* The types, and the invariant behind the other theorems.
THEOREM TypeCorrect == Spec => []TypeOK
<1>1. IInv => TypeOK
  BY DEF IInv
<1>2. QED BY <1>1, InvInit, InvNext, PTL DEF Spec

\* No race and no crash puts a record where validate_event_record does not
\* send it, or lets a replay hold one that does not belong to its state.
THEOREM QueueHoldsAdmitted == Spec => []OnlyAdmitted
<1>1. IInv => OnlyAdmitted
  <2> SUFFICES ASSUME IInv  PROVE OnlyAdmitted
    OBVIOUS
  <2>1. ASSUME NEW state \in QueueStates, NEW name \in Names,
               files[<<state, name>>].target \in EventRecord
        PROVE  /\ Admissible(state, files[<<state, name>>].target)
               /\ SafeId[files[<<state, name>>].target.key] = name
    <3>1. SlotOf(files[<<state, name>>].target) = <<state, name>>
      BY <2>1 DEF IInv, Filed, Slots
    <3>2. QED BY <2>1, <3>1, StateAdmits DEF SlotOf
  <2>2. ASSUME NEW r \in Replayers, NEW name \in Names, replayed[r][name] # Nothing
        PROVE  Admissible(ReplayState, replayed[r][name])
    <3>1. replayed[r][name] \in EventRecord
      BY <2>2 DEF IInv, TypeOK
    <3>2. StateOf(replayed[r][name]) = ReplayState
      BY <3>1 DEF IInv, ReplaysFiled
    <3>3. QED BY <3>1, <3>2, StateAdmits
  <2>3. QED BY <2>1, <2>2 DEF OnlyAdmitted
<1>2. QED BY <1>1, InvInit, InvNext, PTL DEF Spec

\* What the audit log names is in the queue, for ever.
THEOREM AuditIsBacked == Spec => []AuditedIsPresent
<1>1. IInv => AuditedIsPresent
  BY DEF IInv
<1>2. QED BY <1>1, InvInit, InvNext, PTL DEF Spec

-----------------------------------------------------------------------------
(* Replays. *)

\* What a replayer has yet to read is there, and what was there when it started
\* it has read or has yet to read.
ReplayInvOf(r) ==
  /\ \A name \in presentBefore[r] \union listed[r] : Present(<<ReplayState, name>>)
  /\ pc[r] \in {"read", "done"} =>
       \A name \in presentBefore[r] : name \in listed[r] \/ replayed[r][name] # Nothing
  /\ pc[r] = "done" => listed[r] = {}

ReplayInv == \A r \in Replayers : ReplayInvOf(r)

\* The presence of what replayers know outlives every step.
LEMMA StaysPresent ==
  ASSUME IInv, [Next]_vars, NEW name \in Names, Present(<<ReplayState, name>>)
  PROVE  Present(<<ReplayState, name>>)'
<1>1. <<ReplayState, name>> \in Slots
  BY DEF Slots
<1>2. Present(<<ReplayState, name>>) => files'[<<ReplayState, name>>].target # Nothing
  BY <1>1, FilesNext DEF Present
<1>3. QED BY <1>2 DEF Present

\* A step that a replayer does not take, and one before it reads, leave what it
\* has found.
LEMMA ReplayFrame ==
  ASSUME IInv, ReplayInv, [Next]_vars, NEW r \in Replayers,
         pc'[r] = pc[r] \/ pc'[r] \notin {"read", "done"},
         listed' = listed \/ listed'[r] = listed[r],
         replayed' = replayed \/ replayed'[r] = replayed[r],
         presentBefore' = presentBefore \/ presentBefore'[r] = presentBefore[r]
  PROVE  ReplayInvOf(r)'
<1>1. \A name \in presentBefore[r] \union listed[r] : name \in Names
  BY DEF IInv, TypeOK
<1>2. \A name \in presentBefore[r] \union listed[r] : Present(<<ReplayState, name>>)'
  BY <1>1, StaysPresent DEF ReplayInv, ReplayInvOf
<1>3. QED BY <1>2 DEF ReplayInv, ReplayInvOf, Present

\* Every step preserves what is known of replays.
LEMMA ReplayNext == IInv /\ ReplayInv /\ [Next]_vars => ReplayInv'
<1> SUFFICES ASSUME IInv, ReplayInv, [Next]_vars, NEW r \in Replayers
             PROVE  ReplayInvOf(r)'
  BY DEF ReplayInv
<1> USE DEF initVars, enqueueVars, replayVars
<1>0. TypeOK /\ r \in Processes /\ ReplayInvOf(r)
  BY DEF IInv, ReplayInv, Processes
<1>1. CASE CheckAudit(r)
  <2>1. /\ presentBefore'[r] = PresentNames /\ listed' = listed
        /\ pc'[r] \in {"check-manifest", "create-audit"}
    BY <1>0, <1>1 DEF CheckAudit, Goto, TypeOK
  <2>2. \A name \in PresentNames \union listed[r] :
          name \in Names /\ Present(<<ReplayState, name>>)
    BY <1>0 DEF PresentNames, ReplayInvOf, TypeOK
  <2>3. QED BY <2>1, <2>2, StaysPresent DEF ReplayInvOf, Present
<1>2. CASE InitStep(r) /\ ~CheckAudit(r)
  <2>1. UNCHANGED replayVars /\ pc'[r] \notin {"read", "done"}
    BY <1>0, <1>2 DEF InitStep, CreateAudit, CheckManifest, OpenManifest, WriteManifest,
                      ReadManifest, Crash, Goto, TypeOK
  <2>2. QED BY <2>1, ReplayFrame
<1>3. CASE ListState(r) /\ manifest = Torn
  <2>1. UNCHANGED replayVars /\ pc'[r] = "failed"
    BY <1>0, <1>3 DEF ListState, Goto, TypeOK
  <2>2. QED BY <2>1, ReplayFrame
<1>4. CASE ListState(r) /\ manifest # Torn
  <2>1. /\ files' = files /\ listed'[r] = PresentNames /\ pc'[r] = "read"
        /\ presentBefore' = presentBefore
    BY <1>0, <1>4 DEF ListState, Goto, TypeOK
  <2>2. \A name \in presentBefore[r] \union PresentNames :
          name \in PresentNames /\ Present(<<ReplayState, name>>)
    BY <1>0 DEF PresentNames, ReplayInvOf, TypeOK
  <2>3. QED BY <2>1, <2>2 DEF ReplayInvOf, Present
<1>5. CASE ReadListed(r)
  <2>1. PICK name \in listed[r] :
          IF files[<<ReplayState, name>>].target = Torn
          THEN Goto(r, "failed") /\ UNCHANGED <<listed, replayed>>
          ELSE /\ listed' = [listed EXCEPT ![r] = @ \ {name}]
               /\ replayed' = [replayed EXCEPT ![r] =
                    [replayed[r] EXCEPT ![name] = files[<<ReplayState, name>>].target]]
               /\ UNCHANGED pc
    BY <1>5 DEF ReadListed
  <2>2. files' = files /\ presentBefore' = presentBefore /\ pc[r] = "read"
    BY <1>5 DEF ReadListed
  <2>3. CASE files[<<ReplayState, name>>].target = Torn
    <3>1. UNCHANGED replayVars /\ pc'[r] = "failed"
      BY <1>0, <2>1, <2>2, <2>3 DEF Goto, TypeOK
    <3>2. QED BY <3>1, ReplayFrame
  <2>4. CASE files[<<ReplayState, name>>].target # Torn
    <3>1. name \in Names /\ files[<<ReplayState, name>>].target # Nothing
      BY <1>0, <2>1 DEF ReplayInvOf, Present, TypeOK
    <3>2. /\ listed'[r] = listed[r] \ {name} /\ pc' = pc
          /\ replayed'[r] = [replayed[r] EXCEPT ![name] = files[<<ReplayState, name>>].target]
      BY <1>0, <2>1, <2>4 DEF TypeOK
    <3>3. replayed[r] \in [Names -> EventRecord \union {Nothing}] /\ presentBefore[r] \subseteq Names
      BY <1>0 DEF TypeOK
    <3>4. \A other \in presentBefore[r] : other \in listed'[r] \/ replayed'[r][other] # Nothing
      BY <1>0, <2>2, <3>1, <3>2, <3>3 DEF ReplayInvOf
    <3>5. QED BY <1>0, <2>2, <3>2, <3>4 DEF ReplayInvOf, Present
  <2>5. QED BY <2>3, <2>4
<1>6. CASE EmitReplay(r)
  <2>1. UNCHANGED replayVars /\ files' = files /\ pc[r] = "read" /\ listed[r] = {}
    BY <1>6 DEF EmitReplay
  <2>2. QED BY <1>0, <2>1 DEF ReplayInvOf, Present
<1>7. CASE ~InitStep(r) /\ ~ReplayStep(r)
  <2>1. ASSUME NEW p \in Processes, p # r, InitStep(p)  PROVE ReplayInvOf(r)'
    <3>1. pc'[r] = pc[r] /\ listed' = listed /\ replayed' = replayed
      BY <1>0, <2>1 DEF InitStep, CheckAudit, CreateAudit, CheckManifest, OpenManifest,
                        WriteManifest, ReadManifest, Crash, Goto, TypeOK
    <3>2. presentBefore'[r] = presentBefore[r]
      BY <1>0, <2>1 DEF InitStep, CheckAudit, CreateAudit, CheckManifest, OpenManifest,
                        WriteManifest, ReadManifest, Crash, TypeOK
    <3>3. QED BY <3>1, <3>2, ReplayFrame
  <2>2. ASSUME NEW p \in Enqueuers, EnqueueStep(p)  PROVE ReplayInvOf(r)'
    <3>1. p # r
      OBVIOUS
    <3>2. UNCHANGED replayVars /\ pc'[r] = pc[r]
      BY <1>0, <2>2, <3>1 DEF EnqueueStep, RejectKey, CheckRecord, OpenRecord, WriteRecord,
                              ReplaceRecord, AppendAudit, Finish, Goto, TypeOK
    <3>3. QED BY <3>2, ReplayFrame
  <2>3. ASSUME NEW q \in Replayers, q # r, ReplayStep(q)  PROVE ReplayInvOf(r)'
    <3>1. /\ presentBefore' = presentBefore /\ pc'[r] = pc[r]
          /\ listed'[r] = listed[r] /\ replayed'[r] = replayed[r]
      BY <1>0, <2>3 DEF ReplayStep, ListState, ReadListed, EmitReplay, Goto, TypeOK
    <3>2. QED BY <3>1, ReplayFrame
  <2>4. CASE UNCHANGED vars
    BY <2>4, ReplayFrame DEF vars
  <2>5. QED BY <1>7, <2>1, <2>2, <2>3, <2>4 DEF Next
<1>8. QED BY <1>1, <1>2, <1>3, <1>4, <1>5, <1>6, <1>7 DEF ReplayStep

\* However enqueuers race and die, a replay that ends lacks no record that was
\* in the queue when its command started.
THEOREM ReplaysCover == Spec => []ReplayCovers
<1>1. Init => ReplayInv
  BY DEF Init, ReplayInv, ReplayInvOf, Processes
<1>2. ReplayInv => ReplayCovers
  BY DEF ReplayInv, ReplayInvOf, ReplayCovers
<1>3. QED BY <1>1, <1>2, InvInit, InvNext, ReplayNext, PTL DEF Spec

-----------------------------------------------------------------------------
(* Commands that follow one another: the abstract queue, and the audit log. *)

Idle == {"start"} \union Ended

\* What an enqueuer that is alone knows of its record: nobody files another one
\* between the look and the rename, and the audit line is the first.
Holds(p) ==
  LET file == files[Slot(p)]
  IN  /\ pc[p] \in {"open", "write", "replace"} => status[p] = "queued" /\ ~Present(Slot(p))
      /\ pc[p] = "write" => EmptyTmp(file, p)
      /\ pc[p] = "replace" => file.tmp = CurrentRecord(p)
      /\ pc[p] = "audit" /\ status[p] = "queued" => audit[<<"queued", Slot(p)>>] = 0

\* Nothing is filed before the audit log has been made.
TurnInv ==
  oneAtATime =>
    /\ \A p, q \in Processes : pc[p] \notin Idle /\ pc[q] \notin Idle => p = q
    /\ \/ auditMade
       \/ /\ \A slot \in Slots : ~Present(slot)
          /\ \A p \in Processes : pc[p] \in {"create-audit"} \union Idle
    /\ \A p \in Processes : pc[p] = "create-audit" => ~auditMade
    /\ \A p \in Enqueuers : Holds(p)
    /\ \A slot \in Slots : audit[<<"queued", slot>>] <= 1

Unaudited(slot) == Present(slot) /\ audit[<<"queued", slot>>] = 0

\* An enqueuer is about to audit this record.
Underway(slot) ==
  \E p \in Enqueuers : pc[p] = "audit" /\ status[p] = "queued" /\ Slot(p) = slot

\* The records that nobody is going to audit as queued.
Forgotten == {slot \in Slots : Unaudited(slot) /\ ~Underway(slot)}

AccountInv ==
  oneAtATime => IsFiniteSet(Forgotten) /\ Cardinality(Forgotten) <= faults

\* What the readers of the queue see.
Seen == [slot \in Slots |-> files[slot].target]

SeenStep ==
  \/ Seen' = Seen
  \/ \E slot \in Slots, record \in EventRecord :
       Seen[slot] = Nothing /\ Seen' = [Seen EXCEPT ![slot] = record]

\* The process that takes a step is the one whose turn it is.
LEMMA OthersIdle ==
  ASSUME TypeOK, TurnInv, oneAtATime, NEW p \in Processes,
         \/ InitStep(p)
         \/ p \in Enqueuers /\ EnqueueStep(p)
         \/ p \in Replayers /\ ReplayStep(p)
  PROVE  \A q \in Processes \ {p} : pc[q] \in Idle
<1>1. CASE CheckAudit(p)
  BY <1>1 DEF CheckAudit, Idle
<1>2. CASE ~CheckAudit(p)
  <2>1. pc[p] \notin Idle
    BY <1>2
    DEF InitStep, CreateAudit, CheckManifest, OpenManifest, WriteManifest, ReadManifest, Crash,
        EnqueueStep, RejectKey, CheckRecord, OpenRecord, WriteRecord, ReplaceRecord, AppendAudit,
        Finish, ReplayStep, ListState, ReadListed, EmitReplay, Idle, Ended, Left
  <2>2. QED BY <2>1 DEF TurnInv
<1>3. QED BY <1>1, <1>2

\* What a step of the one process has to see to.
LEMMA TurnStep ==
  ASSUME TypeOK, TurnInv, oneAtATime, NEW p \in Processes, NEW label, Goto(p, label),
         \A q \in Processes \ {p} : pc[q] \in Idle,
         p \in Enqueuers => Holds(p)',
         \A slot \in Slots : audit'[<<"queued", slot>>] <= 1,
         \/ auditMade'
         \/ (\A slot \in Slots : files'[slot].target = Nothing)
              /\ label \in {"create-audit"} \union Idle,
         label = "create-audit" => ~auditMade'
  PROVE  TurnInv'
<1>1. pc'[p] = label /\ \A q \in Processes \ {p} : pc'[q] = pc[q] /\ pc'[q] \in Idle
  BY DEF Goto, TypeOK
<1>2. \A q \in Processes \ {p} : pc'[q] \notin {"open", "write", "replace", "audit", "create-audit"}
  BY <1>1 DEF Idle, Ended
<1>3. \A q \in Enqueuers : Holds(q)'
  <2> SUFFICES ASSUME NEW q \in Enqueuers, q # p  PROVE Holds(q)'
    OBVIOUS
  <2>1. pc'[q] \notin {"open", "write", "replace", "audit"}
    BY <1>2 DEF Processes
  <2>2. QED BY <2>1 DEF Holds
<1>4. \A slot \in Slots : files'[slot].target = Nothing => ~Present(slot)'
  BY DEF Present
<1>5. QED BY <1>1, <1>2, <1>3, <1>4 DEF TurnInv

\* Fewer records are forgotten, or one more by one more fault.
LEMMA AccountStep ==
  ASSUME TypeOK, TypeOK', AccountInv, oneAtATime, NEW slot,
         \/ Forgotten' \subseteq Forgotten /\ faults' \in {faults, faults + 1}
         \/ Forgotten' \subseteq Forgotten \union {slot} /\ faults' = faults + 1
  PROVE  AccountInv'
<1> DEFINE more == Forgotten \union {slot}
<1>1. /\ IsFiniteSet(Forgotten) /\ Cardinality(Forgotten) \in Nat
      /\ Cardinality(Forgotten) <= faults /\ faults \in Nat
  BY FS_CardinalityType DEF AccountInv, TypeOK
<1>2. /\ IsFiniteSet(more)
      /\ Cardinality(more) = Cardinality(Forgotten) \/ Cardinality(more) = Cardinality(Forgotten) + 1
  BY <1>1, FS_AddElement
<1> HIDE DEF more
<1>3. CASE Forgotten' \subseteq Forgotten /\ faults' \in {faults, faults + 1}
  <2>1. /\ IsFiniteSet(Forgotten') /\ Cardinality(Forgotten') <= Cardinality(Forgotten)
        /\ Cardinality(Forgotten') \in Nat
    BY <1>1, <1>3, FS_Subset, FS_CardinalityType
  <2>2. Cardinality(Forgotten') <= faults'
    BY <1>1, <1>3, <2>1
  <2>3. QED BY <2>1, <2>2 DEF AccountInv
<1>4. CASE Forgotten' \subseteq Forgotten \union {slot} /\ faults' = faults + 1
  <2>1. /\ IsFiniteSet(Forgotten') /\ Cardinality(Forgotten') <= Cardinality(more)
        /\ Cardinality(Forgotten') \in Nat
    BY <1>2, <1>4, FS_Subset, FS_CardinalityType DEF more
  <2>2. Cardinality(Forgotten') <= faults'
    BY <1>1, <1>2, <1>4, <2>1
  <2>3. QED BY <2>1, <2>2 DEF AccountInv
<1>5. QED BY <1>3, <1>4

\* A step of a process that was not about to audit forgets no record.
LEMMA NothingForgotten ==
  ASSUME TypeOK, NEW p \in Processes, NEW label, Goto(p, label), pc[p] # "audit",
         batch' = batch, position' = position,
         \A q \in Enqueuers \ {p} : status'[q] = status[q],
         \A slot \in Slots : Unaudited(slot)' => Unaudited(slot) \/ Underway(slot)'
  PROVE  Forgotten' \subseteq Forgotten
<1>1. \A q \in Processes \ {p} : pc'[q] = pc[q]
  BY DEF Goto, TypeOK
<1>2. \A q \in Enqueuers : Slot(q)' = Slot(q)
  BY DEF Slot, SlotOf, CurrentRecord
<1>3. \A slot : Underway(slot) => Underway(slot)'
  BY <1>1, <1>2 DEF Underway, Processes
<1>4. QED BY <1>3 DEF Forgotten

-----------------------------------------------------------------------------
(* The steps. *)

\* A step that files and audits nothing.
LEMMA PlainStep ==
  ASSUME TypeOK, TypeOK', TurnInv, AccountInv, oneAtATime, NEW p \in Processes,
         NEW label, Goto(p, label), \A q \in Processes \ {p} : pc[q] \in Idle,
         batch' = batch, position' = position, status' = status,
         \A slot \in Slots : files'[slot].target = files[slot].target,
         audit' = audit, auditMade' = auditMade,
         label \in Idle \/ (auditMade /\ label # "create-audit"),
         label \notin {"open", "write", "replace", "audit"},
         (pc[p] # "audit" /\ faults' = faults) \/ faults' = faults + 1
  PROVE  TurnInv' /\ AccountInv' /\ SeenStep
<1>1. pc'[p] = label /\ \A q \in Processes \ {p} : pc'[q] = pc[q]
  BY DEF Goto, TypeOK
<1>2. \A slot \in Slots : Present(slot)' = Present(slot)
  BY DEF Present
<1>3. p \in Enqueuers => Holds(p)'
  BY <1>1 DEF Holds
<1>4. label # "create-audit"
  BY DEF Idle, Ended
<1>5. \/ auditMade'
      \/ /\ \A slot \in Slots : files'[slot].target = Nothing
         /\ label \in {"create-audit"} \union Idle
  <2> SUFFICES ASSUME ~auditMade
               PROVE  (\A slot \in Slots : files'[slot].target = Nothing) /\ label \in Idle
    OBVIOUS
  <2>1. \A slot \in Slots : ~Present(slot)
    BY DEF TurnInv
  <2>2. QED BY <2>1 DEF Present
<1>6. TurnInv'
  BY <1>3, <1>4, <1>5, TurnStep DEF TurnInv
<1>7. \A slot \in Slots : Unaudited(slot)' => Unaudited(slot)
  BY <1>2 DEF Unaudited
<1>8. AccountInv'
  <2>1. CASE pc[p] # "audit"
    <3>1. Forgotten' \subseteq Forgotten
      BY <1>7, <2>1, NothingForgotten
    <3>2. QED BY <3>1, AccountStep
  <2>2. CASE pc[p] = "audit"
    <3>1. \A q \in Enqueuers : Slot(q)' = Slot(q)
      BY DEF Slot, SlotOf, CurrentRecord
    <3>2. \A slot : slot # Slot(p) /\ Underway(slot) => Underway(slot)'
      BY <1>1, <3>1 DEF Underway, Processes
    <3>3. Forgotten' \subseteq Forgotten \union {Slot(p)}
      BY <1>7, <3>2 DEF Forgotten
    <3>4. QED BY <2>2, <3>3, AccountStep
  <2>3. QED BY <2>1, <2>2
<1>9. Seen' = Seen
  BY DEF Seen
<1>10. QED BY <1>6, <1>8, <1>9 DEF SeenStep

\* init_event_queue, and a crash at any time.
LEMMA InitStepTurn ==
  ASSUME IInv, TypeOK', TurnInv, AccountInv, oneAtATime, batch' = batch,
         NEW p \in Processes, InitStep(p)
  PROVE  TurnInv' /\ AccountInv' /\ SeenStep
<1> USE DEF initVars, enqueueVars, replayVars
<1>0. TypeOK /\ \A q \in Processes \ {p} : pc[q] \in Idle
  BY OthersIdle DEF IInv
<1>1. pc[p] \notin {"create-audit"} \union Idle => auditMade
  BY DEF TurnInv
<1>2. CASE CheckAudit(p) /\ auditMade
  <2>1. /\ Goto(p, "check-manifest") /\ pc[p] # "audit" /\ faults' = faults
        /\ files' = files /\ audit' = audit /\ auditMade' = auditMade /\ status' = status
        /\ position' = position
    BY <1>2 DEF CheckAudit
  <2>2. QED BY <1>0, <1>2, <2>1, PlainStep
<1>3. CASE CheckAudit(p) /\ ~auditMade
  <2>1. /\ Goto(p, "create-audit") /\ pc[p] # "audit" /\ faults' = faults
        /\ files' = files /\ audit' = audit /\ auditMade' = auditMade /\ status' = status
        /\ position' = position
    BY <1>3 DEF CheckAudit
  <2>2. pc'[p] = "create-audit"
    BY <1>0, <2>1 DEF Goto, TypeOK
  <2>3. Holds(p)'
    BY <2>2 DEF Holds
  <2>4. \A slot \in Slots : files'[slot].target = Nothing
    BY <1>3, <2>1 DEF TurnInv, Present
  <2>5. TurnInv'
    BY <1>0, <1>3, <2>1, <2>3, <2>4, TurnStep DEF TurnInv
  <2>6. \A slot \in Slots : Unaudited(slot)' => Unaudited(slot)
    BY <2>1 DEF Unaudited, Present
  <2>7. Forgotten' \subseteq Forgotten
    BY <1>0, <2>1, <2>6, NothingForgotten
  <2>8. QED BY <1>0, <2>1, <2>5, <2>7, AccountStep DEF SeenStep, Seen
<1>4. CASE CreateAudit(p)
  <2>1. /\ Goto(p, "check-manifest") /\ pc[p] = "create-audit" /\ faults' = faults
        /\ files' = files /\ audit' = EmptyAudit /\ auditMade'
    BY <1>4 DEF CreateAudit
  <2>2. pc'[p] = "check-manifest"
    BY <1>0, <2>1 DEF Goto, TypeOK
  <2>3. Holds(p)'
    BY <2>2 DEF Holds
  <2>4. \A slot \in Slots : audit'[<<"queued", slot>>] <= 1
    BY <2>1 DEF EmptyAudit, Statuses
  <2>5. TurnInv'
    BY <1>0, <2>1, <2>3, <2>4, TurnStep
  <2>6. \A slot \in Slots : ~Present(slot)'
    BY <2>1 DEF TurnInv, Present
  <2>7. Forgotten' \subseteq Forgotten
    BY <2>6 DEF Forgotten, Unaudited
  <2>8. QED BY <1>0, <2>1, <2>5, <2>7, AccountStep DEF SeenStep, Seen
<1>5. CASE CheckManifest(p) \/ OpenManifest(p) \/ WriteManifest(p) \/ ReadManifest(p)
  <2>1. /\ pc[p] \in {"check-manifest", "open-manifest", "write-manifest", "read-manifest"}
        /\ faults' = faults /\ files' = files /\ audit' = audit /\ auditMade' = auditMade
        /\ status' = status /\ position' = position
    BY <1>5 DEF CheckManifest, OpenManifest, WriteManifest, ReadManifest
  <2>2. PICK label : /\ Goto(p, label)
                     /\ label \notin {"open", "write", "replace", "audit", "create-audit"}
    BY <1>5 DEF CheckManifest, OpenManifest, WriteManifest, ReadManifest
  <2>3. auditMade /\ pc[p] # "audit"
    BY <1>1, <2>1 DEF Idle, Ended
  <2>4. QED BY <1>0, <2>1, <2>2, <2>3, PlainStep
<1>6. CASE Crash(p)
  <2>1. /\ Goto(p, "failed") /\ faults' = faults + 1 /\ audit' = audit /\ auditMade' = auditMade
        /\ status' = status /\ position' = position
    BY <1>6 DEF Crash
  <2>2. \A slot \in Slots : files'[slot].target = files[slot].target
    <3>1. CASE pc[p] = "write"
      <4>1. p \in Enqueuers
        BY <1>0, <3>1 DEF TypeOK, Processes, ReplayerPcs, InitPcs, Ended
      <4>2. Slot(p) \in Slots
        BY <3>1, <4>1, SlotType DEF IInv, InBatch, Busy
      <4>3. files' = [files EXCEPT ![Slot(p)] = Abandoned(files[Slot(p)], p)]
        BY <1>6, <3>1 DEF Crash
      <4>4. files[Slot(p)] \in File
        BY <1>0, <4>2 DEF TypeOK, File
      <4>5. Abandoned(files[Slot(p)], p).target = files[Slot(p)].target
        BY <4>1, <4>4, AbandonedFile DEF File
      <4>6. QED BY <1>0, <4>2, <4>3, <4>5 DEF TypeOK
    <3>2. CASE pc[p] # "write"
      BY <1>6, <3>2 DEF Crash
    <3>3. QED BY <3>1, <3>2
  <2>3. "failed" \in Idle
    BY DEF Idle, Ended
  <2>4. QED BY <1>0, <2>1, <2>2, <2>3, PlainStep
<1>7. QED BY <1>2, <1>3, <1>4, <1>5, <1>6 DEF InitStep

\* replay_event_queue changes nothing that others see.
LEMMA ReplayStepTurn ==
  ASSUME IInv, TypeOK', TurnInv, AccountInv, oneAtATime, batch' = batch,
         NEW r \in Replayers, ReplayStep(r)
  PROVE  TurnInv' /\ AccountInv' /\ SeenStep
<1> USE DEF initVars, enqueueVars, replayVars
<1>0. TypeOK /\ r \in Processes /\ \A q \in Processes \ {r} : pc[q] \in Idle
  BY OthersIdle DEF IInv, Processes
<1>1. /\ pc[r] \in {"list", "read"} /\ faults' = faults /\ files' = files /\ audit' = audit
      /\ auditMade' = auditMade /\ status' = status /\ position' = position
  BY DEF ReplayStep, ListState, ReadListed, EmitReplay
<1>2. auditMade /\ pc[r] # "audit"
  BY <1>0, <1>1 DEF TurnInv, Idle, Ended
<1>3. PICK label \in {"failed", "read", "done"} : Goto(r, label)
  <2>1. CASE pc' = pc
    <3>1. pc' = [pc EXCEPT ![r] = pc[r]]
      BY <1>0, <2>1 DEF TypeOK
    <3>2. pc[r] = "read"
      BY <1>0, <2>1 DEF ReplayStep, ListState, ReadListed, EmitReplay, Goto, TypeOK
    <3>3. QED BY <3>1, <3>2 DEF Goto
  <2>2. CASE pc' # pc
    BY <2>2 DEF ReplayStep, ListState, ReadListed, EmitReplay
  <2>3. QED BY <2>1, <2>2
<1>4. QED BY <1>0, <1>1, <1>2, <1>3, PlainStep

\* enqueue_event_records: look, write, rename, audit.
LEMMA EnqueueStepTurn ==
  ASSUME IInv, TypeOK', TurnInv, AccountInv, oneAtATime, batch' = batch,
         NEW p \in Enqueuers, EnqueueStep(p)
  PROVE  TurnInv' /\ AccountInv' /\ SeenStep
<1> USE DEF initVars, enqueueVars, replayVars
<1> DEFINE slot == Slot(p)
           f    == files[slot]
<1>0. TypeOK /\ p \in Processes /\ \A q \in Processes \ {p} : pc[q] \in Idle
  BY OthersIdle DEF IInv, Processes
<1>1. auditMade /\ auditMade' = auditMade /\ faults' = faults
  <2>1. pc[p] \notin {"create-audit"} \union Idle
    BY DEF EnqueueStep, RejectKey, CheckRecord, OpenRecord, WriteRecord, ReplaceRecord,
           AppendAudit, Finish, Idle, Ended, Left
  <2>2. QED BY <1>0, <2>1 DEF TurnInv, EnqueueStep, RejectKey, CheckRecord, OpenRecord,
                              WriteRecord, ReplaceRecord, AppendAudit, Finish
<1>2. Holds(p) /\ \A other \in Slots : audit[<<"queued", other>>] <= 1
  BY DEF TurnInv
<1>3. HasRecord(p) => /\ slot \in Slots /\ f \in File /\ CurrentRecord(p) \in EventRecord
  BY <1>0, SlotType DEF TypeOK, File
<1>4. pc[p] \in Busy => HasRecord(p)
  BY DEF IInv, InBatch
<1>5. position' = position => Slot(p)' = slot /\ CurrentRecord(p)' = CurrentRecord(p)
  BY DEF Slot, SlotOf, CurrentRecord
\* A step that only changes what the labels say, and the file of the record.
<1>6. ASSUME NEW label, Goto(p, label), label \notin {"create-audit"}, pc[p] # "audit",
             position' = position, audit' = audit, \A q \in Enqueuers \ {p} : status'[q] = status[q],
             \A other \in Slots : files'[other].target = files[other].target,
             Holds(p)'
      PROVE  TurnInv' /\ AccountInv' /\ SeenStep
  <2>1. TurnInv'
    BY <1>0, <1>1, <1>2, <1>6, TurnStep
  <2>2. \A other \in Slots : Unaudited(other)' => Unaudited(other)
    BY <1>6 DEF Unaudited, Present
  <2>3. Forgotten' \subseteq Forgotten
    BY <1>0, <1>6, <2>2, NothingForgotten
  <2>4. Seen' = Seen
    BY <1>6 DEF Seen
  <2>5. QED BY <1>0, <1>1, <2>1, <2>3, <2>4, AccountStep DEF SeenStep
<1>7. CASE RejectKey(p) \/ Finish(p)
  <2>1. /\ pc[p] = "next" /\ files' = files /\ audit' = audit /\ status' = status
        /\ position' = position
    BY <1>7 DEF RejectKey, Finish, Left
  <2>2. PICK label \in {"failed", "done"} : Goto(p, label)
    BY <1>7 DEF RejectKey, Finish
  <2>3. QED BY <1>0, <1>1, <2>1, <2>2, PlainStep
<1>8. CASE CheckRecord(p)
  <2>1. /\ pc[p] = "next" /\ files' = files /\ audit' = audit /\ position' = position
        /\ status' = [status EXCEPT ![p] = IF Present(slot) THEN "deduped" ELSE "queued"]
        /\ Goto(p, IF Present(slot) THEN "audit" ELSE "open")
    BY <1>8 DEF CheckRecord, Left
  <2>2. /\ status'[p] = IF Present(slot) THEN "deduped" ELSE "queued"
        /\ \A q \in Enqueuers \ {p} : status'[q] = status[q]
        /\ pc'[p] = IF Present(slot) THEN "audit" ELSE "open"
    BY <1>0, <2>1 DEF TypeOK, Goto
  <2>3. Present(slot)' = Present(slot)
    BY <1>5, <2>1 DEF Present
  <2>4. Holds(p)'
    BY <1>5, <2>1, <2>2, <2>3 DEF Holds, Present
  <2>5. PICK label \in {"audit", "open"} : Goto(p, label)
    BY <2>1
  <2>6. QED BY <1>6, <2>1, <2>2, <2>4, <2>5
<1>9. CASE OpenRecord(p)
  <2>1. /\ pc[p] = "open" /\ files' = [files EXCEPT ![slot] = Opened(f, p)] /\ Goto(p, "write")
        /\ audit' = audit /\ position' = position /\ status' = status
    BY <1>9 DEF OpenRecord
  <2>2. slot \in Slots /\ f \in File
    BY <1>3, <1>4, <2>1 DEF Busy
  <2>3. Opened(f, p).target = f.target /\ EmptyTmp(Opened(f, p), p)
    BY <2>2, OpenedFile DEF File
  <2>4. /\ files'[slot] = Opened(f, p)
        /\ \A other \in Slots : files'[other].target = files[other].target
    BY <1>0, <2>1, <2>2, <2>3 DEF TypeOK
  <2>5. pc'[p] = "write" /\ status[p] = "queued" /\ f.target = Nothing
    BY <1>0, <1>2, <2>1 DEF Goto, TypeOK, Holds, Present
  <2>6. Holds(p)'
    BY <1>5, <2>1, <2>3, <2>4, <2>5 DEF Holds, Present
  <2>7. QED BY <1>6, <2>1, <2>4, <2>6
<1>10. CASE WriteRecord(p)
  <2>1. /\ pc[p] = "write" /\ Goto(p, "replace")
        /\ audit' = audit /\ position' = position /\ status' = status
    BY <1>10 DEF WriteRecord
  <2>2. slot \in Slots /\ f \in File /\ CurrentRecord(p) \in EventRecord
    BY <1>3, <1>4, <2>1 DEF Busy
  <2>3. EmptyTmp(f, p) /\ status[p] = "queued" /\ f.target = Nothing
    BY <1>2, <2>1 DEF Holds, Present
  <2>4. PICK file \in Written(f, p, CurrentRecord(p)) : files' = [files EXCEPT ![slot] = file]
    BY <1>10 DEF WriteRecord
  <2>5. file.target = f.target /\ file.tmp = CurrentRecord(p)
    BY <2>2, <2>3, <2>4, WrittenToEmpty DEF File
  <2>6. /\ files'[slot] = file
        /\ \A other \in Slots : files'[other].target = files[other].target
    BY <1>0, <2>2, <2>4, <2>5 DEF TypeOK
  <2>7. pc'[p] = "replace"
    BY <1>0, <2>1 DEF Goto, TypeOK
  <2>8. Holds(p)'
    BY <1>5, <2>1, <2>3, <2>5, <2>6, <2>7 DEF Holds, Present
  <2>9. QED BY <1>6, <2>1, <2>6, <2>8
<1>11. CASE ReplaceRecord(p)
  <2>1. /\ pc[p] = "replace" /\ audit' = audit /\ position' = position /\ status' = status
    BY <1>11 DEF ReplaceRecord
  <2>2. slot \in Slots /\ f \in File /\ CurrentRecord(p) \in EventRecord
    BY <1>3, <1>4, <2>1 DEF Busy
  <2>3. f.tmp = CurrentRecord(p) /\ f.tmp # Nothing /\ status[p] = "queued" /\ f.target = Nothing
    BY <1>2, <2>1, <2>2 DEF Holds, Present
  <2>4. files' = [files EXCEPT ![slot] = Replaced(f)] /\ Goto(p, "audit")
    BY <1>11, <2>3 DEF ReplaceRecord
  <2>5. Replaced(f).target = CurrentRecord(p)
    BY <2>2, <2>3, ReplacedFileContents DEF File
  <2>6. Seen' = [Seen EXCEPT ![slot] = CurrentRecord(p)] /\ Seen[slot] = Nothing
    BY <1>0, <2>2, <2>3, <2>4, <2>5 DEF TypeOK, Seen
  <2>7. audit[<<"queued", slot>>] = 0
    <3>1. ~Present(slot) /\ audit[<<"queued", slot>>] \in Nat
      BY <1>0, <2>2, <2>3 DEF Present, TypeOK, Statuses
    <3>2. QED BY <2>2, <3>1 DEF IInv, AuditedIsPresent, Statuses
  <2>8. pc'[p] = "audit"
    BY <1>0, <2>4 DEF Goto, TypeOK
  <2>9. Holds(p)'
    BY <1>5, <2>1, <2>7, <2>8 DEF Holds
  <2>10. TurnInv'
    BY <1>0, <1>1, <1>2, <2>1, <2>4, <2>9, TurnStep
  <2>11. \A other \in Slots : other = slot => Underway(other)'
    BY <1>5, <2>1, <2>3, <2>8 DEF Underway
  <2>12. \A other \in Slots : Unaudited(other)' => Unaudited(other) \/ Underway(other)'
    <3>1. \A other \in Slots \ {slot} : files'[other] = files[other]
      <4> DEFINE new == Replaced(f)
      <4>1. files' = [files EXCEPT ![slot] = new] /\ DOMAIN files = Slots
        BY <1>0, <2>4 DEF TypeOK
      <4> HIDE DEF new, slot
      <4>2. QED BY <4>1
    <3>2. QED BY <2>1, <2>11, <3>1 DEF Unaudited, Present
  <2>13. Forgotten' \subseteq Forgotten
    BY <1>0, <2>1, <2>4, <2>12, NothingForgotten
  <2>14. QED BY <1>0, <1>1, <2>2, <2>6, <2>10, <2>13, AccountStep DEF SeenStep
<1>12. CASE AppendAudit(p)
  <2>1. /\ pc[p] = "audit" /\ Goto(p, "next") /\ files' = files
        /\ audit' = [audit EXCEPT ![<<status[p], slot>>] = @ + 1]
    BY <1>12 DEF AppendAudit
  <2>2. slot \in Slots /\ status[p] \in Statuses
    BY <1>0, <1>3, <1>4, <2>1 DEF Busy, TypeOK
  <2>3. pc'[p] = "next"
    BY <1>0, <2>1 DEF Goto, TypeOK
  <2>4. Holds(p)'
    BY <2>3 DEF Holds
  <2>5. \A other \in Slots :
          /\ <<"queued", other>> \in Statuses \X Slots
          /\ audit[<<"queued", other>>] \in Nat
          /\ audit'[<<"queued", other>>] =
               IF status[p] = "queued" /\ other = slot THEN audit[<<"queued", slot>>] + 1
               ELSE audit[<<"queued", other>>]
    <3>1. audit \in [Statuses \X Slots -> Nat]
      BY <1>0 DEF TypeOK
    <3>2. \A other \in Slots : <<"queued", other>> \in Statuses \X Slots
      BY DEF Statuses
    <3>3. \A other \in Slots : <<"queued", other>> = <<status[p], slot>>
                                 <=> status[p] = "queued" /\ other = slot
      OBVIOUS
    <3>4. QED BY <2>1, <3>1, <3>2, <3>3
  <2>6. \A other \in Slots : audit'[<<"queued", other>>] <= 1
    <3>1. status[p] = "queued" => audit[<<"queued", slot>>] = 0
      <4>1. Holds(p)
        BY <1>2
      <4>2. QED BY <2>1, <4>1 DEF Holds
    <3> SUFFICES ASSUME NEW other \in Slots  PROVE audit'[<<"queued", other>>] <= 1
      OBVIOUS
    <3>2. CASE status[p] = "queued" /\ other = slot
      <4>1. audit'[<<"queued", other>>] = 0 + 1
        BY <2>5, <3>1, <3>2
      <4>2. QED BY <4>1
    <3>3. CASE ~(status[p] = "queued" /\ other = slot)
      <4>1. audit'[<<"queued", other>>] = audit[<<"queued", other>>]
        BY <2>5, <3>3
      <4>2. audit[<<"queued", other>>] <= 1
        BY <1>2
      <4>3. QED BY <4>1, <4>2
    <3>4. QED BY <3>2, <3>3
  <2>7. TurnInv'
    BY <1>0, <1>1, <2>1, <2>4, <2>6, TurnStep
  <2>8. ASSUME NEW other \in Forgotten'  PROVE other \in Forgotten
    <3>1. other \in Slots /\ Present(other) /\ audit'[<<"queued", other>>] = 0
      BY <2>1, <2>8 DEF Forgotten, Unaudited, Present
    <3>2. /\ audit[<<"queued", other>>] = 0
          /\ ~(status[p] = "queued" /\ other = slot)
      BY <2>5, <3>1
    <3>3. ~Underway(other)
      <4>1. \A q \in Enqueuers : pc[q] = "audit" => q = p
        BY <1>0 DEF Processes, Idle, Ended
      <4>2. QED BY <3>2, <4>1 DEF Underway
    <3>4. QED BY <3>1, <3>2, <3>3 DEF Forgotten, Unaudited
  <2>9. Forgotten' \subseteq Forgotten
    BY <2>8
  <2>10. QED BY <1>0, <1>1, <2>1, <2>7, <2>9, AccountStep DEF SeenStep, Seen
<1>13. QED
  BY <1>7, <1>8, <1>9, <1>10, <1>11, <1>12 DEF EnqueueStep

LEMMA TurnNext ==
  IInv /\ TypeOK' /\ TurnInv /\ AccountInv /\ [Next]_vars =>
    /\ TurnInv' /\ AccountInv'
    /\ oneAtATime => SeenStep
<1> SUFFICES ASSUME IInv, TypeOK', TurnInv, AccountInv, [Next]_vars
             PROVE  TurnInv' /\ AccountInv' /\ (oneAtATime => SeenStep)
  OBVIOUS
<1>1. oneAtATime' = oneAtATime /\ batch' = batch
  BY DEF Next, vars, scenarioVars
<1>2. CASE ~oneAtATime
  BY <1>1, <1>2 DEF TurnInv, AccountInv
<1>3. CASE oneAtATime /\ UNCHANGED vars
  <2>1. /\ \A p \in Enqueuers : Slot(p)' = Slot(p) /\ CurrentRecord(p)' = CurrentRecord(p)
        /\ \A slot : Present(slot)' = Present(slot)
    BY <1>3 DEF vars, scenarioVars, enqueueVars, Slot, SlotOf, CurrentRecord, Present
  <2>2. \A p \in Enqueuers : Holds(p)' = Holds(p)
    BY <1>3, <2>1 DEF vars, initVars, enqueueVars, Holds
  <2>3. TurnInv'
    BY <1>3, <2>1, <2>2 DEF vars, initVars, TurnInv
  <2>4. Forgotten' = Forgotten
    BY <1>3, <2>1 DEF vars, initVars, enqueueVars, Forgotten, Unaudited, Underway
  <2>5. Seen' = Seen
    BY <1>3 DEF vars, Seen
  <2>6. QED BY <1>3, <2>3, <2>4, <2>5 DEF vars, AccountInv, SeenStep
<1>4. CASE oneAtATime /\ Next
  BY <1>1, <1>4, InitStepTurn, EnqueueStepTurn, ReplayStepTurn DEF Next
<1>5. QED BY <1>2, <1>3, <1>4

LEMMA TurnInit == Init => TurnInv /\ AccountInv
<1> SUFFICES ASSUME Init  PROVE TurnInv /\ AccountInv
  OBVIOUS
<1>1. \A slot \in Slots : ~Present(slot)
  BY DEF Init, Present, FileWith
<1>2. \A p \in Processes : pc[p] = "start"
  BY DEF Init
<1>3. \A p \in Enqueuers : Holds(p)
  BY <1>2 DEF Holds, Processes
<1>4. \A slot \in Slots : audit[<<"queued", slot>>] <= 1
  BY DEF Init, EmptyAudit, Statuses
<1>5. TurnInv
  BY <1>1, <1>2, <1>3, <1>4 DEF TurnInv, Idle
<1>6. Forgotten = {}
  BY <1>1 DEF Forgotten, Unaudited
<1>7. QED BY <1>5, <1>6, FS_EmptySet DEF AccountInv, Init

\* Commands that follow one another, some of which die, are steps of the
\* abstract queue: a place is filled once, in one step, and stays as it is.
THEOREM QueueIsIdempotent == Spec => ImplementsIdempotentQueue
<1>1. Init => Queue!Init
  BY DEF Init, Queue!Init, FileWith
<1>2. IInv /\ TypeOK' /\ TurnInv /\ AccountInv /\ [Next]_vars =>
        [oneAtATime => Queue!Next]_(Queue!vars)
  <2>1. Queue!vars = <<Seen>> /\ Queue!vars' = <<Seen'>>
    BY DEF Queue!vars, Seen
  <2>2. ASSUME NEW slot \in Slots, NEW record \in EventRecord, Seen[slot] = Nothing,
               Seen' = [Seen EXCEPT ![slot] = record]
        PROVE  Queue!Next
    <3>1. Seen'[slot] = record
      BY <2>2 DEF Seen
    <3>2. QED BY <2>2, <3>1 DEF Queue!Next, Queue!Admit, Seen
  <2>3. QED BY <2>1, <2>2, TurnNext DEF SeenStep
<1>3. IInv /\ TypeOK' /\ TurnInv /\ AccountInv /\ [Next]_vars => TurnInv' /\ AccountInv'
  BY TurnNext
<1>4. QED
  BY <1>1, <1>2, <1>3, TurnInit, TypeCorrect, InvInit, InvNext, PTL
  DEF Spec, ImplementsIdempotentQueue

\* While commands follow one another, no record is audited as queued twice, and
\* those that are never audited are no more than the commands that died.
THEOREM AuditIsAccounted == Spec => []AuditAccounts
<1>1. IInv /\ TypeOK' /\ TurnInv /\ AccountInv /\ [Next]_vars => TurnInv' /\ AccountInv'
  BY TurnNext
<1>2. TurnInv /\ AccountInv => AuditAccounts
  <2> SUFFICES ASSUME TurnInv, AccountInv, oneAtATime
               PROVE  /\ \A slot \in Slots : audit[<<"queued", slot>>] <= 1
                      /\ Quiet => Cardinality({slot \in Slots : Unaudited(slot)}) <= faults
    BY DEF AuditAccounts, Unaudited
  <2>1. Quiet => Forgotten = {slot \in Slots : Unaudited(slot)}
    BY DEF Quiet, Forgotten, Underway, Processes, Ended
  <2>2. QED BY <2>1 DEF TurnInv, AccountInv
<1>3. QED BY <1>1, <1>2, TurnInit, TypeCorrect, InvInit, InvNext, PTL DEF Spec

=============================================================================

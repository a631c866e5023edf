------------------------- MODULE StoreReportsProofs -------------------------
(***************************************************************************)
(* Theorems about StateReport, for every report, and about StoreReports,   *)
(* for any number of commands and readers.                                 *)
(***************************************************************************)
EXTENDS StoreReports, LocalStoreProofs, FiniteSetTheorems

USE ContentsAssumption, ProcessesAssumption, StoreAssumption, ContentAssumption

-----------------------------------------------------------------------------
(* Conclusions from one report. *)

\* A report is healthy only if nothing failed and nothing warned.
LEMMA HealthyLemma ==
  ASSUME NEW report, Diagnosis(report) = "healthy"
  PROVE  /\ Failed(report) = {} /\ Warned(report) = {}
         /\ report.contractValid /\ ~report.shadowDamaged
BY DEF Diagnosis, Failed, Warned, Invariants

\* Whatever a report says and whatever is asked of it: trust gate, scorecard,
\* readiness and repair plan do not contradict one another.
THEOREM ConclusionsAgree ==
  ASSUME NEW report \in Report, NEW request \in Request
  PROVE  Agree(report, request)
<1>1. Diagnosis(report) \in {"healthy", "degraded", "unsafe"}
  BY DEF Diagnosis
<1>2. report.initialized /\ ~Ready(report) =>
        Trust(report, request) = "blocked" /\ Scorecard(report) = "blocked"
  BY <1>1 DEF Ready, Trust, Blocked, Scorecard, GatesPass
<1>3. Trust(report, request) = "allowed" =>
        RepairSteps(report) \subseteq {"no_op", "generate_purge_preview"}
  <2> SUFFICES ASSUME Trust(report, request) = "allowed"
               PROVE  RepairSteps(report) \subseteq {"no_op", "generate_purge_preview"}
    OBVIOUS
  <2>1. Diagnosis(report) = "healthy"
    BY <1>1 DEF Trust, Blocked
  <2>2. Failed(report) = {} /\ Warned(report) = {}
    BY <2>1, HealthyLemma
  <2>3. QED BY <2>2 DEF RepairSteps
<1>4. report.contractValid /\ report.pressure # "unknown" /\ RepairSteps(report) = {"no_op"} =>
        Diagnosis(report) = "healthy"
  <2> SUFFICES ASSUME report.contractValid, report.pressure # "unknown",
                      RepairSteps(report) = {"no_op"}
               PROVE  Diagnosis(report) = "healthy"
    OBVIOUS
  <2> DEFINE causes == (Failed(report) \union Warned(report)) \intersect DOMAIN RepairOf
  <2>1. DOMAIN RepairOf = {"heartbeat", "replay_lag", "shadow", "dirty_open"}
    BY DEF RepairOf
  <2>2. \A id \in DOMAIN RepairOf : RepairOf[id] # "no_op"
    BY DEF RepairOf
  <2>3. causes = {}
    <3>1. SUFFICES ASSUME NEW id \in causes  PROVE FALSE
      OBVIOUS
    <3>2. RepairOf[id] \in RepairSteps(report)
      BY <3>1 DEF RepairSteps
    <3>3. QED BY <2>2, <3>2
  <2>4. report.pressure \notin {"watch", "warning", "critical"}
    <3>1. SUFFICES ASSUME report.pressure \in {"watch", "warning", "critical"}  PROVE FALSE
      OBVIOUS
    <3>2. "generate_purge_preview" \in RepairSteps(report)
      BY <3>1 DEF RepairSteps
    <3>3. QED BY <3>2
  <2>5. report.pressure = "none"
    BY <2>4 DEF Report, Pressures
  <2>6. Failed(report) \union Warned(report) = {}
    BY <2>1, <2>3, <2>5 DEF Failed, Warned, Invariants
  <2>7. QED BY <2>6 DEF Diagnosis
<1>5. QED BY <1>2, <1>3, <1>4 DEF Agree

\* The local policy denies decisions about the lanes "secure" and "repair" in
\* every report of a store, so that the trust gate blocks these lanes for ever
\* unless a remote PolicyFabric decides otherwise.
THEOREM RestrictedLanesStayBlocked ==
  ASSUME NEW r, NEW surroundings, surroundings.denied = DeniedDecisions(DefaultLanes),
         NEW request, request.lane \in {"secure", "repair"}
  PROVE  Trust(ReportOf(r, surroundings), request) = "blocked"
<1> DEFINE denied == {decision \in {"index", "retain", "replicate", "agent_access"} \X DefaultLanes :
                        PolicyStatus(decision[1], decision[2]) = "denied"}
<1>1. IsFiniteSet(denied)
  <2>1. IsFiniteSet(({} \union {<<"agent_access", "secure">>}) \union {<<"replicate", "secure">>}
                    \union {<<"agent_access", "repair">>})
    BY FS_EmptySet, FS_AddElement
  <2>2. denied \subseteq ({} \union {<<"agent_access", "secure">>})
                        \union {<<"replicate", "secure">>} \union {<<"agent_access", "repair">>}
    BY DEF PolicyStatus
  <2>3. QED BY <2>1, <2>2, FS_Subset
<1>2. <<"agent_access", "secure">> \in denied
  BY DEF PolicyStatus, Actions, DefaultLanes
<1>3. Cardinality(denied) \in Nat /\ Cardinality(denied) # 0
  BY <1>1, <1>2, FS_CardinalityType, FS_EmptySet
<1>4. ReportOf(r, surroundings).denied > 0
  BY <1>3 DEF ReportOf, Snapshot, DeniedDecisions
<1>5. QED BY <1>4 DEF Trust

-----------------------------------------------------------------------------
(* A healthy report is complete. *)

\* An append keeps what was kept, and a complete one keeps its own event.
LEMMA KeptByAppend ==
  ASSUME journal \in Seq(Line), NEW p \in Appenders, EventOf(p) \in Line,
         journal' = AfterAppend(EventOf(p))
  PROVE  /\ Kept(p, journal')
         /\ \A q \in Appenders : Kept(q, journal) => Kept(q, journal')
<1> DEFINE n == Len(journal)
<1>1. CASE EndsTorn
  <2>1. n \in DOMAIN journal /\ journal[n] \in Line /\ DOMAIN journal' = DOMAIN journal
    BY <1>1 DEF EndsTorn, AfterAppend
  <2>2. journal'[n] = [journal[n] EXCEPT !.status = "corrupt"]
    BY <1>1, <2>1 DEF AfterAppend
  <2>3. journal'[n].status = "corrupt"
    BY <2>1, <2>2 DEF Line
  <2>4. QED BY <2>1, <2>3 DEF Kept, Corrupted
<1>2. CASE ~EndsTorn
  <2>1. /\ n + 1 \in DOMAIN journal' /\ journal'[n + 1] = EventOf(p)
        /\ \A i \in DOMAIN journal : i \in DOMAIN journal' /\ journal'[i] = journal[i]
    BY <1>2 DEF AfterAppend
  <2>2. journal'[n + 1].status = "event" /\ journal'[n + 1].by = p
    BY <2>1 DEF EventOf
  <2> HIDE DEF n
  <2>3. QED BY <2>1, <2>2 DEF Kept, Corrupted, Counted
<1>3. QED BY <1>1, <1>2

\* An append that is cut short keeps what was kept.
LEMMA KeptByCutAppend ==
  ASSUME journal \in Seq(Line), NEW p \in Appenders, EventOf(p) \in Line,
         journal' = AfterCutAppend(EventOf(p))
  PROVE  \A q \in Appenders : Kept(q, journal) => Kept(q, journal')
<1>1. \A i \in DOMAIN journal : i \in DOMAIN journal' /\ journal'[i] = journal[i]
  BY DEF AfterCutAppend, Line
<1>2. QED BY <1>1 DEF Kept, Corrupted, Counted

\* A manifest that exists is never removed.
LEMMA ManifestStays ==
  ASSUME TypeOK, Next, manifest.target # Nothing
  PROVE  manifest'.target # Nothing
<1> USE DEF storeVars
<1>0. manifest \in FileOf(Nat, Writers)
  BY DEF TypeOK
<1>1. ASSUME NEW p \in Writers, WriterStep(p)  PROVE manifest'.target # Nothing
  <2>1. CASE OpenManifest(p)
    BY <1>0, <2>1, OpenedFile DEF OpenManifest
  <2>2. CASE WriteManifest(p)
    <3>1. generation[p] \in Nat
      BY DEF TypeOK, Processes
    <3>2. manifest'.target \in {manifest.target, generation[p], Torn}
      BY <1>0, <2>2, <3>1, WrittenFile DEF WriteManifest
    <3>3. QED BY <3>1, <3>2
  <2>3. CASE ReplaceManifest(p)
    BY <1>0, <2>3, ReplacedFileContents DEF ReplaceManifest
  <2>4. CASE Crash(p)
    BY <1>0, <2>4, AbandonedFile DEF Crash
  <2>5. CASE CheckJournal(p) \/ CreateJournal(p) \/ CheckManifest(p) \/ InitRead(p)
    BY <2>5 DEF CheckJournal, CreateJournal, CheckManifest, InitRead
  <2>6. QED BY <1>1, <2>1, <2>2, <2>3, <2>4, <2>5 DEF WriterStep
<1>2. ASSUME NEW p \in Appenders, AppenderStep(p)  PROVE manifest'.target # Nothing
  BY <1>2
  DEF AppenderStep, ReadManifest, RejectEvent, CountEvents, AppendLine, AppendCutShort
<1>3. ASSUME NEW r \in Readers, ReaderStep(r)  PROVE manifest'.target # Nothing
  BY <1>3 DEF ReaderStep, ReaderStart, ReaderManifest, ReaderJournal
<1>4. QED BY <1>1, <1>2, <1>3 DEF Next

\* In an orderly store a step of a writer that is not an append leaves the
\* journal alone: none truncates one that has lines.
LEMMA WriterLeavesJournal ==
  ASSUME TypeOK, GenerationInv, FirstUseInv, Orderly, NEW p \in Writers, WriterStep(p)
  PROVE  journal' = journal
<1> USE DEF storeVars
<1>1. CASE CreateJournal(p)
  BY <1>1 DEF CreateJournal, GenerationInv, WriterInv, FirstUseInv, Orderly
<1>2. CASE ~CreateJournal(p)
  BY <1>2 DEF WriterStep, CheckJournal, CheckManifest, InitRead, OpenManifest, WriteManifest,
              ReplaceManifest, Crash
<1>3. QED BY <1>1, <1>2

\* What an appender has gone past stays kept, by its own steps and by those of
\* others.
LEMMA AppendersKept ==
  ASSUME TypeOK, GenerationInv, FirstUseInv, Orderly, Next,
         \A p \in Appenders : AppenderKept(p)
  PROVE  /\ \A p \in Appenders : AppenderKept(p)'
         /\ AcknowledgedNow \subseteq AcknowledgedNow'
<1> USE DEF storeVars
<1>0. Appenders \subseteq Writers /\ Writers \subseteq Processes /\ Readers \subseteq Processes
  BY DEF Writers, Processes
<1>1. manifest.target # Nothing => manifest'.target # Nothing
  BY ManifestStays
\* A step of p: the others, and p, if it was past the append.
<1>2. ASSUME NEW p \in Processes, NEW label, Goto(p, label),
             \A q \in Appenders : Kept(q, journal) => Kept(q, journal'),
             p \in Appenders => pc[p] # "done",
             p \in Appenders /\ label \in {"open", "write", "replace", "done"} =>
               Kept(p, journal) \/ Kept(p, journal'),
             p \in Appenders /\ label = "done" => manifest'.target # Nothing
      PROVE  /\ \A q \in Appenders : AppenderKept(q)'
             /\ AcknowledgedNow \subseteq AcknowledgedNow'
  <2>1. pc'[p] = label /\ \A q \in Processes \ {p} : pc'[q] = pc[q]
    BY <1>2 DEF Goto, TypeOK
  <2>2. ASSUME NEW q \in Appenders  PROVE AppenderKept(q)'
    <3>1. CASE q = p
      BY <1>2, <2>1, <3>1 DEF AppenderKept
    <3>2. CASE q # p
      <4>1. pc'[q] = pc[q]
        BY <1>0, <2>1, <3>2
      <4>2. AppenderKept(q)
        OBVIOUS
      <4>3. QED BY <1>1, <1>2, <4>1, <4>2 DEF AppenderKept
    <3>3. QED BY <3>1, <3>2
  <2>3. AcknowledgedNow \subseteq AcknowledgedNow'
    BY <1>0, <1>2, <2>1 DEF AcknowledgedNow
  <2>4. QED BY <2>2, <2>3
<1>3. ASSUME NEW p \in Writers, WriterStep(p)
      PROVE  /\ \A q \in Appenders : AppenderKept(q)'
             /\ AcknowledgedNow \subseteq AcknowledgedNow'
  <2>1. journal' = journal
    BY <1>3, WriterLeavesJournal
  <2>2. PICK label : Goto(p, label)
    BY <1>3 DEF WriterStep, CheckJournal, CreateJournal, CheckManifest, InitRead, OpenManifest,
                WriteManifest, ReplaceManifest, Crash
  <2>3. pc'[p] = label /\ pc[p] # "done"
    BY <1>0, <1>3, <2>2
    DEF Goto, TypeOK, WriterStep, CheckJournal, MayStart, CreateJournal, CheckManifest, InitRead,
        OpenManifest, WriteManifest, ReplaceManifest, Crash, Ended
  <2>4. p \in Appenders /\ label \in {"open", "write", "replace", "done"} =>
          pc[p] \in {"open", "write", "replace"}
    BY <1>0, <1>3, <2>3
    DEF Goto, TypeOK, WriterStep, CheckJournal, CreateJournal, CheckManifest, InitRead,
        OpenManifest, WriteManifest, ReplaceManifest, Crash
  <2>5. p \in Appenders /\ label \in {"open", "write", "replace", "done"} => Kept(p, journal)
    BY <2>4 DEF AppenderKept
  <2>6. p \in Appenders /\ label = "done" => manifest'.target # Nothing
    <3> SUFFICES ASSUME p \in Appenders, label = "done"  PROVE manifest'.target # Nothing
      OBVIOUS
    <3>1. ReplaceManifest(p)
      BY <1>0, <1>3, <2>3
      DEF Goto, TypeOK, WriterStep, CheckJournal, CreateJournal, CheckManifest, InitRead,
          OpenManifest, WriteManifest, ReplaceManifest, Crash
    <3>2. manifest.tmp # Nothing /\ manifest' = Replaced(manifest)
      BY <1>0, <2>3, <3>1 DEF ReplaceManifest, Goto, TypeOK
    <3>3. QED BY <3>2, ReplacedFileContents DEF TypeOK
  <2>7. QED BY <1>0, <1>2, <2>1, <2>2, <2>3, <2>5, <2>6
<1>4. ASSUME NEW p \in Appenders, AppenderStep(p)
      PROVE  /\ \A q \in Appenders : AppenderKept(q)'
             /\ AcknowledgedNow \subseteq AcknowledgedNow'
  <2>0. p \in Processes /\ journal \in Seq(Line) /\ EventOf(p) \in Line
    BY <1>0 DEF TypeOK, EventOf, Line
  <2>1. CASE AppendLine(p)
    <3>1. Goto(p, "open") /\ pc[p] = "append"
      BY <2>1 DEF AppendLine
    <3>2. /\ Kept(p, journal')
          /\ \A q \in Appenders : Kept(q, journal) => Kept(q, journal')
      BY <2>0, <2>1, KeptByAppend DEF AppendLine
    <3>3. QED BY <1>2, <2>0, <3>1, <3>2
  <2>2. CASE AppendCutShort(p)
    <3>1. Goto(p, "failed") /\ pc[p] = "append"
      BY <2>2 DEF AppendCutShort
    <3>2. \A q \in Appenders : Kept(q, journal) => Kept(q, journal')
      BY <2>0, <2>2, KeptByCutAppend DEF AppendCutShort
    <3>3. QED BY <1>2, <2>0, <3>1, <3>2
  <2>3. CASE ReadManifest(p) \/ RejectEvent(p) \/ CountEvents(p)
    <3>1. PICK label \in {"failed", "count", "append"} : Goto(p, label)
      BY <2>3 DEF ReadManifest, RejectEvent, CountEvents
    <3>2. journal' = journal /\ pc[p] # "done"
      BY <2>3 DEF ReadManifest, RejectEvent, CountEvents
    <3>3. QED BY <1>2, <2>0, <3>1, <3>2
  <2>4. QED BY <1>4, <2>1, <2>2, <2>3 DEF AppenderStep
<1>5. ASSUME NEW r \in Readers, ReaderStep(r)
      PROVE  /\ \A q \in Appenders : AppenderKept(q)'
             /\ AcknowledgedNow \subseteq AcknowledgedNow'
  <2>1. PICK label : Goto(r, label)
    BY <1>5 DEF ReaderStep, ReaderStart, ReaderManifest, ReaderJournal
  <2>2. journal' = journal
    BY <1>5 DEF ReaderStep, ReaderStart, ReaderManifest, ReaderJournal
  <2>3. r \in Processes /\ r \notin Appenders
    BY <1>0, ProcessesAssumption
  <2>4. QED BY <1>2, <2>1, <2>2, <2>3
<1>6. QED BY <1>3, <1>4, <1>5 DEF Next

\* A reader that has not begun finds what has been acknowledged by then, and the
\* journal it reads later keeps it.
LEMMA ReadersKept ==
  ASSUME TypeOK, AcknowledgedKept, Orderly, ReportNext,
         acknowledged \in [Readers -> SUBSET Appenders],
         AcknowledgedNow \subseteq AcknowledgedNow',
         NEW r \in Readers
  PROVE  ReaderKept(r)'
<1> USE DEF storeVars, readerVars
<1>0. /\ r \in Processes /\ r \notin Writers /\ r \notin Appenders /\ ReaderKept(r)
      /\ \A p \in Appenders : AppenderKept(p)
  BY ProcessesAssumption DEF AcknowledgedKept, Processes, Writers
<1>1. acknowledged'[r] = IF pc[r] = "start" THEN AcknowledgedNow ELSE acknowledged[r]
  BY DEF ReportNext, Observe
<1>2. acknowledged'[r] \subseteq AcknowledgedNow'
  BY <1>0, <1>1 DEF ReaderKept
<1>3. ASSUME ReaderStep(r)  PROVE ReaderKept(r)'
  <2>1. CASE ReaderStart(r)
    <3>1. pc[r] = "start" /\ pc'[r] = "read" /\ initialized'[r] = (manifest.target # Nothing)
      BY <1>0, <2>1 DEF ReaderStart, Goto, TypeOK
    <3>2. acknowledged'[r] # {} => manifest.target # Nothing
      BY <1>0, <1>1, <3>1 DEF AcknowledgedNow, AppenderKept
    <3>3. QED BY <1>2, <3>1, <3>2 DEF ReaderKept
  <2>2. CASE ReaderManifest(r)
    <3>1. pc[r] = "read" /\ pc'[r] \in {"failed", "journal"} /\ initialized' = initialized
      BY <1>0, <2>2 DEF ReaderManifest, Goto, TypeOK
    <3>2. QED BY <1>0, <1>1, <1>2, <3>1 DEF ReaderKept
  <2>3. CASE ReaderJournal(r)
    <3>1. /\ pc[r] = "journal" /\ pc'[r] = "done" /\ initialized' = initialized
          /\ seen'[r] = IF initialized[r] THEN journal ELSE << >>
      BY <1>0, <2>3 DEF ReaderJournal, Goto, TypeOK
    <3>2. acknowledged'[r] = acknowledged[r]
      BY <1>1, <3>1
    <3>3. \A p \in acknowledged[r] : initialized[r] /\ Kept(p, journal)
      BY <1>0, <3>1 DEF ReaderKept, AcknowledgedNow, AppenderKept
    <3>4. QED BY <1>0, <1>2, <3>1, <3>2, <3>3 DEF ReaderKept
  <2>4. QED BY <1>3, <2>1, <2>2, <2>3 DEF ReaderStep
<1>4. ASSUME ~ReaderStep(r)  PROVE ReaderKept(r)'
  <2>1. pc'[r] = pc[r] /\ seen'[r] = seen[r] /\ initialized'[r] = initialized[r]
    <3>1. ASSUME NEW p \in Writers, WriterStep(p)
          PROVE  pc'[r] = pc[r] /\ seen'[r] = seen[r] /\ initialized'[r] = initialized[r]
      BY <1>0, <3>1
      DEF WriterStep, CheckJournal, CreateJournal, CheckManifest, InitRead, OpenManifest,
          WriteManifest, ReplaceManifest, Crash, Goto, TypeOK
    <3>2. ASSUME NEW p \in Appenders, AppenderStep(p)
          PROVE  pc'[r] = pc[r] /\ seen'[r] = seen[r] /\ initialized'[r] = initialized[r]
      BY <1>0, <3>2
      DEF AppenderStep, ReadManifest, RejectEvent, CountEvents, AppendLine, AppendCutShort, Goto,
          TypeOK
    <3>3. ASSUME NEW q \in Readers, ReaderStep(q)
          PROVE  pc'[r] = pc[r] /\ seen'[r] = seen[r] /\ initialized'[r] = initialized[r]
      <4>1. q # r
        BY <1>4, <3>3
      <4>2. QED BY <1>0, <3>3, <4>1
                DEF ReaderStep, ReaderStart, ReaderManifest, ReaderJournal, Goto, TypeOK
    <3>4. QED BY <3>1, <3>2, <3>3 DEF ReportNext, Next
  <2>2. pc[r] # "start" => acknowledged'[r] = acknowledged[r]
    BY <1>1
  <2>3. QED BY <1>0, <1>2, <2>1, <2>2 DEF ReaderKept
<1>5. QED BY <1>3, <1>4

\* The type of the history variable.
AcknowledgedType == acknowledged \in [Readers -> SUBSET Appenders]

\* Every behaviour of the composition is one of the store.
LEMMA ReportSpecImpliesSpec == ReportSpec => Spec
<1>1. ReportInit => Init
  BY DEF ReportInit
<1>2. [ReportNext]_reportVars => [Next]_vars
  BY DEF ReportNext, reportVars
<1>3. QED BY <1>1, <1>2, PTL DEF ReportSpec, Spec

\* What a reader may expect is a set of appenders.
LEMMA AcknowledgedTyped == ReportSpec => []AcknowledgedType
<1>1. ReportInit => AcknowledgedType
  BY DEF ReportInit, AcknowledgedType
<1>2. AcknowledgedType /\ [ReportNext]_reportVars => AcknowledgedType'
  <2>1. AcknowledgedNow \in SUBSET Appenders
    BY DEF AcknowledgedNow
  <2>2. QED BY <2>1 DEF AcknowledgedType, ReportNext, Observe, reportVars
<1>3. QED BY <1>1, <1>2, PTL DEF ReportSpec

\* The strengthened invariant holds in every reachable state.
THEOREM AcknowledgedEventsAreKept == ReportSpec => []AcknowledgedKept
<1>1. ReportInit => AcknowledgedKept
  BY ProcessesAssumption
  DEF ReportInit, Init, AcknowledgedKept, AppenderKept, ReaderKept, AcknowledgedNow, Processes,
      Writers
<1>2. TypeOK /\ GenerationInv /\ FirstUseInv /\ AcknowledgedType /\ AcknowledgedKept
        /\ [ReportNext]_reportVars => AcknowledgedKept'
  <2> SUFFICES ASSUME TypeOK, GenerationInv, FirstUseInv, AcknowledgedType, AcknowledgedKept,
                      [ReportNext]_reportVars, Orderly'
               PROVE  (\A p \in Appenders : AppenderKept(p)') /\ (\A r \in Readers : ReaderKept(r)')
    BY DEF AcknowledgedKept
  <2>1. CASE ReportNext
    <3>1. Next /\ Orderly
      BY <2>1 DEF ReportNext, Next, scenarioVars, Orderly
    <3>2. (\A p \in Appenders : AppenderKept(p)') /\ AcknowledgedNow \subseteq AcknowledgedNow'
      BY <3>1, AppendersKept DEF AcknowledgedKept
    <3>3. QED BY <2>1, <3>1, <3>2, ReadersKept DEF AcknowledgedType
  <2>2. CASE UNCHANGED reportVars
    BY <2>2
    DEF reportVars, vars, scenarioVars, storeVars, readerVars, Orderly, AcknowledgedKept,
        AppenderKept, ReaderKept, AcknowledgedNow
  <2>3. QED BY <2>1, <2>2
<1>3. Spec => []FirstUseInv
  BY FirstUseInit, FirstUseNext, TypeCorrect, PTL DEF Spec
<1>4. QED
  BY <1>1, <1>2, <1>3, ReportSpecImpliesSpec, TypeCorrect, GenerationInvariant, AcknowledgedTyped,
     PTL DEF ReportSpec

\* A report that was begun after `store record` had acknowledged an event counts
\* this event or is not healthy: a lost one damages a line, and summarize calls
\* the checksum of an active store with such a line a mismatch.
THEOREM HealthyReportsAreComplete == ReportSpec => []HealthyReportIsComplete
<1>1. AcknowledgedKept => HealthyReportIsComplete
  <2> SUFFICES ASSUME AcknowledgedKept, Orderly, NEW r \in Readers, Finished(r),
                      ~(acknowledged[r] \subseteq Counted(seen[r])),
                      NEW surroundings \in Surroundings, HealthyIn(r, surroundings)
               PROVE  FALSE
    BY DEF HealthyReportIsComplete
  <2>1. PICK p \in acknowledged[r] : p \notin Counted(seen[r])
    OBVIOUS
  <2>2. initialized[r] /\ Kept(p, seen[r])
    BY <2>1 DEF AcknowledgedKept, ReaderKept, Finished
  <2>3. ShadowDamaged(initialized[r], seen[r])
    BY <2>1, <2>2 DEF Kept, Corrupted, ShadowDamaged, Damaged
  <2>4. ReportOf(r, surroundings).shadowDamaged
    BY <2>3 DEF ReportOf, Snapshot
  <2>5. QED BY <2>4, HealthyLemma DEF HealthyIn
<1>2. QED BY <1>1, AcknowledgedEventsAreKept, PTL

\* A healthy report counts no object as live whose deletion was acknowledged
\* before: it counts the deletion.
THEOREM HealthyReportsSeeDeletions == ReportSpec => []DeletionsAreSeen
<1>1. HealthyReportIsComplete => DeletionsAreSeen
  <2> SUFFICES ASSUME HealthyReportIsComplete, Orderly, NEW r \in Readers,
                      NEW p \in acknowledged[r], Finished(r), Content[p].type = "delete",
                      Content[p].object \in LiveObjects(seen[r]),
                      NEW surroundings \in Surroundings
               PROVE  ~HealthyIn(r, surroundings)
    BY DEF DeletionsAreSeen
  <2>1. p \notin Counted(seen[r])
    BY DEF LiveObjects, DeletedObjects
  <2>2. QED BY <2>1 DEF HealthyReportIsComplete
<1>2. QED BY <1>1, HealthyReportsAreComplete, PTL

-----------------------------------------------------------------------------
(* Acknowledged events are found by their ids. *)

\* An appender whose append is behind it.
PastAppend == {"open", "write", "replace"} \union Ended

\* Each event of the journal is the one its appender has been given an id for.
AuthorInv ==
  \A i \in DOMAIN journal :
    journal[i].status = "event" =>
      journal[i] = EventOf(journal[i].by) /\ pc[journal[i].by] \in PastAppend

\* An append, whole or cut short, adds no event but the appender's.
LEMMA AppendedEvents ==
  ASSUME journal \in Seq(Line), NEW p \in Appenders, EventOf(p) \in Line,
         journal' \in {AfterAppend(EventOf(p)), AfterCutAppend(EventOf(p))}
  PROVE  \A i \in DOMAIN journal' :
           journal'[i].status = "event" =>
             \/ i \in DOMAIN journal /\ journal'[i] = journal[i]
             \/ journal'[i] = EventOf(p)
<1>1. CASE EndsTorn
  <2> DEFINE n == Len(journal)
             merged == [journal[n] EXCEPT !.status = "corrupt"]
  <2>1. n \in DOMAIN journal /\ journal[n] \in Line
    BY <1>1 DEF EndsTorn
  <2>2. merged.status = "corrupt"
    BY <2>1 DEF Line
  <2>3. journal' = journal \/ journal' = [journal EXCEPT ![n] = merged]
    BY <1>1 DEF AfterAppend, AfterCutAppend
  <2> HIDE DEF merged, n
  <2>4. QED BY <2>1, <2>2, <2>3
<1>2. CASE ~EndsTorn
  <2> DEFINE line == EventOf(p)
             cut  == [line EXCEPT !.status = "torn"]
  <2>1. line \in Line /\ cut \in Line /\ cut.status = "torn"
    BY DEF Line
  <2>2. PICK new \in {line, cut} : journal' = Append(journal, new)
    BY <1>2 DEF AfterAppend, AfterCutAppend
  <2> HIDE DEF cut
  <2>3. new \in Line
    BY <2>1, <2>2
  <2>4. /\ journal'[Len(journal) + 1] = new
        /\ \A i \in 1..Len(journal) : journal'[i] = journal[i]
        /\ DOMAIN journal = 1..Len(journal) /\ DOMAIN journal' = 1..(Len(journal) + 1)
        /\ Len(journal) \in Nat
    BY <2>2, <2>3
  <2>5. new.status = "event" => new = line
    BY <2>1, <2>2
  <2> HIDE DEF line
  <2>6. QED BY <2>4, <2>5 DEF line
<1>3. QED BY <1>1, <1>2

LEMMA AuthorNext == TypeOK /\ AuthorInv /\ [Next]_vars => AuthorInv'
<1> SUFFICES ASSUME TypeOK, AuthorInv, [Next]_vars
             PROVE  AuthorInv'
  OBVIOUS
<1> USE DEF storeVars, readerVars
<1>0. /\ journal \in Seq(Line)
      /\ \A i \in DOMAIN journal : journal[i].by \in Appenders
      /\ Appenders \subseteq Writers /\ Appenders \subseteq Processes
  <2>1. journal \in Seq(Line) /\ \A line \in Line : line.by \in Appenders
    BY DEF TypeOK, Line
  <2>2. \A i \in DOMAIN journal : journal[i] \in Line
    BY <2>1
  <2>3. QED BY <2>1, <2>2 DEF Writers, Processes
\* A step that appends nothing, and takes no appender back.
<1>1. ASSUME journal' = journal \/ journal' = << >>, eventId' = eventId,
             \A p \in Appenders : pc[p] \in PastAppend => pc'[p] \in PastAppend
      PROVE  AuthorInv'
  BY <1>0, <1>1 DEF AuthorInv, EventOf
<1>2. ASSUME NEW p \in Writers, WriterStep(p)  PROVE AuthorInv'
  <2>1. eventId' = eventId /\ (journal' = journal \/ journal' = << >>)
    BY <1>2
    DEF WriterStep, CheckJournal, CreateJournal, CheckManifest, InitRead, OpenManifest,
        WriteManifest, ReplaceManifest, Crash
  <2>2. pc[p] \in PastAppend => pc'[p] \in PastAppend
    BY <1>2
    DEF WriterStep, CheckJournal, CreateJournal, CheckManifest, InitRead, OpenManifest,
        WriteManifest, ReplaceManifest, Crash, PastAppend, Ended, Goto, TypeOK, Processes, MayStart
  <2>3. \A q \in Appenders \ {p} : pc'[q] = pc[q]
    BY <1>0, <1>2
    DEF WriterStep, CheckJournal, CreateJournal, CheckManifest, InitRead, OpenManifest,
        WriteManifest, ReplaceManifest, Crash, Goto, TypeOK
  <2>4. QED BY <1>1, <2>1, <2>2, <2>3
<1>3. ASSUME NEW p \in Appenders, AppenderStep(p)  PROVE AuthorInv'
  <2>0. /\ pc[p] \notin PastAppend
        /\ \A q \in Appenders \ {p} : pc'[q] = pc[q]
    BY <1>0, <1>3
    DEF AppenderStep, ReadManifest, RejectEvent, CountEvents, AppendLine, AppendCutShort, Goto,
        TypeOK, PastAppend, Ended
  <2>1. CASE ReadManifest(p) \/ RejectEvent(p)
    <3>1. journal' = journal /\ eventId' = eventId
      BY <2>1 DEF ReadManifest, RejectEvent
    <3>2. QED BY <1>1, <2>0, <3>1
  <2>2. CASE CountEvents(p)
    <3>1. journal' = journal /\ \A q \in Appenders \ {p} : eventId'[q] = eventId[q]
      BY <2>2 DEF CountEvents, TypeOK
    <3>2. \A i \in DOMAIN journal : journal[i].status = "event" => journal[i].by # p
      BY <2>0 DEF AuthorInv
    <3>3. QED BY <1>0, <2>0, <3>1, <3>2 DEF AuthorInv, EventOf
  <2>3. CASE AppendLine(p) \/ AppendCutShort(p)
    <3>1. /\ EventOf(p) \in Line /\ eventId' = eventId
          /\ journal' \in {AfterAppend(EventOf(p)), AfterCutAppend(EventOf(p))}
          /\ pc'[p] \in PastAppend
      BY <1>0, <2>3 DEF AppendLine, AppendCutShort, EventOf, Line, TypeOK, Goto, PastAppend, Ended
    <3>2. SUFFICES ASSUME NEW i \in DOMAIN journal', journal'[i].status = "event"
                   PROVE  /\ journal'[i] = EventOf(journal'[i].by)
                          /\ pc'[journal'[i].by] \in PastAppend
      BY <3>1 DEF AuthorInv, EventOf
    <3>3. CASE i \in DOMAIN journal /\ journal'[i] = journal[i]
      <4>1. journal[i].by # p /\ pc[journal[i].by] \in PastAppend
        BY <2>0, <3>2, <3>3 DEF AuthorInv
      <4>2. QED BY <1>0, <2>0, <3>2, <3>3, <4>1 DEF AuthorInv
    <3>4. CASE journal'[i] = EventOf(p)
      <4>1. journal'[i].by = p
        BY <3>4 DEF EventOf
      <4>2. QED BY <3>1, <3>4, <4>1
    <3>5. QED BY <1>0, <3>1, <3>2, <3>3, <3>4, AppendedEvents
  <2>4. QED BY <1>3, <2>1, <2>2, <2>3 DEF AppenderStep
<1>4. ASSUME NEW r \in Readers, ReaderStep(r)  PROVE AuthorInv'
  <2>1. journal' = journal /\ eventId' = eventId
    BY <1>4 DEF ReaderStep, ReaderStart, ReaderManifest, ReaderJournal
  <2>2. \A p \in Appenders : pc'[p] = pc[p]
    BY <1>0, <1>4, ProcessesAssumption
    DEF ReaderStep, ReaderStart, ReaderManifest, ReaderJournal, Goto, TypeOK
  <2>3. QED BY <1>1, <2>1, <2>2
<1>5. CASE UNCHANGED vars
  BY <1>1, <1>5 DEF vars
<1>6. QED BY <1>2, <1>3, <1>4, <1>5 DEF Next

\* While commands follow one another and no line was cut short, GET
\* /events/<id> finds every event that `store record` has acknowledged: it is in
\* the journal, and no line before it has its id.
THEOREM AcknowledgedAreFound == ReportSpec => []AcknowledgedIsFound
<1>1. Init => AuthorInv
  BY DEF Init, AuthorInv
<1>2. Spec => []AuthorInv
  BY <1>1, AuthorNext, TypeCorrect, PTL DEF Spec
<1>3. TypeOK /\ AuthorInv /\ IdIsPosition /\ AcknowledgedKept => AcknowledgedIsFound
  <2> SUFFICES ASSUME TypeOK, AuthorInv, IdIsPosition, AcknowledgedKept, oneAtATime,
                      \A i \in DOMAIN journal : journal[i].status = "event",
                      NEW p \in Appenders, pc[p] = "done"
               PROVE  FoundById(p)
    BY DEF AcknowledgedIsFound
  <2>1. p \in Counted(journal)
    BY DEF AcknowledgedKept, AppenderKept, Orderly, Kept, Corrupted
  <2>2. PICK i \in DOMAIN journal : journal[i].by = p
    BY <2>1 DEF Counted
  <2>3. journal[i] = EventOf(p) /\ journal[i].id = i
    BY <2>2 DEF AuthorInv, IdIsPosition
  <2>4. eventId[p] = i
    BY <2>3 DEF EventOf
  <2>5. ASSUME NEW j \in 1..(i - 1)  PROVE journal[j].id # i
    <3>1. j \in DOMAIN journal /\ j # i
      BY DEF TypeOK
    <3>2. QED BY <3>1 DEF IdIsPosition
  <2>6. QED BY <2>3, <2>4, <2>5 DEF FoundById
<1>4. QED
  BY <1>2, <1>3, ReportSpecImpliesSpec, TypeCorrect, IdsArePositions, AcknowledgedEventsAreKept, PTL

-----------------------------------------------------------------------------
(* What is lost leaves a corrupt line of its own. *)

\* The events that are past the append and not in the journal.
Lost == {p \in Appenders : pc[p] \in {"open", "write", "replace", "done"}} \ Counted(journal)

CorruptLines == {i \in DOMAIN journal : journal[i].status = "corrupt"}

\* The inductive invariant: an append loses an event only by merging it with a
\* torn line, which then is corrupt.
LossInv ==
  Orderly => /\ IsFiniteSet(Lost)
             /\ Cardinality(Lost) <= Cardinality(CorruptLines)

LEMMA CorruptLinesFinite ==
  ASSUME TypeOK
  PROVE  IsFiniteSet(CorruptLines) /\ Cardinality(CorruptLines) \in Nat
<1>1. CorruptLines \subseteq 1..Len(journal) /\ Len(journal) \in Nat
  BY DEF CorruptLines, TypeOK
<1>2. IsFiniteSet(1..Len(journal))
  BY <1>1, FS_Interval
<1>3. QED BY <1>1, <1>2, FS_Subset, FS_CardinalityType

\* Less is lost and more is corrupt.
LEMMA LessLost ==
  ASSUME TypeOK, TypeOK', LossInv, Orderly,
         Lost' \subseteq Lost, CorruptLines \subseteq CorruptLines'
  PROVE  IsFiniteSet(Lost') /\ Cardinality(Lost') <= Cardinality(CorruptLines')
<1>1. /\ IsFiniteSet(Lost') /\ Cardinality(Lost') <= Cardinality(Lost)
      /\ Cardinality(Lost) \in Nat /\ Cardinality(Lost') \in Nat
  BY FS_Subset, FS_CardinalityType DEF LossInv
<1>2. IsFiniteSet(CorruptLines') /\ Cardinality(CorruptLines') \in Nat
  <2>1. CorruptLines' \subseteq 1..Len(journal') /\ Len(journal') \in Nat
    BY DEF CorruptLines, TypeOK
  <2>2. IsFiniteSet(1..Len(journal'))
    BY <2>1, FS_Interval
  <2>3. QED BY <2>1, <2>2, FS_Subset, FS_CardinalityType
<1>3. Cardinality(CorruptLines) <= Cardinality(CorruptLines')
  BY <1>2, FS_Subset
<1>4. QED BY <1>1, <1>2, <1>3, CorruptLinesFinite DEF LossInv

\* One more is lost and one more line is corrupt.
LEMMA OneMoreLost ==
  ASSUME TypeOK, LossInv, Orderly, NEW p, NEW n,
         Lost' \subseteq Lost \union {p},
         n \notin CorruptLines, CorruptLines' = CorruptLines \union {n}
  PROVE  IsFiniteSet(Lost') /\ Cardinality(Lost') <= Cardinality(CorruptLines')
<1> DEFINE bound == Lost \union {p}
<1>1. IsFiniteSet(Lost) /\ Cardinality(Lost) \in Nat
  BY FS_CardinalityType DEF LossInv
<1>2. IsFiniteSet(bound) /\ Cardinality(bound) \in Nat
      /\ Cardinality(bound) <= Cardinality(Lost) + 1
  <2>1. /\ IsFiniteSet(bound)
        /\ Cardinality(bound) = Cardinality(Lost) \/ Cardinality(bound) = Cardinality(Lost) + 1
    BY <1>1, FS_AddElement
  <2>2. QED BY <1>1, <2>1
<1>3. /\ IsFiniteSet(Lost') /\ Cardinality(Lost') <= Cardinality(bound)
      /\ Cardinality(Lost') \in Nat
  BY <1>2, FS_Subset, FS_CardinalityType
<1>4. Cardinality(CorruptLines') = Cardinality(CorruptLines) + 1
  BY CorruptLinesFinite, FS_AddElement
<1> HIDE DEF bound
<1>5. QED BY <1>1, <1>2, <1>3, <1>4, CorruptLinesFinite DEF LossInv

\* The two ways in which an append treats the last line.
LEMMA AppendLoses ==
  ASSUME TypeOK, TypeOK', LossInv, Orderly, NEW p \in Appenders, AppenderStep(p),
         AppendLine(p) \/ AppendCutShort(p)
  PROVE  IsFiniteSet(Lost') /\ Cardinality(Lost') <= Cardinality(CorruptLines')
<1> DEFINE n   == Len(journal)
           event == EventOf(p)
           cut == [event EXCEPT !.status = "torn"]
           merged == [journal[n] EXCEPT !.status = "corrupt"]
<1>0. /\ journal \in Seq(Line) /\ n \in Nat /\ DOMAIN journal = 1..n
      /\ event \in Line /\ event.status = "event" /\ event.by = p
      /\ cut \in Line /\ cut.status = "torn" /\ p \in Processes
  <2>1. journal \in Seq(Line) /\ n \in Nat /\ DOMAIN journal = 1..n
    BY DEF TypeOK
  <2>2. event \in Line /\ event.status = "event" /\ event.by = p
    BY DEF TypeOK, EventOf, Line
  <2>3. cut \in Line /\ cut.status = "torn"
    BY <2>2 DEF Line
  <2>4. QED BY <2>1, <2>2, <2>3 DEF Writers, Processes
<1>1. /\ \A q \in Appenders \ {p} : pc'[q] = pc[q]
      /\ pc[p] = "append"
      /\ AppendCutShort(p) => pc'[p] = "failed"
  BY <1>0 DEF AppendLine, AppendCutShort, Goto, TypeOK, Processes, Writers
<1>2. CASE EndsTorn
  <2>1. n \in DOMAIN journal /\ journal[n] \in Line /\ journal[n].status = "torn"
    <3>1. journal # << >> /\ journal[n].status = "torn"
      BY <1>2 DEF EndsTorn
    <3>2. n \in DOMAIN journal /\ journal[n] \in Line
      BY <1>0, <3>1 DEF TypeOK
    <3>3. QED BY <3>1, <3>2
  <2>2. merged \in Line /\ merged.status = "corrupt"
    BY <2>1 DEF Line
  <2>3. CASE AppendLine(p)
    <3>1. journal' = [journal EXCEPT ![n] = merged]
      BY <1>2, <2>3 DEF AppendLine, AfterAppend
    <3> HIDE DEF merged, event, cut, n
    <3>2. DOMAIN journal' = DOMAIN journal /\ journal'[n] = merged
          /\ \A i \in DOMAIN journal \ {n} : journal'[i] = journal[i]
      BY <1>0, <2>1, <3>1
    <3>3. Counted(journal') = Counted(journal)
      BY <2>1, <2>2, <3>2 DEF Counted
    <3>4. Lost' \subseteq Lost \union {p}
      BY <1>1, <3>3 DEF Lost
    <3>5. n \notin CorruptLines /\ CorruptLines' = CorruptLines \union {n}
      BY <2>1, <2>2, <3>2 DEF CorruptLines
    <3>6. QED BY <3>4, <3>5, OneMoreLost
  <2>4. CASE AppendCutShort(p)
    <3>1. journal' = journal
      BY <1>2, <2>4 DEF AppendCutShort, AfterCutAppend
    <3>2. Lost' \subseteq Lost /\ CorruptLines \subseteq CorruptLines'
      BY <1>1, <2>4, <3>1 DEF Lost, CorruptLines
    <3>3. QED BY <3>2, LessLost
  <2>5. QED BY <2>3, <2>4
<1>3. CASE ~EndsTorn
  <2>1. PICK new \in {event, cut} : /\ journal' = Append(journal, new)
                                    /\ AppendLine(p) => new = event
    BY <1>3 DEF AppendLine, AppendCutShort, AfterAppend, AfterCutAppend
  <2> HIDE DEF event, cut, merged, n
  <2>2. /\ journal'[n + 1] = new /\ \A i \in DOMAIN journal : journal'[i] = journal[i]
        /\ DOMAIN journal' = 1..(n + 1)
    BY <1>0, <2>1 DEF n
  <2>3. new.status # "corrupt" /\ (AppendLine(p) => new.status = "event" /\ new.by = p)
    BY <1>0, <2>1
  <2>4. DOMAIN journal \subseteq DOMAIN journal' /\ n + 1 \in DOMAIN journal'
    BY <1>0, <2>2
  <2>5. CorruptLines \subseteq CorruptLines'
    BY <2>2, <2>4 DEF CorruptLines
  <2>6. Counted(journal) \subseteq Counted(journal')
    BY <2>2, <2>4 DEF Counted
  <2>7. AppendLine(p) => p \in Counted(journal')
    BY <2>2, <2>3, <2>4 DEF Counted
  <2>8. Lost' \subseteq Lost
    BY <1>1, <2>6, <2>7 DEF Lost
  <2>9. QED BY <2>5, <2>8, LessLost
<1>4. QED BY <1>2, <1>3

LEMMA LossNext ==
  TypeOK /\ TypeOK' /\ GenerationInv /\ FirstUseInv /\ LossInv /\ [Next]_vars => LossInv'
<1> SUFFICES ASSUME TypeOK, TypeOK', GenerationInv, FirstUseInv, LossInv, [Next]_vars, Orderly'
             PROVE  IsFiniteSet(Lost') /\ Cardinality(Lost') <= Cardinality(CorruptLines')
  BY DEF LossInv
<1> USE DEF storeVars, readerVars
<1>0. Orderly /\ Appenders \subseteq Writers /\ Appenders \subseteq Processes
  BY DEF Next, vars, scenarioVars, Orderly, Writers, Processes
\* A step that appends nothing, and takes no appender past the append.
<1>1. ASSUME journal' = journal,
             \A p \in Appenders : pc'[p] \in {"open", "write", "replace", "done"} =>
                                    pc[p] \in {"open", "write", "replace", "done"}
      PROVE  IsFiniteSet(Lost') /\ Cardinality(Lost') <= Cardinality(CorruptLines')
  <2>1. Lost' \subseteq Lost /\ CorruptLines \subseteq CorruptLines'
    BY <1>1 DEF Lost, CorruptLines
  <2>2. QED BY <1>0, <2>1, LessLost
<1>2. ASSUME NEW p \in Writers, WriterStep(p)
      PROVE  IsFiniteSet(Lost') /\ Cardinality(Lost') <= Cardinality(CorruptLines')
  <2>1. journal' = journal
    BY <1>0, <1>2, WriterLeavesJournal
  <2>2. p \in Appenders /\ pc'[p] \in {"open", "write", "replace", "done"} =>
          pc[p] \in {"open", "write", "replace", "done"}
    BY <1>0, <1>2
    DEF WriterStep, CheckJournal, CreateJournal, CheckManifest, InitRead, OpenManifest,
        WriteManifest, ReplaceManifest, Crash, Goto, TypeOK
  <2>3. \A q \in Appenders \ {p} : pc'[q] = pc[q]
    BY <1>0, <1>2
    DEF WriterStep, CheckJournal, CreateJournal, CheckManifest, InitRead, OpenManifest,
        WriteManifest, ReplaceManifest, Crash, Goto, TypeOK
  <2>4. QED BY <1>1, <2>1, <2>2, <2>3
<1>3. ASSUME NEW p \in Appenders, AppenderStep(p)
      PROVE  IsFiniteSet(Lost') /\ Cardinality(Lost') <= Cardinality(CorruptLines')
  <2>1. CASE ReadManifest(p) \/ RejectEvent(p) \/ CountEvents(p)
    <3>1. journal' = journal
      BY <2>1 DEF ReadManifest, RejectEvent, CountEvents
    <3>2. \A q \in Appenders : pc'[q] \in {"open", "write", "replace", "done"} => pc'[q] = pc[q]
      BY <1>0, <2>1 DEF ReadManifest, RejectEvent, CountEvents, Goto, TypeOK
    <3>3. QED BY <1>1, <3>1, <3>2
  <2>2. QED BY <1>0, <1>3, <2>1, AppendLoses DEF AppenderStep
<1>4. ASSUME NEW r \in Readers, ReaderStep(r)
      PROVE  IsFiniteSet(Lost') /\ Cardinality(Lost') <= Cardinality(CorruptLines')
  <2>1. journal' = journal
    BY <1>4 DEF ReaderStep, ReaderStart, ReaderManifest, ReaderJournal
  <2>2. \A p \in Appenders : pc'[p] = pc[p]
    BY <1>0, <1>4, ProcessesAssumption
    DEF ReaderStep, ReaderStart, ReaderManifest, ReaderJournal, Goto, TypeOK
  <2>3. QED BY <1>1, <2>1, <2>2
<1>5. CASE UNCHANGED vars
  BY <1>1, <1>5 DEF vars
<1>6. QED BY <1>2, <1>3, <1>4, <1>5 DEF Next

\* The corrupt lines of a journal bound the acknowledged events that it has
\* lost, for any number of commands and faults.
THEOREM LossIsBounded == ReportSpec => []LossIsVisible
<1>1. Init => LossInv
  <2> SUFFICES ASSUME Init
               PROVE  IsFiniteSet(Lost) /\ Cardinality(Lost) <= Cardinality(CorruptLines)
    BY DEF LossInv
  <2>1. Lost = {} /\ CorruptLines = {}
    BY DEF Init, Lost, CorruptLines, Writers, Processes
  <2>2. QED BY <2>1, FS_EmptySet
<1>2. Spec => []LossInv
  BY <1>1, LossNext, TypeCorrect, GenerationInvariant, FirstUseHolds, PTL DEF Spec
<1>3. TypeOK /\ LossInv => LossIsVisible
  <2> SUFFICES ASSUME TypeOK, LossInv, Orderly
               PROVE  Cardinality(AcknowledgedNow \ Counted(journal)) <= Cardinality(CorruptLines)
    BY DEF LossIsVisible, CorruptLines
  <2> DEFINE gone == AcknowledgedNow \ Counted(journal)
  <2>1. gone \subseteq Lost
    BY DEF AcknowledgedNow, Lost
  <2>2. /\ IsFiniteSet(Lost) /\ Cardinality(Lost) <= Cardinality(CorruptLines)
        /\ Cardinality(Lost) \in Nat
    BY FS_CardinalityType DEF LossInv
  <2>3. Cardinality(gone) \in Nat /\ Cardinality(gone) <= Cardinality(Lost)
    BY <2>1, <2>2, FS_Subset, FS_CardinalityType
  <2> HIDE DEF gone
  <2>4. QED BY <2>2, <2>3, CorruptLinesFinite DEF gone
<1>4. QED BY <1>2, <1>3, ReportSpecImpliesSpec, TypeCorrect, PTL

=============================================================================

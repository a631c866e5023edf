-------------------------- MODULE LocalStoreProofs --------------------------
(***************************************************************************)
(* Theorems about LocalStore, for any number of commands and readers.      *)
(***************************************************************************)
EXTENDS LocalStore, ReplacedFileProofs, SequenceTheorems

USE ContentsAssumption, ProcessesAssumption, StoreAssumption

-----------------------------------------------------------------------------
(* Lemmas about the journal. *)

\* A complete append keeps the complete lines and explains one more
\* generation, even if it is merged with a line that was cut short.
LEMMA AppendLemma ==
  ASSUME journal \in Seq(Line), NEW line \in Line, line.status = "event",
         journal' = AfterAppend(line)
  PROVE  /\ journal' \in Seq(Line)
         /\ Explained' = Explained + 1
         /\ Len(journal') >= Len(journal)
         /\ \A i \in DOMAIN journal :
              i \in DOMAIN journal' /\ (journal[i].status = "event" => journal'[i] = journal[i])
<1>1. CASE EndsTorn
  <2> DEFINE n == Len(journal)
             merged == [journal[n] EXCEPT !.status = "corrupt"]
  <2>1. n \in DOMAIN journal /\ n \in Nat /\ journal[n] \in Line /\ journal[n].status = "torn"
    BY <1>1 DEF EndsTorn
  <2>2. merged \in Line /\ merged.status = "corrupt"
    BY <2>1 DEF Line
  <2>3. journal' = [journal EXCEPT ![n] = merged]
    BY <1>1 DEF AfterAppend
  <2> HIDE DEF merged
  <2>4. journal' \in Seq(Line) /\ Len(journal') = n /\ journal'[n] = merged
    BY <2>1, <2>2, <2>3
  <2>5. \A i \in DOMAIN journal : i # n => journal'[i] = journal[i]
    BY <2>3
  <2>6. DOMAIN journal' = DOMAIN journal
    BY <2>3
  <2>7. Explained = n
    BY <1>1, <2>1 DEF Explained
  <2>8. Explained' = 1 + n
    <3>1. ~EndsTorn'
      BY <2>2, <2>4 DEF EndsTorn
    <3> HIDE DEF n
    <3>2. QED BY <2>1, <2>4, <3>1 DEF Explained
  <2> HIDE DEF n
  <2>9. QED BY <2>1, <2>2, <2>4, <2>5, <2>6, <2>7, <2>8 DEF n
<1>2. CASE ~EndsTorn
  <2>1. journal' = Append(journal, line)
    BY <1>2 DEF AfterAppend
  <2>2. /\ journal' \in Seq(Line) /\ Len(journal') = Len(journal) + 1
        /\ journal'[Len(journal) + 1] = line
        /\ \A i \in 1..Len(journal) : journal'[i] = journal[i]
        /\ DOMAIN journal = 1..Len(journal) /\ DOMAIN journal' = 1..(Len(journal) + 1)
        /\ Len(journal) \in Nat
    BY <2>1
  <2>3. ~EndsTorn'
    BY <2>2 DEF EndsTorn
  <2>4. Explained' = Explained + 1
    BY <1>2, <2>2, <2>3 DEF Explained
  <2>5. QED BY <2>2, <2>4
<1>3. QED BY <1>1, <1>2

\* An append that is cut short keeps the complete lines and explains nothing.
LEMMA CutAppendLemma ==
  ASSUME journal \in Seq(Line), NEW line \in Line, journal' = AfterCutAppend(line)
  PROVE  /\ journal' \in Seq(Line)
         /\ Explained' = Explained
         /\ Len(journal') >= Len(journal)
         /\ \A i \in DOMAIN journal :
              i \in DOMAIN journal' /\ (journal[i].status = "event" => journal'[i] = journal[i])
<1>1. CASE EndsTorn
  <2>1. journal' = journal
    BY <1>1 DEF AfterCutAppend
  <2>2. QED BY <2>1 DEF Explained, EndsTorn
<1>2. CASE ~EndsTorn
  <2> DEFINE cut == [line EXCEPT !.status = "torn"]
  <2>1. cut \in Line /\ cut.status = "torn"
    BY DEF Line
  <2>2. journal' = Append(journal, cut)
    BY <1>2 DEF AfterCutAppend
  <2> HIDE DEF cut
  <2>3. /\ journal' \in Seq(Line) /\ Len(journal') = Len(journal) + 1
        /\ journal'[Len(journal) + 1] = cut
        /\ \A i \in 1..Len(journal) : journal'[i] = journal[i]
        /\ DOMAIN journal = 1..Len(journal) /\ DOMAIN journal' = 1..(Len(journal) + 1)
        /\ Len(journal) \in Nat
    BY <2>1, <2>2
  <2>4. EndsTorn'
    BY <2>1, <2>3 DEF EndsTorn
  <2>5. Explained' = Explained
    BY <1>2, <2>3, <2>4 DEF Explained
  <2>6. QED BY <2>3, <2>5
<1>3. QED BY <1>1, <1>2

-----------------------------------------------------------------------------
(* Type correctness. *)

\* The part of TypeOK about the processes.
ProcessTypeOK ==
  /\ pc \in [Processes -> WriterPcs \union ReaderPcs]
  /\ \A p \in Writers : pc[p] \in WriterPcs
  /\ \A r \in Readers : pc[r] \in ReaderPcs

\* A jump of a writer or of a reader to one of its labels keeps that part.
LEMMA WriterGoto ==
  ASSUME ProcessTypeOK, NEW p \in Writers, NEW label \in WriterPcs, Goto(p, label)
  PROVE  ProcessTypeOK'
BY DEF ProcessTypeOK, Goto, Processes

\* A jump of a reader to one of its labels keeps that part, too.
LEMMA ReaderGoto ==
  ASSUME ProcessTypeOK, NEW r \in Readers, NEW label \in ReaderPcs, Goto(r, label)
  PROVE  ProcessTypeOK'
BY DEF ProcessTypeOK, Goto, Processes

\* The initial states are well typed, with or without a store.
LEMMA TypeInit == Init => TypeOK
<1> SUFFICES ASSUME Init  PROVE TypeOK
  OBVIOUS
<1>1. manifest \in FileOf(Nat, Writers)
  BY DEF Init, FileWith, FileOf, Contents, Descriptors
<1>2. QED
  BY <1>1 DEF Init, TypeOK, WriterPcs, ReaderPcs, Processes

\* What every variable but pc must be for the types to hold.
DataTypeOK ==
  /\ existing \in BOOLEAN
  /\ oneAtATime \in BOOLEAN
  /\ journal \in Seq(Line)
  /\ journalMade \in BOOLEAN
  /\ manifest \in FileOf(Nat, Writers)
  /\ generation \in [Processes -> Nat]
  /\ eventId \in [Appenders -> Nat]
  /\ seen \in [Readers -> Seq(Line)]
  /\ initialized \in [Readers -> BOOLEAN]
  /\ faults \in 0..MaxFaults

\* The type invariant is the part about the processes and the part about the
\* store.
LEMMA TypeOKParts == TypeOK <=> ProcessTypeOK /\ DataTypeOK
BY DEF TypeOK, ProcessTypeOK, DataTypeOK

\* The steps of a writer keep the types.
LEMMA WriterType ==
  ASSUME TypeOK, NEW p \in Writers, WriterStep(p), UNCHANGED scenarioVars
  PROVE  TypeOK'
<1> USE DEF scenarioVars, storeVars, readerVars
<1>0. ProcessTypeOK /\ DataTypeOK /\ p \in Processes
  BY TypeOKParts DEF Processes
<1>1. PICK label \in WriterPcs : Goto(p, label)
  BY DEF WriterStep, CheckJournal, CreateJournal, CheckManifest, InitRead, OpenManifest,
         WriteManifest, ReplaceManifest, Crash, WriterPcs, Ended
<1>2. ProcessTypeOK'
  BY <1>0, <1>1, WriterGoto
<1>3. DataTypeOK'
  <2>1. CASE CheckJournal(p) \/ InitRead(p)
    BY <1>0, <2>1 DEF CheckJournal, InitRead, DataTypeOK
  <2>2. CASE CreateJournal(p)
    BY <1>0, <2>2 DEF CreateJournal, DataTypeOK
  <2>3. CASE CheckManifest(p)
    BY <1>0, <2>3 DEF CheckManifest, DataTypeOK
  <2>4. CASE OpenManifest(p)
    BY <1>0, <2>4, OpenedFile DEF OpenManifest, DataTypeOK
  <2>5. CASE WriteManifest(p)
    <3>1. generation[p] \in Nat  BY <1>0 DEF DataTypeOK
    <3>2. QED BY <1>0, <2>5, <3>1, WrittenFile DEF WriteManifest, DataTypeOK
  <2>6. CASE ReplaceManifest(p)
    BY <1>0, <2>6, ReplacedFileContents DEF ReplaceManifest, DataTypeOK
  <2>7. CASE Crash(p)
    BY <1>0, <2>7, AbandonedFile DEF Crash, Fault, DataTypeOK
  <2>8. QED BY <2>1, <2>2, <2>3, <2>4, <2>5, <2>6, <2>7 DEF WriterStep
<1>4. QED
  BY <1>2, <1>3 DEF TypeOK, ProcessTypeOK, DataTypeOK

\* The steps of append_event keep the types.
LEMMA AppenderType ==
  ASSUME TypeOK, NEW p \in Appenders, AppenderStep(p), UNCHANGED scenarioVars
  PROVE  TypeOK'
<1> USE DEF scenarioVars, storeVars, readerVars
<1>0. ProcessTypeOK /\ DataTypeOK /\ p \in Writers /\ p \in Processes
  BY TypeOKParts DEF Writers, Processes
<1>1. PICK label \in WriterPcs : Goto(p, label)
  BY DEF AppenderStep, ReadManifest, RejectEvent, CountEvents, AppendLine, AppendCutShort,
         WriterPcs, Ended
<1>2. ProcessTypeOK'
  BY <1>0, <1>1, WriterGoto
<1>3. EventOf(p) \in Line /\ EventOf(p).status = "event"
  BY <1>0 DEF EventOf, Line, DataTypeOK
<1>4. DataTypeOK'
  <2>1. CASE ReadManifest(p)
    <3>1. manifest.target \notin Unreadable => manifest.target \in Nat
      BY <1>0 DEF DataTypeOK, FileOf, Contents, Unreadable
    <3>2. QED BY <1>0, <2>1, <3>1 DEF ReadManifest, DataTypeOK
  <2>2. CASE RejectEvent(p)
    BY <1>0, <2>2 DEF RejectEvent, DataTypeOK
  <2>3. CASE CountEvents(p)
    <3>1. Len(journal) + 1 \in Nat
      BY <1>0 DEF DataTypeOK
    <3>2. QED BY <1>0, <2>3, <3>1 DEF CountEvents, DataTypeOK
  <2>4. CASE AppendLine(p)
    <3>1. journal' \in Seq(Line)
      BY <1>0, <1>3, <2>4, AppendLemma DEF AppendLine, DataTypeOK
    <3>2. QED BY <1>0, <2>4, <3>1 DEF AppendLine, DataTypeOK
  <2>5. CASE AppendCutShort(p)
    <3>1. journal' \in Seq(Line)
      BY <1>0, <1>3, <2>5, CutAppendLemma DEF AppendCutShort, DataTypeOK
    <3>2. QED BY <1>0, <2>5, <3>1 DEF AppendCutShort, Fault, DataTypeOK
  <2>6. QED BY <2>1, <2>2, <2>3, <2>4, <2>5 DEF AppenderStep
<1>5. QED
  BY <1>2, <1>4 DEF TypeOK, ProcessTypeOK, DataTypeOK

\* The steps of a reader keep the types.
LEMMA ReaderType ==
  ASSUME TypeOK, NEW r \in Readers, ReaderStep(r), UNCHANGED scenarioVars
  PROVE  TypeOK'
<1> USE DEF scenarioVars, storeVars, readerVars
<1>0. ProcessTypeOK /\ DataTypeOK /\ r \in Processes
  BY TypeOKParts DEF Processes
<1>1. PICK label \in ReaderPcs : Goto(r, label)
  BY DEF ReaderStep, ReaderStart, ReaderManifest, ReaderJournal, ReaderPcs, Ended
<1>2. ProcessTypeOK'
  BY <1>0, <1>1, ReaderGoto
<1>3. DataTypeOK'
  <2>1. CASE ReaderStart(r)
    <3>1. (manifest.target # Nothing) \in BOOLEAN
      OBVIOUS
    <3>2. initialized' \in [Readers -> BOOLEAN]
      BY <1>0, <2>1, <3>1 DEF ReaderStart, DataTypeOK
    <3>3. QED BY <1>0, <2>1, <3>2 DEF ReaderStart, DataTypeOK
  <2>2. CASE ReaderManifest(r)
    <3>1. manifest.target \notin {Nothing, Torn} => manifest.target \in Nat
      BY <1>0 DEF DataTypeOK, FileOf, Contents
    <3>2. generation' \in [Processes -> Nat]
      <4>1. CASE manifest.target = Torn
        BY <1>0, <2>2, <4>1 DEF ReaderManifest, DataTypeOK
      <4>2. CASE manifest.target # Torn
        <5>1. PICK n \in Nat : generation' = [generation EXCEPT ![r] = n]
          BY <2>2, <3>1, <4>2 DEF ReaderManifest
        <5>2. QED BY <1>0, <5>1 DEF DataTypeOK
      <4>3. QED BY <4>1, <4>2
    <3>3. QED BY <1>0, <2>2, <3>2 DEF ReaderManifest, DataTypeOK
  <2>3. CASE ReaderJournal(r)
    BY <1>0, <2>3 DEF ReaderJournal, DataTypeOK
  <2>4. QED BY <2>1, <2>2, <2>3 DEF ReaderStep
<1>4. QED
  BY <1>2, <1>3 DEF TypeOK, ProcessTypeOK, DataTypeOK

\* The types hold in every reachable state.
THEOREM TypeCorrect == Spec => []TypeOK
<1>1. TypeOK /\ [Next]_vars => TypeOK'
  <2> SUFFICES ASSUME TypeOK, [Next]_vars  PROVE TypeOK'
    OBVIOUS
  <2>1. CASE Next
    BY <2>1, WriterType, AppenderType, ReaderType DEF Next
  <2>2. CASE UNCHANGED vars
    BY <2>2 DEF vars, scenarioVars, storeVars, readerVars, TypeOK
  <2>3. QED BY <2>1, <2>2
<1>2. QED BY <1>1, TypeInit, PTL DEF Spec

-----------------------------------------------------------------------------
(* The generation never gets ahead of the journal. *)

\* The generations that the journal explains are those up to a natural number.
LEMMA ExplainedRange ==
  ASSUME journal \in Seq(Line)
  PROVE  Explained \in Int /\ Explained <= 1 + Len(journal)
BY DEF Explained

\* A process keeps its part of the invariant while others explain more.
LEMMA PartsKept ==
  ASSUME TypeOK, Explained' \in Int, Explained <= Explained'
  PROVE  /\ \A p \in Writers :
              WriterInv(p) /\ pc'[p] = pc[p] /\ generation'[p] = generation[p] => WriterInv(p)'
         /\ \A r \in Readers :
              /\ ReaderInv(r) /\ pc'[r] = pc[r] /\ generation'[r] = generation[r]
              /\ seen'[r] = seen[r] /\ initialized'[r] = initialized[r]
              => ReaderInv(r)'
         /\ ContentInv /\ manifest' = manifest => ContentInv'
<1>1. Explained \in Int
  BY ExplainedRange DEF TypeOK
<1>2. \A p \in Processes : generation[p] \in Int
  BY DEF TypeOK
<1>3. QED
  BY <1>1, <1>2 DEF WriterInv, ReaderInv, ContentInv, Processes

\* A step of a writer preserves the invariant.
LEMMA WriterInvariant ==
  ASSUME TypeOK, GenerationInv, existing, NEW p \in Writers, WriterStep(p)
  PROVE  GenerationInv'
<1> USE DEF scenarioVars, storeVars, readerVars
<1>0. /\ journalMade /\ ContentInv /\ WriterInv(p) /\ p \in Processes
      /\ \A q \in Writers : WriterInv(q)
      /\ \A r \in Readers : ReaderInv(r)
  BY DEF GenerationInv, Processes
<1>1. ~CreateJournal(p)
  BY <1>0 DEF CreateJournal, WriterInv
<1>2. journal' = journal /\ journalMade' = journalMade /\ UNCHANGED readerVars
  BY <1>1 DEF WriterStep, CheckJournal, CheckManifest, InitRead, OpenManifest, WriteManifest,
              ReplaceManifest, Crash
<1>3. Explained' = Explained /\ Explained \in Int
  BY <1>2, ExplainedRange DEF Explained, EndsTorn, TypeOK
<1>4. generation' = generation
  BY <1>0, <1>1 DEF WriterStep, CheckJournal, CheckManifest, InitRead, OpenManifest,
                    WriteManifest, ReplaceManifest, Crash, ContentInv
<1>5. PICK label : Goto(p, label)
  BY DEF WriterStep, CheckJournal, CreateJournal, CheckManifest, InitRead, OpenManifest,
         WriteManifest, ReplaceManifest, Crash
<1>6. pc'[p] = label /\ \A q \in Processes \ {p} : pc'[q] = pc[q]
  BY <1>0, <1>5 DEF Goto, TypeOK
<1>7. WriterInv(p)'
  <2>1. pc'[p] \notin {"create-journal", "init-open", "init-write", "init-replace"}
    BY <1>0, <1>1, <1>6
    DEF WriterStep, CheckJournal, CheckManifest, InitRead, OpenManifest, WriteManifest,
        ReplaceManifest, Crash, Goto, TypeOK, WriterInv, ContentInv, Ended
  <2>2. pc'[p] \in {"count", "append", "open", "write", "replace"}
          => pc[p] \in {"count", "append", "open", "write", "replace"}
    BY <1>0, <1>1, <1>6
    DEF WriterStep, CheckJournal, CheckManifest, InitRead, OpenManifest, WriteManifest,
        ReplaceManifest, Crash, Goto, TypeOK, WriterInv, ContentInv, Ended
  <2>3. QED BY <1>0, <1>3, <1>4, <2>1, <2>2 DEF WriterInv
<1>8. ContentInv'
  <2>0. manifest \in FileOf(Nat, Writers) /\ generation[p] \in Nat
    BY <1>0 DEF TypeOK
  <2>1. CASE CheckJournal(p) \/ CheckManifest(p) \/ InitRead(p)
    BY <1>0, <1>3, <2>1 DEF CheckJournal, CheckManifest, InitRead, ContentInv
  <2>2. CASE OpenManifest(p)
    BY <1>0, <1>3, <2>0, <2>2, OpenedFile DEF OpenManifest, ContentInv
  <2>3. CASE WriteManifest(p)
    <3>1. /\ manifest'.target \in {manifest.target, generation[p], Torn}
          /\ manifest'.tmp \in {manifest.tmp, generation[p], Torn}
      BY <2>0, <2>3, WrittenFile DEF WriteManifest
    <3>2. generation[p] <= Explained
      BY <1>0, <2>3 DEF WriteManifest, WriterInv
    <3>3. QED BY <1>0, <1>3, <2>0, <3>1, <3>2 DEF ContentInv
  <2>4. CASE ReplaceManifest(p)
    BY <1>0, <1>3, <2>0, <2>4, ReplacedFileContents DEF ReplaceManifest, ContentInv
  <2>5. CASE Crash(p)
    BY <1>0, <1>3, <2>0, <2>5, AbandonedFile DEF Crash, ContentInv
  <2>6. QED BY <1>1, <2>1, <2>2, <2>3, <2>4, <2>5 DEF WriterStep
<1>9. \A q \in Writers : WriterInv(q)'
  BY <1>0, <1>3, <1>4, <1>6, <1>7, PartsKept DEF Processes
<1>10. \A r \in Readers : ReaderInv(r)'
  BY <1>0, <1>2, <1>3, <1>4, <1>6, PartsKept DEF Processes
<1>11. QED BY <1>0, <1>2, <1>8, <1>9, <1>10 DEF GenerationInv

\* A step of append_event preserves the invariant: the line that is appended
\* explains the generation that will be written.
LEMMA AppenderInvariant ==
  ASSUME TypeOK, GenerationInv, existing, NEW p \in Appenders, AppenderStep(p)
  PROVE  GenerationInv'
<1> USE DEF scenarioVars, storeVars, readerVars
<1>0. /\ journalMade /\ ContentInv /\ WriterInv(p) /\ p \in Processes /\ p \in Writers
      /\ journal \in Seq(Line) /\ EventOf(p) \in Line /\ EventOf(p).status = "event"
      /\ generation[p] \in Nat /\ Explained \in Int
      /\ \A q \in Writers : WriterInv(q)
      /\ \A r \in Readers : ReaderInv(r)
  BY ExplainedRange DEF GenerationInv, Processes, Writers, TypeOK, EventOf, Line
<1>1. UNCHANGED <<journalMade, manifest, readerVars>>
  BY DEF AppenderStep, ReadManifest, RejectEvent, CountEvents, AppendLine, AppendCutShort
<1>2. PICK label : Goto(p, label)
  BY DEF AppenderStep, ReadManifest, RejectEvent, CountEvents, AppendLine, AppendCutShort
<1>3. /\ pc'[p] = label /\ \A q \in Processes \ {p} : pc'[q] = pc[q]
      /\ \A q \in Processes \ {p} : generation'[q] = generation[q]
  BY <1>0, <1>2
  DEF Goto, TypeOK, AppenderStep, ReadManifest, RejectEvent, CountEvents, AppendLine,
      AppendCutShort
<1>4. /\ Explained' \in Int /\ Explained <= Explained'
      /\ WriterInv(p)'
  <2>1. CASE ReadManifest(p)
    <3>1. Explained' = Explained
      BY <2>1 DEF ReadManifest, Explained, EndsTorn
    <3>2. manifest.target \notin Unreadable => manifest.target \in Nat
      BY DEF TypeOK, FileOf, Contents, Unreadable
    <3>3. pc'[p] = "failed" \/ (pc'[p] = "count" /\ generation'[p] <= Explained)
      BY <1>0, <2>1, <3>2 DEF ReadManifest, Goto, TypeOK, ContentInv
    <3>4. QED BY <1>0, <3>1, <3>3 DEF WriterInv
  <2>2. CASE RejectEvent(p) \/ CountEvents(p)
    <3>1. Explained' = Explained /\ generation' = generation
      BY <2>2 DEF RejectEvent, CountEvents, Explained, EndsTorn
    <3>2. pc[p] = "count" /\ pc'[p] \in {"failed", "append"}
      BY <1>0, <2>2 DEF RejectEvent, CountEvents, Goto, TypeOK
    <3>3. QED BY <1>0, <3>1, <3>2 DEF WriterInv
  <2>3. CASE AppendLine(p)
    <3>1. Explained' = Explained + 1
      BY <1>0, <2>3, AppendLemma DEF AppendLine
    <3>2. pc[p] = "append" /\ pc'[p] = "open" /\ generation'[p] = generation[p] + 1
      BY <1>0, <2>3 DEF AppendLine, Goto, TypeOK
    <3>3. QED BY <1>0, <3>1, <3>2 DEF WriterInv
  <2>4. CASE AppendCutShort(p)
    <3>1. Explained' = Explained
      BY <1>0, <2>4, CutAppendLemma DEF AppendCutShort
    <3>2. pc'[p] = "failed"
      BY <1>0, <2>4 DEF AppendCutShort, Goto, TypeOK
    <3>3. QED BY <1>0, <3>1, <3>2 DEF WriterInv
  <2>5. QED BY <2>1, <2>2, <2>3, <2>4 DEF AppenderStep
<1>5. \A q \in Writers : WriterInv(q)'
  BY <1>0, <1>3, <1>4, PartsKept DEF Processes
<1>6. \A r \in Readers : ReaderInv(r)'
  BY <1>0, <1>1, <1>3, <1>4, PartsKept DEF Processes
<1>7. ContentInv'
  BY <1>0, <1>1, <1>4, PartsKept
<1>8. QED BY <1>0, <1>1, <1>5, <1>6, <1>7 DEF GenerationInv

\* A step of summarize preserves the invariant: what the manifest counted when
\* it was read, the journal explains when it is read later.
LEMMA ReaderInvariant ==
  ASSUME TypeOK, GenerationInv, existing, NEW r \in Readers, ReaderStep(r)
  PROVE  GenerationInv'
<1> USE DEF scenarioVars, storeVars, readerVars
<1>0. /\ journalMade /\ ContentInv /\ ReaderInv(r) /\ r \in Processes
      /\ \A q \in Writers : WriterInv(q)
      /\ \A q \in Readers : ReaderInv(q)
      /\ Explained \in Int /\ Explained <= 1 + Len(journal)
      /\ Len(journal) \in Nat /\ generation[r] \in Nat
  BY ExplainedRange DEF GenerationInv, Processes, TypeOK
<1>1. /\ UNCHANGED storeVars
      /\ \A q \in Processes \ {r} : pc'[q] = pc[q] /\ generation'[q] = generation[q]
      /\ \A q \in Readers \ {r} : seen'[q] = seen[q] /\ initialized'[q] = initialized[q]
  BY DEF ReaderStep, ReaderStart, ReaderManifest, ReaderJournal, Goto, TypeOK
<1>2. Explained' = Explained
  BY <1>1 DEF Explained, EndsTorn
<1>3. ReaderInv(r)'
  <2>1. CASE ReaderStart(r)
    <3>1. pc'[r] = "read" /\ initialized'[r] = TRUE
      BY <1>0, <2>1 DEF ReaderStart, Goto, TypeOK, ContentInv
    <3>2. QED BY <3>1 DEF ReaderInv
  <2>2. CASE ReaderManifest(r)
    <3>1. manifest.target \notin {Nothing, Torn} => manifest.target \in Nat
      BY DEF TypeOK, FileOf, Contents
    <3>2. /\ initialized'[r] = initialized[r] /\ initialized[r]
          /\ pc'[r] = "failed" \/ (pc'[r] = "journal" /\ generation'[r] <= Explained)
      BY <1>0, <2>2, <3>1 DEF ReaderManifest, Goto, TypeOK, ContentInv, ReaderInv
    <3>3. QED BY <1>2, <3>2 DEF ReaderInv
  <2>3. CASE ReaderJournal(r)
    <3>1. initialized[r] /\ generation[r] <= Explained
      BY <1>0, <2>3 DEF ReaderJournal, ReaderInv
    <3>2. pc'[r] = "done" /\ seen'[r] = journal /\ generation'[r] = generation[r]
      BY <1>0, <2>3, <3>1 DEF ReaderJournal, Goto, TypeOK
    <3>3. QED BY <1>0, <3>1, <3>2 DEF ReaderInv
  <2>4. QED BY <2>1, <2>2, <2>3 DEF ReaderStep
<1>4. \A q \in Readers : ReaderInv(q)'
  BY <1>0, <1>1, <1>2, <1>3, PartsKept DEF Processes
<1>5. /\ \A q \in Writers : WriterInv(q)'
      /\ ContentInv'
  BY <1>0, <1>1, <1>2, PartsKept DEF Processes
<1>6. QED BY <1>0, <1>1, <1>4, <1>5 DEF GenerationInv

\* A store that was just initialized has generation 1 and no events.
LEMMA InvariantInit == Init => GenerationInv
<1> SUFFICES ASSUME Init, existing  PROVE GenerationInv
  BY DEF GenerationInv
<1>1. Explained = 1
  BY DEF Init, Explained, EndsTorn
<1>2. manifest.target = 1 /\ manifest.tmp = Nothing
  BY DEF Init, FileWith
<1>3. QED
  BY <1>1, <1>2 DEF Init, GenerationInv, ContentInv, WriterInv, ReaderInv, Processes

\* In a store that was initialized before, the invariant always holds.
THEOREM GenerationInvariant == Spec => []GenerationInv
<1>1. TypeOK /\ GenerationInv /\ [Next]_vars => GenerationInv'
  <2> SUFFICES ASSUME TypeOK, GenerationInv, [Next]_vars, existing'
               PROVE  GenerationInv'
    BY DEF GenerationInv
  <2>0. existing
    BY DEF Next, vars, scenarioVars
  <2>1. CASE Next
    BY <2>0, <2>1, WriterInvariant, AppenderInvariant, ReaderInvariant DEF Next
  <2>2. CASE UNCHANGED vars
    BY <2>2
    DEF vars, scenarioVars, storeVars, readerVars, GenerationInv, ContentInv, WriterInv, ReaderInv,
        Explained, EndsTorn
  <2>3. QED BY <2>1, <2>2
<1>2. QED BY <1>1, InvariantInit, TypeCorrect, PTL DEF Spec

\* Readers find the generation explained by the journal: summarize reads the
\* manifest first, append_event writes it last.
THEOREM ReadersFindGenerationExplained == Spec => []GenerationExplained
<1>1. GenerationInv => GenerationExplained
  BY DEF GenerationInv, GenerationExplained, ReaderInv
<1>2. QED BY <1>1, GenerationInvariant, PTL

-----------------------------------------------------------------------------
(* The journal only grows. *)

\* Initially no command runs, and without a journal there are no lines.
LEMMA FirstUseInit == Init => FirstUseInv
BY DEF Init, FirstUseInv, Idle, Processes

\* No step of a command lets another one truncate what it has written.
LEMMA FirstUseNext == TypeOK /\ FirstUseInv /\ [Next]_vars => FirstUseInv'
<1> SUFFICES ASSUME TypeOK, FirstUseInv, [Next]_vars, oneAtATime'
             PROVE  FirstUseInv'
  BY DEF FirstUseInv
<1> USE DEF storeVars, readerVars
<1>0. oneAtATime /\ journal \in Seq(Line)
  BY DEF Next, vars, scenarioVars, TypeOK
<1>1. ASSUME NEW p \in Writers, NEW label, Goto(p, label),
             \A q \in Writers \ {p} : pc[q] \in Idle,
             label = "create-journal" => journal' = << >>,
             label \notin Idle \union {"create-journal"} => journalMade',
             ~journalMade' => journal' = << >>
      PROVE  FirstUseInv'
  <2>1. /\ pc'[p] = label
        /\ \A q \in Writers \ {p} : pc'[q] = pc[q]
    BY <1>1 DEF Goto, TypeOK, Processes
  <2>2. \A q \in Writers \ {p} : pc'[q] \in Idle
    BY <1>1, <2>1
  <2>3. \A q, s \in Writers : q = s \/ pc'[q] \in Idle \/ pc'[s] \in Idle
    BY <2>2
  <2>4. "create-journal" \notin Idle
    BY DEF Idle, Ended
  <2>5. \A q \in Writers :
          /\ pc'[q] = "create-journal" => journal' = << >>
          /\ pc'[q] \notin Idle \union {"create-journal"} => journalMade'
    BY <1>1, <2>1, <2>2, <2>4
  <2>6. QED BY <1>1, <2>3, <2>5 DEF FirstUseInv, Idle, Ended
<1>2. ASSUME NEW p \in Writers, WriterStep(p)  PROVE FirstUseInv'
  <2>1. \A q \in Writers \ {p} : pc[q] \in Idle
    BY <1>0, <1>2
    DEF FirstUseInv, Idle, Ended, WriterStep, CheckJournal, MayStart, CreateJournal, CheckManifest,
        InitRead, OpenManifest, WriteManifest, ReplaceManifest, Crash
  <2>2. CASE CheckJournal(p)
    BY <1>0, <1>1, <2>1, <2>2 DEF CheckJournal, MayStart, FirstUseInv
  <2>3. CASE CreateJournal(p)
    BY <1>1, <2>1, <2>3 DEF CreateJournal
  <2>4. CASE CheckManifest(p) \/ InitRead(p) \/ OpenManifest(p) \/ WriteManifest(p)
             \/ ReplaceManifest(p)
    <3>1. journalMade /\ journalMade' = journalMade /\ journal' = journal
      BY <1>0, <2>4
      DEF CheckManifest, InitRead, OpenManifest, WriteManifest, ReplaceManifest, FirstUseInv,
          Idle, Ended
    <3>2. PICK label : Goto(p, label) /\ label # "create-journal"
      BY <2>4 DEF CheckManifest, InitRead, OpenManifest, WriteManifest, ReplaceManifest
    <3>3. QED BY <1>1, <2>1, <3>1, <3>2
  <2>5. CASE Crash(p)
    BY <1>0, <1>1, <2>1, <2>5 DEF Crash, FirstUseInv, Idle, Ended
  <2>6. QED BY <1>2, <2>2, <2>3, <2>4, <2>5 DEF WriterStep
<1>3. ASSUME NEW p \in Appenders, AppenderStep(p)  PROVE FirstUseInv'
  <2>0. p \in Writers
    BY DEF Writers
  <2>1. /\ \A q \in Writers \ {p} : pc[q] \in Idle
        /\ journalMade /\ journalMade' = journalMade
    BY <1>0, <1>3, <2>0
    DEF FirstUseInv, Idle, Ended, AppenderStep, ReadManifest, RejectEvent, CountEvents, AppendLine,
        AppendCutShort
  <2>2. PICK label : Goto(p, label) /\ label # "create-journal"
    BY <1>3 DEF AppenderStep, ReadManifest, RejectEvent, CountEvents, AppendLine, AppendCutShort
  <2>3. QED BY <1>1, <2>0, <2>1, <2>2
<1>4. ASSUME NEW r \in Readers, ReaderStep(r)  PROVE FirstUseInv'
  <2>1. journal' = journal /\ journalMade' = journalMade
    BY <1>4 DEF ReaderStep, ReaderStart, ReaderManifest, ReaderJournal
  <2>2. \A p \in Writers : pc'[p] = pc[p]
    BY <1>4, ProcessesAssumption
    DEF ReaderStep, ReaderStart, ReaderManifest, ReaderJournal, Goto, TypeOK, Processes
  <2>3. QED BY <1>0, <2>1, <2>2 DEF FirstUseInv
<1>5. CASE UNCHANGED vars
  BY <1>5 DEF vars, scenarioVars, FirstUseInv
<1>6. QED BY <1>2, <1>3, <1>4, <1>5 DEF Next

\* No command ever loses or changes a complete line of the journal of an
\* initialized store, nor one of any store while commands follow one another.
THEOREM LinesAreKept == Spec => JournalIsAppendOnly
<1> USE DEF storeVars
<1>1. TypeOK /\ GenerationInv /\ FirstUseInv /\ [Next]_vars
        => [existing \/ oneAtATime => KeepsLines]_vars
  <2> SUFFICES ASSUME TypeOK, GenerationInv, FirstUseInv, Next, existing \/ oneAtATime
               PROVE  KeepsLines
    OBVIOUS
  <2>1. ASSUME NEW p \in Writers, WriterStep(p)  PROVE KeepsLines
    <3>1. journal' = journal \/ journal = << >>
      BY <2>1
      DEF WriterStep, CheckJournal, CreateJournal, CheckManifest, InitRead, OpenManifest,
          WriteManifest, ReplaceManifest, Crash, GenerationInv, WriterInv, FirstUseInv
    <3>2. QED BY <3>1 DEF KeepsLines
  <2>2. ASSUME NEW p \in Appenders, AppenderStep(p)  PROVE KeepsLines
    <3>1. EventOf(p) \in Line /\ EventOf(p).status = "event" /\ journal \in Seq(Line)
      BY DEF EventOf, Line, TypeOK
    <3>2. CASE AppendLine(p)
      BY <3>1, <3>2, AppendLemma DEF AppendLine, KeepsLines
    <3>3. CASE AppendCutShort(p)
      BY <3>1, <3>3, CutAppendLemma DEF AppendCutShort, KeepsLines
    <3>4. CASE ReadManifest(p) \/ RejectEvent(p) \/ CountEvents(p)
      BY <3>4 DEF ReadManifest, RejectEvent, CountEvents, KeepsLines
    <3>5. QED BY <2>2, <3>2, <3>3, <3>4 DEF AppenderStep
  <2>3. ASSUME NEW r \in Readers, ReaderStep(r)  PROVE KeepsLines
    BY <2>3 DEF ReaderStep, ReaderStart, ReaderManifest, ReaderJournal, KeepsLines
  <2>4. QED BY <2>1, <2>2, <2>3 DEF Next
<1>2. QED
  BY <1>1, FirstUseInit, FirstUseNext, TypeCorrect, GenerationInvariant, PTL
  DEF Spec, JournalIsAppendOnly

-----------------------------------------------------------------------------
(* Commands that follow one another. *)

\* Each event of the journal has its position as its id.
Positioned == \A i \in DOMAIN journal : journal[i].status = "event" => journal[i].id = i

IdInv ==
  oneAtATime =>
    /\ Positioned
    /\ \A p \in Appenders : pc[p] = "append" => eventId[p] = Len(journal) + 1

ManifestInv ==
  oneAtATime =>
    /\ manifest.target # Torn
    /\ \A p \in Writers :
         /\ pc[p] \in {"init-write", "write"} => EmptyTmp(manifest, p)
         /\ pc[p] \in {"init-replace", "replace"} => manifest.tmp # Torn

\* A line with the next position as its id keeps the positions, be it whole,
\* cut short or merged.
LEMMA PositionLemma ==
  ASSUME journal \in Seq(Line), Positioned, NEW line \in Line, line.id = Len(journal) + 1,
         journal' \in {AfterAppend(line), AfterCutAppend(line)}
  PROVE  Positioned'
<1>1. CASE EndsTorn
  <2> DEFINE n == Len(journal)
             merged == [journal[n] EXCEPT !.status = "corrupt"]
  <2>1. n \in DOMAIN journal /\ journal[n] \in Line /\ journal[n].status = "torn"
    BY <1>1 DEF EndsTorn
  <2>2. merged.status = "corrupt"
    BY <2>1 DEF Line
  <2>3. journal' = journal \/ journal' = [journal EXCEPT ![n] = merged]
    BY <1>1 DEF AfterAppend, AfterCutAppend
  <2> HIDE DEF merged, n
  <2>4. QED BY <2>1, <2>2, <2>3 DEF Positioned
<1>2. CASE ~EndsTorn
  <2> DEFINE cut == [line EXCEPT !.status = "torn"]
  <2>1. cut \in Line /\ cut.status = "torn"
    BY DEF Line
  <2>2. PICK new \in {line, cut} : journal' = Append(journal, new)
    BY <1>2 DEF AfterAppend, AfterCutAppend
  <2>3. new \in Line /\ (new.status = "event" => new.id = Len(journal) + 1)
    BY <2>1
  <2> HIDE DEF cut
  <2>4. /\ journal'[Len(journal) + 1] = new
        /\ \A i \in 1..Len(journal) : journal'[i] = journal[i]
        /\ DOMAIN journal = 1..Len(journal) /\ DOMAIN journal' = 1..(Len(journal) + 1)
        /\ Len(journal) \in Nat
    BY <2>2, <2>3
  <2>5. QED BY <2>3, <2>4 DEF Positioned
<1>3. QED BY <1>1, <1>2

\* What the labels of a step have in common.
LEMMA OtherWritersIdle ==
  ASSUME TypeOK, FirstUseInv, oneAtATime, NEW p \in Writers, NEW label, Goto(p, label),
         pc[p] \notin Idle
  PROVE  /\ pc'[p] = label
         /\ \A q \in Writers \ {p} : pc[q] \in Idle /\ pc'[q] = pc[q]
BY DEF Goto, TypeOK, Processes, FirstUseInv

LEMMA IdNext == TypeOK /\ FirstUseInv /\ IdInv /\ [Next]_vars => IdInv'
<1> SUFFICES ASSUME TypeOK, FirstUseInv, IdInv, [Next]_vars, oneAtATime'
             PROVE  IdInv'
  BY DEF IdInv
<1> USE DEF storeVars, readerVars
<1>0. /\ oneAtATime /\ journal \in Seq(Line) /\ Positioned
      /\ \A p \in Appenders : pc[p] = "append" => eventId[p] = Len(journal) + 1
  BY DEF Next, vars, scenarioVars, TypeOK, IdInv
<1>1. ASSUME journal' = journal, eventId' = eventId,
             \A p \in Appenders : pc'[p] = "append" => pc[p] = "append"
      PROVE  IdInv'
  BY <1>0, <1>1 DEF IdInv, Positioned
<1>2. ASSUME NEW p \in Writers, WriterStep(p)  PROVE IdInv'
  <2>1. PICK label : Goto(p, label) /\ label # "append"
    BY <1>2
    DEF WriterStep, CheckJournal, CreateJournal, CheckManifest, InitRead, OpenManifest,
        WriteManifest, ReplaceManifest, Crash
  <2>2. \A q \in Appenders : pc'[q] = "append" => pc[q] = "append"
    BY <2>1 DEF Goto, TypeOK, Processes, Writers
  <2>3. CASE CreateJournal(p)
    <3>1. pc[p] \notin Idle
      BY <2>3 DEF CreateJournal, Idle, Ended
    <3>2. \A q \in Appenders : pc'[q] # "append"
      BY <1>0, <2>1, <3>1, OtherWritersIdle DEF Idle, Ended, Writers
    <3>3. Positioned'
      BY <2>3 DEF CreateJournal, Positioned
    <3>4. QED BY <3>2, <3>3 DEF IdInv
  <2>4. CASE ~CreateJournal(p)
    <3>1. journal' = journal /\ eventId' = eventId
      BY <1>2, <2>4
      DEF WriterStep, CheckJournal, CheckManifest, InitRead, OpenManifest, WriteManifest,
          ReplaceManifest, Crash
    <3>2. QED BY <1>1, <2>2, <3>1
  <2>5. QED BY <2>3, <2>4
<1>3. ASSUME NEW p \in Appenders, AppenderStep(p)  PROVE IdInv'
  <2>0. p \in Writers /\ pc[p] \notin Idle
    BY <1>3
    DEF Writers, Idle, Ended, AppenderStep, ReadManifest, RejectEvent, CountEvents, AppendLine,
        AppendCutShort
  <2>1. PICK label : Goto(p, label)
    BY <1>3 DEF AppenderStep, ReadManifest, RejectEvent, CountEvents, AppendLine, AppendCutShort
  <2>2. pc'[p] = label /\ \A q \in Appenders \ {p} : pc'[q] # "append"
    BY <1>0, <2>0, <2>1, OtherWritersIdle DEF Idle, Ended, Writers
  <2>3. CASE ReadManifest(p) \/ RejectEvent(p)
    <3>1. pc'[p] # "append" /\ journal' = journal /\ eventId' = eventId
      BY <2>3, <2>0 DEF ReadManifest, RejectEvent, Goto, TypeOK, Processes
    <3>2. QED BY <1>1, <2>2, <3>1
  <2>4. CASE CountEvents(p)
    <3>1. journal' = journal /\ eventId'[p] = Len(journal) + 1
      BY <2>4 DEF CountEvents, TypeOK
    <3>2. QED BY <1>0, <2>2, <3>1 DEF IdInv, Positioned
  <2>5. CASE AppendLine(p) \/ AppendCutShort(p)
    <3>1. /\ EventOf(p) \in Line
          /\ EventOf(p).id = Len(journal) + 1
      BY <1>0, <2>5 DEF AppendLine, AppendCutShort, EventOf, Line, TypeOK
    <3>2. journal' \in {AfterAppend(EventOf(p)), AfterCutAppend(EventOf(p))}
      BY <2>5 DEF AppendLine, AppendCutShort
    <3>3. Positioned'
      BY <1>0, <3>1, <3>2, PositionLemma
    <3>4. pc'[p] # "append"
      BY <2>0, <2>5 DEF AppendLine, AppendCutShort, Goto, TypeOK, Processes
    <3>5. QED BY <2>2, <3>3, <3>4 DEF IdInv
  <2>6. QED BY <1>3, <2>3, <2>4, <2>5 DEF AppenderStep
<1>4. ASSUME NEW r \in Readers, ReaderStep(r)  PROVE IdInv'
  <2>1. journal' = journal /\ eventId' = eventId
    BY <1>4 DEF ReaderStep, ReaderStart, ReaderManifest, ReaderJournal
  <2>2. \A p \in Appenders : pc'[p] = pc[p]
    BY <1>4, ProcessesAssumption
    DEF ReaderStep, ReaderStart, ReaderManifest, ReaderJournal, Goto, TypeOK, Processes, Writers
  <2>3. QED BY <1>1, <2>1, <2>2
<1>5. CASE UNCHANGED vars
  BY <1>1, <1>5 DEF vars
<1>6. QED BY <1>2, <1>3, <1>4, <1>5 DEF Next

LEMMA FirstUseHolds == Spec => []FirstUseInv
BY FirstUseInit, FirstUseNext, TypeCorrect, PTL DEF Spec

\* While commands follow one another, the id of an event is its position,
\* whatever lines were cut short before it.
THEOREM IdsArePositions == Spec => []IdIsPosition
<1>1. Init => IdInv
  BY DEF Init, IdInv, Positioned, Processes, Writers
<1>2. IdInv => IdIsPosition
  BY DEF IdInv, Positioned, IdIsPosition
<1>3. QED BY <1>1, <1>2, IdNext, FirstUseHolds, TypeCorrect, PTL DEF Spec

LEMMA ManifestNext == TypeOK /\ FirstUseInv /\ ManifestInv /\ [Next]_vars => ManifestInv'
<1> SUFFICES ASSUME TypeOK, FirstUseInv, ManifestInv, [Next]_vars, oneAtATime'
             PROVE  ManifestInv'
  BY DEF ManifestInv
<1> USE DEF storeVars, readerVars
<1>0. /\ oneAtATime /\ manifest \in FileOf(Nat, Writers) /\ manifest.target # Torn
  BY DEF Next, vars, scenarioVars, TypeOK, ManifestInv
<1>1. ASSUME manifest' = manifest,
             \A q \in Writers :
               pc'[q] \in {"init-write", "write", "init-replace", "replace"} => pc'[q] = pc[q]
      PROVE  ManifestInv'
  BY <1>0, <1>1 DEF ManifestInv, EmptyTmp
<1>2. ASSUME NEW p \in Writers, pc[p] \notin Idle, NEW label, Goto(p, label),
             manifest'.target # Torn,
             label \in {"init-write", "write"} => EmptyTmp(manifest', p),
             label \in {"init-replace", "replace"} => manifest'.tmp # Torn
      PROVE  ManifestInv'
  <2>1. pc'[p] = label /\ \A q \in Writers \ {p} : pc'[q] \in Idle
    BY <1>0, <1>2, OtherWritersIdle
  <2>2. \A q \in Writers \ {p} : pc'[q] \notin {"init-write", "write", "init-replace", "replace"}
    BY <2>1 DEF Idle, Ended
  <2>3. QED BY <1>2, <2>1, <2>2 DEF ManifestInv, EmptyTmp
<1>3. ASSUME NEW p \in Writers, WriterStep(p)  PROVE ManifestInv'
  <2>1. CASE CheckJournal(p) \/ CreateJournal(p) \/ CheckManifest(p) \/ InitRead(p)
    <3>1. manifest' = manifest
      BY <2>1 DEF CheckJournal, CreateJournal, CheckManifest, InitRead
    <3>2. PICK label : Goto(p, label)
                         /\ label \notin {"init-write", "write", "init-replace", "replace"}
      BY <2>1 DEF CheckJournal, CreateJournal, CheckManifest, InitRead
    <3>3. QED BY <1>1, <3>1, <3>2 DEF Goto, TypeOK, Processes
  <2>2. CASE OpenManifest(p)
    <3>1. manifest'.target # Torn /\ EmptyTmp(manifest', p)
      BY <1>0, <2>2, OpenedFile DEF OpenManifest
    <3>2. PICK label : Goto(p, label) /\ label \in {"write", "init-write"}
      BY <2>2 DEF OpenManifest
    <3>3. QED BY <1>2, <2>2, <3>1, <3>2 DEF OpenManifest, Idle, Ended
  <2>3. CASE WriteManifest(p)
    <3>1. EmptyTmp(manifest, p) /\ generation[p] \in Nat
      BY <1>0, <2>3 DEF WriteManifest, ManifestInv, TypeOK, Processes
    <3>2. manifest' \in Written(manifest, p, generation[p])
      BY <2>3 DEF WriteManifest
    <3>3. manifest'.target = manifest.target /\ manifest'.tmp = generation[p]
      BY <1>0, <3>1, <3>2, WrittenToEmpty
    <3>4. manifest'.tmp # Torn
      BY <3>1, <3>3
    <3>5. PICK label : Goto(p, label) /\ label \in {"replace", "init-replace"}
      BY <2>3 DEF WriteManifest
    <3>6. QED BY <1>0, <1>2, <2>3, <3>3, <3>4, <3>5 DEF WriteManifest, Idle, Ended
  <2>4. CASE ReplaceManifest(p)
    <3>1. manifest.tmp # Torn
      BY <1>0, <2>4 DEF ReplaceManifest, ManifestInv
    <3>2. manifest'.target # Torn
      BY <1>0, <2>4, <3>1, ReplacedFileContents DEF ReplaceManifest
    <3>3. PICK label : Goto(p, label)
                         /\ label \notin {"init-write", "write", "init-replace", "replace"}
      BY <2>4 DEF ReplaceManifest
    <3>4. QED BY <1>2, <2>4, <3>2, <3>3 DEF ReplaceManifest, Idle, Ended
  <2>5. CASE Crash(p)
    <3>1. manifest'.target # Torn
      BY <1>0, <2>5, AbandonedFile DEF Crash
    <3>2. QED BY <1>2, <2>5, <3>1 DEF Crash, Idle
  <2>6. QED BY <1>3, <2>1, <2>2, <2>3, <2>4, <2>5 DEF WriterStep
<1>4. ASSUME NEW p \in Appenders, AppenderStep(p)  PROVE ManifestInv'
  <2>1. manifest' = manifest /\ p \in Writers
    BY <1>4
    DEF AppenderStep, ReadManifest, RejectEvent, CountEvents, AppendLine, AppendCutShort, Writers
  <2>2. PICK label : Goto(p, label)
                       /\ label \notin {"init-write", "write", "init-replace", "replace"}
    BY <1>4 DEF AppenderStep, ReadManifest, RejectEvent, CountEvents, AppendLine, AppendCutShort
  <2>3. QED BY <1>1, <2>1, <2>2 DEF Goto, TypeOK, Processes
<1>5. ASSUME NEW r \in Readers, ReaderStep(r)  PROVE ManifestInv'
  <2>1. manifest' = manifest
    BY <1>5 DEF ReaderStep, ReaderStart, ReaderManifest, ReaderJournal
  <2>2. \A p \in Writers : pc'[p] = pc[p]
    BY <1>5, ProcessesAssumption
    DEF ReaderStep, ReaderStart, ReaderManifest, ReaderJournal, Goto, TypeOK, Processes
  <2>3. QED BY <1>1, <2>1, <2>2
<1>6. CASE UNCHANGED vars
  BY <1>1, <1>6 DEF vars
<1>7. QED BY <1>3, <1>4, <1>5, <1>6 DEF Next

\* While commands follow one another, the manifest can be parsed at any time,
\* wherever a command has died.
THEOREM ManifestStaysReadable == Spec => []ManifestReadable
<1>1. Init => ManifestInv
  BY DEF Init, ManifestInv, FileWith, Processes
<1>2. ManifestInv => ManifestReadable
  BY DEF ManifestInv, ManifestReadable
<1>3. QED BY <1>1, <1>2, ManifestNext, FirstUseHolds, TypeCorrect, PTL DEF Spec

\* How far the manifest is behind the journal, and what the command that is
\* under way makes of it.
Lag == 1 + Len(journal) - manifest.target

WriterLag(p) ==
  /\ pc[p] \in {"init-open", "init-write", "init-replace"} =>
       manifest.target = Nothing /\ generation[p] = 1
  /\ pc[p] \in {"read", "count", "append", "open", "write", "replace"} => manifest.target \in Nat
  /\ pc[p] \in {"count", "append"} => generation[p] = manifest.target
  /\ pc[p] \in {"open", "write", "replace"} =>
       generation[p] = manifest.target + 1 /\ generation[p] <= Explained
  /\ pc[p] \in {"init-replace", "replace"} => manifest.tmp = generation[p]

Advancing == \E p \in Writers : pc[p] \in {"open", "write", "replace"}

LagInv ==
  oneAtATime =>
    /\ manifest.target = Nothing => journal = << >>
    /\ ~journalMade => manifest.target = Nothing
    /\ manifest.target \in Nat =>
         /\ manifest.target <= Explained
         /\ Lag <= faults + (IF Advancing THEN 1 ELSE 0)
    /\ \A p \in Writers : WriterLag(p)

\* An append makes the lag one more at most, and at most by what it explains.
LEMMA LengthLemma ==
  ASSUME journal \in Seq(Line), NEW line \in Line,
         journal' \in {AfterAppend(line), AfterCutAppend(line)}
  PROVE  Len(journal') \in Nat /\ Len(journal') <= Len(journal) + 1 /\ journal' # << >>
<1>1. CASE EndsTorn
  <2> DEFINE n == Len(journal)
             merged == [journal[n] EXCEPT !.status = "corrupt"]
  <2>1. journal' = journal \/ journal' = [journal EXCEPT ![n] = merged]
    BY <1>1 DEF AfterAppend, AfterCutAppend
  <2>2. journal # << >> /\ Len(journal) \in Nat /\ Len(journal) > 0
    BY <1>1 DEF EndsTorn
  <2> HIDE DEF merged, n
  <2>3. Len(journal') = Len(journal)
    BY <2>1
  <2>4. QED BY <2>2, <2>3
<1>2. CASE ~EndsTorn
  <2>1. PICK new : journal' = Append(journal, new)
    BY <1>2 DEF AfterAppend, AfterCutAppend
  <2>2. Len(journal') = Len(journal) + 1 /\ Len(journal) \in Nat
    BY <2>1
  <2>3. QED BY <2>2
<1>3. QED BY <1>1, <1>2

\* A step of the only command that is under way, as far as the lag goes.
LEMMA OneWriterLag ==
  ASSUME TypeOK, FirstUseInv, LagInv, oneAtATime, oneAtATime', NEW p \in Writers, NEW label,
         Goto(p, label), \A q \in Writers \ {p} : pc[q] \in Idle,
         manifest'.target = Nothing => journal' = << >>,
         ~journalMade' => manifest'.target = Nothing,
         manifest'.target \in Nat =>
           /\ manifest'.target <= Explained'
           /\ Lag' <= faults' + (IF label \in {"open", "write", "replace"} THEN 1 ELSE 0),
         WriterLag(p)'
  PROVE  LagInv'
<1>1. /\ pc'[p] = label
      /\ \A q \in Writers \ {p} : pc'[q] \in Idle
  BY DEF Goto, TypeOK, Processes
<1>2. \A q \in Writers \ {p} : WriterLag(q)'
  BY <1>1 DEF WriterLag, Idle, Ended
<1>3. Advancing' <=> label \in {"open", "write", "replace"}
  BY <1>1 DEF Advancing, Idle, Ended
<1>4. QED BY <1>2, <1>3 DEF LagInv

LEMMA LagNext == TypeOK /\ FirstUseInv /\ ManifestInv /\ LagInv /\ [Next]_vars => LagInv'
<1> SUFFICES ASSUME TypeOK, FirstUseInv, ManifestInv, LagInv, [Next]_vars, oneAtATime'
             PROVE  LagInv'
  BY DEF LagInv
<1> USE DEF storeVars, readerVars
<1>0. /\ oneAtATime /\ manifest \in FileOf(Nat, Writers) /\ journal \in Seq(Line)
      /\ Len(journal) \in Nat /\ faults \in Nat /\ MaxFaults \in Nat
      /\ manifest.target \in Nat \union {Nothing}
  <2>1. oneAtATime /\ manifest \in FileOf(Nat, Writers) /\ journal \in Seq(Line)
    BY DEF Next, vars, scenarioVars, TypeOK
  <2>2. Len(journal) \in Nat /\ faults \in Nat /\ MaxFaults \in Nat
    BY DEF TypeOK
  <2>3. manifest.target \in Nat \union {Nothing}
    BY <2>1 DEF ManifestInv, FileOf, Contents
  <2>4. QED BY <2>1, <2>2, <2>3
<1>1. /\ manifest.target = Nothing => journal = << >>
      /\ ~journalMade => manifest.target = Nothing
      /\ manifest.target \in Nat =>
           /\ manifest.target <= Explained
           /\ Lag <= faults + (IF Advancing THEN 1 ELSE 0)
      /\ \A p \in Writers : WriterLag(p)
  BY <1>0 DEF LagInv
<1>2. ASSUME NEW p \in Writers, \A q \in Writers \ {p} : pc[q] \in Idle
      PROVE  Advancing <=> pc[p] \in {"open", "write", "replace"}
  BY <1>2 DEF Advancing, Idle, Ended
<1>3. ASSUME NEW p \in Writers, WriterStep(p)  PROVE LagInv'
  <2>1. \A q \in Writers \ {p} : pc[q] \in Idle
    BY <1>0, <1>3
    DEF FirstUseInv, Idle, Ended, WriterStep, CheckJournal, MayStart, CreateJournal, CheckManifest,
        InitRead, OpenManifest, WriteManifest, ReplaceManifest, Crash
  <2>2. CASE CheckJournal(p) \/ CheckManifest(p) \/ InitRead(p)
    <3>1. /\ manifest' = manifest /\ journal' = journal /\ journalMade' = journalMade
          /\ faults' = faults /\ ~Advancing
          /\ Explained' = Explained /\ Lag' = Lag
      BY <1>2, <2>1, <2>2
      DEF CheckJournal, MayStart, CheckManifest, InitRead, Explained, EndsTorn, Lag
    <3>2. PICK label : Goto(p, label) /\ label \notin {"open", "write", "replace"}
      BY <2>2 DEF CheckJournal, CheckManifest, InitRead
    <3>3. WriterLag(p)'
      BY <1>0, <1>1, <2>2, <3>1
      DEF CheckJournal, CheckManifest, InitRead, WriterLag, Goto, TypeOK, Processes, Unreadable
    <3>4. QED BY <1>0, <1>1, <2>1, <3>1, <3>2, <3>3, OneWriterLag
  <2>3. CASE CreateJournal(p)
    <3>1. journal = << >> /\ journal' = << >> /\ journalMade' /\ manifest' = manifest
          /\ faults' = faults /\ ~Advancing
      BY <1>0, <1>2, <2>1, <2>3 DEF CreateJournal, FirstUseInv
    <3>2. Explained' = Explained /\ Lag' = Lag
      BY <3>1 DEF Explained, EndsTorn, Lag
    <3>3. Goto(p, "init-manifest") /\ WriterLag(p)'
      BY <2>3 DEF CreateJournal, WriterLag, Goto, TypeOK, Processes
    <3>4. QED BY <1>0, <1>1, <2>1, <3>1, <3>2, <3>3, OneWriterLag
  <2>4. CASE OpenManifest(p)
    <3>1. /\ manifest'.target = manifest.target /\ journal' = journal
          /\ journalMade' = journalMade /\ faults' = faults /\ generation' = generation
          /\ Explained' = Explained /\ Lag' = Lag
      BY <1>0, <2>4, OpenedFile DEF OpenManifest, Explained, EndsTorn, Lag
    <3>2. PICK label : /\ Goto(p, label) /\ label \in {"init-write", "write"}
                       /\ label = "write" <=> pc[p] = "open"
                       /\ label = "init-write" <=> pc[p] = "init-open"
      BY <2>4 DEF OpenManifest
    <3>3. WriterLag(p)'
      BY <1>0, <1>1, <3>1, <3>2 DEF WriterLag, Goto, TypeOK, Processes
    <3>4. Advancing <=> label \in {"open", "write", "replace"}
      BY <1>2, <2>1, <2>4, <3>2 DEF OpenManifest
    <3>5. QED BY <1>0, <1>1, <2>1, <3>1, <3>2, <3>3, <3>4, OneWriterLag
  <2>5. CASE WriteManifest(p)
    <3>1. EmptyTmp(manifest, p) /\ generation[p] \in Nat
      BY <1>0, <2>5 DEF WriteManifest, ManifestInv, TypeOK, Processes
    <3>2. manifest' \in Written(manifest, p, generation[p])
      BY <2>5 DEF WriteManifest
    <3>3. manifest'.target = manifest.target /\ manifest'.tmp = generation[p]
      BY <1>0, <3>1, <3>2, WrittenToEmpty
    <3>4. /\ manifest'.target = manifest.target /\ manifest'.tmp = generation[p]
          /\ journal' = journal /\ journalMade' = journalMade /\ faults' = faults
          /\ generation' = generation
      BY <2>5, <3>3 DEF WriteManifest
    <3>5. Explained' = Explained /\ Lag' = Lag
      BY <3>4 DEF Explained, EndsTorn, Lag
    <3>6. PICK label : /\ Goto(p, label) /\ label \in {"init-replace", "replace"}
                       /\ label = "replace" <=> pc[p] = "write"
                       /\ label = "init-replace" <=> pc[p] = "init-write"
      BY <2>5 DEF WriteManifest
    <3>7. WriterLag(p)'
      BY <1>0, <1>1, <3>4, <3>5, <3>6 DEF WriterLag, Goto, TypeOK, Processes
    <3>8. Advancing <=> label \in {"open", "write", "replace"}
      BY <1>2, <2>1, <2>5, <3>6 DEF WriteManifest
    <3>9. QED BY <1>0, <1>1, <2>1, <3>4, <3>5, <3>6, <3>7, <3>8, OneWriterLag
  <2>6. CASE ReplaceManifest(p)
    <3>1. manifest.tmp = generation[p] /\ generation[p] \in Nat
      BY <1>1, <2>6 DEF ReplaceManifest, WriterLag, TypeOK, Processes
    <3>2. manifest'.target = generation[p]
      BY <1>0, <2>6, <3>1, ReplacedFileContents DEF ReplaceManifest
    <3>3. journal' = journal /\ journalMade' = journalMade /\ faults' = faults
      BY <2>6 DEF ReplaceManifest
    <3>4. PICK label : Goto(p, label) /\ label \in {"done", "init-read"}
      BY <2>6, <3>1 DEF ReplaceManifest
    <3>5. journalMade
      BY <1>0, <2>6 DEF ReplaceManifest, FirstUseInv, Idle, Ended
    <3>6. CASE pc[p] = "replace"
      <4>1. manifest.target \in Nat /\ generation[p] = manifest.target + 1
            /\ generation[p] <= Explained /\ Advancing
        BY <1>1, <1>2, <2>1, <3>6 DEF WriterLag
      <4>2. Lag' = Lag - 1 /\ Explained' = Explained
        BY <1>0, <3>2, <3>3, <4>1 DEF Lag, Explained, EndsTorn
      <4>3. Lag <= faults + 1 /\ Lag \in Int
        BY <1>0, <1>1, <4>1 DEF Lag
      <4>4. WriterLag(p)'
        BY <3>4 DEF WriterLag, Goto, TypeOK, Processes
      <4>5. QED
        BY <1>0, <1>1, <2>1, <3>2, <3>3, <3>4, <3>5, <4>1, <4>2, <4>3, <4>4, OneWriterLag
    <3>7. CASE pc[p] = "init-replace"
      <4>1. generation[p] = 1 /\ journal = << >>
        BY <1>1, <3>7 DEF WriterLag
      <4>2. Lag' = 0 /\ Explained' = 1
        BY <3>2, <3>3, <4>1 DEF Lag, Explained, EndsTorn
      <4>3. WriterLag(p)'
        BY <3>4 DEF WriterLag, Goto, TypeOK, Processes
      <4>4. QED BY <1>0, <2>1, <3>2, <3>3, <3>4, <3>5, <4>1, <4>2, <4>3, OneWriterLag
    <3>8. QED BY <2>6, <3>6, <3>7 DEF ReplaceManifest
  <2>7. CASE Crash(p)
    <3>1. /\ manifest'.target = manifest.target /\ journal' = journal
          /\ journalMade' = journalMade /\ faults' = faults + 1
      BY <1>0, <2>7, AbandonedFile DEF Crash, Fault
    <3>2. Explained' = Explained /\ Lag' = Lag
      BY <3>1 DEF Explained, EndsTorn, Lag
    <3>3. Goto(p, "failed") /\ WriterLag(p)'
      BY <2>7 DEF Crash, WriterLag, Goto, TypeOK, Processes
    <3>4. manifest.target \in Nat => Lag <= faults + 1 /\ Lag \in Int
      BY <1>0, <1>1 DEF Lag
    <3>5. QED BY <1>0, <1>1, <2>1, <3>1, <3>2, <3>3, <3>4, OneWriterLag
  <2>8. QED BY <1>3, <2>2, <2>3, <2>4, <2>5, <2>6, <2>7 DEF WriterStep
<1>4. ASSUME NEW p \in Appenders, AppenderStep(p)  PROVE LagInv'
  <2>0. p \in Writers /\ pc[p] \in {"read", "count", "append"} /\ manifest' = manifest
        /\ journalMade' = journalMade
    BY <1>4
    DEF Writers, AppenderStep, ReadManifest, RejectEvent, CountEvents, AppendLine, AppendCutShort
  <2>1. \A q \in Writers \ {p} : pc[q] \in Idle
    BY <1>0, <2>0 DEF FirstUseInv, Idle, Ended
  <2>2. manifest.target \in Nat /\ ~Advancing /\ Lag \in Int /\ Lag <= faults
        /\ manifest.target <= Explained
    BY <1>0, <1>1, <1>2, <2>0, <2>1 DEF WriterLag, Lag
  <2>3. CASE ReadManifest(p) \/ RejectEvent(p) \/ CountEvents(p)
    <3>1. journal' = journal /\ faults' = faults /\ Explained' = Explained /\ Lag' = Lag
      BY <2>0, <2>3 DEF ReadManifest, RejectEvent, CountEvents, Explained, EndsTorn, Lag
    <3>2. PICK label : Goto(p, label) /\ label \notin {"open", "write", "replace"}
      BY <2>3 DEF ReadManifest, RejectEvent, CountEvents
    <3>3. WriterLag(p)'
      BY <1>1, <2>0, <2>2, <2>3
      DEF ReadManifest, RejectEvent, CountEvents, WriterLag, Goto, TypeOK, Processes
    <3>4. QED BY <1>0, <1>1, <2>0, <2>1, <2>2, <3>1, <3>2, <3>3, OneWriterLag
  <2>4. CASE AppendLine(p)
    <3>1. EventOf(p) \in Line /\ EventOf(p).status = "event"
      BY DEF EventOf, Line, TypeOK
    <3>2. /\ Explained' = Explained + 1
          /\ Len(journal') \in Nat /\ Len(journal') <= Len(journal) + 1
      BY <1>0, <2>4, <3>1, AppendLemma, LengthLemma DEF AppendLine
    <3>3. Lag' <= Lag + 1 /\ Lag' \in Int
      BY <1>0, <2>0, <2>2, <3>2 DEF Lag
    <3>4. /\ generation[p] = manifest.target /\ generation'[p] = manifest.target + 1
          /\ Explained \in Int /\ faults' = faults /\ Goto(p, "open")
      BY <1>0, <1>1, <2>0, <2>4 DEF AppendLine, WriterLag, TypeOK, Processes, Explained
    <3>5. WriterLag(p)'
      BY <2>0, <2>2, <3>2, <3>4 DEF WriterLag, Goto, TypeOK, Processes
    <3>6. QED
      BY <1>0, <1>1, <2>0, <2>1, <2>2, <3>2, <3>3, <3>4, <3>5, OneWriterLag
  <2>5. CASE AppendCutShort(p)
    <3>1. EventOf(p) \in Line
      BY DEF EventOf, Line, TypeOK
    <3>2. /\ Explained' = Explained
          /\ Len(journal') \in Nat /\ Len(journal') <= Len(journal) + 1
      BY <1>0, <2>5, <3>1, CutAppendLemma, LengthLemma DEF AppendCutShort
    <3>3. Lag' <= Lag + 1 /\ Lag' \in Int
      BY <1>0, <2>0, <2>2, <3>2 DEF Lag
    <3>4. faults' = faults + 1 /\ Goto(p, "failed") /\ WriterLag(p)'
      BY <2>0, <2>5 DEF AppendCutShort, Fault, WriterLag, Goto, TypeOK, Processes
    <3>5. QED BY <1>0, <1>1, <2>0, <2>1, <2>2, <3>2, <3>3, <3>4, OneWriterLag
  <2>6. QED BY <1>4, <2>3, <2>4, <2>5 DEF AppenderStep
<1>5. ASSUME manifest' = manifest, journal' = journal, journalMade' = journalMade,
             faults' = faults,
             \A q \in Writers : pc'[q] = pc[q] /\ generation'[q] = generation[q]
      PROVE  LagInv'
  <2>1. Explained' = Explained /\ Lag' = Lag /\ (Advancing' <=> Advancing)
    BY <1>5 DEF Explained, EndsTorn, Lag, Advancing
  <2>2. \A q \in Writers : WriterLag(q)'
    BY <1>1, <1>5, <2>1 DEF WriterLag
  <2>3. QED BY <1>1, <1>5, <2>1, <2>2 DEF LagInv
<1>6. ASSUME NEW r \in Readers, ReaderStep(r)  PROVE LagInv'
  <2>1. \A q \in Writers : pc'[q] = pc[q] /\ generation'[q] = generation[q]
    BY <1>6, ProcessesAssumption
    DEF ReaderStep, ReaderStart, ReaderManifest, ReaderJournal, Goto, TypeOK, Processes
  <2>2. QED
    BY <1>5, <1>6, <2>1 DEF ReaderStep, ReaderStart, ReaderManifest, ReaderJournal
<1>7. CASE UNCHANGED vars
  BY <1>5, <1>7 DEF vars
<1>8. QED BY <1>3, <1>4, <1>6, <1>7 DEF Next

\* Between commands that follow one another, the manifest is behind the journal
\* by no more events than commands have died or been cut short.
THEOREM LagIsBounded == Spec => []GenerationLag
<1>1. Init => ManifestInv /\ LagInv
  BY DEF Init, ManifestInv, LagInv, WriterLag, Advancing, Lag, Explained, EndsTorn, FileWith,
         Processes
<1>2. TypeOK /\ LagInv => GenerationLag
  <2> SUFFICES ASSUME TypeOK, LagInv, oneAtATime, Quiet, manifest.target \in Nat
               PROVE  1 + Len(journal) - manifest.target \in 0..faults
    BY DEF GenerationLag
  <2>1. ~Advancing
    BY DEF Quiet, Advancing, Idle, Ended
  <2>2. Len(journal) \in Nat /\ faults \in Nat
    BY DEF TypeOK
  <2>3. manifest.target <= Explained /\ Lag <= faults
    BY <2>1, <2>2 DEF LagInv, Lag
  <2>4. QED BY <2>2, <2>3 DEF Lag, Explained
<1>3. QED
  BY <1>1, <1>2, ManifestNext, LagNext, FirstUseHolds, TypeCorrect, PTL DEF Spec

=============================================================================

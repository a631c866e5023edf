------------------------ MODULE RecordRegistryProofs ------------------------
(***************************************************************************)
(* Theorems about RecordRegistry, for any number of calls, records and     *)
(* file names.                                                             *)
(***************************************************************************)
EXTENDS RecordRegistry, ReplacedFileProofs

USE ContentsAssumption, RegistryAssumption

IInv == TypeOK /\ FilesNamed /\ ResultsNamed

File == FileOf(Record, Putters)

-----------------------------------------------------------------------------
(* The invariant. *)

\* A call that leaves in its file what was there, or its own record, or
\* nothing readable, preserves the naming of the files.
LEMMA FileStep ==
  ASSUME IInv, NEW p \in Putters, NEW file \in File,
         files' = [files EXCEPT ![FileName(p)] = file],
         \A content \in {file.target, file.tmp} : content \in
           {files[FileName(p)].target, files[FileName(p)].tmp, RecordOf(p), Torn, Nothing}
  PROVE  files' \in [SafeIds -> File] /\ FilesNamed'
<1>1. FileName(p) \in SafeIds /\ SafeId[RecordOf(p).id] = FileName(p)
  BY DEF FileName, RecordOf, Callers
<1>2. files' \in [SafeIds -> File] /\ files'[FileName(p)] = file
  BY <1>1 DEF IInv, TypeOK, File
<1>3. Torn \notin Record /\ Nothing \notin Record
  BY DEF Record
<1>4. ASSUME NEW s \in SafeIds
      PROVE  \A content \in {files'[s].target, files'[s].tmp} :
               content \in Record => SafeId[content.id] = s
  <2>1. CASE s = FileName(p)
    BY <1>1, <1>2, <1>3, <2>1 DEF IInv, FilesNamed
  <2>2. CASE s # FileName(p)
    <3>1. files'[s] = files[s]
      BY <2>2 DEF IInv, TypeOK
    <3>2. QED BY <3>1 DEF IInv, FilesNamed
  <2>3. QED BY <2>1, <2>2
<1>5. QED BY <1>2, <1>4 DEF FilesNamed

\* An empty registry has no misnamed file.
LEMMA InvInit == Init => IInv
<1> SUFFICES ASSUME Init  PROVE IInv
  OBVIOUS
<1>1. FileWith(Nothing, Putters) \in File
  BY DEF File, FileWith, FileOf, Contents, Descriptors
<1>2. FileWith(Nothing, Putters).target = Nothing /\ FileWith(Nothing, Putters).tmp = Nothing
  BY DEF FileWith
<1>3. TypeOK
  BY <1>1 DEF Init, TypeOK, File, Contents
<1>4. Nothing \notin Record
  BY DEF Record
<1>5. FilesNamed
  BY <1>2, <1>4 DEF Init, FilesNamed
<1>6. QED BY <1>3, <1>5 DEF IInv, Init, ResultsNamed, Callers

\* No step of put_record or of get_record misnames a file or a result.
LEMMA InvNext == IInv /\ [Next]_vars => IInv'
<1> SUFFICES ASSUME IInv, [Next]_vars  PROVE IInv'
  OBVIOUS
<1>0. TypeOK /\ FilesNamed /\ ResultsNamed /\ oneAtATime' = oneAtATime
  BY DEF IInv, Next, vars
<1>1. ASSUME NEW p \in Putters, Put(p)  PROVE IInv'
  <2> DEFINE f == files[FileName(p)]
  <2>1. f \in File /\ RecordOf(p) \in Record /\ p \in Callers
    BY <1>0 DEF TypeOK, File, FileName, RecordOf, Record, Callers
  <2>2. files' \in [SafeIds -> File] /\ FilesNamed'
    <3>1. CASE PutOpen(p)
      BY <2>1, <3>1, OpenedFile, FileStep DEF PutOpen, File
    <3>2. CASE PutWrite(p)
      <4>1. PICK file \in Written(f, p, RecordOf(p)) :
              files' = [files EXCEPT ![FileName(p)] = file]
        BY <3>2 DEF PutWrite
      <4>2. /\ file \in File
            /\ file.target \in {f.target, RecordOf(p), Torn}
            /\ file.tmp \in {f.tmp, RecordOf(p), Torn}
        BY <2>1, <4>1, WrittenFile DEF File
      <4>3. QED BY <4>1, <4>2, FileStep
    <3>3. CASE PutReplace(p)
      <4>1. CASE files' = files
        BY <1>0, <4>1 DEF TypeOK, FilesNamed, File
      <4>2. CASE files' = [files EXCEPT ![FileName(p)] = Replaced(f)]
        BY <2>1, <4>2, ReplacedFileContents, FileStep DEF File
      <4>3. QED BY <3>3, <4>1, <4>2 DEF PutReplace
    <3>4. CASE PutRefused(p)
      BY <1>0, <3>4 DEF PutRefused, TypeOK, FilesNamed, File
    <3>5. CASE PutDies(p)
      BY <2>1, <3>5, AbandonedFile, FileStep DEF PutDies, File
    <3>6. QED BY <1>1, <3>1, <3>2, <3>3, <3>4, <3>5 DEF Put
  <2>3. PICK label \in {"write", "replace"} \union Ended : Goto(p, label)
    BY <1>1 DEF Put, PutOpen, PutWrite, PutReplace, PutRefused, PutDies, Ended
  <2>4. result' = result /\ faults' \in 0..MaxFaults
    BY <1>0, <1>1 DEF Put, PutOpen, PutWrite, PutReplace, PutRefused, PutDies, TypeOK
  <2>5. TypeOK'
    BY <1>0, <2>1, <2>2, <2>3, <2>4 DEF TypeOK, Goto, File
  <2>6. \A g \in Getters : pc'[g] = pc[g]
    BY <2>3 DEF Goto, TypeOK
  <2>7. ResultsNamed'
    BY <1>0, <2>4, <2>6 DEF ResultsNamed, FileName
  <2>8. QED BY <2>2, <2>5, <2>7 DEF IInv
<1>2. ASSUME NEW g \in Getters, Get(g)  PROVE IInv'
  <2> DEFINE content == files[FileName(g)].target
  <2>1. /\ g \in Callers /\ FileName(g) \in SafeIds
        /\ content \in Contents(Record)
    BY <1>0 DEF Callers, FileName, TypeOK, FileOf
  <2>2. /\ result' = [result EXCEPT ![g] = content] /\ files' = files /\ faults' = faults
        /\ Goto(g, IF content \in {Nothing, Torn} THEN "failed" ELSE "done")
    BY <1>2 DEF Get
  <2>3. content \notin {Nothing, Torn} => content \in Record /\ SafeId[content.id] = FileName(g)
    BY <1>0, <2>1 DEF FilesNamed, Contents
  <2> HIDE DEF content
  <2>4. TypeOK'
    BY <1>0, <2>1, <2>2 DEF TypeOK, Goto, Ended
  <2>5. FilesNamed'
    BY <1>0, <2>2 DEF FilesNamed
  <2>6. ResultsNamed'
    <3>0. SUFFICES ASSUME NEW h \in Getters
                   PROVE  pc'[h] = "done" =>
                            result'[h] \in Record /\ SafeId[result'[h].id] = FileName(h)
      BY DEF ResultsNamed, FileName
    <3>1. CASE h = g
      <4>1. result'[g] = content /\ (pc'[g] = "done" => content \notin {Nothing, Torn})
        BY <1>0, <2>1, <2>2 DEF TypeOK, Goto
      <4>2. QED BY <2>3, <3>1, <4>1 DEF FileName
    <3>2. CASE h # g
      <4>1. pc'[h] = pc[h] /\ result'[h] = result[h]
        BY <1>0, <2>2, <3>2 DEF TypeOK, Goto, Callers
      <4>2. QED BY <1>0, <4>1 DEF ResultsNamed, FileName
    <3>3. QED BY <3>1, <3>2
  <2>7. QED BY <2>4, <2>5, <2>6 DEF IInv
<1>3. CASE UNCHANGED vars
  BY <1>0, <1>3 DEF vars, IInv, TypeOK, FilesNamed, ResultsNamed, FileName
<1>4. QED BY <1>1, <1>2, <1>3 DEF Next

\* put_record never files a record under the name of another one, however
\* many calls write at the same time or die.
THEOREM FilesAreNamed == Spec => [](TypeOK /\ FilesNamed)
<1>1. IInv => TypeOK /\ FilesNamed
  BY DEF IInv
<1>2. QED BY <1>1, InvInit, InvNext, PTL DEF Spec

\* get_record returns a record with the id it was asked for, if no other
\* id shares its file name.
THEOREM GetReturnsOwnRecord == Spec => []GetsOwnRecord
<1>1. IInv => GetsOwnRecord
  <2> SUFFICES ASSUME IInv, NEW g \in Getters, CollisionFree(RecordIdOf[g]), pc[g] = "done"
               PROVE  result[g].id = RecordIdOf[g]
    BY DEF GetsOwnRecord
  <2>1. result[g] \in Record /\ SafeId[result[g].id] = SafeId[RecordIdOf[g]]
    BY DEF IInv, ResultsNamed, FileName
  <2>2. result[g].id \in RecordIds /\ RecordIdOf[g] \in RecordIds
    BY <2>1 DEF Record, Callers
  <2>3. QED BY <2>1, <2>2 DEF CollisionFree
<1>2. QED BY <1>1, InvInit, InvNext, PTL DEF Spec

-----------------------------------------------------------------------------
(* Calls that follow one another implement the abstract registry. *)

Busy == {"write", "replace"}

\* The one call that is under way has its temporary file for itself: it writes
\* an empty file, and renames its own record.
AloneInv ==
  oneAtATime =>
    /\ \A p, q \in Putters : pc[p] \in Busy /\ pc[q] \in Busy => p = q
    /\ \A p \in Putters :
         LET file == files[FileName(p)]
         IN  /\ pc[p] = "write" => EmptyTmp(file, p)
             /\ pc[p] = "replace" => file.tmp = RecordOf(p)

\* The records that callers see.
Targets == [s \in SafeIds |-> files[s].target]

\* A step of a call that is alone keeps the invariant, if it leaves in its file
\* what the next label needs; the other calls are not under way.
LEMMA AloneStep ==
  ASSUME IInv, AloneInv, oneAtATime, oneAtATime' = oneAtATime, NEW p \in Putters,
         NEW label, Goto(p, label),
         \A q \in Putters \ {p} : pc[q] \notin Busy,
         label = "write" => EmptyTmp(files'[FileName(p)], p),
         label = "replace" => files'[FileName(p)].tmp = RecordOf(p)
  PROVE  AloneInv'
<1>1. pc'[p] = label /\ \A q \in Putters \ {p} : pc'[q] = pc[q]
  BY DEF Goto, IInv, TypeOK, Callers
<1>2. \A q \in Putters \ {p} : pc'[q] \notin Busy
  BY <1>1
<1>3. QED BY <1>1, <1>2 DEF AloneInv, FileName, RecordOf, Busy, EmptyTmp

\* What a step of put_record makes of the records, and of the invariant.
LEMMA PutAlone ==
  ASSUME IInv, AloneInv, oneAtATime, oneAtATime' = oneAtATime, NEW p \in Putters, Put(p)
  PROVE  /\ AloneInv'
         /\ Targets' = Targets
              \/ Targets' = [Targets EXCEPT ![FileName(p)] = RecordOf(p)]
<1> DEFINE f == files[FileName(p)]
<1>0. /\ files \in [SafeIds -> File] /\ f \in File /\ RecordOf(p) \in Record
      /\ FileName(p) \in SafeIds /\ p \in Callers
  BY DEF IInv, TypeOK, File, FileName, RecordOf, Record, Callers
<1>1. PutOpen(p) \/ PutWrite(p) \/ PutReplace(p) \/ PutDies(p) =>
        \A q \in Putters \ {p} : pc[q] \notin Busy
  <2>1. CASE PutOpen(p)
    BY <2>1 DEF PutOpen, Ended, Busy
  <2>2. CASE PutWrite(p) \/ PutReplace(p) \/ PutDies(p)
    BY <2>2 DEF PutWrite, PutReplace, PutDies, Busy, AloneInv
  <2>3. QED BY <2>1, <2>2
<1>2. ASSUME NEW file \in File, files' = [files EXCEPT ![FileName(p)] = file]
      PROVE  /\ files'[FileName(p)] = file
             /\ Targets' = [Targets EXCEPT ![FileName(p)] = file.target]
             /\ file.target = f.target => Targets' = Targets
  BY <1>0, <1>2 DEF Targets
<1>3. CASE PutOpen(p)
  <2>1. /\ Opened(f, p) \in File /\ Opened(f, p).target = f.target
        /\ EmptyTmp(Opened(f, p), p)
    BY <1>0, OpenedFile DEF File
  <2>2. files' = [files EXCEPT ![FileName(p)] = Opened(f, p)] /\ Goto(p, "write")
    BY <1>3 DEF PutOpen
  <2>3. files'[FileName(p)] = Opened(f, p) /\ Targets' = Targets
    BY <1>2, <2>1, <2>2
  <2>4. QED BY <1>1, <1>3, <2>1, <2>2, <2>3, AloneStep
<1>4. CASE PutWrite(p)
  <2>1. pc[p] = "write" /\ Goto(p, "replace")
    BY <1>4 DEF PutWrite
  <2>2. EmptyTmp(f, p)
    BY <2>1 DEF AloneInv
  <2>3. PICK file \in Written(f, p, RecordOf(p)) : files' = [files EXCEPT ![FileName(p)] = file]
    BY <1>4 DEF PutWrite
  <2>4. file \in File
    BY <1>0, <2>3, WrittenFile DEF File
  <2>5. file.target = f.target /\ file.tmp = RecordOf(p)
    BY <1>0, <2>2, <2>3, WrittenToEmpty DEF File
  <2>6. files'[FileName(p)] = file /\ Targets' = Targets
    BY <1>2, <2>3, <2>4, <2>5
  <2>7. QED BY <1>1, <1>4, <2>1, <2>5, <2>6, AloneStep
<1>5. CASE PutReplace(p)
  <2>1. pc[p] = "replace"
    BY <1>5 DEF PutReplace
  <2>2. f.tmp = RecordOf(p) /\ f.tmp # Nothing
    BY <1>0, <2>1 DEF AloneInv, Record
  <2>3. files' = [files EXCEPT ![FileName(p)] = Replaced(f)] /\ Goto(p, "done")
    BY <1>5, <2>2 DEF PutReplace
  <2>4. Replaced(f) \in File /\ Replaced(f).target = RecordOf(p)
    BY <1>0, <2>2, ReplacedFileContents DEF File
  <2>5. Targets' = [Targets EXCEPT ![FileName(p)] = RecordOf(p)]
    BY <1>2, <2>3, <2>4
  <2>6. QED BY <1>1, <1>5, <2>3, <2>5, AloneStep
<1>6. CASE PutRefused(p)
  <2>1. pc[p] \notin Busy /\ Goto(p, "failed") /\ files' = files
    BY <1>6 DEF PutRefused, Busy
  <2>2. pc'[p] \notin Busy /\ \A q \in Putters \ {p} : pc'[q] = pc[q]
    BY <1>0, <2>1 DEF Goto, IInv, TypeOK, Busy
  <2>3. QED BY <2>1, <2>2 DEF AloneInv, Targets, FileName, RecordOf, Busy
<1>7. CASE PutDies(p)
  <2>1. Goto(p, "failed") /\ files' = [files EXCEPT ![FileName(p)] = Abandoned(f, p)]
    BY <1>7 DEF PutDies
  <2>2. Abandoned(f, p) \in File /\ Abandoned(f, p).target = f.target
    BY <1>0, AbandonedFile DEF File
  <2>3. Targets' = Targets
    BY <1>2, <2>1, <2>2
  <2>4. QED BY <1>1, <1>7, <2>1, <2>3, AloneStep
<1>8. QED BY <1>3, <1>4, <1>5, <1>6, <1>7 DEF Put

\* Every step is one of the abstract registry or leaves the records alone.
LEMMA AloneNext ==
  IInv /\ AloneInv /\ [Next]_vars =>
    /\ AloneInv'
    /\ oneAtATime => Targets' = Targets \/ \E s \in SafeIds, record \in Record :
                                             Targets' = [Targets EXCEPT ![s] = record]
<1> SUFFICES ASSUME IInv, AloneInv, [Next]_vars
             PROVE  /\ AloneInv'
                    /\ oneAtATime =>
                         Targets' = Targets \/ \E s \in SafeIds, record \in Record :
                                                 Targets' = [Targets EXCEPT ![s] = record]
  OBVIOUS
<1>0. oneAtATime' = oneAtATime
  BY DEF Next, vars
<1>1. CASE ~oneAtATime
  BY <1>0, <1>1 DEF AloneInv
<1>2. CASE oneAtATime
  <2>1. ASSUME NEW p \in Putters, Put(p)
        PROVE  /\ AloneInv'
               /\ Targets' = Targets \/ \E s \in SafeIds, record \in Record :
                                          Targets' = [Targets EXCEPT ![s] = record]
    <3>1. FileName(p) \in SafeIds /\ RecordOf(p) \in Record
      BY DEF FileName, RecordOf, Record, Callers
    <3>2. QED BY <1>0, <1>2, <2>1, <3>1, PutAlone
  <2>2. ASSUME NEW g \in Getters, Get(g)  PROVE AloneInv' /\ Targets' = Targets
    <3>1. files' = files /\ \A p \in Putters : pc'[p] = pc[p]
      BY <2>2 DEF Get, Goto, IInv, TypeOK
    <3>2. QED BY <1>0, <1>2, <3>1 DEF AloneInv, Targets, FileName, RecordOf
  <2>3. CASE UNCHANGED vars
    BY <2>3 DEF vars, AloneInv, Targets, FileName, RecordOf
  <2>4. QED BY <1>2, <2>1, <2>2, <2>3 DEF Next
<1>3. QED BY <1>1, <1>2

\* Calls of put_record that follow one another, some of which die, are steps of
\* the abstract registry: a record is replaced by another in one step.
THEOREM RegistryIsAtomic == Spec => ImplementsAtomicRegistry
<1>1. Init => AloneInv
  BY DEF Init, AloneInv, Busy, Callers
<1>2. Init => Registry!Init
  BY DEF Init, Registry!Init, FileWith
<1>3. IInv /\ AloneInv /\ [Next]_vars => [oneAtATime => Registry!Next]_(Registry!vars)
  <2>1. Registry!vars = <<Targets>> /\ Registry!vars' = <<Targets'>>
    BY DEF Registry!vars, Targets
  <2>2. ASSUME NEW s \in SafeIds, NEW record \in Record,
               Targets' = [Targets EXCEPT ![s] = record]
        PROVE  Registry!Next
    BY <2>2 DEF Registry!Next, Registry!Put, Targets
  <2>3. QED BY <2>1, <2>2, AloneNext
<1>4. IInv /\ AloneInv /\ [Next]_vars => AloneInv'
  BY AloneNext
<1>5. QED BY <1>1, <1>2, <1>3, <1>4, InvInit, InvNext, PTL DEF Spec, ImplementsAtomicRegistry

=============================================================================

--------------------------- MODULE RecordRegistry ---------------------------
(***************************************************************************)
(* The registry of one kind of records in the local state store:           *)
(* put_record and get_record of local_store.py, one file per record, named *)
(* after safe_record_id(record_id).  put_record is called by one process   *)
(* per record to write; a step is one file operation.                      *)
(***************************************************************************)
EXTENDS ReplacedFile

CONSTANTS
  RecordIds,
  SafeIds,
  SafeId,      \* safe_record_id, which may map two record ids to one file name
  Putters,     \* calls of put_record, each for the record id RecordIdOf[p]
  Getters,     \* calls of get_record, each for the record id RecordIdOf[g]
  RecordIdOf,
  MaxFaults    \* bound: callers that die

Callers == Putters \union Getters

ASSUME RegistryAssumption ==
  /\ SafeId \in [RecordIds -> SafeIds]
  /\ Putters \intersect Getters = {}
  /\ RecordIdOf \in [Callers -> RecordIds]
  /\ MaxFaults \in Nat
  /\ {Nothing, Torn} \intersect [id : RecordIds, by : Putters] = {}

\* A stored record: the record id it was put under, and the call that wrote it.
Record == [id : RecordIds, by : Putters]

VARIABLES
  oneAtATime, \* is put_record called only once the previous call has ended?
  files,      \* the file, and the temporary file, of each safe id
  pc,
  result,     \* what a get_record has read
  faults

vars == <<oneAtATime, files, pc, result, faults>>

\* Mutant: a file name that does not depend on the record id.
FileNameShared(p) == CHOOSE s \in SafeIds : TRUE

\* Mutant: the record is stored with its safe id.
RecordOfSafeId(p) == [id |-> SafeId[RecordIdOf[p]], by |-> p]

FileName(p) == SafeId[RecordIdOf[p]]

\* The id is the one that put_record is called with.  A record that comes with
\* a "record_id" of its own keeps that one in its text (setdefault).
RecordOf(p) == [id |-> RecordIdOf[p], by |-> p]
Ended       == {"done", "failed"}

Goto(p, label) == pc' = [pc EXCEPT ![p] = label]

-----------------------------------------------------------------------------
(* put_record: tmp.write_text, which opens and then writes; tmp.replace. *)

\* Mutant: the record is written in place.
PutOpenInPlace(p) ==
  /\ pc[p] = "start"
  /\ oneAtATime => \A q \in Putters \ {p} : pc[q] \in {"start"} \union Ended
  /\ files' = [files EXCEPT ![FileName(p)].target = Torn,
                            ![FileName(p)].tails = @ \ {"target"},
                            ![FileName(p)].fd = [@ EXCEPT ![p] = "target"]]
  /\ Goto(p, "write")
  /\ UNCHANGED <<result, faults>>

PutOpen(p) ==
  /\ pc[p] = "start"
  /\ oneAtATime => \A q \in Putters \ {p} : pc[q] \in {"start"} \union Ended
  /\ files' = [files EXCEPT ![FileName(p)] = Opened(@, p)]
  /\ Goto(p, "write")
  /\ UNCHANGED <<result, faults>>

PutWrite(p) ==
  /\ pc[p] = "write"
  /\ \E file \in Written(files[FileName(p)], p, RecordOf(p)) :
       files' = [files EXCEPT ![FileName(p)] = file]
  /\ Goto(p, "replace")
  /\ UNCHANGED <<result, faults>>

PutReplace(p) ==
  /\ pc[p] = "replace"
  /\ IF files[FileName(p)].tmp = Nothing
     THEN Goto(p, "failed") /\ UNCHANGED files
     ELSE /\ files' = [files EXCEPT ![FileName(p)] = Replaced(@)]
          /\ Goto(p, "done")
  /\ UNCHANGED <<result, faults>>

\* The store is not initialized, the kind unknown or the record no object.
PutRefused(p) ==
  /\ pc[p] = "start"
  /\ Goto(p, "failed")
  /\ UNCHANGED <<files, result, faults>>

\* The caller dies, or the disk is full, after the temporary file was opened.
PutDies(p) ==
  /\ pc[p] \in {"write", "replace"}
  /\ faults < MaxFaults
  /\ faults' = faults + 1
  /\ files' = [files EXCEPT ![FileName(p)] = Abandoned(@, p)]
  /\ Goto(p, "failed")
  /\ UNCHANGED result

\* get_record: FileNotFoundError, JSONDecodeError, or the record.
Get(g) ==
  /\ pc[g] = "start"
  /\ LET content == files[FileName(g)].target
     IN  /\ Goto(g, IF content \in {Nothing, Torn} THEN "failed" ELSE "done")
         /\ result' = [result EXCEPT ![g] = content]
  /\ UNCHANGED <<files, faults>>

-----------------------------------------------------------------------------
Init ==
  /\ oneAtATime \in BOOLEAN
  /\ files = [s \in SafeIds |-> FileWith(Nothing, Putters)]
  /\ pc = [p \in Callers |-> "start"]
  /\ result = [g \in Getters |-> Nothing]
  /\ faults = 0

Put(p) == PutOpen(p) \/ PutWrite(p) \/ PutReplace(p) \/ PutRefused(p) \/ PutDies(p)

Next ==
  /\ \/ \E p \in Putters : Put(p)
     \/ \E g \in Getters : Get(g)
  /\ UNCHANGED oneAtATime

Spec == Init /\ [][Next]_vars

-----------------------------------------------------------------------------
(***************************************************************************)
(* Properties.                                                             *)
(***************************************************************************)

\* Every variable has its type.
TypeOK ==
  /\ oneAtATime \in BOOLEAN
  /\ files \in [SafeIds -> FileOf(Record, Putters)]
  /\ pc \in [Callers -> {"start", "write", "replace"} \union Ended]
  /\ result \in [Getters -> Contents(Record)]
  /\ faults \in 0..MaxFaults

\* What the callers of the registry see: one record or none per safe id.
Registry == INSTANCE AtomicRegistry WITH
  Absent   <- Nothing,
  records  <- [s \in SafeIds |-> files[s].target]

\* When calls follow one another, put_record replaces a record in one step and
\* a caller that dies leaves the old record: the registry is one of atomic
\* records ("Persist a registry record atomically", local_store.py:247).
ImplementsAtomicRegistry ==
  Registry!Init /\ [][oneAtATime => Registry!Next]_(Registry!vars)

\* No other record id has the file name of this one.
CollisionFree(id) == \A i \in RecordIds : SafeId[i] = SafeId[id] => i = id

\* Unless safe_record_id maps another id to the same file name, a get_record
\* that returns, returns a record that was put under the id it asked for,
\* whatever "record_id" that record has in its text.
GetsOwnRecord ==
  \A g \in Getters :
    CollisionFree(RecordIdOf[g]) /\ pc[g] = "done" => result[g].id = RecordIdOf[g]

\* The inductive invariant behind it: whatever put_record leaves in a file or
\* in its temporary file has an id that leads to that file.
FilesNamed ==
  \A s \in SafeIds : \A content \in {files[s].target, files[s].tmp} :
    content \in Record => SafeId[content.id] = s

ResultsNamed ==
  \A g \in Getters : pc[g] = "done" =>
    result[g] \in Record /\ SafeId[result[g].id] = FileName(g)

\* "Registry records are JSON objects written atomically as individual files"
\* (docs/contracts.md:268): no reader finds half a record.
RecordsAtomic == \A s \in SafeIds : files[s].target # Torn

=============================================================================

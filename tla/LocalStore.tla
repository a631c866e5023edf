----------------------------- MODULE LocalStore -----------------------------
(***************************************************************************)
(* The journal and the manifest of the local state store (local_store.py)  *)
(* shared by the commands `store init` (LocalStateStore.init) and          *)
(* `store record` (append_store_event in store_reports.py: init, then      *)
(* append_event) and by the readers (summarize, behind `health snapshot`   *)
(* and the HTTP service).                                                  *)
(*                                                                         *)
(* A command is a process; a step is one file operation.  Nothing locks    *)
(* the store.                                                              *)
(***************************************************************************)
EXTENDS ReplacedFile, Sequences, Integers

CONSTANTS
  Initializers,  \* invocations of `store init`
  Appenders,     \* invocations of `store record`
  Readers,       \* calls of summarize()
  MaxFaults      \* bound: crashes and appends cut short

Writers   == Initializers \union Appenders
Processes == Writers \union Readers

ASSUME ProcessesAssumption ==
  /\ Initializers \intersect Appenders = {}
  /\ Writers \intersect Readers = {}
ASSUME StoreAssumption ==
  /\ MaxFaults \in Nat
  /\ Nothing \notin Nat
  /\ Torn \notin Nat

VARIABLES
  existing,    \* was the store initialized before the first command?
  oneAtATime,  \* is a command started only once the previous one has ended?
  journal,     \* the lines of journal.jsonl
  journalMade, \* does journal.jsonl exist?
  manifest,    \* manifest.json, abstracted to its active_generation
  pc,
  generation,  \* the active_generation a process has read or is to write
  eventId,     \* the number in the event_id of an appender's event
  seen,        \* the journal a reader has read
  initialized, \* a reader's is_initialized()
  faults

scenarioVars == <<existing, oneAtATime>>
storeVars  == <<journal, journalMade, manifest>>
readerVars == <<seen, initialized>>
vars == <<scenarioVars, storeVars, pc, generation, eventId, readerVars, faults>>

(***************************************************************************)
(* A line is the event of an appender, or not parsable: still unterminated *)
(* after an append that was cut short, or merged with the next append.     *)
(***************************************************************************)
Line == [status : {"event", "torn", "corrupt"}, id : Nat, by : Appenders]

EndsTorn == journal # << >> /\ journal[Len(journal)].status = "torn"

\* The journal after a complete line is appended: one that follows an
\* unterminated line becomes part of it.
AfterAppend(line) ==
  IF EndsTorn
  THEN [journal EXCEPT ![Len(journal)].status = "corrupt"]
  ELSE Append(journal, line)

AfterCutAppend(line) ==
  IF EndsTorn THEN journal ELSE Append(journal, [line EXCEPT !.status = "torn"])

EventOf(p) == [status |-> "event", id |-> eventId[p], by |-> p]

Ended == {"done", "failed"}

Goto(p, label) == pc' = [pc EXCEPT ![p] = label]

Fault == faults < MaxFaults /\ faults' = faults + 1

-----------------------------------------------------------------------------
(* LocalStateStore.init *)

MayStart(p) ==
  /\ pc[p] = "start"
  /\ oneAtATime => \A q \in Writers \ {p} : pc[q] \in {"start"} \union Ended

\* Mutant: init writes the journal without looking whether it is there.
CheckJournalForced(p) ==
  /\ MayStart(p)
  /\ Goto(p, "create-journal")
  /\ UNCHANGED <<storeVars, generation, eventId, readerVars, faults>>

\* if not self.paths.journal.exists()
CheckJournal(p) ==
  /\ MayStart(p)
  /\ Goto(p, IF journalMade THEN "init-manifest" ELSE "create-journal")
  /\ UNCHANGED <<storeVars, generation, eventId, readerVars, faults>>

\* self.paths.journal.write_text(""): creates the journal, or truncates it.
CreateJournal(p) ==
  /\ pc[p] = "create-journal"
  /\ journal' = << >>
  /\ journalMade' = TRUE
  /\ Goto(p, "init-manifest")
  /\ UNCHANGED <<manifest, generation, eventId, readerVars, faults>>

\* if not self.paths.manifest.exists()
CheckManifest(p) ==
  /\ pc[p] = "init-manifest"
  /\ IF manifest.target # Nothing
     THEN Goto(p, "init-read") /\ UNCHANGED generation
     ELSE Goto(p, "init-open") /\ generation' = [generation EXCEPT ![p] = 1]
  /\ UNCHANGED <<storeVars, eventId, readerVars, faults>>

\* read_manifest(require_initialized=True) raises on a manifest that is missing
\* or cut short.
Unreadable == {Nothing, Torn}

\* init() ends with a read of the manifest.
InitRead(p) ==
  /\ pc[p] = "init-read"
  /\ Goto(p, IF manifest.target \in Unreadable THEN "failed"
             ELSE IF p \in Appenders THEN "read" ELSE "done")
  /\ UNCHANGED <<storeVars, generation, eventId, readerVars, faults>>

-----------------------------------------------------------------------------
(* LocalStateStore.append_event *)

\* Mutant: a manifest that is cut short is used as it is.
ReadManifestUnchecked(p) ==
  /\ pc[p] = "read"
  /\ Goto(p, "count")
  /\ generation' = [generation EXCEPT ![p] = manifest.target]
  /\ UNCHANGED <<storeVars, eventId, readerVars, faults>>

ReadManifest(p) ==
  /\ pc[p] = "read"
  /\ IF manifest.target \in Unreadable
     THEN Goto(p, "failed") /\ UNCHANGED generation
     ELSE Goto(p, "count") /\ generation' = [generation EXCEPT ![p] = manifest.target]
  /\ UNCHANGED <<storeVars, eventId, readerVars, faults>>

\* ValueError: an unknown lane or event type.
RejectEvent(p) ==
  /\ pc[p] = "count"
  /\ Goto(p, "failed")
  /\ UNCHANGED <<storeVars, generation, eventId, readerVars, faults>>

\* Mutant: only the lines that parse are counted.
CountParsableEvents(p) ==
  /\ pc[p] = "count"
  /\ eventId' = [eventId EXCEPT ![p] =
                    Len(SelectSeq(journal, LAMBDA line : line.status = "event")) + 1]
  /\ Goto(p, "append")
  /\ UNCHANGED <<storeVars, generation, readerVars, faults>>

\* Mutant: the id is taken from the manifest's generation.
CountGenerations(p) ==
  /\ pc[p] = "count"
  /\ eventId' = [eventId EXCEPT ![p] = generation[p]]
  /\ Goto(p, "append")
  /\ UNCHANGED <<storeVars, generation, readerVars, faults>>

\* _next_event_id: one more than the lines of the journal, parsable or not.
CountEvents(p) ==
  /\ pc[p] = "count"
  /\ eventId' = [eventId EXCEPT ![p] = Len(journal) + 1]
  /\ Goto(p, "append")
  /\ UNCHANGED <<storeVars, generation, readerVars, faults>>

\* Mutant: append_event writes the generation it has read.
AppendLineUncounted(p) ==
  /\ pc[p] = "append"
  /\ journal' = AfterAppend(EventOf(p))
  /\ Goto(p, "open")
  /\ UNCHANGED <<journalMade, manifest, generation, eventId, readerVars, faults>>

\* Mutant: the journal is opened with "w".
AppendLineTruncating(p) ==
  /\ pc[p] = "append"
  /\ journal' = <<EventOf(p)>>
  /\ generation' = [generation EXCEPT ![p] = @ + 1]
  /\ Goto(p, "open")
  /\ UNCHANGED <<journalMade, manifest, eventId, readerVars, faults>>

\* The journal is opened with "a" and the line is written; the generation to
\* write is one more than the one that was read.
AppendLine(p) ==
  /\ pc[p] = "append"
  /\ journal' = AfterAppend(EventOf(p))
  /\ generation' = [generation EXCEPT ![p] = @ + 1]
  /\ Goto(p, "open")
  /\ UNCHANGED <<journalMade, manifest, eventId, readerVars, faults>>

\* Mutant: the error of an append that was cut short is ignored.
AppendCutShortIgnored(p) ==
  /\ pc[p] = "append"
  /\ Fault
  /\ journal' = AfterCutAppend(EventOf(p))
  /\ generation' = [generation EXCEPT ![p] = @ + 1]
  /\ Goto(p, "open")
  /\ UNCHANGED <<journalMade, manifest, eventId, readerVars>>

\* The disk is full, or the host goes down, in the middle of the line.
AppendCutShort(p) ==
  /\ pc[p] = "append"
  /\ Fault
  /\ journal' = AfterCutAppend(EventOf(p))
  /\ Goto(p, "failed")
  /\ UNCHANGED <<journalMade, manifest, generation, eventId, readerVars>>

-----------------------------------------------------------------------------
(* _write_manifest, for init (labels "init-...") and for append_event. *)

\* Mutant: the manifest is written in place.
OpenManifestInPlace(p) ==
  /\ pc[p] \in {"init-open", "open"}
  /\ manifest' = [manifest EXCEPT !.target = Torn, !.tails = @ \ {"target"},
                                  !.fd = [@ EXCEPT ![p] = "target"]]
  /\ Goto(p, IF pc[p] = "open" THEN "write" ELSE "init-write")
  /\ UNCHANGED <<journal, journalMade, generation, eventId, readerVars, faults>>

OpenManifest(p) ==
  /\ pc[p] \in {"init-open", "open"}
  /\ manifest' = Opened(manifest, p)
  /\ Goto(p, IF pc[p] = "open" THEN "write" ELSE "init-write")
  /\ UNCHANGED <<journal, journalMade, generation, eventId, readerVars, faults>>

WriteManifest(p) ==
  /\ pc[p] \in {"init-write", "write"}
  /\ manifest' \in Written(manifest, p, generation[p])
  /\ Goto(p, IF pc[p] = "write" THEN "replace" ELSE "init-replace")
  /\ UNCHANGED <<journal, journalMade, generation, eventId, readerVars, faults>>

\* FileNotFoundError if another writer has already renamed the file.
ReplaceManifest(p) ==
  /\ pc[p] \in {"init-replace", "replace"}
  /\ IF manifest.tmp = Nothing
     THEN Goto(p, "failed") /\ UNCHANGED manifest
     ELSE /\ manifest' = Replaced(manifest)
          /\ Goto(p, IF pc[p] = "replace" THEN "done" ELSE "init-read")
  /\ UNCHANGED <<journal, journalMade, generation, eventId, readerVars, faults>>

-----------------------------------------------------------------------------
(* LocalStateStore.summarize *)

ReaderStart(r) ==
  /\ pc[r] = "start"
  /\ initialized' = [initialized EXCEPT ![r] = manifest.target # Nothing]
  /\ Goto(r, "read")
  /\ UNCHANGED <<storeVars, generation, eventId, seen, faults>>

\* An uninitialized manifest has generation 0.
ReaderManifest(r) ==
  /\ pc[r] = "read"
  /\ IF manifest.target = Torn
     THEN Goto(r, "failed") /\ UNCHANGED generation
     ELSE /\ Goto(r, "journal")
          /\ generation' = [generation EXCEPT ![r] =
                              IF manifest.target = Nothing THEN 0 ELSE manifest.target]
  /\ UNCHANGED <<storeVars, eventId, readerVars, faults>>

\* Mutant: iter_events leaves out the lines that do not parse.
ReaderJournalParsable(r) ==
  /\ pc[r] = "journal"
  /\ seen' = [seen EXCEPT ![r] =
                 SelectSeq(journal, LAMBDA line : line.status = "event")]
  /\ Goto(r, "done")
  /\ UNCHANGED <<storeVars, generation, eventId, initialized, faults>>

\* iter_events: a line that does not parse is an event of type "corrupt".
ReaderJournal(r) ==
  /\ pc[r] = "journal"
  /\ seen' = [seen EXCEPT ![r] = IF initialized[r] THEN journal ELSE << >>]
  /\ Goto(r, "done")
  /\ UNCHANGED <<storeVars, generation, eventId, initialized, faults>>

\* A command dies between two file operations.
Crash(p) ==
  /\ pc[p] \notin {"start"} \union Ended
  /\ Fault
  /\ Goto(p, "failed")
  /\ manifest' = Abandoned(manifest, p)
  /\ UNCHANGED <<journal, journalMade, generation, eventId, readerVars>>

-----------------------------------------------------------------------------
Init ==
  /\ existing \in BOOLEAN
  /\ oneAtATime \in BOOLEAN
  /\ journal = << >>
  /\ journalMade = existing
  /\ manifest = FileWith(IF existing THEN 1 ELSE Nothing, Writers)
  /\ pc = [p \in Processes |-> "start"]
  /\ generation = [p \in Processes |-> 0]
  /\ eventId = [p \in Appenders |-> 0]
  /\ seen = [r \in Readers |-> << >>]
  /\ initialized = [r \in Readers |-> FALSE]
  /\ faults = 0

WriterStep(p) ==
  \/ CheckJournal(p) \/ CreateJournal(p) \/ CheckManifest(p) \/ InitRead(p)
  \/ OpenManifest(p) \/ WriteManifest(p) \/ ReplaceManifest(p) \/ Crash(p)

AppenderStep(p) ==
  \/ ReadManifest(p) \/ RejectEvent(p) \/ CountEvents(p)
  \/ AppendLine(p) \/ AppendCutShort(p)

ReaderStep(r) == ReaderStart(r) \/ ReaderManifest(r) \/ ReaderJournal(r)

Next ==
  /\ \/ \E p \in Writers : WriterStep(p)
     \/ \E p \in Appenders : AppenderStep(p)
     \/ \E r \in Readers : ReaderStep(r)
  /\ UNCHANGED scenarioVars

Spec == Init /\ [][Next]_vars

-----------------------------------------------------------------------------
(***************************************************************************)
(* Properties.                                                             *)
(***************************************************************************)

WriterPcs == {"start", "create-journal", "init-manifest", "init-open", "init-write",
              "init-replace", "init-read", "read", "count", "append", "open", "write",
              "replace"} \union Ended
ReaderPcs == {"start", "read", "journal"} \union Ended

\* Every variable has its type, and an unterminated line is the last one.
TypeOK ==
  /\ existing \in BOOLEAN
  /\ oneAtATime \in BOOLEAN
  /\ journal \in Seq(Line)
  /\ journalMade \in BOOLEAN
  /\ manifest \in FileOf(Nat, Writers)
  /\ pc \in [Processes -> WriterPcs \union ReaderPcs]
  /\ \A p \in Writers : pc[p] \in WriterPcs
  /\ \A r \in Readers : pc[r] \in ReaderPcs
  /\ generation \in [Processes -> Nat]
  /\ eventId \in [Appenders -> Nat]
  /\ seen \in [Readers -> Seq(Line)]
  /\ initialized \in [Readers -> BOOLEAN]
  /\ faults \in 0..MaxFaults

\* A reader of an initialized store, which reads the manifest and then the
\* journal, finds in the journal an event for every generation the manifest
\* counts, whatever writers do or fail to do meanwhile: append_event appends
\* before it writes the manifest.
GenerationExplained ==
  existing => \A r \in Readers : pc[r] = "done" => generation[r] <= 1 + Len(seen[r])

\* A complete line of the journal stays where it is.
KeepsLines ==
  \A i \in DOMAIN journal :
    /\ i \in DOMAIN journal'
    /\ journal[i].status = "event" => journal'[i] = journal[i]

\* On an initialized store, and on any store when commands follow one another,
\* init() never truncates a journal that holds events, and no append damages a
\* complete line, whatever other commands do or where they died.
JournalIsAppendOnly == [][existing \/ oneAtATime => KeepsLines]_vars

Idle == {"start"} \union Ended

Quiet == \A p \in Writers : pc[p] \in Idle

\* When commands follow one another, the id of each event is its position in
\* the journal, even after commands that died and lines that were cut short.
IdIsPosition ==
  oneAtATime =>
    \A i \in DOMAIN journal : journal[i].status = "event" => journal[i].id = i

\* What GET /events/<id> finds for the id an appender was given: the first
\* event of the journal with that id.
FoundById(p) ==
  \E i \in DOMAIN journal :
    /\ journal[i] = EventOf(p)
    /\ \A j \in 1..(i - 1) : journal[j].status = "event" => journal[j].id # eventId[p]

\* When commands follow one another and no line was cut short, every event
\* that `store record` acknowledged is found by its id, for ever after.
AcknowledgedIsFound ==
  oneAtATime /\ (\A i \in DOMAIN journal : journal[i].status = "event") =>
    \A p \in Appenders : pc[p] = "done" => FoundById(p)

\* When commands follow one another, the manifest can always be parsed,
\* wherever a command died: _write_manifest replaces it in one step.
ManifestReadable == oneAtATime => manifest.target # Torn

\* When commands follow one another, the generation between commands is behind
\* the journal by at most one event for each command that died.
GenerationLag ==
  oneAtATime /\ Quiet /\ manifest.target \in Nat =>
    1 + Len(journal) - manifest.target \in 0..faults

(***************************************************************************)
(* The inductive invariant behind GenerationExplained.  No generation is   *)
(* above the events that complete lines can account for: the one that the  *)
(* next append is merged with, if it was cut short, cannot.                *)
(***************************************************************************)
Explained == 1 + Len(journal) - (IF EndsTorn THEN 1 ELSE 0)

WriterInv(p) ==
  /\ pc[p] \notin {"create-journal", "init-open", "init-write", "init-replace"}
  /\ pc[p] \in {"count", "append", "open", "write", "replace"} => generation[p] <= Explained

ContentInv ==
  /\ manifest.target # Nothing
  /\ \A content \in {manifest.target, manifest.tmp} : content \in Nat => content <= Explained

ReaderInv(r) ==
  /\ pc[r] \in {"read", "journal"} => initialized[r]
  /\ pc[r] = "journal" => generation[r] <= Explained
  /\ pc[r] = "done" => generation[r] <= 1 + Len(seen[r])

\* The code behind it: in append_event the line is written before the
\* manifest, and summarize reads them in the opposite order.
GenerationInv ==
  existing =>
    /\ journalMade
    /\ ContentInv
    /\ \A p \in Writers : WriterInv(p)
    /\ \A r \in Readers : ReaderInv(r)

\* The inductive invariant behind JournalIsAppendOnly: while commands follow one
\* another, none truncates a journal that another has filled since it looked.
FirstUseInv ==
  oneAtATime =>
    /\ \A p, q \in Writers : p = q \/ pc[p] \in Idle \/ pc[q] \in Idle
    /\ \A p \in Writers :
         /\ pc[p] = "create-journal" => journal = << >>
         /\ pc[p] \notin Idle \union {"create-journal"} => journalMade
    /\ ~journalMade => journal = << >>

-----------------------------------------------------------------------------
(* What the repository says and the code does not do. *)

\* "append paths must be explicit and append-only" (local_store.py:11): a
\* complete line of the journal stays where it is.
AppendOnly == [][KeepsLines]_vars

\* "GET /events/{id}: Returns a single event by `event_id`"
\* (docs/service-boundary.md:77-79): the id that `store record` gave to an
\* appender leads to the event of that appender.
EventFoundById == \A p \in Appenders : pc[p] = "done" => FoundById(p)

=============================================================================

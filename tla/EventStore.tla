----------------------------- MODULE EventStore -----------------------------
(***************************************************************************)
(* The local store of canonical events, one JSON line per event, that      *)
(* tools/sourceos_eventctl.py maintains: `write` of an event file and      *)
(* `emit-policy-decision` append to it; `show`, `list` and `verify-store`  *)
(* read it.  Nothing takes a lock, and any command can die.                *)
(*                                                                         *)
(* The text of an event is two fragments, and a line is the fragments up   *)
(* to an end of line.  An event that does not fit the buffer of the file   *)
(* object reaches the file in several writes, between which others append. *)
(* Fragments of different commands never make an event together.           *)
(***************************************************************************)
EXTENDS Integers, Sequences

CONSTANTS
  Documents,  \* what an event file can hold
  Valid,      \* the documents that keep the event schema
  Large,      \* the documents that are written in several pieces
  Paths,      \* event files
  NoFile, TornFile,
  Commands,   \* runs of `write` and `emit-policy-decision --store`
  Emitters,   \* those of `emit-policy-decision`
  EmittedBy,  \* the events these make, with new ids
  Rejecting,  \* the runs of `write` without --allow-duplicate
  NoDocument,
  MaxFaults   \* bound: commands that die or cannot write

ASSUME DocumentsAssumption ==
  /\ Valid \subseteq Documents /\ Large \subseteq Documents
  /\ {NoFile, TornFile, NoDocument} \intersect Documents = {}
  /\ Emitters \subseteq Commands
  /\ Rejecting \subseteq Commands \ Emitters
  /\ EmittedBy \in [Emitters -> Documents]
  /\ MaxFaults \in Nat

VARIABLES
  files,   \* the content of each event file
  lines,   \* the store
  pc,
  doc,     \* the event a command has loaded or made
  sent,    \* how much of it has reached the store: 1, 2 fragments, 3 the end of line
  before,  \* observed only: the rejecting runs that had ended when this one began
  faults

vars == <<files, lines, pc, doc, sent, before, faults>>

Fragment == [by : Commands, part : {1, 2}]
Line     == [text : Seq(Fragment), ended : BOOLEAN]
Ended    == {"done", "duplicate", "failed"}

Goto(c, label) == pc' = [pc EXCEPT ![c] = label]

-----------------------------------------------------------------------------
(* What readers make of the store (iter_store skips blank lines). *)

WholeText(c) == <<[by |-> c, part |-> 1], [by |-> c, part |-> 2]>>

Blank(line)   == line.text = << >>
IsEvent(line) == \E c \in Commands : line.text = WholeText(c)

EventLines == {i \in DOMAIN lines : IsEvent(lines[i])}
Author(i)  == lines[i].text[1].by
Event(i)   == doc[Author(i)]

\* Mutant: the search ends at the first line that cannot be parsed.
FoundBeforeDamage(id) ==
  \E i \in EventLines :
    /\ Event(i).id = id
    /\ \A j \in 1..i : Blank(lines[j]) \/ IsEvent(lines[j])

\* find_event, which is `show`.
Found(id) == \E i \in EventLines : Event(i).id = id

\* `list` stops at the first line that cannot be parsed.
Listed ==
  {i \in EventLines : \A j \in 1..i : Blank(lines[j]) \/ IsEvent(lines[j])}

\* Mutant: lines that cannot be parsed are skipped, as `show` does.
VerifySkipsDamage ==
  /\ \A i \in EventLines : Event(i) \in Valid
  /\ \A i, j \in EventLines : Event(i).id = Event(j).id => i = j

\* `verify-store` finds no error.
VerifyStore ==
  /\ \A i \in DOMAIN lines : Blank(lines[i]) \/ IsEvent(lines[i])
  /\ \A i \in EventLines : Event(i) \in Valid
  /\ \A i, j \in EventLines : Event(i).id = Event(j).id => i = j

-----------------------------------------------------------------------------
(* `write` and `emit-policy-decision`. *)

\* load_valid_event: a file that is missing, torn or invalid ends the command.
Load(c) ==
  /\ c \notin Emitters
  /\ pc[c] = "start"
  /\ \E path \in Paths :
       IF files[path] \in Valid
       THEN /\ doc' = [doc EXCEPT ![c] = files[path]]
            /\ Goto(c, IF c \in Rejecting THEN "lookup" ELSE "append")
       ELSE Goto(c, "failed") /\ UNCHANGED doc
  /\ before' = [before EXCEPT ![c] = {d \in Rejecting : pc[d] \in Ended}]
  /\ UNCHANGED <<files, lines, sent, faults>>

\* policy_event, validated like any other; no duplicate is looked for.
Emit(c) ==
  /\ c \in Emitters
  /\ pc[c] = "start"
  /\ IF EmittedBy[c] \in Valid
     THEN doc' = [doc EXCEPT ![c] = EmittedBy[c]] /\ Goto(c, "append")
     ELSE Goto(c, "failed") /\ UNCHANGED doc
  /\ UNCHANGED <<files, lines, sent, before, faults>>

\* cmd_write: args.reject_duplicate and find_event.
Lookup(c) ==
  /\ pc[c] = "lookup"
  /\ Goto(c, IF Found(doc[c].id) THEN "duplicate" ELSE "append")
  /\ UNCHANGED <<files, lines, doc, sent, before, faults>>

\* The fragments of the parts from+1..to of the event of c; the third part is
\* the end of line.
Pieces(c, from, to) == SubSeq(WholeText(c), from + 1, IF to = 3 THEN 2 ELSE to)

\* The store after these parts have been appended: to a last line that has not
\* been ended, if there is one.
Appended(c, from, to) ==
  LET last  == Len(lines)
      piece == Pieces(c, from, to)
  IN  IF last > 0 /\ ~lines[last].ended
      THEN [lines EXCEPT ![last] = [text |-> @.text \o piece, ended |-> (to = 3)]]
      ELSE Append(lines, [text |-> piece, ended |-> (to = 3)])

\* append_event: one write, or several for a large event.
AppendEvent(c) ==
  /\ pc[c] = "append"
  /\ \E to \in (sent[c] + 1)..3 :
       /\ to = 3 \/ doc[c] \in Large
       /\ lines' = Appended(c, sent[c], to)
       /\ sent' = [sent EXCEPT ![c] = to]
       /\ Goto(c, IF to = 3 THEN "done" ELSE "append")
  /\ UNCHANGED <<files, doc, before, faults>>

\* The command is killed, or the disk is full: what it had still to write is
\* cut short.
Die(c) ==
  /\ pc[c] \in {"lookup", "append"}
  /\ faults < MaxFaults
  /\ faults' = faults + 1
  /\ \/ UNCHANGED <<lines, sent>>
     \/ \E to \in (sent[c] + 1)..2 :
          /\ pc[c] = "append"
          /\ lines' = Appended(c, sent[c], to)
          /\ sent' = [sent EXCEPT ![c] = to]
  /\ Goto(c, "failed")
  /\ UNCHANGED <<files, doc, before>>

Command(c) == Load(c) \/ Emit(c) \/ Lookup(c) \/ AppendEvent(c) \/ Die(c)

\* Whoever makes event files does so at any time, and not atomically.
ChangeFile(path, content) ==
  /\ files' = [files EXCEPT ![path] = content]
  /\ UNCHANGED <<lines, pc, doc, sent, before, faults>>

Init ==
  /\ files \in [Paths -> Documents \union {NoFile, TornFile}]
  /\ lines = << >>
  /\ pc = [c \in Commands |-> "start"]
  /\ doc = [c \in Commands |-> NoDocument]
  /\ sent = [c \in Commands |-> 0]
  /\ before = [c \in Commands |-> {}]
  /\ faults = 0

Next ==
  \/ \E c \in Commands : Command(c)
  \/ \E path \in Paths, content \in Documents \union {TornFile} : ChangeFile(path, content)

Spec == Init /\ [][Next]_vars

-----------------------------------------------------------------------------
(***************************************************************************)
(* Properties.                                                             *)
(***************************************************************************)

\* Every variable has its type.
TypeOK ==
  /\ files \in [Paths -> Documents \union {NoFile, TornFile}]
  /\ lines \in Seq(Line)
  /\ pc \in [Commands -> {"start", "lookup", "append"} \union Ended]
  /\ doc \in [Commands -> Documents \union {NoDocument}]
  /\ sent \in [Commands -> 0..3]
  /\ before \in [Commands -> SUBSET Rejecting]
  /\ faults \in 0..MaxFaults

\* A store that verify-store accepts holds the event of every command that
\* succeeded, where `list` and `show` find it: an event that was merged with
\* another command's line, or lost to one that was cut short, does not go
\* unnoticed.
VerifiedStoreIsComplete ==
  VerifyStore => \A c \in Commands :
    pc[c] = "done" => \E i \in Listed : Author(i) = c

\* Two events of one id were written by commands of which neither had ended
\* when the other began: a later `write` finds the earlier event, also beyond
\* damaged lines and in a last line that was not ended.
DuplicatesOnlyByOverlap ==
  \A i, j \in EventLines :
    /\ {Author(i), Author(j)} \subseteq Rejecting
    /\ Event(i).id = Event(j).id
    => Author(i) \notin before[Author(j)]

=============================================================================

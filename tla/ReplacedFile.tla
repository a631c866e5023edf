---------------------------- MODULE ReplacedFile ----------------------------
(***************************************************************************)
(* The write-then-rename idiom of local_store.py (_write_manifest and      *)
(* put_record): write_text on `<name>.json.tmp`, then replace.  All the    *)
(* writers of a file use the same name for the temporary one.              *)
(*                                                                         *)
(* A file is a record of two contents, of which of them are torn without   *)
(* being empty, and of what each writer's open descriptor refers to.  The  *)
(* rename moves the temporary file, so that a descriptor opened on it      *)
(* before refers to the target from then on.                               *)
(***************************************************************************)
EXTENDS Naturals

CONSTANTS
  Nothing,   \* there is no such file
  Torn       \* the file is empty or cut short: json.loads raises

ASSUME ContentsAssumption == Nothing # Torn

Contents(Value) == Value \union {Nothing, Torn}

Descriptors == {"closed", "tmp", "target", "unlinked"}

FileOf(Value, Writers) ==
  [target : Contents(Value), tmp : Contents(Value),
   tails  : SUBSET {"tmp", "target"},
   fd     : [Writers -> Descriptors]]

\* The file with this content, no temporary file, and no descriptor open.
FileWith(content, Writers) ==
  [target |-> content, tmp |-> Nothing, tails |-> {},
   fd |-> [p \in Writers |-> "closed"]]

\* open(tmp, "w"): the file is created, or truncated under whoever has it open.
Opened(file, p) ==
  [file EXCEPT !.tmp = Torn, !.tails = @ \ {"tmp"}, !.fd = [@ EXCEPT ![p] = "tmp"]]

\* What a write of `new` from the start of a file leaves in it: an old text
\* that is not truncated and is longer, a torn one included, keeps its tail.
Overwritten(old, tail, new) == IF old = Torn /\ ~tail THEN {new} ELSE {new, Torn}

TailsAfter(tails, place, content) ==
  IF content = Torn THEN tails \union {place} ELSE tails \ {place}

\* The files that write and close may leave.
Written(file, p, value) ==
  LET closed == [file.fd EXCEPT ![p] = "closed"]
  IN  CASE file.fd[p] = "tmp" ->
             {[file EXCEPT !.tmp = content, !.fd = closed,
                           !.tails = TailsAfter(@, "tmp", content)] :
                content \in Overwritten(file.tmp, "tmp" \in file.tails, value)}
        [] file.fd[p] = "target" ->
             {[file EXCEPT !.target = content, !.fd = closed,
                           !.tails = TailsAfter(@, "target", content)] :
                content \in Overwritten(file.target, "target" \in file.tails, value)}
        [] OTHER -> {[file EXCEPT !.fd = closed]}

\* tmp.replace(target), when there is a temporary file.
Replaced(file) ==
  [file EXCEPT
     !.target = file.tmp,
     !.tmp = Nothing,
     !.tails = IF "tmp" \in @ THEN {"target"} ELSE {},
     !.fd = [p \in DOMAIN file.fd |->
               CASE file.fd[p] = "tmp" -> "target"
                 [] file.fd[p] = "target" -> "unlinked"
                 [] OTHER -> file.fd[p]]]

\* A process dies: its descriptor is closed, what it wrote stays.
Abandoned(file, p) == [file EXCEPT !.fd = [@ EXCEPT ![p] = "closed"]]

=============================================================================

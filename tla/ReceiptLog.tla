----------------------------- MODULE ReceiptLog -----------------------------
(***************************************************************************)
(* The receipt directory (receipt_store.py) as the host's health is read   *)
(* from it: cycles of the daemon and of `sync apply` each leave a file     *)
(* there, named after the second and the id of its receipt, and            *)
(* `sync check-health` and `sync status` judge by the last one.  SyncDaemon*)
(* treats the receipts as a set; here their names, their order and the     *)
(* moment between the making and the writing of one are what matters.      *)
(***************************************************************************)
EXTENDS Integers, FiniteSets

CONSTANTS
  DaemonCycles,  \* cycles of the daemon that find a new version
  ApplyCycles,   \* runs of `sync apply --store-root`
  Checks,        \* runs of `sync check-health` or `sync status`
  MaxSecond,     \* bound: seconds of the clock
  MaxCrashes     \* bound: cycles that die

Cycles == DaemonCycles \union ApplyCycles

\* A cycle stands for the first sixteen digits of its receipt's id, by which
\* receipts of one second are ordered.
ASSUME CyclesAssumption ==
  /\ Cycles \subseteq Nat \ {0}
  /\ DaemonCycles \intersect ApplyCycles = {}
  /\ MaxSecond \in Nat /\ MaxCrashes \in Nat

VARIABLES
  clock,
  files,    \* the directory: from names to what the file holds
  pc,
  receipt,  \* the receipt a cycle has made
  crashes,
  cpc,
  last,     \* the name of the file a check is going to read
  report,   \* what it says in the end
  alone,    \* observed only: the cycle that made a receipt last, while no other was
            \* under way and in a later second than all before
  failing   \* observed only: that one was done and had failed, when the check began

cycleVars == <<clock, files, pc, receipt, crashes, alone>>
checkVars == <<cpc, last, report, failing>>
vars      == <<cycleVars, checkVars>>

Torn == [outcome |-> "torn"]
None == 0

Gates    == {"allowed", "denied", "blocked", "no-op"}
Failures == {"failed", "denied", "blocked"}

Goto(c, label)  == pc' = [pc EXCEPT ![c] = label]
CGoto(k, label) == cpc' = [cpc EXCEPT ![k] = label]

-----------------------------------------------------------------------------
(* The names of the files and their order. *)

\* Mutant: the name has no id.
NameBySecond(r) == <<r.second, None>>

\* Mutant: the second is that of the writing.
NameByClock(r) == <<clock, r.id>>

\* write_receipt: issuedAt and the beginning of the id.
Name(r) == <<r.second, r.id>>

Later(m, n) == m[1] > n[1] \/ (m[1] = n[1] /\ m[2] > n[2])

\* Mutant: sorted without reverse=True.
First(limit) ==
  {n \in DOMAIN files : Cardinality({m \in DOMAIN files : Later(n, m)}) < limit}

\* list_receipts, before it reads: sorted in reverse and cut.
Listed(limit) ==
  {n \in DOMAIN files : Cardinality({m \in DOMAIN files : Later(m, n)}) < limit}

-----------------------------------------------------------------------------
(* Cycles. *)

Tick ==
  /\ clock < MaxSecond
  /\ clock' = clock + 1
  /\ UNCHANGED <<files, pc, receipt, crashes, alone, checkVars>>

\* execute: the outcome of a plan whose gate is this, `ok` when its steps were.
Outcome(gate, dryRun, ok) ==
  CASE gate = "denied"  -> "denied"
    [] gate = "blocked" -> "blocked"
    [] gate = "no-op"   -> "skipped"
    [] gate = "allowed" -> IF dryRun THEN "dry_run" ELSE IF ok THEN "applied" ELSE "failed"

\* execute and _build_receipt.  The daemon returns before when there is
\* nothing to do, and it is never a dry run.
Build(c) ==
  /\ pc[c] = "start"
  /\ \E gate \in Gates, dryRun, ok \in BOOLEAN :
       /\ c \in DaemonCycles => gate # "no-op" /\ ~dryRun
       /\ receipt' = [receipt EXCEPT ![c] =
            [second |-> clock, id |-> c, outcome |-> Outcome(gate, dryRun, ok)]]
  /\ Goto(c, "built")
  /\ alone' = IF /\ \A d \in Cycles : pc[d] \notin {"built", "open"}
                 /\ \A n \in DOMAIN files : n[1] < clock
              THEN c ELSE None
  /\ UNCHANGED <<clock, files, crashes, checkVars>>

\* path.write_text: the directory with the file `name`, new or replaced.
With(name, content) ==
  [n \in DOMAIN files \union {name} |-> IF n = name THEN content ELSE files[n]]

\* write_receipt: write_text truncates the file and then fills it.
OpenReceipt(c) ==
  /\ pc[c] = "built"
  /\ files' = With(Name(receipt[c]), Torn)
  /\ Goto(c, "open")
  /\ UNCHANGED <<clock, receipt, crashes, alone, checkVars>>

WriteReceipt(c) ==
  /\ pc[c] = "open"
  /\ files' = With(Name(receipt[c]), receipt[c])
  /\ Goto(c, "done")
  /\ UNCHANGED <<clock, receipt, crashes, alone, checkVars>>

Crash(c) ==
  /\ pc[c] \in {"built", "open"}
  /\ crashes < MaxCrashes
  /\ crashes' = crashes + 1
  /\ Goto(c, "dead")
  /\ UNCHANGED <<clock, files, receipt, alone, checkVars>>

Cycle(c) == Build(c) \/ OpenReceipt(c) \/ WriteReceipt(c) \/ Crash(c)

-----------------------------------------------------------------------------
(* Checks. *)

\* The outcomes that either command calls good.
GoodOutcomes ==
  [check_health |-> {"applied", "dry_run", "planned"},
   status       |-> {"applied", "dry_run", "planned", "no_change"}]

\* What the command says of a receipt with this outcome.  `rest` is what else
\* it looks at: whether Katello answers, or whether the unit is active.
Report(k, outcome) ==
  /\ \E command \in DOMAIN GoodOutcomes, rest \in BOOLEAN :
       report' = [report EXCEPT ![k] =
         [command |-> command, outcome |-> outcome, rest |-> rest,
          healthy |-> rest /\ outcome \in GoodOutcomes[command] \union {"none"}]]
  /\ CGoto(k, "done")

\* last_receipt, up to the name.
ListReceipts(k) ==
  /\ cpc[k] = "start"
  /\ failing' = [failing EXCEPT ![k] =
       alone # None /\ pc[alone] = "done" /\ receipt[alone].outcome \in Failures]
  /\ \/ /\ Listed(1) = {}
        /\ Report(k, "none")
        /\ UNCHANGED last
     \/ \E n \in Listed(1) :
          last' = [last EXCEPT ![k] = n] /\ CGoto(k, "read") /\ UNCHANGED report
  /\ UNCHANGED cycleVars

\* A file that does not parse is skipped, which leaves none.
ReadReceipt(k) ==
  /\ cpc[k] = "read"
  /\ Report(k, IF files[last[k]] = Torn THEN "none" ELSE files[last[k]].outcome)
  /\ UNCHANGED <<cycleVars, last, failing>>

Check(k) == ListReceipts(k) \/ ReadReceipt(k)

Init ==
  /\ clock = 1
  /\ files = << >>
  /\ pc = [c \in Cycles |-> "start"]
  /\ receipt = [c \in Cycles |-> Torn]
  /\ crashes = 0
  /\ cpc = [k \in Checks |-> "start"]
  /\ last = [k \in Checks |-> <<0, None>>]
  /\ report = [k \in Checks |-> [command |-> "none", outcome |-> "none", rest |-> FALSE, healthy |-> FALSE]]
  /\ alone = None
  /\ failing = [k \in Checks |-> FALSE]

Next ==
  \/ Tick
  \/ \E c \in Cycles : Cycle(c)
  \/ \E k \in Checks : Check(k)

Spec == Init /\ [][Next]_vars

-----------------------------------------------------------------------------
(***************************************************************************)
(* Properties.                                                             *)
(***************************************************************************)

\* A receipt that was written stays as it is: the files of two cycles are
\* never one, also in the same second.
ReceiptsAreKept ==
  [][\A n \in DOMAIN files :
       files[n] # Torn => n \in DOMAIN files' /\ files'[n] = files[n]]_vars

\* A sync that failed, was denied or blocked shows in both commands, until
\* another one makes its receipt.  Not so for one that shares its second or
\* overlaps with another: then the order of the names is not that of the ends.
FailureShows == \A k \in Checks : failing[k] => ~report[k].healthy

(***************************************************************************)
(* The inductive invariant behind the two.                                 *)
(***************************************************************************)
Outcomes == Failures \union {"skipped", "dry_run", "applied"}
Receipts == [second : Nat, id : Cycles, outcome : Outcomes]

TypeOK ==
  /\ clock \in Nat
  /\ IsFiniteSet(DOMAIN files)
  /\ pc \in [Cycles -> {"start", "built", "open", "done", "dead"}]
  /\ receipt \in [Cycles -> Receipts \union {Torn}]
  /\ cpc \in [Checks -> {"start", "read", "done"}]
  /\ DOMAIN last = Checks
  /\ DOMAIN report = Checks
  /\ alone \in Cycles \union {None}
  /\ failing \in [Checks -> BOOLEAN]

\* A cycle that has made its receipt has put its id and, at latest, the present
\* second into it; a file is that of one such cycle, and whole once that is done.
FilesInv ==
  /\ \A c \in Cycles : pc[c] # "start" =>
       receipt[c] \in Receipts /\ receipt[c].id = c /\ receipt[c].second <= clock
  /\ \A n \in DOMAIN files : \E c \in Cycles :
       /\ pc[c] \in {"open", "done", "dead"} /\ n = Name(receipt[c])
       /\ files[n] = IF pc[c] = "done" THEN receipt[c] ELSE Torn
  /\ \A c \in Cycles : pc[c] = "done" => Name(receipt[c]) \in DOMAIN files

\* All other cycles are over or have not begun, and their files are of earlier
\* seconds.
AloneInv ==
  alone # None =>
    /\ pc[alone] # "start"
    /\ \A c \in Cycles \ {alone} : pc[c] \notin {"built", "open"}
    /\ \A n \in DOMAIN files : n = Name(receipt[alone]) \/ n[1] < receipt[alone].second

\* A check that began while a failed cycle was alone reads that cycle's file.
ChecksInv ==
  \A k \in Checks :
    /\ cpc[k] # "done" => ~report[k].healthy
    /\ cpc[k] = "start" => ~failing[k]
    /\ cpc[k] = "read" /\ failing[k] =>
         last[k] \in DOMAIN files /\ files[last[k]] # Torn /\ files[last[k]].outcome \in Failures

LogInv == TypeOK /\ FilesInv /\ AloneInv /\ ChecksInv /\ FailureShows

\* test_status_exit_0_healthy_outcomes passes the outcome "no_change" and
\* expects 0 (tests/test_cli_sync_status.py:72-83): the receipt of a sync that
\* had nothing to do does not make status fail.
NothingToDoIsHealthy ==
  \A k \in Checks :
    /\ cpc[k] = "done" /\ report[k].command = "status"
    /\ report[k].outcome = "skipped" /\ report[k].rest
    => report[k].healthy

=============================================================================

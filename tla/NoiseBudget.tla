---------------------------- MODULE NoiseBudget -----------------------------
(***************************************************************************)
(* The coalescing of repeated events (noise_budget.py): one engine of one  *)
(* process.  Events of one kind, source and subject share a key, and the   *)
(* kind and the source decide whether the key is exempt.  Time plays no    *)
(* part: window_seconds is only reported, and nothing but flush() opens a  *)
(* new window.                                                             *)
(***************************************************************************)
EXTENDS Integers

CONSTANTS
  Keys,
  Critical,      \* the keys with a critical kind or an exempt source
  MaxDuplicates, \* max_duplicates_per_window
  MaxReceived    \* bound: events in a window

VARIABLES
  received,   \* _total_received
  suppressed, \* _total_suppressed
  critical,   \* _critical_passed
  seen,       \* _seen: the count of each key, 0 without an entry, and its suppressed events
  surfaced    \* observed only: how often a key surfaced in this window, and all of them

vars == <<received, suppressed, critical, seen, surfaced>>

-----------------------------------------------------------------------------
Surface(k, entry) ==
  /\ seen' = [seen EXCEPT ![k] = entry]
  /\ surfaced' = [surfaced EXCEPT !.of[k] = @ + 1, !.total = @ + 1]
  /\ UNCHANGED suppressed

IngestCritical(k) ==
  /\ k \in Critical
  /\ critical' = critical + 1
  /\ Surface(k, [count |-> 1, suppressed |-> 0])

Suppress(k) ==
  /\ k \notin Critical
  /\ seen[k].count > 0
  /\ seen[k].count >= MaxDuplicates
  /\ seen' = [seen EXCEPT ![k].suppressed = @ + 1]
  /\ suppressed' = suppressed + 1
  /\ UNCHANGED <<critical, surfaced>>

\* The first event of a key surfaces whatever the budget is.
Coalesce(k) ==
  /\ k \notin Critical
  /\ seen[k].count = 0 \/ seen[k].count < MaxDuplicates
  /\ Surface(k, [seen[k] EXCEPT !.count = @ + 1])
  /\ UNCHANGED critical

Ingest(k) ==
  /\ received < MaxReceived
  /\ received' = received + 1
  /\ IngestCritical(k) \/ Suppress(k) \/ Coalesce(k)

Empty == [k \in Keys |-> [count |-> 0, suppressed |-> 0]]

Flush ==
  /\ received' = 0 /\ suppressed' = 0 /\ critical' = 0
  /\ seen' = Empty
  /\ surfaced' = [of |-> [k \in Keys |-> 0], total |-> 0]

Init ==
  /\ received = 0 /\ suppressed = 0 /\ critical = 0
  /\ seen = Empty
  /\ surfaced = [of |-> [k \in Keys |-> 0], total |-> 0]

Next == Flush \/ \E k \in Keys : Ingest(k)

Spec == Init /\ [][Next]_vars

-----------------------------------------------------------------------------
(***************************************************************************)
(* Properties.                                                             *)
(***************************************************************************)

\* Every variable has its type.
TypeOK ==
  /\ received \in Nat /\ suppressed \in Nat /\ critical \in Nat
  /\ seen \in [Keys -> [count : Nat, suppressed : Nat]]
  /\ surfaced \in [of : [Keys -> Nat], total : Nat]

\* Between two flushes an event that is not exempt surfaces no more often than
\* the budget says, and once in any case; no exempt one is ever held back.
BudgetKept ==
  /\ \A k \in Keys \ Critical : surfaced.of[k] <= MaxDuplicates \/ surfaced.of[k] <= 1
  /\ \A k \in Critical \intersect Keys : seen[k].suppressed = 0

\* What budget_report reports accounts for every event, so that its
\* utilization is at most one.
ReportAccounts ==
  /\ received = suppressed + surfaced.total
  /\ critical <= surfaced.total
  /\ suppressed <= received

=============================================================================

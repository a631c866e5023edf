----------------------------- MODULE SyncLedger -----------------------------
(***************************************************************************)
(* What the receipt store promises to whoever reads it, whatever the       *)
(* number of syncers that write to it and wherever they stop:              *)
(*   - the applied syncs on record only grow, and one that claims the      *)
(*     epistemic level "Proved" is for a version whose release attestation *)
(*     had been published before;                                          *)
(*   - the recorded version is one of the applied syncs on record, or is   *)
(*     not known, or, after two syncers have recorded a version at the     *)
(*     same time, is a mixture of two that are on record.                  *)
(***************************************************************************)
CONSTANTS Versions, NoVersion, Mixed

VARIABLES
  authorized,  \* versions for which a verifying attestation was published
  ledger,      \* the applied syncs on record: <<version, level>> pairs
  recorded,    \* the version the store reports as current
  overlapped   \* two syncers have recorded a version at the same time

vars == <<authorized, ledger, recorded, overlapped>>

Init ==
  /\ authorized = {}
  /\ ledger = {}
  /\ recorded = NoVersion
  /\ overlapped = FALSE

Authorize(v) ==
  /\ authorized' = authorized \union {v}
  /\ UNCHANGED <<ledger, recorded, overlapped>>

Apply(v, level) ==
  /\ level = "Proved" => v \in authorized
  /\ ledger' = ledger \union {<<v, level>>}
  /\ UNCHANGED <<authorized, recorded, overlapped>>

Record(v) ==
  /\ \E level \in {"Proved", "Speculative"} : <<v, level>> \in ledger
  /\ recorded' = v
  /\ UNCHANGED <<authorized, ledger, overlapped>>

Mix ==
  /\ overlapped
  /\ \E entry, other \in ledger : entry[1] # other[1]
  /\ recorded' = Mixed
  /\ UNCHANGED <<authorized, ledger, overlapped>>

\* What another syncer's recording begins with.
Forget ==
  /\ recorded' = NoVersion
  /\ overlapped' \in {overlapped, TRUE}
  /\ UNCHANGED <<authorized, ledger>>

Next ==
  \/ \E v \in Versions : Authorize(v)
  \/ \E v \in Versions, level \in {"Proved", "Speculative"} : Apply(v, level)
  \/ \E v \in Versions : Record(v)
  \/ Mix \/ Forget

Spec == Init /\ [][Next]_vars

=============================================================================

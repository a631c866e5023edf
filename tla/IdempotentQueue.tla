-------------------------- MODULE IdempotentQueue --------------------------
(***************************************************************************)
(* What the event queue promises ("delivery_mode":                         *)
(* "exactly_once_by_idempotency_key"): a place of the queue is filled      *)
(* once, and keeps the record that filled it.                              *)
(***************************************************************************)
CONSTANTS Slots, Record, Absent

VARIABLE records

vars == <<records>>

Init == records = [slot \in Slots |-> Absent]

Admit(slot) ==
  /\ records[slot] = Absent
  /\ records'[slot] \in Record
  /\ records' = [records EXCEPT ![slot] = records'[slot]]

Next == \E slot \in Slots : Admit(slot)

Spec == Init /\ [][Next]_vars

=============================================================================

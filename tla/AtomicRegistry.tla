--------------------------- MODULE AtomicRegistry ---------------------------
(***************************************************************************)
(* What a registry promises: per name at most one record, replaced by      *)
(* another in one step.                                                    *)
(***************************************************************************)
CONSTANTS SafeIds, Record, Absent

VARIABLE records

vars == <<records>>

Init == records = [s \in SafeIds |-> Absent]

Put(s, record) == records' = [records EXCEPT ![s] = record]

Next == \E s \in SafeIds, record \in Record : Put(s, record)

Spec == Init /\ [][Next]_vars

=============================================================================

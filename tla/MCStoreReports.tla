--------------------------- MODULE MCStoreReports ---------------------------
(***************************************************************************)
(* Instances of StoreReports for TLC.                                      *)
(***************************************************************************)
EXTENDS StoreReports, TLC

CONSTANTS a1, a2, a3, r1, o1

\* Two events that add an object, and one that deletes it.
MCContent == [p \in Appenders |-> [type |-> IF p = a2 THEN "delete" ELSE "add", object |-> o1]]

AddSymmetry == Permutations({a1, a3})

=============================================================================

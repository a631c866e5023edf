-------------------------- MODULE MCRecordRegistry --------------------------
(***************************************************************************)
(* Instances of RecordRegistry for TLC.                                    *)
(***************************************************************************)
EXTENDS RecordRegistry, TLC

CONSTANTS k1, k2, k3, s1, s2, p1, p2, p3, p4, g1, g2

\* The first two record ids have one file name, the third has its own.
SafeIdOf == (k1 :> s1) @@ (k2 :> s1) @@ (k3 :> s2)

\* One call writes each of the colliding records, two write the third one.
Calls == (p1 :> k1) @@ (p2 :> k2) @@ (p3 :> k3) @@ (p4 :> k3) @@ (g1 :> k1) @@ (g2 :> k3)

=============================================================================

------------------------ MODULE MCOrchestrationQueue ------------------------
(***************************************************************************)
(* Instances of OrchestrationQueue for TLC.                                *)
(***************************************************************************)
EXTENDS OrchestrationQueue, TLC

CONSTANTS k1, k2, k3, n1, n2, x1, x2, e1, e2, r1

\* safe_id rejects the third key.
SafeIdOf == (k1 :> n1) @@ (k2 :> n2) @@ (k3 :> NoName)

Required(key, payload, outcome, highRisk) ==
  [key |-> key, payload |-> payload, complete |-> TRUE,
   outcome |-> outcome, required |-> outcome,
   highRisk |-> highRisk, strictApproval |-> FALSE]

Fan(key, payload)        == Required(key, payload, "allowed", FALSE)
Unreceipted(key)         == [Fan(key, x1) EXCEPT !.complete = FALSE]
Overruled(key)           == [Fan(key, x2) EXCEPT !.required = "denied"]
AllowedOutright(key)     == Required(key, x1, "allowed", TRUE)
ApprovedStrictly(key)    == [Required(key, x1, "requires_approval", TRUE)
                               EXCEPT !.strictApproval = TRUE]
ApprovedAnyhow(key)      == Required(key, x2, "requires_approval", TRUE)
Denied(key)              == Required(key, x1, "denied", TRUE)

\* Batches with a duplicate, with a key that safe_id rejects, and with records
\* of one key for several queue states.
Batches ==
  { <<Fan(k1, x1), Fan(k2, x1)>>,
    <<Fan(k1, x2), Fan(k1, x1)>>,
    <<Unreceipted(k1), ApprovedStrictly(k1)>>,
    <<AllowedOutright(k1), Fan(k3, x1)>>,
    <<Overruled(k1), Fan(k1, x2)>>,
    <<ApprovedAnyhow(k2), Denied(k2)>> }

AnyBatches == [{e1, e2} -> Batches]

EnqueuerSymmetry == Permutations({e1, e2})

=============================================================================

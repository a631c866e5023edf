------------------------------ MODULE SyncPlan ------------------------------
(***************************************************************************)
(* The pure decisions of a content view sync: the release-attestation      *)
(* check (release_attestation.py), the policy gate and the step list of    *)
(* ContentViewSyncer.plan, and the outcome that ContentViewSyncer.execute  *)
(* derives from the status of its steps (content_sync.py).                 *)
(*                                                                         *)
(* A content view version is an opaque value, compared only for equality,  *)
(* as the code compares the version strings Katello reports.               *)
(***************************************************************************)
EXTENDS Naturals, Sequences

CONSTANTS
  Versions,    \* the content view versions Katello can report
  NoVersion    \* no version: None, an absent or an empty file

ASSUME NoVersionAssumption == NoVersion \notin Versions

MaybeVersion == Versions \union {NoVersion}

(***************************************************************************)
(* A release attestation, abstracted to what the check looks at: the       *)
(* version its artifactId binds, and whether it has every required field   *)
(* and a signature that verifies against the producer's key.               *)
(***************************************************************************)
Attestation   == [binds : Versions, verifies : BOOLEAN]
NoAttestation == [binds |-> NoVersion, verifies |-> FALSE]

MaybeAttestation == Attestation \union {NoAttestation}

(***************************************************************************)
(* What a syncer is constructed with: is its locus in ALLOWED_LOCI, are    *)
(* signing_public_key, require_attestation, attestation_public_key and,    *)
(* for a daemon, attestation_dir set, and was a store root given (`sync    *)
(* apply` records nothing without --store-root).                           *)
(***************************************************************************)
Settings == [allowedLocus : BOOLEAN, signingKey : BOOLEAN, gated : BOOLEAN,
             trustedKey : BOOLEAN, attestationDir : BOOLEAN, storeRoot : BOOLEAN]

\* Mutant: the binding to the version is not compared.
AuthorizesUnbound(settings, attestation, version) ==
  attestation # NoAttestation /\ settings.trustedKey /\ attestation.verifies

\* Mutant: without a key the signature goes unchecked.
AuthorizesUnkeyed(settings, attestation, version) ==
  /\ attestation # NoAttestation
  /\ attestation.binds = version
  /\ settings.trustedKey => attestation.verifies

\* verify_release_attestation with the default verifier: absent, bound to
\* another artifact, incomplete or not verifying all refuse, and so does
\* everything if there is no key to verify with.
Authorizes(settings, attestation, version) ==
  /\ attestation # NoAttestation
  /\ attestation.binds = version
  /\ settings.trustedKey
  /\ attestation.verifies

Gates  == {"denied", "no-op", "blocked", "allowed"}
Levels == {"Proved", "Speculative"}

\* Mutant: the return on "no-op" is missing.
PolicyGateReapplying(settings, current, target, attestation) ==
  IF ~settings.allowedLocus THEN "denied"
  ELSE IF settings.gated /\ ~Authorizes(settings, attestation, target) THEN "blocked"
  ELSE "allowed"

\* The early returns of plan(), in the order of the code.
PolicyGate(settings, current, target, attestation) ==
  IF ~settings.allowedLocus THEN "denied"
  ELSE IF current = target THEN "no-op"
  ELSE IF settings.gated /\ ~Authorizes(settings, attestation, target) THEN "blocked"
  ELSE "allowed"

\* Mutant: an allowed switch is "Proved" even if no attestation was required.
EpistemicLevelLaundered(settings, gate) ==
  IF gate = "allowed" THEN "Proved" ELSE "Speculative"

\* "Proved" only when the attestation check ran and authorized the switch.
EpistemicLevel(settings, gate) ==
  IF gate = "allowed" /\ settings.gated THEN "Proved" ELSE "Speculative"

StepNames == {"curl-info", "curl-minisig", "minisign", "nix-copy", "switch"}

\* The signature verification comes first, if there is a key.
PlanSteps(settings) ==
  IF settings.signingKey
  THEN <<"curl-info", "curl-minisig", "minisign", "nix-copy", "switch">>
  ELSE <<"nix-copy", "switch">>

(***************************************************************************)
(* execute(): the status of a step, the abort flag, and the outcome.       *)
(***************************************************************************)
StepStatuses == {"ok", "failed", "timeout", "skipped", "dry_run", "not-run"}
Outcomes     == {"applied", "failed", "dry_run", "denied", "blocked", "skipped"}

Modes == {"dry-run", "execute"}   \* dry_run=True, dry_run=False

StatusesOf(results) == {results[i] : i \in DOMAIN results}

\* Mutant: the timeout branch forgets to set the abort flag.
AbortedOnFailure(results) == "failed" \in StatusesOf(results)

Aborted(results) == StatusesOf(results) \intersect {"failed", "timeout"} # {}

\* The outcome of a plan that was not allowed (execute() runs no step).
RefusalOutcome(gate) ==
  IF gate \in {"denied", "blocked"} THEN gate ELSE "skipped"

\* Mutant: any() in place of all().
StepsOutcomeAny(mode, results) ==
  IF mode = "dry-run" THEN "dry_run"
  ELSE IF "ok" \in StatusesOf(results) THEN "applied" ELSE "failed"

\* The outcome once every step of an allowed plan has a status.
StepsOutcome(mode, results) ==
  IF mode = "dry-run" THEN "dry_run"
  ELSE IF ~Aborted(results) /\ StatusesOf(results) \subseteq {"ok", "dry_run", "skipped"}
  THEN "applied"
  ELSE "failed"

SyncOutcome(gate, mode, results) ==
  IF gate = "allowed" THEN StepsOutcome(mode, results) ELSE RefusalOutcome(gate)

\* The executable a step needs, looked up with shutil.which before it runs;
\* execute() looks up no other tool.
NeedsTool(step) ==
  CASE step = "nix-copy" -> {"nix"}
    [] step = "switch"   -> {"nixos-rebuild"}
    [] OTHER             -> {}

=============================================================================

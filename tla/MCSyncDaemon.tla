---------------------------- MODULE MCSyncDaemon ----------------------------
(***************************************************************************)
(* Instances of SyncDaemon for TLC.                                        *)
(***************************************************************************)
EXTENDS SyncDaemon, TLC

CONSTANTS v1, v2, d1, o1

MCVersions == {v1, v2}

Gated     == [allowedLocus |-> TRUE, signingKey |-> FALSE, gated |-> TRUE,
              trustedKey |-> TRUE, attestationDir |-> TRUE, storeRoot |-> TRUE]
Signed    == [Gated EXCEPT !.signingKey = TRUE]
Denied    == [Gated EXCEPT !.allowedLocus = FALSE]
Ungated   == [Gated EXCEPT !.gated = FALSE]
Storeless == [Ungated EXCEPT !.storeRoot = FALSE]

\* A daemon that requires attestations without the key, without the directory,
\* and without both, as `sync daemon` constructs it.
Keyless       == [Gated EXCEPT !.trustedKey = FALSE]
Directoryless == [Gated EXCEPT !.attestationDir = FALSE]
Shipped       == [Keyless EXCEPT !.attestationDir = FALSE]

\* A daemon alone.
AnySettings == [{d1} -> {Signed, Denied, Ungated, Keyless, Directoryless, Shipped}]
UngatedOnly == [{d1} -> {Ungated}]
GatedOnly   == [{d1} -> {Gated}]
ShippedOnly == [{d1} -> {Shipped}]

\* An operator with or without --store-root beside a daemon, and one with
\* --no-require-attestation beside a daemon that requires them.
WithOrWithoutStore == {(d1 :> Ungated) @@ (o1 :> s) : s \in {Ungated, Storeless}}
GatedDaemon        == {(d1 :> Gated) @@ (o1 :> Ungated)}

FullPath == {{"nix", "nixos-rebuild"}}
AnyPath  == SUBSET {"nix", "nixos-rebuild"}

\* Attestations for one version, published under the name of any.
ForOneVersion  == [binds : {v1}, verifies : BOOLEAN]
ValidForOne    == [binds : {v1}, verifies : {TRUE}]

OneRelease == {v1}

VersionSymmetry == Permutations(MCVersions)

=============================================================================

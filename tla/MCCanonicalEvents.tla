------------------------- MODULE MCCanonicalEvents --------------------------
(***************************************************************************)
(* Instances of CanonicalEvents for TLC.                                   *)
(***************************************************************************)
EXTENDS CanonicalEvents, TLC

CONSTANTS
  w1, w2, \* runs of `write`
  e1, e2  \* runs of `emit-policy-decision`

\* A shell that is the root of its chain and still runs, and with it, when its
\* exit was observed, a process that it launched.
Shell  == [process |-> "shell", root |-> "evt_shell", parent |-> NoParent, exited |-> FALSE]
Shells == {Shell}
Chain  ==
  {[Shell EXCEPT !.exited = TRUE],
   [process |-> "child", root |-> "evt_shell", parent |-> "evt_shell", exited |-> FALSE]}

\* The exit id of an exit id stands for all further ones.
ExitIdsMC == ("evt_shell" :> "evt_shell_exit") @@ ("evt_shell_exit" :> "evt_shell_exit_exit")
               @@ ("evt_shell_exit_exit" :> "evt_shell")

\* An observation id with and one without the prefix.
EventIdsMC == ("seen" :> "evt_seen") @@ ("evt_seen" :> "evt_seen")

\* Two codes, one with a fixed severity and one without.
Fixed    == [code |-> "FIXED", result |-> "deny", outcome |-> "blocked_expected",
             severity |-> "notice", risk |-> "low", stricter |-> FALSE,
             operations |-> {AnyClass}, targets |-> {"file"}]
Flexible == [code |-> "FLEXIBLE", result |-> "deny", outcome |-> "blocked_unexpected",
             severity |-> "warning", risk |-> "medium", stricter |-> TRUE,
             operations |-> {"read"}, targets |-> {AnyClass}]

RegistriesMC == {<<Fixed, Flexible>>}

\* Of these, only the critical one with the second code is accepted.
ObservationsMC ==
  {[id |-> id, code |-> code, result |-> "deny", outcome |-> Absent, severity |-> severity,
    risk |-> "medium", operation |-> operation, target |-> "file"] :
     id \in ObservationIds, code \in Codes, severity \in {"info", "critical"},
     operation \in {"read", "write"}}

\* An event file that someone has written by hand.
Coalesced == [id |-> "evt_hand", class |-> "telemetry.coalesced"]

PathsMC == EventIds \union ProcessEventIds \union {"evt_hand"}

FilesMC == [path \in PathsMC |-> IF path = "evt_hand" THEN Coalesced ELSE NoFile]

EmittedMC == (e1 :> [id |-> "evt_first", class |-> "policy.decision"])
               @@ (e2 :> [id |-> "evt_second", class |-> "policy.decision"])

ProcessEvents == UNION {{EmitEvents(t)[i] : i \in DOMAIN EmitEvents(t)} : t \in Tuples}
Decisions     == UNION {NormalizedEvents(r, o) : r \in Registries, o \in Observations}

\* One of the emitted events has a long narrative.
LargeMC == {EmittedMC[e1]}

\* An event that breaks the schema is as unusable as a torn file.
ValidMC == {Coalesced, EmittedMC[e1], EmittedMC[e2]} \union ProcessEvents \union Decisions

WriteSymmetry == Permutations({w1, w2})

=============================================================================

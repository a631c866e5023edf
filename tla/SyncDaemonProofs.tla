-------------------------- MODULE SyncDaemonProofs --------------------------
(***************************************************************************)
(* Theorems about SyncDaemon, for every set of versions, daemons,          *)
(* operators, settings and bounds.                                         *)
(***************************************************************************)
EXTENDS SyncDaemon, SequenceTheorems, FiniteSetTheorems, TLAPS

USE NoVersionAssumption, MixedAssumption, SyncersAssumption, ConfigurationsAssumption,
    ReleasesAssumption, AttestationsAssumption, ToolsAssumption, BoundsAssumption

-----------------------------------------------------------------------------
(* Lemmas about the operators of SyncPlan and the helpers of SyncDaemon. *)

\* A plan has two steps, or five when the signature is verified first; the
\* last one is the switch, and it is the only one.
LEMMA PlanStepsShape ==
  ASSUME NEW s \in Settings
  PROVE  /\ PlanSteps(s) \in Seq(StepNames)
         /\ Len(PlanSteps(s)) \in {2, 5}
         /\ \A i \in 1..Len(PlanSteps(s)) :
              PlanSteps(s)[i] = "switch" <=> i = Len(PlanSteps(s))
<1>1. CASE s.signingKey
  <2> DEFINE steps == <<"curl-info", "curl-minisig", "minisign", "nix-copy", "switch">>
  <2>1. PlanSteps(s) = steps  BY <1>1 DEF PlanSteps
  <2>2. steps \in Seq(StepNames)  BY DEF StepNames
  <2>3. Len(steps) = 5  OBVIOUS
  <2>4. \A i \in 1..5 : steps[i] = "switch" <=> i = 5  OBVIOUS
  <2> HIDE DEF steps
  <2>5. QED BY <2>1, <2>2, <2>3, <2>4
<1>2. CASE ~s.signingKey
  <2> DEFINE steps == <<"nix-copy", "switch">>
  <2>1. PlanSteps(s) = steps  BY <1>2 DEF PlanSteps
  <2>2. steps \in Seq(StepNames)  BY DEF StepNames
  <2>3. Len(steps) = 2  OBVIOUS
  <2>4. \A i \in 1..2 : steps[i] = "switch" <=> i = 2  OBVIOUS
  <2> HIDE DEF steps
  <2>5. QED BY <2>1, <2>2, <2>3, <2>4
<1>3. QED BY <1>1, <1>2

\* The backoff stays within its maximum.
LEMMA NextBackoffType ==
  ASSUME NEW b \in 0..MaxBackoff
  PROVE  NextBackoff(b) \in 0..MaxBackoff
BY DEF NextBackoff

\* The gate, the level and the outcome of a sync are among the known ones.
LEMMA DecisionTypes ==
  /\ \A s, c, t, att : PolicyGate(s, c, t, att) \in Gates
  /\ \A s, g : EpistemicLevel(s, g) \in Levels
  /\ \A g, d, r : g \in Gates \union {"none"} => SyncOutcome(g, d, r) \in Outcomes
BY DEF PolicyGate, EpistemicLevel, SyncOutcome, RefusalOutcome, StepsOutcome,
       Gates, Levels, Outcomes

\* A sync is "applied" only if its plan was allowed, it was no dry run, and
\* every step succeeded or was skipped.
LEMMA AppliedOutcome ==
  ASSUME NEW g, NEW d, NEW r, SyncOutcome(g, d, r) = "applied"
  PROVE  /\ g = "allowed" /\ d # "dry-run"
         /\ StatusesOf(r) \subseteq {"ok", "dry_run", "skipped"}
BY DEF SyncOutcome, RefusalOutcome, StepsOutcome

-----------------------------------------------------------------------------
(* Type correctness. *)

\* The part of TypeOK about the processes.
ProcessTypeOK ==
  /\ pc \in [Syncers -> DaemonPcs \union OperatorPcs \union CyclePcs]
  /\ \A d \in Daemons : pc[d] \notin OperatorPcs
  /\ \A o \in Operators : pc[o] \notin DaemonPcs
  /\ cycle \in [Syncers -> Cycle]
  /\ \A a \in Syncers : HasTarget(a) => cycle[a].target \in Versions
  /\ stopRequested \in [Daemons -> BOOLEAN]
  /\ backoff \in [Daemons -> 0..MaxBackoff]
  /\ failures \in [Daemons -> 0..MaxBackoff + 1]

\* The part of TypeOK about what the processes share.
SharedTypeOK ==
  /\ head \in Releases
  /\ promoted \in MaybeVersion
  /\ directory \in [Versions -> MaybeAttestation]
  /\ published \subseteq Attestation
  /\ config \in Configurations
  /\ tools \in Tools
  /\ running \in MaybeVersion
  /\ switchedFor \subseteq Versions
  /\ versionFile \in VersionTexts
  /\ receipts \subseteq Receipt
  /\ overlapped \in BOOLEAN
  /\ faults \in 0..MaxFaults

\* The type invariant is the part about the processes and the part about what
\* they share.
LEMMA TypeOKParts == TypeOK <=> ProcessTypeOK /\ SharedTypeOK
BY DEF TypeOK, ProcessTypeOK, SharedTypeOK

\* The locals of a process outside a cycle are well typed.
LEMMA NoCycleType == NoCycle \in Cycle
BY DEF NoCycle, Cycle, VersionTexts, MaybeVersion, Levels, Modes

\* A cycle that ends leaves the processes well typed.
LEMMA EndCycleType ==
  ASSUME ProcessTypeOK, NEW a \in Syncers, NEW failed, EndCycle(a, failed)
  PROVE  ProcessTypeOK'
<1>1. NoCycle \in Cycle
  <2>1. cycle[a].gate \in Gates \union {"none"}
    BY DEF ProcessTypeOK, Cycle
  <2>2. QED BY <2>1, NoCycleType DEF Cycle
<1>2. cycle' \in [Syncers -> Cycle]
  BY <1>1 DEF ProcessTypeOK, EndCycle
<1>3. CASE a \in Daemons
  <2>1. pc' = [pc EXCEPT ![a] = "loop"]
    BY <1>3 DEF EndCycle
  <2>2. backoff' \in [Daemons -> 0..MaxBackoff]
    BY <1>3, NextBackoffType DEF ProcessTypeOK, EndCycle
  <2>3. failures' \in [Daemons -> 0..MaxBackoff + 1]
    BY <1>3 DEF ProcessTypeOK, EndCycle, Least
  <2>4. QED
    BY <1>2, <1>3, <2>1, <2>2, <2>3
    DEF ProcessTypeOK, EndCycle, Syncers, DaemonPcs, OperatorPcs, HasTarget
<1>4. CASE a \notin Daemons
  BY <1>2, <1>4 DEF ProcessTypeOK, EndCycle, Syncers, DaemonPcs, OperatorPcs, HasTarget
<1>5. QED BY <1>3, <1>4

\* Neither does a jump to a label of the cycle with well-typed locals.
LEMMA GotoType ==
  ASSUME ProcessTypeOK, NEW a \in Syncers, NEW label \in CyclePcs, Goto(a, label),
         NEW c \in Cycle, cycle' = [cycle EXCEPT ![a] = c],
         label # "fetch" => c.target \in Versions
  PROVE  ProcessTypeOK'
<1>1. cycle' \in [Syncers -> Cycle]
  BY DEF ProcessTypeOK
<1>2. \A b \in Syncers : HasTarget(b)' => cycle'[b].target \in Versions
  BY DEF ProcessTypeOK, HasTarget, Goto, CyclePcs
<1>3. QED
  BY <1>1, <1>2
  DEF ProcessTypeOK, Goto, daemonVars, Syncers, DaemonPcs, OperatorPcs, CyclePcs

\* Adding the status of one step keeps the processes well typed.
LEMMA AddResultType ==
  ASSUME ProcessTypeOK, NEW a \in Syncers, NEW status \in StepStatuses,
         AddResult(a, status), UNCHANGED <<pc, stopRequested, backoff, failures>>
  PROVE  ProcessTypeOK'
<1>1. cycle[a] \in Cycle
  BY DEF ProcessTypeOK
<1>2. Append(cycle[a].results, status) \in Seq(StepStatuses)
  BY <1>1 DEF Cycle
<1> DEFINE c == [cycle[a] EXCEPT !.results = Append(@, status)]
<1>3. c \in Cycle /\ c.target = cycle[a].target
  BY <1>1, <1>2 DEF Cycle
<1>4. cycle' = [cycle EXCEPT ![a] = c]
  BY DEF AddResult
<1> HIDE DEF c
<1>5. QED BY <1>3, <1>4 DEF ProcessTypeOK, HasTarget

\* Every step of a syncer's cycle preserves the types.
LEMMA AdvanceType ==
  ASSUME TypeOK, NEW a \in Syncers, Advance(a), UNCHANGED hostVars
  PROVE  TypeOK'
<1> USE DEF upstreamVars, hostVars, systemVars, storeVars, daemonVars
<1>0. /\ ProcessTypeOK /\ SharedTypeOK
      /\ cycle[a] \in Cycle
      /\ HasTarget(a) => cycle[a].target \in Versions
  BY TypeOKParts DEF ProcessTypeOK
<1>s. SUFFICES ProcessTypeOK' /\ SharedTypeOK'
  BY DEF TypeOK, ProcessTypeOK, SharedTypeOK
<1>1. CASE Fetch(a)
  <2> DEFINE c == [cycle[a] EXCEPT !.target = promoted]
  <2>1. promoted \in Versions
    BY <1>0, <1>1 DEF Fetch, SharedTypeOK, MaybeVersion
  <2>2. c \in Cycle /\ c.target \in Versions
    BY <1>0, <2>1 DEF Cycle, VersionTexts, MaybeVersion
  <2>3. cycle' = [cycle EXCEPT ![a] = c]
    BY <1>1 DEF Fetch
  <2> HIDE DEF c
  <2>4. ProcessTypeOK'
    BY <1>0, <1>1, <2>2, <2>3, GotoType DEF Fetch, CyclePcs
  <2>5. QED BY <1>0, <1>1, <2>4 DEF Fetch, SharedTypeOK
<1>2. CASE FetchFails(a)
  <2>1. ProcessTypeOK'  BY <1>0, <1>2, EndCycleType DEF FetchFails
  <2>2. QED BY <1>0, <1>2, <2>1 DEF FetchFails, SharedTypeOK, Fault
<1>3. CASE Plan(a)
  <2> PICK attestation \in AttestationsAtHand(a) :
        LET gate == PolicyGate(config[a], cycle[a].current, cycle[a].target, attestation)
        IN  IF gate = "no-op" /\ a \in Daemons
            THEN EndCycle(a, FALSE)
            ELSE /\ cycle' = [cycle EXCEPT ![a] =
                      [@ EXCEPT !.gate = gate,
                                !.level = EpistemicLevel(config[a], gate)]]
                 /\ Goto(a, "run")
    BY <1>3 DEF Plan
  <2> DEFINE gate == PolicyGate(config[a], cycle[a].current, cycle[a].target, attestation)
             level == EpistemicLevel(config[a], gate)
             c == [[cycle[a] EXCEPT !.gate = gate] EXCEPT !.level = level]
  <2>1. gate \in Gates /\ level \in Levels
    BY DecisionTypes
  <2>2. SharedTypeOK'  BY <1>0, <1>3 DEF Plan, SharedTypeOK
  <2>3. CASE gate = "no-op" /\ a \in Daemons
    BY <1>0, <2>2, <2>3, EndCycleType
  <2>4. CASE ~(gate = "no-op" /\ a \in Daemons)
    <3>1. cycle' = [cycle EXCEPT ![a] = c] /\ Goto(a, "run")
      BY <2>4
    <3> HIDE DEF gate, level
    <3>2. c \in Cycle /\ c.target = cycle[a].target
      BY <1>0, <2>1 DEF Cycle
    <3>3. cycle[a].target \in Versions
      BY <1>0, <1>3 DEF Plan, HasTarget
    <3> HIDE DEF c
    <3>4. QED BY <1>0, <2>2, <3>1, <3>2, <3>3, GotoType DEF CyclePcs
  <2>5. QED BY <2>3, <2>4
<1>4. CASE SkipStep(a) \/ StepSucceeds(a) \/ StepFails(a)
  <2>1. ProcessTypeOK'
    <3>1. PICK status \in StepStatuses : AddResult(a, status)
      BY <1>4 DEF SkipStep, StepSucceeds, StepFails, StepStatuses
    <3>2. UNCHANGED <<pc, stopRequested, backoff, failures>>
      BY <1>4 DEF SkipStep, StepSucceeds, StepFails
    <3>3. QED BY <1>0, <3>1, <3>2, AddResultType
  <2>2. CASE SkipStep(a)
    BY <1>0, <2>1, <2>2 DEF SkipStep, SharedTypeOK
  <2>3. CASE StepSucceeds(a)
    <3>1. cycle[a].target \in Versions
      BY <1>0, <2>3 DEF StepSucceeds, Launches, HasTarget
    <3>2. running' \in MaybeVersion /\ switchedFor' \subseteq Versions
      BY <1>0, <2>3, <3>1 DEF StepSucceeds, SharedTypeOK, MaybeVersion
    <3>3. QED BY <1>0, <2>1, <2>3, <3>2 DEF StepSucceeds, SharedTypeOK
  <2>4. CASE StepFails(a)
    <3>1. running' \in MaybeVersion
      BY <1>0, <2>4 DEF StepFails, SharedTypeOK, MaybeVersion
    <3>2. QED BY <1>0, <2>1, <2>4, <3>1 DEF StepFails, SharedTypeOK, Fault
  <2>5. QED BY <1>4, <2>2, <2>3, <2>4
<1>5. CASE WriteReceipt(a)
  <2>1. cycle[a].target \in Versions /\ cycle[a].level \in Levels
    BY <1>0, <1>5 DEF WriteReceipt, HasTarget, Cycle
  <2>2. Outcome(a) \in Outcomes
    BY <1>0, DecisionTypes DEF Outcome, Cycle
  <2>3. receipts' \subseteq Receipt
    BY <1>0, <1>5, <2>1, <2>2 DEF WriteReceipt, SharedTypeOK, Receipt
  <2>4. SharedTypeOK'  BY <1>0, <1>5, <2>3 DEF WriteReceipt, SharedTypeOK
  <2>5. CASE Outcome(a) = "applied"
    <3>1. Goto(a, "version") /\ cycle' = [cycle EXCEPT ![a] = cycle[a]]
      BY <1>0, <1>5, <2>5 DEF WriteReceipt, ProcessTypeOK
    <3>2. QED BY <1>0, <2>1, <2>4, <3>1, GotoType DEF CyclePcs
  <2>6. CASE Outcome(a) # "applied"
    BY <1>0, <1>5, <2>4, <2>6, EndCycleType DEF WriteReceipt
  <2>7. QED BY <2>5, <2>6
<1>6. CASE WriteReceiptFails(a) \/ WriteVersionFails(a)
  <2>1. ProcessTypeOK'
    BY <1>0, <1>6, EndCycleType DEF WriteReceiptFails, WriteVersionFails
  <2>2. Fault /\ UNCHANGED <<upstreamVars, systemVars, storeVars>>
    BY <1>6 DEF WriteReceiptFails, WriteVersionFails
  <2>3. QED BY <1>0, <2>1, <2>2 DEF SharedTypeOK, Fault
<1>7. CASE LeaveUnrecorded(a)
  <2>1. ProcessTypeOK'  BY <1>0, <1>7, EndCycleType DEF LeaveUnrecorded
  <2>2. QED BY <1>0, <1>7, <2>1 DEF LeaveUnrecorded, SharedTypeOK
<1>8. CASE TruncateVersion(a)
  <2>1. cycle' = [cycle EXCEPT ![a] = cycle[a]] /\ cycle[a].target \in Versions
    BY <1>0, <1>8 DEF TruncateVersion, ProcessTypeOK, HasTarget
  <2>2. ProcessTypeOK'
    BY <1>0, <1>8, <2>1, GotoType DEF TruncateVersion, CyclePcs
  <2>3. QED
    BY <1>0, <1>8, <2>2 DEF TruncateVersion, SharedTypeOK, VersionTexts, MaybeVersion
<1>9. CASE WriteVersion(a)
  <2>1. versionFile' \in VersionTexts
    BY <1>0, <1>9 DEF WriteVersion, TextsAfterWrite, Cycle, VersionTexts
  <2>2. ProcessTypeOK'  BY <1>0, <1>9, EndCycleType DEF WriteVersion
  <2>3. QED BY <1>0, <1>9, <2>1, <2>2 DEF WriteVersion, SharedTypeOK
<1>10. QED
  BY <1>1, <1>2, <1>3, <1>4, <1>5, <1>6, <1>7, <1>8, <1>9 DEF Advance

\* The initial states are well typed.
LEMMA InitType == Init => TypeOK
<1>1. ASSUME Init  PROVE ProcessTypeOK
  <2>1. cycle \in [Syncers -> Cycle]
    BY <1>1, NoCycleType DEF Init
  <2>2. QED
    BY <1>1, <2>1
    DEF Init, ProcessTypeOK, HasTarget, Syncers, DaemonPcs, OperatorPcs
<1>2. ASSUME Init  PROVE SharedTypeOK
  <2>1. directory \in [Versions -> MaybeAttestation]
    BY <1>2 DEF Init, MaybeAttestation
  <2>2. overlapped \in BOOLEAN
    BY <1>2 DEF Init
  <2> QED BY <1>2, <2>1, <2>2 DEF Init, SharedTypeOK, VersionTexts, MaybeVersion
<1>3. QED BY <1>1, <1>2, TypeOKParts

\* Every step of the system preserves the types.
LEMMA NextType == TypeOK /\ [Next]_vars => TypeOK'
<1> SUFFICES ASSUME TypeOK, [Next]_vars  PROVE TypeOK'
  OBVIOUS
<1> USE DEF upstreamVars, hostVars, systemVars, storeVars, daemonVars
<1>0. ProcessTypeOK /\ SharedTypeOK
  BY TypeOKParts
<1>s. SUFFICES ProcessTypeOK' /\ SharedTypeOK'
  BY DEF TypeOK, ProcessTypeOK, SharedTypeOK
<1>1. ASSUME UNCHANGED hostVars, NEW a \in Syncers, Advance(a)
      PROVE  ProcessTypeOK' /\ SharedTypeOK'
  BY <1>1, AdvanceType DEF TypeOK, ProcessTypeOK, SharedTypeOK
<1>2. ASSUME UNCHANGED hostVars, NEW d \in Daemons, DaemonPoll(d)
      PROVE  ProcessTypeOK' /\ SharedTypeOK'
  <2> DEFINE c == [cycle[d] EXCEPT !.current = versionFile]
  <2>0. cycle[d] \in Cycle /\ versionFile \in VersionTexts
    BY <1>0 DEF ProcessTypeOK, SharedTypeOK, Syncers
  <2>1. c \in Cycle
    BY <2>0 DEF Cycle
  <2>2. cycle' = [cycle EXCEPT ![d] = c]
    BY <1>2 DEF DaemonPoll
  <2> HIDE DEF c
  <2>3. ProcessTypeOK'
    BY <1>0, <1>2, <2>1, <2>2, GotoType DEF DaemonPoll, CyclePcs, Syncers
  <2>4. QED BY <1>0, <1>2, <2>3 DEF DaemonPoll, SharedTypeOK
<1>3. ASSUME UNCHANGED hostVars, NEW o \in Operators, OperatorStart(o)
      PROVE  ProcessTypeOK' /\ SharedTypeOK'
  <2>1. PICK current \in MaybeVersion, mode \in Modes :
          cycle' = [cycle EXCEPT ![o] = [@ EXCEPT !.current = current, !.mode = mode]]
    BY <1>3 DEF OperatorStart
  <2> DEFINE c == [[cycle[o] EXCEPT !.current = current] EXCEPT !.mode = mode]
  <2>0. cycle[o] \in Cycle
    BY <1>0 DEF ProcessTypeOK, Syncers
  <2>2. c \in Cycle
    BY <2>0 DEF Cycle, VersionTexts
  <2>3. cycle' = [cycle EXCEPT ![o] = c]
    BY <2>1
  <2> HIDE DEF c
  <2>4. ProcessTypeOK'
    BY <1>0, <1>3, <2>2, <2>3, GotoType DEF OperatorStart, CyclePcs, Syncers
  <2>5. QED BY <1>0, <1>3, <2>4 DEF OperatorStart, SharedTypeOK
<1>4. ASSUME UNCHANGED hostVars, NEW d \in Daemons, Wake(d) \/ Stop(d) \/ Signal(d)
      PROVE  ProcessTypeOK' /\ SharedTypeOK'
  <2>1. ProcessTypeOK'
    BY <1>0, <1>4
    DEF Wake, Stop, Signal, Goto, ProcessTypeOK, HasTarget, Syncers, DaemonPcs, OperatorPcs
  <2>2. QED BY <1>0, <1>4, <2>1 DEF Wake, Stop, Signal, SharedTypeOK
<1>5. ASSUME UNCHANGED hostVars, NEW a \in Syncers, Crash(a)
      PROVE  ProcessTypeOK' /\ SharedTypeOK'
  <2>1. ProcessTypeOK'
    BY <1>0, <1>5, NoCycleType
    DEF Crash, ProcessTypeOK, HasTarget, Syncers, DaemonPcs, OperatorPcs
  <2>2. Fault /\ UNCHANGED <<upstreamVars, systemVars, storeVars>>
    BY <1>5 DEF Crash
  <2>3. QED BY <1>0, <1>5, <2>1, <2>2 DEF SharedTypeOK, Fault
<1>6. ASSUME UNCHANGED hostVars, NEW d \in Daemons, Restart(d)
      PROVE  ProcessTypeOK' /\ SharedTypeOK'
  <2>1. ProcessTypeOK'
    BY <1>0, <1>6 DEF Restart, ProcessTypeOK, HasTarget, Syncers, DaemonPcs, OperatorPcs
  <2>2. QED BY <1>0, <1>6, <2>1 DEF Restart, SharedTypeOK
<1>7. ASSUME UNCHANGED hostVars, Upstream
      PROVE  ProcessTypeOK' /\ SharedTypeOK'
  <2>1. ProcessTypeOK'
    BY <1>0, <1>7 DEF Upstream, ProcessTypeOK, HasTarget
  <2>2. /\ head' \in Releases /\ promoted' \in MaybeVersion
        /\ directory' \in [Versions -> MaybeAttestation]
        /\ published' \subseteq Attestation
    BY <1>0, <1>7
    DEF Upstream, Release, Promote, Publish, SharedTypeOK, MaybeVersion, MaybeAttestation
  <2>3. QED BY <1>0, <1>7, <2>1, <2>2 DEF Upstream, SharedTypeOK
<1>8. CASE UNCHANGED vars
  BY <1>0, <1>8 DEF vars, ProcessTypeOK, SharedTypeOK, HasTarget
<1>9. QED
  BY <1>1, <1>2, <1>3, <1>4, <1>5, <1>6, <1>7, <1>8 DEF Next, DaemonStep, Syncers

\* The types hold in every reachable state.
THEOREM TypeCorrect == Spec => []TypeOK
BY InitType, NextType, PTL DEF Spec

-----------------------------------------------------------------------------
(* The inductive invariant SyncInv. *)

\* What every step does to the facts the invariant rests on.
Growing ==
  /\ receipts \subseteq receipts'
  /\ switchedFor \subseteq switchedFor'
  /\ published \subseteq published'
  /\ overlapped => overlapped'
  /\ UNCHANGED hostVars

\* Nothing another process does disturbs a syncer's part of the invariant.
LEMMA CycleKept ==
  ASSUME NEW b \in Syncers, CycleInv(b), Growing, pc'[b] = pc[b], cycle'[b] = cycle[b]
  PROVE  CycleInv(b)'
<1>1. /\ Authorized(cycle[b].target) => Authorized(cycle[b].target)'
      /\ config' = config /\ tools' = tools
      /\ AppliedReceipts \subseteq AppliedReceipts'
  BY DEF Growing, hostVars, Authorized, AppliedReceipts
<1>2. \A i : ResultExplained(b, i) => ResultExplained(b, i)'
  BY <1>1 DEF Growing, ResultExplained
<1>3. QED
  BY <1>1, <1>2 DEF CycleInv, Growing, Recording, Authorized, AppliedReceipts, CanVerify

\* A step that changes one syncer needs a look at that one only.
LEMMA OneCycleChanged ==
  ASSUME TypeOK, \A b \in Syncers : CycleInv(b), Growing,
         NEW a \in Syncers, NEW l, NEW c,
         pc' = [pc EXCEPT ![a] = l], cycle' = [cycle EXCEPT ![a] = c], CycleInv(a)'
  PROVE  \A b \in Syncers : CycleInv(b)'
<1> TAKE b \in Syncers
<1>1. CASE b = a  BY <1>1
<1>2. CASE b # a
  <2>1. pc'[b] = pc[b] /\ cycle'[b] = cycle[b]
    BY <1>2 DEF TypeOK
  <2>2. QED BY <2>1, CycleKept
<1>3. QED BY <1>1, <1>2

\* A syncer that a step leaves outside the last part of its cycle, without
\* results, has nothing left to explain.
LEMMA IdleInv ==
  ASSUME TypeOK, \A b \in Syncers : CycleInv(b), Growing,
         NEW a \in Syncers, NEW l, l \notin {"run", "version", "version-open"},
         NEW c, c.results = << >>,
         pc' = [pc EXCEPT ![a] = l], cycle' = [cycle EXCEPT ![a] = c]
  PROVE  \A b \in Syncers : CycleInv(b)'
<1>1. pc'[a] = l /\ cycle'[a].results = << >>
  BY DEF TypeOK
<1>2. CycleInv(a)'
  BY <1>1 DEF CycleInv, Recording
<1>3. QED BY <1>2, OneCycleChanged

\* A cycle that ends is such a step.
LEMMA EndCycleInv ==
  ASSUME TypeOK, \A b \in Syncers : CycleInv(b), Growing,
         NEW a \in Syncers, NEW failed, EndCycle(a, failed)
  PROVE  \A b \in Syncers : CycleInv(b)'
<1> DEFINE c == NoCycle
           l == IF a \in Daemons THEN "loop" ELSE "exit"
<1>1. pc' = [pc EXCEPT ![a] = l] /\ cycle' = [cycle EXCEPT ![a] = c]
  BY DEF EndCycle
<1>2. c.results = << >>
  <2>1. NoCycle.results = << >>  BY DEF NoCycle
  <2>2. cycle[a].gate \in Gates \union {"none"}  BY DEF TypeOK, Cycle
  <2>3. QED BY <2>1, <2>2, NoCycleType DEF Cycle
<1>3. l \in {"loop", "exit"}  OBVIOUS
<1> HIDE DEF c, l
<1>4. QED BY <1>1, <1>2, <1>3, IdleInv

\* The parts about the store and the switches, for a step that writes neither
\* an applied version nor a new switch or receipt.
LEMMA StoreKept ==
  ASSUME TypeOK, SyncInv, Growing, UNCHANGED <<receipts, switchedFor, running>>,
         versionFile' \in {versionFile, NoVersion}
  PROVE  /\ RecordBackedByReceipt' /\ RecordedWasSwitched'
         /\ ProvedMeansAttested' /\ OnlyAttestedApplied' /\ FailsClosed'
<1>0. NoVersion \notin Versions /\ NoVersion # Mixed
  BY DEF MaybeVersion
<1>1. RecordBackedByReceipt' /\ RecordedWasSwitched' /\ ProvedMeansAttested'
  BY <1>0 DEF SyncInv, Growing, hostVars, RecordBackedByReceipt, RecordedWasSwitched,
              ProvedMeansAttested, AppliedReceipts, Authorized
<1>2. OnlyAttestedApplied'
  BY <1>0 DEF SyncInv, Growing, hostVars, OnlyAttestedApplied, Authorized
<1>3. FailsClosed'
  BY DEF SyncInv, Growing, hostVars, FailsClosed, CanVerify, AppliedReceipts
<1> QED BY <1>1, <1>2, <1>3

\* The attestation directory holds only what was published.
DirectoryInv == \A v \in Versions : directory[v] \in published \union {NoAttestation}

CyclesInv == \A a \in Syncers : CycleInv(a)

StoreInv ==
  /\ RecordBackedByReceipt /\ ProvedMeansAttested
  /\ OnlyAttestedApplied /\ RecordedWasSwitched /\ FailsClosed

\* The invariant is the conjunction of its parts about the attestations, the
\* running cycles, the open version file and the receipt store.
LEMMA SyncInvParts == SyncInv <=> DirectoryInv /\ CyclesInv /\ OpenFileInv /\ StoreInv
BY DEF SyncInv, DirectoryInv, CyclesInv, StoreInv

\* An attestation that authorizes a version is the verifying one that names it.
LEMMA AuthorizesMeans ==
  ASSUME NEW attestation \in published \union {NoAttestation}, NEW v,
         published \subseteq Attestation, NEW settings, Authorizes(settings, attestation, v)
  PROVE  Authorized(v) /\ settings.trustedKey
<1>1. attestation \in published /\ attestation.binds = v /\ attestation.verifies = TRUE
  BY DEF Authorizes, Attestation
<1>2. attestation = [binds |-> v, verifies |-> TRUE]
  BY <1>1 DEF Attestation
<1>3. QED BY <1>1, <1>2 DEF Authorized, Authorizes

\* plan(): the gate of the new plan is what CycleInv says it is.
LEMMA PlanInv ==
  ASSUME TypeOK, SyncInv, UNCHANGED hostVars, NEW a \in Syncers, Plan(a)
  PROVE  CyclesInv'
<1> USE DEF CyclesInv
<1>0. /\ Growing /\ CyclesInv /\ DirectoryInv
      /\ cycle[a] \in Cycle /\ cycle[a].target \in Versions
      /\ cycle[a].results = << >>
  BY SyncInvParts DEF Plan, Growing, upstreamVars, storeVars, systemVars, TypeOK, HasTarget, CycleInv
<1> PICK attestation \in AttestationsAtHand(a) :
      LET gate == PolicyGate(config[a], cycle[a].current, cycle[a].target, attestation)
      IN  IF gate = "no-op" /\ a \in Daemons
          THEN EndCycle(a, FALSE)
          ELSE /\ cycle' = [cycle EXCEPT ![a] =
                    [@ EXCEPT !.gate = gate,
                              !.level = EpistemicLevel(config[a], gate)]]
               /\ Goto(a, "run")
  BY DEF Plan
<1> DEFINE gate == PolicyGate(config[a], cycle[a].current, cycle[a].target, attestation)
           level == EpistemicLevel(config[a], gate)
           c == [[cycle[a] EXCEPT !.gate = gate] EXCEPT !.level = level]
<1>1. attestation \in published \union {NoAttestation}
  BY <1>0 DEF AttestationsAtHand, DirectoryInv
<1>2. gate = "allowed" /\ config[a].gated => Authorized(cycle[a].target) /\ CanVerify(a)
  <2> SUFFICES ASSUME gate = "allowed", config[a].gated
               PROVE  Authorized(cycle[a].target) /\ CanVerify(a)
    OBVIOUS
  <2>1. Authorizes(config[a], attestation, cycle[a].target)
    BY DEF PolicyGate
  <2>2. Authorized(cycle[a].target) /\ config[a].trustedKey
    BY <1>1, <2>1, AuthorizesMeans DEF TypeOK
  <2>3. a \in Daemons => config[a].attestationDir
    BY <2>1, SyncersAssumption DEF AttestationsAtHand, Authorizes
  <2> QED BY <2>2, <2>3 DEF CanVerify
<1>3. level = "Proved" => gate = "allowed" /\ config[a].gated
  BY DEF EpistemicLevel
<1>4. gate \in Gates /\ level \in Levels
  BY DecisionTypes
<1>5. CASE gate = "no-op" /\ a \in Daemons
  BY <1>0, <1>5, EndCycleInv
<1>6. CASE ~(gate = "no-op" /\ a \in Daemons)
  <2>1. cycle' = [cycle EXCEPT ![a] = c] /\ pc' = [pc EXCEPT ![a] = "run"]
    BY <1>6 DEF Goto
  <2>2. /\ c.target = cycle[a].target /\ c.results = << >>
        /\ c.gate = gate /\ c.level = level
    BY <1>0, <1>4 DEF Cycle
  <2>3. Len(PlanSteps(config[a])) >= 0
    BY PlanStepsShape DEF TypeOK
  <2>4. config' = config /\ \A v : Authorized(v) => Authorized(v)'
    BY <1>0 DEF Growing, hostVars, Authorized
  <2> HIDE DEF c, gate, level
  <2>5. pc'[a] = "run" /\ cycle'[a] = c
    BY <2>1 DEF TypeOK
  <2>6. CycleInv(a)'
    BY <1>2, <1>3, <1>4, <2>2, <2>3, <2>4, <2>5 DEF CycleInv, Recording, Gates, CanVerify
  <2>7. QED BY <1>0, <2>1, <2>6, OneCycleChanged
<1>7. QED BY <1>5, <1>6

\* A status that is added explains what the step did, and spoils no earlier
\* one: a switch stays recorded in switchedFor, an abort stays an abort.
LEMMA ResultAdded ==
  ASSUME TypeOK, \A b \in Syncers : CycleInv(b), Growing,
         NEW a \in Syncers, pc[a] = "run", UNCHANGED pc, StepsLeft(a),
         NEW status \in StepStatuses, AddResult(a, status),
         status = "ok" /\ NextStep(a) = "switch" => cycle[a].target \in switchedFor',
         status = "skipped" => ~(NeedsTool(NextStep(a)) \subseteq tools),
         status = "dry_run" => cycle[a].mode = "dry-run",
         status = "not-run" => Aborted(cycle[a].results)
  PROVE  \A b \in Syncers : CycleInv(b)'
<1> DEFINE old == cycle[a].results
           results == Append(old, status)
           c == [cycle[a] EXCEPT !.results = Append(@, status)]
<1>1. cycle[a] \in Cycle /\ old \in Seq(StepStatuses)
  BY DEF TypeOK, Cycle
<1>2. /\ results \in Seq(StepStatuses)
      /\ Len(results) = Len(old) + 1
      /\ \A i \in 1..Len(old) : results[i] = old[i]
      /\ results[Len(old) + 1] = status
      /\ DOMAIN results = 1..Len(old) + 1
      /\ DOMAIN old = 1..Len(old) /\ Len(old) \in Nat
  BY <1>1
<1>3. Aborted(old) => Aborted(results)
  <2>1. StatusesOf(old) \subseteq StatusesOf(results)
    BY <1>2 DEF StatusesOf
  <2>2. QED BY <2>1 DEF Aborted
<1>4. /\ cycle' = [cycle EXCEPT ![a] = c] /\ pc' = [pc EXCEPT ![a] = pc[a]]
      /\ c.results = results /\ c.target = cycle[a].target /\ c.gate = cycle[a].gate
      /\ c.level = cycle[a].level /\ c.mode = cycle[a].mode
  BY <1>1, <1>2 DEF AddResult, TypeOK, Cycle
<1> HIDE DEF c, results
<1>5. cycle'[a] = c /\ pc'[a] = "run" /\ config' = config /\ tools' = tools
  BY <1>4 DEF TypeOK, Growing, hostVars
<1>6. \A i \in DOMAIN results : ResultExplained(a, i)'
  <2>1. TAKE i \in DOMAIN results
  <2>2. CASE i \in 1..Len(old)
    <3>1. ResultExplained(a, i) /\ results[i] = old[i]
      BY <1>2, <2>2 DEF CycleInv
    <3>2. QED
      BY <1>3, <1>4, <1>5, <3>1 DEF ResultExplained, Growing
  <2>3. CASE i = Len(old) + 1
    BY <1>2, <1>3, <1>4, <1>5, <2>3 DEF ResultExplained, NextStep
  <2>4. QED BY <1>2, <2>2, <2>3
<1>7. Len(results) <= Len(PlanSteps(config[a]))
  <2>1. Len(PlanSteps(config[a])) \in Nat
    BY PlanStepsShape DEF TypeOK
  <2>2. QED BY <1>2, <2>1 DEF StepsLeft
<1>8. \A v : Authorized(v) => Authorized(v)'
  BY DEF Growing, Authorized
<1>9. CycleInv(a)'
  BY <1>4, <1>5, <1>6, <1>7, <1>8 DEF CycleInv, Recording, CanVerify
<1>10. QED BY <1>4, <1>9, OneCycleChanged

\* The three ways a step gets its status.
LEMMA StepInv ==
  ASSUME TypeOK, SyncInv, UNCHANGED hostVars,
         NEW a \in Syncers, SkipStep(a) \/ StepSucceeds(a) \/ StepFails(a)
  PROVE  CyclesInv' /\ StoreInv'
<1> USE DEF upstreamVars, storeVars, systemVars, daemonVars
<1>0. CyclesInv /\ StoreInv
  BY SyncInvParts
<1>1. Growing /\ UNCHANGED <<pc, receipts, versionFile, published>>
  BY DEF SkipStep, StepSucceeds, StepFails, Growing
<1>2. StepsLeft(a) /\ pc[a] = "run"
  BY DEF SkipStep, StepSucceeds, StepFails, Launches
<1>3. CyclesInv'
  <2>1. CASE SkipStep(a)
    <3>1. PICK status \in {"not-run", "dry_run", "skipped"} :
            /\ AddResult(a, status)
            /\ status = "not-run" => Aborted(cycle[a].results)
            /\ status = "dry_run" => cycle[a].mode = "dry-run"
            /\ status = "skipped" => ~(NeedsTool(NextStep(a)) \subseteq tools)
      BY <2>1 DEF SkipStep
    <3>2. QED BY <1>0, <1>1, <1>2, <3>1, ResultAdded DEF CyclesInv, StepStatuses
  <2>2. CASE StepSucceeds(a)
    <3>1. AddResult(a, "ok")
          /\ (NextStep(a) = "switch" => cycle[a].target \in switchedFor')
      BY <2>2 DEF StepSucceeds
    <3>2. QED BY <1>0, <1>1, <1>2, <3>1, ResultAdded DEF CyclesInv, StepStatuses
  <2>3. CASE StepFails(a)
    <3>1. PICK status \in {"failed", "timeout"} : AddResult(a, status)
      BY <2>3 DEF StepFails
    <3>2. QED BY <1>0, <1>1, <1>2, <3>1, ResultAdded DEF CyclesInv, StepStatuses
  <2>4. QED BY <2>1, <2>2, <2>3
<1>4. StoreInv'
  <2>1. config[a].gated => Authorized(cycle[a].target) /\ CanVerify(a)
    BY <1>0, <1>2 DEF CyclesInv, CycleInv, StepsLeft
  <2>2. switchedFor' \in {switchedFor, switchedFor \union {cycle[a].target}}
    BY DEF SkipStep, StepSucceeds, StepFails
  <2>3. OnlyAttestedApplied'
    BY <1>0, <1>1, <2>1, <2>2
    DEF StoreInv, OnlyAttestedApplied, Growing, hostVars, Authorized
  <2>4. FailsClosed'
    BY <2>1 DEF FailsClosed, CanVerify, hostVars
  <2>5. QED
    BY <1>0, <1>1, <2>3, <2>4
    DEF StoreInv, RecordBackedByReceipt, AppliedReceipts, ProvedMeansAttested,
        RecordedWasSwitched, Growing, hostVars, Authorized
<1>5. QED BY <1>3, <1>4

\* A sync that execute() calls "applied" has switched to its version, on a
\* host that has nixos-rebuild.
LEMMA AppliedSwitched ==
  ASSUME TypeOK, NEW a \in Syncers, CycleInv(a), pc[a] = "run", ~StepsLeft(a),
         Outcome(a) = "applied"
  PROVE  /\ cycle[a].gate = "allowed"
         /\ "nixos-rebuild" \in tools => cycle[a].target \in switchedFor
<1> DEFINE results == cycle[a].results
           n == Len(PlanSteps(config[a]))
<1>1. /\ cycle[a].gate = "allowed" /\ cycle[a].mode # "dry-run"
      /\ StatusesOf(results) \subseteq {"ok", "dry_run", "skipped"}
  BY AppliedOutcome DEF Outcome
<1>2. results \in Seq(StepStatuses)
  BY DEF TypeOK, Cycle
<1>3. n \in {2, 5} /\ PlanSteps(config[a])[n] = "switch"
  <2>1. config[a] \in Settings
    BY DEF TypeOK
  <2>2. /\ n \in {2, 5}
        /\ \A i \in 1..n : PlanSteps(config[a])[i] = "switch" <=> i = n
    BY <2>1, PlanStepsShape
  <2> HIDE DEF n
  <2>3. n \in 1..n
    BY <2>2
  <2>4. QED BY <2>2, <2>3 DEF n
<1>4. Len(results) = n
  BY <1>1, <1>2, <1>3 DEF CycleInv, StepsLeft
<1>5. n \in DOMAIN results /\ results[n] \in {"ok", "dry_run", "skipped"}
  <2>1. DOMAIN results = 1..Len(results)
    BY <1>2
  <2> HIDE DEF n, results
  <2>2. n \in DOMAIN results
    BY <1>3, <1>4, <2>1
  <2>3. QED BY <1>1, <2>2 DEF StatusesOf
<1>6. ResultExplained(a, n)
  BY <1>5 DEF CycleInv
<1>7. NeedsTool("switch") = {"nixos-rebuild"}
  BY DEF NeedsTool
<1>8. QED
  BY <1>1, <1>3, <1>5, <1>6, <1>7 DEF ResultExplained

\* _build_receipt and write_receipt: a receipt is backed by the plan it
\* records, and an applied one lets its version be recorded.
LEMMA WriteReceiptInv ==
  ASSUME TypeOK, SyncInv, UNCHANGED hostVars, NEW a \in Syncers, WriteReceipt(a)
  PROVE  CyclesInv' /\ StoreInv'
<1> USE DEF upstreamVars, storeVars, systemVars, daemonVars
<1> DEFINE r == [to |-> cycle[a].target, outcome |-> Outcome(a), level |-> cycle[a].level]
<1>0. /\ CyclesInv /\ StoreInv /\ CycleInv(a)
      /\ Growing /\ receipts' = receipts \union {r}
      /\ UNCHANGED <<versionFile, overlapped, published, switchedFor, running>>
  BY SyncInvParts DEF CyclesInv, WriteReceipt, Growing
<1>1. r.to = cycle[a].target /\ r.outcome = Outcome(a) /\ r.level = cycle[a].level
  OBVIOUS
<1> HIDE DEF r
<1>2. StoreInv'
  <2>1. r.level = "Proved" => Authorized(r.to)
    BY <1>0, <1>1 DEF WriteReceipt, CycleInv
  <2>2. ProvedMeansAttested'
    BY <1>0, <2>1 DEF StoreInv, ProvedMeansAttested, Authorized
  <2>3. r.outcome = "applied" => (config[a].gated => CanVerify(a))
    <3>1. ASSUME r.outcome = "applied"  PROVE cycle[a].gate = "allowed"
      <4>1. SyncOutcome(cycle[a].gate, cycle[a].mode, cycle[a].results) = "applied"
        BY <1>1, <3>1 DEF Outcome
      <4> QED BY <4>1, AppliedOutcome
    <3>2. cycle[a].gate = "allowed" /\ config[a].gated => CanVerify(a)
      BY <1>0 DEF WriteReceipt, CycleInv
    <3> QED BY <3>1, <3>2
  <2>4. FailsClosed'
    BY <1>0, <2>3 DEF StoreInv, FailsClosed, CanVerify, AppliedReceipts, hostVars
  <2>5. RecordBackedByReceipt'
    <3>1. AppliedReceipts \subseteq AppliedReceipts'
      BY <1>0 DEF AppliedReceipts
    <3> QED BY <1>0, <3>1 DEF StoreInv, RecordBackedByReceipt
  <2>6. QED
    BY <1>0, <2>2, <2>4, <2>5
    DEF StoreInv, OnlyAttestedApplied, RecordedWasSwitched, hostVars, Authorized
<1>3. CyclesInv'
  <2>1. CASE Outcome(a) = "applied"
    <3>1. /\ pc' = [pc EXCEPT ![a] = "version"] /\ cycle' = [cycle EXCEPT ![a] = cycle[a]]
          /\ cycle' = cycle
      BY <2>1 DEF WriteReceipt, Goto, TypeOK
    <3>2. pc'[a] = "version" /\ config' = config /\ tools' = tools
      BY <3>1 DEF TypeOK, hostVars
    <3>3. r \in AppliedReceipts'
      BY <1>0, <1>1, <2>1 DEF AppliedReceipts
    <3>4. /\ cycle[a].gate = "allowed"
          /\ "nixos-rebuild" \in tools => cycle[a].target \in switchedFor
      BY <1>0, <2>1, AppliedSwitched DEF WriteReceipt
    <3>5. \A i : ResultExplained(a, i) => ResultExplained(a, i)'
      BY <1>0, <3>1, <3>2 DEF ResultExplained
    <3>6. CycleInv(a)'
      BY <1>0, <1>1, <3>1, <3>2, <3>3, <3>4, <3>5
      DEF CycleInv, Recording, Authorized, CanVerify, WriteReceipt
    <3>7. QED BY <1>0, <3>1, <3>6, OneCycleChanged DEF CyclesInv
  <2>2. CASE Outcome(a) # "applied"
    BY <1>0, <2>2, EndCycleInv DEF CyclesInv, WriteReceipt
  <2>3. QED BY <2>1, <2>2
<1>4. QED BY <1>2, <1>3

\* write_current_version: only a version whose receipt is on disk is written,
\* and over another one only by syncers that overlap.
LEMMA VersionInv ==
  ASSUME TypeOK, SyncInv, UNCHANGED hostVars, NEW a \in Syncers,
         TruncateVersion(a) \/ WriteVersion(a)
  PROVE  CyclesInv' /\ StoreInv'
<1> USE DEF upstreamVars, storeVars, systemVars, daemonVars
<1>0. /\ CyclesInv /\ OpenFileInv /\ StoreInv /\ CycleInv(a) /\ Recording(a)
      /\ Growing /\ UNCHANGED <<receipts, published, switchedFor, running>>
  <2>1. CyclesInv /\ OpenFileInv /\ StoreInv /\ CycleInv(a)
    BY SyncInvParts DEF CyclesInv
  <2>2. Recording(a) /\ UNCHANGED <<receipts, published, switchedFor, running>>
    BY DEF Recording, TruncateVersion, WriteVersion
  <2>3. overlapped => overlapped'
    BY DEF TruncateVersion, WriteVersion
  <2> QED BY <2>1, <2>2, <2>3 DEF Growing
<1>1. CASE TruncateVersion(a)
  <2>1. /\ pc' = [pc EXCEPT ![a] = "version-open"] /\ cycle' = cycle
        /\ cycle' = [cycle EXCEPT ![a] = cycle[a]]
    BY <1>1 DEF TruncateVersion, Goto, TypeOK
  <2>2. pc'[a] = "version-open" /\ config' = config /\ tools' = tools
    BY <2>1 DEF TypeOK, hostVars
  <2>3. \A i : ResultExplained(a, i) => ResultExplained(a, i)'
    BY <1>0, <2>1, <2>2 DEF ResultExplained
  <2>4. CycleInv(a)'
    BY <1>0, <2>1, <2>2, <2>3 DEF CycleInv, Recording, Authorized, CanVerify, AppliedReceipts
  <2>5. CyclesInv'
    BY <1>0, <2>1, <2>4, OneCycleChanged DEF CyclesInv
  <2>6. StoreInv'
    BY <1>0, <1>1, StoreKept DEF TruncateVersion, StoreInv
  <2>7. QED BY <2>5, <2>6
<1>2. CASE WriteVersion(a)
  <2>1. CyclesInv'
    BY <1>0, <1>2, EndCycleInv DEF WriteVersion, CyclesInv
  <2>2. /\ pc[a] = "version-open" /\ cycle[a].target \in Versions
        /\ versionFile' \in TextsAfterWrite(versionFile, cycle[a].target)
        /\ UNCHANGED overlapped /\ config' = config /\ tools' = tools
    BY <1>2 DEF WriteVersion, hostVars, TypeOK, HasTarget
  <2>3. /\ \E r \in AppliedReceipts : r.to = cycle[a].target
        /\ "nixos-rebuild" \in tools => cycle[a].target \in switchedFor
        /\ config[a].gated => Authorized(cycle[a].target) /\ CanVerify(a)
    BY <1>0 DEF CycleInv, Recording
  <2>4. AppliedReceipts' = AppliedReceipts /\ \A v : Authorized(v)' <=> Authorized(v)
    BY <1>0 DEF AppliedReceipts, Authorized
  <2>5. FailsClosed'
    BY <2>2, <2>3 DEF FailsClosed, CanVerify
  <2>6. CASE versionFile' = cycle[a].target
    <3>1. versionFile' # Mixed
      BY <2>2, <2>6 DEF MaybeVersion
    <3>2. RecordBackedByReceipt'
      BY <2>3, <2>4, <2>6, <3>1 DEF RecordBackedByReceipt
    <3>3. OnlyAttestedApplied'
      BY <1>0, <2>2, <2>3, <2>4, <2>6 DEF StoreInv, OnlyAttestedApplied
    <3> QED
      BY <1>0, <2>1, <2>2, <2>3, <2>4, <2>5, <2>6, <3>2, <3>3
      DEF StoreInv, ProvedMeansAttested, RecordedWasSwitched
  <2>7. CASE versionFile' # cycle[a].target
    <3>1. versionFile' = Mixed /\ versionFile' \notin Versions
      BY <2>2, <2>7 DEF TextsAfterWrite, MaybeVersion
    <3>2. CASE versionFile = Mixed
      BY <1>0, <2>1, <2>2, <2>4, <2>5, <3>1, <3>2
      DEF StoreInv, RecordBackedByReceipt, OnlyAttestedApplied, ProvedMeansAttested,
          RecordedWasSwitched
    <3>3. CASE versionFile # Mixed
      <4>1. versionFile \in Versions /\ versionFile # cycle[a].target
        BY <2>2, <2>7, <3>3 DEF TypeOK, VersionTexts, MaybeVersion, TextsAfterWrite
      <4>2. overlapped
        BY <1>0, <2>2, <4>1 DEF OpenFileInv
      <4>3. \E r, other \in AppliedReceipts : r.to # other.to
        BY <1>0, <2>3, <4>1 DEF StoreInv, RecordBackedByReceipt
      <4>4. RecordBackedByReceipt'
        BY <2>2, <2>4, <3>1, <4>2, <4>3 DEF RecordBackedByReceipt
      <4> QED
        BY <1>0, <2>1, <2>2, <2>4, <2>5, <3>1, <4>4
        DEF StoreInv, OnlyAttestedApplied, ProvedMeansAttested, RecordedWasSwitched
    <3> QED BY <3>2, <3>3
  <2>8. QED BY <2>6, <2>7
<1>3. QED BY <1>1, <1>2

\* write_current_version is where the version file is opened and where it is
\* closed: until two syncers have had it open at once, it is empty while open.
LEMMA NextOpenFile == TypeOK /\ OpenFileInv /\ [Next]_vars => OpenFileInv'
<1> SUFFICES ASSUME TypeOK, OpenFileInv, [Next]_vars  PROVE OpenFileInv'
  OBVIOUS
<1> USE DEF storeVars
<1>1. CASE UNCHANGED <<versionFile, overlapped, pc>>
  BY <1>1 DEF OpenFileInv, OpenElsewhere
<1>2. ASSUME UNCHANGED <<versionFile, overlapped>>, NEW a \in Syncers,
             NEW l, l # "version-open", pc' = [pc EXCEPT ![a] = l]
      PROVE  OpenFileInv'
  <2>1. \A b \in Syncers : pc'[b] = "version-open" => pc[b] = "version-open"
    BY <1>2 DEF TypeOK
  <2> QED BY <1>2, <2>1 DEF OpenFileInv, OpenElsewhere
<1>3. ASSUME NEW a \in Syncers, TruncateVersion(a)  PROVE OpenFileInv'
  <2> SUFFICES ASSUME ~overlapped', NEW b \in Syncers, pc'[b] = "version-open"
               PROVE  versionFile' = NoVersion /\ ~OpenElsewhere(b)'
    BY DEF OpenFileInv
  <2>1. ~OpenElsewhere(a) /\ versionFile' = NoVersion /\ pc' = [pc EXCEPT ![a] = "version-open"]
    BY <1>3 DEF TruncateVersion, Goto
  <2>2. \A e \in Syncers \ {a} : pc'[e] # "version-open"
    BY <2>1 DEF OpenElsewhere, TypeOK
  <2> QED BY <2>1, <2>2 DEF OpenElsewhere
<1>4. ASSUME NEW a \in Syncers, WriteVersion(a)  PROVE OpenFileInv'
  <2> SUFFICES ASSUME ~overlapped', NEW b \in Syncers, pc'[b] = "version-open"
               PROVE  FALSE
    BY DEF OpenFileInv
  <2>1. ~overlapped /\ pc[a] = "version-open"
    BY <1>4 DEF WriteVersion
  <2>2. pc'[a] # "version-open" /\ \A e \in Syncers \ {a} : pc'[e] = pc[e]
    BY <1>4 DEF WriteVersion, EndCycle, TypeOK
  <2> QED BY <2>1, <2>2 DEF OpenFileInv, OpenElsewhere
<1>5. ASSUME NEW a \in Syncers, NEW failed, EndCycle(a, failed),
             UNCHANGED <<versionFile, overlapped>>
      PROVE  OpenFileInv'
  <2>1. PICK l \in {"loop", "exit"} : pc' = [pc EXCEPT ![a] = l]
    BY <1>5 DEF EndCycle
  <2> QED BY <1>2, <1>5, <2>1
<1>6. ASSUME NEW a \in Syncers, Advance(a)  PROVE OpenFileInv'
  <2>1. CASE Fetch(a)
    BY <1>2, <2>1 DEF Fetch, Goto
  <2>2. CASE SkipStep(a) \/ StepSucceeds(a) \/ StepFails(a)
    BY <1>1, <2>2 DEF SkipStep, StepSucceeds, StepFails
  <2>3. CASE FetchFails(a) \/ WriteReceiptFails(a) \/ LeaveUnrecorded(a) \/ WriteVersionFails(a)
    BY <1>5, <2>3 DEF FetchFails, WriteReceiptFails, LeaveUnrecorded, WriteVersionFails
  <2>4. CASE Plan(a)
    <3>1. EndCycle(a, FALSE) \/ Goto(a, "run")
      BY <2>4 DEF Plan
    <3> QED BY <1>2, <1>5, <2>4, <3>1 DEF Plan, Goto
  <2>5. CASE WriteReceipt(a)
    BY <1>2, <1>5, <2>5 DEF WriteReceipt, Goto
  <2> QED BY <1>3, <1>4, <1>6, <2>1, <2>2, <2>3, <2>4, <2>5 DEF Advance
<1>7. ASSUME NEW d \in Daemons, DaemonPoll(d) \/ Wake(d) \/ Stop(d) \/ Signal(d) \/ Restart(d)
      PROVE  OpenFileInv'
  <2>1. d \in Syncers
    BY DEF Syncers
  <2> QED BY <1>1, <1>2, <1>7, <2>1 DEF DaemonPoll, Wake, Stop, Signal, Restart, Goto
<1>8. ASSUME NEW o \in Operators, OperatorStart(o)  PROVE OpenFileInv'
  BY <1>2, <1>8 DEF OperatorStart, Goto, Syncers
<1>9. ASSUME NEW a \in Syncers, Crash(a)  PROVE OpenFileInv'
  <2>1. PICK l \in {"down", "exit"} : pc' = [pc EXCEPT ![a] = l]
    BY <1>9 DEF Crash
  <2> QED BY <1>2, <1>9, <2>1 DEF Crash
<1>10. CASE Upstream \/ UNCHANGED vars
  BY <1>1, <1>10 DEF Upstream, vars
<1> QED
  BY <1>6, <1>7, <1>8, <1>9, <1>10 DEF Next, DaemonStep, Syncers

\* Every step of a syncer's cycle preserves the rest of the invariant.
LEMMA AdvanceInv ==
  ASSUME TypeOK, SyncInv, UNCHANGED hostVars, NEW a \in Syncers, Advance(a)
  PROVE  DirectoryInv' /\ CyclesInv' /\ StoreInv'
<1> USE DEF upstreamVars, storeVars, systemVars, daemonVars
<1>0. DirectoryInv /\ CyclesInv /\ StoreInv
  BY SyncInvParts
<1>1. DirectoryInv'
  <2>1. UNCHANGED <<directory, published>>
    BY DEF Advance, Fetch, FetchFails, Plan, SkipStep, StepSucceeds, StepFails,
           WriteReceipt, WriteReceiptFails, LeaveUnrecorded, TruncateVersion,
           WriteVersion, WriteVersionFails
  <2>2. QED BY <1>0, <2>1 DEF DirectoryInv
<1>s. SUFFICES CyclesInv' /\ StoreInv'
  BY <1>1
<1>2. ASSUME UNCHANGED <<upstreamVars, systemVars, storeVars>>  PROVE Growing /\ StoreInv'
  <2>1. Growing  BY <1>2 DEF Growing
  <2>2. QED BY <1>2, <2>1, StoreKept DEF StoreInv
<1>3. CASE Fetch(a)
  <2> DEFINE c == [cycle[a] EXCEPT !.target = promoted]
  <2>1. cycle[a] \in Cycle /\ cycle[a].results = << >>
    BY <1>0, <1>3 DEF Fetch, TypeOK, CyclesInv, CycleInv
  <2>2. /\ cycle' = [cycle EXCEPT ![a] = c] /\ c.results = << >>
        /\ pc' = [pc EXCEPT ![a] = "plan"]
    BY <1>3, <2>1 DEF Fetch, Goto, Cycle
  <2> HIDE DEF c
  <2>3. Growing /\ StoreInv'
    BY <1>2, <1>3 DEF Fetch
  <2>4. QED BY <1>0, <2>2, <2>3, IdleInv DEF CyclesInv
<1>4. CASE FetchFails(a) \/ WriteReceiptFails(a) \/ LeaveUnrecorded(a) \/ WriteVersionFails(a)
  <2>1. Growing /\ StoreInv'
    BY <1>2, <1>4 DEF FetchFails, WriteReceiptFails, LeaveUnrecorded, WriteVersionFails
  <2>2. PICK failed \in BOOLEAN : EndCycle(a, failed)
    BY <1>4 DEF FetchFails, WriteReceiptFails, LeaveUnrecorded, WriteVersionFails
  <2>3. QED BY <1>0, <2>1, <2>2, EndCycleInv DEF CyclesInv
<1>5. CASE Plan(a)
  <2>1. StoreInv'  BY <1>2, <1>5 DEF Plan
  <2>2. QED BY <1>5, <2>1, PlanInv
<1>6. CASE SkipStep(a) \/ StepSucceeds(a) \/ StepFails(a)
  BY <1>6, StepInv
<1>7. CASE WriteReceipt(a)
  BY <1>7, WriteReceiptInv
<1>8. CASE TruncateVersion(a) \/ WriteVersion(a)
  BY <1>8, VersionInv
<1>9. QED
  BY <1>3, <1>4, <1>5, <1>6, <1>7, <1>8 DEF Advance

\* The invariant holds initially.
LEMMA InitInv == Init => SyncInv
<1> SUFFICES ASSUME Init  PROVE SyncInv
  OBVIOUS
<1>1. CyclesInv
  <2>1. NoCycle.results = << >>  BY DEF NoCycle
  <2>2. \A a \in Syncers : pc[a] \in {"loop", "start"} /\ cycle[a].results = << >>
    BY <2>1 DEF Init
  <2>3. QED BY <2>2 DEF CyclesInv, CycleInv, Recording
<1>2. DirectoryInv
  BY DEF Init, DirectoryInv
<1>3. StoreInv
  BY DEF Init, StoreInv, RecordBackedByReceipt, ProvedMeansAttested,
         OnlyAttestedApplied, RecordedWasSwitched, FailsClosed, AppliedReceipts, MaybeVersion
<1>4. OpenFileInv
  BY DEF Init, OpenFileInv
<1>5. QED BY <1>1, <1>2, <1>3, <1>4, SyncInvParts

\* Every step of the system preserves the invariant.
LEMMA NextInv == TypeOK /\ SyncInv /\ [Next]_vars => SyncInv'
<1> SUFFICES ASSUME TypeOK, SyncInv, [Next]_vars  PROVE SyncInv'
  OBVIOUS
<1> USE DEF upstreamVars, storeVars, systemVars, daemonVars
<1>0. DirectoryInv /\ CyclesInv /\ StoreInv
  BY SyncInvParts
<1>s. SUFFICES DirectoryInv' /\ CyclesInv' /\ StoreInv'
  BY SyncInvParts, NextOpenFile DEF SyncInv, DirectoryInv, CyclesInv, StoreInv
<1>1. ASSUME UNCHANGED <<hostVars, upstreamVars, systemVars, storeVars>>
      PROVE  Growing /\ StoreInv' /\ DirectoryInv'
  <2>1. Growing  BY <1>1 DEF Growing
  <2>2. StoreInv'
    BY <1>1, <2>1, StoreKept DEF StoreInv
  <2>3. QED BY <1>0, <1>1, <2>1, <2>2 DEF DirectoryInv
<1>2. ASSUME UNCHANGED hostVars, NEW a \in Syncers, Advance(a)
      PROVE  DirectoryInv' /\ CyclesInv' /\ StoreInv'
  BY <1>2, AdvanceInv
<1>3. ASSUME UNCHANGED hostVars, NEW d \in Daemons, DaemonPoll(d)
      PROVE  DirectoryInv' /\ CyclesInv' /\ StoreInv'
  <2> DEFINE c == [cycle[d] EXCEPT !.current = versionFile]
  <2>1. d \in Syncers /\ cycle[d] \in Cycle /\ cycle[d].results = << >>
    BY <1>0, <1>3 DEF DaemonPoll, TypeOK, CyclesInv, CycleInv, Syncers
  <2>2. /\ cycle' = [cycle EXCEPT ![d] = c] /\ c.results = << >>
        /\ pc' = [pc EXCEPT ![d] = "fetch"]
    BY <1>3, <2>1 DEF DaemonPoll, Goto, Cycle
  <2> HIDE DEF c
  <2>3. Growing /\ StoreInv' /\ DirectoryInv'
    BY <1>1, <1>3 DEF DaemonPoll
  <2>4. QED BY <1>0, <2>1, <2>2, <2>3, IdleInv DEF CyclesInv
<1>4. ASSUME UNCHANGED hostVars, NEW o \in Operators, OperatorStart(o)
      PROVE  DirectoryInv' /\ CyclesInv' /\ StoreInv'
  <2>1. PICK current \in MaybeVersion, mode \in Modes :
          cycle' = [cycle EXCEPT ![o] = [@ EXCEPT !.current = current, !.mode = mode]]
    BY <1>4 DEF OperatorStart
  <2> DEFINE c == [[cycle[o] EXCEPT !.current = current] EXCEPT !.mode = mode]
  <2>2. o \in Syncers /\ cycle[o] \in Cycle /\ cycle[o].results = << >>
    BY <1>0, <1>4 DEF OperatorStart, TypeOK, CyclesInv, CycleInv, Syncers
  <2>3. cycle' = [cycle EXCEPT ![o] = c] /\ c.results = << >>
    BY <2>1, <2>2 DEF Cycle
  <2>4. pc' = [pc EXCEPT ![o] = "fetch"]
    BY <1>4 DEF OperatorStart, Goto
  <2> HIDE DEF c
  <2>5. Growing /\ StoreInv' /\ DirectoryInv'
    BY <1>1, <1>4 DEF OperatorStart
  <2>6. QED BY <1>0, <2>2, <2>3, <2>4, <2>5, IdleInv DEF CyclesInv
<1>5. ASSUME UNCHANGED hostVars, NEW d \in Daemons,
             Wake(d) \/ Stop(d) \/ Signal(d) \/ Restart(d)
      PROVE  DirectoryInv' /\ CyclesInv' /\ StoreInv'
  <2>1. Growing /\ StoreInv' /\ DirectoryInv'
    BY <1>1, <1>5 DEF Wake, Stop, Signal, Restart
  <2>2. d \in Syncers  BY DEF Syncers
  <2>3. cycle' = cycle
    BY <1>5 DEF Wake, Stop, Signal, Restart
  <2>4. CASE Signal(d)
    <3>1. pc' = pc  BY <2>4 DEF Signal
    <3>2. QED BY <1>0, <2>1, <2>3, <3>1, CycleKept DEF CyclesInv
  <2>5. CASE Wake(d) \/ Stop(d) \/ Restart(d)
    <3>1. PICK l \in {"poll", "stopped", "loop"} : pc' = [pc EXCEPT ![d] = l]
      BY <2>5 DEF Wake, Stop, Restart, Goto
    <3>2. cycle' = [cycle EXCEPT ![d] = cycle[d]] /\ cycle[d].results = << >>
      BY <1>0, <2>2, <2>3, <2>5 DEF Wake, Stop, Restart, TypeOK, CyclesInv, CycleInv
    <3>3. QED BY <1>0, <2>1, <2>2, <3>1, <3>2, IdleInv DEF CyclesInv
  <2>6. QED BY <1>5, <2>1, <2>4, <2>5
<1>6. ASSUME UNCHANGED hostVars, NEW a \in Syncers, Crash(a)
      PROVE  DirectoryInv' /\ CyclesInv' /\ StoreInv'
  <2>1. Growing /\ StoreInv' /\ DirectoryInv'
    BY <1>1, <1>6 DEF Crash
  <2>2. PICK l \in {"down", "exit"} : pc' = [pc EXCEPT ![a] = l]
    BY <1>6 DEF Crash
  <2>3. cycle' = [cycle EXCEPT ![a] = NoCycle] /\ NoCycle.results = << >>
    BY <1>6 DEF Crash, NoCycle
  <2>4. QED BY <1>0, <2>1, <2>2, <2>3, IdleInv DEF CyclesInv
<1>7. ASSUME UNCHANGED hostVars, Upstream
      PROVE  DirectoryInv' /\ CyclesInv' /\ StoreInv'
  <2>1. Growing /\ UNCHANGED <<receipts, switchedFor, running, versionFile, pc, cycle>>
    BY <1>7 DEF Growing, Upstream, Release, Promote, Publish
  <2>2. DirectoryInv'
    BY <1>0, <1>7 DEF Upstream, Release, Promote, Publish, DirectoryInv, TypeOK
  <2>3. CyclesInv'
    BY <1>0, <2>1, CycleKept DEF CyclesInv
  <2>4. QED BY <1>0, <2>1, <2>2, <2>3, StoreKept DEF StoreInv
<1>8. CASE UNCHANGED vars
  <2>1. Growing /\ StoreInv' /\ DirectoryInv'
    BY <1>1, <1>8 DEF vars
  <2>2. QED BY <1>0, <1>8, <2>1, CycleKept DEF vars, CyclesInv
<1>9. QED
  BY <1>2, <1>3, <1>4, <1>5, <1>6, <1>7, <1>8 DEF Next, DaemonStep, Syncers

\* The invariant holds in every reachable state.
THEOREM InvariantHolds == Spec => []SyncInv
<1>1. Init => TypeOK /\ SyncInv
  BY InitType, InitInv
<1>2. TypeOK /\ SyncInv /\ [Next]_vars => (TypeOK /\ SyncInv)'
  BY NextType, NextInv
<1>3. QED BY <1>1, <1>2, PTL DEF Spec

-----------------------------------------------------------------------------
(* What the invariant gives a reader of the receipt store. *)

\* A version is reported only with an applied receipt for it on disk, and a
\* mixture only of two that have theirs: write_receipt comes before
\* write_current_version.
THEOREM RecordHasReceipt == Spec => []RecordBackedByReceipt
<1>1. SyncInv => RecordBackedByReceipt  BY DEF SyncInv
<1>2. QED BY <1>1, InvariantHolds, PTL

\* A "Proved" receipt is for a version with a published verifying
\* attestation: plan() and _build_receipt launder nothing.
THEOREM ProvedIsAttested == Spec => []ProvedMeansAttested
<1>1. SyncInv => ProvedMeansAttested  BY DEF SyncInv
<1>2. QED BY <1>1, InvariantHolds, PTL

\* With require_attestation everywhere, only attested versions are applied.
THEOREM AppliedIsAttested == Spec => []OnlyAttestedApplied
<1>1. SyncInv => OnlyAttestedApplied  BY DEF SyncInv
<1>2. QED BY <1>1, InvariantHolds, PTL

\* With require_attestation everywhere, syncers without the producer's key, or
\* daemons without an attestation directory, never switch or record anything:
\* what daemon_from_env and `sync daemon` construct does nothing at all.
THEOREM UnverifiableFailsClosed == Spec => []FailsClosed
<1>1. SyncInv => FailsClosed  BY DEF SyncInv
<1>2. QED BY <1>1, InvariantHolds, PTL

\* On a host with nixos-rebuild, a reported version was switched for.
THEOREM RecordedIsSwitched == Spec => []RecordedWasSwitched
<1>1. SyncInv => RecordedWasSwitched  BY DEF SyncInv
<1>2. QED BY <1>1, InvariantHolds, PTL

\* execute(): nothing but the switch step of a cycle without a failed,
\* timed-out or skipped-over step changes the running system.
THEOREM SwitchNeedsCleanRun == Spec => NoSwitchAfterFailure
<1> USE DEF upstreamVars, storeVars, systemVars, daemonVars
<1> DEFINE A == running' # running =>
                  \E a \in Syncers :
                    /\ cycle'[a].results # cycle[a].results
                    /\ NextStep(a) = "switch"
                    /\ StatusesOf(cycle[a].results) \subseteq {"ok", "skipped"}
<1>1. TypeOK /\ SyncInv /\ [Next]_vars => [A]_vars
  <2> SUFFICES ASSUME TypeOK, SyncInv, [Next]_vars, running' # running
               PROVE  \E a \in Syncers :
                        /\ cycle'[a].results # cycle[a].results
                        /\ NextStep(a) = "switch"
                        /\ StatusesOf(cycle[a].results) \subseteq {"ok", "skipped"}
    OBVIOUS
  <2>1. PICK a \in Syncers : StepSucceeds(a) \/ StepFails(a)
    <3>1. ~Upstream /\ ~UNCHANGED vars
      BY DEF Upstream, vars
    <3>2. \A a \in Syncers : ~Crash(a)
      BY DEF Crash
    <3>3. \A d \in Daemons : ~(DaemonPoll(d) \/ Wake(d) \/ Stop(d) \/ Restart(d) \/ Signal(d))
      BY DEF DaemonPoll, Wake, Stop, Restart, Signal
    <3>4. \A o \in Operators : ~OperatorStart(o)
      BY DEF OperatorStart
    <3>5. \A a \in Syncers : Advance(a) => StepSucceeds(a) \/ StepFails(a)
      BY DEF Advance, Fetch, FetchFails, Plan, SkipStep, WriteReceipt, WriteReceiptFails,
             LeaveUnrecorded, TruncateVersion, WriteVersion, WriteVersionFails
    <3>6. QED BY <3>1, <3>2, <3>3, <3>4, <3>5 DEF Next, DaemonStep, Syncers
  <2> DEFINE old == cycle[a].results
  <2>2. Launches(a) /\ NextStep(a) = "switch"
    BY <2>1 DEF StepSucceeds, StepFails
  <2>3. cycle[a] \in Cycle /\ old \in Seq(StepStatuses)
    BY DEF TypeOK, Cycle
  <2>4. cycle'[a].results # old
    <3>1. PICK status \in StepStatuses : AddResult(a, status)
      BY <2>1 DEF StepSucceeds, StepFails, StepStatuses
    <3>2. Append(old, status) # old
      <4>1. Len(Append(old, status)) = Len(old) + 1 /\ Len(old) \in Nat
        BY <2>3
      <4>2. QED BY <4>1
    <3>3. cycle'[a].results = Append(old, status)
      BY <2>3, <3>1 DEF AddResult, TypeOK, Cycle
    <3>4. QED BY <3>2, <3>3
  <2>5. StatusesOf(old) \subseteq {"ok", "skipped"}
    <3>1. ~Aborted(old) /\ cycle[a].mode = "execute" /\ pc[a] = "run"
      BY <2>2 DEF Launches
    <3>2. SUFFICES ASSUME NEW i \in DOMAIN old  PROVE old[i] \in {"ok", "skipped"}
      BY DEF StatusesOf
    <3>3. old[i] \in StepStatuses /\ old[i] \notin {"failed", "timeout"}
      <4>1. old[i] \in StepStatuses
        BY <2>3
      <4>2. old[i] \in StatusesOf(old)
        BY DEF StatusesOf
      <4>3. QED BY <3>1, <4>1, <4>2 DEF Aborted
    <3>4. ResultExplained(a, i)
      BY <3>1, SyncInvParts DEF CyclesInv, CycleInv
    <3>5. old[i] \notin {"dry_run", "not-run"}
      BY <3>1, <3>4 DEF ResultExplained
    <3>6. QED BY <3>3, <3>5 DEF StepStatuses
  <2>6. QED BY <2>2, <2>4, <2>5
<1>2. QED
  BY <1>1, TypeCorrect, InvariantHolds, PTL DEF Spec, NoSwitchAfterFailure

-----------------------------------------------------------------------------
(* A daemon that is alone on its host. *)

LoneCycle(d) ==
  /\ pc[d] \in {"fetch", "plan", "run"} => cycle[d].current = versionFile
  /\ pc[d] = "run" /\ cycle[d].gate = "allowed" => cycle[d].target # versionFile

\* No step of a lone daemon leaves its cycle with another version than the one
\* on record: it writes the version file at the end of a cycle only.
LEMMA LoneAdvance ==
  ASSUME TypeOK, NEW d \in Daemons, LoneCycle(d), Advance(d)
  PROVE  LoneCycle(d)'
<1> USE DEF storeVars
<1>0. /\ d \in Syncers /\ pc \in [Syncers -> DaemonPcs \union OperatorPcs \union CyclePcs]
      /\ cycle \in [Syncers -> Cycle] /\ cycle[d] \in Cycle
  BY DEF TypeOK, Syncers
<1>1. ASSUME NEW failed, EndCycle(d, failed)  PROVE LoneCycle(d)'
  BY <1>0, <1>1 DEF EndCycle, LoneCycle
<1>2. CASE Fetch(d)
  <2>1. /\ pc'[d] = "plan" /\ versionFile' = versionFile
        /\ cycle'[d].current = cycle[d].current /\ pc[d] = "fetch"
    BY <1>0, <1>2 DEF Fetch, Goto, Cycle
  <2>2. QED BY <2>1 DEF LoneCycle
<1>3. CASE Plan(d)
  <2>1. PICK attestation \in AttestationsAtHand(d) :
          LET gate == PolicyGate(config[d], cycle[d].current, cycle[d].target, attestation)
          IN  IF gate = "no-op" /\ d \in Daemons
              THEN EndCycle(d, FALSE)
              ELSE /\ cycle' = [cycle EXCEPT ![d] =
                        [@ EXCEPT !.gate = gate,
                                  !.level = EpistemicLevel(config[d], gate)]]
                   /\ Goto(d, "run")
    BY <1>3 DEF Plan
  <2> DEFINE gate == PolicyGate(config[d], cycle[d].current, cycle[d].target, attestation)
  <2>2. gate = "allowed" => cycle[d].current # cycle[d].target
    BY DEF PolicyGate
  <2>3. versionFile' = versionFile /\ pc[d] = "plan"
    BY <1>3 DEF Plan
  <2> HIDE DEF gate
  <2>4. CASE gate = "no-op"
    BY <1>1, <2>1, <2>4 DEF gate
  <2>5. CASE gate # "no-op"
    <3> DEFINE level == EpistemicLevel(config[d], gate)
    <3>1. /\ cycle' = [cycle EXCEPT ![d] = [@ EXCEPT !.gate = gate, !.level = level]]
          /\ Goto(d, "run")
      BY <2>1, <2>5 DEF gate
    <3> HIDE DEF level
    <3>2. /\ cycle'[d].gate = gate /\ pc'[d] = "run"
          /\ cycle'[d].current = cycle[d].current /\ cycle'[d].target = cycle[d].target
      BY <1>0, <3>1 DEF Goto, Cycle
    <3>3. QED BY <2>2, <2>3, <3>2 DEF LoneCycle
  <2>6. QED BY <2>4, <2>5
<1>4. CASE SkipStep(d) \/ StepSucceeds(d) \/ StepFails(d)
  <2>1. PICK status \in StepStatuses : AddResult(d, status)
    BY <1>4 DEF SkipStep, StepSucceeds, StepFails, StepStatuses
  <2>2. versionFile' = versionFile /\ pc' = pc
    BY <1>4 DEF SkipStep, StepSucceeds, StepFails
  <2>3. /\ cycle'[d].current = cycle[d].current /\ cycle'[d].gate = cycle[d].gate
        /\ cycle'[d].target = cycle[d].target
    BY <1>0, <2>1 DEF AddResult, Cycle
  <2>4. QED BY <2>2, <2>3 DEF LoneCycle
<1>5. CASE WriteReceipt(d)
  BY <1>0, <1>1, <1>5 DEF WriteReceipt, Goto, LoneCycle
<1>6. CASE TruncateVersion(d)
  BY <1>0, <1>6 DEF TruncateVersion, Goto, LoneCycle
<1>7. CASE FetchFails(d) \/ WriteReceiptFails(d) \/ LeaveUnrecorded(d) \/ WriteVersion(d)
           \/ WriteVersionFails(d)
  BY <1>1, <1>7 DEF FetchFails, WriteReceiptFails, LeaveUnrecorded, WriteVersion,
                    WriteVersionFails
<1>8. QED BY <1>2, <1>3, <1>4, <1>5, <1>6, <1>7 DEF Advance

LEMMA NextLone == TypeOK /\ LoneInv /\ [Next]_vars => LoneInv'
<1> SUFFICES ASSUME TypeOK, LoneInv, [Next]_vars, NEW d \in Daemons, Syncers = {d}
             PROVE  LoneCycle(d)'
  BY DEF LoneInv, LoneCycle
<1> USE DEF storeVars
<1>0. /\ d \in Syncers /\ LoneCycle(d)
      /\ pc \in [Syncers -> DaemonPcs \union OperatorPcs \union CyclePcs]
      /\ cycle \in [Syncers -> Cycle] /\ cycle[d] \in Cycle
  BY DEF TypeOK, Syncers, LoneInv, LoneCycle
<1>1. Operators = {} /\ Daemons = {d}
  BY SyncersAssumption DEF Syncers
<1>2. CASE Advance(d)
  BY <1>0, <1>2, LoneAdvance
<1>3. CASE DaemonPoll(d)
  <2>1. pc'[d] = "fetch" /\ cycle'[d].current = versionFile /\ versionFile' = versionFile
    BY <1>0, <1>3 DEF DaemonPoll, Goto, Cycle
  <2>2. QED BY <2>1 DEF LoneCycle
<1>4. CASE Wake(d) \/ Stop(d) \/ Restart(d) \/ Crash(d)
  BY <1>0, <1>4 DEF Wake, Stop, Restart, Crash, Goto, LoneCycle
<1>5. CASE Signal(d) \/ Upstream \/ UNCHANGED vars
  BY <1>0, <1>5 DEF Signal, Upstream, vars, LoneCycle
<1>6. QED BY <1>1, <1>2, <1>3, <1>4, <1>5 DEF Next, DaemonStep

\* A daemon that is alone on its host never runs a step of a sync to the
\* version that the store reports: plan() compares it with the promoted one,
\* and nothing changes the version file between that and the last step.
THEOREM RecordedStaysDone == Spec => RecordedIsNotRedone
<1> DEFINE A == \A d \in Daemons :
                  /\ Syncers = {d}
                  /\ cycle'[d].results \notin {cycle[d].results, << >>}
                  => cycle[d].target # versionFile
<1>1. Init => LoneInv
  BY DEF Init, LoneInv, Syncers
<1>2. TypeOK /\ LoneInv /\ [Next]_vars => LoneInv'
  BY NextLone
<1>3. TypeOK /\ LoneInv /\ [Next]_vars => [A]_vars
  <2> SUFFICES ASSUME TypeOK, LoneInv, [Next]_vars, NEW d \in Daemons, Syncers = {d},
                      cycle'[d].results \notin {cycle[d].results, << >>}
               PROVE  cycle[d].target # versionFile
    OBVIOUS
  <2>0. d \in Syncers /\ cycle \in [Syncers -> Cycle] /\ cycle[d] \in Cycle
    BY DEF TypeOK, Syncers
  <2>1. Operators = {} /\ Daemons = {d}
    BY SyncersAssumption DEF Syncers
  <2>2. cycle' # cycle /\ \A failed : ~EndCycle(d, failed)
    BY <2>0 DEF EndCycle, NoCycle
  <2>3. \A c \in Cycle : c.results = cycle[d].results => cycle' # [cycle EXCEPT ![d] = c]
    BY <2>0
  <2>4. pc[d] = "run" /\ StepsLeft(d)
    <3>1. ~(DaemonPoll(d) \/ Fetch(d))
      BY <2>0 DEF DaemonPoll, Fetch, Cycle
    <3>2. ~Plan(d)
      <4>1. ASSUME NEW gate, NEW level,
                   cycle' = [cycle EXCEPT ![d] = [@ EXCEPT !.gate = gate, !.level = level]]
            PROVE  FALSE
        BY <2>0, <4>1 DEF Cycle
      <4>2. ASSUME NEW attestation,
                   LET gate == PolicyGate(config[d], cycle[d].current, cycle[d].target, attestation)
                   IN  IF gate = "no-op" /\ d \in Daemons
                       THEN EndCycle(d, FALSE)
                       ELSE /\ cycle' = [cycle EXCEPT ![d] =
                                 [@ EXCEPT !.gate = gate,
                                           !.level = EpistemicLevel(config[d], gate)]]
                            /\ Goto(d, "run")
            PROVE  FALSE
        BY <2>2, <4>1, <4>2
      <4>3. QED BY <4>2 DEF Plan
    <3>3. ~(Wake(d) \/ Stop(d) \/ Restart(d) \/ Crash(d) \/ Signal(d) \/ Upstream)
      BY <2>0, <2>2 DEF Wake, Stop, Restart, Crash, Signal, Upstream, NoCycle
    <3>4. ~(FetchFails(d) \/ WriteReceiptFails(d) \/ LeaveUnrecorded(d) \/ TruncateVersion(d)
            \/ WriteVersion(d) \/ WriteVersionFails(d) \/ WriteReceipt(d))
      BY <2>2 DEF FetchFails, WriteReceiptFails, LeaveUnrecorded, TruncateVersion,
                  WriteVersion, WriteVersionFails, WriteReceipt
    <3>5. SkipStep(d) \/ StepSucceeds(d) \/ StepFails(d)
      BY <2>1, <2>2, <3>1, <3>2, <3>3, <3>4 DEF Next, DaemonStep, Advance, vars
    <3>6. QED BY <3>5 DEF SkipStep, StepSucceeds, StepFails, Launches
  <2>5. QED BY <2>4 DEF LoneInv, StepsLeft
<1>4. QED
  BY <1>1, <1>2, <1>3, TypeCorrect, PTL DEF Spec, RecordedIsNotRedone

-----------------------------------------------------------------------------
(* While nothing fails, what was switched is on record. *)

CleanInv ==
  \A a \in Syncers : StatusesOf(cycle[a].results) \subseteq {"ok", "skipped", "dry_run"}

BackedInv ==
  \A v \in switchedFor :
    \/ \E r \in AppliedReceipts : r.to = v
    \/ \E a \in Syncers : AboutToRecord(a) /\ cycle[a].target = v

\* The statuses after one more step are those before it and the new one.
LEMMA StatusesAppend ==
  ASSUME NEW results \in Seq(StepStatuses), NEW status \in StepStatuses
  PROVE  StatusesOf(Append(results, status)) = StatusesOf(results) \union {status}
<1> DEFINE longer == Append(results, status)
<1>1. /\ DOMAIN results = 1..Len(results) /\ Len(results) \in Nat
      /\ DOMAIN longer = 1..Len(results) + 1
      /\ \A i \in 1..Len(results) : longer[i] = results[i]
      /\ longer[Len(results) + 1] = status
  OBVIOUS
<1> HIDE DEF longer
<1>2. 1..Len(results) + 1 = (1..Len(results)) \union {Len(results) + 1}
  BY <1>1
<1>3. StatusesOf(longer) = StatusesOf(results) \union {status}
  BY <1>1, <1>2 DEF StatusesOf
<1> QED BY <1>3 DEF longer

\* A step that ends no cycle that is about to record, and switches nothing,
\* leaves every switch backed.
LEMMA QuietStep ==
  ASSUME TypeOK, CleanInv, BackedInv, Growing, switchedFor' = switchedFor,
         NEW a \in Syncers, ~AboutToRecord(a), NEW l, NEW c,
         pc' = [pc EXCEPT ![a] = l], cycle' = [cycle EXCEPT ![a] = c],
         c.results = cycle[a].results \/ c.results = << >>
  PROVE  CleanInv' /\ BackedInv'
<1>1. /\ cycle'[a] = c
      /\ \A b \in Syncers \ {a} : cycle'[b] = cycle[b] /\ pc'[b] = pc[b]
      /\ config' = config /\ AppliedReceipts \subseteq AppliedReceipts'
  BY DEF TypeOK, Growing, hostVars, AppliedReceipts
<1>2. StatusesOf(<< >>) = {}
  BY DEF StatusesOf
<1>3. CleanInv'
  <2> SUFFICES ASSUME NEW b \in Syncers
               PROVE  StatusesOf(cycle'[b].results) \subseteq {"ok", "skipped", "dry_run"}
    BY DEF CleanInv
  <2>1. CASE b # a
    BY <1>1, <2>1 DEF CleanInv
  <2>2. CASE b = a
    BY <1>1, <1>2, <2>2 DEF CleanInv
  <2> QED BY <2>1, <2>2
<1>4. ASSUME NEW b \in Syncers, AboutToRecord(b)
      PROVE  AboutToRecord(b)' /\ cycle'[b].target = cycle[b].target
  <2>1. cycle'[b] = cycle[b] /\ pc'[b] = pc[b]
    BY <1>1, <1>4
  <2> QED BY <1>1, <1>4, <2>1 DEF AboutToRecord, StepsLeft
<1>5. BackedInv'
  BY <1>1, <1>4 DEF BackedInv
<1> QED BY <1>3, <1>5

\* So does one that changes no process, switch or receipt.
LEMMA StillStep ==
  ASSUME CleanInv, BackedInv,
         UNCHANGED <<hostVars, pc, cycle, receipts, switchedFor>>
  PROVE  CleanInv' /\ BackedInv'
BY DEF CleanInv, BackedInv, AboutToRecord, StepsLeft, AppliedReceipts, hostVars

\* So does the end of a cycle that is not about to record.
LEMMA QuietEnd ==
  ASSUME TypeOK, CleanInv, BackedInv, Growing, switchedFor' = switchedFor,
         NEW a \in Syncers, ~AboutToRecord(a), NEW failed, EndCycle(a, failed)
  PROVE  CleanInv' /\ BackedInv'
<1> DEFINE l == IF a \in Daemons THEN "loop" ELSE "exit"
<1>1. pc' = [pc EXCEPT ![a] = l] /\ cycle' = [cycle EXCEPT ![a] = NoCycle]
  BY DEF EndCycle
<1>2. NoCycle.results = << >>
  BY DEF NoCycle
<1> HIDE DEF l
<1> QED BY <1>1, <1>2, QuietStep

\* A step of the plan that is skipped, or succeeds: while nothing failed no
\* plan is aborted, and a switch that succeeds was the last step.
LEMMA StepBacked ==
  ASSUME TypeOK, CleanInv, BackedInv, UNCHANGED hostVars,
         NEW a \in Syncers, SkipStep(a) \/ StepSucceeds(a)
  PROVE  CleanInv' /\ BackedInv'
<1> USE DEF upstreamVars, storeVars, systemVars, daemonVars
<1> DEFINE old == cycle[a].results
<1>0. /\ pc[a] = "run" /\ StepsLeft(a) /\ ~AboutToRecord(a)
      /\ UNCHANGED <<pc, receipts>> /\ pc' = [pc EXCEPT ![a] = pc[a]]
      /\ config' = config
  BY DEF SkipStep, StepSucceeds, Launches, AboutToRecord, TypeOK, hostVars
<1>1. cycle[a] \in Cycle /\ old \in Seq(StepStatuses) /\ config[a] \in Settings
  BY DEF TypeOK, Cycle
<1>2. ~Aborted(old)
  BY DEF CleanInv, Aborted
<1>3. PICK status \in {"ok", "skipped", "dry_run"} :
         /\ AddResult(a, status)
         /\ StepSucceeds(a) => status = "ok"
         /\ SkipStep(a) => switchedFor' = switchedFor
  BY <1>2 DEF SkipStep, StepSucceeds, StepStatuses
<1> DEFINE c == [cycle[a] EXCEPT !.results = Append(@, status)]
<1>4. /\ cycle' = [cycle EXCEPT ![a] = c]
      /\ c.results = Append(old, status) /\ c.target = cycle[a].target
      /\ c.gate = cycle[a].gate /\ c.mode = cycle[a].mode
  BY <1>1, <1>3 DEF AddResult, Cycle
<1> HIDE DEF c
<1>5. /\ cycle'[a] = c
      /\ \A b \in Syncers \ {a} : cycle'[b] = cycle[b]
  BY <1>4 DEF TypeOK
<1>6. CleanInv'
  <2>1. StatusesOf(Append(old, status)) \subseteq {"ok", "skipped", "dry_run"}
    <3>1. status \in StepStatuses
      BY DEF StepStatuses
    <3>2. StatusesOf(old) \subseteq {"ok", "skipped", "dry_run"}
      BY DEF CleanInv
    <3> HIDE DEF old
    <3> QED BY <1>1, <3>1, <3>2, StatusesAppend
  <2> SUFFICES ASSUME NEW b \in Syncers
               PROVE  StatusesOf(cycle'[b].results) \subseteq {"ok", "skipped", "dry_run"}
    BY DEF CleanInv
  <2>2. CASE b = a
    BY <1>4, <1>5, <2>1, <2>2
  <2>3. CASE b # a
    BY <1>5, <2>3 DEF CleanInv
  <2> QED BY <2>2, <2>3
<1>7. ASSUME NEW b \in Syncers, AboutToRecord(b)
      PROVE  AboutToRecord(b)' /\ cycle'[b].target = cycle[b].target
  <2>1. cycle'[b] = cycle[b] /\ pc'[b] = pc[b]
    BY <1>0, <1>5, <1>7
  <2> QED BY <1>0, <1>7, <2>1 DEF AboutToRecord, StepsLeft
<1>8. AppliedReceipts' = AppliedReceipts
  BY <1>0 DEF AppliedReceipts
<1>9. CASE switchedFor' = switchedFor
  BY <1>6, <1>7, <1>8, <1>9 DEF BackedInv
<1>10. CASE StepSucceeds(a) /\ NextStep(a) = "switch"
  <2>1. switchedFor' = switchedFor \union {cycle[a].target} /\ cycle[a].mode = "execute"
        /\ cycle[a].gate = "allowed"
    BY <1>0, <1>10 DEF StepSucceeds, Launches, StepsLeft
  <2> DEFINE n == Len(PlanSteps(config[a]))
  <2>2. n \in Nat /\ Len(old) < n /\ Len(old) \in Nat
    BY <1>0, <1>1, PlanStepsShape DEF StepsLeft
  <2>3. \A i \in 1..n : PlanSteps(config[a])[i] = "switch" <=> i = n
    BY <1>1, PlanStepsShape
  <2>4. PlanSteps(config[a])[Len(old) + 1] = "switch"
    BY <1>10 DEF NextStep
  <2>5. Len(old) + 1 = n
    <3> HIDE DEF n, old
    <3>1. Len(old) + 1 \in 1..n
      BY <2>2
    <3> QED BY <2>3, <2>4, <3>1
  <2>6. Len(c.results) = Len(old) + 1
    BY <1>1, <1>3, <1>4 DEF StepStatuses
  <2>7. ~(Len(cycle'[a].results) < Len(PlanSteps(config'[a])))
    BY <1>0, <1>5, <2>2, <2>5, <2>6
  <2>8. AboutToRecord(a)' /\ cycle'[a].target = cycle[a].target
    BY <1>0, <1>4, <1>5, <2>1, <2>7 DEF AboutToRecord, StepsLeft
  <2>9. BackedInv'
    BY <1>7, <1>8, <2>1, <2>8 DEF BackedInv
  <2> QED BY <1>6, <2>9
<1> QED BY <1>3, <1>9, <1>10 DEF StepSucceeds

\* A cycle that is about to record does so: execute() calls it "applied".
LEMMA ReceiptBacks ==
  ASSUME TypeOK, CleanInv, BackedInv, UNCHANGED hostVars,
         NEW a \in Syncers, WriteReceipt(a)
  PROVE  CleanInv' /\ BackedInv'
<1> USE DEF upstreamVars, storeVars, systemVars, daemonVars
<1> DEFINE r == [to |-> cycle[a].target, outcome |-> Outcome(a), level |-> cycle[a].level]
<1>0. /\ Growing /\ receipts' = receipts \union {r} /\ switchedFor' = switchedFor
      /\ config' = config
  BY DEF WriteReceipt, Growing, hostVars
<1>1. r.to = cycle[a].target /\ r.outcome = Outcome(a)
  OBVIOUS
<1> HIDE DEF r
<1>2. CASE ~AboutToRecord(a) /\ Outcome(a) # "applied"
  BY <1>0, <1>2, QuietEnd DEF WriteReceipt
<1>3. AboutToRecord(a) => Outcome(a) = "applied"
  <2> SUFFICES ASSUME AboutToRecord(a)  PROVE Outcome(a) = "applied"
    OBVIOUS
  <2> DEFINE results == cycle[a].results
  <2>1. StatusesOf(results) \subseteq {"ok", "dry_run", "skipped"} /\ ~Aborted(results)
    BY DEF CleanInv, Aborted
  <2>2. cycle[a].gate = "allowed" /\ cycle[a].mode # "dry-run"
    BY DEF AboutToRecord
  <2> HIDE DEF results
  <2> QED BY <2>1, <2>2 DEF Outcome, SyncOutcome, StepsOutcome, results
<1>4. CASE Outcome(a) = "applied"
  <2>1. pc' = [pc EXCEPT ![a] = "version"] /\ cycle' = cycle
    BY <1>4 DEF WriteReceipt, Goto
  <2>2. CleanInv'
    BY <2>1 DEF CleanInv
  <2>3. r \in AppliedReceipts' /\ AppliedReceipts \subseteq AppliedReceipts'
    BY <1>0, <1>1, <1>4 DEF AppliedReceipts
  <2>4. ASSUME NEW b \in Syncers, b # a, AboutToRecord(b)  PROVE AboutToRecord(b)'
    <3>1. pc'[b] = pc[b]
      BY <2>1, <2>4 DEF TypeOK
    <3> QED BY <1>0, <2>1, <2>4, <3>1 DEF AboutToRecord, StepsLeft
  <2>5. BackedInv'
    BY <1>0, <1>1, <2>1, <2>3, <2>4 DEF BackedInv
  <2> QED BY <2>2, <2>5
<1> QED BY <1>2, <1>3, <1>4

\* Nothing else a syncer does in its cycle without a fault touches a switch
\* that is about to be recorded.
LEMMA AdvanceBacked ==
  ASSUME TypeOK, CleanInv, BackedInv, UNCHANGED hostVars,
         NEW a \in Syncers, HasStore(a), Advance(a), ~Fault
  PROVE  CleanInv' /\ BackedInv'
<1> USE DEF upstreamVars, storeVars, systemVars, daemonVars
<1>0. cycle[a] \in Cycle
  BY DEF TypeOK
<1>1. CASE Fetch(a)
  <2> DEFINE c == [cycle[a] EXCEPT !.target = promoted]
  <2>1. /\ cycle' = [cycle EXCEPT ![a] = c] /\ c.results = cycle[a].results
        /\ pc' = [pc EXCEPT ![a] = "plan"]
    BY <1>0, <1>1 DEF Fetch, Goto, Cycle
  <2>2. Growing /\ switchedFor' = switchedFor /\ ~AboutToRecord(a)
    BY <1>1 DEF Fetch, Growing, AboutToRecord
  <2> HIDE DEF c
  <2> QED BY <2>1, <2>2, QuietStep
<1>2. CASE Plan(a)
  <2>1. Growing /\ switchedFor' = switchedFor /\ ~AboutToRecord(a)
    BY <1>2 DEF Plan, Growing, AboutToRecord
  <2>2. CASE EndCycle(a, FALSE)
    BY <2>1, <2>2, QuietEnd
  <2>3. CASE ~EndCycle(a, FALSE)
    <3>1. PICK gate, level :
            /\ cycle' = [cycle EXCEPT ![a] = [@ EXCEPT !.gate = gate, !.level = level]]
            /\ Goto(a, "run")
      BY <1>2, <2>3 DEF Plan
    <3> DEFINE c == [[cycle[a] EXCEPT !.gate = gate] EXCEPT !.level = level]
    <3>2. /\ cycle' = [cycle EXCEPT ![a] = c] /\ c.results = cycle[a].results
          /\ pc' = [pc EXCEPT ![a] = "run"]
      BY <1>0, <3>1 DEF Goto, Cycle
    <3> HIDE DEF c
    <3> QED BY <2>1, <3>2, QuietStep
  <2> QED BY <2>2, <2>3
<1>3. CASE SkipStep(a) \/ StepSucceeds(a)
  BY <1>3, StepBacked
<1>4. CASE WriteReceipt(a)
  BY <1>4, ReceiptBacks
<1>5. CASE TruncateVersion(a)
  <2>1. /\ cycle' = [cycle EXCEPT ![a] = cycle[a]]
        /\ pc' = [pc EXCEPT ![a] = "version-open"]
    BY <1>5 DEF TruncateVersion, Goto, TypeOK
  <2>2. Growing /\ switchedFor' = switchedFor /\ ~AboutToRecord(a)
    BY <1>5 DEF TruncateVersion, Growing, AboutToRecord
  <2> QED BY <2>1, <2>2, QuietStep
<1>6. CASE WriteVersion(a)
  <2>1. Growing /\ switchedFor' = switchedFor /\ ~AboutToRecord(a)
    BY <1>6 DEF WriteVersion, Growing, AboutToRecord
  <2> QED BY <1>6, <2>1, QuietEnd DEF WriteVersion
<1>7. CASE FetchFails(a)
  <2>1. Growing /\ switchedFor' = switchedFor /\ ~AboutToRecord(a)
    BY <1>7 DEF FetchFails, Growing, AboutToRecord
  <2> QED BY <1>7, <2>1, QuietEnd DEF FetchFails
<1>8. ~(StepFails(a) \/ WriteReceiptFails(a) \/ WriteVersionFails(a))
  BY DEF StepFails, WriteReceiptFails, WriteVersionFails
<1>9. ~LeaveUnrecorded(a)
  BY DEF LeaveUnrecorded
<1> QED BY <1>1, <1>2, <1>3, <1>4, <1>5, <1>6, <1>7, <1>8, <1>9 DEF Advance

\* Every step of the system preserves what SwitchesOnRecord rests on.
LEMMA NextSwitch == TypeOK /\ SwitchInv /\ [Next]_vars => SwitchInv'
<1> SUFFICES ASSUME TypeOK, SwitchInv, [Next]_vars,
                    faults' = 0, \A a \in Syncers : HasStore(a)'
             PROVE  CleanInv' /\ BackedInv'
  BY DEF SwitchInv, CleanInv, BackedInv
<1> USE DEF upstreamVars, storeVars, systemVars, daemonVars
<1>1. ~Fault
  BY DEF Fault, TypeOK
<1>2. UNCHANGED hostVars
  BY DEF Next, vars
<1>3. faults = 0
  <2>1. faults' = faults \/ Fault
    BY DEF Next, DaemonStep, DaemonPoll, Advance, Wake, Stop, Restart, Signal, OperatorStart,
           Crash, Upstream, Fetch, FetchFails, Plan, SkipStep, StepSucceeds, StepFails,
           WriteReceipt, WriteReceiptFails, LeaveUnrecorded, TruncateVersion, WriteVersion,
           WriteVersionFails, vars
  <2> QED BY <1>1, <2>1
<1>4. \A a \in Syncers : HasStore(a)
  BY <1>2 DEF HasStore, hostVars
<1>5. CleanInv /\ BackedInv
  BY <1>3, <1>4 DEF SwitchInv, CleanInv, BackedInv
<1>6. ASSUME NEW a \in Syncers, Advance(a)  PROVE CleanInv' /\ BackedInv'
  BY <1>1, <1>2, <1>4, <1>5, <1>6, AdvanceBacked
<1>7. ASSUME NEW d \in Daemons, DaemonPoll(d)  PROVE CleanInv' /\ BackedInv'
  <2> DEFINE c == [cycle[d] EXCEPT !.current = versionFile]
  <2>1. d \in Syncers /\ cycle[d] \in Cycle
    BY DEF TypeOK, Syncers
  <2>2. /\ cycle' = [cycle EXCEPT ![d] = c] /\ c.results = cycle[d].results
        /\ pc' = [pc EXCEPT ![d] = "fetch"]
    BY <1>7, <2>1 DEF DaemonPoll, Goto, Cycle
  <2>3. Growing /\ switchedFor' = switchedFor /\ ~AboutToRecord(d)
    BY <1>2, <1>7 DEF DaemonPoll, Growing, AboutToRecord
  <2> HIDE DEF c
  <2> QED BY <1>5, <2>1, <2>2, <2>3, QuietStep
<1>8. ASSUME NEW o \in Operators, OperatorStart(o)  PROVE CleanInv' /\ BackedInv'
  <2>1. PICK current, mode :
          cycle' = [cycle EXCEPT ![o] = [@ EXCEPT !.current = current, !.mode = mode]]
    BY <1>8 DEF OperatorStart
  <2> DEFINE c == [[cycle[o] EXCEPT !.current = current] EXCEPT !.mode = mode]
  <2>2. o \in Syncers /\ cycle[o] \in Cycle
    BY DEF TypeOK, Syncers
  <2>3. cycle' = [cycle EXCEPT ![o] = c] /\ c.results = cycle[o].results
    BY <2>1, <2>2 DEF Cycle
  <2>4. pc' = [pc EXCEPT ![o] = "fetch"]
    BY <1>8 DEF OperatorStart, Goto
  <2>5. Growing /\ switchedFor' = switchedFor /\ ~AboutToRecord(o)
    BY <1>2, <1>8 DEF OperatorStart, Growing, AboutToRecord
  <2> HIDE DEF c
  <2> QED BY <1>5, <2>2, <2>3, <2>4, <2>5, QuietStep
<1>9. ASSUME NEW d \in Daemons, Wake(d) \/ Stop(d) \/ Restart(d)  PROVE CleanInv' /\ BackedInv'
  <2>1. PICK l : pc' = [pc EXCEPT ![d] = l]
    BY <1>9 DEF Wake, Stop, Restart, Goto
  <2>2. d \in Syncers /\ cycle' = [cycle EXCEPT ![d] = cycle[d]]
    BY <1>9 DEF Wake, Stop, Restart, TypeOK, Syncers
  <2>3. Growing /\ switchedFor' = switchedFor /\ ~AboutToRecord(d)
    BY <1>2, <1>9 DEF Wake, Stop, Restart, Growing, AboutToRecord
  <2> QED BY <1>5, <2>1, <2>2, <2>3, QuietStep
<1>10. CASE UNCHANGED <<pc, cycle, receipts, switchedFor>>
  BY <1>2, <1>5, <1>10, StillStep
<1>11. ASSUME NEW d \in Daemons, Signal(d)  PROVE UNCHANGED <<pc, cycle, receipts, switchedFor>>
  BY <1>11 DEF Signal
<1>12. ASSUME Upstream  PROVE UNCHANGED <<pc, cycle, receipts, switchedFor>>
  BY <1>12 DEF Upstream
<1>13. \A a \in Syncers : ~Crash(a)
  BY <1>1 DEF Crash
<1>14. ASSUME UNCHANGED vars  PROVE UNCHANGED <<pc, cycle, receipts, switchedFor>>
  BY <1>14 DEF vars
<1> QED
  BY <1>6, <1>7, <1>8, <1>9, <1>10, <1>11, <1>12, <1>13, <1>14 DEF Next, DaemonStep, Syncers

\* Initially nothing has been switched.
LEMMA InitSwitch == Init => SwitchInv
<1>1. StatusesOf(NoCycle.results) = {}
  BY DEF NoCycle, StatusesOf
<1> QED BY <1>1 DEF Init, SwitchInv

\* _poll_once and `sync apply`: without faults a switch ends as an applied
\* receipt, for any number of syncers, and a stop request never prevents it.
THEOREM SwitchesAreRecorded == Spec => []SwitchesOnRecord
<1>1. Init => TypeOK /\ SwitchInv
  BY InitType, InitSwitch
<1>2. TypeOK /\ SwitchInv /\ [Next]_vars => (TypeOK /\ SwitchInv)'
  BY NextType, NextSwitch
<1>3. SwitchInv => SwitchesOnRecord
  <2>1. \A a \in Syncers : BetweenCycles(a) => ~AboutToRecord(a)
    BY DEF BetweenCycles, AboutToRecord
  <2> QED BY <2>1 DEF SwitchInv, SwitchesOnRecord
<1> QED BY <1>1, <1>2, <1>3, PTL DEF Spec

-----------------------------------------------------------------------------
(* The backoff of a daemon. *)

\* 2^n is the number of subsets of 1..n: what the library says of powers.
LEMMA PowerCounts ==
  ASSUME NEW n \in Nat
  PROVE  /\ IsFiniteSet(SUBSET (1..n))
         /\ Cardinality(SUBSET (1..n)) = 2^n
         /\ 2^n \in Nat \ {0}
<1>1. IsFiniteSet(1..n) /\ Cardinality(1..n) = n
  BY FS_Interval
<1>2. IsFiniteSet(SUBSET (1..n)) /\ Cardinality(SUBSET (1..n)) = 2^n
  <2> DEFINE S == 1..n
  <2>1. IsFiniteSet(S) /\ Cardinality(S) = n
    BY <1>1
  <2> HIDE DEF S
  <2>2. IsFiniteSet(SUBSET S) /\ Cardinality(SUBSET S) = 2^Cardinality(S)
    BY <2>1, FS_SUBSET
  <2>3. IsFiniteSet(SUBSET S) /\ Cardinality(SUBSET S) = 2^n
    BY <2>1, <2>2, Zenon
  <2> QED BY <2>3 DEF S
<1>3. SUBSET (1..n) # {}
  OBVIOUS
<1> DEFINE T == SUBSET (1..n)
           p == 2^n
<1>4. IsFiniteSet(T) /\ Cardinality(T) = p /\ T # {}
  BY <1>2, <1>3
<1> HIDE DEF T, p
<1>5. Cardinality(T) \in Nat /\ Cardinality(T) # 0
  BY <1>4, FS_CardinalityType, FS_EmptySet
<1>6. p \in Nat \ {0}
  BY <1>4, <1>5
<1> QED BY <1>2, <1>6 DEF p

\* Adding an element doubles the number of subsets, and so 2^n.
LEMMA PowerDoubles ==
  ASSUME NEW n \in Nat
  PROVE  2^(n + 1) = 2 * 2^n
<1> DEFINE x == n + 1
           T == SUBSET (1..n)
           U == {A \union {x} : A \in T}
           f == [A \in T |-> A \union {x}]
<1>1. \A A \in T : x \notin A
  OBVIOUS
<1>2. f \in Bijection(T, U)
  <2>1. f \in [T -> U]
    OBVIOUS
  <2>2. \A A, B \in T : f[A] = f[B] => A = B
    <3> SUFFICES ASSUME NEW A \in T, NEW B \in T, f[A] = f[B]  PROVE A = B
      OBVIOUS
    <3>1. A \union {x} = B \union {x} /\ x \notin A /\ x \notin B
      BY <1>1
    <3>2. A = (A \union {x}) \ {x} /\ B = (B \union {x}) \ {x}
      BY <3>1
    <3> HIDE DEF x, T, f
    <3> QED BY <3>1, <3>2, Zenon
  <2>3. \A V \in U : \E A \in T : f[A] = V
    OBVIOUS
  <2> HIDE DEF f, T, U
  <2> QED BY <2>1, <2>2, <2>3 DEF Bijection, Injection, Surjection, IsInjective
<1>3. SUBSET (1..n + 1) = T \union U
  <2>1. 1..n + 1 = (1..n) \union {x}
    OBVIOUS
  <2>2. ASSUME NEW V \in SUBSET (1..n + 1)  PROVE V \in T \union U
    <3>1. CASE x \in V
      <4>1. V \ {x} \in T /\ V = (V \ {x}) \union {x}
        BY <2>1, <3>1
      <4> QED BY <4>1
    <3>2. CASE x \notin V
      BY <2>1, <3>2
    <3> QED BY <3>1, <3>2
  <2>3. ASSUME NEW V \in T \union U  PROVE V \in SUBSET (1..n + 1)
    BY <2>1, <2>3
  <2> QED BY <2>2, <2>3
<1>4. T \intersect U = {}
  BY <1>1
<1>5. IsFiniteSet(T) /\ Cardinality(T) = 2^n
  BY PowerCounts
<1>6. Cardinality(SUBSET (1..n + 1)) = 2^(n + 1)
  <2>1. n + 1 \in Nat
    OBVIOUS
  <2> QED BY <2>1, PowerCounts
<1>7. 2^n \in Nat
  BY PowerCounts
<1> DEFINE p == 2^n
           q == 2^(n + 1)
<1>8. Cardinality(T) = p /\ Cardinality(T \union U) = q /\ p \in Nat
  BY <1>3, <1>5, <1>6, <1>7
<1> SUFFICES q = 2 * p
  OBVIOUS
<1> HIDE DEF p, q, T, U, f, x
<1>9. IsFiniteSet(U) /\ Cardinality(U) = p
  <2>1. ExistsBijection(T, U)
    BY <1>2 DEF ExistsBijection
  <2> QED BY <1>5, <1>8, <2>1, FS_Bijection
<1>10. Cardinality(T \union U) = Cardinality(T) + Cardinality(U) - Cardinality(T \intersect U)
  BY <1>5, <1>9, FS_Union
<1>11. Cardinality(T \intersect U) = 0
  BY <1>4, FS_EmptySet
<1> QED BY <1>8, <1>9, <1>10, <1>11

\* A backoff and a count of failures that go together: the schedule, and that
\* each failure has added at least a second, so that the maximum is reached
\* before the count is cut.
InSchedule(b, n) ==
  /\ b = IF n = 0 THEN 0 ELSE Least(MaxBackoff, MinBackoff * 2^(n - 1))
  /\ Least(n, MaxBackoff) <= b

BackoffInv == \A d \in Daemons : InSchedule(backoff[d], failures[d])

\* One more failure leads from one entry of the schedule to the next.
LEMMA NextInSchedule ==
  ASSUME NEW b \in 0..MaxBackoff, NEW n \in 0..MaxBackoff + 1, InSchedule(b, n)
  PROVE  InSchedule(NextBackoff(b), Least(n + 1, MaxBackoff + 1))
<1>1. CASE n = 0
  <2>1. b = 0 /\ NextBackoff(b) = MinBackoff /\ Least(n + 1, MaxBackoff + 1) = 1
    BY <1>1 DEF InSchedule, NextBackoff, Least
  <2>2. 2^(1 - 1) = 1
    OBVIOUS
  <2>3. MinBackoff * 2^(1 - 1) = MinBackoff
    BY <2>2
  <2>4. InSchedule(MinBackoff, 1)
    BY <2>3 DEF InSchedule, Least
  <2> QED BY <2>1, <2>4
<1>2. CASE n \in 1..MaxBackoff
  <2> DEFINE p == 2^(n - 1)
             r == 2^n
             q == MinBackoff * p
  <2>1. n - 1 \in Nat /\ (n - 1) + 1 = n
    BY <1>2
  <2>2. p \in Nat \ {0}
    BY <2>1, PowerCounts
  <2>3. r = 2 * p
    <3>1. 2^((n - 1) + 1) = 2 * 2^(n - 1)
      BY <2>1, PowerDoubles
    <3> QED BY <2>1, <3>1, Zenon
  <2>4. b = Least(MaxBackoff, q) /\ Least(n, MaxBackoff) <= b
    BY <1>2 DEF InSchedule
  <2> HIDE DEF p, r
  <2>5. q \in Nat \ {0} /\ MinBackoff * r = 2 * q
    BY <2>2, <2>3
  <2> HIDE DEF q
  <2>6. NextBackoff(b) = Least(MaxBackoff, 2 * q)
    BY <2>4, <2>5 DEF NextBackoff, Least
  <2>7. Least(n + 1, MaxBackoff + 1) = n + 1
    BY <1>2 DEF Least
  <2>8. Least(n + 1, MaxBackoff) <= NextBackoff(b)
    BY <1>2, <2>4, <2>5, <2>6 DEF Least
  <2>9. NextBackoff(b) = Least(MaxBackoff, MinBackoff * 2^((n + 1) - 1))
    <3>1. (n + 1) - 1 = n
      BY <1>2
    <3>2. MinBackoff * 2^((n + 1) - 1) = 2 * q
      BY <2>5, <3>1, Zenon DEF r
    <3> QED BY <2>6, <3>2
  <2> QED BY <1>2, <2>7, <2>8, <2>9 DEF InSchedule
<1>3. CASE n = MaxBackoff + 1
  <2>1. b = MaxBackoff /\ Least(n + 1, MaxBackoff + 1) = n
    BY <1>3 DEF InSchedule, Least
  <2>2. NextBackoff(b) = b
    BY <2>1 DEF NextBackoff
  <2> QED BY <2>1, <2>2
<1> QED BY <1>1, <1>2, <1>3

\* The end of a cycle keeps every daemon in the schedule.
LEMMA EndCycleBackoff ==
  ASSUME TypeOK, BackoffInv, NEW a \in Syncers, NEW failed \in BOOLEAN, EndCycle(a, failed)
  PROVE  BackoffInv'
<1>1. CASE a \in Daemons
  <2>1. /\ backoff' = [backoff EXCEPT ![a] = IF failed THEN NextBackoff(@) ELSE 0]
        /\ failures' = [failures EXCEPT ![a] =
                          IF failed THEN Least(@ + 1, MaxBackoff + 1) ELSE 0]
    BY <1>1 DEF EndCycle
  <2> SUFFICES ASSUME NEW d \in Daemons  PROVE InSchedule(backoff'[d], failures'[d])
    BY DEF BackoffInv, InSchedule
  <2>2. /\ backoff[d] \in 0..MaxBackoff /\ failures[d] \in 0..MaxBackoff + 1
        /\ InSchedule(backoff[d], failures[d])
    BY DEF TypeOK, BackoffInv
  <2>3. CASE d # a
    BY <1>1, <2>1, <2>2, <2>3 DEF TypeOK
  <2>4. CASE d = a /\ failed
    <3>1. /\ backoff'[d] = NextBackoff(backoff[d])
          /\ failures'[d] = Least(failures[d] + 1, MaxBackoff + 1)
      BY <2>1, <2>4 DEF TypeOK
    <3> QED BY <2>2, <3>1, NextInSchedule
  <2>5. CASE d = a /\ ~failed
    <3>1. backoff'[d] = 0 /\ failures'[d] = 0
      BY <2>1, <2>5 DEF TypeOK
    <3> QED BY <3>1 DEF InSchedule, Least
  <2> QED BY <2>3, <2>4, <2>5
<1>2. CASE a \notin Daemons
  BY <1>2 DEF EndCycle, BackoffInv, InSchedule
<1> QED BY <1>1, <1>2

\* Only the end of a cycle and a restart touch the backoff.
LEMMA NextBackoffInv == TypeOK /\ BackoffInv /\ [Next]_vars => BackoffInv'
<1> SUFFICES ASSUME TypeOK, BackoffInv, [Next]_vars  PROVE BackoffInv'
  OBVIOUS
<1> USE DEF daemonVars
<1>1. CASE UNCHANGED <<backoff, failures>>
  BY <1>1 DEF BackoffInv, InSchedule
<1>2. ASSUME NEW a \in Syncers, NEW failed \in BOOLEAN, EndCycle(a, failed)
      PROVE  BackoffInv'
  BY <1>2, EndCycleBackoff
<1>3. ASSUME NEW d \in Daemons, Restart(d)  PROVE BackoffInv'
  <2> SUFFICES ASSUME NEW e \in Daemons  PROVE InSchedule(backoff'[e], failures'[e])
    BY DEF BackoffInv, InSchedule
  <2>1. CASE e = d
    <3>1. backoff'[e] = 0 /\ failures'[e] = 0
      BY <1>3, <2>1 DEF Restart, TypeOK
    <3> QED BY <3>1 DEF InSchedule, Least
  <2>2. CASE e # d
    <3>1. backoff'[e] = backoff[e] /\ failures'[e] = failures[e]
      BY <1>3, <2>2 DEF Restart, TypeOK
    <3> QED BY <3>1 DEF BackoffInv
  <2> QED BY <2>1, <2>2
<1>4. ASSUME NEW a \in Syncers, Advance(a)  PROVE BackoffInv'
  <2>1. CASE Fetch(a) \/ SkipStep(a) \/ StepSucceeds(a) \/ StepFails(a) \/ TruncateVersion(a)
    BY <1>1, <2>1 DEF Fetch, SkipStep, StepSucceeds, StepFails, TruncateVersion, Goto
  <2>2. CASE FetchFails(a) \/ WriteReceiptFails(a) \/ LeaveUnrecorded(a) \/ WriteVersion(a)
             \/ WriteVersionFails(a)
    BY <1>2, <2>2
    DEF FetchFails, WriteReceiptFails, LeaveUnrecorded, WriteVersion, WriteVersionFails
  <2>3. CASE Plan(a)
    <3>1. EndCycle(a, FALSE) \/ Goto(a, "run")
      BY <2>3 DEF Plan
    <3> QED BY <1>1, <1>2, <3>1 DEF Goto
  <2>4. CASE WriteReceipt(a)
    <3>1. EndCycle(a, Outcome(a) = "failed") \/ Goto(a, "version")
      BY <2>4 DEF WriteReceipt
    <3>2. (Outcome(a) = "failed") \in BOOLEAN
      OBVIOUS
    <3> QED BY <1>1, <1>2, <3>1, <3>2 DEF Goto
  <2> QED BY <1>4, <2>1, <2>2, <2>3, <2>4 DEF Advance
<1>5. ASSUME NEW d \in Daemons, DaemonPoll(d) \/ Wake(d) \/ Stop(d) \/ Signal(d)
      PROVE  BackoffInv'
  BY <1>1, <1>5 DEF DaemonPoll, Wake, Stop, Signal, Goto
<1>6. ASSUME NEW o \in Operators, OperatorStart(o)  PROVE BackoffInv'
  BY <1>1, <1>6 DEF OperatorStart, Goto
<1>7. ASSUME NEW a \in Syncers, Crash(a)  PROVE BackoffInv'
  BY <1>1, <1>7 DEF Crash
<1>8. CASE Upstream \/ UNCHANGED vars
  BY <1>1, <1>8 DEF Upstream, vars
<1> QED
  BY <1>3, <1>4, <1>5, <1>6, <1>7, <1>8 DEF Next, DaemonStep, Syncers

\* run() and _backoff: a daemon waits MIN_BACKOFF_S after a failed poll, twice
\* as long after each further one up to MAX_BACKOFF_S, and not at all after a
\* poll that did not fail or a restart, for any values of the two.
THEOREM BackoffIsScheduled == Spec => []BackoffSchedule
<1>1. Init => TypeOK /\ BackoffInv
  <2>1. Init => BackoffInv
    BY DEF Init, BackoffInv, InSchedule, Least
  <2> QED BY <2>1, InitType
<1>2. TypeOK /\ BackoffInv /\ [Next]_vars => (TypeOK /\ BackoffInv)'
  BY NextType, NextBackoffInv
<1>3. BackoffInv => BackoffSchedule
  BY DEF BackoffInv, InSchedule, BackoffSchedule
<1> QED BY <1>1, <1>2, <1>3, PTL DEF Spec

-----------------------------------------------------------------------------
(* The receipt store implements the abstract ledger. *)

AuthorizedVersions == {v \in Versions : Authorized(v)}
AppliedSyncs == {<<r.to, r.level>> : r \in AppliedReceipts}

\* A step that touches nothing the ledger is read from is a stutter.
LEMMA LedgerStutter ==
  ASSUME UNCHANGED <<published, receipts, versionFile, overlapped>>
  PROVE  UNCHANGED Ledger!vars
BY DEF Ledger!vars, Authorized, AppliedReceipts

\* The producer publishes an attestation: a version is authorized, or nothing
\* changes if the attestation does not verify.
LEMMA LedgerAuthorize ==
  ASSUME TypeOK, Upstream
  PROVE  [Ledger!Next]_(Ledger!vars)
<1> USE DEF storeVars
<1>1. CASE UNCHANGED published
  BY <1>1, LedgerStutter DEF Upstream
<1>2. ASSUME NEW v \in Versions, NEW attestation \in Attestations, Publish(v, attestation)
      PROVE  [Ledger!Next]_(Ledger!vars)
  <2>0. /\ published' = published \union {attestation}
        /\ UNCHANGED <<receipts, versionFile, overlapped>>
        /\ attestation \in Attestation
    BY <1>2 DEF Publish, Upstream
  <2>1. AppliedSyncs' = AppliedSyncs /\ versionFile' = versionFile /\ overlapped' = overlapped
    BY <2>0 DEF AppliedSyncs, AppliedReceipts
  <2>2. CASE attestation.verifies
    <3> DEFINE w == attestation.binds
    <3>1. w \in Versions
      BY <2>0 DEF Attestation
    <3>2. attestation = [binds |-> w, verifies |-> TRUE]
      BY <2>0, <2>2 DEF Attestation
    <3>3. \A u : attestation = [binds |-> u, verifies |-> TRUE] <=> u = w
      BY <3>2
    <3> HIDE DEF w
    <3>4. AuthorizedVersions' = AuthorizedVersions \union {w}
      BY <2>0, <3>1, <3>3 DEF AuthorizedVersions, Authorized
    <3>5. Ledger!Authorize(w)
      BY <2>1, <3>4 DEF Ledger!Authorize, AuthorizedVersions, AppliedSyncs
    <3>6. QED BY <3>1, <3>5 DEF Ledger!Next
  <2>3. CASE ~attestation.verifies
    <3>1. \A u : attestation # [binds |-> u, verifies |-> TRUE]
      BY <2>3
    <3>2. AuthorizedVersions' = AuthorizedVersions
      BY <2>0, <3>1 DEF AuthorizedVersions, Authorized
    <3>3. QED BY <2>1, <3>2 DEF Ledger!vars, AuthorizedVersions, AppliedSyncs
  <2>4. QED BY <2>2, <2>3
<1>3. QED BY <1>1, <1>2 DEF Upstream, Release, Promote

\* write_receipt adds an applied sync to the ledger, "Proved" only if its
\* version is authorized, and any other receipt adds nothing.
LEMMA LedgerApply ==
  ASSUME TypeOK, SyncInv, NEW a \in Syncers, WriteReceipt(a)
  PROVE  [Ledger!Next]_(Ledger!vars)
<1> USE DEF upstreamVars, storeVars, systemVars
<1> DEFINE r == [to |-> cycle[a].target, outcome |-> Outcome(a), level |-> cycle[a].level]
<1>0. /\ UNCHANGED <<versionFile, overlapped, published>>
      /\ receipts' = receipts \union {r}
  BY DEF WriteReceipt
<1>1. r.to = cycle[a].target /\ r.outcome = Outcome(a) /\ r.level = cycle[a].level
  OBVIOUS
<1>2. cycle[a].target \in Versions /\ cycle[a].level \in Levels
  BY DEF TypeOK, WriteReceipt, HasTarget, Cycle
<1>3. AuthorizedVersions' = AuthorizedVersions
  BY <1>0 DEF AuthorizedVersions, Authorized
<1> HIDE DEF r
<1>4. CASE Outcome(a) = "applied"
  <2>1. AppliedReceipts' = AppliedReceipts \union {r}
    BY <1>0, <1>1, <1>4 DEF AppliedReceipts
  <2>2. AppliedSyncs' = AppliedSyncs \union {<<cycle[a].target, cycle[a].level>>}
    BY <1>1, <2>1 DEF AppliedSyncs
  <2>3. cycle[a].level = "Proved" => cycle[a].target \in AuthorizedVersions
    BY <1>2, SyncInvParts DEF CyclesInv, CycleInv, WriteReceipt, AuthorizedVersions
  <2>4. PICK v \in Versions, level \in {"Proved", "Speculative"} :
          v = cycle[a].target /\ level = cycle[a].level
    BY <1>2 DEF Levels
  <2>5. Ledger!Apply(v, level)
    BY <1>0, <1>3, <2>2, <2>3, <2>4 DEF Ledger!Apply, AuthorizedVersions, AppliedSyncs
  <2>6. QED BY <2>5 DEF Ledger!Next
<1>5. CASE Outcome(a) # "applied"
  <2>1. AppliedReceipts' = AppliedReceipts
    BY <1>0, <1>1, <1>5 DEF AppliedReceipts
  <2>2. AppliedSyncs' = AppliedSyncs
    BY <2>1 DEF AppliedSyncs
  <2>3. QED BY <1>0, <1>3, <2>2 DEF Ledger!vars, AuthorizedVersions, AppliedSyncs
<1>6. QED BY <1>4, <1>5

\* write_current_version forgets the version while it rewrites the file, and
\* then records one that is in the ledger, or leaves a mixture with another.
LEMMA LedgerRecord ==
  ASSUME TypeOK, SyncInv, NEW a \in Syncers, TruncateVersion(a) \/ WriteVersion(a)
  PROVE  [Ledger!Next]_(Ledger!vars)
<1> USE DEF upstreamVars, storeVars, systemVars
<1>1. AuthorizedVersions' = AuthorizedVersions /\ AppliedSyncs' = AppliedSyncs
  BY DEF TruncateVersion, WriteVersion, AuthorizedVersions, Authorized, AppliedSyncs,
         AppliedReceipts
<1>2. CASE TruncateVersion(a)
  <2>1. overlapped' \in {overlapped, TRUE}
    <3>1. overlapped \in BOOLEAN /\ overlapped' = (overlapped \/ OpenElsewhere(a))
      BY <1>2 DEF TypeOK, TruncateVersion
    <3>2. OpenElsewhere(a) \in BOOLEAN
      BY DEF OpenElsewhere
    <3> QED BY <3>1, <3>2
  <2>2. versionFile' = NoVersion
    BY <1>2 DEF TruncateVersion
  <2>3. Ledger!Forget
    BY <1>1, <2>1, <2>2 DEF Ledger!Forget, AuthorizedVersions, AppliedSyncs
  <2>4. QED BY <2>3 DEF Ledger!Next
<1>3. CASE WriteVersion(a)
  <2>1. cycle[a].target \in Versions
    BY <1>3 DEF TypeOK, WriteVersion, HasTarget
  <2>2. PICK r \in AppliedReceipts : r.to = cycle[a].target
    BY <1>3, SyncInvParts DEF CyclesInv, CycleInv, Recording, WriteVersion
  <2>3. r.level \in {"Proved", "Speculative"}
    BY DEF TypeOK, AppliedReceipts, Receipt, Levels
  <2>4. <<cycle[a].target, r.level>> \in AppliedSyncs
    BY <2>2 DEF AppliedSyncs
  <2>5. /\ versionFile' \in TextsAfterWrite(versionFile, cycle[a].target)
        /\ pc[a] = "version-open" /\ overlapped' = overlapped
    BY <1>3 DEF WriteVersion
  <2>6. CASE versionFile' = cycle[a].target
    <3>1. Ledger!Record(cycle[a].target)
      BY <1>1, <2>3, <2>4, <2>5, <2>6 DEF Ledger!Record, AuthorizedVersions, AppliedSyncs
    <3> QED BY <2>1, <3>1 DEF Ledger!Next
  <2>7. CASE versionFile' # cycle[a].target
    <3>1. versionFile' = Mixed /\ versionFile \notin {NoVersion, cycle[a].target}
      BY <2>5, <2>7 DEF TextsAfterWrite
    <3>2. CASE versionFile = Mixed
      BY <1>1, <2>5, <3>1, <3>2 DEF Ledger!vars, AuthorizedVersions, AppliedSyncs
    <3>3. CASE versionFile # Mixed
      <4>1. versionFile \in Versions
        BY <3>1, <3>3 DEF TypeOK, VersionTexts, MaybeVersion
      <4>2. overlapped
        BY <2>5, <3>1, SyncInvParts DEF OpenFileInv
      <4>3. PICK other \in AppliedReceipts : other.to = versionFile
        BY <4>1, SyncInvParts DEF StoreInv, RecordBackedByReceipt
      <4>4. \E entry, another \in AppliedSyncs : entry[1] # another[1]
        <5>1. <<other.to, other.level>> \in AppliedSyncs
          BY DEF AppliedSyncs
        <5> QED BY <2>4, <3>1, <4>3, <5>1
      <4>5. Ledger!Mix
        BY <1>1, <2>5, <3>1, <4>2, <4>4 DEF Ledger!Mix, AuthorizedVersions, AppliedSyncs
      <4> QED BY <4>5 DEF Ledger!Next
    <3> QED BY <3>2, <3>3
  <2>8. QED BY <2>6, <2>7
<1>4. QED BY <1>2, <1>3

\* For any number of daemons and operators, what they write in the receipt
\* store is an append-only ledger with a version drawn from it, or a mixture of
\* two once two of them have recorded at the same time.
THEOREM StoreImplementsLedger == Spec => ImplementsLedger
<1> USE DEF upstreamVars, storeVars, systemVars
<1>1. Init => Ledger!Init
  BY DEF Init, Ledger!Init, Authorized, AppliedReceipts
<1>2. TypeOK /\ SyncInv /\ [Next]_vars => [Ledger!Next]_(Ledger!vars)
  <2> SUFFICES ASSUME TypeOK, SyncInv, [Next]_vars
               PROVE  [Ledger!Next]_(Ledger!vars)
    OBVIOUS
  <2>1. ASSUME NEW a \in Syncers, Advance(a)
        PROVE  [Ledger!Next]_(Ledger!vars)
    <3>1. CASE \/ Fetch(a) \/ FetchFails(a) \/ Plan(a) \/ SkipStep(a) \/ StepSucceeds(a)
               \/ StepFails(a) \/ WriteReceiptFails(a) \/ LeaveUnrecorded(a)
               \/ WriteVersionFails(a)
      BY <3>1, LedgerStutter
      DEF Fetch, FetchFails, Plan, SkipStep, StepSucceeds, StepFails, WriteReceiptFails,
          LeaveUnrecorded, WriteVersionFails
    <3>2. CASE WriteReceipt(a)
      BY <3>2, LedgerApply
    <3>3. CASE TruncateVersion(a) \/ WriteVersion(a)
      BY <3>3, LedgerRecord
    <3>4. QED BY <2>1, <3>1, <3>2, <3>3 DEF Advance
  <2>2. CASE Upstream
    BY <2>2, LedgerAuthorize
  <2>3. ASSUME \/ \E d \in Daemons : \/ DaemonPoll(d) \/ Wake(d) \/ Stop(d)
                                     \/ Restart(d) \/ Signal(d)
               \/ \E o \in Operators : OperatorStart(o)
               \/ \E a \in Syncers : Crash(a)
               \/ UNCHANGED vars
        PROVE  [Ledger!Next]_(Ledger!vars)
    BY <2>3, LedgerStutter
    DEF DaemonPoll, Wake, Stop, Restart, Signal, OperatorStart, Crash, vars
  <2>4. QED BY <2>1, <2>2, <2>3 DEF Next, DaemonStep, Syncers
<1>3. QED
  BY <1>1, <1>2, TypeCorrect, InvariantHolds, PTL DEF Spec, ImplementsLedger

=============================================================================

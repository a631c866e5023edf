---------------------------- MODULE StoreReports ----------------------------
(***************************************************************************)
(* The State Integrity Reports that readers make of the local state store  *)
(* (snapshot_from_store and summarize), while commands write it: LocalStore *)
(* composed with StateReport.                                              *)
(***************************************************************************)
EXTENDS LocalStore, StateReport

CONSTANTS
  Objects,
  Content,      \* the event of each appender: its type and its object
  RemoteDenied  \* how many decisions a remote PolicyFabric may deny

EventTypes == {"add", "update", "delete", "checkpoint", "repair", "policy"}

ASSUME ContentAssumption ==
  /\ Content \in [Appenders -> [type : EventTypes, object : Objects]]
  /\ RemoteDenied \subseteq Nat

VARIABLE
  acknowledged  \* the appenders that had ended when a reader started (history)

reportVars == <<vars, acknowledged>>

-----------------------------------------------------------------------------
(* LocalStateStore.summarize *)

\* The events that are counted, by their appenders.
Counted(lines) == {lines[i].by : i \in {j \in DOMAIN lines : lines[j].status = "event"}}

Damaged(lines) == \E i \in DOMAIN lines : lines[i].status # "event"

SeenObjects(lines) == {Content[p].object : p \in Counted(lines)}

DeletedObjects(lines) ==
  {Content[p].object : p \in {q \in Counted(lines) : Content[q].type = "delete"}}

\* Mutant: deleted objects are not taken out.
LiveObjectsSeen(lines) == SeenObjects(lines)

\* What the total of lane "normal" counts: seen_objects - deleted_objects.
LiveObjects(lines) == SeenObjects(lines) \ DeletedObjects(lines)

\* Mutant: the checksum of an initialized store is always "verified".
ShadowVerified(isInitialized, lines) == FALSE

\* The store is active, has a shadow (init makes the directory of the
\* checkpoints first) and its checksum_state is "mismatch".
ShadowDamaged(isInitialized, lines) == isInitialized /\ Damaged(lines)

\* What a report says besides what is in the store: disk_pressure, and the
\* decisions of evaluate_report_policy.
Surroundings ==
  [pressure : MeasuredPressures,
   denied   : {DeniedDecisions(DefaultLanes)} \union RemoteDenied]

(***************************************************************************)
(* snapshot_from_store: the snapshot with the store's summary.  Every      *)
(* event of append_event is "applied", and the lane "priority" allows no   *)
(* lag.                                                                    *)
(***************************************************************************)
ReportOf(r, surroundings) ==
  [Snapshot(surroundings.pressure) EXCEPT
     !.shadowDamaged = ShadowDamaged(initialized[r], seen[r]),
     !.lanes         = DefaultLanes,
     !.allowedLag    = 100 * Cardinality(DefaultLanes \ {"priority"}),
     !.denied        = surroundings.denied,
     !.initialized   = initialized[r]]

-----------------------------------------------------------------------------
ReportInit == Init /\ acknowledged = [r \in Readers |-> {}]

AcknowledgedNow == {p \in Appenders : pc[p] = "done"}

Observe ==
  acknowledged' = [r \in Readers |-> IF pc[r] = "start" THEN AcknowledgedNow
                                     ELSE acknowledged[r]]

ReportNext == Next /\ Observe

ReportSpec == ReportInit /\ [][ReportNext]_reportVars

-----------------------------------------------------------------------------
(***************************************************************************)
(* Properties.  They are about a store that exists before the commands, or *)
(* about commands that follow one another; in a first use by several       *)
(* commands at once an acknowledged event may be lost.                     *)
(***************************************************************************)

Orderly == existing \/ oneAtATime

Finished(r) == pc[r] = "done"

HealthyIn(r, surroundings) == Diagnosis(ReportOf(r, surroundings)) = "healthy"

\* A report that leaves out an event which `store record` had acknowledged when
\* the report was begun is not diagnosed as healthy, whatever commands ran
\* meanwhile and wherever others died before: an event that is lost leaves a
\* damaged line.
HealthyReportIsComplete ==
  Orderly =>
    \A r \in Readers :
      Finished(r) /\ ~(acknowledged[r] \subseteq Counted(seen[r])) =>
        \A surroundings \in Surroundings : ~HealthyIn(r, surroundings)

\* The journal goes on about the object of an appender's event.
Superseded(p, lines) ==
  \E i, j \in DOMAIN lines :
    /\ i < j /\ lines[i] = EventOf(p) /\ lines[j].status = "event"
    /\ Content[lines[j].by].object = Content[p].object

\* A healthy report counts no object as live whose deletion was acknowledged
\* before the report was begun, unless the journal has later events of it.
DeletionsAreSeen ==
  Orderly =>
    \A r \in Readers : \A p \in acknowledged[r] :
      /\ Finished(r)
      /\ Content[p].type = "delete" /\ ~Superseded(p, seen[r])
      /\ Content[p].object \in LiveObjects(seen[r])
      => \A surroundings \in Surroundings : ~HealthyIn(r, surroundings)

\* Every acknowledged event that the journal does not hold any more accounts
\* for a line of its own that does not parse, so that the corruption a report
\* shows bounds the loss it cannot show.
LossIsVisible ==
  Orderly =>
    Cardinality(AcknowledgedNow \ Counted(journal))
      <= Cardinality({i \in DOMAIN journal : journal[i].status = "corrupt"})

(***************************************************************************)
(* The inductive invariant behind HealthyReportIsComplete: an event whose  *)
(* append_event has gone past the append is in the journal, or a corrupt   *)
(* line is; the manifest it writes makes a reader look at the journal.     *)
(***************************************************************************)
Corrupted(lines) == \E i \in DOMAIN lines : lines[i].status = "corrupt"

Kept(p, lines) == p \in Counted(lines) \/ Corrupted(lines)

AppenderKept(p) ==
  /\ pc[p] \in {"open", "write", "replace", "done"} => Kept(p, journal)
  /\ pc[p] = "done" => manifest.target # Nothing

ReaderKept(r) ==
  /\ acknowledged[r] \subseteq AcknowledgedNow
  /\ pc[r] # "start" /\ acknowledged[r] # {} => initialized[r]
  /\ pc[r] = "done" => \A p \in acknowledged[r] : Kept(p, seen[r])

\* The code behind it: in append_event the manifest is written after the line,
\* and summarize looks for the manifest before it reads the journal.
AcknowledgedKept ==
  Orderly => /\ \A p \in Appenders : AppenderKept(p)
             /\ \A r \in Readers : ReaderKept(r)

=============================================================================

-------------------------- MODULE CanonicalEvents ---------------------------
(***************************************************************************)
(* Where canonical events come from and where they go: the policy          *)
(* normalizer and the process provenance helper write event files, and     *)
(* eventctl loads them into the store.  The files are written in place, at *)
(* any time, and are named after the id of their event, as emit-events     *)
(* names its own (`normalize --out` takes any name).  A producer that dies *)
(* is one that takes no further step, and leaves its file truncated.       *)
(***************************************************************************)
EXTENDS EventStore, PolicyNormalizer, ProcessProvenance

CONSTANTS
  Normalizers,  \* runs of `normalize --out`
  Collectors,   \* runs of `emit-events --out-dir`
  Registries,   \* the registries the normalizer may be run with
  Observations, \* the observations it may be given
  Tuples,       \* the tuples a collector may be given
  HandWritten   \* the event files that are there from the start: no policy decisions

Producers == Normalizers \union Collectors

ASSUME ProducersAssumption ==
  /\ Normalizers \intersect Collectors = {}
  /\ Observations \subseteq Observation
  /\ Registries \subseteq Seq(Entry)
  /\ Tuples \subseteq Tuple
  /\ EventIds \union ProcessEventIds \subseteq Paths
  /\ HandWritten \in [Paths -> Documents \union {NoFile}]
  /\ \A path \in Paths : HandWritten[path] \in Documents =>
       HandWritten[path].class # "policy.decision"

VARIABLES
  registry,
  produced, \* the events a producer has still to write
  tails,    \* the torn event files that are not empty
  ppc

producerVars == <<registry, produced, tails, ppc>>
allVars      == <<vars, producerVars>>

PGoto(p, label) == ppc' = [ppc EXCEPT ![p] = label]

-----------------------------------------------------------------------------
\* cmd_normalize, up to the output; the event is validated once more.
Normalize(n) ==
  /\ ppc[n] = "start"
  /\ \E observation \in Observations :
       LET events == NormalizedEvents(registry, observation) \intersect Valid
       IN  \/ events = {} /\ PGoto(n, "failed") /\ UNCHANGED produced
           \/ \E event \in events :
                produced' = [produced EXCEPT ![n] = <<event>>] /\ PGoto(n, "open")
  /\ UNCHANGED <<vars, registry, tails>>

\* cmd_emit_events, up to the output.
Collect(k) ==
  /\ ppc[k] = "start"
  /\ \E tuple \in Tuples :
       LET events == EmitEvents(tuple)
       IN  IF \A i \in DOMAIN events : events[i] \in Valid
           THEN produced' = [produced EXCEPT ![k] = events] /\ PGoto(k, "open")
           ELSE PGoto(k, "failed") /\ UNCHANGED produced
  /\ UNCHANGED <<vars, registry, tails>>

\* write_text, which truncates the file and then writes it.
OpenFile(p) ==
  /\ ppc[p] = "open"
  /\ ChangeFile(Head(produced[p]).id, TornFile)
  /\ tails' = tails \ {Head(produced[p]).id}
  /\ PGoto(p, "write")
  /\ UNCHANGED <<registry, produced>>

\* What a write of `event` at the start of its file can leave: another text
\* that is there, a torn one included, keeps its end if it is longer.
Overwriting(event) ==
  IF files[event.id] = event \/ (files[event.id] = TornFile /\ event.id \notin tails)
  THEN {event} ELSE {event, TornFile}

\* If another producer has written the file meanwhile, either text may remain
\* under the other's end.
WriteFile(p) ==
  /\ ppc[p] = "write"
  /\ LET event == Head(produced[p])
     IN  \E content \in Overwriting(event) :
           /\ ChangeFile(event.id, content)
           /\ tails' = IF content = TornFile THEN tails \union {event.id}
                       ELSE tails \ {event.id}
  /\ produced' = [produced EXCEPT ![p] = Tail(@)]
  /\ PGoto(p, IF Len(produced[p]) = 1 THEN "done" ELSE "open")
  /\ UNCHANGED registry

Produce(p) ==
  \/ p \in Normalizers /\ Normalize(p)
  \/ p \in Collectors /\ Collect(p)
  \/ OpenFile(p) \/ WriteFile(p)

PipelineInit ==
  /\ files = HandWritten
  /\ Init
  /\ registry \in Registries
  /\ produced = [p \in Producers |-> << >>]
  /\ tails = {}
  /\ ppc = [p \in Producers |-> "start"]

PipelineNext ==
  \/ \E c \in Commands : Command(c) /\ UNCHANGED producerVars
  \/ \E p \in Producers : Produce(p)

PipelineSpec == PipelineInit /\ [][PipelineNext]_allVars

-----------------------------------------------------------------------------
(***************************************************************************)
(* Properties.                                                             *)
(***************************************************************************)

\* A policy decision that came from an observation says of its code what the
\* registry says, its severity stricter only where that is allowed.
DecisionsKeepRegistry ==
  \A i \in EventLines :
    Author(i) \notin Emitters /\ Event(i).class = "policy.decision" =>
      \E entry \in EntriesFor(registry, Event(i).code) : Keeps(Event(i), entry)

\* "A shell launch produces one canonical `process.exec` event"
\* (docs/process-provenance-collector.md:150): a `write` that is refused as a
\* duplicate was of a launch that the store has.
LaunchIsRecorded ==
  \A c \in Commands :
    pc[c] = "duplicate" /\ doc[c].class = "process.exec" =>
      \E i \in EventLines : Event(i) = doc[c]

=============================================================================

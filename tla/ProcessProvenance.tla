------------------------- MODULE ProcessProvenance --------------------------
(***************************************************************************)
(* tools/sourceos_process_provenance.py: the canonical events of a process *)
(* from its provenance tuple.  A tuple is its place in the chain of causes *)
(* and whether an exit was observed; the identity of the process and of    *)
(* its executable are copied into the events and decide nothing here.      *)
(***************************************************************************)
EXTENDS Sequences

CONSTANTS
  Processes,      \* the processes tuples are about
  ProcessEventIds,
  ExitIdOf        \* an event id with "_exit" put after it

NoParent == "none"

ASSUME ExitIdAssumption ==
  /\ ExitIdOf \in [ProcessEventIds -> ProcessEventIds]
  /\ \A i, j \in ProcessEventIds : ExitIdOf[i] = ExitIdOf[j] => i = j
  /\ \A i \in ProcessEventIds : ExitIdOf[i] # i

Tuple == [process : Processes,
          root    : ProcessEventIds,                          \* causality.root_event_id
          parent  : ProcessEventIds \union {NoParent},        \* causality.parent_event_id
          exited  : BOOLEAN]                                  \* exit.observed

\* event_base: both events of a process share its root; the id is given.
EventBase(tuple, id, class, parent) ==
  [id |-> id, class |-> class, process |-> tuple.process,
   root |-> tuple.root, parent |-> parent]

\* The exec event takes the id of the root of the chain, whether or not the
\* process is that root.
ExecEvent(tuple) == EventBase(tuple, tuple.root, "process.exec", tuple.parent)

ExitEvent(tuple) ==
  EventBase(tuple, ExitIdOf[tuple.root], "process.exit", tuple.root)

\* emit_events, in the order in which cmd_emit_events writes its files.
EmitEvents(tuple) ==
  <<ExecEvent(tuple)>> \o (IF tuple.exited THEN <<ExitEvent(tuple)>> ELSE << >>)

=============================================================================

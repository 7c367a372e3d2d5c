----------------------------- MODULE DepGraph -----------------------------
(***************************************************************************)
(* What the event queue promises to the simulator, without times: events   *)
(* form a graph of dependencies, an event ends only after everything it    *)
(* depends on, and it never "un-ends".  EventQueue implements this         *)
(* specification; Collectives and PointToPoint build on it.                *)
(***************************************************************************)
CONSTANTS
  EventIds,   \* the identities events are given
  NoneDep     \* the dependency None, a barrier released by hand

VARIABLES
  deps,       \* event -> everything it was ever made to depend on
  over        \* the events that have ended

graphVars == <<deps, over>>

Added    == DOMAIN deps
Ready(e) == deps[e] \subseteq over

GraphInit == deps = << >> /\ over = {}

\* add_action_or_point
AddEvent(e, on) ==
  /\ e \in EventIds \ Added
  /\ on \subseteq Added \cup {NoneDep}
  /\ deps' = [x \in Added \cup {e} |-> IF x = e THEN on ELSE deps[x]]
  /\ UNCHANGED over

\* add_dependency: e has still something to wait for, so it cannot have begun.
AddEdge(e, d) ==
  /\ e \in Added /\ ~ Ready(e)
  /\ d \in Added \ {e}
  /\ deps' = [deps EXCEPT ![e] = @ \cup {d}]
  /\ UNCHANGED over

\* remove_none_dependency
Release(e) ==
  /\ e \in Added /\ NoneDep \in deps[e]
  /\ deps' = [deps EXCEPT ![e] = @ \ {NoneDep}]
  /\ UNCHANGED over

\* end_event
EndOf(e) ==
  /\ e \in Added \ over
  /\ Ready(e)
  /\ over' = over \cup {e}
  /\ UNCHANGED deps

GraphNext ==
  \/ \E e \in EventIds, on \in SUBSET (Added \cup {NoneDep}) : AddEvent(e, on)
  \/ \E e, d \in Added : AddEdge(e, d)
  \/ \E e \in Added : Release(e)
  \/ \E e \in Added : EndOf(e)

GraphSpec == GraphInit /\ [][GraphNext]_graphVars
====

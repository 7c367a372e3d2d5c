--------------------------- MODULE MCEventQueue ---------------------------
(***************************************************************************)
(* EventQueue for TLC, with the calls of one of two callers, chosen at the *)
(* start:                                                                  *)
(*  - "plan": the events of Plan are added in order, each at any host      *)
(*    time, while execution, the network and the release of the barriers   *)
(*    interleave freely.  Two flows wait behind barriers of their own, as  *)
(*    two unmatched transfers do, so that either can start in the          *)
(*    network's past; events depend on the end of both;                    *)
(*  - "graph": every graph of GraphEvents events, built in every order.    *)
(***************************************************************************)
EXTENDS EventQueue

CONSTANT GraphEvents  \* bound on the events of a freely built graph

VARIABLE caller

Plan == << [deps |-> {NoneDep}, act |-> Point],     \* 0: barrier of the first flow
           [deps |-> {0},       act |-> Comm],      \* 1: the first flow
           [deps |-> {1},       act |-> Comp(1)],   \* 2: the kernel that follows it
           [deps |-> {NoneDep}, act |-> Point],     \* 3: barrier of the second flow
           [deps |-> {3},       act |-> Comm],      \* 4: the second flow
           [deps |-> {4},       act |-> Comm] >>    \* 5: a flow that follows the second

PlanBuild ==
  /\ caller = "plan"
  /\ \/ /\ cnt < MaxEvents
        /\ \E t \in Times : AddActionOrPoint(Plan[cnt + 1].deps, Plan[cnt + 1].act, t)
     \/ \E id \in DOMAIN pending : RemoveNoneDependency(id)

GraphBuild == caller = "graph" /\ Build /\ cnt' <= GraphEvents

MCInit == Init /\ caller \in {"plan", "graph"}

MCNext ==
  /\ PlanBuild \/ GraphBuild \/ ProceedNetsim \/ Execute \/ Internal
  /\ UNCHANGED caller

\* A call that has begun runs to its end: the simulator is single-threaded.
MCSpec == MCInit /\ [][MCNext]_<<vars, caller>> /\ WF_vars(Internal)
====

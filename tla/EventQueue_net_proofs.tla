----------------------- MODULE EventQueue_net_proofs -----------------------
(***************************************************************************)
(* The event queue implements the untimed dependency graph, and agrees     *)
(* with the network, for any bound on the events, any times, durations and *)
(* completion times: through every rollback, an event ends only after      *)
(* everything it was made to depend on, an end that is replayed is no new  *)
(* end, and the lookups that the code unwraps succeed.                     *)
(*                                                                         *)
(* The graph is read off rev_dependencies, so the step to prove is that an *)
(* event which is no longer pending has no unfinished dependency left      *)
(* there.  EdgesHeld says where an edge of rev_dependencies is remembered  *)
(* until its dependency ends.  Acyclic, which the calls that build the     *)
(* graph keep, is what an empty queue is explained with (GraphInv).        *)
(*                                                                         *)
(* The second part says where an event is on its way from push_event to    *)
(* its end, for each kind of action, while the rollback loop has taken     *)
(* flows back and has not yet handled what the network completes (NetInv). *)
(*                                                                         *)
(* The third part bounds when an event starts, from push_event to the      *)
(* record of its start, by the ends of its dependencies (TimesInv).        *)
(***************************************************************************)
EXTENDS EventQueue_proofs

\* An edge whose dependency has not ended holds its dependent back.
EdgesHeld ==
  \A d \in Ids : \A e \in rev[d] :
    d \in DOMAIN ended \/ (e \in DOMAIN pending /\ d \in pending[e].deps)

\* Of any pending events, one waits for none of the others.
Acyclic ==
  \A S \in SUBSET DOMAIN pending : S # {} => \E p \in S : pending[p].deps \cap S = {}

GraphInv == CallInv /\ EdgesHeld /\ Acyclic

\* The abstract variable deps.
DepsMap == [e \in 0 .. cnt - 1 |-> DepsOf(e)]

-----------------------------------------------------------------------------
(***************************************************************************)
(* The graph's edges and cycles.                                           *)
(***************************************************************************)

\* end_event forgets a dependency only once it has ended.
LEMMA EndEventGraph ==
  ASSUME GraphInv, NEW id \in Ids, NEW start, NEW end, NEW rest,
         EndEvent(id, start, end, rest), UNCHANGED <<rev, cnt>>
  PROVE  EdgesHeld' /\ Acyclic'
<1>1. TypeOK /\ EdgesHeld /\ Acyclic /\ rev \in [Ids -> SUBSET Ids]
  BY DEF GraphInv, CallInv, QueueInv, TypeOK
<1>2. /\ DOMAIN pending' = DOMAIN pending \ Freed(id) /\ Freed(id) \subseteq DOMAIN pending
      /\ DOMAIN ended' = DOMAIN ended \cup {id}
      /\ \A p \in DOMAIN pending' :
              IF p \in rev[id] /\ id \in pending[p].deps
              THEN pending'[p].deps = pending[p].deps \ {id}
              ELSE pending'[p] = pending[p]
  BY <1>1, EndEventFrees
<1>3. \A p \in DOMAIN pending' :
        /\ pending'[p].deps \subseteq pending[p].deps
        /\ pending[p].deps \subseteq pending'[p].deps \cup {id}
  BY <1>2
<1>4. ASSUME NEW d \in Ids, NEW e \in rev[d], d \notin DOMAIN ended'
      PROVE  e \in DOMAIN pending' /\ d \in pending'[e].deps
  <2>1. d # id /\ e \in DOMAIN pending /\ d \in pending[e].deps
    BY <1>1, <1>2, <1>4 DEF EdgesHeld
  <2>2. e \notin Freed(id)
    BY <2>1 DEF Freed
  <2>3. QED
    BY <1>2, <1>3, <2>1, <2>2
<1>5. EdgesHeld'
  BY <1>4 DEF EdgesHeld
<1>6. Acyclic'
  <2>1. ASSUME NEW S \in SUBSET DOMAIN pending', S # {}
        PROVE  \E p \in S : pending'[p].deps \cap S = {}
    <3>1. PICK p \in S : pending[p].deps \cap S = {}
      BY <1>1, <1>2, <2>1 DEF Acyclic
    <3>2. QED
      BY <1>3, <3>1
  <2>2. QED
    BY <2>1 DEF Acyclic
<1>7. QED
  BY <1>5, <1>6

\* A new event waits for older ones only, and they do not wait for it.
LEMMA AddGraph ==
  ASSUME GraphInv, NEW deps \in SUBSET (0 .. cnt - 1 \cup {NoneDep}), NEW act \in Actions,
         NEW t \in Nat, AddActionOrPoint(deps, act, t)
  PROVE  EdgesHeld' /\ Acyclic'
<1> DEFINE real == deps \ {NoneDep}
           live == deps \ (real \cap DOMAIN ended)
<1>1. /\ TypeOK /\ EdgesHeld /\ Acyclic /\ NoLostWakeup /\ PendingAdded /\ KnownInv
      /\ cnt \in Nat /\ rev \in [Ids -> SUBSET Ids]
  BY DEF GraphInv, CallInv, QueueInv, TypeOK
<1>2. CallInv
  BY DEF GraphInv
<1>3. /\ rev' = [d \in Ids |-> IF d \in real THEN rev[d] \cup {cnt} ELSE rev[d]]
      /\ UNCHANGED ended
  BY DEF AddActionOrPoint
<1>4. \/ live = {} /\ UNCHANGED pending
      \/ /\ live # {} /\ DOMAIN pending' = DOMAIN pending \cup {cnt}
         /\ pending'[cnt].deps = live
         /\ \A p \in DOMAIN pending : p # cnt => pending'[p] = pending[p]
  <2>1. \E now \in Nat :
          IF live = {} THEN UNCHANGED pending
          ELSE pending' = Put(pending, cnt, [deps |-> live, arrive |-> now, depEnd |-> 0, act |-> act])
    BY <1>2, AddViews
  <2> HIDE DEF live
  <2>2. QED
    BY <2>1 DEF Put
<1>5. /\ cnt \notin DOMAIN pending /\ cnt # NoneDep /\ cnt \notin deps
      /\ \A p \in DOMAIN pending : cnt \notin pending[p].deps
  <2>1. cnt \notin DOMAIN pending /\ cnt # NoneDep /\ cnt \notin deps
    BY <1>1, ConstantsAssumption DEF PendingAdded
  <2>2. ASSUME NEW p \in DOMAIN pending
        PROVE  cnt \notin pending[p].deps
    BY <1>1, <2>1 DEF NoLostWakeup
  <2>3. QED
    BY <2>1, <2>2
<1>6. \A p \in DOMAIN pending : p \in DOMAIN pending' /\ pending'[p] = pending[p]
  BY <1>4, <1>5
<1>7. ASSUME NEW d \in Ids, NEW e \in rev'[d], d \notin DOMAIN ended'
      PROVE  e \in DOMAIN pending' /\ d \in pending'[e].deps
  <2>1. CASE e \in rev[d]
    BY <1>1, <1>3, <1>6, <1>7, <2>1 DEF EdgesHeld
  <2>2. CASE e = cnt /\ d \in real
    <3>1. d \in live
      BY <1>3, <1>7, <2>2
    <3>2. QED
      BY <1>4, <2>2, <3>1
  <2>3. QED
    BY <1>3, <2>1, <2>2
<1>8. ASSUME NEW S \in SUBSET DOMAIN pending', S # {}
      PROVE  \E p \in S : pending'[p].deps \cap S = {}
  <2>1. CASE S = {cnt}
    <3>1. pending'[cnt].deps \subseteq deps
      BY <1>4, <1>5, <2>1
    <3>2. QED
      BY <1>5, <2>1, <3>1
  <2>2. CASE S # {cnt}
    <3> DEFINE T == S \ {cnt}
    <3>1. T \subseteq DOMAIN pending /\ T # {}
      BY <1>4, <1>8, <2>2
    <3>2. PICK p \in T : pending[p].deps \cap T = {}
      BY <1>1, <3>1 DEF Acyclic
    <3>3. pending'[p] = pending[p] /\ cnt \notin pending[p].deps
      BY <1>5, <1>6, <3>1, <3>2
    <3>4. QED
      BY <3>2, <3>3
  <2>3. QED
    BY <2>1, <2>2
<1>9. QED
  BY <1>7, <1>8 DEF EdgesHeld, Acyclic

\* add_dependency closes no cycle: of any pending events, one that the new
\* dependency waits for waits for none of the others, or else the new
\* dependency is not among them.
LEMMA LinkGraph ==
  ASSUME GraphInv, NEW id \in DOMAIN pending, NEW dep \in DOMAIN pending, AddDependency(id, dep)
  PROVE  EdgesHeld' /\ Acyclic'
<1>1. /\ TypeOK /\ EdgesHeld /\ Acyclic /\ KnownInv
      /\ rev \in [Ids -> SUBSET Ids] /\ id \in Ids /\ dep \in Ids /\ pending[id] \in PendingRecords
  <2>1. TypeOK
    BY DEF GraphInv, CallInv, QueueInv
  <2>2. id \in Ids /\ dep \in Ids /\ pending[id] \in PendingRecords
    BY <2>1, PartialAt DEF TypeOK
  <2>3. QED
    BY <2>1, <2>2 DEF GraphInv, CallInv, TypeOK
<1>2. dep \notin DOMAIN ended
  BY <1>1 DEF KnownInv, Known
<1>3. /\ rev' = [rev EXCEPT ![dep] = @ \cup {id}]
      /\ pending' = [pending EXCEPT ![id].deps = @ \cup {dep}]
      /\ UNCHANGED ended
  BY <1>2 DEF AddDependency
<1>4. /\ DOMAIN pending' = DOMAIN pending
      /\ \A p \in DOMAIN pending : p # id => pending'[p] = pending[p]
      /\ pending'[id].deps = pending[id].deps \cup {dep}
  BY <1>1, <1>3 DEF PendingRecords
<1>5. ASSUME NEW d \in Ids, NEW e \in rev'[d], d \notin DOMAIN ended'
      PROVE  e \in DOMAIN pending' /\ d \in pending'[e].deps
  <2>1. CASE e \in rev[d]
    BY <1>1, <1>3, <1>4, <1>5, <2>1 DEF EdgesHeld
  <2>2. CASE e = id /\ d = dep
    BY <1>4, <2>2
  <2>3. QED
    BY <1>1, <1>3, <2>1, <2>2
<1>6. PICK C \in SUBSET DOMAIN pending :
        /\ dep \in C /\ id \notin C
        /\ \A r \in C : pending[r].deps \cap DOMAIN pending \subseteq C
  BY DEF AddDependency, Independent
<1>7. ASSUME NEW S \in SUBSET DOMAIN pending, S # {}
      PROVE  \E p \in S : pending'[p].deps \cap S = {}
  <2>1. CASE S \cap C # {}
    <3>1. PICK p \in S \cap C : pending[p].deps \cap (S \cap C) = {}
      BY <1>1, <2>1 DEF Acyclic
    <3>2. pending[p].deps \cap S \subseteq C
      BY <1>6, <3>1
    <3>3. p # id
      BY <1>6, <3>1
    <3>4. QED
      BY <1>4, <3>1, <3>2, <3>3
  <2>2. CASE S \cap C = {}
    <3>1. PICK p \in S : pending[p].deps \cap S = {}
      BY <1>1, <1>7 DEF Acyclic
    <3>2. dep \notin S
      BY <1>6, <2>2
    <3>3. QED
      BY <1>4, <3>1, <3>2
  <2>3. QED
    BY <2>1, <2>2
<1>8. QED
  BY <1>4, <1>5, <1>7 DEF EdgesHeld, Acyclic

\* remove_none_dependency drops no edge of rev_dependencies.
LEMMA ReleaseGraph ==
  ASSUME GraphInv, NEW id \in DOMAIN pending, RemoveNoneDependency(id)
  PROVE  EdgesHeld' /\ Acyclic'
<1>1. TypeOK /\ EdgesHeld /\ Acyclic /\ pending[id] \in PendingRecords
  <2>1. TypeOK
    BY DEF GraphInv, CallInv, QueueInv
  <2>2. QED
    BY <2>1, PartialAt DEF GraphInv, TypeOK
<1>2. UNCHANGED <<rev, ended>>
  BY DEF RemoveNoneDependency
<1>3. /\ DOMAIN pending' \subseteq DOMAIN pending
      /\ \A p \in DOMAIN pending' :
           /\ pending'[p].deps \subseteq pending[p].deps
           /\ pending[p].deps \subseteq pending'[p].deps \cup {NoneDep}
      /\ \A p \in DOMAIN pending \ DOMAIN pending' : pending[p].deps = {NoneDep}
  <2>1. CASE pending[id].deps = {NoneDep}
    BY <2>1 DEF RemoveNoneDependency, Without
  <2>2. CASE pending[id].deps # {NoneDep}
    <3>1. pending' = [pending EXCEPT ![id].deps = @ \ {NoneDep}]
      BY <2>2 DEF RemoveNoneDependency
    <3>2. /\ DOMAIN pending' = DOMAIN pending
          /\ pending'[id].deps = pending[id].deps \ {NoneDep}
          /\ \A p \in DOMAIN pending : p # id => pending'[p] = pending[p]
      BY <1>1, <3>1 DEF PendingRecords
    <3>3. QED
      BY <3>2
  <2>3. QED
    BY <2>1, <2>2
<1>4. NoneDep \notin Ids
  BY ConstantsAssumption DEF Ids
<1>5. EdgesHeld'
  BY <1>1, <1>2, <1>3, <1>4 DEF EdgesHeld
<1>6. ASSUME NEW S \in SUBSET DOMAIN pending', S # {}
      PROVE  \E p \in S : pending'[p].deps \cap S = {}
  <2>1. PICK p \in S : pending[p].deps \cap S = {}
    BY <1>1, <1>3, <1>6 DEF Acyclic
  <2>2. QED
    BY <1>3, <2>1
<1>7. QED
  BY <1>5, <1>6 DEF Acyclic

\* Every step either leaves the graph alone, adds to it, or ends an event.
LEMMA EndsOrNot ==
  ASSUME CallInv, [AnyNext]_vars
  PROVE  \/ \E deps \in SUBSET (0 .. cnt - 1 \cup {NoneDep}), act \in Actions, t \in Nat :
              AddActionOrPoint(deps, act, t)
         \/ \E id, dep \in DOMAIN pending : AddDependency(id, dep)
         \/ \E id \in DOMAIN pending : RemoveNoneDependency(id)
         \/ /\ UNCHANGED <<rev, cnt>>
            /\ \E id \in Known \cap Ids : \E start, end, rest : EndEvent(id, start, end, rest)
         \/ UNCHANGED <<pending, rev, cnt, ended>>
<1>1. TypeOK /\ KnownInv /\ Known \subseteq Ids
  BY ConstantsAssumption DEF CallInv, QueueInv, TypeOK, Known, Ids
<1>2. CASE AnyBuild
  BY <1>2 DEF AnyBuild
<1>3. CASE Execute
  <2>1. PICK e \in DOMAIN queue : ExecuteEvent(e)
    BY <1>3 DEF Execute
  <2>2. e[2] \in Known \cap Ids
    BY <1>1, <2>1 DEF KnownInv
  <2>3. UNCHANGED <<rev, cnt>>
    BY <2>1 DEF ExecuteEvent
  <2>4. \/ \E start, end, rest : EndEvent(e[2], start, end, rest)
        \/ UNCHANGED <<pending, ended>>
    BY <2>1 DEF ExecuteEvent, ExecutePoint, ExecuteEnd, ExecuteStart
  <2>5. QED
    BY <2>2, <2>3, <2>4
<1>4. CASE RollbackFinish
  <2>1. PICK r \in Todo : FinishPushed(r) \/ FinishOther(r)
    BY <1>4, RollbackFinishViews
  <2>2. r.id \in Known \cap Ids
    BY <1>1, <2>1 DEF KnownInv
  <2>3. UNCHANGED <<rev, cnt>>
    BY <1>4 DEF RollbackFinish
  <2>4. \/ \E start, end, rest : EndEvent(r.id, start, end, rest)
        \/ UNCHANGED <<pending, ended>>
    BY <2>1 DEF FinishPushed, FinishOther
  <2>5. QED
    BY <2>2, <2>3, <2>4
<1>5. CASE ProceedNetsim \/ PushEvent \/ RollbackRun \/ RollbackDone \/ UNCHANGED vars
  BY <1>5 DEF ProceedNetsim, PushEvent, RollbackRun, RollbackDone, queueVars, vars
<1>6. QED
  BY <1>2, <1>3, <1>4, <1>5 DEF AnyNext, Internal

\* Every step keeps the edges and closes no cycle.
LEMMA NextGraphInv ==
  ASSUME GraphInv, [AnyNext]_vars
  PROVE  GraphInv'
<1>1. CallInv /\ CallInv'
  BY NextCallInv DEF GraphInv
<1>2. CASE UNCHANGED <<pending, rev, cnt, ended>>
  BY <1>1, <1>2 DEF GraphInv, EdgesHeld, Acyclic
<1>3. EdgesHeld' /\ Acyclic'
  BY <1>1, <1>2, EndsOrNot, EndEventGraph, AddGraph, LinkGraph, ReleaseGraph DEF GraphInv
<1>4. QED
  BY <1>1, <1>3 DEF GraphInv

\* The empty graph.
LEMMA InitGraphInv ==
  ASSUME Init
  PROVE  GraphInv
<1>1. CallInv
  BY InitCallInv
<1>2. QED
  BY <1>1 DEF Init, GraphInv, EdgesHeld, Acyclic

\* The inductive invariant of the graph.
THEOREM GraphInvariant == Spec => []GraphInv
<1>1. Init => GraphInv
  BY InitGraphInv
<1>2. GraphInv /\ [Next]_vars => GraphInv'
  BY NextGraphInv, NextIsAny
<1>3. QED
  BY <1>1, <1>2, PTL DEF Spec

-----------------------------------------------------------------------------
(***************************************************************************)
(* The refinement: each step maps to a step of the graph, or to none.      *)
(***************************************************************************)

\* What an event depends on, as a set of the events and None.
LEMMA DepsOfIn ==
  ASSUME NEW e, NEW d
  PROVE  d \in DepsOf(e) <=> \/ d \in Ids /\ e \in rev[d]
                             \/ d = NoneDep /\ e \in DOMAIN pending /\ d \in pending[e].deps
BY DEF DepsOf

\* end_event ends an event of the graph all of whose dependencies are over, or
\* replays the end of one that is over.
LEMMA EndEventRefines ==
  ASSUME GraphInv, NEW id \in Known, NEW start, NEW end, NEW rest,
         EndEvent(id, start, end, rest), UNCHANGED <<rev, cnt>>
  PROVE  [Graph!GraphNext]_Graph!graphVars
<1>1. TypeOK /\ EdgesHeld /\ id \in Ids /\ NoneDep # id
  BY ConstantsAssumption DEF GraphInv, CallInv, QueueInv, TypeOK, Known, Ids
<1>2. /\ DOMAIN pending' = DOMAIN pending \ Freed(id)
      /\ DOMAIN ended' = DOMAIN ended \cup {id}
      /\ \A p \in DOMAIN pending' :
              IF p \in rev[id] /\ id \in pending[p].deps
              THEN pending'[p].deps = pending[p].deps \ {id}
              ELSE pending'[p] = pending[p]
  BY <1>1, EndEventFrees
<1>3. \A e : e \in DOMAIN pending' /\ NoneDep \in pending'[e].deps
               <=> e \in DOMAIN pending /\ NoneDep \in pending[e].deps
  BY <1>1, <1>2 DEF Freed
<1>4. DepsMap' = DepsMap
  <2>1. \A e : DepsOf(e)' = DepsOf(e)
    BY <1>3 DEF DepsOf
  <2>2. QED
    BY <2>1 DEF DepsMap
<1>5. id \in DOMAIN DepsMap /\ DepsMap[id] \subseteq DOMAIN ended
  <2>1. id \in 0 .. cnt - 1 /\ id \notin DOMAIN pending
    BY DEF Known
  <2>2. DepsOf(id) \subseteq DOMAIN ended
    BY <1>1, <2>1 DEF DepsOf, EdgesHeld
  <2>3. QED
    BY <2>1, <2>2 DEF DepsMap
<1>6. CASE id \in DOMAIN ended
  BY <1>2, <1>4, <1>6 DEF Graph!graphVars, DepsMap
<1>7. CASE id \notin DOMAIN ended
  <2>1. Graph!EndOf(id)
    BY <1>2, <1>4, <1>5, <1>7 DEF Graph!EndOf, Graph!Ready, Graph!Added, DepsMap
  <2>2. id \in Graph!Added
    BY <1>5 DEF Graph!Added, DepsMap
  <2>3. QED
    BY <2>1, <2>2 DEF Graph!GraphNext
<1>8. QED
  BY <1>6, <1>7

\* add_action_or_point adds an event with the dependencies it was called with.
LEMMA AddRefines ==
  ASSUME GraphInv, NEW deps \in SUBSET (0 .. cnt - 1 \cup {NoneDep}), NEW act \in Actions,
         NEW t \in Nat, AddActionOrPoint(deps, act, t)
  PROVE  [Graph!GraphNext]_Graph!graphVars
<1> DEFINE real == deps \ {NoneDep}
           live == deps \ (real \cap DOMAIN ended)
<1>1. /\ TypeOK /\ PendingAdded /\ KnownInv /\ CallInv /\ cnt \in Nat
      /\ rev \in [Ids -> SUBSET Ids] /\ NoneDep \notin Nat
  BY ConstantsAssumption DEF GraphInv, CallInv, QueueInv, TypeOK
<1>2. cnt \in Ids /\ cnt' = cnt + 1 /\ UNCHANGED ended
  BY <1>1, ConstantsAssumption DEF AddActionOrPoint, Ids
<1>3. rev' = [d \in Ids |-> IF d \in real THEN rev[d] \cup {cnt} ELSE rev[d]]
  BY DEF AddActionOrPoint
<1>4. /\ live = {} => UNCHANGED pending
      /\ live # {} => /\ DOMAIN pending' = DOMAIN pending \cup {cnt}
                      /\ pending'[cnt].deps = live
                      /\ \A p \in DOMAIN pending : p # cnt => pending'[p] = pending[p]
  <2>1. \E now \in Nat :
          IF live = {} THEN UNCHANGED pending
          ELSE pending' = Put(pending, cnt, [deps |-> live, arrive |-> now, depEnd |-> 0, act |-> act])
    BY <1>1, AddViews
  <2> HIDE DEF live
  <2>2. QED
    BY <2>1 DEF Put
<1>5. cnt \notin DOMAIN pending /\ real \subseteq Ids
  <2>1. real \subseteq 0 .. cnt - 1
    <3>1. deps \subseteq (0 .. cnt - 1) \cup {NoneDep}
      OBVIOUS
    <3>2. QED
      BY <3>1, Zenon
  <2>2. 0 .. cnt - 1 \subseteq Ids
    BY <1>1, <1>2, ConstantsAssumption DEF Ids
  <2>3. QED
    BY <1>1, <2>1, <2>2 DEF PendingAdded
<1>6. \A d \in Ids : cnt \notin rev[d]
  BY <1>1 DEF KnownInv
<1>7. PICK c \in Ids : c = cnt
  BY <1>2
<1>8. DepsOf(c)' = deps
  <2>1. ASSUME NEW d
        PROVE  d \in DepsOf(c)' <=> d \in deps
    <3>1. d \in DepsOf(c)' <=> \/ d \in Ids /\ c \in rev'[d]
                               \/ d = NoneDep /\ c \in DOMAIN pending' /\ d \in pending'[c].deps
      BY DEF DepsOf
    <3>2. d \in Ids => (c \in rev'[d] <=> d \in real)
      BY <1>3, <1>6, <1>7
    <3>3. (c \in DOMAIN pending' /\ NoneDep \in pending'[c].deps) <=> NoneDep \in deps
      BY <1>4, <1>5, <1>7
    <3>4. d \in Ids => d # NoneDep
      BY <1>1 DEF Ids
    <3>5. QED
      BY <1>5, <3>1, <3>2, <3>3, <3>4
  <2>2. QED
    BY <2>1
<1>9. \A e \in 0 .. cnt - 1 : DepsOf(e)' = DepsOf(e)
  <2>1. ASSUME NEW e \in 0 .. cnt - 1, NEW d
        PROVE  d \in DepsOf(e)' <=> d \in DepsOf(e)
    <3>1. d \in DepsOf(e)' <=> \/ d \in Ids /\ e \in rev'[d]
                               \/ d = NoneDep /\ e \in DOMAIN pending' /\ d \in pending'[e].deps
      BY DEF DepsOf
    <3>2. e # cnt
      BY <1>1
    <3>3. d \in Ids => (e \in rev'[d] <=> e \in rev[d])
      BY <1>3, <3>2
    <3>4. (e \in DOMAIN pending' /\ d \in pending'[e].deps) <=> (e \in DOMAIN pending /\ d \in pending[e].deps)
      BY <1>4, <3>2
    <3>5. QED
      BY <3>1, <3>3, <3>4, DepsOfIn
  <2>2. QED
    BY <2>1
<1>10. 0 .. cnt' - 1 = (0 .. cnt - 1) \cup {c}
  BY <1>1, <1>2, <1>7
<1>11. DepsMap' = [x \in (DOMAIN DepsMap) \cup {c} |-> IF x = c THEN deps ELSE DepsMap[x]]
  <2>1. DepsMap' = [x \in (0 .. cnt - 1) \cup {c} |-> DepsOf(x)']
    BY <1>10 DEF DepsMap
  <2>2. \A x \in (0 .. cnt - 1) \cup {c} : DepsOf(x)' = IF x = c THEN deps ELSE DepsMap[x]
    BY <1>1, <1>7, <1>8, <1>9 DEF DepsMap
  <2>3. DOMAIN DepsMap = 0 .. cnt - 1
    BY DEF DepsMap
  <2>4. QED
    BY <2>1, <2>2, <2>3
<1>12. c \in Ids \ DOMAIN DepsMap /\ deps \subseteq DOMAIN DepsMap \cup {NoneDep}
  BY <1>1, <1>7 DEF DepsMap
<1>13. Graph!AddEvent(c, deps)
  BY <1>2, <1>11, <1>12 DEF Graph!AddEvent, Graph!Added, DepsMap
<1>14. deps \in SUBSET (Graph!Added \cup {NoneDep})
  BY <1>12 DEF Graph!Added, DepsMap
<1>15. QED
  BY <1>13, <1>14 DEF Graph!GraphNext

\* add_dependency adds an edge to an event that has still something to wait for.
LEMMA LinkRefines ==
  ASSUME GraphInv, NEW id \in DOMAIN pending, NEW dep \in DOMAIN pending, AddDependency(id, dep)
  PROVE  [Graph!GraphNext]_Graph!graphVars
<1>1. /\ TypeOK /\ PendingAdded /\ KnownInv /\ NoLostWakeup /\ cnt \in Nat
      /\ rev \in [Ids -> SUBSET Ids] /\ NoneDep \notin Nat
  BY ConstantsAssumption DEF GraphInv, CallInv, QueueInv, TypeOK
<1>2. /\ id \in 0 .. cnt - 1 /\ dep \in 0 .. cnt - 1 /\ id \in Ids /\ dep \in Ids
      /\ pending[id] \in PendingRecords
  BY <1>1, PartialAt DEF PendingAdded, TypeOK
<1>3. dep \notin DOMAIN ended /\ dep # id
  BY <1>1 DEF KnownInv, Known, AddDependency, Independent
<1>4. /\ rev' = [rev EXCEPT ![dep] = @ \cup {id}]
      /\ pending' = [pending EXCEPT ![id].deps = @ \cup {dep}]
      /\ UNCHANGED <<ended, cnt>>
  BY <1>3 DEF AddDependency
<1>5. /\ DOMAIN pending' = DOMAIN pending
      /\ \A p \in DOMAIN pending : p # id => pending'[p] = pending[p]
      /\ pending'[id].deps = pending[id].deps \cup {dep}
  BY <1>2, <1>4 DEF PendingRecords
<1>6. ASSUME NEW e, NEW d
      PROVE  d \in DepsOf(e)' <=> d \in DepsOf(e) \/ (e = id /\ d = dep)
  <2>1. d \in DepsOf(e)' <=> \/ d \in Ids /\ e \in rev'[d]
                             \/ d = NoneDep /\ e \in DOMAIN pending' /\ d \in pending'[e].deps
    BY DEF DepsOf
  <2>2. d \in Ids => (e \in rev'[d] <=> e \in rev[d] \/ (e = id /\ d = dep))
    BY <1>1, <1>4
  <2>3. d = NoneDep => d # dep
    BY <1>1, <1>2
  <2>4. d = NoneDep => ((e \in DOMAIN pending' /\ d \in pending'[e].deps)
                          <=> (e \in DOMAIN pending /\ d \in pending[e].deps))
    BY <1>5, <2>3
  <2>5. QED
    BY <1>2, <2>1, <2>2, <2>4, DepsOfIn
<1>7. \A e : DepsOf(e)' = IF e = id THEN DepsOf(e) \cup {dep} ELSE DepsOf(e)
  BY <1>6
<1>8. DepsMap' = [DepsMap EXCEPT ![id] = @ \cup {dep}]
  <2>1. DepsMap' = [e \in 0 .. cnt - 1 |-> DepsOf(e)']
    BY <1>4 DEF DepsMap
  <2>2. QED
    BY <1>2, <1>7, <2>1 DEF DepsMap
<1>9. ~ (DepsMap[id] \subseteq DOMAIN ended)
  <2>1. PICK d : d \in pending[id].deps
    BY <1>1 DEF NoLostWakeup
  <2>2. d \notin DOMAIN ended
    <3>1. DOMAIN ended \subseteq Ids /\ NoneDep \notin Ids
      BY <1>1 DEF TypeOK, Partial, Ids
    <3>2. QED
      BY <1>1, <2>1, <3>1 DEF NoLostWakeup
  <2>3. d \in DepsOf(id)
    <3>1. CASE d = NoneDep
      BY <2>1, <3>1, DepsOfIn
    <3>2. CASE d # NoneDep
      <4>1. d \in Ids
        BY <1>2, <2>1, <3>2 DEF PendingRecords
      <4>2. id \in rev[d]
        BY <1>1, <2>1, <3>2 DEF NoLostWakeup
      <4>3. QED
        BY <4>1, <4>2, DepsOfIn
    <3>3. QED
      BY <3>1, <3>2
  <2>4. QED
    BY <1>2, <2>2, <2>3 DEF DepsMap
<1>10. DOMAIN DepsMap = 0 .. cnt - 1
  BY DEF DepsMap
<1>11. Graph!AddEdge(id, dep)
  BY <1>2, <1>3, <1>4, <1>8, <1>9, <1>10 DEF Graph!AddEdge, Graph!Ready, Graph!Added, DepsMap
<1>12. id \in Graph!Added /\ dep \in Graph!Added
  BY <1>2, <1>10 DEF Graph!Added, DepsMap
<1>13. QED
  BY <1>11, <1>12 DEF Graph!GraphNext

\* remove_none_dependency takes None from the dependencies.
LEMMA ReleaseRefines ==
  ASSUME GraphInv, NEW id \in DOMAIN pending, RemoveNoneDependency(id)
  PROVE  [Graph!GraphNext]_Graph!graphVars
<1>1. /\ TypeOK /\ PendingAdded /\ cnt \in Nat /\ NoneDep \notin Nat
  BY ConstantsAssumption DEF GraphInv, CallInv, QueueInv, TypeOK
<1>2. id \in 0 .. cnt - 1 /\ pending[id] \in PendingRecords /\ NoneDep \in pending[id].deps
  BY <1>1, PartialAt DEF PendingAdded, TypeOK, RemoveNoneDependency
<1>3. UNCHANGED <<rev, cnt, ended>>
  BY DEF RemoveNoneDependency
<1>4. ASSUME NEW e
      PROVE  (e \in DOMAIN pending' /\ NoneDep \in pending'[e].deps)
               <=> (e # id /\ e \in DOMAIN pending /\ NoneDep \in pending[e].deps)
  <2>1. CASE pending[id].deps = {NoneDep}
    BY <2>1 DEF RemoveNoneDependency, Without
  <2>2. CASE pending[id].deps # {NoneDep}
    <3>1. pending' = [pending EXCEPT ![id].deps = @ \ {NoneDep}]
      BY <2>2 DEF RemoveNoneDependency
    <3>2. /\ DOMAIN pending' = DOMAIN pending
          /\ pending'[id].deps = pending[id].deps \ {NoneDep}
          /\ \A p \in DOMAIN pending : p # id => pending'[p] = pending[p]
      BY <1>2, <3>1 DEF PendingRecords
    <3>3. QED
      BY <3>2
  <2>3. QED
    BY <2>1, <2>2
<1>5. ASSUME NEW e, NEW d
      PROVE  d \in DepsOf(e)' <=> d \in DepsOf(e) /\ ~ (e = id /\ d = NoneDep)
  <2>1. d \in DepsOf(e)' <=> \/ d \in Ids /\ e \in rev'[d]
                             \/ d = NoneDep /\ e \in DOMAIN pending' /\ d \in pending'[e].deps
    BY DEF DepsOf
  <2>2. d \in Ids => d # NoneDep
    BY <1>1 DEF Ids
  <2>3. QED
    BY <1>3, <1>4, <2>1, <2>2, DepsOfIn
<1>6. \A e : DepsOf(e)' = IF e = id THEN DepsOf(e) \ {NoneDep} ELSE DepsOf(e)
  BY <1>5
<1>7. DepsMap' = [DepsMap EXCEPT ![id] = @ \ {NoneDep}]
  <2>1. DepsMap' = [e \in 0 .. cnt - 1 |-> DepsOf(e)']
    BY <1>3 DEF DepsMap
  <2>2. QED
    BY <1>2, <1>6, <2>1 DEF DepsMap
<1>8. NoneDep \in DepsMap[id] /\ id \in DOMAIN DepsMap
  BY <1>2, DepsOfIn DEF DepsMap
<1>9. Graph!Release(id)
  BY <1>3, <1>7, <1>8 DEF Graph!Release, Graph!Added, DepsMap
<1>10. id \in Graph!Added
  BY <1>8 DEF Graph!Added, DepsMap
<1>11. QED
  BY <1>9, <1>10 DEF Graph!GraphNext

\* Every step of the queue is a step of the graph or leaves it alone.
LEMMA NextRefines ==
  ASSUME GraphInv, [AnyNext]_vars
  PROVE  [Graph!GraphNext]_Graph!graphVars
<1>1. CallInv
  BY DEF GraphInv
<1>2. CASE UNCHANGED <<pending, rev, cnt, ended>>
  <2>1. \A e : DepsOf(e)' = DepsOf(e)
    BY <1>2 DEF DepsOf
  <2>2. DepsMap' = DepsMap
    BY <1>2, <2>1 DEF DepsMap
  <2>3. QED
    BY <1>2, <2>2 DEF Graph!graphVars, DepsMap
<1>3. QED
  BY <1>1, <1>2, EndsOrNot, EndEventRefines, AddRefines, LinkRefines, ReleaseRefines

\* The queue implements DepGraph: each call that adds an event, links two or
\* releases a barrier is that operation of the graph, and end_event ends an
\* event of the graph only when all its dependencies are over.  Running the
\* network, rolling it back and replaying ends is invisible.
THEOREM ImplementsGraph == Spec => ImplementsDepGraph
<1>1. ASSUME Init
      PROVE  Graph!GraphInit
  <2>1. cnt = 0 /\ ended = << >>
    BY <1>1 DEF Init
  <2>2. 0 .. cnt - 1 = {}
    BY <2>1
  <2>3. DepsMap = << >> /\ DOMAIN ended = {}
    BY <2>1, <2>2 DEF DepsMap
  <2>4. QED
    BY <2>3 DEF Graph!GraphInit, DepsMap
<1>2. GraphInv /\ [Next]_vars => [Graph!GraphNext]_Graph!graphVars
  BY NextRefines, NextIsAny
<1>3. QED
  BY <1>1, <1>2, GraphInvariant, PTL DEF Spec, ImplementsDepGraph, Graph!GraphSpec

-----------------------------------------------------------------------------
(***************************************************************************)
(* The event queue and the network agree, for any bound on the events, any *)
(* times, durations and completion times: execute finds what it unwraps, a *)
(* completed flow has one end, the one the network gave it last, an event  *)
(* starts no earlier than its dependencies end, and an empty queue leaves  *)
(* only what waits for a barrier.                                          *)
(*                                                                         *)
(* The invariant says of each event where it is: an item still to push, a  *)
(* point, a computation, or a flow with its Start, its End and its record  *)
(* in the network, and what a rollback leaves behind of a flow it revives: *)
(* an End still in the queue or an end already recorded, while the loop of *)
(* that rollback waits for the flow to complete again.                     *)
(***************************************************************************)

-----------------------------------------------------------------------------
(***************************************************************************)
(* Where an event is.                                                      *)
(***************************************************************************)

Queued(k, e) == <<k, e>> \in DOMAIN queue
QTime(k, e)  == queue[<<k, e>>][1]

\* The flows of the network, unfinished or not, and when they started.
NetIds     == DOMAIN flows \cup DOMAIN retired
FlowTs(f)  == IF f \in DOMAIN flows THEN flows[f] ELSE retired[f].ts
StartUs(f) == ToUs(FlowTs(f))

\* Event e has not left push_event.
Untouched(e) ==
  /\ ~ Queued("Start", e) /\ ~ Queued("End", e) /\ ~ Queued("Point", e)
  /\ e \notin DOMAIN started /\ e \notin DOMAIN notStarted

\* What is still to push is nowhere else, except for the Ends of flows, which
\* have started, completed, and not ended.
ItemsFresh ==
  \A x \in Items :
    /\ x.act # Finish => /\ Untouched(x.id)
                         /\ x.id \notin DOMAIN ended /\ x.id \notin NetIds
                         /\ \A l \in Loops : l.id # x.id
    /\ x.act = Finish => /\ x.id \in DOMAIN retired /\ x.time = ToUs(retired[x.id].end)
                         /\ x.id \in DOMAIN started /\ x.id \notin DOMAIN ended
                         /\ ~ Queued("End", x.id)

\* The flow whose push started a rollback is in the network only.
LoopsFresh ==
  \A l \in Loops :
    /\ Untouched(l.id) /\ l.id \in NetIds /\ l.id \notin l.wait
    /\ FlowTs(l.id) = l.time * NsPerUs

\* A point in the queue is nowhere else.
PointsAlone ==
  \A e \in Ids : Queued("Point", e) =>
    /\ ~ Queued("Start", e) /\ ~ Queued("End", e)
    /\ e \notin DOMAIN started /\ e \notin DOMAIN notStarted
    /\ e \notin DOMAIN ended /\ e \notin NetIds

\* A Start in the queue is that of an action not yet started: a flow's is at the
\* time the network knows, a computation has no End and has not ended.
StartsMatch ==
  \A e \in Ids :
    /\ Queued("Start", e) <=> e \in DOMAIN notStarted
    /\ e \in DOMAIN notStarted /\ e \in NetIds =>
         notStarted[e].kind = "comm" /\ QTime("Start", e) = StartUs(e)
    /\ e \in DOMAIN notStarted /\ e \notin NetIds =>
         /\ notStarted[e].kind # "comm" /\ e \notin DOMAIN started /\ e \notin DOMAIN ended
         /\ ~ Queued("End", e)

\* A started computation has its End in the queue, and has not ended.
CompsMatch ==
  \A e \in Ids \ NetIds :
    /\ e \in DOMAIN started <=> Queued("End", e)
    /\ e \in DOMAIN started => e \notin DOMAIN ended

\* A flow of the network is started, to be started, ended or just being pushed;
\* its End finds its start, at the time the network knows.
FlowsMatch ==
  /\ DOMAIN flows \cap DOMAIN retired = {}
  /\ \A f \in NetIds :
       /\ \/ Queued("Start", f) \/ f \in DOMAIN started \/ f \in DOMAIN ended
          \/ \E l \in Loops : l.id = f
       /\ f \in DOMAIN started => started[f] = StartUs(f)
       /\ f \in DOMAIN ended => ended[f][1] = StartUs(f)
       /\ Queued("End", f) => f \in DOMAIN started
       /\ Queued("End", f) /\ f \in DOMAIN ended => f \in revived

\* An unfinished flow that has an end is one that the loop waits for; it has
\* been revived if the end is recorded.
RevivedWaited ==
  \A f \in DOMAIN flows :
    /\ Queued("End", f) \/ f \in DOMAIN ended => \E l \in Loops : f \in l.wait
    /\ f \in DOMAIN ended => f \in revived

\* The completed flows the loop has still to handle are those the network has
\* just completed, with their starts.
TodoMatch ==
  \A r \in Todo :
    /\ r.id \in DOMAIN retired /\ retired[r.id].ts = r.ts /\ retired[r.id].end = nts
    /\ r.id \in DOMAIN ended => r.id \in revived
    /\ (\E l \in Loops : l.id = r.id) => r.id \notin DOMAIN ended

\* The end of a completed flow is in the queue, or else recorded.
Settled(f) ==
  /\ Queued("End", f) => QTime("End", f) = ToUs(retired[f].end)
  /\ ~ Queued("End", f) => f \in DOMAIN ended /\ ended[f][2] = ToUs(retired[f].end)

\* A completed flow has its end, or its End is still to be pushed or handled.
RetiredSettled ==
  \A f \in DOMAIN retired :
    \/ \E x \in Items : x.act = Finish /\ x.id = f
    \/ \E r \in Todo : r.id = f
    \/ Settled(f)

\* Every event that was added is pending or somewhere in the queue.
Located ==
  \A e \in 0 .. cnt - 1 :
    \/ e \in DOMAIN pending \/ e \in DOMAIN ended \/ e \in NetIds
    \/ e \in DOMAIN started \/ \E x \in Items : x.id = e
    \/ Queued("Point", e) \/ Queued("Start", e)

StageInv ==
  /\ ItemsFresh /\ LoopsFresh /\ PointsAlone /\ StartsMatch /\ CompsMatch /\ FlowsMatch
  /\ RevivedWaited /\ TodoMatch /\ RetiredSettled /\ Located

NetInv == GraphInv /\ StageInv

-----------------------------------------------------------------------------
(***************************************************************************)
(* The operators.                                                          *)
(***************************************************************************)

\* Microseconds to ticks and back is exact.
LEMMA ToUsExact ==
  ASSUME NEW k \in Nat
  PROVE  ToUs(k * NsPerUs) = k
<1>1. NsPerUs \in Nat /\ NsPerUs > 0
  BY ConstantsAssumption
<1>2. \A n \in Nat : n > 0 => (k * n) \div n = k
  OBVIOUS
<1>3. QED
  BY <1>1, <1>2 DEF ToUs

\* What a put or a removal does to the queue.
LEMMA QueuePut ==
  ASSUME NEW k, NEW e, NEW time, NEW n, queue' = Put(queue, <<k, e>>, <<time, n>>)
  PROVE  /\ \A j, f : Queued(j, f)' <=> Queued(j, f) \/ (j = k /\ f = e)
         /\ QTime(k, e)' = time
         /\ \A j, f : Queued(j, f) /\ ~ (j = k /\ f = e) => QTime(j, f)' = QTime(j, f)
BY DEF Put, Queued, QTime

\* Taking an event from the queue leaves the others.
LEMMA QueueTake ==
  ASSUME NEW k, NEW e, queue' = Without(queue, {<<k, e>>})
  PROVE  /\ \A j, f : Queued(j, f)' <=> Queued(j, f) /\ ~ (j = k /\ f = e)
         /\ \A j, f : Queued(j, f)' => QTime(j, f)' = QTime(j, f)
BY DEF Without, Queued, QTime

\* A queue that is left alone.
LEMMA QueueSame ==
  ASSUME UNCHANGED queue
  PROVE  \A j, f : (Queued(j, f)' <=> Queued(j, f)) /\ QTime(j, f)' = QTime(j, f)
BY DEF Queued, QTime

\* A network that is left alone.
LEMMA NetSame ==
  ASSUME UNCHANGED <<flows, retired>>
  PROVE  NetIds' = NetIds /\ \A f : FlowTs(f)' = FlowTs(f) /\ StartUs(f)' = StartUs(f)
BY DEF NetIds, FlowTs, StartUs

\* A run of the network completes flows and keeps their starts.
LEMMA NetRunMoves ==
  ASSUME NEW t, NEW done \in SUBSET DOMAIN flows, NetRun(t, done),
         DOMAIN flows \cap DOMAIN retired = {}
  PROVE  /\ nts' = t
         /\ DOMAIN flows' = DOMAIN flows \ done /\ DOMAIN retired' = DOMAIN retired \cup done
         /\ NetIds' = NetIds
         /\ \A f \in NetIds : FlowTs(f)' = FlowTs(f) /\ StartUs(f)' = StartUs(f)
         /\ \A f \in done : retired'[f].ts = flows[f] /\ retired'[f].end = t
         /\ \A f \in DOMAIN retired : retired'[f] = retired[f]
<1>1. /\ nts' = t
      /\ DOMAIN flows' = DOMAIN flows \ done /\ DOMAIN retired' = DOMAIN retired \cup done
      /\ \A f \in DOMAIN flows' : flows'[f] = flows[f]
      /\ \A f \in done : retired'[f].ts = flows[f] /\ retired'[f].end = t
      /\ \A f \in DOMAIN retired : retired'[f] = retired[f]
  BY DEF NetRun, Without
<1>2. NetIds' = NetIds
  BY <1>1 DEF NetIds
<1>3. \A f \in NetIds : FlowTs(f)' = FlowTs(f)
  BY <1>1 DEF FlowTs, NetIds
<1>4. QED
  BY <1>1, <1>2, <1>3 DEF StartUs

\* A flow arrives: it is added to the network, others may be revived.
LEMMA NetArriveMoves ==
  ASSUME NEW id, NEW ts, NetArrive(id, ts), id \notin NetIds,
         DOMAIN flows \cap DOMAIN retired = {}
  PROVE  LET back == IF MustRollback(ts) THEN Revived(ts) ELSE {}
         IN  /\ back \subseteq DOMAIN retired /\ id \notin back
             /\ DOMAIN flows' = DOMAIN flows \cup back \cup {id}
             /\ DOMAIN retired' = DOMAIN retired \ back
             /\ NetIds' = NetIds \cup {id} /\ FlowTs(id)' = ts
             /\ \A f \in NetIds : FlowTs(f)' = FlowTs(f) /\ StartUs(f)' = StartUs(f)
             /\ \A f \in DOMAIN retired' : retired'[f] = retired[f]
<1> DEFINE back == IF MustRollback(ts) THEN Revived(ts) ELSE {}
<1>1. back \subseteq DOMAIN retired /\ id \notin back
  BY DEF Revived, NetIds
<1>2. /\ DOMAIN flows' = DOMAIN flows \cup back \cup {id}
      /\ DOMAIN retired' = DOMAIN retired \ back
      /\ flows'[id] = ts
      /\ \A f \in back : flows'[f] = retired[f].ts
      /\ \A f \in DOMAIN flows : flows'[f] = flows[f]
      /\ \A f \in DOMAIN retired' : retired'[f] = retired[f]
  <2>1. CASE MustRollback(ts)
    BY <2>1 DEF NetArrive, Without, Revived, NetIds
  <2>2. CASE ~ MustRollback(ts)
    BY <2>2 DEF NetArrive, Put, NetIds
  <2>3. QED
    BY <2>1, <2>2
<1> HIDE DEF back
<1>3. NetIds' = NetIds \cup {id} /\ FlowTs(id)' = ts
  BY <1>1, <1>2 DEF NetIds, FlowTs
<1>4. \A f \in NetIds : FlowTs(f)' = FlowTs(f)
  BY <1>1, <1>2 DEF NetIds, FlowTs
<1>5. QED
  BY <1>1, <1>2, <1>3, <1>4 DEF StartUs, back

\* What is not known, being pending or not added, is nowhere.
LEMMA NotKnown ==
  ASSUME KnownInv, NEW e, e \notin Known
  PROVE  /\ Untouched(e) /\ e \notin DOMAIN ended /\ e \notin NetIds
         /\ \A l \in Loops : l.id # e
         /\ \A x \in Items : x.id # e
         /\ \A r \in Todo : r.id # e
<1>1. \A k : ~ Queued(k, e)
  <2>1. ASSUME NEW k, Queued(k, e)
        PROVE  FALSE
    <3>1. <<k, e>> \in DOMAIN queue /\ <<k, e>>[2] = e
      BY <2>1 DEF Queued
    <3>2. QED
      BY <3>1 DEF KnownInv
  <2>2. QED
    BY <2>1
<1>2. QED
  BY <1>1 DEF KnownInv, Untouched, NetIds

\* What end_event frees it pushes.
LEMMA FreedAreItems ==
  ASSUME NEW id, NEW end, NEW p \in Freed(id)
  PROVE  \E x \in FreedItems(id, end) : x.id = p
<1>1. /\ [id |-> p, act |-> pending[p].act, time |-> PushTime(p, end)] \in FreedItems(id, end)
      /\ [id |-> p, act |-> pending[p].act, time |-> PushTime(p, end)].id = p
  BY DEF FreedItems
<1>2. QED
  BY <1>1

\* The types the following proofs need.
LEMMA NetTypes ==
  ASSUME NetInv
  PROVE  /\ TypeOK /\ CallInv /\ KnownInv /\ LoopWait /\ StageInv
         /\ Known \subseteq Ids /\ cnt \in Nat /\ nts \in Nat
         /\ DOMAIN started \subseteq Ids /\ DOMAIN notStarted \subseteq Ids /\ DOMAIN ended \subseteq Ids
         /\ NetIds \subseteq Ids
         /\ \A x \in Items : x \in PushItems /\ x.id \in Ids /\ x.time \in Nat /\ x.act \in Actions \cup {Finish}
         /\ \A l \in Loops : l.id \in Ids /\ l.time \in Nat
         /\ \A r \in Todo : r.id \in Ids /\ r.ts \in Nat
         /\ \A f \in DOMAIN flows : flows[f] \in Nat
         /\ \A f \in DOMAIN retired : retired[f].ts \in Nat /\ retired[f].end \in Nat
         /\ \A f \in NetIds : FlowTs(f) \in Nat /\ StartUs(f) \in Nat
<1>1. TypeOK /\ CallInv /\ KnownInv /\ LoopWait /\ StageInv /\ stack \in Seq(Frames)
  BY DEF NetInv, GraphInv, CallInv, QueueInv, TypeOK
<1>2. cnt \in Nat /\ nts \in Nat /\ Known \subseteq Ids
  BY <1>1, ConstantsAssumption DEF TypeOK, Known, Ids
<1>3. /\ DOMAIN started \subseteq Ids /\ DOMAIN notStarted \subseteq Ids /\ DOMAIN ended \subseteq Ids
      /\ NetIds \subseteq Ids
  BY <1>1 DEF TypeOK, Partial, NetIds
<1>4. /\ \A x \in Items : x \in PushItems
      /\ \A l \in Loops : l \in [op : {"loop"}, id : Ids, time : Nat, n : Nat, wait : SUBSET Ids]
      /\ \A r \in Todo : r \in [id : Ids, ts : Nat]
  BY <1>1, ViewTypes DEF Items, Loops, Todo
<1>5. \A x \in Items : x.id \in Ids /\ x.time \in Nat /\ x.act \in Actions \cup {Finish}
  BY <1>4 DEF PushItems
<1>6. /\ \A l \in Loops : l.id \in Ids /\ l.time \in Nat
      /\ \A r \in Todo : r.id \in Ids /\ r.ts \in Nat
  BY <1>4
<1>7. \A f \in DOMAIN flows : flows[f] \in Nat
  BY <1>1 DEF TypeOK, Partial
<1>8. \A f \in DOMAIN retired : retired[f].ts \in Nat /\ retired[f].end \in Nat
  <2>1. \A f \in DOMAIN retired : retired[f] \in [ts : Nat, end : Nat]
    BY <1>1 DEF TypeOK, Partial
  <2>2. QED
    BY <2>1
<1>9. \A f \in NetIds : FlowTs(f) \in Nat /\ StartUs(f) \in Nat
  <2>1. \A f \in NetIds : FlowTs(f) \in Nat
    BY <1>7, <1>8 DEF FlowTs, NetIds
  <2>2. QED
    BY <2>1, TicksNat DEF StartUs
<1>10. QED
  BY <1>1, <1>2, <1>3, <1>4, <1>5, <1>6, <1>7, <1>8, <1>9

-----------------------------------------------------------------------------
(***************************************************************************)
(* push_event.                                                             *)
(***************************************************************************)

\* A point enters the queue.
LEMMA PushPointStage ==
  ASSUME NetInv, NEW x \in Items, x.act = Point,
         queue' = Put(queue, <<"Point", x.id>>, <<x.time, qcnt>>),
         UNCHANGED <<pending, started, ended, cnt, notStarted, nts, flows, retired, revived>>,
         Items' = Items \ {x}, Todo' = Todo, Loops' = Loops,
         \A y \in Items : y.id = x.id => y = x
  PROVE  StageInv'
<1>1. StageInv /\ x.id \in Ids
  BY NetTypes
<1>2. /\ \A j, f : Queued(j, f)' <=> Queued(j, f) \/ (j = "Point" /\ f = x.id)
      /\ \A j, f : Queued(j, f) /\ ~ (j = "Point" /\ f = x.id) => QTime(j, f)' = QTime(j, f)
  BY QueuePut
<1>3. NetIds' = NetIds /\ \A f : FlowTs(f)' = FlowTs(f) /\ StartUs(f)' = StartUs(f)
  BY NetSame
<1>4. x.act # Finish
  BY DEF Point, Finish
<1>5. /\ Untouched(x.id) /\ x.id \notin DOMAIN ended /\ x.id \notin NetIds
      /\ \A l \in Loops : l.id # x.id
  BY <1>1, <1>4 DEF StageInv, ItemsFresh
<1>6. \A f : f # x.id => Untouched(f)' = Untouched(f)
  BY <1>2 DEF Untouched
<1>7. ItemsFresh'
  <2>1. ItemsFresh
    BY <1>1 DEF StageInv
  <2>2. QED
    BY <1>2, <1>3, <1>6, <2>1 DEF ItemsFresh
<1>8. LoopsFresh'
  <2>1. LoopsFresh
    BY <1>1 DEF StageInv
  <2>2. QED
    BY <1>3, <1>5, <1>6, <2>1 DEF LoopsFresh
<1>9. PointsAlone'
  <2>1. PointsAlone
    BY <1>1 DEF StageInv
  <2>2. QED
    BY <1>2, <1>3, <1>5, <2>1 DEF PointsAlone, Untouched
<1>10. StartsMatch'
  <2>1. StartsMatch
    BY <1>1 DEF StageInv
  <2>2. QED
    BY <1>2, <1>3, <2>1 DEF StartsMatch
<1>11. CompsMatch' /\ FlowsMatch' /\ RevivedWaited' /\ TodoMatch'
  <2>1. CompsMatch /\ FlowsMatch /\ RevivedWaited /\ TodoMatch
    BY <1>1 DEF StageInv
  <2>2. CompsMatch'
    BY <1>2, <1>3, <2>1 DEF CompsMatch
  <2>3. FlowsMatch'
    BY <1>2, <1>3, <2>1 DEF FlowsMatch
  <2>4. RevivedWaited'
    BY <1>2, <2>1 DEF RevivedWaited
  <2>5. TodoMatch'
    BY <2>1 DEF TodoMatch
  <2>6. QED
    BY <2>2, <2>3, <2>4, <2>5
<1>12. RetiredSettled'
  <2>1. RetiredSettled
    BY <1>1 DEF StageInv
  <2>2. \A f : Settled(f) => Settled(f)'
    BY <1>2 DEF Settled
  <2>3. QED
    BY <1>4, <2>1, <2>2 DEF RetiredSettled
<1>13. Located'
  <2>1. Located
    BY <1>1 DEF StageInv
  <2>2. QED
    BY <1>2, <1>3, <2>1 DEF Located
<1>14. QED
  BY <1>7, <1>8, <1>9, <1>10, <1>11, <1>12, <1>13 DEF StageInv

\* The End of a flow that try_proceed_netsim completed enters the queue.
LEMMA PushEndStage ==
  ASSUME NetInv, NEW x \in Items, x.act = Finish,
         queue' = Put(queue, <<"End", x.id>>, <<x.time, qcnt>>),
         UNCHANGED <<pending, started, ended, cnt, notStarted, nts, flows, retired, revived>>,
         Items' = Items \ {x}, Todo' = Todo, Loops' = Loops, Loops = {}, Todo = {},
         \A y \in Items : y.id = x.id => y = x,
         \A y \in Items : y.act = Finish
  PROVE  StageInv'
<1>1. StageInv /\ x.id \in Ids
  BY NetTypes
<1>2. /\ \A j, f : Queued(j, f)' <=> Queued(j, f) \/ (j = "End" /\ f = x.id)
      /\ QTime("End", x.id)' = x.time
      /\ \A j, f : Queued(j, f) /\ ~ (j = "End" /\ f = x.id) => QTime(j, f)' = QTime(j, f)
  BY QueuePut
<1>3. NetIds' = NetIds /\ \A f : FlowTs(f)' = FlowTs(f) /\ StartUs(f)' = StartUs(f)
  BY NetSame
<1>4. /\ x.id \in DOMAIN retired /\ x.time = ToUs(retired[x.id].end)
      /\ x.id \in DOMAIN started /\ x.id \notin DOMAIN ended
      /\ ~ Queued("End", x.id) /\ x.id \in NetIds
  BY <1>1 DEF StageInv, ItemsFresh, NetIds
<1>5. x.id \notin DOMAIN flows
  BY <1>1, <1>4 DEF StageInv, FlowsMatch
<1>6. ItemsFresh' /\ LoopsFresh' /\ TodoMatch'
  <2>1. ItemsFresh
    BY <1>1 DEF StageInv
  <2>2. ItemsFresh'
    BY <1>2, <2>1 DEF ItemsFresh
  <2>3. QED
    BY <2>2 DEF LoopsFresh, TodoMatch
<1>7. PointsAlone'
  <2>1. PointsAlone
    BY <1>1 DEF StageInv
  <2>2. QED
    BY <1>2, <1>3, <1>4, <2>1 DEF PointsAlone
<1>8. StartsMatch' /\ CompsMatch'
  <2>1. StartsMatch /\ CompsMatch
    BY <1>1 DEF StageInv
  <2>2. StartsMatch'
    BY <1>2, <1>3, <1>4, <2>1 DEF StartsMatch
  <2>3. CompsMatch'
    BY <1>2, <1>3, <1>4, <2>1 DEF CompsMatch
  <2>4. QED
    BY <2>2, <2>3
<1>9. FlowsMatch' /\ RevivedWaited'
  <2>1. FlowsMatch /\ RevivedWaited
    BY <1>1 DEF StageInv
  <2>2. FlowsMatch'
    BY <1>2, <1>3, <1>4, <2>1 DEF FlowsMatch
  <2>3. RevivedWaited'
    BY <1>2, <1>5, <2>1 DEF RevivedWaited
  <2>4. QED
    BY <2>2, <2>3
<1>10. RetiredSettled'
  <2>1. RetiredSettled
    BY <1>1 DEF StageInv
  <2>2. Settled(x.id)'
    BY <1>2, <1>4 DEF Settled
  <2>3. \A f : f # x.id /\ Settled(f) => Settled(f)'
    BY <1>2 DEF Settled
  <2>4. QED
    BY <2>1, <2>2, <2>3 DEF RetiredSettled
<1>11. Located'
  <2>1. Located
    BY <1>1 DEF StageInv
  <2>2. QED
    BY <1>2, <1>3, <1>4, <2>1 DEF Located
<1>12. QED
  BY <1>6, <1>7, <1>8, <1>9, <1>10, <1>11 DEF StageInv

\* A computation enters the queue.
LEMMA PushComputationStage ==
  ASSUME NetInv, NEW x \in Items, x.act.kind = "comp",
         EnqueueStart(x.id, x.act, x.time, qcnt),
         UNCHANGED <<pending, started, ended, cnt, nts, flows, retired, revived>>,
         Items' = Items \ {x}, Todo' = Todo, Loops' = Loops,
         \A y \in Items : y.id = x.id => y = x
  PROVE  StageInv'
<1>1. StageInv /\ x.id \in Ids
  BY NetTypes
<1>2. /\ \A j, f : Queued(j, f)' <=> Queued(j, f) \/ (j = "Start" /\ f = x.id)
      /\ \A j, f : Queued(j, f) /\ ~ (j = "Start" /\ f = x.id) => QTime(j, f)' = QTime(j, f)
  BY QueuePut DEF EnqueueStart
<1>3. NetIds' = NetIds /\ \A f : FlowTs(f)' = FlowTs(f) /\ StartUs(f)' = StartUs(f)
  BY NetSame
<1>4. /\ DOMAIN notStarted' = DOMAIN notStarted \cup {x.id}
      /\ notStarted'[x.id] = x.act
      /\ \A f \in DOMAIN notStarted : f # x.id => notStarted'[f] = notStarted[f]
  BY DEF EnqueueStart, Put
<1>5. x.act # Finish
  BY DEF Finish
<1>6. /\ Untouched(x.id) /\ x.id \notin DOMAIN ended /\ x.id \notin NetIds
      /\ \A l \in Loops : l.id # x.id
  BY <1>1, <1>5 DEF StageInv, ItemsFresh
<1>7. \A f : f # x.id => Untouched(f)' = Untouched(f)
  BY <1>2, <1>4 DEF Untouched
<1>8. ItemsFresh'
  <2>1. ItemsFresh
    BY <1>1 DEF StageInv
  <2>2. QED
    BY <1>2, <1>3, <1>7, <2>1 DEF ItemsFresh
<1>9. LoopsFresh'
  <2>1. LoopsFresh
    BY <1>1 DEF StageInv
  <2>2. QED
    BY <1>3, <1>6, <1>7, <2>1 DEF LoopsFresh
<1>10. PointsAlone'
  <2>1. PointsAlone
    BY <1>1 DEF StageInv
  <2>2. QED
    BY <1>2, <1>3, <1>4, <1>6, <2>1 DEF PointsAlone, Untouched
<1>11. StartsMatch'
  <2>1. StartsMatch
    BY <1>1 DEF StageInv
  <2>2. QED
    BY <1>2, <1>3, <1>4, <1>6, <2>1 DEF StartsMatch, Untouched
<1>12. CompsMatch' /\ FlowsMatch' /\ RevivedWaited' /\ TodoMatch'
  <2>1. CompsMatch /\ FlowsMatch /\ RevivedWaited /\ TodoMatch
    BY <1>1 DEF StageInv
  <2>2. CompsMatch'
    BY <1>2, <1>3, <2>1 DEF CompsMatch
  <2>3. FlowsMatch'
    BY <1>2, <1>3, <2>1 DEF FlowsMatch
  <2>4. RevivedWaited'
    BY <1>2, <2>1 DEF RevivedWaited
  <2>5. TodoMatch'
    BY <2>1 DEF TodoMatch
  <2>6. QED
    BY <2>2, <2>3, <2>4, <2>5
<1>13. RetiredSettled'
  <2>1. RetiredSettled
    BY <1>1 DEF StageInv
  <2>2. \A f : Settled(f) => Settled(f)'
    BY <1>2 DEF Settled
  <2>3. QED
    BY <1>5, <2>1, <2>2 DEF RetiredSettled
<1>14. Located'
  <2>1. Located
    BY <1>1 DEF StageInv
  <2>2. QED
    BY <1>2, <1>3, <2>1 DEF Located
<1>15. QED
  BY <1>8, <1>9, <1>10, <1>11, <1>12, <1>13, <1>14 DEF StageInv

\* A flow that is not in the network's past enters the network and the queue.
LEMMA PushFlowStage ==
  ASSUME NetInv, NEW x \in Items, x.act.kind = "comm",
         ~ MustRollback(x.time * NsPerUs), NetArrive(x.id, x.time * NsPerUs),
         EnqueueStart(x.id, x.act, x.time, qcnt),
         UNCHANGED <<pending, started, ended, cnt, revived>>,
         Items' = Items \ {x}, Todo' = Todo, Loops' = Loops,
         \A y \in Items : y.id = x.id => y = x
  PROVE  StageInv'
<1>1. StageInv /\ x.id \in Ids /\ x.time \in Nat /\ NetIds \subseteq Ids
  BY NetTypes
<1>2. /\ \A j, f : Queued(j, f)' <=> Queued(j, f) \/ (j = "Start" /\ f = x.id)
      /\ QTime("Start", x.id)' = x.time
      /\ \A j, f : Queued(j, f) /\ ~ (j = "Start" /\ f = x.id) => QTime(j, f)' = QTime(j, f)
  BY QueuePut DEF EnqueueStart
<1>3. x.act # Finish
  BY DEF Finish
<1>4. /\ Untouched(x.id) /\ x.id \notin DOMAIN ended /\ x.id \notin NetIds
      /\ \A l \in Loops : l.id # x.id
  BY <1>1, <1>3 DEF StageInv, ItemsFresh
<1>5. /\ DOMAIN flows' = DOMAIN flows \cup {x.id} /\ DOMAIN retired' = DOMAIN retired
      /\ NetIds' = NetIds \cup {x.id} /\ FlowTs(x.id)' = x.time * NsPerUs
      /\ \A f \in NetIds : FlowTs(f)' = FlowTs(f) /\ StartUs(f)' = StartUs(f)
      /\ \A f \in DOMAIN retired : retired'[f] = retired[f]
      /\ nts' = nts
  <2>1. DOMAIN flows \cap DOMAIN retired = {}
    BY <1>1 DEF StageInv, FlowsMatch
  <2>2. nts' = nts
    BY DEF NetArrive
  <2>3. QED
    BY <1>4, <2>1, <2>2, NetArriveMoves
<1>6. StartUs(x.id)' = x.time
  <2>1. StartUs(x.id)' = ToUs(FlowTs(x.id)')
    BY DEF StartUs, ToUs
  <2>2. QED
    BY <1>1, <1>5, <2>1, ToUsExact
<1>7. /\ DOMAIN notStarted' = DOMAIN notStarted \cup {x.id}
      /\ notStarted'[x.id] = x.act
      /\ \A f \in DOMAIN notStarted : f # x.id => notStarted'[f] = notStarted[f]
  BY DEF EnqueueStart, Put
<1>8. \A f : f # x.id => Untouched(f)' = Untouched(f)
  BY <1>2, <1>7 DEF Untouched
<1>9. ItemsFresh'
  <2>1. ItemsFresh
    BY <1>1 DEF StageInv
  <2>2. QED
    BY <1>2, <1>5, <1>8, <2>1 DEF ItemsFresh
<1>10. LoopsFresh'
  <2>1. LoopsFresh
    BY <1>1 DEF StageInv
  <2>2. QED
    BY <1>4, <1>5, <1>8, <2>1 DEF LoopsFresh
<1>11. PointsAlone'
  <2>1. PointsAlone
    BY <1>1 DEF StageInv
  <2>2. QED
    BY <1>2, <1>4, <1>5, <1>7, <2>1 DEF PointsAlone, Untouched
<1>12. StartsMatch'
  <2>1. StartsMatch
    BY <1>1 DEF StageInv
  <2>2. QED
    BY <1>2, <1>4, <1>5, <1>6, <1>7, <2>1 DEF StartsMatch, Untouched
<1>13. CompsMatch' /\ FlowsMatch' /\ RevivedWaited' /\ TodoMatch'
  <2>1. CompsMatch /\ FlowsMatch /\ RevivedWaited /\ TodoMatch
    BY <1>1 DEF StageInv
  <2>2. CompsMatch'
    BY <1>2, <1>5, <2>1 DEF CompsMatch
  <2>3. FlowsMatch'
    <3>1. DOMAIN flows' \cap DOMAIN retired' = {}
      BY <1>4, <1>5, <2>1 DEF FlowsMatch, NetIds
    <3>2. QED
      BY <1>2, <1>4, <1>5, <2>1, <3>1 DEF FlowsMatch, Untouched
  <2>4. RevivedWaited'
    BY <1>2, <1>4, <1>5, <2>1 DEF RevivedWaited, Untouched
  <2>5. TodoMatch'
    BY <1>5, <2>1 DEF TodoMatch
  <2>6. QED
    BY <2>2, <2>3, <2>4, <2>5
<1>14. RetiredSettled'
  <2>1. RetiredSettled
    BY <1>1 DEF StageInv
  <2>2. \A f \in DOMAIN retired : Settled(f) => Settled(f)'
    BY <1>2, <1>5 DEF Settled
  <2>3. QED
    BY <1>3, <1>5, <2>1, <2>2 DEF RetiredSettled
<1>15. Located'
  <2>1. Located
    BY <1>1 DEF StageInv
  <2>2. QED
    BY <1>2, <1>5, <2>1 DEF Located
<1>16. QED
  BY <1>9, <1>10, <1>11, <1>12, <1>13, <1>14, <1>15 DEF StageInv

\* A flow in the network's past: what completed after it is revived, with the
\* ends it has, and the loop waits for all of it.
LEMMA PushPastFlowStage ==
  ASSUME NetInv, NEW x \in Items, x.act.kind = "comm",
         MustRollback(x.time * NsPerUs), NetArrive(x.id, x.time * NsPerUs),
         UNCHANGED <<pending, queue, notStarted, started, ended, cnt>>,
         revived' = revived \cup (Revived(x.time * NsPerUs) \cap DOMAIN ended),
         Items' = Items \ {x}, Todo' = Todo, Loops = {}, Todo = {},
         Loops' = {[op |-> "loop", id |-> x.id, time |-> x.time, n |-> qcnt,
                    wait |-> Revived(x.time * NsPerUs)]},
         \A y \in Items : y.id = x.id => y = x,
         \A y \in Items : y.act # Finish
  PROVE  StageInv'
<1> DEFINE back == Revived(x.time * NsPerUs)
<1>1. StageInv /\ x.id \in Ids /\ x.time \in Nat /\ NetIds \subseteq Ids
  BY NetTypes
<1>2. \A j, f : (Queued(j, f)' <=> Queued(j, f)) /\ QTime(j, f)' = QTime(j, f)
  BY QueueSame
<1>3. x.act # Finish
  BY DEF Finish
<1>4. /\ Untouched(x.id) /\ x.id \notin DOMAIN ended /\ x.id \notin NetIds
  BY <1>1, <1>3 DEF StageInv, ItemsFresh
<1>5. /\ back \subseteq DOMAIN retired /\ x.id \notin back
      /\ DOMAIN flows' = DOMAIN flows \cup back \cup {x.id}
      /\ DOMAIN retired' = DOMAIN retired \ back
      /\ NetIds' = NetIds \cup {x.id} /\ FlowTs(x.id)' = x.time * NsPerUs
      /\ \A f \in NetIds : FlowTs(f)' = FlowTs(f) /\ StartUs(f)' = StartUs(f)
      /\ \A f \in DOMAIN retired' : retired'[f] = retired[f]
  <2>1. DOMAIN flows \cap DOMAIN retired = {}
    BY <1>1 DEF StageInv, FlowsMatch
  <2>2. QED
    BY <1>4, <2>1, NetArriveMoves
<1> HIDE DEF back
<1>6. /\ \A l \in Loops' : l.id = x.id /\ l.time = x.time /\ l.wait = back
      /\ \E l \in Loops' : l.id = x.id /\ l.wait = back
  BY DEF back
<1>7. revived' = revived \cup (back \cap DOMAIN ended)
  BY DEF back
<1>8. \A f : Untouched(f)' = Untouched(f)
  BY <1>2 DEF Untouched
<1>9. ItemsFresh'
  <2>1. ItemsFresh
    BY <1>1 DEF StageInv
  <2>2. QED
    BY <1>5, <1>6, <1>8, <2>1 DEF ItemsFresh
<1>10. LoopsFresh'
  BY <1>4, <1>5, <1>6, <1>8 DEF LoopsFresh
<1>11. PointsAlone'
  <2>1. PointsAlone
    BY <1>1 DEF StageInv
  <2>2. QED
    BY <1>2, <1>4, <1>5, <2>1 DEF PointsAlone, Untouched
<1>12. StartsMatch'
  <2>1. StartsMatch
    BY <1>1 DEF StageInv
  <2>2. QED
    BY <1>2, <1>4, <1>5, <2>1 DEF StartsMatch, Untouched
<1>13. CompsMatch' /\ FlowsMatch' /\ RevivedWaited' /\ TodoMatch'
  <2>1. CompsMatch /\ FlowsMatch /\ RevivedWaited /\ TodoMatch
    BY <1>1 DEF StageInv
  <2>2. CompsMatch'
    BY <1>2, <1>5, <2>1 DEF CompsMatch
  <2>3. FlowsMatch'
    <3>1. DOMAIN flows' \cap DOMAIN retired' = {}
      BY <1>4, <1>5, <2>1 DEF FlowsMatch, NetIds
    <3>2. ASSUME NEW f \in NetIds'
          PROVE  /\ \/ Queued("Start", f)' \/ f \in DOMAIN started' \/ f \in DOMAIN ended'
                    \/ \E l \in Loops' : l.id = f
                 /\ f \in DOMAIN started' => started'[f] = StartUs(f)'
                 /\ f \in DOMAIN ended' => ended'[f][1] = StartUs(f)'
                 /\ Queued("End", f)' => f \in DOMAIN started'
                 /\ Queued("End", f)' /\ f \in DOMAIN ended' => f \in revived'
      BY <1>2, <1>4, <1>5, <1>6, <1>7, <2>1 DEF FlowsMatch, Untouched
    <3>3. QED
      BY <3>1, <3>2 DEF FlowsMatch
  <2>4. RevivedWaited'
    BY <1>2, <1>4, <1>5, <1>6, <1>7, <2>1 DEF RevivedWaited, Untouched
  <2>5. QED
    BY <2>2, <2>3, <2>4 DEF TodoMatch
<1>14. RetiredSettled'
  <2>1. RetiredSettled
    BY <1>1 DEF StageInv
  <2>2. \A f \in DOMAIN retired' : Settled(f) => Settled(f)'
    BY <1>2, <1>5 DEF Settled
  <2>3. QED
    BY <1>5, <2>1, <2>2 DEF RetiredSettled
<1>15. Located'
  <2>1. Located
    BY <1>1 DEF StageInv
  <2>2. QED
    BY <1>2, <1>5, <2>1 DEF Located
<1>16. QED
  BY <1>9, <1>10, <1>11, <1>12, <1>13, <1>14, <1>15 DEF StageInv

\* push_event keeps events where they may be.
LEMMA PushEventStage ==
  ASSUME NetInv, PushEvent
  PROVE  StageInv'
<1>1. CallInv
  BY NetTypes
<1>2. Todo' = Todo
  BY <1>1, PushEventViews
<1>3. PICK x \in Items :
        /\ PushPlain(x) \/ PushComputation(x) \/ PushFlow(x)
        /\ Items' = Items \ {x}
        /\ \A y \in Items : y.id = x.id => y = x
        /\ \A y \in Items : x.act = Finish <=> y.act = Finish
        /\ x.act = Finish => Loops = {} /\ Todo = {}
        /\ IF x.act.kind = "comm" /\ MustRollback(x.time * NsPerUs)
           THEN /\ Loops = {} /\ Todo = {}
                /\ Loops' = {[op |-> "loop", id |-> x.id, time |-> x.time, n |-> qcnt,
                              wait |-> Revived(x.time * NsPerUs)]}
           ELSE Loops' = Loops
  BY <1>1, PushEventViews
<1>4. UNCHANGED <<pending, started, ended, rev, cnt>>
  BY DEF PushEvent
<1>5. CASE PushPlain(x) /\ x.act = Point
  <2>1. queue' = Put(queue, <<"Point", x.id>>, <<x.time, qcnt>>)
    BY <1>5 DEF PushPlain, Point, Finish
  <2>2. Loops' = Loops
    BY <1>3, <1>5 DEF Point
  <2>3. UNCHANGED <<notStarted, nts, flows, retired, revived>>
    BY <1>5 DEF PushPlain, netVars
  <2>4. QED
    BY <1>2, <1>3, <1>4, <1>5, <2>1, <2>2, <2>3, PushPointStage
<1>6. CASE PushPlain(x) /\ x.act = Finish
  <2>1. queue' = Put(queue, <<"End", x.id>>, <<x.time, qcnt>>)
    BY <1>6 DEF PushPlain, Point, Finish
  <2>2. Loops' = Loops
    BY <1>3, <1>6 DEF Finish
  <2>3. UNCHANGED <<notStarted, nts, flows, retired, revived>>
    BY <1>6 DEF PushPlain, netVars
  <2>4. QED
    BY <1>2, <1>3, <1>4, <1>6, <2>1, <2>2, <2>3, PushEndStage
<1>7. CASE PushComputation(x)
  <2>1. EnqueueStart(x.id, x.act, x.time, qcnt) /\ x.act.kind = "comp"
    BY <1>7 DEF PushComputation
  <2>2. Loops' = Loops
    BY <1>3, <2>1
  <2>3. UNCHANGED <<nts, flows, retired, revived>>
    BY <1>7 DEF PushComputation, netVars
  <2>4. QED
    BY <1>2, <1>3, <1>4, <2>1, <2>2, <2>3, PushComputationStage
<1>8. CASE PushFlow(x) /\ ~ MustRollback(x.time * NsPerUs)
  <2>1. /\ EnqueueStart(x.id, x.act, x.time, qcnt) /\ x.act.kind = "comm"
        /\ NetArrive(x.id, x.time * NsPerUs) /\ UNCHANGED revived
    BY <1>8 DEF PushFlow
  <2>2. Loops' = Loops
    BY <1>3, <1>8
  <2>3. QED
    BY <1>2, <1>3, <1>4, <1>8, <2>1, <2>2, PushFlowStage
<1>9. CASE PushFlow(x) /\ MustRollback(x.time * NsPerUs)
  <2>1. /\ x.act.kind = "comm" /\ NetArrive(x.id, x.time * NsPerUs)
        /\ UNCHANGED <<queue, notStarted>>
        /\ revived' = revived \cup (Revived(x.time * NsPerUs) \cap DOMAIN ended)
    BY <1>9 DEF PushFlow
  <2>2. /\ Loops = {} /\ Todo = {}
        /\ Loops' = {[op |-> "loop", id |-> x.id, time |-> x.time, n |-> qcnt,
                      wait |-> Revived(x.time * NsPerUs)]}
    BY <1>3, <1>9, <2>1
  <2>3. \A y \in Items : y.act # Finish
    BY <1>3, <2>1 DEF Finish
  <2>4. QED
    BY <1>2, <1>3, <1>4, <1>9, <2>1, <2>2, <2>3, PushPastFlowStage
<1>10. QED
  BY <1>3, <1>5, <1>6, <1>7, <1>8, <1>9 DEF PushPlain

-----------------------------------------------------------------------------
(***************************************************************************)
(* The rollback loop.                                                      *)
(***************************************************************************)

\* An iteration of the loop: the flows the network completes have the ends it
\* gives them still to be handled.
LEMMA RollbackRunStage ==
  ASSUME NetInv, RollbackRun
  PROVE  StageInv'
<1>1. CallInv /\ StageInv
  BY NetTypes
<1>2. UNCHANGED <<pending, queue, notStarted, started, ended, cnt, revived>>
  BY DEF RollbackRun, queueVars
<1>3. Items' = Items /\ Todo = {} /\ \A y \in Items : y.act # Finish
  BY <1>1, RollbackRunViews
<1>4. PICK t \in NextCompletions, done \in SUBSET DOMAIN flows, l \in Loops, m \in Loops' :
        /\ NetRun(t, done)
        /\ Loops = {l} /\ Loops' = {m}
        /\ m.id = l.id /\ m.time = l.time /\ m.n = l.n /\ m.wait = l.wait \ done
        /\ Todo' = {[id |-> f, ts |-> flows[f]] : f \in done}
  BY <1>1, RollbackRunViews
<1>5. /\ nts' = t
      /\ DOMAIN flows' = DOMAIN flows \ done /\ DOMAIN retired' = DOMAIN retired \cup done
      /\ NetIds' = NetIds
      /\ \A f \in NetIds : FlowTs(f)' = FlowTs(f) /\ StartUs(f)' = StartUs(f)
      /\ \A f \in done : retired'[f].ts = flows[f] /\ retired'[f].end = t
      /\ \A f \in DOMAIN retired : retired'[f] = retired[f]
  <2>1. DOMAIN flows \cap DOMAIN retired = {}
    BY <1>1 DEF StageInv, FlowsMatch
  <2>2. QED
    BY <1>4, <2>1, NetRunMoves
<1>6. \A j, f : (Queued(j, f)' <=> Queued(j, f)) /\ QTime(j, f)' = QTime(j, f)
  BY <1>2, QueueSame
<1>7. \A f : Untouched(f)' = Untouched(f)
  BY <1>2, <1>6 DEF Untouched
<1>8. ItemsFresh'
  <2>1. ItemsFresh
    BY <1>1 DEF StageInv
  <2>2. QED
    BY <1>2, <1>3, <1>4, <1>5, <1>7, <2>1 DEF ItemsFresh
<1>9. LoopsFresh'
  <2>1. LoopsFresh
    BY <1>1 DEF StageInv
  <2>2. QED
    BY <1>4, <1>5, <1>7, <2>1 DEF LoopsFresh
<1>10. PointsAlone' /\ StartsMatch' /\ CompsMatch'
  <2>1. PointsAlone /\ StartsMatch /\ CompsMatch
    BY <1>1 DEF StageInv
  <2>2. PointsAlone'
    BY <1>2, <1>5, <1>6, <2>1 DEF PointsAlone
  <2>3. StartsMatch'
    BY <1>2, <1>5, <1>6, <2>1 DEF StartsMatch
  <2>4. CompsMatch'
    BY <1>2, <1>5, <1>6, <2>1 DEF CompsMatch
  <2>5. QED
    BY <2>2, <2>3, <2>4
<1>11. FlowsMatch' /\ RevivedWaited'
  <2>1. FlowsMatch /\ RevivedWaited
    BY <1>1 DEF StageInv
  <2>2. FlowsMatch'
    <3>1. DOMAIN flows' \cap DOMAIN retired' = {}
      BY <1>5, <2>1 DEF FlowsMatch
    <3>2. QED
      BY <1>2, <1>4, <1>5, <1>6, <2>1, <3>1 DEF FlowsMatch
  <2>3. RevivedWaited'
    BY <1>2, <1>4, <1>5, <1>6, <2>1 DEF RevivedWaited
  <2>4. QED
    BY <2>2, <2>3
<1>12. TodoMatch'
  <2>1. RevivedWaited /\ LoopsFresh
    BY <1>1 DEF StageInv
  <2>2. ASSUME NEW r \in Todo'
        PROVE  /\ r.id \in DOMAIN retired' /\ retired'[r.id].ts = r.ts
               /\ retired'[r.id].end = nts'
               /\ r.id \in DOMAIN ended' => r.id \in revived'
               /\ (\E k \in Loops' : k.id = r.id) => r.id \notin DOMAIN ended'
    <3>1. PICK f \in done : r = [id |-> f, ts |-> flows[f]]
      BY <1>4, <2>2
    <3>2. f \in DOMAIN ended => f \in revived /\ f \in l.wait
      BY <1>4, <2>1 DEF RevivedWaited
    <3>3. l.id = f => f \notin DOMAIN ended
      BY <1>4, <2>1, <3>2 DEF LoopsFresh
    <3>4. QED
      BY <1>2, <1>4, <1>5, <3>1, <3>2, <3>3
  <2>3. QED
    BY <2>2 DEF TodoMatch
<1>13. RetiredSettled'
  <2>1. RetiredSettled
    BY <1>1 DEF StageInv
  <2>2. \A f \in DOMAIN retired : Settled(f)
    BY <1>3, <2>1 DEF RetiredSettled
  <2>3. \A f \in DOMAIN retired : Settled(f)'
    BY <1>2, <1>5, <1>6, <2>2 DEF Settled
  <2>4. ASSUME NEW f \in done
        PROVE  \E r \in Todo' : r.id = f
    <3>1. [id |-> f, ts |-> flows[f]] \in Todo' /\ [id |-> f, ts |-> flows[f]].id = f
      BY <1>4
    <3>2. QED
      BY <3>1
  <2>5. QED
    BY <1>5, <2>3, <2>4 DEF RetiredSettled
<1>14. Located'
  <2>1. Located
    BY <1>1 DEF StageInv
  <2>2. QED
    BY <1>2, <1>3, <1>5, <1>6, <2>1 DEF Located
<1>15. QED
  BY <1>8, <1>9, <1>10, <1>11, <1>12, <1>13, <1>14 DEF StageInv

\* The flow that started the rollback has completed: it ends, at the time the
\* network has reached, and what waits only for it is freed.
LEMMA FinishPushedStage ==
  ASSUME NetInv, NEW r \in Todo, FinishPushed(r), NEW l \in Loops, r.id = l.id,
         UNCHANGED <<notStarted, cnt, netVars, revived>>,
         Head(stack).at = nts, Head(stack).time = l.time,
         \A y \in Items : y.act # Finish,
         \A k \in Loops : k.id = l.id,
         Items' = FreedItems(r.id, ToUs(nts)) \cup Items,
         Loops' = Loops, Todo' = Todo \ {r}
  PROVE  StageInv'
<1>1. /\ TypeOK /\ KnownInv /\ StageInv /\ nts \in Nat /\ r.id \in Ids /\ l.time \in Nat
      /\ r.id \in Known
  BY NetTypes DEF KnownInv
<1>2. UNCHANGED <<queue, started, notStarted, cnt, nts, flows, retired, revived>>
  BY DEF FinishPushed, netVars
<1>3. /\ DOMAIN pending' = DOMAIN pending \ Freed(r.id) /\ Freed(r.id) \subseteq DOMAIN pending
      /\ ended' = Put(ended, r.id, <<l.time, ToUs(nts)>>) /\ DOMAIN ended' = DOMAIN ended \cup {r.id}
  <2>1. EndEvent(r.id, l.time, ToUs(nts), Rest(r))
    BY DEF FinishPushed
  <2>2. ended' = Put(ended, r.id, <<l.time, ToUs(nts)>>)
    BY <2>1 DEF EndEvent
  <2>3. /\ DOMAIN pending' = DOMAIN pending \ Freed(r.id) /\ Freed(r.id) \subseteq DOMAIN pending
        /\ DOMAIN ended' = DOMAIN ended \cup {r.id}
    BY <1>1, <2>1, EndEventFrees
  <2>4. QED
    BY <2>2, <2>3
<1>4. /\ ended'[r.id][1] = l.time /\ ended'[r.id][2] = ToUs(nts)
      /\ \A f \in DOMAIN ended : f # r.id => ended'[f] = ended[f]
  BY <1>3 DEF Put
<1>5. /\ Untouched(r.id) /\ r.id \in NetIds /\ StartUs(r.id) = l.time
  <2>1. Untouched(l.id) /\ l.id \in NetIds /\ FlowTs(l.id) = l.time * NsPerUs
    BY <1>1 DEF StageInv, LoopsFresh
  <2>2. QED
    BY <1>1, <2>1, ToUsExact DEF StartUs
<1>6. /\ r.id \in DOMAIN retired /\ retired[r.id].ts = r.ts /\ retired[r.id].end = nts
      /\ r.id \notin DOMAIN ended /\ r.id \notin DOMAIN flows
  <2>1. TodoMatch /\ DOMAIN flows \cap DOMAIN retired = {}
    BY <1>1 DEF StageInv, FlowsMatch
  <2>2. QED
    BY <2>1 DEF TodoMatch
<1>7. \A j, f : (Queued(j, f)' <=> Queued(j, f)) /\ QTime(j, f)' = QTime(j, f)
  BY <1>2, QueueSame
<1>8. \A f : Untouched(f)' = Untouched(f)
  BY <1>2, <1>7 DEF Untouched
<1>9. NetIds' = NetIds /\ \A f : FlowTs(f)' = FlowTs(f) /\ StartUs(f)' = StartUs(f)
  BY <1>2, NetSame
<1>10. ItemsFresh'
  <2>1. ASSUME NEW x \in Items'
        PROVE  /\ x.act # Finish /\ Untouched(x.id) /\ x.id \notin DOMAIN ended
               /\ x.id \notin NetIds /\ \A k \in Loops : k.id # x.id
    <3>1. CASE x \in Items
      BY <1>1, <3>1 DEF StageInv, ItemsFresh
    <3>2. CASE x \in FreedItems(r.id, ToUs(nts))
      <4>1. x.act # Finish /\ x.id \in Freed(r.id)
        BY <1>1, <3>2, TicksNat, FreedTypes
      <4>2. x.id \notin Known
        BY <1>3, <4>1 DEF Known
      <4>3. QED
        BY <1>1, <4>1, <4>2, NotKnown
    <3>3. QED
      BY <3>1, <3>2
  <2>2. QED
    BY <1>3, <1>5, <1>8, <1>9, <2>1 DEF ItemsFresh
<1>11. LoopsFresh'
  <2>1. LoopsFresh
    BY <1>1 DEF StageInv
  <2>2. QED
    BY <1>8, <1>9, <2>1 DEF LoopsFresh
<1>12. PointsAlone' /\ StartsMatch' /\ CompsMatch'
  <2>1. PointsAlone /\ StartsMatch /\ CompsMatch
    BY <1>1 DEF StageInv
  <2>2. PointsAlone'
    BY <1>2, <1>3, <1>5, <1>7, <1>9, <2>1 DEF PointsAlone
  <2>3. StartsMatch'
    BY <1>2, <1>3, <1>5, <1>7, <1>9, <2>1 DEF StartsMatch
  <2>4. CompsMatch'
    BY <1>2, <1>3, <1>5, <1>7, <1>9, <2>1 DEF CompsMatch
  <2>5. QED
    BY <2>2, <2>3, <2>4
<1>13. FlowsMatch' /\ RevivedWaited' /\ TodoMatch'
  <2>1. FlowsMatch /\ RevivedWaited /\ TodoMatch
    BY <1>1 DEF StageInv
  <2>2. FlowsMatch'
    BY <1>2, <1>3, <1>4, <1>5, <1>7, <1>9, <2>1 DEF FlowsMatch, Untouched
  <2>3. RevivedWaited'
    BY <1>2, <1>3, <1>6, <1>7, <2>1 DEF RevivedWaited
  <2>4. TodoMatch'
    <3>1. ASSUME NEW q \in Todo, q # r
          PROVE  q.id # r.id
      <4>1. q \in [id : Ids, ts : Nat] /\ r \in [id : Ids, ts : Nat]
        BY <1>1, ViewTypes DEF TypeOK, Todo
      <4>2. q.id = r.id => q.ts = r.ts
        BY <1>6, <2>1 DEF TodoMatch
      <4>3. QED
        BY <3>1, <4>1, <4>2
    <3>2. QED
      BY <1>2, <1>3, <2>1, <3>1 DEF TodoMatch
  <2>5. QED
    BY <2>2, <2>3, <2>4
<1>14. RetiredSettled'
  <2>1. RetiredSettled
    BY <1>1 DEF StageInv
  <2>2. \A f : f # r.id /\ Settled(f) => Settled(f)'
    BY <1>2, <1>3, <1>4, <1>7 DEF Settled
  <2>3. Settled(r.id)'
    BY <1>2, <1>3, <1>4, <1>5, <1>6, <1>7 DEF Settled, Untouched
  <2>4. QED
    BY <1>2, <2>1, <2>2, <2>3 DEF RetiredSettled
<1>15. Located'
  <2>1. Located
    BY <1>1 DEF StageInv
  <2>2. ASSUME NEW p \in Freed(r.id)
        PROVE  \E x \in Items' : x.id = p
    BY FreedAreItems
  <2>3. QED
    BY <1>2, <1>3, <1>7, <1>9, <2>1, <2>2 DEF Located
<1>16. QED
  BY <1>10, <1>11, <1>12, <1>13, <1>14, <1>15 DEF StageInv

\* Another flow has completed: its End replaces the one it may still have.
LEMMA FinishOtherStage ==
  ASSUME NetInv, NEW r \in Todo, FinishOther(r),
         UNCHANGED <<notStarted, cnt, netVars, revived>>,
         Head(stack).at = nts, \A k \in Loops : k.id # r.id,
         \A y \in Items : y.act # Finish,
         Items' = Items, Loops' = Loops, Todo' = Todo \ {r}
  PROVE  StageInv'
<1>1. StageInv /\ r.id \in Ids
  BY NetTypes
<1>2. UNCHANGED <<pending, ended, notStarted, cnt, nts, flows, retired, revived>>
  BY DEF FinishOther, netVars
<1>3. /\ r.id \in DOMAIN retired /\ retired[r.id].ts = r.ts /\ retired[r.id].end = nts
      /\ r.id \in DOMAIN ended => r.id \in revived
      /\ r.id \notin DOMAIN flows
  <2>1. TodoMatch /\ DOMAIN flows \cap DOMAIN retired = {}
    BY <1>1 DEF StageInv, FlowsMatch
  <2>2. QED
    BY <2>1 DEF TodoMatch
<1>4. r.id \in NetIds /\ StartUs(r.id) = ToUs(r.ts)
  BY <1>3 DEF NetIds, StartUs, FlowTs
<1>5. /\ \A j, f : Queued(j, f)' <=> Queued(j, f) \/ (j = "End" /\ f = r.id)
      /\ QTime("End", r.id)' = ToUs(nts)
      /\ \A j, f : Queued(j, f) /\ ~ (j = "End" /\ f = r.id) => QTime(j, f)' = QTime(j, f)
  <2>1. queue' = Put(queue, <<"End", r.id>>, <<ToUs(nts), qcnt>>)
    BY DEF FinishOther
  <2>2. QED
    BY <2>1, QueuePut
<1>6. /\ DOMAIN started' = DOMAIN started \cup {r.id} /\ started'[r.id] = ToUs(r.ts)
      /\ \A f \in DOMAIN started : f # r.id => started'[f] = started[f]
  BY DEF FinishOther, Put
<1>7. \A f : f # r.id => Untouched(f)' = Untouched(f)
  BY <1>2, <1>5, <1>6 DEF Untouched
<1>8. NetIds' = NetIds /\ \A f : FlowTs(f)' = FlowTs(f) /\ StartUs(f)' = StartUs(f)
  BY <1>2, NetSame
<1>9. ItemsFresh' /\ LoopsFresh'
  <2>1. ItemsFresh /\ LoopsFresh
    BY <1>1 DEF StageInv
  <2>2. ItemsFresh'
    BY <1>2, <1>4, <1>7, <1>8, <2>1 DEF ItemsFresh
  <2>3. LoopsFresh'
    BY <1>7, <1>8, <2>1 DEF LoopsFresh
  <2>4. QED
    BY <2>2, <2>3
<1>10. PointsAlone' /\ StartsMatch' /\ CompsMatch'
  <2>1. PointsAlone /\ StartsMatch /\ CompsMatch
    BY <1>1 DEF StageInv
  <2>2. PointsAlone'
    BY <1>2, <1>4, <1>5, <1>6, <1>8, <2>1 DEF PointsAlone
  <2>3. StartsMatch'
    BY <1>2, <1>4, <1>5, <1>6, <1>8, <2>1 DEF StartsMatch
  <2>4. CompsMatch'
    BY <1>2, <1>4, <1>5, <1>6, <1>8, <2>1 DEF CompsMatch
  <2>5. QED
    BY <2>2, <2>3, <2>4
<1>11. FlowsMatch' /\ RevivedWaited' /\ TodoMatch'
  <2>1. FlowsMatch /\ RevivedWaited /\ TodoMatch
    BY <1>1 DEF StageInv
  <2>2. FlowsMatch'
    BY <1>2, <1>3, <1>4, <1>5, <1>6, <1>8, <2>1 DEF FlowsMatch
  <2>3. RevivedWaited'
    BY <1>2, <1>3, <1>5, <2>1 DEF RevivedWaited
  <2>4. TodoMatch'
    BY <1>2, <2>1 DEF TodoMatch
  <2>5. QED
    BY <2>2, <2>3, <2>4
<1>12. RetiredSettled'
  <2>1. RetiredSettled
    BY <1>1 DEF StageInv
  <2>2. \A f : f # r.id /\ Settled(f) => Settled(f)'
    BY <1>2, <1>5 DEF Settled
  <2>3. Settled(r.id)'
    BY <1>2, <1>3, <1>5 DEF Settled
  <2>4. QED
    BY <1>2, <2>1, <2>2, <2>3 DEF RetiredSettled
<1>13. Located'
  <2>1. Located
    BY <1>1 DEF StageInv
  <2>2. QED
    BY <1>2, <1>5, <1>6, <1>8, <2>1 DEF Located
<1>14. QED
  BY <1>9, <1>10, <1>11, <1>12, <1>13 DEF StageInv

\* The loop handles a completed flow.
LEMMA RollbackFinishStage ==
  ASSUME NetInv, RollbackFinish
  PROVE  StageInv'
<1>1. CallInv
  BY NetTypes
<1>2. PICK r \in Todo :
        /\ Todo' = Todo \ {r}
        /\ \/ FinishPushed(r) /\ Items' = FreedItems(r.id, ToUs(nts)) \cup Items
           \/ FinishOther(r) /\ Items' = Items
  BY <1>1, RollbackFinishViews
<1>3. /\ Loops' = Loops /\ Loops # {}
      /\ \A y \in Items : y.act # Finish
      /\ \A l \in Loops : l.id = Head(stack).id /\ l.time = Head(stack).time
      /\ Head(stack).at = nts
  BY <1>1, RollbackFinishViews
<1>4. UNCHANGED <<notStarted, cnt, netVars, revived>>
  BY DEF RollbackFinish
<1>5. CASE FinishPushed(r) /\ Items' = FreedItems(r.id, ToUs(nts)) \cup Items
  <2>1. PICK l \in Loops : TRUE
    BY <1>3
  <2>2. r.id = l.id /\ Head(stack).time = l.time /\ \A k \in Loops : k.id = l.id
    BY <1>3, <1>5 DEF FinishPushed
  <2>3. QED
    BY <1>2, <1>3, <1>4, <1>5, <2>2, FinishPushedStage
<1>6. CASE FinishOther(r) /\ Items' = Items
  <2>1. \A k \in Loops : k.id # r.id
    BY <1>3, <1>6 DEF FinishOther
  <2>2. QED
    BY <1>2, <1>3, <1>4, <1>6, <2>1, FinishOtherStage
<1>7. QED
  BY <1>2, <1>5, <1>6

\* The loop is left: its flow has ended or enters the queue.
LEMMA RollbackDoneStage ==
  ASSUME NetInv, RollbackDone
  PROVE  StageInv'
<1>1. CallInv /\ StageInv
  BY NetTypes
<1>2. /\ Items' = Items /\ Loops' = {} /\ Todo = {} /\ Todo' = {}
      /\ \A y \in Items : y.act # Finish
      /\ Loops = {Head(stack)} /\ Head(stack).wait = {}
  BY <1>1, RollbackDoneViews
<1>3. PICK l \in Loops : l = Head(stack)
  BY <1>2
<1>4. Loops = {l} /\ l.wait = {} /\ l.id \in Ids /\ l.time \in Nat
  BY <1>2, <1>3, NetTypes
<1>5. UNCHANGED <<pending, started, ended, cnt, nts, flows, retired, revived>>
  BY DEF RollbackDone, netVars
<1>6. Untouched(l.id) /\ l.id \in NetIds /\ StartUs(l.id) = l.time
  <2>1. Untouched(l.id) /\ l.id \in NetIds /\ FlowTs(l.id) = l.time * NsPerUs
    BY <1>1 DEF StageInv, LoopsFresh
  <2>2. QED
    BY <1>4, <2>1, ToUsExact DEF StartUs
<1>7. NetIds' = NetIds /\ \A f : FlowTs(f)' = FlowTs(f) /\ StartUs(f)' = StartUs(f)
  BY <1>5, NetSame
<1>8. LoopsFresh' /\ TodoMatch'
  BY <1>2 DEF LoopsFresh, TodoMatch
<1>9. CASE l.id \in DOMAIN ended
  <2>1. UNCHANGED <<queue, notStarted>>
    BY <1>3, <1>9 DEF RollbackDone
  <2>2. \A j, f : (Queued(j, f)' <=> Queued(j, f)) /\ QTime(j, f)' = QTime(j, f)
    BY <2>1, QueueSame
  <2>3. \A f : Untouched(f)' = Untouched(f)
    BY <1>5, <2>1, <2>2 DEF Untouched
  <2>4. ItemsFresh'
    <3>1. ItemsFresh
      BY <1>1 DEF StageInv
    <3>2. QED
      BY <1>2, <1>5, <1>7, <2>3, <3>1 DEF ItemsFresh
  <2>5. PointsAlone' /\ StartsMatch' /\ CompsMatch'
    <3>1. PointsAlone /\ StartsMatch /\ CompsMatch
      BY <1>1 DEF StageInv
    <3>2. QED
      BY <1>5, <1>7, <2>1, <2>2, <3>1 DEF PointsAlone, StartsMatch, CompsMatch
  <2>6. FlowsMatch' /\ RevivedWaited'
    <3>1. FlowsMatch /\ RevivedWaited
      BY <1>1 DEF StageInv
    <3>2. FlowsMatch'
      BY <1>4, <1>5, <1>7, <1>9, <2>2, <3>1 DEF FlowsMatch
    <3>3. RevivedWaited'
      BY <1>4, <1>5, <2>2, <3>1 DEF RevivedWaited
    <3>4. QED
      BY <3>2, <3>3
  <2>7. RetiredSettled'
    <3>1. RetiredSettled
      BY <1>1 DEF StageInv
    <3>2. \A f : Settled(f) => Settled(f)'
      BY <1>5, <2>2 DEF Settled
    <3>3. QED
      BY <1>2, <1>5, <3>1, <3>2 DEF RetiredSettled
  <2>8. Located'
    <3>1. Located
      BY <1>1 DEF StageInv
    <3>2. QED
      BY <1>2, <1>5, <1>7, <2>2, <3>1 DEF Located
  <2>9. QED
    BY <1>8, <2>4, <2>5, <2>6, <2>7, <2>8 DEF StageInv
<1>10. CASE l.id \notin DOMAIN ended
  <2>1. EnqueueStart(l.id, Comm, l.time, l.n)
    BY <1>3, <1>10 DEF RollbackDone
  <2>2. /\ \A j, f : Queued(j, f)' <=> Queued(j, f) \/ (j = "Start" /\ f = l.id)
        /\ QTime("Start", l.id)' = l.time
        /\ \A j, f : Queued(j, f) /\ ~ (j = "Start" /\ f = l.id) => QTime(j, f)' = QTime(j, f)
    BY <2>1, QueuePut DEF EnqueueStart
  <2>3. /\ DOMAIN notStarted' = DOMAIN notStarted \cup {l.id}
        /\ notStarted'[l.id].kind = "comm"
        /\ \A f \in DOMAIN notStarted : f # l.id => notStarted'[f] = notStarted[f]
    BY <2>1 DEF EnqueueStart, Put, Comm
  <2>4. \A f : f # l.id => Untouched(f)' = Untouched(f)
    BY <1>5, <2>2, <2>3 DEF Untouched
  <2>5. ItemsFresh'
    <3>1. ItemsFresh
      BY <1>1 DEF StageInv
    <3>2. QED
      BY <1>2, <1>5, <1>6, <1>7, <2>4, <3>1 DEF ItemsFresh
  <2>6. PointsAlone' /\ StartsMatch' /\ CompsMatch'
    <3>1. PointsAlone /\ StartsMatch /\ CompsMatch
      BY <1>1 DEF StageInv
    <3>2. PointsAlone'
      BY <1>5, <1>6, <1>7, <2>2, <2>3, <3>1 DEF PointsAlone
    <3>3. StartsMatch'
      BY <1>5, <1>6, <1>7, <2>2, <2>3, <3>1 DEF StartsMatch, Untouched
    <3>4. CompsMatch'
      BY <1>5, <1>7, <2>2, <3>1 DEF CompsMatch
    <3>5. QED
      BY <3>2, <3>3, <3>4
  <2>7. FlowsMatch' /\ RevivedWaited'
    <3>1. FlowsMatch /\ RevivedWaited
      BY <1>1 DEF StageInv
    <3>2. FlowsMatch'
      BY <1>4, <1>5, <1>7, <2>2, <3>1 DEF FlowsMatch
    <3>3. RevivedWaited'
      BY <1>4, <1>5, <2>2, <3>1 DEF RevivedWaited
    <3>4. QED
      BY <3>2, <3>3
  <2>8. RetiredSettled'
    <3>1. RetiredSettled
      BY <1>1 DEF StageInv
    <3>2. \A f : Settled(f) => Settled(f)'
      BY <1>5, <2>2 DEF Settled
    <3>3. QED
      BY <1>2, <1>5, <3>1, <3>2 DEF RetiredSettled
  <2>9. Located'
    <3>1. Located
      BY <1>1 DEF StageInv
    <3>2. QED
      BY <1>2, <1>5, <1>7, <2>2, <3>1 DEF Located
  <2>10. QED
    BY <1>8, <2>5, <2>6, <2>7, <2>8, <2>9 DEF StageInv
<1>11. QED
  BY <1>9, <1>10

-----------------------------------------------------------------------------
(***************************************************************************)
(* Execution.                                                              *)
(***************************************************************************)

\* try_proceed_netsim: a flow it completes has started, and has no other end.
LEMMA ProceedNetsimStage ==
  ASSUME NetInv, ProceedNetsim
  PROVE  StageInv'
<1>1. CallInv /\ StageInv
  BY NetTypes
<1>2. UNCHANGED <<pending, queue, notStarted, started, ended, cnt, revived>>
  BY DEF ProceedNetsim, queueVars
<1>3. Items = {} /\ Loops = {} /\ Todo = {} /\ Loops' = {} /\ Todo' = {}
  BY <1>1, ProceedNetsimViews
<1>4. PICK t \in NextCompletions, done \in SUBSET DOMAIN flows :
        /\ NetRun(t, done)
        /\ Items' = {[id |-> f, act |-> Finish, time |-> ToUs(t)] : f \in done}
  BY <1>1, ProceedNetsimViews
<1>5. /\ DOMAIN flows' = DOMAIN flows \ done /\ DOMAIN retired' = DOMAIN retired \cup done
      /\ NetIds' = NetIds
      /\ \A f \in NetIds : FlowTs(f)' = FlowTs(f) /\ StartUs(f)' = StartUs(f)
      /\ \A f \in done : retired'[f].end = t
      /\ \A f \in DOMAIN retired : retired'[f] = retired[f]
  <2>1. DOMAIN flows \cap DOMAIN retired = {}
    BY <1>1 DEF StageInv, FlowsMatch
  <2>2. QED
    BY <1>4, <2>1, NetRunMoves
<1>6. \A j, f : (Queued(j, f)' <=> Queued(j, f)) /\ QTime(j, f)' = QTime(j, f)
  BY <1>2, QueueSame
<1>7. \A j, f : ~ Queued(j, f)
  BY DEF ProceedNetsim, Queued
<1>8. \A f \in done : f \in DOMAIN started /\ f \notin DOMAIN ended
  <2>1. FlowsMatch /\ RevivedWaited
    BY <1>1 DEF StageInv
  <2>2. QED
    BY <1>3, <1>7, <2>1 DEF FlowsMatch, RevivedWaited, NetIds
<1>9. ItemsFresh'
  <2>1. ASSUME NEW x \in Items'
        PROVE  /\ x.act = Finish /\ x.id \in DOMAIN retired' /\ x.time = ToUs(retired'[x.id].end)
               /\ x.id \in DOMAIN started /\ x.id \notin DOMAIN ended
    BY <1>4, <1>5, <1>8
  <2>2. \A x : ToUs(x)' = ToUs(x')
    BY DEF ToUs
  <2>3. QED
    BY <1>2, <1>6, <1>7, <2>1, <2>2 DEF ItemsFresh
<1>10. LoopsFresh' /\ TodoMatch'
  BY <1>3 DEF LoopsFresh, TodoMatch
<1>11. PointsAlone' /\ StartsMatch' /\ CompsMatch'
  <2>1. PointsAlone /\ StartsMatch /\ CompsMatch
    BY <1>1 DEF StageInv
  <2>2. PointsAlone'
    BY <1>6, <1>7 DEF PointsAlone
  <2>3. StartsMatch'
    BY <1>2, <1>5, <1>6, <2>1 DEF StartsMatch
  <2>4. CompsMatch'
    BY <1>2, <1>5, <1>6, <2>1 DEF CompsMatch
  <2>5. QED
    BY <2>2, <2>3, <2>4
<1>12. FlowsMatch' /\ RevivedWaited'
  <2>1. FlowsMatch /\ RevivedWaited
    BY <1>1 DEF StageInv
  <2>2. FlowsMatch'
    <3>1. DOMAIN flows' \cap DOMAIN retired' = {}
      BY <1>5, <2>1 DEF FlowsMatch
    <3>2. QED
      BY <1>2, <1>3, <1>5, <1>6, <2>1, <3>1 DEF FlowsMatch
  <2>3. RevivedWaited'
    BY <1>2, <1>3, <1>5, <1>6, <2>1 DEF RevivedWaited
  <2>4. QED
    BY <2>2, <2>3
<1>13. RetiredSettled'
  <2>1. RetiredSettled
    BY <1>1 DEF StageInv
  <2>2. \A f \in DOMAIN retired : Settled(f)
    BY <1>3, <2>1 DEF RetiredSettled
  <2>3. \A f \in DOMAIN retired : Settled(f)'
    BY <1>2, <1>5, <1>6, <2>2 DEF Settled
  <2>4. ASSUME NEW f \in done
        PROVE  \E x \in Items' : x.act = Finish /\ x.id = f
    <3>1. [id |-> f, act |-> Finish, time |-> ToUs(t)] \in Items'
      BY <1>4
    <3>2. QED
      BY <3>1
  <2>5. QED
    BY <1>5, <2>3, <2>4 DEF RetiredSettled
<1>14. Located'
  <2>1. Located
    BY <1>1 DEF StageInv
  <2>2. QED
    BY <1>2, <1>3, <1>5, <1>6, <2>1 DEF Located
<1>15. QED
  BY <1>9, <1>10, <1>11, <1>12, <1>13, <1>14 DEF StageInv

\* A point or an End is taken from the queue and its event ends: it was nowhere
\* else, and the end of a flow is the one the network gave it.
LEMMA EndStage ==
  ASSUME NetInv, NEW k \in {"Point", "End"}, NEW id \in Ids, Queued(k, id), NEW start,
         queue' = Without(queue, {<<k, id>>}),
         EndEvent(id, start, QTime(k, id), << >>), QTime(k, id) \in Nat,
         IF k = "Point" THEN started' = started
         ELSE started' = Without(started, {id}) /\ id \in DOMAIN started /\ start = started[id],
         UNCHANGED <<notStarted, cnt, netVars, revived>>,
         Items = {}, Loops = {}, Todo = {}, Loops' = {}, Todo' = {},
         Items' = FreedItems(id, QTime(k, id))
  PROVE  StageInv'
<1> DEFINE time == QTime(k, id)
<1>1. TypeOK /\ KnownInv /\ StageInv /\ id \in Known
  BY NetTypes, NotKnown DEF Untouched
<1>2. UNCHANGED <<notStarted, cnt, nts, flows, retired, revived>>
  BY DEF netVars
<1>3. /\ DOMAIN pending' = DOMAIN pending \ Freed(id) /\ Freed(id) \subseteq DOMAIN pending
      /\ DOMAIN ended' = DOMAIN ended \cup {id}
      /\ ended'[id][1] = start /\ ended'[id][2] = time
      /\ \A f \in DOMAIN ended : f # id => ended'[f] = ended[f]
  <2>1. ended' = Put(ended, id, <<start, time>>)
    BY DEF EndEvent
  <2>2. DOMAIN pending' = DOMAIN pending \ Freed(id) /\ Freed(id) \subseteq DOMAIN pending
    BY <1>1, EndEventFrees
  <2>3. QED
    BY <2>1, <2>2 DEF Put
<1>4. /\ \A j, f : Queued(j, f)' <=> Queued(j, f) /\ ~ (j = k /\ f = id)
      /\ \A j, f : Queued(j, f)' => QTime(j, f)' = QTime(j, f)
  BY QueueTake
<1>5. /\ DOMAIN started' \subseteq DOMAIN started
      /\ \A f \in DOMAIN started : f # id => f \in DOMAIN started' /\ started'[f] = started[f]
      /\ k = "End" => id \notin DOMAIN started'
      /\ k = "Point" => started' = started
  BY DEF Without
<1>6. k = "Point" => id \notin NetIds /\ id \notin DOMAIN started /\ id \notin DOMAIN notStarted
  BY <1>1 DEF StageInv, PointsAlone
<1>7. k = "End" /\ id \notin NetIds => id \notin DOMAIN notStarted
  BY <1>1 DEF StageInv, StartsMatch
<1>8. k = "End" /\ id \in NetIds =>
        /\ id \notin DOMAIN flows /\ id \in DOMAIN retired
        /\ start = StartUs(id) /\ time = ToUs(retired[id].end)
  <2>1. ASSUME k = "End", id \in NetIds
        PROVE  /\ id \notin DOMAIN flows /\ id \in DOMAIN retired
               /\ start = StartUs(id) /\ time = ToUs(retired[id].end)
    <3>1. FlowsMatch /\ RevivedWaited /\ RetiredSettled
      BY <1>1 DEF StageInv
    <3>2. id \notin DOMAIN flows /\ id \in DOMAIN retired
      BY <2>1, <3>1 DEF RevivedWaited, NetIds
    <3>3. Settled(id)
      BY <3>1, <3>2 DEF RetiredSettled
    <3>4. start = StartUs(id)
      BY <2>1, <3>1 DEF FlowsMatch
    <3>5. QED
      BY <2>1, <3>2, <3>3, <3>4 DEF Settled
  <2>2. QED
    BY <2>1
<1> HIDE DEF time
<1>9. NetIds' = NetIds /\ \A f : FlowTs(f)' = FlowTs(f) /\ StartUs(f)' = StartUs(f)
  BY <1>2, NetSame
<1>10. ItemsFresh'
  <2>1. ASSUME NEW x \in Items'
        PROVE  /\ x.act # Finish /\ Untouched(x.id) /\ x.id \notin DOMAIN ended
               /\ x.id \notin NetIds /\ x.id # id
    <3>1. x.act # Finish /\ x.id \in Freed(id)
      BY <1>1, <2>1, FreedTypes
    <3>2. x.id \notin Known
      BY <1>3, <3>1 DEF Known
    <3>3. QED
      BY <1>1, <3>1, <3>2, NotKnown
  <2>2. ASSUME NEW f, Untouched(f)
        PROVE  Untouched(f)'
    BY <1>2, <1>4, <1>5, <2>2 DEF Untouched
  <2>3. QED
    BY <1>3, <1>9, <2>1, <2>2 DEF ItemsFresh
<1>11. LoopsFresh' /\ TodoMatch'
  BY DEF LoopsFresh, TodoMatch
<1>12. PointsAlone' /\ StartsMatch' /\ CompsMatch'
  <2>1. PointsAlone /\ StartsMatch /\ CompsMatch
    BY <1>1 DEF StageInv
  <2>2. PointsAlone'
    BY <1>2, <1>3, <1>4, <1>5, <1>9, <2>1 DEF PointsAlone
  <2>3. StartsMatch'
    BY <1>2, <1>3, <1>4, <1>5, <1>6, <1>7, <1>9, <2>1 DEF StartsMatch
  <2>4. CompsMatch'
    BY <1>2, <1>3, <1>4, <1>5, <1>6, <1>9, <2>1 DEF CompsMatch
  <2>5. QED
    BY <2>2, <2>3, <2>4
<1>13. FlowsMatch' /\ RevivedWaited'
  <2>1. FlowsMatch /\ RevivedWaited
    BY <1>1 DEF StageInv
  <2>2. ASSUME NEW f \in NetIds'
        PROVE  /\ Queued("Start", f)' \/ f \in DOMAIN started' \/ f \in DOMAIN ended'
               /\ f \in DOMAIN started' => started'[f] = StartUs(f)'
               /\ f \in DOMAIN ended' => ended'[f][1] = StartUs(f)'
               /\ Queued("End", f)' => f \in DOMAIN started'
               /\ Queued("End", f)' /\ f \in DOMAIN ended' => f \in revived'
    <3>1. CASE f = id
      BY <1>3, <1>4, <1>5, <1>6, <1>8, <1>9, <3>1
    <3>2. CASE f # id
      BY <1>2, <1>3, <1>4, <1>5, <1>9, <2>1, <3>2 DEF FlowsMatch
    <3>3. QED
      BY <3>1, <3>2
  <2>3. FlowsMatch'
    <3>1. DOMAIN flows' \cap DOMAIN retired' = {}
      BY <1>2, <2>1 DEF FlowsMatch
    <3>2. QED
      BY <2>2, <3>1 DEF FlowsMatch
  <2>4. RevivedWaited'
    BY <1>2, <1>3, <1>4, <1>6, <1>8, <2>1 DEF RevivedWaited, NetIds
  <2>5. QED
    BY <2>3, <2>4
<1>14. RetiredSettled'
  <2>1. RetiredSettled
    BY <1>1 DEF StageInv
  <2>2. \A f : f # id /\ Settled(f) => Settled(f)'
    BY <1>2, <1>3, <1>4 DEF Settled
  <2>3. id \in DOMAIN retired => Settled(id)'
    BY <1>2, <1>3, <1>4, <1>6, <1>8 DEF Settled, NetIds
  <2>4. QED
    BY <1>2, <2>1, <2>2, <2>3 DEF RetiredSettled
<1>15. Located'
  <2>1. Located
    BY <1>1 DEF StageInv
  <2>2. ASSUME NEW p \in Freed(id)
        PROVE  \E x \in Items' : x.id = p
    BY FreedAreItems
  <2>3. QED
    BY <1>2, <1>3, <1>4, <1>5, <1>9, <2>1, <2>2 DEF Located
<1>16. QED
  BY <1>10, <1>11, <1>12, <1>13, <1>14, <1>15 DEF StageInv

\* A Start is taken from the queue: the End of a computation enters it, that of
\* a flow comes from the network.
LEMMA StartStage ==
  ASSUME NetInv, NEW e, ExecuteStart(e), NEW id \in Ids, e = <<"Start", id>>, e \in DOMAIN queue,
         UNCHANGED <<cnt, netVars, revived>>,
         Items = {}, Loops = {}, Todo = {}, Items' = {}, Loops' = {}, Todo' = {}
  PROVE  StageInv'
<1> DEFINE comp == notStarted[id].kind = "comp"
<1>1. StageInv
  BY NetTypes
<1>2. UNCHANGED <<pending, ended, cnt, nts, flows, retired, revived>>
  BY DEF ExecuteStart, netVars
<1>3. /\ id \in DOMAIN notStarted /\ DOMAIN notStarted' = DOMAIN notStarted \ {id}
      /\ \A f \in DOMAIN notStarted' : notStarted'[f] = notStarted[f]
      /\ DOMAIN started' = DOMAIN started \cup {id} /\ started'[id] = QTime("Start", id)
      /\ \A f \in DOMAIN started : f # id => started'[f] = started[f]
  BY DEF ExecuteStart, Put, Without, QTime
<1>4. /\ \A j, f : Queued(j, f)' <=> \/ Queued(j, f) /\ ~ (j = "Start" /\ f = id)
                                     \/ comp /\ j = "End" /\ f = id
      /\ \A j, f : Queued(j, f)' /\ ~ (comp /\ j = "End" /\ f = id) => QTime(j, f)' = QTime(j, f)
  <2>1. CASE comp
    <3>1. \E v : queue' = Put(Without(queue, {<<"Start", id>>}), <<"End", id>>, v)
      BY <2>1 DEF ExecuteStart
    <3>2. QED
      BY <2>1, <3>1 DEF Put, Without, Queued, QTime
  <2>2. CASE ~ comp
    <3>1. queue' = Without(queue, {<<"Start", id>>})
      BY <2>2 DEF ExecuteStart
    <3>2. QED
      BY <2>2, <3>1, QueueTake
  <2>3. QED
    BY <2>1, <2>2
<1>5. comp <=> id \notin NetIds
  <2>1. StartsMatch
    BY <1>1 DEF StageInv
  <2>2. notStarted[id].kind = "comp" \/ notStarted[id].kind = "comm"
    BY DEF ExecuteStart
  <2>3. QED
    BY <1>3, <2>1, <2>2 DEF StartsMatch
<1>6. id \in NetIds => started'[id] = StartUs(id)
  BY <1>1, <1>3 DEF StageInv, StartsMatch
<1>7. id \notin NetIds => id \notin DOMAIN started /\ id \notin DOMAIN ended /\ ~ Queued("End", id)
  BY <1>1, <1>3 DEF StageInv, StartsMatch
<1>8. ~ Queued("Point", id)
  BY <1>1, <1>3 DEF StageInv, PointsAlone
<1> HIDE DEF comp
<1>9. NetIds' = NetIds /\ \A f : FlowTs(f)' = FlowTs(f) /\ StartUs(f)' = StartUs(f)
  BY <1>2, NetSame
<1>10. ItemsFresh' /\ LoopsFresh' /\ TodoMatch'
  BY DEF ItemsFresh, LoopsFresh, TodoMatch
<1>11. PointsAlone' /\ StartsMatch' /\ CompsMatch'
  <2>1. PointsAlone /\ StartsMatch /\ CompsMatch
    BY <1>1 DEF StageInv
  <2>2. PointsAlone'
    BY <1>2, <1>3, <1>4, <1>8, <1>9, <2>1 DEF PointsAlone
  <2>3. StartsMatch'
    BY <1>2, <1>3, <1>4, <1>9, <2>1 DEF StartsMatch
  <2>4. CompsMatch'
    BY <1>2, <1>3, <1>4, <1>5, <1>7, <1>9, <2>1 DEF CompsMatch
  <2>5. QED
    BY <2>2, <2>3, <2>4
<1>12. FlowsMatch' /\ RevivedWaited'
  <2>1. FlowsMatch /\ RevivedWaited
    BY <1>1 DEF StageInv
  <2>2. FlowsMatch'
    BY <1>2, <1>3, <1>4, <1>5, <1>6, <1>9, <2>1 DEF FlowsMatch
  <2>3. RevivedWaited'
    BY <1>2, <1>4, <1>5, <2>1 DEF RevivedWaited, NetIds
  <2>4. QED
    BY <2>2, <2>3
<1>13. RetiredSettled'
  <2>1. RetiredSettled
    BY <1>1 DEF StageInv
  <2>2. \A f \in NetIds : Settled(f) => Settled(f)'
    BY <1>2, <1>4, <1>5 DEF Settled
  <2>3. QED
    BY <1>2, <2>1, <2>2 DEF RetiredSettled, NetIds
<1>14. Located'
  <2>1. Located
    BY <1>1 DEF StageInv
  <2>2. QED
    BY <1>2, <1>3, <1>4, <1>9, <2>1 DEF Located
<1>15. QED
  BY <1>10, <1>11, <1>12, <1>13, <1>14 DEF StageInv

\* execute keeps events where they may be.
LEMMA ExecuteStage ==
  ASSUME NetInv, Execute
  PROVE  StageInv'
<1>1. CallInv
  BY NetTypes
<1>2. Items = {} /\ Loops = {} /\ Todo = {} /\ Loops' = {} /\ Todo' = {}
  BY <1>1, ExecuteViews
<1>3. PICK e \in DOMAIN queue :
        /\ ExecuteEvent(e)
        /\ e \in Events /\ queue[e] \in Nat \X Nat
        /\ Items' = IF e[1] = "Start" THEN {} ELSE FreedItems(e[2], queue[e][1])
  BY <1>1, ExecuteViews
<1>4. UNCHANGED <<cnt, netVars, revived>>
  BY <1>3 DEF ExecuteEvent
<1>5. e[2] \in Ids /\ e = <<e[1], e[2]>> /\ queue[e][1] \in Nat
  BY <1>3 DEF Events
<1>6. Queued(e[1], e[2]) /\ QTime(e[1], e[2]) = queue[e][1]
  BY <1>5 DEF Queued, QTime
<1>7. CASE ExecutePoint(e)
  <2>1. /\ e[1] = "Point" /\ queue' = Without(queue, {e})
        /\ EndEvent(e[2], queue[e][1], queue[e][1], << >>)
        /\ UNCHANGED <<notStarted, started>>
    BY <1>7 DEF ExecutePoint
  <2>2. /\ Queued("Point", e[2]) /\ queue' = Without(queue, {<<"Point", e[2]>>})
        /\ EndEvent(e[2], queue[e][1], QTime("Point", e[2]), << >>)
        /\ QTime("Point", e[2]) \in Nat
        /\ Items' = FreedItems(e[2], QTime("Point", e[2]))
    BY <1>3, <1>5, <1>6, <2>1
  <2>3. QED
    BY <1>2, <1>4, <1>5, <2>1, <2>2, EndStage
<1>8. CASE ExecuteEnd(e)
  <2>1. /\ e[1] = "End" /\ queue' = Without(queue, {e})
        /\ EndEvent(e[2], started[e[2]], queue[e][1], << >>)
        /\ e[2] \in DOMAIN started /\ started' = Without(started, {e[2]})
        /\ UNCHANGED notStarted
    BY <1>8 DEF ExecuteEnd
  <2>2. /\ Queued("End", e[2]) /\ queue' = Without(queue, {<<"End", e[2]>>})
        /\ EndEvent(e[2], started[e[2]], QTime("End", e[2]), << >>)
        /\ QTime("End", e[2]) \in Nat
        /\ Items' = FreedItems(e[2], QTime("End", e[2]))
    BY <1>3, <1>5, <1>6, <2>1
  <2>3. QED
    BY <1>2, <1>4, <1>5, <2>1, <2>2, EndStage
<1>9. CASE ExecuteStart(e)
  <2>1. e[1] = "Start"
    BY <1>9 DEF ExecuteStart
  <2>2. e = <<"Start", e[2]>> /\ Items' = {}
    BY <1>3, <1>5, <2>1
  <2>3. QED
    BY <1>2, <1>3, <1>4, <1>5, <1>9, <2>2, StartStage
<1>10. QED
  BY <1>3, <1>7, <1>8, <1>9 DEF ExecuteEvent

-----------------------------------------------------------------------------
(***************************************************************************)
(* The calls that build the graph.                                         *)
(***************************************************************************)

\* A call that only adds to pending, or pushes events that were not known yet.
LEMMA BuildStage ==
  ASSUME NetInv, UNCHANGED <<queue, notStarted, started, ended, netVars, revived>>,
         Items = {}, Loops = {}, Todo = {}, Loops' = {}, Todo' = {},
         \A x \in Items' : x.act # Finish /\ x.id \notin Known,
         \A e \in 0 .. cnt' - 1 : e \in DOMAIN pending' \/ e \in Known \/ \E x \in Items' : x.id = e
  PROVE  StageInv'
<1>1. KnownInv /\ StageInv
  BY NetTypes
<1>2. UNCHANGED <<nts, flows, retired>>
  BY DEF netVars
<1>3. \A j, f : (Queued(j, f)' <=> Queued(j, f)) /\ QTime(j, f)' = QTime(j, f)
  BY QueueSame
<1>4. NetIds' = NetIds /\ \A f : FlowTs(f)' = FlowTs(f) /\ StartUs(f)' = StartUs(f)
  BY <1>2, NetSame
<1>5. ItemsFresh'
  <2>1. \A x \in Items' : x.act # Finish /\ Untouched(x.id)
                          /\ x.id \notin DOMAIN ended /\ x.id \notin NetIds
    BY <1>1, NotKnown
  <2>2. \A f : Untouched(f)' = Untouched(f)
    BY <1>3 DEF Untouched
  <2>3. QED
    BY <1>4, <2>1, <2>2 DEF ItemsFresh
<1>6. LoopsFresh' /\ TodoMatch'
  BY DEF LoopsFresh, TodoMatch
<1>7. PointsAlone' /\ StartsMatch' /\ CompsMatch'
  <2>1. PointsAlone /\ StartsMatch /\ CompsMatch
    BY <1>1 DEF StageInv
  <2>2. QED
    BY <1>3, <1>4, <2>1 DEF PointsAlone, StartsMatch, CompsMatch
<1>8. FlowsMatch' /\ RevivedWaited'
  <2>1. FlowsMatch /\ RevivedWaited
    BY <1>1 DEF StageInv
  <2>2. FlowsMatch'
    BY <1>2, <1>3, <1>4, <2>1 DEF FlowsMatch
  <2>3. RevivedWaited'
    BY <1>2, <1>3, <2>1 DEF RevivedWaited
  <2>4. QED
    BY <2>2, <2>3
<1>9. RetiredSettled'
  <2>1. RetiredSettled
    BY <1>1 DEF StageInv
  <2>2. \A f : Settled(f) => Settled(f)'
    BY <1>2, <1>3 DEF Settled
  <2>3. QED
    BY <1>2, <2>1, <2>2 DEF RetiredSettled
<1>10. Located'
  <2>1. Located
    BY <1>1 DEF StageInv
  <2>2. \A e \in Known : e \in 0 .. cnt - 1 /\ e \notin DOMAIN pending
    BY DEF Known
  <2>3. \A e \in Known : \/ e \in DOMAIN ended \/ e \in NetIds \/ e \in DOMAIN started
                         \/ Queued("Point", e) \/ Queued("Start", e)
    BY <2>1, <2>2 DEF Located
  <2>4. QED
    BY <1>3, <1>4, <2>3 DEF Located
<1>11. QED
  BY <1>5, <1>6, <1>7, <1>8, <1>9, <1>10 DEF StageInv

\* add_action_or_point keeps events where they may be.
LEMMA AddStage ==
  ASSUME NetInv, NEW deps \in SUBSET (0 .. cnt - 1 \cup {NoneDep}), NEW act \in Actions,
         NEW t \in Nat, AddActionOrPoint(deps, act, t)
  PROVE  StageInv'
<1>1. CallInv /\ cnt \in Nat
  BY NetTypes
<1>2. Items = {} /\ Loops = {} /\ Todo = {} /\ Loops' = {} /\ Todo' = {}
  BY <1>1, AddViews
<1>3. cnt' = cnt + 1 /\ UNCHANGED <<queue, notStarted, started, ended, netVars, revived>>
  BY DEF AddActionOrPoint
<1>4. PICK now \in Nat :
        LET over == (deps \ {NoneDep}) \cap DOMAIN ended
            live == deps \ over
        IN  IF live = {}
            THEN /\ Items' = {[id |-> cnt, act |-> act, time |-> now]}
                 /\ UNCHANGED pending
            ELSE /\ pending' = Put(pending, cnt, [deps |-> live, arrive |-> now,
                                                  depEnd |-> 0, act |-> act])
                 /\ Items' = {}
  BY <1>1, AddViews
<1>5. cnt \notin Known
  BY <1>1 DEF Known
<1>6. \A e \in 0 .. cnt' - 1 : e = cnt \/ e \in DOMAIN pending \/ e \in Known
  BY <1>1, <1>3 DEF Known
<1>7. CASE Items' = {[id |-> cnt, act |-> act, time |-> now]} /\ UNCHANGED pending
  <2>1. \A x \in Items' : x.act # Finish /\ x.id \notin Known
    BY <1>5, <1>7, FinishNoAction
  <2>2. \E x \in Items' : x.id = cnt
    BY <1>7
  <2>3. \A e \in 0 .. cnt' - 1 : e \in DOMAIN pending' \/ e \in Known \/ \E x \in Items' : x.id = e
    BY <1>6, <1>7, <2>2
  <2>4. QED
    BY <1>2, <1>3, <2>1, <2>3, BuildStage
<1>8. CASE (\E v : pending' = Put(pending, cnt, v)) /\ Items' = {}
  <2>1. DOMAIN pending' = DOMAIN pending \cup {cnt}
    BY <1>8 DEF Put
  <2>2. \A e \in 0 .. cnt' - 1 : e \in DOMAIN pending' \/ e \in Known
    BY <1>6, <2>1
  <2>3. QED
    BY <1>2, <1>3, <1>8, <2>2, BuildStage
<1>9. QED
  BY <1>4, <1>7, <1>8

\* add_dependency keeps events where they may be.
LEMMA LinkStage ==
  ASSUME NetInv, NEW id \in DOMAIN pending, NEW dep \in DOMAIN pending, AddDependency(id, dep)
  PROVE  StageInv'
<1>1. CallInv
  BY NetTypes
<1>2. Items = {} /\ Loops = {} /\ Todo = {} /\ Items' = {} /\ Loops' = {} /\ Todo' = {}
  BY <1>1, LinkViews
<1>3. cnt' = cnt /\ UNCHANGED <<queue, notStarted, started, ended, netVars, revived>>
  BY DEF AddDependency
<1>4. DOMAIN pending' = DOMAIN pending
  BY DEF AddDependency
<1>5. \A e \in 0 .. cnt' - 1 : e \in DOMAIN pending' \/ e \in Known
  BY <1>3, <1>4 DEF Known
<1>6. QED
  BY <1>2, <1>3, <1>5, BuildStage

\* remove_none_dependency keeps events where they may be.
LEMMA ReleaseStage ==
  ASSUME NetInv, NEW id \in DOMAIN pending, RemoveNoneDependency(id)
  PROVE  StageInv'
<1>1. CallInv /\ TypeOK
  BY NetTypes
<1>2. Items = {} /\ Loops = {} /\ Todo = {} /\ Loops' = {} /\ Todo' = {}
  BY <1>1, ReleaseViews
<1>3. cnt' = cnt /\ UNCHANGED <<queue, notStarted, started, ended, netVars, revived>>
  BY DEF RemoveNoneDependency
<1>4. IF pending[id].deps = {NoneDep}
      THEN /\ pending' = Without(pending, {id})
           /\ Items' = {[id |-> id, act |-> pending[id].act,
                         time |-> Later(pending[id].depEnd, pending[id].arrive)]}
      ELSE /\ pending' = [pending EXCEPT ![id].deps = @ \ {NoneDep}]
           /\ Items' = {}
  BY <1>1, ReleaseViews
<1>5. id \notin Known /\ pending[id].act # Finish
  <2>1. pending[id] \in PendingRecords
    BY <1>1 DEF TypeOK, Partial
  <2>2. QED
    BY <2>1, FinishNoAction DEF PendingRecords, Known
<1>6. \A e \in 0 .. cnt' - 1 : e \in DOMAIN pending' \/ e \in Known \/ \E x \in Items' : x.id = e
  <2>1. \A e \in 0 .. cnt' - 1 : e \in DOMAIN pending \/ e \in Known
    BY <1>3 DEF Known
  <2>2. CASE pending[id].deps = {NoneDep}
    <3>1. DOMAIN pending' = DOMAIN pending \ {id}
      BY <1>4, <2>2 DEF Without
    <3>2. \E x \in Items' : x.id = id
      <4>1. PICK v, w : Items' = {[id |-> id, act |-> v, time |-> w]}
        BY <1>4, <2>2
      <4>2. [id |-> id, act |-> v, time |-> w] \in Items'
        BY <4>1
      <4>3. QED
        BY <4>2
    <3>3. QED
      BY <2>1, <3>1, <3>2
  <2>3. CASE pending[id].deps # {NoneDep}
    <3>1. DOMAIN pending' = DOMAIN pending
      BY <1>4, <2>3
    <3>2. QED
      BY <2>1, <3>1
  <2>4. QED
    BY <2>2, <2>3
<1>7. \A x \in Items' : x.act # Finish /\ x.id \notin Known
  BY <1>4, <1>5
<1>8. QED
  BY <1>2, <1>3, <1>6, <1>7, BuildStage

-----------------------------------------------------------------------------

\* Every step keeps the invariant.
LEMMA NextNetInv ==
  ASSUME NetInv, [AnyNext]_vars
  PROVE  NetInv'
<1>1. GraphInv'
  BY NextGraphInv DEF NetInv
<1>2. CASE AnyBuild
  BY <1>1, <1>2, AddStage, LinkStage, ReleaseStage DEF AnyBuild, NetInv
<1>3. CASE Internal
  BY <1>1, <1>3, PushEventStage, RollbackRunStage, RollbackFinishStage, RollbackDoneStage
     DEF Internal, NetInv
<1>4. CASE ProceedNetsim \/ Execute
  BY <1>1, <1>4, ProceedNetsimStage, ExecuteStage DEF NetInv
<1>5. CASE UNCHANGED vars
  <2>1. StageInv
    BY NetTypes
  <2>2. /\ UNCHANGED <<pending, queue, notStarted, started, ended, cnt, nts, flows, retired, revived>>
        /\ Items' = Items /\ Loops' = Loops /\ Todo' = Todo
    BY <1>5 DEF vars, queueVars, netVars, Items, Loops, Todo
  <2>3. \A j, f : (Queued(j, f)' <=> Queued(j, f)) /\ QTime(j, f)' = QTime(j, f)
    BY <2>2, QueueSame
  <2>4. NetIds' = NetIds /\ \A f : FlowTs(f)' = FlowTs(f) /\ StartUs(f)' = StartUs(f)
    BY <2>2, NetSame
  <2>5. \A f : Untouched(f)' = Untouched(f) /\ Settled(f)' = Settled(f)
    BY <2>2, <2>3 DEF Untouched, Settled
  <2>6. ItemsFresh' /\ LoopsFresh' /\ TodoMatch'
    BY <2>1, <2>2, <2>3, <2>4, <2>5 DEF StageInv, ItemsFresh, LoopsFresh, TodoMatch
  <2>7. PointsAlone' /\ StartsMatch' /\ CompsMatch'
    BY <2>1, <2>2, <2>3, <2>4 DEF StageInv, PointsAlone, StartsMatch, CompsMatch
  <2>8. FlowsMatch' /\ RevivedWaited'
    BY <2>1, <2>2, <2>3, <2>4 DEF StageInv, FlowsMatch, RevivedWaited
  <2>9. RetiredSettled' /\ Located'
    BY <2>1, <2>2, <2>3, <2>4, <2>5 DEF StageInv, RetiredSettled, Located
  <2>10. QED
    BY <1>1, <2>6, <2>7, <2>8, <2>9 DEF StageInv, NetInv
<1>6. QED
  BY <1>2, <1>3, <1>4, <1>5 DEF AnyNext

\* An empty queue and an empty network.
LEMMA InitNetInv ==
  ASSUME Init
  PROVE  NetInv
<1>1. GraphInv /\ Idle
  BY InitGraphInv DEF Init, Idle
<1>2. Items = {} /\ Loops = {} /\ Todo = {}
  BY <1>1, IdleViews
<1>3. /\ \A j, f : ~ Queued(j, f)
      /\ NetIds = {} /\ DOMAIN flows = {} /\ DOMAIN retired = {} /\ DOMAIN started = {}
      /\ DOMAIN notStarted = {} /\ DOMAIN ended = {} /\ 0 .. cnt - 1 = {}
  BY DEF Init, Queued, NetIds
<1>4. ItemsFresh /\ LoopsFresh /\ TodoMatch
  BY <1>2 DEF ItemsFresh, LoopsFresh, TodoMatch
<1>5. PointsAlone /\ StartsMatch /\ CompsMatch /\ FlowsMatch /\ RevivedWaited
  BY <1>3 DEF PointsAlone, StartsMatch, CompsMatch, FlowsMatch, RevivedWaited
<1>6. RetiredSettled /\ Located
  BY <1>3 DEF RetiredSettled, Located
<1>7. QED
  BY <1>1, <1>4, <1>5, <1>6 DEF StageInv, NetInv

\* The inductive invariant of the queue and the network.
THEOREM NetInvariant == Spec => []NetInv
<1>1. Init => NetInv
  BY InitNetInv
<1>2. NetInv /\ [Next]_vars => NetInv'
  BY NextNetInv, NextIsAny
<1>3. QED
  BY <1>1, <1>2, PTL DEF Spec

-----------------------------------------------------------------------------
(***************************************************************************)
(* What the runs check.                                                    *)
(***************************************************************************)

\* The stages of the events give unwrap what it takes.
LEMMA NetUnwrapSafe ==
  ASSUME NetInv
  PROVE  UnwrapSafe
<1>1. TypeOK /\ StageInv /\ CallInv /\ StackInv
  BY NetTypes DEF CallInv
<1>2. ASSUME NEW e \in DOMAIN queue
      PROVE  /\ e[1] = "End" => e[2] \in DOMAIN started
             /\ e[1] = "Start" => e[2] \in DOMAIN notStarted
  <2>1. e[2] \in Ids /\ e = <<e[1], e[2]>>
    BY <1>1, <1>2 DEF TypeOK, Partial, Events
  <2>2. Queued(e[1], e[2])
    BY <1>2, <2>1 DEF Queued
  <2>3. CompsMatch /\ FlowsMatch /\ StartsMatch
    BY <1>1 DEF StageInv
  <2>4. e[1] = "End" => e[2] \in DOMAIN started
    BY <2>1, <2>2, <2>3 DEF CompsMatch, FlowsMatch
  <2>5. e[1] = "Start" => e[2] \in DOMAIN notStarted
    BY <2>1, <2>2, <2>3 DEF StartsMatch
  <2>6. QED
    BY <2>4, <2>5
<1>3. ASSUME InOp("finish"), NEW r \in Head(stack).todo, r.id \in DOMAIN started
      PROVE  started[r.id] = ToUs(r.ts)
  <2>1. r \in Todo
    BY <1>1, <1>3, FinishViews
  <2>2. r.id \in DOMAIN retired /\ retired[r.id].ts = r.ts
    BY <1>1, <2>1 DEF StageInv, TodoMatch
  <2>3. r.id \notin DOMAIN flows /\ started[r.id] = StartUs(r.id)
    BY <1>1, <1>3, <2>2 DEF StageInv, FlowsMatch, NetIds
  <2>4. QED
    BY <2>2, <2>3 DEF StartUs, FlowTs
<1>4. QED
  BY <1>2, <1>3 DEF UnwrapSafe

\* execute finds what it unwraps: the End it pops is that of an event in
\* started, the Start that of one in in_queue_not_started; and a flow that
\* completes after a rollback has the start that push_event asserts.
THEOREM UnwrapsSucceed == Spec => []UnwrapSafe
BY NetUnwrapSafe, NetInvariant, PTL

\* The ends of the flows, between calls.
LEMMA NetQueueAgree ==
  ASSUME NetInv
  PROVE  QueueNetAgree
<1>1. ASSUME NetInv, Idle
      PROVE  QueueNetAgree
  <2>1. StageInv /\ Items = {} /\ Loops = {} /\ Todo = {}
    BY <1>1, NetTypes, IdleViews
  <2>2. RetiredSettled /\ RevivedWaited
    BY <2>1 DEF StageInv
  <2>3. \A f \in DOMAIN retired : Settled(f)
    BY <2>1, <2>2 DEF RetiredSettled
  <2>4. \A f \in DOMAIN flows : ~ Queued("End", f) /\ f \notin DOMAIN ended
    BY <2>1, <2>2 DEF RevivedWaited
  <2>5. QED
    BY <2>3, <2>4 DEF QueueNetAgree, Settled, Queued, QTime
<1>2. QED
  BY <1>1 DEF QueueNetAgree

\* Between calls each completed flow has one end, in the queue or recorded, and
\* it is the instant the network gave it last; an unfinished flow has none.
THEOREM QueueAndNetAgree == Spec => []QueueNetAgree
BY NetQueueAgree, NetInvariant, PTL

\* What is left of an empty queue.
LEMMA NetEmptyBarrier ==
  ASSUME NetInv
  PROVE  EmptyMeansBarrier
<1>1. ASSUME NetInv, Idle, DOMAIN queue = {}, DOMAIN flows = {}
      PROVE  0 .. cnt - 1 = DOMAIN pending \cup DOMAIN ended
  <2>1. StageInv /\ KnownInv /\ PendingAdded /\ NetIds \subseteq Ids /\ DOMAIN started \subseteq Ids
    BY <1>1, NetTypes DEF CallInv, QueueInv
  <2>2. Items = {} /\ Todo = {}
    BY <1>1, IdleViews
  <2>3. \A j, f : ~ Queued(j, f)
    BY <1>1 DEF Queued
  <2>4. NetIds = DOMAIN retired
    BY <1>1 DEF NetIds
  <2>5. \A f \in NetIds : f \in DOMAIN ended
    BY <2>1, <2>2, <2>3, <2>4 DEF StageInv, RetiredSettled, Settled
  <2>6. \A e \in DOMAIN started : e \in NetIds
    BY <2>1, <2>3 DEF StageInv, CompsMatch
  <2>7. 0 .. cnt - 1 \subseteq DOMAIN pending \cup DOMAIN ended
    BY <2>1, <2>2, <2>3, <2>5, <2>6 DEF StageInv, Located
  <2>8. DOMAIN pending \cup DOMAIN ended \subseteq 0 .. cnt - 1
    BY <2>1 DEF PendingAdded, KnownInv, Known
  <2>9. QED
    BY <2>7, <2>8
<1>2. ASSUME NetInv, NEW S \in SUBSET DOMAIN pending, S # {}
      PROVE  \E p \in S : NoneDep \in pending[p].deps \/ ~ (pending[p].deps \subseteq S)
  <2>1. Acyclic /\ NoLostWakeup
    BY <1>2 DEF NetInv, GraphInv, CallInv, QueueInv
  <2>2. PICK p \in S : pending[p].deps \cap S = {}
    BY <1>2, <2>1 DEF Acyclic
  <2>3. pending[p].deps # {}
    BY <2>1 DEF NoLostWakeup
  <2>4. QED
    BY <2>2, <2>3
<1>3. QED
  BY <1>1, <1>2 DEF EmptyMeansBarrier

\* When execute returns EmptyQueue, every event has ended or waits, through its
\* dependencies, for a barrier: no set of pending events waits on itself alone.
THEOREM EmptyQueueMeansBarrier == Spec => []EmptyMeansBarrier
BY NetEmptyBarrier, NetInvariant, PTL

-----------------------------------------------------------------------------
(***************************************************************************)
(* The times of the event queue, for any bound on the events, any times,   *)
(* durations and completion times: an event starts after each of its       *)
(* dependencies has ended, and not before the time at which it ended,      *)
(* unless a rollback has since moved that end.                             *)
(*                                                                         *)
(* The time at which an event begins is fixed when it is pushed, long      *)
(* before it is recorded: it travels as the item to push, as the priority  *)
(* of a Start or a Point, as the start of a flow in the network, and as    *)
(* the start recorded in started and in ended.  So the invariant bounds    *)
(* all of these, and for a pending event the time it will be pushed with.  *)
(***************************************************************************)

\* Event e begins at t, wherever that is recorded now.
BegunAt(e, t) ==
  \/ \E x \in Items : x.act # Finish /\ x.id = e /\ x.time = t
  \/ e \in NetIds /\ t = StartUs(e)
  \/ Queued("Start", e) /\ t = QTime("Start", e)
  \/ Queued("Point", e) /\ t = QTime("Point", e)
  \/ e \in DOMAIN started /\ t = started[e]
  \/ e \in DOMAIN ended /\ t = ended[e][1]

\* Event e begins at t or later, wherever that is or will be recorded.
NotBefore(e, t) ==
  /\ \A u : BegunAt(e, u) => u >= t
  /\ e \in DOMAIN pending => Later(pending[e].depEnd, pending[e].arrive) >= t

\* An end that no rollback has touched bounds the beginnings of its dependents,
\* the ones they will have included.
TimesInv ==
  \A d \in DOMAIN ended \ revived : \A e \in rev[d] : NotBefore(e, ended[d][2])

\* What is no flow ends when it begins or later.
SpanInv ==
  \A e \in Ids \ NetIds :
    /\ Queued("End", e) => started[e] <= QTime("End", e)
    /\ e \in DOMAIN ended => ended[e][1] <= ended[e][2]

\* Only flows are revived.
RevivedFlows == revived \subseteq NetIds

OrderInv == NetInv /\ TimesInv /\ SpanInv /\ RevivedFlows

\* A step after which every event begins no earlier than before.
BoundsKept ==
  \A e \in 0 .. cnt - 1, t \in Nat : NotBefore(e, t) => NotBefore(e, t)'

\* A step after which an event begins when it began before, or as one of items.
BeginsFrom(items) ==
  \A e, t : BegunAt(e, t)' => BegunAt(e, t) \/ \E x \in items : x.id = e /\ x.time = t

-----------------------------------------------------------------------------
(***************************************************************************)
(* What a step does to the bound.                                          *)
(***************************************************************************)

\* The types the bound needs.
LEMMA TimeTypes ==
  ASSUME NetInv
  PROVE  /\ TypeOK /\ KnownInv /\ EdgesHeld /\ StageInv
         /\ \A d \in DOMAIN ended : d \in Ids /\ d \in Known /\ ended[d][2] \in Nat
         /\ \A p \in DOMAIN pending : /\ p \in Ids /\ p \notin Known
                                      /\ pending[p].depEnd \in Nat /\ pending[p].arrive \in Nat
         /\ \A d \in Ids : \A e \in rev[d] : e \in 0 .. cnt - 1
         /\ cnt \in Nat /\ rev \in [Ids -> SUBSET Ids]
<1>1. TypeOK /\ KnownInv /\ EdgesHeld /\ StageInv /\ cnt \in Nat
  BY NetTypes DEF NetInv, GraphInv
<1>2. ASSUME NEW d \in DOMAIN ended
      PROVE  d \in Ids /\ d \in Known /\ ended[d][2] \in Nat
  <2>1. d \in Ids /\ ended[d] \in Nat \X Nat
    BY <1>1, <1>2 DEF TypeOK, Partial
  <2>2. QED
    BY <1>1, <1>2, <2>1 DEF KnownInv
<1>3. ASSUME NEW p \in DOMAIN pending
      PROVE  /\ p \in Ids /\ p \notin Known
             /\ pending[p].depEnd \in Nat /\ pending[p].arrive \in Nat
  <2>1. p \in Ids /\ pending[p] \in PendingRecords
    BY <1>1, <1>3 DEF TypeOK, Partial
  <2>2. QED
    BY <1>3, <2>1 DEF PendingRecords, Known
<1>4. QED
  BY <1>1, <1>2, <1>3 DEF KnownInv, TypeOK

\* Where an event that waits or is unknown begins is nowhere recorded.
LEMMA NotBegun ==
  ASSUME NetInv, NEW e, e \notin Known, NEW t
  PROVE  ~ BegunAt(e, t)
<1>1. KnownInv
  BY NetTypes
<1>2. QED
  BY <1>1, NotKnown DEF BegunAt, Untouched

\* A step that ends nothing, lets nothing begin and revives flows at most.
LEMMA SameTimes ==
  ASSUME TimesInv, UNCHANGED <<pending, ended, rev>>, revived \subseteq revived', BeginsFrom({})
  PROVE  TimesInv' /\ BoundsKept
BY DEF TimesInv, BoundsKept, NotBefore, BeginsFrom, Later

\* end_event: what it frees begins at the end it is called with or later, and at
\* the ends of the dependencies that ended before or later.
LEMMA EndTimes ==
  ASSUME NetInv, TimesInv, NEW id \in Known \cap Ids, NEW start, NEW end \in Nat, NEW rest,
         EndEvent(id, start, end, rest), UNCHANGED <<rev, revived>>,
         id \in DOMAIN ended => id \in revived,
         BeginsFrom(FreedItems(id, end))
  PROVE  TimesInv' /\ BoundsKept
<1>1. /\ TypeOK /\ EdgesHeld
      /\ \A d \in DOMAIN ended : d \in Ids /\ ended[d][2] \in Nat
      /\ \A p \in DOMAIN pending : p \notin Known
      /\ \A p \in DOMAIN pending : pending[p].depEnd \in Nat /\ pending[p].arrive \in Nat
  BY TimeTypes
<1>2. /\ DOMAIN pending' = DOMAIN pending \ Freed(id) /\ Freed(id) \subseteq DOMAIN pending
      /\ DOMAIN ended' = DOMAIN ended \cup {id}
      /\ \A p \in DOMAIN pending' :
           IF p \in rev[id] /\ id \in pending[p].deps
           THEN /\ pending'[p].depEnd = Later(pending[p].depEnd, end)
                /\ pending'[p].arrive = pending[p].arrive
           ELSE pending'[p] = pending[p]
  BY <1>1, EndEventFrees
<1>3. ended'[id][2] = end /\ \A d \in DOMAIN ended : d # id => ended'[d] = ended[d]
  BY DEF EndEvent, Put
<1>4. ASSUME NEW x \in FreedItems(id, end)
      PROVE  x.id \in Freed(id) /\ x.time = PushTime(x.id, end)
  BY <1>1, FreedTypes
<1>5. ASSUME NEW e, NEW t0 \in Nat, NotBefore(e, t0)
      PROVE  NotBefore(e, t0)'
  <2>1. ASSUME NEW t, BegunAt(e, t)'
        PROVE  t >= t0
    <3>1. CASE BegunAt(e, t)
      BY <1>5, <3>1 DEF NotBefore
    <3>2. CASE \E x \in FreedItems(id, end) : x.id = e /\ x.time = t
      <4>1. e \in DOMAIN pending /\ t = PushTime(e, end)
        BY <1>2, <1>4, <3>2
      <4>2. QED
        BY <1>1, <1>5, <4>1 DEF NotBefore, PushTime, Later
    <3>3. QED
      BY <2>1, <3>1, <3>2 DEF BeginsFrom
  <2>2. ASSUME e \in DOMAIN pending'
        PROVE  Later(pending'[e].depEnd, pending'[e].arrive) >= t0
    BY <1>1, <1>2, <1>5, <2>2 DEF NotBefore, Later
  <2>3. QED
    BY <2>1, <2>2 DEF NotBefore
<1>6. ASSUME NEW d \in DOMAIN ended' \ revived', NEW e \in rev'[d]
      PROVE  NotBefore(e, ended[d][2])'
  <2>1. CASE d # id
    <3>1. /\ d \in DOMAIN ended \ revived /\ e \in rev[d] /\ ended'[d][2] = ended[d][2]
      BY <1>1, <1>2, <1>3, <1>6, <2>1
    <3>2. PICK t0 \in Nat : t0 = ended[d][2]
      BY <1>1, <3>1
    <3>3. NotBefore(e, t0)
      BY <3>1, <3>2 DEF TimesInv
    <3>4. NotBefore(e, t0)'
      BY <1>5, <3>3
    <3>5. QED
      BY <3>1, <3>2, <3>4 DEF NotBefore
  <2>2. CASE d = id
    <3>1. d \notin DOMAIN ended /\ e \in rev[id] /\ ended'[d][2] = end
      BY <1>3, <1>6, <2>2
    <3>2. e \in DOMAIN pending /\ id \in pending[e].deps
      BY <1>1, <2>2, <3>1 DEF EdgesHeld
    <3>3. ASSUME NEW t, BegunAt(e, t)'
          PROVE  t >= end
      <4>1. ~ BegunAt(e, t)
        BY <1>1, <3>2, NotBegun
      <4>2. PICK x \in FreedItems(id, end) : x.id = e /\ x.time = t
        BY <3>3, <4>1 DEF BeginsFrom
      <4>3. t = PushTime(e, end)
        BY <1>4, <4>2
      <4>4. QED
        BY <1>1, <3>2, <4>3 DEF PushTime, Later
    <3>4. ASSUME e \in DOMAIN pending'
          PROVE  Later(pending'[e].depEnd, pending'[e].arrive) >= end
      BY <1>1, <1>2, <3>1, <3>2, <3>4 DEF Later
    <3>5. QED
      BY <3>1, <3>3, <3>4 DEF NotBefore
  <2>3. QED
    BY <2>1, <2>2
<1>7. QED
  BY <1>5, <1>6 DEF TimesInv, BoundsKept

-----------------------------------------------------------------------------
(***************************************************************************)
(* Where a step records beginnings.                                        *)
(***************************************************************************)

\* push_event: what is pushed begins at the time of its item.
LEMMA PushEventTimes ==
  ASSUME NetInv, TimesInv, PushEvent
  PROVE  TimesInv' /\ BoundsKept
<1>1. CallInv /\ StageInv
  BY NetTypes
<1>2. PICK x \in Items :
        /\ PushPlain(x) \/ PushComputation(x) \/ PushFlow(x)
        /\ Items' = Items \ {x}
  BY <1>1, PushEventViews
<1>3. UNCHANGED <<pending, started, ended, rev>>
  BY DEF PushEvent
<1>4. x.id \in Ids /\ x.time \in Nat
  BY NetTypes
<1>5. CASE PushPlain(x)
  <2>1. UNCHANGED <<flows, retired, revived>>
    BY <1>5 DEF PushPlain, netVars
  <2>2. NetIds' = NetIds /\ \A f : StartUs(f)' = StartUs(f)
    BY <2>1, NetSame
  <2>3. CASE x.act = Point /\ queue' = Put(queue, <<"Point", x.id>>, <<x.time, qcnt>>)
    <3>1. x.act # Finish
      BY <2>3 DEF Point, Finish
    <3>2. /\ \A j, f : Queued(j, f)' <=> Queued(j, f) \/ (j = "Point" /\ f = x.id)
          /\ QTime("Point", x.id)' = x.time
          /\ \A j, f : Queued(j, f) /\ ~ (j = "Point" /\ f = x.id) => QTime(j, f)' = QTime(j, f)
      BY <2>3, QueuePut
    <3>3. BeginsFrom({})
      BY <1>2, <1>3, <2>2, <3>1, <3>2 DEF BeginsFrom, BegunAt
    <3>4. QED
      BY <1>3, <2>1, <3>3, SameTimes
  <2>4. CASE queue' = Put(queue, <<"End", x.id>>, <<x.time, qcnt>>)
    <3>1. /\ \A j, f : Queued(j, f)' <=> Queued(j, f) \/ (j = "End" /\ f = x.id)
          /\ \A j, f : Queued(j, f) /\ ~ (j = "End" /\ f = x.id) => QTime(j, f)' = QTime(j, f)
      BY <2>4, QueuePut
    <3>2. BeginsFrom({})
      BY <1>2, <1>3, <2>2, <3>1 DEF BeginsFrom, BegunAt
    <3>3. QED
      BY <1>3, <2>1, <3>2, SameTimes
  <2>5. QED
    BY <1>5, <2>3, <2>4 DEF PushPlain
<1>6. CASE PushComputation(x)
  <2>1. x.act.kind = "comp" /\ EnqueueStart(x.id, x.act, x.time, qcnt) /\ UNCHANGED <<flows, retired, revived>>
    BY <1>6 DEF PushComputation, netVars
  <2>2. NetIds' = NetIds /\ \A f : StartUs(f)' = StartUs(f)
    BY <2>1, NetSame
  <2>3. x.act # Finish
    BY <2>1 DEF Finish
  <2>4. /\ \A j, f : Queued(j, f)' <=> Queued(j, f) \/ (j = "Start" /\ f = x.id)
        /\ QTime("Start", x.id)' = x.time
        /\ \A j, f : Queued(j, f) /\ ~ (j = "Start" /\ f = x.id) => QTime(j, f)' = QTime(j, f)
    BY <2>1, QueuePut DEF EnqueueStart
  <2>5. BeginsFrom({})
    BY <1>2, <1>3, <2>2, <2>3, <2>4 DEF BeginsFrom, BegunAt
  <2>6. QED
    BY <1>3, <2>1, <2>5, SameTimes
<1>7. CASE PushFlow(x)
  <2>1. x.act.kind = "comm" /\ NetArrive(x.id, x.time * NsPerUs)
    BY <1>7 DEF PushFlow
  <2>2. x.act # Finish /\ x.id \notin NetIds
    BY <1>1, <2>1 DEF StageInv, ItemsFresh, Finish
  <2>3. /\ NetIds' = NetIds \cup {x.id} /\ FlowTs(x.id)' = x.time * NsPerUs
        /\ \A f \in NetIds : StartUs(f)' = StartUs(f)
    <3>1. DOMAIN flows \cap DOMAIN retired = {}
      BY <1>1 DEF StageInv, FlowsMatch
    <3>2. QED
      BY <2>1, <2>2, <3>1, NetArriveMoves
  <2>4. StartUs(x.id)' = x.time
    <3>1. StartUs(x.id)' = ToUs(FlowTs(x.id)')
      BY DEF StartUs, ToUs
    <3>2. QED
      BY <1>4, <2>3, <3>1, ToUsExact
  <2>5. CASE EnqueueStart(x.id, x.act, x.time, qcnt) /\ UNCHANGED revived
    <3>1. /\ \A j, f : Queued(j, f)' <=> Queued(j, f) \/ (j = "Start" /\ f = x.id)
          /\ QTime("Start", x.id)' = x.time
          /\ \A j, f : Queued(j, f) /\ ~ (j = "Start" /\ f = x.id) => QTime(j, f)' = QTime(j, f)
      BY <2>5, QueuePut DEF EnqueueStart
    <3>2. BeginsFrom({})
      BY <1>2, <1>3, <2>2, <2>3, <2>4, <3>1 DEF BeginsFrom, BegunAt
    <3>3. QED
      BY <1>3, <2>5, <3>2, SameTimes
  <2>6. CASE UNCHANGED queue /\ revived \subseteq revived'
    <3>1. \A j, f : (Queued(j, f)' <=> Queued(j, f)) /\ QTime(j, f)' = QTime(j, f)
      BY <2>6, QueueSame
    <3>2. BeginsFrom({})
      BY <1>2, <1>3, <2>2, <2>3, <2>4, <3>1 DEF BeginsFrom, BegunAt
    <3>3. QED
      BY <1>3, <2>6, <3>2, SameTimes
  <2>7. QED
    BY <1>7, <2>5, <2>6 DEF PushFlow
<1>8. QED
  BY <1>2, <1>5, <1>6, <1>7

\* Running the network moves no start.
LEMMA RollbackRunTimes ==
  ASSUME NetInv, TimesInv, RollbackRun
  PROVE  TimesInv' /\ BoundsKept
<1>1. CallInv /\ StageInv
  BY NetTypes
<1>2. UNCHANGED <<pending, queue, started, ended, rev, revived>>
  BY DEF RollbackRun, queueVars
<1>3. Items' = Items
  BY <1>1, RollbackRunViews
<1>4. PICK t \in NextCompletions, done \in SUBSET DOMAIN flows : NetRun(t, done)
  BY DEF RollbackRun
<1>5. NetIds' = NetIds /\ \A f \in NetIds : StartUs(f)' = StartUs(f)
  <2>1. DOMAIN flows \cap DOMAIN retired = {}
    BY <1>1 DEF StageInv, FlowsMatch
  <2>2. QED
    BY <1>4, <2>1, NetRunMoves
<1>6. \A j, f : (Queued(j, f)' <=> Queued(j, f)) /\ QTime(j, f)' = QTime(j, f)
  BY <1>2, QueueSame
<1>7. BeginsFrom({})
  BY <1>2, <1>3, <1>5, <1>6 DEF BeginsFrom, BegunAt
<1>8. QED
  BY <1>2, <1>7, SameTimes

\* A completed flow enters started, or ends, with the start the network knows.
LEMMA RollbackFinishTimes ==
  ASSUME NetInv, TimesInv, RollbackFinish
  PROVE  TimesInv' /\ BoundsKept
<1>1. CallInv /\ StageInv /\ KnownInv /\ nts \in Nat
  BY NetTypes
<1>2. PICK r \in Todo :
        \/ FinishPushed(r) /\ Items' = FreedItems(r.id, ToUs(nts)) \cup Items
        \/ FinishOther(r) /\ Items' = Items
  BY <1>1, RollbackFinishViews
<1>3. /\ Loops # {} /\ Head(stack).at = nts
      /\ \A l \in Loops : l.id = Head(stack).id /\ l.time = Head(stack).time
  BY <1>1, RollbackFinishViews
<1>4. UNCHANGED <<rev, flows, retired, revived>>
  BY DEF RollbackFinish, netVars
<1>5. NetIds' = NetIds /\ \A f : StartUs(f)' = StartUs(f)
  BY <1>4, NetSame
<1>6. /\ r.id \in Ids /\ r.id \in Known /\ r.id \in DOMAIN retired /\ retired[r.id].ts = r.ts
      /\ r.id \notin DOMAIN flows /\ r.id \in NetIds
  <2>1. r.id \in DOMAIN retired /\ retired[r.id].ts = r.ts
    BY <1>1 DEF StageInv, TodoMatch
  <2>2. r.id \notin DOMAIN flows /\ r.id \in NetIds
    BY <1>1, <2>1 DEF StageInv, FlowsMatch, NetIds
  <2>3. QED
    BY <1>1, <2>1, <2>2, NetTypes DEF KnownInv
<1>7. CASE FinishPushed(r) /\ Items' = FreedItems(r.id, ToUs(nts)) \cup Items
  <2>1. PICK l \in Loops : TRUE
    BY <1>3
  <2>2. /\ UNCHANGED <<queue, started>> /\ r.id = l.id
        /\ EndEvent(r.id, l.time, ToUs(nts), Rest(r))
    BY <1>3, <1>7, <2>1 DEF FinishPushed
  <2>3. StartUs(r.id) = l.time /\ r.id \notin DOMAIN ended
    <3>1. FlowTs(l.id) = l.time * NsPerUs /\ l.time \in Nat
      BY <1>1, NetTypes DEF StageInv, LoopsFresh
    <3>2. r.id \notin DOMAIN ended
      BY <1>1, <2>2 DEF StageInv, TodoMatch
    <3>3. QED
      BY <2>2, <3>1, <3>2, ToUsExact DEF StartUs
  <2>4. /\ DOMAIN ended' = DOMAIN ended \cup {r.id} /\ ended'[r.id][1] = l.time
        /\ \A d \in DOMAIN ended : d # r.id => ended'[d] = ended[d]
    BY <2>2 DEF EndEvent, Put
  <2>5. \A j, f : (Queued(j, f)' <=> Queued(j, f)) /\ QTime(j, f)' = QTime(j, f)
    BY <2>2, QueueSame
  <2>6. BeginsFrom(FreedItems(r.id, ToUs(nts)))
    BY <1>5, <1>6, <1>7, <2>2, <2>3, <2>4, <2>5 DEF BeginsFrom, BegunAt
  <2>7. QED
    BY <1>1, <1>4, <1>6, <2>2, <2>3, <2>6, TicksNat, EndTimes
<1>8. CASE FinishOther(r) /\ Items' = Items
  <2>1. UNCHANGED <<pending, ended>>
    BY <1>8 DEF FinishOther
  <2>2. /\ \A j, f : Queued(j, f)' <=> Queued(j, f) \/ (j = "End" /\ f = r.id)
        /\ \A j, f : Queued(j, f) /\ ~ (j = "End" /\ f = r.id) => QTime(j, f)' = QTime(j, f)
    <3>1. PICK v, w : queue' = Put(queue, <<"End", r.id>>, <<v, w>>)
      BY <1>8 DEF FinishOther
    <3>2. QED
      BY <3>1, QueuePut
  <2>3. /\ DOMAIN started' = DOMAIN started \cup {r.id} /\ started'[r.id] = ToUs(r.ts)
        /\ \A f \in DOMAIN started : f # r.id => started'[f] = started[f]
    BY <1>8 DEF FinishOther, Put
  <2>4. StartUs(r.id) = ToUs(r.ts)
    BY <1>6 DEF StartUs, FlowTs
  <2>5. BeginsFrom({})
    BY <1>5, <1>6, <1>8, <2>1, <2>2, <2>3, <2>4 DEF BeginsFrom, BegunAt
  <2>6. QED
    BY <1>4, <2>1, <2>5, SameTimes
<1>9. QED
  BY <1>2, <1>7, <1>8

\* The flow of the loop enters the queue at its start.
LEMMA RollbackDoneTimes ==
  ASSUME NetInv, TimesInv, RollbackDone
  PROVE  TimesInv' /\ BoundsKept
<1>1. CallInv /\ StageInv
  BY NetTypes
<1>2. Items' = Items /\ Loops = {Head(stack)}
  BY <1>1, RollbackDoneViews
<1>3. UNCHANGED <<pending, started, ended, rev, flows, retired, revived>>
  BY DEF RollbackDone, netVars
<1>4. PICK l \in Loops : l = Head(stack)
  BY <1>2
<1>5. NetIds' = NetIds /\ \A f : StartUs(f)' = StartUs(f)
  BY <1>3, NetSame
<1>6. l.id \in NetIds /\ StartUs(l.id) = l.time
  <2>1. l.id \in NetIds /\ FlowTs(l.id) = l.time * NsPerUs /\ l.time \in Nat
    BY <1>1, NetTypes DEF StageInv, LoopsFresh
  <2>2. QED
    BY <2>1, ToUsExact DEF StartUs
<1>7. CASE UNCHANGED queue
  <2>1. \A j, f : (Queued(j, f)' <=> Queued(j, f)) /\ QTime(j, f)' = QTime(j, f)
    BY <1>7, QueueSame
  <2>2. BeginsFrom({})
    BY <1>2, <1>3, <1>5, <2>1 DEF BeginsFrom, BegunAt
  <2>3. QED
    BY <1>3, <2>2, SameTimes
<1>8. CASE EnqueueStart(l.id, Comm, l.time, l.n)
  <2>1. /\ \A j, f : Queued(j, f)' <=> Queued(j, f) \/ (j = "Start" /\ f = l.id)
        /\ QTime("Start", l.id)' = l.time
        /\ \A j, f : Queued(j, f) /\ ~ (j = "Start" /\ f = l.id) => QTime(j, f)' = QTime(j, f)
    BY <1>8, QueuePut DEF EnqueueStart
  <2>2. BeginsFrom({})
    BY <1>2, <1>3, <1>5, <1>6, <2>1 DEF BeginsFrom, BegunAt
  <2>3. QED
    BY <1>3, <2>2, SameTimes
<1>9. QED
  BY <1>4, <1>7, <1>8 DEF RollbackDone

\* The Ends of the network begin nothing.
LEMMA ProceedNetsimTimes ==
  ASSUME NetInv, TimesInv, ProceedNetsim
  PROVE  TimesInv' /\ BoundsKept
<1>1. CallInv /\ StageInv
  BY NetTypes
<1>2. UNCHANGED <<pending, queue, started, ended, rev, revived>>
  BY DEF ProceedNetsim, queueVars
<1>3. PICK t \in NextCompletions, done \in SUBSET DOMAIN flows :
        /\ NetRun(t, done)
        /\ Items' = {[id |-> f, act |-> Finish, time |-> ToUs(t)] : f \in done}
  BY <1>1, ProceedNetsimViews
<1>4. NetIds' = NetIds /\ \A f \in NetIds : StartUs(f)' = StartUs(f)
  <2>1. DOMAIN flows \cap DOMAIN retired = {}
    BY <1>1 DEF StageInv, FlowsMatch
  <2>2. QED
    BY <1>3, <2>1, NetRunMoves
<1>5. \A j, f : (Queued(j, f)' <=> Queued(j, f)) /\ QTime(j, f)' = QTime(j, f)
  BY <1>2, QueueSame
<1>6. \A x \in Items' : x.act = Finish
  BY <1>3
<1>7. BeginsFrom({})
  BY <1>2, <1>4, <1>5, <1>6 DEF BeginsFrom, BegunAt
<1>8. QED
  BY <1>2, <1>7, SameTimes

\* execute: a Start or a Point is recorded at its priority, and an event that
\* ends again has been revived.
LEMMA ExecuteTimes ==
  ASSUME NetInv, TimesInv, Execute
  PROVE  TimesInv' /\ BoundsKept
<1>1. CallInv /\ StageInv /\ KnownInv
  BY NetTypes
<1>2. Items = {} /\ Loops = {} /\ Todo = {}
  BY <1>1, ExecuteViews
<1>3. PICK e \in DOMAIN queue :
        /\ ExecuteEvent(e)
        /\ e \in Events /\ queue[e] \in Nat \X Nat
        /\ Items' = IF e[1] = "Start" THEN {} ELSE FreedItems(e[2], queue[e][1])
  BY <1>1, ExecuteViews
<1> DEFINE id == e[2]
           time == queue[e][1]
<1>4. UNCHANGED <<rev, flows, retired, revived>>
  BY <1>3 DEF ExecuteEvent, netVars
<1>5. id \in Known \cap Ids /\ time \in Nat /\ e = <<e[1], id>>
  BY <1>1, <1>3 DEF KnownInv, Events
<1>6. Queued(e[1], id) /\ QTime(e[1], id) = time
  BY <1>5 DEF Queued, QTime
<1>7. NetIds' = NetIds /\ \A f : StartUs(f)' = StartUs(f)
  BY <1>4, NetSame
<1> HIDE DEF id, time
<1>8. ASSUME NEW start, e[1] # "Start", EndEvent(id, start, time, << >>),
             queue' = Without(queue, {e}), id \in DOMAIN ended => id \in revived,
             DOMAIN started' \subseteq DOMAIN started,
             \A f \in DOMAIN started' : started'[f] = started[f], BegunAt(id, start)
      PROVE  TimesInv' /\ BoundsKept
  <2>1. /\ DOMAIN ended' = DOMAIN ended \cup {id} /\ ended'[id][1] = start
        /\ \A d \in DOMAIN ended : d # id => ended'[d] = ended[d]
    BY <1>8 DEF EndEvent, Put
  <2>2. /\ \A j, f : Queued(j, f)' => Queued(j, f)
        /\ \A j, f : Queued(j, f)' => QTime(j, f)' = QTime(j, f)
    BY <1>5, <1>8, QueueTake
  <2>3. Items' = FreedItems(id, time)
    BY <1>3, <1>8 DEF id, time
  <2>4. BeginsFrom(FreedItems(id, time))
    <3>1. ASSUME NEW f, NEW t, BegunAt(f, t)'
          PROVE  BegunAt(f, t) \/ \E x \in FreedItems(id, time) : x.id = f /\ x.time = t
      <4>1. CASE f \in DOMAIN ended' /\ t = ended'[f][1]
        <5>1. CASE f = id
          BY <1>8, <2>1, <4>1, <5>1
        <5>2. CASE f # id
          BY <2>1, <4>1, <5>2 DEF BegunAt
        <5>3. QED
          BY <5>1, <5>2
      <4>2. CASE ~ (f \in DOMAIN ended' /\ t = ended'[f][1])
        BY <1>7, <1>8, <2>2, <2>3, <3>1, <4>2 DEF BegunAt
      <4>3. QED
        BY <4>1, <4>2
    <3>2. QED
      BY <3>1 DEF BeginsFrom
  <2>5. QED
    BY <1>4, <1>5, <1>8, <2>4, EndTimes
<1>9. CASE ExecutePoint(e)
  <2>1. /\ e[1] = "Point" /\ queue' = Without(queue, {e}) /\ UNCHANGED started
        /\ EndEvent(id, time, time, << >>)
    BY <1>9 DEF ExecutePoint, id, time
  <2>2. id \notin DOMAIN ended
    BY <1>1, <1>5, <1>6, <2>1 DEF StageInv, PointsAlone
  <2>3. BegunAt(id, time)
    BY <1>6, <2>1 DEF BegunAt
  <2>4. QED
    BY <1>8, <2>1, <2>2, <2>3
<1>10. CASE ExecuteEnd(e)
  <2>1. /\ e[1] = "End" /\ queue' = Without(queue, {e})
        /\ id \in DOMAIN started /\ started' = Without(started, {id})
        /\ EndEvent(id, started[id], time, << >>)
    BY <1>10 DEF ExecuteEnd, id, time
  <2>2. id \in DOMAIN ended => id \in revived
    BY <1>1, <1>5, <1>6, <2>1 DEF StageInv, CompsMatch, FlowsMatch
  <2>3. BegunAt(id, started[id])
    BY <2>1 DEF BegunAt
  <2>4. /\ DOMAIN started' \subseteq DOMAIN started
        /\ \A f \in DOMAIN started' : started'[f] = started[f]
    BY <2>1 DEF Without
  <2>5. QED
    BY <1>8, <2>1, <2>2, <2>3, <2>4
<1>11. CASE ExecuteStart(e)
  <2>1. /\ e[1] = "Start" /\ UNCHANGED <<pending, ended>>
        /\ DOMAIN started' = DOMAIN started \cup {id} /\ started'[id] = time
        /\ \A f \in DOMAIN started : f # id => started'[f] = started[f]
    BY <1>11 DEF ExecuteStart, Put, id, time
  <2>2. Items' = {}
    BY <1>3, <2>1
  <2>3. \A k \in {"Start", "Point"} : \A f : Queued(k, f)' => Queued(k, f) /\ QTime(k, f)' = QTime(k, f)
    <3>1. \/ queue' = Without(queue, {e})
          \/ \E v : queue' = Put(Without(queue, {e}), <<"End", id>>, v)
      BY <1>11 DEF ExecuteStart, id
    <3>2. QED
      BY <3>1 DEF Put, Without, Queued, QTime
  <2>4. BeginsFrom({})
    BY <1>6, <1>7, <2>1, <2>2, <2>3 DEF BeginsFrom, BegunAt
  <2>5. QED
    BY <1>4, <2>1, <2>4, SameTimes
<1>12. QED
  BY <1>3, <1>9, <1>10, <1>11 DEF ExecuteEvent

\* A call that only adds what it pushes.
LEMMA BuildBegins ==
  ASSUME UNCHANGED <<queue, started, ended, netVars>>
  PROVE  BeginsFrom(Items')
<1>1. UNCHANGED <<flows, retired>>
  BY DEF netVars
<1>2. NetIds' = NetIds /\ \A f : StartUs(f)' = StartUs(f)
  BY <1>1, NetSame
<1>3. \A j, f : (Queued(j, f)' <=> Queued(j, f)) /\ QTime(j, f)' = QTime(j, f)
  BY QueueSame
<1>4. QED
  BY <1>2, <1>3 DEF BeginsFrom, BegunAt

\* add_action_or_point: the event arrives no earlier than the dependencies that
\* are over have ended.
LEMMA AddTimes ==
  ASSUME NetInv, TimesInv, NEW deps \in SUBSET (0 .. cnt - 1 \cup {NoneDep}),
         NEW act \in Actions, NEW t \in Nat, AddActionOrPoint(deps, act, t),
         NEW n, n = cnt
  PROVE  TimesInv' /\ BoundsKept /\ NotBefore(n, t)'
<1>1. CallInv
  BY NetTypes
<1> DEFINE over == (deps \ {NoneDep}) \cap DOMAIN ended
           live == deps \ over
<1>2. /\ UNCHANGED <<queue, started, ended, netVars, revived>>
      /\ rev' = [d \in Ids |-> IF d \in deps \ {NoneDep} THEN rev[d] \cup {cnt} ELSE rev[d]]
  BY DEF AddActionOrPoint
<1>3. PICK now \in Nat :
        /\ IsArrival(now, t, over)
        /\ IF live = {}
           THEN /\ Items' = {[id |-> cnt, act |-> act, time |-> now]}
                /\ UNCHANGED pending
           ELSE /\ pending' = Put(pending, cnt, [deps |-> live, arrive |-> now,
                                                 depEnd |-> 0, act |-> act])
                /\ Items' = {}
  BY <1>1, AddViews
<1> HIDE DEF live
<1>4. /\ \A d \in DOMAIN ended : d \in Ids /\ ended[d][2] \in Nat
      /\ \A d \in Ids : \A e \in rev[d] : e \in 0 .. cnt - 1
      /\ cnt \in Nat /\ cnt \notin Known
  BY TimeTypes DEF Known
<1>5. BeginsFrom(Items')
  BY <1>2, BuildBegins
<1>6. \A x \in Items' : x.id = cnt /\ x.time = now
  BY <1>3
<1>7. /\ \A p \in DOMAIN pending' : p = cnt \/ (p \in DOMAIN pending /\ pending'[p] = pending[p])
      /\ cnt \notin DOMAIN pending =>
           (cnt \in DOMAIN pending' => pending'[cnt].depEnd = 0 /\ pending'[cnt].arrive = now)
  BY <1>3 DEF Put
<1>8. cnt \notin DOMAIN pending
  BY <1>1, <1>4 DEF CallInv, QueueInv, PendingAdded
<1>9. ASSUME NEW e \in 0 .. cnt - 1, NEW t0, NotBefore(e, t0)
      PROVE  NotBefore(e, t0)'
  <2>1. e # cnt
    BY <1>4
  <2>2. \A u : BegunAt(e, u)' => BegunAt(e, u)
    BY <1>5, <1>6, <2>1 DEF BeginsFrom
  <2>3. QED
    BY <1>7, <1>9, <2>1, <2>2 DEF NotBefore
<1>10. ASSUME NEW t0 \in Nat, now >= t0
       PROVE  NotBefore(n, t0)'
  <2>1. \A u : ~ BegunAt(n, u)
    BY <1>4, NotBegun
  <2>2. \A u : BegunAt(n, u)' => u = now
    BY <1>5, <1>6, <2>1 DEF BeginsFrom
  <2>3. QED
    BY <1>7, <1>8, <1>10, <2>2 DEF NotBefore, Later
<1>11. ASSUME NEW d \in DOMAIN ended \ revived, NEW e \in rev'[d]
       PROVE  NotBefore(e, ended[d][2])'
  <2>1. PICK t0 \in Nat : t0 = ended[d][2]
    BY <1>4, <1>11
  <2>2. CASE e \in rev[d]
    <3>1. e \in 0 .. cnt - 1 /\ NotBefore(e, t0)
      BY <1>4, <1>11, <2>1, <2>2 DEF TimesInv
    <3>2. NotBefore(e, t0)'
      BY <1>9, <3>1
    <3>3. QED
      BY <1>2, <2>1, <3>2 DEF NotBefore
  <2>3. CASE e \notin rev[d]
    <3>1. e = cnt /\ d \in over
      BY <1>2, <1>4, <1>11, <2>3
    <3>2. now >= t0
      BY <1>3, <2>1, <3>1 DEF IsArrival
    <3>3. NotBefore(n, t0)'
      BY <1>10, <3>2
    <3>4. QED
      BY <1>2, <2>1, <3>1, <3>3 DEF NotBefore
  <2>4. QED
    BY <2>2, <2>3
<1>12. NotBefore(n, t)'
  BY <1>3, <1>10 DEF IsArrival
<1>13. QED
  BY <1>2, <1>9, <1>11, <1>12 DEF TimesInv, BoundsKept

\* add_dependency: the new dependency has not ended.
LEMMA LinkTimes ==
  ASSUME NetInv, TimesInv, NEW id \in DOMAIN pending, NEW dep \in DOMAIN pending,
         AddDependency(id, dep)
  PROVE  TimesInv' /\ BoundsKept
<1>1. CallInv /\ dep \notin DOMAIN ended
      /\ \A d \in DOMAIN ended : d \in Ids
      /\ rev \in [Ids -> SUBSET Ids]
  BY NetTypes, TimeTypes
<1>2. /\ UNCHANGED <<queue, started, ended, netVars, revived>>
      /\ rev' = [rev EXCEPT ![dep] = @ \cup {id}]
  BY DEF AddDependency
<1>3. Items' = {}
  BY <1>1, LinkViews
<1>4. BeginsFrom({})
  BY <1>2, <1>3, BuildBegins
<1>5. \A d \in DOMAIN ended : rev'[d] = rev[d]
  BY <1>1, <1>2
<1>6. DOMAIN pending' = DOMAIN pending
      /\ \A p \in DOMAIN pending : pending'[p].depEnd = pending[p].depEnd
                                   /\ pending'[p].arrive = pending[p].arrive
  <2>1. \A p \in DOMAIN pending : pending[p] \in PendingRecords
    BY TimeTypes DEF TypeOK, Partial
  <2>2. pending' = [pending EXCEPT ![id].deps = @ \cup {dep}]
    BY <1>1 DEF AddDependency
  <2>3. QED
    BY <2>1, <2>2 DEF PendingRecords
<1>7. QED
  BY <1>2, <1>4, <1>5, <1>6 DEF TimesInv, BoundsKept, NotBefore, BeginsFrom

\* remove_none_dependency: what is released begins when it would have been pushed.
LEMMA ReleaseTimes ==
  ASSUME NetInv, TimesInv, NEW id \in DOMAIN pending, RemoveNoneDependency(id)
  PROVE  TimesInv' /\ BoundsKept
<1>1. CallInv
  BY NetTypes
<1>2. UNCHANGED <<queue, started, ended, rev, netVars, revived>>
  BY DEF RemoveNoneDependency
<1>3. IF pending[id].deps = {NoneDep}
      THEN /\ pending' = Without(pending, {id})
           /\ Items' = {[id |-> id, act |-> pending[id].act,
                         time |-> Later(pending[id].depEnd, pending[id].arrive)]}
      ELSE /\ pending' = [pending EXCEPT ![id].deps = @ \ {NoneDep}]
           /\ Items' = {}
  BY <1>1, ReleaseViews
<1>4. BeginsFrom(Items')
  BY <1>2, BuildBegins
<1>5. \A x \in Items' : x.id = id /\ x.time = Later(pending[id].depEnd, pending[id].arrive)
  BY <1>3
<1>6. /\ DOMAIN pending' \subseteq DOMAIN pending
      /\ \A p \in DOMAIN pending' : pending'[p].depEnd = pending[p].depEnd
                                    /\ pending'[p].arrive = pending[p].arrive
  <2>1. \A p \in DOMAIN pending : pending[p] \in PendingRecords
    BY TimeTypes DEF TypeOK, Partial
  <2>2. CASE pending' = Without(pending, {id})
    BY <2>2 DEF Without
  <2>3. CASE pending' = [pending EXCEPT ![id].deps = @ \ {NoneDep}]
    BY <2>1, <2>3 DEF PendingRecords
  <2>4. QED
    BY <1>3, <2>2, <2>3
<1>7. QED
  BY <1>2, <1>4, <1>5, <1>6 DEF TimesInv, BoundsKept, NotBefore, BeginsFrom

\* A step moves the ends of one event at most.
LEMMA SpanKept ==
  ASSUME SpanInv, NetIds \subseteq NetIds', NEW id,
         \A f \in Ids \ {id} :
           /\ Queued("End", f)' => /\ Queued("End", f) /\ QTime("End", f)' = QTime("End", f)
                                  /\ started'[f] = started[f]
           /\ f \in DOMAIN ended' => f \in DOMAIN ended /\ ended'[f] = ended[f],
         \/ id \notin Ids \ NetIds'
         \/ /\ Queued("End", id)' => started'[id] <= QTime("End", id)'
            /\ id \in DOMAIN ended' => ended'[id][1] <= ended'[id][2]
  PROVE  SpanInv'
<1>1. ASSUME NEW e \in Ids \ NetIds'
      PROVE  /\ Queued("End", e)' => started'[e] <= QTime("End", e)'
             /\ e \in DOMAIN ended' => ended'[e][1] <= ended'[e][2]
  <2>1. CASE e = id
    BY <1>1, <2>1
  <2>2. CASE e # id
    BY <1>1, <2>2 DEF SpanInv
  <2>3. QED
    BY <2>1, <2>2
<1>2. QED
  BY <1>1 DEF SpanInv

\* A step that touches neither the ends in the queue nor those recorded.
LEMMA SpanSame ==
  ASSUME SpanInv, NetIds \subseteq NetIds', UNCHANGED <<started, ended>>,
         \A f \in Ids : Queued("End", f)' => Queued("End", f) /\ QTime("End", f)' = QTime("End", f)
  PROVE  SpanInv'
BY DEF SpanInv

\* push_event queues the End of a flow, or no End, and revives flows.
LEMMA PushEventSpan ==
  ASSUME NetInv, SpanInv, RevivedFlows, PushEvent
  PROVE  SpanInv' /\ RevivedFlows'
<1>1. CallInv /\ StageInv
  BY NetTypes
<1>2. PICK x \in Items : PushPlain(x) \/ PushComputation(x) \/ PushFlow(x)
  BY <1>1, PushEventViews
<1>3. UNCHANGED <<started, ended>>
  BY DEF PushEvent
<1>4. CASE PushPlain(x) /\ x.act = Finish
  <2>1. UNCHANGED <<flows, retired, revived>> /\ queue' = Put(queue, <<"End", x.id>>, <<x.time, qcnt>>)
    BY <1>4 DEF PushPlain, netVars, Finish, Point
  <2>2. NetIds' = NetIds /\ x.id \in NetIds
    BY <1>1, <1>4, <2>1 DEF NetIds, StageInv, ItemsFresh
  <2>3. /\ \A j, f : Queued(j, f)' <=> Queued(j, f) \/ (j = "End" /\ f = x.id)
        /\ \A j, f : Queued(j, f) /\ ~ (j = "End" /\ f = x.id) => QTime(j, f)' = QTime(j, f)
    BY <2>1, QueuePut
  <2>4. PICK id : id = x.id
    OBVIOUS
  <2>5. QED
    BY <1>3, <2>1, <2>2, <2>3, <2>4, SpanKept DEF RevivedFlows
<1>5. CASE \/ PushPlain(x) /\ x.act # Finish
           \/ PushComputation(x)
           \/ PushFlow(x)
  <2>1. NetIds \subseteq NetIds' /\ revived' \subseteq NetIds'
    <3>1. CASE PushPlain(x) \/ PushComputation(x)
      BY <3>1 DEF PushPlain, PushComputation, netVars, NetIds, RevivedFlows
    <3>2. CASE PushFlow(x)
      <4>1. NetArrive(x.id, x.time * NsPerUs) /\ x.id \notin NetIds
        BY <1>1, <3>2 DEF PushFlow, StageInv, ItemsFresh, Finish
      <4>2. NetIds' = NetIds \cup {x.id}
        BY <1>1, <4>1, NetArriveMoves DEF StageInv, FlowsMatch
      <4>3. revived' \subseteq revived \cup DOMAIN retired
        BY <3>2 DEF PushFlow, Revived
      <4>4. QED
        BY <4>2, <4>3 DEF RevivedFlows, NetIds
    <3>3. QED
      BY <1>5, <3>1, <3>2
  <2>2. \/ UNCHANGED queue
        \/ \E k \in {"Start", "Point"} : \E v, w : queue' = Put(queue, <<k, x.id>>, <<v, w>>)
    BY <1>5 DEF PushPlain, PushComputation, PushFlow, EnqueueStart
  <2>3. \A f : Queued("End", f)' => Queued("End", f) /\ QTime("End", f)' = QTime("End", f)
    <3>1. CASE UNCHANGED queue
      BY <3>1 DEF Queued, QTime
    <3>2. CASE \E k \in {"Start", "Point"} : \E v, w : queue' = Put(queue, <<k, x.id>>, <<v, w>>)
      <4>5. PICK k \in {"Start", "Point"} : \E v, w : queue' = Put(queue, <<k, x.id>>, <<v, w>>)
        BY <3>2
      <4>1. PICK v, w : queue' = Put(queue, <<k, x.id>>, <<v, w>>)
        BY <4>5
      <4>2. k # "End"
        OBVIOUS
      <4>3. /\ \A j, f : Queued(j, f)' <=> Queued(j, f) \/ (j = k /\ f = x.id)
            /\ \A j, f : Queued(j, f) /\ ~ (j = k /\ f = x.id) => QTime(j, f)' = QTime(j, f)
        BY <4>1, QueuePut
      <4>4. QED
        BY <4>2, <4>3
    <3>3. QED
      BY <2>2, <3>1, <3>2
  <2>4. QED
    BY <1>3, <2>1, <2>3, SpanSame DEF RevivedFlows
<1>6. QED
  BY <1>2, <1>4, <1>5

\* In the rollback loop and when the network runs, only flows end.
LEMMA NetSpan ==
  ASSUME NetInv, SpanInv, RevivedFlows,
         RollbackRun \/ RollbackFinish \/ RollbackDone \/ ProceedNetsim
  PROVE  SpanInv' /\ RevivedFlows'
<1>1. CallInv /\ StageInv /\ DOMAIN flows \cap DOMAIN retired = {}
  BY NetTypes DEF StageInv, FlowsMatch
<1>2. CASE RollbackRun \/ ProceedNetsim
  <2>1. UNCHANGED <<queue, started, ended, revived>>
    BY <1>2 DEF RollbackRun, ProceedNetsim, queueVars
  <2>2. PICK t \in NextCompletions, done \in SUBSET DOMAIN flows : NetRun(t, done)
    BY <1>2 DEF RollbackRun, ProceedNetsim
  <2>3. NetIds' = NetIds
    BY <1>1, <2>2, NetRunMoves
  <2>4. \A f : Queued("End", f)' => Queued("End", f) /\ QTime("End", f)' = QTime("End", f)
    BY <2>1 DEF Queued, QTime
  <2>5. QED
    BY <2>1, <2>3, <2>4, SpanSame DEF RevivedFlows
<1>3. CASE RollbackFinish
  <2>1. PICK r \in Todo : FinishPushed(r) \/ FinishOther(r)
    BY <1>1, <1>3, RollbackFinishViews
  <2>2. NetIds' = NetIds /\ UNCHANGED revived /\ r.id \in NetIds
    BY <1>1, <1>3 DEF RollbackFinish, netVars, NetIds, StageInv, TodoMatch
  <2>3. PICK id : id = r.id
    OBVIOUS
  <2>4. \A f \in Ids \ {id} :
           /\ Queued("End", f)' => /\ Queued("End", f) /\ QTime("End", f)' = QTime("End", f)
                                  /\ started'[f] = started[f]
           /\ f \in DOMAIN ended' => f \in DOMAIN ended /\ ended'[f] = ended[f]
    <3>1. CASE FinishPushed(r)
      <4>1. UNCHANGED <<queue, started>> /\ \E v : ended' = Put(ended, id, v)
        BY <2>3, <3>1 DEF FinishPushed, EndEvent
      <4>2. QED
        BY <4>1 DEF Queued, QTime, Put
    <3>2. CASE FinishOther(r)
      <4>1. /\ UNCHANGED ended /\ \E v : started' = Put(started, id, v)
            /\ \E v, w : queue' = Put(queue, <<"End", id>>, <<v, w>>)
        BY <2>3, <3>2 DEF FinishOther
      <4>2. /\ \A j, f : Queued(j, f)' <=> Queued(j, f) \/ (j = "End" /\ f = id)
            /\ \A j, f : Queued(j, f) /\ ~ (j = "End" /\ f = id) => QTime(j, f)' = QTime(j, f)
        BY <4>1, QueuePut
      <4>3. \A f \in Ids \ {id} : started'[f] = started[f] \/ f \notin DOMAIN started
        BY <4>1 DEF Put
      <4>4. \A f \in Ids \ {id} : Queued("End", f) => f \in DOMAIN started
        BY <1>1 DEF StageInv, CompsMatch, FlowsMatch
      <4>5. QED
        BY <4>1, <4>2, <4>3, <4>4
    <3>3. QED
      BY <2>1, <3>1, <3>2
  <2>5. QED
    BY <2>2, <2>3, <2>4, SpanKept DEF RevivedFlows
<1>4. CASE RollbackDone
  <2>1. UNCHANGED <<started, ended, revived>> /\ NetIds' = NetIds
    BY <1>4 DEF RollbackDone, netVars, NetIds
  <2>2. UNCHANGED queue \/ \E f, v, w : queue' = Put(queue, <<"Start", f>>, <<v, w>>)
    BY <1>4 DEF RollbackDone, EnqueueStart
  <2>3. \A f : Queued("End", f)' => Queued("End", f) /\ QTime("End", f)' = QTime("End", f)
    <3>1. CASE UNCHANGED queue
      BY <3>1 DEF Queued, QTime
    <3>2. CASE \E f, v, w : queue' = Put(queue, <<"Start", f>>, <<v, w>>)
      <4>1. PICK g, v, w : queue' = Put(queue, <<"Start", g>>, <<v, w>>)
        BY <3>2
      <4>2. /\ \A j, f : Queued(j, f)' <=> Queued(j, f) \/ (j = "Start" /\ f = g)
            /\ \A j, f : Queued(j, f) /\ ~ (j = "Start" /\ f = g) => QTime(j, f)' = QTime(j, f)
        BY <4>1, QueuePut
      <4>3. QED
        BY <4>2
    <3>3. QED
      BY <2>2, <3>1, <3>2
  <2>4. QED
    BY <2>1, <2>3, SpanSame DEF RevivedFlows
<1>5. QED
  BY <1>2, <1>3, <1>4

\* execute: a computation's End follows its Start, and ends it.
LEMMA ExecuteSpan ==
  ASSUME NetInv, SpanInv, RevivedFlows, Execute
  PROVE  SpanInv' /\ RevivedFlows'
<1>1. CallInv /\ StageInv /\ TypeOK
  BY NetTypes
<1>2. PICK e \in DOMAIN queue : ExecuteEvent(e) /\ e \in Events /\ queue[e] \in Nat \X Nat
  BY <1>1, ExecuteViews
<1>3. PICK id, time : id = e[2] /\ time = queue[e][1]
  OBVIOUS
<1>4. id \in Ids /\ time \in Nat /\ e = <<e[1], id>>
  BY <1>2, <1>3 DEF Events
<1>5. NetIds' = NetIds /\ UNCHANGED revived
  BY <1>2 DEF ExecuteEvent, netVars, NetIds
<1>6. CASE ExecutePoint(e)
  <2>1. /\ e[1] = "Point" /\ queue' = Without(queue, {e}) /\ UNCHANGED started
        /\ ended' = Put(ended, id, <<time, time>>)
    BY <1>3, <1>6 DEF ExecutePoint, EndEvent
  <2>2. ~ Queued("End", id)'
    <3>1. Queued("Point", id)
      BY <1>4, <2>1 DEF Queued
    <3>2. ~ Queued("End", id)
      BY <1>1, <1>4, <3>1 DEF StageInv, PointsAlone
    <3>3. QED
      BY <2>1, <3>2 DEF Queued, Without
  <2>3. ended'[id][1] <= ended'[id][2]
    BY <1>4, <2>1 DEF Put
  <2>4. \A f \in Ids \ {id} :
           /\ Queued("End", f)' => /\ Queued("End", f) /\ QTime("End", f)' = QTime("End", f)
                                  /\ started'[f] = started[f]
           /\ f \in DOMAIN ended' => f \in DOMAIN ended /\ ended'[f] = ended[f]
    BY <2>1 DEF Queued, QTime, Without, Put
  <2>5. QED
    BY <1>5, <2>2, <2>3, <2>4, SpanKept DEF RevivedFlows
<1>7. CASE ExecuteEnd(e)
  <2>1. /\ e[1] = "End" /\ queue' = Without(queue, {e}) /\ started' = Without(started, {id})
        /\ ended' = Put(ended, id, <<started[id], time>>)
    BY <1>3, <1>7 DEF ExecuteEnd, EndEvent
  <2>2. ~ Queued("End", id)'
    BY <1>4, <2>1 DEF Queued, Without
  <2>3. id \notin NetIds => ended'[id][1] <= ended'[id][2]
    <3>1. Queued("End", id) /\ QTime("End", id) = time
      BY <1>3, <1>4, <2>1 DEF Queued, QTime
    <3>2. id \notin NetIds => started[id] <= time
      BY <1>4, <3>1 DEF SpanInv
    <3>3. ended'[id] = <<started[id], time>>
      BY <2>1 DEF Put
    <3>4. QED
      BY <3>2, <3>3
  <2>4. \A f \in Ids \ {id} :
           /\ Queued("End", f)' => /\ Queued("End", f) /\ QTime("End", f)' = QTime("End", f)
                                  /\ (f \in DOMAIN started => started'[f] = started[f])
           /\ f \in DOMAIN ended' => f \in DOMAIN ended /\ ended'[f] = ended[f]
    BY <2>1 DEF Queued, QTime, Without, Put
  <2>5. ASSUME NEW f \in Ids \ NetIds'
        PROVE  /\ Queued("End", f)' => started'[f] <= QTime("End", f)'
               /\ f \in DOMAIN ended' => ended'[f][1] <= ended'[f][2]
    <3>1. CASE f = id
      BY <1>5, <2>2, <2>3, <2>5, <3>1
    <3>2. CASE f # id
      <4>1. f \in Ids \ NetIds /\ (Queued("End", f) => f \in DOMAIN started)
        BY <1>1, <1>5, <2>5 DEF StageInv, CompsMatch
      <4>2. QED
        BY <2>4, <3>2, <4>1 DEF SpanInv
    <3>3. QED
      BY <3>1, <3>2
  <2>6. QED
    BY <1>5, <2>5 DEF SpanInv, RevivedFlows
<1>8. CASE ExecuteStart(e)
  <2>1. /\ e[1] = "Start" /\ UNCHANGED ended /\ started' = Put(started, id, time)
        /\ id \in DOMAIN notStarted
        /\ \/ /\ notStarted[id].kind = "comp"
              /\ queue' = Put(Without(queue, {e}), <<"End", id>>, <<time + notStarted[id].dur, qcnt>>)
           \/ notStarted[id].kind = "comm" /\ queue' = Without(queue, {e})
    BY <1>3, <1>8 DEF ExecuteStart
  <2>2. \A f \in Ids \ {id} :
           /\ Queued("End", f)' => /\ Queued("End", f) /\ QTime("End", f)' = QTime("End", f)
                                  /\ started'[f] = started[f]
           /\ f \in DOMAIN ended' => f \in DOMAIN ended /\ ended'[f] = ended[f]
    <3>1. ASSUME NEW f \in Ids \ {id}
          PROVE  Queued("End", f)' => Queued("End", f) /\ QTime("End", f)' = QTime("End", f)
      <4>1. <<"End", f>> # e /\ <<"End", f>> # <<"End", id>>
        BY <2>1
      <4>2. CASE \E v : queue' = Put(Without(queue, {e}), <<"End", id>>, v)
        BY <4>1, <4>2 DEF Queued, QTime, Without, Put
      <4>3. CASE queue' = Without(queue, {e})
        BY <4>1, <4>3 DEF Queued, QTime, Without
      <4>4. QED
        BY <2>1, <4>2, <4>3
    <3>2. \A f \in Ids \ {id} : started'[f] = started[f] \/ f \notin DOMAIN started
      BY <2>1 DEF Put
    <3>3. \A f \in Ids \ {id} : Queued("End", f) => f \in DOMAIN started
      BY <1>1 DEF StageInv, CompsMatch, FlowsMatch
    <3>4. QED
      BY <2>1, <3>1, <3>2, <3>3
  <2>3. id \notin NetIds => /\ Queued("End", id)' => started'[id] <= QTime("End", id)'
                            /\ id \notin DOMAIN ended'
    <3>1. id \notin NetIds => id \notin DOMAIN ended /\ ~ Queued("End", id)
      BY <1>1, <1>4, <2>1 DEF StageInv, StartsMatch
    <3>2. notStarted[id].dur \in Nat
      BY <1>1, <2>1, ConstantsAssumption DEF TypeOK, Partial, Actions, Point, Comm, Comp
    <3>3. started'[id] = time
      BY <2>1 DEF Put
    <3>4. CASE queue' = Put(Without(queue, {e}), <<"End", id>>, <<time + notStarted[id].dur, qcnt>>)
      <4>1. QTime("End", id)' = time + notStarted[id].dur
        BY <3>4 DEF Put, QTime
      <4>2. started'[id] <= QTime("End", id)'
        BY <1>4, <3>2, <3>3, <4>1
      <4>3. QED
        BY <2>1, <3>1, <4>2
    <3>5. CASE queue' = Without(queue, {e})
      BY <2>1, <3>1, <3>5 DEF Queued, Without
    <3>6. QED
      BY <2>1, <3>4, <3>5
  <2>4. QED
    BY <1>5, <2>2, <2>3, SpanKept DEF RevivedFlows
<1>9. QED
  BY <1>2, <1>6, <1>7, <1>8 DEF ExecuteEvent

\* The calls that build the graph end nothing.
LEMMA BuildSpan ==
  ASSUME SpanInv, RevivedFlows, UNCHANGED <<queue, started, ended, netVars, revived>>
  PROVE  SpanInv' /\ RevivedFlows'
<1>1. NetIds' = NetIds
  BY DEF netVars, NetIds
<1>2. QED
  BY <1>1 DEF SpanInv, RevivedFlows, Queued, QTime

-----------------------------------------------------------------------------

\* Every step keeps the bounds.
LEMMA NextOrderInv ==
  ASSUME OrderInv, [AnyNext]_vars
  PROVE  OrderInv' /\ BoundsKept
<1>1. NetInv /\ TimesInv /\ SpanInv /\ RevivedFlows /\ NetInv'
  BY NextNetInv DEF OrderInv
<1>2. CASE AnyBuild
  <2>1. TimesInv' /\ BoundsKept
    BY <1>1, <1>2, AddTimes, LinkTimes, ReleaseTimes DEF AnyBuild
  <2>2. UNCHANGED <<queue, started, ended, netVars, revived>>
    BY <1>2 DEF AnyBuild, AddActionOrPoint, AddDependency, RemoveNoneDependency
  <2>3. QED
    BY <1>1, <2>1, <2>2, BuildSpan DEF OrderInv
<1>3. CASE Internal
  BY <1>1, <1>3, PushEventTimes, RollbackRunTimes, RollbackFinishTimes, RollbackDoneTimes,
     PushEventSpan, NetSpan DEF Internal, OrderInv
<1>4. CASE ProceedNetsim \/ Execute
  BY <1>1, <1>4, ProceedNetsimTimes, ExecuteTimes, NetSpan, ExecuteSpan DEF OrderInv
<1>5. CASE UNCHANGED vars
  <2>1. /\ UNCHANGED <<pending, ended, rev, revived, queue, started, flows, retired, netVars>>
        /\ Items' = Items
    BY <1>5 DEF vars, queueVars, netVars, Items
  <2>2. NetIds' = NetIds /\ \A f : StartUs(f)' = StartUs(f)
    BY <2>1, NetSame
  <2>3. \A j, f : (Queued(j, f)' <=> Queued(j, f)) /\ QTime(j, f)' = QTime(j, f)
    BY <2>1, QueueSame
  <2>4. BeginsFrom({})
    BY <2>1, <2>2, <2>3 DEF BeginsFrom, BegunAt
  <2>5. QED
    BY <1>1, <2>1, <2>4, SameTimes, BuildSpan DEF OrderInv
<1>6. QED
  BY <1>2, <1>3, <1>4, <1>5 DEF AnyNext

\* The initial state satisfies the invariant.
LEMMA InitOrderInv ==
  ASSUME Init
  PROVE  OrderInv
<1>1. NetInv /\ TimesInv
  BY InitNetInv DEF Init, TimesInv
<1>2. SpanInv /\ RevivedFlows
  BY DEF Init, SpanInv, RevivedFlows, Queued
<1>3. QED
  BY <1>1, <1>2 DEF OrderInv

\* The inductive invariant of the times.
THEOREM OrderInvariant == Spec => []OrderInv
<1>1. Init => OrderInv
  BY InitOrderInv
<1>2. OrderInv /\ [Next]_vars => OrderInv'
  BY NextOrderInv, NextIsAny
<1>3. QED
  BY <1>1, <1>2, PTL DEF Spec

\* The bound on the begin of an event is that of its dependencies.
LEMMA TimesOrder ==
  ASSUME OrderInv
  PROVE  DependencyOrder
<1>1. NetInv /\ TimesInv /\ KnownInv /\ EdgesHeld
  BY TimeTypes DEF OrderInv
<1>2. ASSUME NEW d \in Ids, NEW e \in rev[d], NEW t \in StartTimes(e)
      PROVE  d \in DOMAIN ended /\ (d \notin revived => t >= ended[d][2])
  <2>1. BegunAt(e, t)
    BY <1>2 DEF StartTimes, BegunAt, Queued, QTime
  <2>2. e \in Known
    BY <1>1, <2>1, NotBegun
  <2>3. d \in DOMAIN ended
    BY <1>1, <2>2 DEF EdgesHeld, Known
  <2>4. QED
    BY <1>1, <2>1, <2>3 DEF TimesInv, NotBefore
<1>3. QED
  BY <1>2 DEF DependencyOrder

\* An event starts only after each of its dependencies has ended, and not before
\* the time at which it ended, unless a rollback has since moved that end.
THEOREM StartsFollowEnds == Spec => []DependencyOrder
BY TimesOrder, OrderInvariant, PTL
====

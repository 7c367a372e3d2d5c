---------------------------- MODULE Hosts_proofs ----------------------------
(***************************************************************************)
(* Proofs about Hosts, for any hosts, streams, CUDA events, clocks and     *)
(* bounds: the handlers use the event queue as module EventQueue says it   *)
(* is used, so that everything proved about the queue holds here, and a    *)
(* host that waits for a reply is registered for an event that will end.   *)
(*                                                                         *)
(* A handler names events that the operations of its program have still to *)
(* add.  The invariant therefore speaks of the queue as it will be when    *)
(* the program in progress has been carried out: num[i] is the id the      *)
(* queue will have reached before operation i.                             *)
(***************************************************************************)
EXTENDS Hosts, EventQueue_net_proofs

-----------------------------------------------------------------------------
(***************************************************************************)
(* What the steps of the queue leave alone.                                *)
(***************************************************************************)

\* A barrier that has not been released.
Held(b) == b \in DOMAIN pending /\ NoneDep \in pending[b].deps

\* Event e is no flow, wherever it is.
NotFlow(e) ==
  /\ e \in DOMAIN pending => pending[e].act.kind # "comm"
  /\ \A x \in Items : x.id = e => x.act.kind # "comm"
  /\ e \notin NetIds

\* A step that adds no event and no edge and releases no barrier: what waits
\* stays the same or begins, and only flows become flows.
QuietStep ==
  /\ UNCHANGED <<rev, cnt>>
  /\ \A p \in DOMAIN pending' : p \in DOMAIN pending /\ pending'[p].act = pending[p].act
  /\ \A b : Held(b) => Held(b)'
  /\ \A x \in Items' : \/ x \in Items \/ x.act = Finish
                       \/ x.id \in DOMAIN pending /\ x.act = pending[x.id].act
  /\ \A f \in NetIds' : f \in NetIds \/ \E x \in Items : x.id = f /\ x.act.kind = "comm"

\* The End of a flow is no flow.
LEMMA FinishKind == Finish.kind = "end" /\ Point.kind = "point" /\ Comm.kind = "comm"
BY DEF Finish, Point, Comm

\* end_event only wakes what waits for the event that ends.
LEMMA EndEventQuiet ==
  ASSUME TypeOK, NEW id \in Ids, NEW start, NEW end, NEW rest, EndEvent(id, start, end, rest)
  PROVE  /\ \A p \in DOMAIN pending' : p \in DOMAIN pending /\ pending'[p].act = pending[p].act
         /\ \A b : Held(b) => Held(b)'
<1>1. id # NoneDep
  BY ConstantsAssumption DEF Ids
<1>2. \A p \in Freed(id) : NoneDep \notin pending[p].deps
  BY <1>1 DEF Freed
<1>3. /\ DOMAIN pending' = DOMAIN pending \ Freed(id)
      /\ \A p \in DOMAIN pending' :
           \/ pending'[p].act = pending[p].act /\ pending'[p].deps = pending[p].deps \ {id}
           \/ pending'[p] = pending[p]
  BY EndEventFrees
<1>4. QED
  BY <1>1, <1>2, <1>3 DEF Held

\* The steps within a call of the queue are quiet.
LEMMA InternalQuiet ==
  ASSUME NetInv, Internal
  PROVE  QuietStep
<1>1. CallInv /\ TypeOK /\ StageInv /\ DOMAIN flows \cap DOMAIN retired = {}
  BY NetTypes DEF StageInv, FlowsMatch
<1>2. CASE PushEvent
  <2>1. UNCHANGED <<pending, rev, cnt>>
    BY <1>2 DEF PushEvent
  <2>2. PICK x \in Items : /\ PushPlain(x) \/ PushComputation(x) \/ PushFlow(x)
                           /\ Items' = Items \ {x}
    BY <1>1, <1>2, PushEventViews
  <2>3. \A f \in NetIds' : f \in NetIds \/ (f = x.id /\ x.act.kind = "comm")
    <3>1. CASE PushPlain(x) \/ PushComputation(x)
      BY <3>1 DEF PushPlain, PushComputation, netVars, NetIds
    <3>2. CASE PushFlow(x)
      <4>1. x.act.kind = "comm" /\ NetArrive(x.id, x.time * NsPerUs)
        BY <3>2 DEF PushFlow
      <4>2. x.id \notin NetIds
        BY <1>1, <4>1, FinishKind DEF StageInv, ItemsFresh
      <4>3. NetIds' = NetIds \cup {x.id}
        BY <1>1, <4>1, <4>2, NetArriveMoves
      <4>4. QED
        BY <4>1, <4>3
    <3>3. QED
      BY <2>2, <3>1, <3>2
  <2>4. QED
    BY <2>1, <2>2, <2>3 DEF QuietStep, Held
<1>3. CASE RollbackRun
  <2>1. UNCHANGED <<pending, rev, cnt>>
    BY <1>3 DEF RollbackRun, queueVars
  <2>2. Items' = Items /\ NetIds' = NetIds
    BY <1>1, <1>3, RollbackRunViews, NetRunMoves
  <2>3. QED
    BY <2>1, <2>2 DEF QuietStep, Held
<1>4. CASE RollbackFinish
  <2>1. UNCHANGED <<rev, cnt>> /\ NetIds' = NetIds
    BY <1>4 DEF RollbackFinish, netVars, NetIds
  <2>2. PICK r \in Todo : \/ FinishPushed(r) /\ Items' = FreedItems(r.id, ToUs(nts)) \cup Items
                          \/ FinishOther(r) /\ Items' = Items
    BY <1>1, <1>4, RollbackFinishViews
  <2>3. CASE FinishOther(r) /\ Items' = Items
    BY <2>1, <2>3 DEF QuietStep, Held, FinishOther
  <2>4. CASE FinishPushed(r) /\ Items' = FreedItems(r.id, ToUs(nts)) \cup Items
    <3>1. r.id \in Ids
      BY NetTypes
    <3>2. \E start, end, rest : EndEvent(r.id, start, end, rest)
      BY <2>4 DEF FinishPushed
    <3>3. /\ \A p \in DOMAIN pending' : p \in DOMAIN pending /\ pending'[p].act = pending[p].act
          /\ \A b : Held(b) => Held(b)'
      BY <1>1, <3>1, <3>2, EndEventQuiet
    <3>4. \A x \in Items' : \/ x \in Items
                            \/ x.id \in DOMAIN pending /\ x.act = pending[x.id].act
      BY <2>4 DEF FreedItems, Freed
    <3>5. QED
      BY <2>1, <3>3, <3>4 DEF QuietStep
  <2>5. QED
    BY <2>2, <2>3, <2>4
<1>5. CASE RollbackDone
  <2>1. UNCHANGED <<pending, rev, cnt>> /\ NetIds' = NetIds
    BY <1>5 DEF RollbackDone, netVars, NetIds
  <2>2. Items' = Items
    BY <1>1, <1>5, RollbackDoneViews
  <2>3. QED
    BY <2>1, <2>2 DEF QuietStep, Held
<1>6. QED
  BY <1>2, <1>3, <1>4, <1>5 DEF Internal

\* So are running the network and executing an event.
LEMMA ExecuteQuiet ==
  ASSUME NetInv, ProceedNetsim \/ Execute
  PROVE  QuietStep
<1>1. CallInv /\ TypeOK /\ StageInv /\ DOMAIN flows \cap DOMAIN retired = {}
  BY NetTypes DEF StageInv, FlowsMatch
<1>2. CASE ProceedNetsim
  <2>1. UNCHANGED <<pending, rev, cnt>>
    BY <1>2 DEF ProceedNetsim, queueVars
  <2>2. NetIds' = NetIds /\ \A x \in Items' : x.act = Finish
    <3>1. PICK t \in NextCompletions, done \in SUBSET DOMAIN flows :
            /\ NetRun(t, done)
            /\ Items' = {[id |-> f, act |-> Finish, time |-> ToUs(t)] : f \in done}
      BY <1>1, <1>2, ProceedNetsimViews
    <3>2. NetIds' = NetIds
      BY <1>1, <3>1, NetRunMoves
    <3>3. QED
      BY <3>1, <3>2
  <2>3. QED
    BY <2>1, <2>2 DEF QuietStep, Held
<1>3. CASE Execute
  <2>1. PICK e \in DOMAIN queue :
          /\ ExecuteEvent(e)
          /\ e \in Events
          /\ Items' = IF e[1] = "Start" THEN {} ELSE FreedItems(e[2], queue[e][1])
    BY <1>1, <1>3, ExecuteViews
  <2>2. UNCHANGED <<rev, cnt>> /\ NetIds' = NetIds
    BY <2>1 DEF ExecuteEvent, netVars, NetIds
  <2>3. \A x \in Items' : x.id \in DOMAIN pending /\ x.act = pending[x.id].act
    BY <2>1 DEF FreedItems, Freed
  <2>4. e[2] \in Ids
    BY <2>1 DEF Events
  <2>5. CASE UNCHANGED pending
    BY <2>2, <2>3, <2>5 DEF QuietStep, Held
  <2>6. CASE \E start, end, rest : EndEvent(e[2], start, end, rest)
    <3>1. /\ \A p \in DOMAIN pending' : p \in DOMAIN pending /\ pending'[p].act = pending[p].act
          /\ \A b : Held(b) => Held(b)'
      BY <1>1, <2>4, <2>6, EndEventQuiet
    <3>2. QED
      BY <2>2, <2>3, <3>1 DEF QuietStep
  <2>7. QED
    BY <2>1, <2>5, <2>6 DEF ExecuteEvent, ExecutePoint, ExecuteEnd, ExecuteStart
<1>4. QED
  BY <1>2, <1>3

\* What is no flow stays none.
LEMMA QuietNotFlow ==
  ASSUME NetInv, QuietStep, NEW e, NotFlow(e)
  PROVE  NotFlow(e)'
<1>1. e \in DOMAIN pending' => pending'[e].act.kind # "comm"
  BY DEF QuietStep, NotFlow
<1>2. \A x \in Items' : x.id = e => x.act.kind # "comm"
  BY FinishKind DEF QuietStep, NotFlow
<1>3. e \notin NetIds'
  BY DEF QuietStep, NotFlow
<1>4. QED
  BY <1>1, <1>2, <1>3 DEF NotFlow

\* Adding event n leaves what there is as it is, and n is what its action says.
Extends(n, deps, act) ==
  /\ cnt' = cnt + 1 /\ UNCHANGED ended
  /\ n \in Ids
  /\ \A d \in Ids : rev'[d] = IF d \in deps THEN rev[d] \cup {n} ELSE rev[d]
  /\ \A e \in 0 .. cnt - 1 : NotFlow(e) => NotFlow(e)'
  /\ act.kind # "comm" => NotFlow(n)'
  /\ \A b : Held(b) => Held(b)'
  /\ deps = {NoneDep} => Held(n)'

\* add_action_or_point does so.
LEMMA AddGrows ==
  ASSUME NetInv, NEW deps \in SUBSET (0 .. cnt - 1 \cup {NoneDep}), NEW act \in Actions,
         NEW t \in Nat, NEW n, n = cnt, AddActionOrPoint(deps, act, t)
  PROVE  Extends(n, deps, act)
<1>1. CallInv /\ KnownInv /\ TypeOK /\ cnt \in Nat
  BY NetTypes
<1>2. cnt \notin DOMAIN pending /\ cnt \notin Known /\ DOMAIN pending \subseteq 0 .. cnt - 1
  BY <1>1 DEF CallInv, QueueInv, PendingAdded, Known
<1>3. Items = {} /\ cnt \notin NetIds
  BY <1>1, <1>2, AddViews, NotKnown
<1>4. cnt' = cnt + 1 /\ UNCHANGED ended /\ NetIds' = NetIds /\ cnt < MaxEvents
  BY DEF AddActionOrPoint, netVars, NetIds
<1>5. cnt \in Ids
  BY <1>1, <1>4, ConstantsAssumption DEF Ids
<1>6. \A d \in Ids : d # NoneDep
  BY ConstantsAssumption DEF Ids
<1>7. \A d \in Ids : rev'[d] = IF d \in deps THEN rev[d] \cup {cnt} ELSE rev[d]
  BY <1>6 DEF AddActionOrPoint
<1>8. PICK now \in Nat :
        LET over == (deps \ {NoneDep}) \cap DOMAIN ended
            live == deps \ over
        IN  IF live = {}
            THEN /\ Items' = {[id |-> cnt, act |-> act, time |-> now]}
                 /\ UNCHANGED pending
            ELSE /\ pending' = Put(pending, cnt, [deps |-> live, arrive |-> now,
                                                  depEnd |-> 0, act |-> act])
                 /\ Items' = {}
  BY <1>1, AddViews
<1>12. deps = {NoneDep} => deps \ ((deps \ {NoneDep}) \cap DOMAIN ended) = {NoneDep}
  OBVIOUS
<1> DEFINE over == (deps \ {NoneDep}) \cap DOMAIN ended
           live == deps \ over
<1>13. deps = {NoneDep} => live = {NoneDep}
  BY <1>12
<1>14. IF live = {}
       THEN /\ Items' = {[id |-> cnt, act |-> act, time |-> now]}
            /\ UNCHANGED pending
       ELSE /\ pending' = Put(pending, cnt, [deps |-> live, arrive |-> now,
                                             depEnd |-> 0, act |-> act])
            /\ Items' = {}
  BY <1>8
<1> HIDE DEF over, live
<1>9. CASE live = {}
  <2>1. Items' = {[id |-> cnt, act |-> act, time |-> now]} /\ UNCHANGED pending
    BY <1>14, <1>9
  <2>2. deps # {NoneDep}
    BY <1>9, <1>13
  <2>3. \A e \in 0 .. cnt - 1 : NotFlow(e) => NotFlow(e)'
    BY <1>1, <1>4, <2>1 DEF NotFlow
  <2>4. act.kind # "comm" => NotFlow(n)'
    BY <1>2, <1>3, <1>4, <2>1 DEF NotFlow
  <2>5. \A b : Held(b) => Held(b)'
    BY <2>1 DEF Held
  <2>6. QED
    BY <1>4, <1>5, <1>7, <2>2, <2>3, <2>4, <2>5 DEF Extends
<1>10. CASE live # {}
  <2>1. /\ pending' = Put(pending, cnt, [deps |-> live, arrive |-> now, depEnd |-> 0, act |-> act])
        /\ Items' = {}
    BY <1>14, <1>10
  <2>2. /\ DOMAIN pending' = DOMAIN pending \cup {cnt}
        /\ \A p \in DOMAIN pending : pending'[p] = pending[p]
        /\ pending'[cnt].act = act /\ pending'[cnt].deps = live
    BY <1>2, <2>1 DEF Put
  <2>3. \A e \in 0 .. cnt - 1 : NotFlow(e) => NotFlow(e)'
    <3>1. ASSUME NEW e \in 0 .. cnt - 1, NotFlow(e)
          PROVE  NotFlow(e)'
      <4>1. e # cnt
        BY <1>1
      <4>2. QED
        BY <1>4, <2>1, <2>2, <3>1, <4>1 DEF NotFlow
    <3>2. QED
      BY <3>1
  <2>4. act.kind # "comm" => NotFlow(n)'
    BY <1>3, <1>4, <2>1, <2>2 DEF NotFlow
  <2>5. deps = {NoneDep} => Held(n)'
    BY <1>13, <2>2 DEF Held
  <2>6. \A b : Held(b) => Held(b)'
    BY <1>2, <2>2 DEF Held
  <2>7. QED
    BY <1>4, <1>5, <1>7, <2>3, <2>4, <2>5, <2>6 DEF Extends
<1>11. QED
  BY <1>9, <1>10

\* So does linking two events.
LEMMA LinkGrows ==
  ASSUME NetInv, NEW id \in DOMAIN pending, NEW dep \in DOMAIN pending, AddDependency(id, dep)
  PROVE  /\ UNCHANGED <<cnt, ended>>
         /\ \A d \in Ids : rev'[d] = IF d = dep THEN rev[d] \cup {id} ELSE rev[d]
         /\ \A e : NotFlow(e) => NotFlow(e)'
         /\ \A b : Held(b) => Held(b)'
<1>1. CallInv /\ TypeOK
  BY NetTypes
<1>2. UNCHANGED <<cnt, ended>> /\ NetIds' = NetIds /\ Items' = {}
  BY <1>1, LinkViews DEF AddDependency, netVars, NetIds
<1>3. \A d \in Ids : rev'[d] = IF d = dep THEN rev[d] \cup {id} ELSE rev[d]
  BY <1>1 DEF AddDependency, TypeOK
<1>4. /\ DOMAIN pending' = DOMAIN pending
      /\ \A p \in DOMAIN pending : /\ pending'[p].act = pending[p].act
                                   /\ pending[p].deps \subseteq pending'[p].deps
  <2>1. \A p \in DOMAIN pending : pending[p] \in PendingRecords
    BY <1>1 DEF TypeOK, Partial
  <2>2. QED
    BY <2>1 DEF AddDependency, PendingRecords
<1>5. QED
  BY <1>2, <1>3, <1>4 DEF NotFlow, Held

\* Releasing a barrier leaves the other ones held.
LEMMA ReleaseGrows ==
  ASSUME NetInv, NEW id \in DOMAIN pending, RemoveNoneDependency(id)
  PROVE  /\ UNCHANGED <<cnt, ended, rev>>
         /\ \A e : NotFlow(e) => NotFlow(e)'
         /\ \A b : Held(b) /\ b # id => Held(b)'
<1>1. CallInv /\ TypeOK
  BY NetTypes
<1>2. UNCHANGED <<cnt, ended, rev>> /\ NetIds' = NetIds
  BY DEF RemoveNoneDependency, netVars, NetIds
<1>3. CASE pending[id].deps = {NoneDep}
  <2>1. /\ pending' = Without(pending, {id})
        /\ Items' = {[id |-> id, act |-> pending[id].act,
                      time |-> Later(pending[id].depEnd, pending[id].arrive)]}
    BY <1>1, <1>3, ReleaseViews
  <2>2. /\ DOMAIN pending' = DOMAIN pending \ {id}
        /\ \A p \in DOMAIN pending' : pending'[p] = pending[p]
    BY <2>1 DEF Without
  <2>3. QED
    BY <1>2, <2>1, <2>2 DEF NotFlow, Held
<1>4. CASE pending[id].deps # {NoneDep}
  <2>1. pending' = [pending EXCEPT ![id].deps = @ \ {NoneDep}] /\ Items' = {}
    BY <1>1, <1>4, ReleaseViews
  <2>2. pending[id] \in PendingRecords
    BY <1>1 DEF TypeOK, Partial
  <2>3. /\ DOMAIN pending' = DOMAIN pending
        /\ \A p \in DOMAIN pending : pending'[p].act = pending[p].act
        /\ \A p \in DOMAIN pending \ {id} : pending'[p] = pending[p]
    BY <2>1, <2>2 DEF PendingRecords
  <2>4. QED
    BY <1>2, <2>1, <2>3 DEF NotFlow, Held
<1>5. QED
  BY <1>3, <1>4

\* Within a call of the queue only flows end.
LEMMA InternalEnds ==
  ASSUME NetInv, Internal \/ ProceedNetsim
  PROVE  /\ DOMAIN ended \subseteq DOMAIN ended'
         /\ \A e \in DOMAIN ended' \ NetIds : e \in DOMAIN ended /\ ended'[e] = ended[e]
<1>1. CASE PushEvent \/ RollbackRun \/ RollbackDone \/ ProceedNetsim
  BY <1>1 DEF PushEvent, RollbackRun, RollbackDone, ProceedNetsim, queueVars
<1>2. CASE RollbackFinish
  <2>1. PICK r \in Todo : FinishPushed(r) \/ FinishOther(r)
    BY <1>2, NetTypes, RollbackFinishViews
  <2>2. r.id \in NetIds
    BY NetTypes DEF StageInv, TodoMatch, NetIds
  <2>3. UNCHANGED ended \/ \E v : ended' = Put(ended, r.id, v)
    BY <2>1 DEF FinishPushed, FinishOther, EndEvent
  <2>4. QED
    BY <2>2, <2>3 DEF Put
<1>3. QED
  BY <1>1, <1>2 DEF Internal

\* Executing an event ends it, unless it starts it; what is no flow ends once.
LEMMA ExecuteEnds ==
  ASSUME NetInv, NEW e \in DOMAIN queue, ExecuteEvent(e)
  PROVE  /\ e[2] \in Ids
         /\ e[1] = "Start" => UNCHANGED ended
         /\ e[1] # "Start" => /\ DOMAIN ended' = DOMAIN ended \cup {e[2]}
                              /\ ended'[e[2]][2] = queue[e][1]
                              /\ \A f \in DOMAIN ended \ {e[2]} : ended'[f] = ended[f]
                              /\ e[2] \notin NetIds => e[2] \notin DOMAIN ended
<1>1. TypeOK /\ StageInv
  BY NetTypes
<1>2. e \in Events
  BY <1>1 DEF TypeOK, Partial
<1>3. e[2] \in Ids /\ e = <<e[1], e[2]>>
  BY <1>2 DEF Events
<1>4. CASE e[1] = "Start"
  BY <1>3, <1>4 DEF ExecuteEvent, ExecutePoint, ExecuteEnd, ExecuteStart
<1>5. CASE e[1] # "Start"
  <2>1. \E start : ended' = Put(ended, e[2], <<start, queue[e][1]>>)
    BY <1>5 DEF ExecuteEvent, ExecutePoint, ExecuteEnd, ExecuteStart, EndEvent
  <2>2. e[2] \notin NetIds => e[2] \notin DOMAIN ended
    <3>1. Queued("Point", e[2]) \/ Queued("End", e[2])
      BY <1>3, <1>5 DEF ExecuteEvent, ExecutePoint, ExecuteEnd, ExecuteStart, Queued
    <3>2. QED
      BY <1>1, <1>3, <3>1 DEF StageInv, PointsAlone, CompsMatch
  <2>3. QED
    BY <1>3, <1>5, <2>1, <2>2 DEF Put
<1>6. QED
  BY <1>4, <1>5
-----------------------------------------------------------------------------
(***************************************************************************)
(* The invariant.                                                          *)
(***************************************************************************)

BufferedCalls == [t : Nat, dur : Durations, w : Nat]
Waitings      == [joined : SUBSET Hosts, barrier : Nat, startMeta : Nat, endMeta : Nat]
Operations    == [op : {"add"}, deps : SUBSET (Nat \cup {NoneDep}), act : Actions, t : Nat, w : Nat]
                   \cup [op : {"edge"}, id : Nat, dep : Nat] \cup [op : {"release"}, id : Nat]
Handlers      == [phase : {"build", "toTime", "toEvent", "reply"}, host : Hosts,
                  prog : Seq(Operations), next : {"return", "sync", "eventSync", "query"},
                  id : Nat \cup {None}, until : Nat]

HostsTypes ==
  /\ tail \in [Hosts -> [Streams -> SUBSET Nat]]
  /\ buffered \in [Hosts -> [Streams -> Seq(BufferedCalls)]]
  /\ DOMAIN idOf = Hosts
  /\ \A e \in DOMAIN syncing : syncing[e] \in Hosts
  /\ waitings \in Seq(Waitings)
  /\ call = NoCall \/ call \in Handlers
  /\ clock \in [Hosts -> Nat]
  /\ hostState \in [Hosts -> {"run", "wait", "exit"}]

\* What the handler in progress has still to do.
Prog == IF call = NoCall THEN << >> ELSE call.prog

\* num[i] is the id the next event will have before operation i of p, if it is
\* n now.
Numbered(p, n, num) ==
  /\ num \in [1 .. Len(p) + 1 -> Nat]
  /\ num[1] = n
  /\ \A i \in 1 .. Len(p) : num[i + 1] = IF p[i].op = "add" THEN num[i] + 1 ELSE num[i]

\* The queue as it will be when p has been carried out: event e depends on d, e
\* is no flow, b is a barrier.
Edge(p, num, d, e) ==
  \/ d \in Ids /\ e \in rev[d]
  \/ \E i \in 1 .. Len(p) : p[i].op = "add" /\ num[i] = e /\ d \in p[i].deps \cap Nat

Plain(p, num, e) ==
  \/ e \in 0 .. cnt - 1 /\ NotFlow(e)
  \/ \E i \in 1 .. Len(p) : p[i].op = "add" /\ num[i] = e /\ p[i].act.kind # "comm"

HeldSoon(p, num, b) ==
  \/ Held(b)
  \/ \E i \in 1 .. Len(p) : p[i].op = "add" /\ num[i] = b /\ p[i].deps = {NoneDep}

\* A step that takes nothing of this away but the barriers in gone: p, numbered
\* num, becomes q, numbered m.
Grows(p, num, q, m, gone) ==
  /\ cnt' >= cnt
  /\ \A e \in 0 .. cnt - 1 : NotFlow(e) => NotFlow(e)'
  /\ \A d, e : Edge(p, num, d, e) => Edge(q, m, d, e)'
  /\ \A e : Plain(p, num, e) => Plain(q, m, e)'
  /\ \A b : HeldSoon(p, num, b) /\ b \notin gone => HeldSoon(q, m, b)'

\* An event depends on events that were added before it.
OpsKnown(p, num) ==
  \A i \in 1 .. Len(p) : p[i].op = "add" => p[i].deps \subseteq 0 .. num[i] - 1 \cup {NoneDep}

\* The points of a collective, behind its barrier.
Behind(b, s, m) == Held(b) /\ \E f \in Ids : f \in rev[b] /\ s \in rev[f] /\ m \in rev[s]

\* Dependencies are added to the meta points of a collective whose barrier is
\* held, and releasing it is the last thing done: the collective waits no more.
OpsGuarded(p) ==
  (\E i \in 1 .. Len(p) : p[i].op # "add") =>
    \E b, s, m \in Ids :
      /\ Behind(b, s, m)
      /\ \A i \in 1 .. Len(p) : p[i].op = "edge" => p[i].id \in {s, m}
      /\ \A i \in 1 .. Len(p) : p[i].op = "release" =>
           p[i].id = b /\ i = Len(p) /\ \A j \in DOMAIN waitings : waitings[j].barrier # b

\* Every collective that waits has its barrier, and its meta points are behind
\* it.
CollHeld(p, num) ==
  /\ \A w \in Range(waitings) :
       /\ HeldSoon(p, num, w.barrier)
       /\ \E f : /\ Edge(p, num, w.barrier, f) /\ Edge(p, num, f, w.startMeta)
                 /\ Edge(p, num, w.startMeta, w.endMeta)
  /\ \A i, j \in DOMAIN waitings : waitings[i].barrier = waitings[j].barrier => i = j

\* The events of host h's CUDA events.
OwnIds(h) == {idOf[h][c] : c \in DOMAIN idOf[h]}

\* The last events of the streams, and the CUDA events, are below n.
TailsKnown(n) ==
  \A h \in Hosts : OwnIds(h) \subseteq 0 .. n - 1 /\ \A s \in Streams : tail[h][s] \subseteq 0 .. n - 1

\* Host h is the one whose call is handled, and it is not registered yet.
Caller(h) == call # NoCall /\ call.host = h /\ call.phase # "toEvent"

\* A registered event has not ended, and cannot be revived by a rollback.
Registered ==
  /\ \A e \in DOMAIN syncing : /\ e \in 0 .. cnt - 1 /\ e \notin DOMAIN ended /\ NotFlow(e)
                               /\ hostState[syncing[e]] = "wait"
  /\ \A e, f \in DOMAIN syncing : syncing[e] = syncing[f] => e = f

\* A host that waits is registered, or is the caller; who is registered is not.
WaitersHeard ==
  /\ \A h \in Hosts : hostState[h] = "wait" => Caller(h) \/ \E e \in DOMAIN syncing : syncing[e] = h
  /\ \A h \in Hosts : Caller(h) =>
       /\ \A e \in DOMAIN syncing : syncing[e] # h
       /\ call.next = "return" => hostState[h] = "run" /\ call.phase = "build"
       /\ call.next # "return" => hostState[h] = "wait"

\* No two hosts have a CUDA event in common: nobody else is registered for it.
EventsOwned ==
  \A h \in Hosts : \A e \in OwnIds(h) :
    /\ \A g \in Hosts : e \in OwnIds(g) => g = h
    /\ e \in DOMAIN syncing => syncing[e] = h

EventsPlain(p, num) == \A h \in Hosts : \A e \in OwnIds(h) : Plain(p, num, e)

\* The event a synchronization is about is new, or one of the caller's.
AboutNew(p, num) ==
  \A e : call # NoCall /\ call.phase = "build" /\ call.next = "sync" /\ call.id = e =>
    /\ e \notin DOMAIN syncing /\ e \notin DOMAIN ended
    /\ Plain(p, num, e)
    /\ \A h \in Hosts : e \notin OwnIds(h)

AboutOwn ==
  call # NoCall /\ call.phase # "toEvent" /\ call.next = "eventSync" =>
    call.id \in OwnIds(call.host)

BuildInv(p, num) ==
  /\ Numbered(p, cnt, num) /\ OpsKnown(p, num) /\ OpsGuarded(p)
  /\ CollHeld(p, num) /\ TailsKnown(num[Len(p) + 1]) /\ EventsPlain(p, num)

AnswerInv(p, num) ==
  /\ Registered /\ WaitersHeard /\ EventsOwned /\ AboutNew(p, num) /\ AboutOwn
  /\ call # NoCall /\ call.phase # "build" => p = << >>

HostsInv ==
  /\ OrderInv /\ HostsTypes
  /\ \E p, num : p = Prog /\ BuildInv(p, num) /\ AnswerInv(p, num)

-----------------------------------------------------------------------------
(***************************************************************************)
(* Views of the queue as it will be.                                       *)
(***************************************************************************)

\* The queue's part of the invariant, and the facts used from it.
LEMMA HostsFacts ==
  ASSUME OrderInv
  PROVE  /\ NetInv /\ TypeOK /\ EdgesHeld /\ KnownInv
         /\ cnt \in Nat /\ cnt <= MaxEvents /\ MaxEvents \in Nat
         /\ \A e \in 0 .. cnt - 1 : e \in Ids
         /\ NetIds \subseteq 0 .. cnt - 1 /\ DOMAIN ended \subseteq 0 .. cnt - 1
         /\ DOMAIN pending \subseteq 0 .. cnt - 1
         /\ DOMAIN pending \cap DOMAIN ended = {}
         /\ rev \in [Ids -> SUBSET Ids]
         /\ \A d \in Ids : rev[d] \subseteq 0 .. cnt - 1
<1>1. NetInv /\ TypeOK /\ EdgesHeld /\ KnownInv /\ cnt \in Nat /\ rev \in [Ids -> SUBSET Ids]
  BY TimeTypes DEF OrderInv
<1>2. cnt <= MaxEvents /\ MaxEvents \in Nat
  BY <1>1, ConstantsAssumption DEF TypeOK
<1>3. \A e \in 0 .. cnt - 1 : e \in Ids
  BY <1>1, <1>2 DEF Ids
<1>4. NetIds \subseteq Known /\ DOMAIN ended \subseteq Known
  BY <1>1 DEF KnownInv, NetIds
<1>5. Known \subseteq 0 .. cnt - 1 /\ Known \cap DOMAIN pending = {}
  BY DEF Known
<1>6. DOMAIN pending \subseteq 0 .. cnt - 1
  BY <1>1, NetTypes DEF CallInv, QueueInv, PendingAdded
<1>7. \A d \in Ids : rev[d] \subseteq 0 .. cnt - 1
  BY <1>1, TimeTypes
<1>8. QED
  BY <1>1, <1>2, <1>3, <1>4, <1>5, <1>6, <1>7

\* The numbers do not decrease.
LEMMA NumbersGrow ==
  ASSUME NEW p, Len(p) \in Nat, NEW n \in Nat, NEW num, Numbered(p, n, num),
         NEW i \in 1 .. Len(p) + 1
  PROVE  num[i] >= n /\ num[i] \in Nat
<1> DEFINE Bad == {j \in Nat : j \in 1 .. Len(p) + 1 /\ ~ (num[j] >= n)}
<1>1. num \in [1 .. Len(p) + 1 -> Nat] /\ num[1] = n
  BY DEF Numbered
<1>2. Bad = {}
  <2> SUFFICES ASSUME Bad # {} PROVE FALSE
    OBVIOUS
  <2>1. PICK j \in Bad : \A k \in Bad : j <= k
    BY LeastNumber
  <2>2. j \in 1 .. Len(p) + 1 /\ ~ (num[j] >= n) /\ j # 1
    BY <1>1, <2>1
  <2>3. j - 1 \in 1 .. Len(p) /\ j - 1 \in Nat /\ (j - 1) + 1 = j
    BY <2>2
  <2>4. num[j - 1] >= n
    <3>1. j - 1 \notin Bad
      BY <2>1, <2>3
    <3>2. QED
      BY <2>3, <3>1
  <2>5. num[j] = num[j - 1] + 1 \/ num[j] = num[j - 1]
    BY <2>3 DEF Numbered
  <2>6. num[j - 1] \in Nat
    BY <1>1, <2>3
  <2>7. QED
    BY <2>2, <2>4, <2>5, <2>6
<1>3. QED
  BY <1>1, <1>2

\* A step that leaves the queue alone.
LEMMA SameGrows ==
  ASSUME UNCHANGED vars, cnt \in Nat, NEW p, NEW num
  PROVE  Grows(p, num, p, num, {})
<1>1. UNCHANGED <<pending, rev, cnt, flows, retired, stack>> /\ cnt' >= cnt
  BY DEF vars, queueVars, netVars
<1>2. Items' = Items /\ NetIds' = NetIds
  BY <1>1 DEF Items, NetIds
<1>3. \A e : NotFlow(e)' <=> NotFlow(e)
  BY <1>1, <1>2 DEF NotFlow
<1>4. \A b : Held(b)' <=> Held(b)
  BY <1>1 DEF Held
<1>5. QED
  BY <1>1, <1>3, <1>4 DEF Grows, Edge, Plain, HeldSoon

\* A step within a call of the queue, or that executes an event.
LEMMA QuietGrows ==
  ASSUME NetInv, QuietStep, NEW p, NEW num
  PROVE  Grows(p, num, p, num, {})
<1>1. (\A e : NotFlow(e) => NotFlow(e)') /\ cnt' >= cnt
  BY QuietNotFlow, NetTypes DEF QuietStep
<1>2. QED
  BY <1>1 DEF QuietStep, Grows, Edge, Plain, HeldSoon

\* A call that has a program to carry out.
LEMMA CallGrows ==
  ASSUME UNCHANGED vars, cnt \in Nat, NEW num, NEW q, NEW m
  PROVE  Grows(<< >>, num, q, m, {})
<1>1. Grows(<< >>, num, << >>, num, {})
  BY SameGrows
<1>2. /\ \A d, e : Edge(<< >>, num, d, e)' => Edge(q, m, d, e)'
      /\ \A e : Plain(<< >>, num, e)' => Plain(q, m, e)'
      /\ \A b : HeldSoon(<< >>, num, b)' => HeldSoon(q, m, b)'
  BY DEF Edge, Plain, HeldSoon
<1>3. QED
  BY <1>1, <1>2 DEF Grows

\* q, numbered m, is what is left of p, numbered num, after its first operation.
Follows(p, n, num, q, m) ==
  /\ q \in Seq(Operations) /\ Len(q) \in Nat /\ Len(p) = Len(q) + 1
  /\ \A i \in 1 .. Len(q) : q[i] = p[i + 1] /\ m[i] = num[i + 1]
  /\ \A i \in 2 .. Len(p) : i - 1 \in 1 .. Len(q) /\ p[i] = q[i - 1] /\ num[i] = m[i - 1]
  /\ p[1].op = "add" => Numbered(q, n + 1, m)
  /\ p[1].op # "add" => Numbered(q, n, m)
  /\ OpsKnown(q, m)
  /\ m[Len(q) + 1] = num[Len(p) + 1]
  /\ p[1] = Head(p) /\ p[1] \in Operations /\ num[1] = n
  /\ \A i \in 1 .. Len(p) : i = 1 \/ i \in 2 .. Len(p)

\* The numbers move along.
LEMMA TailNumbered ==
  ASSUME NEW p \in Seq(Operations), p # << >>, NEW n \in Nat, NEW num, Numbered(p, n, num),
         OpsKnown(p, num), NEW q, q = Tail(p), NEW m, m = [i \in 1 .. Len(q) + 1 |-> num[i + 1]]
  PROVE  Follows(p, n, num, q, m)
<1>1. /\ q \in Seq(Operations) /\ Len(q) \in Nat /\ Len(p) = Len(q) + 1
      /\ \A i \in 1 .. Len(q) : q[i] = p[i + 1]
      /\ p[1] = Head(p) /\ p[1] \in Operations
  OBVIOUS
<1>2. /\ num \in [1 .. Len(p) + 1 -> Nat] /\ num[1] = n
      /\ \A i \in 1 .. Len(p) : num[i + 1] = IF p[i].op = "add" THEN num[i] + 1 ELSE num[i]
  BY DEF Numbered
<1>3. \A i \in 1 .. Len(q) + 1 : m[i] = num[i + 1] /\ i + 1 \in 1 .. Len(p) + 1
  BY <1>1
<1>4. \A i \in 2 .. Len(p) : i - 1 \in 1 .. Len(q) /\ (i - 1) + 1 = i
  BY <1>1
<1>5. \A i \in 2 .. Len(p) : p[i] = q[i - 1] /\ num[i] = m[i - 1]
  BY <1>1, <1>3, <1>4
<1>6. /\ p[1].op = "add" => Numbered(q, n + 1, m)
      /\ p[1].op # "add" => Numbered(q, n, m)
  <2>1. m \in [1 .. Len(q) + 1 -> Nat]
    BY <1>2, <1>3
  <2>2. m[1] = IF p[1].op = "add" THEN n + 1 ELSE n
    <3>1. 1 \in 1 .. Len(q) + 1 /\ 1 \in 1 .. Len(p)
      BY <1>1
    <3>2. m[1] = num[1 + 1]
      BY <1>3, <3>1
    <3>3. QED
      BY <1>2, <3>1, <3>2
  <2>3. ASSUME NEW i \in 1 .. Len(q)
        PROVE  m[i + 1] = IF q[i].op = "add" THEN m[i] + 1 ELSE m[i]
    <3>1. i + 1 \in 1 .. Len(p) /\ i \in 1 .. Len(q) + 1 /\ i + 1 \in 1 .. Len(q) + 1
      BY <1>1
    <3>2. num[(i + 1) + 1] = IF p[i + 1].op = "add" THEN num[i + 1] + 1 ELSE num[i + 1]
      BY <1>2, <3>1
    <3>3. QED
      BY <1>1, <1>3, <3>1, <3>2
  <2>4. QED
    BY <2>1, <2>2, <2>3 DEF Numbered
<1>7. OpsKnown(q, m)
  <2>1. ASSUME NEW i \in 1 .. Len(q), q[i].op = "add"
        PROVE  q[i].deps \subseteq 0 .. m[i] - 1 \cup {NoneDep}
    <3>1. i + 1 \in 1 .. Len(p) /\ q[i] = p[i + 1] /\ m[i] = num[i + 1]
      BY <1>1, <1>3
    <3>2. QED
      BY <2>1, <3>1 DEF OpsKnown
  <2>2. QED
    BY <2>1 DEF OpsKnown
<1>8. m[Len(q) + 1] = num[Len(p) + 1]
  BY <1>1, <1>3
<1>9. QED
  BY <1>1, <1>2, <1>3, <1>4, <1>5, <1>6, <1>7, <1>8 DEF Follows

\* The operation that adds an event.
LEMMA RunAdd ==
  ASSUME OrderInv, NEW p \in Seq(Operations), p # << >>, NEW num, Numbered(p, cnt, num),
         OpsKnown(p, num), NEW q, q = Tail(p), NEW m, m = [i \in 1 .. Len(q) + 1 |-> num[i + 1]],
         p[1].op = "add", AddActionOrPoint(p[1].deps, p[1].act, p[1].t)
  PROVE  /\ AnyNext /\ UNCHANGED ended /\ cnt' = cnt + 1
         /\ Grows(p, num, q, m, {})
         /\ \A b : Held(b) => Held(b)'
         /\ \A d \in Ids : rev[d] \subseteq rev'[d]
<1>1. /\ NetInv /\ cnt \in Nat /\ cnt <= MaxEvents /\ MaxEvents \in Nat
      /\ \A e \in 0 .. cnt - 1 : e \in Ids
  BY HostsFacts
<1>2. /\ p[1] \in Operations /\ num[1] = cnt
      /\ \A i \in 2 .. Len(p) : i - 1 \in 1 .. Len(q) /\ p[i] = q[i - 1] /\ num[i] = m[i - 1]
      /\ \A i \in 1 .. Len(p) : i = 1 \/ i \in 2 .. Len(p)
      /\ 1 \in 1 .. Len(p)
  <2>1. PICK n : n = cnt
    OBVIOUS
  <2>2. Follows(p, n, num, q, m)
    BY <1>1, <2>1, TailNumbered
  <2>3. QED
    BY <2>1, <2>2 DEF Follows
<1>3. p[1].act \in Actions /\ p[1].t \in Nat
  BY <1>2 DEF Operations
<1>4. p[1].deps \in SUBSET (0 .. cnt - 1 \cup {NoneDep})
  BY <1>2 DEF OpsKnown
<1>5. AnyNext
  BY <1>3, <1>4 DEF AnyNext, AnyBuild
<1>6. PICK n, deps, act, t : n = cnt /\ deps = p[1].deps /\ act = p[1].act /\ t = p[1].t
  OBVIOUS
<1>7. /\ cnt' = cnt + 1 /\ UNCHANGED ended
      /\ \A d \in Ids : rev'[d] = IF d \in p[1].deps THEN rev[d] \cup {n} ELSE rev[d]
      /\ \A e \in 0 .. cnt - 1 : NotFlow(e) => NotFlow(e)'
      /\ p[1].act.kind # "comm" => NotFlow(n)'
      /\ \A b : Held(b) => Held(b)'
      /\ p[1].deps = {NoneDep} => Held(n)'
  <2>1. /\ deps \in SUBSET (0 .. cnt - 1 \cup {NoneDep}) /\ act \in Actions /\ t \in Nat
        /\ AddActionOrPoint(deps, act, t)
    BY <1>3, <1>4, <1>6
  <2>2. Extends(n, deps, act)
    BY <1>1, <1>6, <2>1, AddGrows
  <2>3. QED
    BY <1>6, <2>2 DEF Extends
<1>8. \A d, e : Edge(p, num, d, e) => Edge(q, m, d, e)'
  <2>1. ASSUME NEW d, NEW e, Edge(p, num, d, e)
        PROVE  Edge(q, m, d, e)'
    <3>1. CASE d \in Ids /\ e \in rev[d]
      BY <1>7, <3>1 DEF Edge
    <3>2. CASE p[1].op = "add" /\ num[1] = e /\ d \in p[1].deps \cap Nat
      <4>1. d \in Ids
        BY <1>1, <1>4, <3>2, ConstantsAssumption
      <4>2. QED
        BY <1>2, <1>6, <1>7, <3>2, <4>1 DEF Edge
    <3>3. CASE \E i \in 2 .. Len(p) : p[i].op = "add" /\ num[i] = e /\ d \in p[i].deps \cap Nat
      BY <1>2, <3>3 DEF Edge
    <3>4. QED
      BY <1>2, <2>1, <3>1, <3>2, <3>3 DEF Edge
  <2>2. QED
    BY <2>1
<1>9. \A e : Plain(p, num, e) => Plain(q, m, e)'
  <2>1. ASSUME NEW e, Plain(p, num, e)
        PROVE  Plain(q, m, e)'
    <3>1. CASE e \in 0 .. cnt - 1 /\ NotFlow(e)
      BY <1>1, <1>7, <3>1 DEF Plain
    <3>2. CASE p[1].op = "add" /\ num[1] = e /\ p[1].act.kind # "comm"
      <4>1. e \in 0 .. cnt' - 1
        BY <1>1, <1>2, <1>7, <3>2
      <4>2. NotFlow(e)'
        BY <1>2, <1>6, <1>7, <3>2
      <4>3. QED
        BY <4>1, <4>2 DEF Plain
    <3>3. CASE \E i \in 2 .. Len(p) : p[i].op = "add" /\ num[i] = e /\ p[i].act.kind # "comm"
      BY <1>2, <3>3 DEF Plain
    <3>4. QED
      BY <1>2, <2>1, <3>1, <3>2, <3>3 DEF Plain
  <2>2. QED
    BY <2>1
<1>10. \A b : HeldSoon(p, num, b) => HeldSoon(q, m, b)'
  <2>1. ASSUME NEW b, HeldSoon(p, num, b)
        PROVE  HeldSoon(q, m, b)'
    <3>1. CASE Held(b)
      BY <1>7, <3>1 DEF HeldSoon
    <3>2. CASE p[1].op = "add" /\ num[1] = b /\ p[1].deps = {NoneDep}
      BY <1>2, <1>6, <1>7, <3>2 DEF HeldSoon
    <3>3. CASE \E i \in 2 .. Len(p) : p[i].op = "add" /\ num[i] = b /\ p[i].deps = {NoneDep}
      BY <1>2, <3>3 DEF HeldSoon
    <3>4. QED
      BY <1>2, <2>1, <3>1, <3>2, <3>3 DEF HeldSoon
  <2>2. QED
    BY <2>1
<1>11. Grows(p, num, q, m, {})
  BY <1>1, <1>7, <1>8, <1>9, <1>10 DEF Grows
<1>12. \A d \in Ids : rev[d] \subseteq rev'[d]
  BY <1>7
<1>13. QED
  BY <1>5, <1>7, <1>11, <1>12

\* The points of a collective whose barrier is held wait.
LEMMA BehindPending ==
  ASSUME OrderInv, NEW b \in Ids, NEW s \in Ids, NEW m, Behind(b, s, m)
  PROVE  b \in DOMAIN pending /\ s \in DOMAIN pending /\ m \in DOMAIN pending
<1>1. EdgesHeld /\ DOMAIN pending \cap DOMAIN ended = {}
  BY HostsFacts
<1>2. b \in DOMAIN pending
  BY DEF Behind, Held
<1>3. PICK f \in Ids : f \in rev[b] /\ s \in rev[f] /\ m \in rev[s]
  BY DEF Behind
<1>4. f \in DOMAIN pending
  BY <1>1, <1>2, <1>3 DEF EdgesHeld
<1>5. s \in DOMAIN pending
  BY <1>1, <1>3, <1>4 DEF EdgesHeld
<1>6. QED
  BY <1>1, <1>2, <1>3, <1>5 DEF EdgesHeld

\* An operation that is no addition leaves the numbers of the others.
LEMMA RunOther ==
  ASSUME NEW p \in Seq(Operations), p # << >>, NEW n \in Nat, NEW num, Numbered(p, n, num),
         OpsKnown(p, num), NEW q, q = Tail(p), NEW m, m = [i \in 1 .. Len(q) + 1 |-> num[i + 1]],
         p[1].op # "add", n = cnt, UNCHANGED cnt,
         \A d \in Ids : rev[d] \subseteq rev'[d],
         \A e : NotFlow(e) => NotFlow(e)',
         NEW gone, \A b : Held(b) /\ b \notin gone => Held(b)'
  PROVE  Grows(p, num, q, m, gone)
<1>6. Follows(p, n, num, q, m)
  BY TailNumbered
<1>1. /\ \A i \in 2 .. Len(p) : i - 1 \in 1 .. Len(q) /\ p[i] = q[i - 1] /\ num[i] = m[i - 1]
      /\ \A i \in 1 .. Len(p) : i = 1 \/ i \in 2 .. Len(p)
  BY <1>6 DEF Follows
<1>2. \A d, e : Edge(p, num, d, e) => Edge(q, m, d, e)'
  <2>1. ASSUME NEW d, NEW e, Edge(p, num, d, e)
        PROVE  Edge(q, m, d, e)'
    <3>1. CASE d \in Ids /\ e \in rev[d]
      BY <3>1 DEF Edge
    <3>2. CASE \E i \in 2 .. Len(p) : p[i].op = "add" /\ num[i] = e /\ d \in p[i].deps \cap Nat
      <4>1. PICK i \in 2 .. Len(p) : p[i].op = "add" /\ num[i] = e /\ d \in p[i].deps \cap Nat
        BY <3>2
      <4>2. /\ i - 1 \in 1 .. Len(q) /\ q[i - 1].op = "add" /\ m[i - 1] = e
            /\ d \in q[i - 1].deps \cap Nat
        BY <1>1, <4>1
      <4>3. QED
        BY <4>2 DEF Edge
    <3>3. QED
      BY <1>1, <2>1, <3>1, <3>2 DEF Edge
  <2>2. QED
    BY <2>1
<1>3. \A e : Plain(p, num, e) => Plain(q, m, e)'
  <2>1. ASSUME NEW e, Plain(p, num, e)
        PROVE  Plain(q, m, e)'
    <3>1. CASE e \in 0 .. cnt - 1 /\ NotFlow(e)
      BY <3>1 DEF Plain
    <3>2. CASE \E i \in 2 .. Len(p) : p[i].op = "add" /\ num[i] = e /\ p[i].act.kind # "comm"
      BY <1>1, <3>2 DEF Plain
    <3>3. QED
      BY <1>1, <2>1, <3>1, <3>2 DEF Plain
  <2>2. QED
    BY <2>1
<1>4. \A b : HeldSoon(p, num, b) /\ b \notin gone => HeldSoon(q, m, b)'
  <2>1. ASSUME NEW b, HeldSoon(p, num, b), b \notin gone
        PROVE  HeldSoon(q, m, b)'
    <3>1. CASE Held(b)
      BY <2>1, <3>1 DEF HeldSoon
    <3>2. CASE \E i \in 2 .. Len(p) : p[i].op = "add" /\ num[i] = b /\ p[i].deps = {NoneDep}
      BY <1>1, <3>2 DEF HeldSoon
    <3>3. QED
      BY <1>1, <2>1, <3>1, <3>2 DEF HeldSoon
  <2>2. QED
    BY <2>1
<1>5. QED
  BY <1>2, <1>3, <1>4 DEF Grows

\* A step that takes away no barrier of a collective that waits.
GrowsTo(p, num, q, m) ==
  \E gone : /\ Grows(p, num, q, m, gone)
            /\ \A i \in DOMAIN waitings : waitings[i].barrier \notin gone

\* A step of the queue, or of a program, keeps what is known of the program and
\* of what the hosts have on it.
LEMMA BuildKeeps ==
  ASSUME NEW p, NEW num, NEW q, NEW m, NEW gone, NEW n, n = cnt',
         BuildInv(p, num), Grows(p, num, q, m, gone),
         \A i \in DOMAIN waitings : waitings[i].barrier \notin gone,
         Numbered(q, n, m), OpsKnown(q, m), OpsGuarded(q)',
         m[Len(q) + 1] = num[Len(p) + 1],
         UNCHANGED <<tail, idOf, waitings>>
  PROVE  BuildInv(q, m)'
<1>1. CollHeld(p, num) /\ TailsKnown(num[Len(p) + 1]) /\ EventsPlain(p, num)
  BY DEF BuildInv
<1>2. CollHeld(q, m)'
  <2>1. ASSUME NEW w \in Range(waitings)
        PROVE  /\ HeldSoon(q, m, w.barrier)'
               /\ \E f : /\ Edge(q, m, w.barrier, f)' /\ Edge(q, m, f, w.startMeta)'
                         /\ Edge(q, m, w.startMeta, w.endMeta)'
    <3>1. HeldSoon(p, num, w.barrier) /\ w.barrier \notin gone
      BY <1>1 DEF CollHeld, Range
    <3>2. PICK f : /\ Edge(p, num, w.barrier, f) /\ Edge(p, num, f, w.startMeta)
                   /\ Edge(p, num, w.startMeta, w.endMeta)
      BY <1>1 DEF CollHeld
    <3>3. HeldSoon(q, m, w.barrier)'
      BY <3>1 DEF Grows
    <3>4. Edge(q, m, w.barrier, f)' /\ Edge(q, m, f, w.startMeta)' /\ Edge(q, m, w.startMeta, w.endMeta)'
      BY <3>2 DEF Grows
    <3>5. QED
      BY <3>3, <3>4
  <2>2. \A i, j \in DOMAIN waitings' : waitings'[i].barrier = waitings'[j].barrier => i = j
    BY <1>1 DEF CollHeld
  <2>3. Range(waitings)' = Range(waitings)
    BY DEF Range
  <2>4. QED
    BY <2>1, <2>2, <2>3 DEF CollHeld
<1>3. TailsKnown(m[Len(q) + 1])'
  BY <1>1 DEF TailsKnown, OwnIds
<1>4. EventsPlain(q, m)'
  <2>1. \A h : OwnIds(h)' = OwnIds(h)
    BY DEF OwnIds
  <2>2. QED
    BY <1>1, <2>1 DEF EventsPlain, Grows
<1>5. QED
  BY <1>2, <1>3, <1>4 DEF BuildInv

\* The handler in progress goes on, with what it is about and in the same phase.
SameCaller ==
  \/ call = NoCall /\ call' = NoCall
  \/ /\ call # NoCall /\ call' # NoCall
     /\ call'.host = call.host /\ call'.phase = call.phase
     /\ call'.next = call.next /\ call'.id = call.id

\* Such a step keeps what is known of who waits for what, if it ends nothing that
\* is not a flow.
LEMMA AnswerKeeps ==
  ASSUME NEW p, NEW num, NEW q, NEW m, NEW gone, cnt \in Nat, cnt' \in Nat,
         AnswerInv(p, num), Grows(p, num, q, m, gone),
         p = << >> => q = << >>,
         \A e : Plain(p, num, e) /\ e \notin DOMAIN ended => e \notin DOMAIN ended',
         SameCaller, UNCHANGED <<idOf, syncing, hostState>>
  PROVE  AnswerInv(q, m)'
<1>1. /\ Registered /\ WaitersHeard /\ EventsOwned /\ AboutNew(p, num) /\ AboutOwn
      /\ call # NoCall /\ call.phase # "build" => p = << >>
  BY DEF AnswerInv
<1>2. Registered'
  <2>1. ASSUME NEW e \in DOMAIN syncing
        PROVE  /\ e \in 0 .. cnt' - 1 /\ e \notin DOMAIN ended' /\ NotFlow(e)'
               /\ hostState'[syncing'[e]] = "wait"
    <3>1. e \in 0 .. cnt - 1 /\ e \notin DOMAIN ended /\ NotFlow(e) /\ hostState[syncing[e]] = "wait"
      BY <1>1 DEF Registered
    <3>2. Plain(p, num, e)
      BY <3>1 DEF Plain
    <3>3. NotFlow(e)' /\ cnt' >= cnt /\ e \notin DOMAIN ended'
      BY <3>1, <3>2 DEF Grows
    <3>4. e \in 0 .. cnt' - 1
      BY <3>1, <3>3
    <3>5. QED
      BY <3>1, <3>3, <3>4
  <2>2. QED
    BY <1>1, <2>1 DEF Registered
<1>3. \A h : Caller(h)' <=> Caller(h)
  BY DEF Caller, SameCaller
<1>4. WaitersHeard'
  BY <1>1, <1>3 DEF WaitersHeard, SameCaller, Caller
<1>10. \A h : OwnIds(h)' = OwnIds(h)
  BY DEF OwnIds
<1>5. EventsOwned'
  BY <1>1, <1>10 DEF EventsOwned
<1>6. AboutNew(q, m)'
  <2>1. ASSUME NEW e, call' # NoCall, call'.phase = "build", call'.next = "sync", call'.id = e
        PROVE  /\ e \notin DOMAIN syncing' /\ e \notin DOMAIN ended'
               /\ Plain(q, m, e)' /\ \A h \in Hosts : e \notin OwnIds(h)'
    <3>1. call # NoCall /\ call.phase = "build" /\ call.next = "sync" /\ call.id = e
      BY <2>1 DEF SameCaller
    <3>2. /\ e \notin DOMAIN syncing /\ e \notin DOMAIN ended /\ Plain(p, num, e)
          /\ \A h \in Hosts : e \notin OwnIds(h)
      BY <1>1, <3>1 DEF AboutNew
    <3>3. Plain(q, m, e)' /\ e \notin DOMAIN ended'
      BY <3>2 DEF Grows
    <3>4. QED
      BY <1>10, <3>2, <3>3
  <2>2. QED
    BY <2>1 DEF AboutNew
<1>7. AboutOwn'
  BY <1>1, <1>10 DEF AboutOwn, SameCaller
<1>8. call' # NoCall /\ call'.phase # "build" => q = << >>
  BY <1>1 DEF SameCaller
<1>9. QED
  BY <1>2, <1>4, <1>5, <1>6, <1>7, <1>8 DEF AnswerInv

\* What is no flow does not end within a call of the queue.
LEMMA PlainLasts ==
  ASSUME OrderInv, NEW p \in Seq(Operations), NEW num, Numbered(p, cnt, num),
         \A e \in DOMAIN ended' \ NetIds : e \in DOMAIN ended,
         NEW e, Plain(p, num, e), e \notin DOMAIN ended
  PROVE  e \notin DOMAIN ended'
<1>1. cnt \in Nat /\ NetIds \subseteq 0 .. cnt - 1
  BY HostsFacts
<1>2. e \notin NetIds
  <2>1. CASE NotFlow(e)
    BY <2>1 DEF NotFlow
  <2>2. CASE \E i \in 1 .. Len(p) : num[i] = e
    <3>1. PICK i \in 1 .. Len(p) : num[i] = e
      BY <2>2
    <3>2. PICK n : n = cnt
      OBVIOUS
    <3>3. num[i] >= n /\ num[i] \in Nat
      BY <1>1, <3>2, NumbersGrow
    <3>4. QED
      BY <1>1, <3>1, <3>2, <3>3
  <2>3. QED
    BY <2>1, <2>2 DEF Plain
<1>3. QED
  BY <1>2

\* Behind its barrier the collective stays.
LEMMA GuardedRest ==
  ASSUME NEW p, NEW q, Len(q) \in Nat, Len(p) = Len(q) + 1, \A i \in 1 .. Len(q) : q[i] = p[i + 1],
         OpsGuarded(p), UNCHANGED waitings, \A d \in Ids : rev[d] \subseteq rev'[d],
         Len(q) # 0 => \A b : Held(b) => Held(b)'
  PROVE  OpsGuarded(q)'
<1> SUFFICES ASSUME NEW k \in 1 .. Len(q), q[k].op # "add"
             PROVE  \E b, s, m \in Ids :
                      /\ Behind(b, s, m)'
                      /\ \A i \in 1 .. Len(q) : q[i].op = "edge" => q[i].id \in {s, m}
                      /\ \A i \in 1 .. Len(q) : q[i].op = "release" =>
                           q[i].id = b /\ i = Len(q) /\ \A j \in DOMAIN waitings' : waitings'[j].barrier # b
  BY DEF OpsGuarded
<1>1. \A i \in 1 .. Len(q) : i + 1 \in 1 .. Len(p) /\ q[i] = p[i + 1] /\ (i + 1 = Len(p) => i = Len(q))
  OBVIOUS
<1>2. PICK b \in Ids, s \in Ids, m \in Ids :
        /\ Behind(b, s, m)
        /\ \A i \in 1 .. Len(p) : p[i].op = "edge" => p[i].id \in {s, m}
        /\ \A i \in 1 .. Len(p) : p[i].op = "release" =>
             p[i].id = b /\ i = Len(p) /\ \A j \in DOMAIN waitings : waitings[j].barrier # b
  BY <1>1 DEF OpsGuarded
<1>3. \A i \in 1 .. Len(q) : q[i].op = "edge" => q[i].id \in {s, m}
  BY <1>1, <1>2
<1>4. \A i \in 1 .. Len(q) : q[i].op = "release" =>
        q[i].id = b /\ i = Len(q) /\ \A j \in DOMAIN waitings' : waitings'[j].barrier # b
  <2>1. ASSUME NEW i \in 1 .. Len(q), q[i].op = "release"
        PROVE  q[i].id = b /\ i = Len(q) /\ \A j \in DOMAIN waitings' : waitings'[j].barrier # b
    <3>1. p[i + 1].id = b /\ i + 1 = Len(p) /\ \A j \in DOMAIN waitings : waitings[j].barrier # b
      BY <1>1, <1>2, <2>1
    <3>2. q[i].id = b /\ i = Len(q)
      BY <1>1, <3>1
    <3>3. \A j \in DOMAIN waitings' : waitings'[j].barrier # b
      BY <3>1
    <3>4. QED
      BY <3>2, <3>3
  <2>2. QED
    BY <2>1
<1>5. Behind(b, s, m)'
  <2>1. Held(b)'
    BY <1>2 DEF Behind
  <2>2. PICK f \in Ids : f \in rev[b] /\ s \in rev[f] /\ m \in rev[s]
    BY <1>2 DEF Behind
  <2>3. f \in rev'[b] /\ s \in rev'[f] /\ m \in rev'[s]
    BY <2>2
  <2>4. QED
    BY <2>1, <2>3 DEF Behind
<1>6. QED
  BY <1>3, <1>4, <1>5

\* So for what is left of a program.
LEMMA GuardedTail ==
  ASSUME NEW p \in Seq(Operations), p # << >>, NEW q, q = Tail(p), OpsGuarded(p),
         UNCHANGED waitings, \A d \in Ids : rev[d] \subseteq rev'[d],
         q # << >> => \A b : Held(b) => Held(b)'
  PROVE  OpsGuarded(q)'
<1>1. Len(q) \in Nat /\ Len(p) = Len(q) + 1 /\ \A i \in 1 .. Len(q) : q[i] = p[i + 1]
  OBVIOUS
<1>2. Len(q) # 0 => q # << >>
  OBVIOUS
<1>3. Len(q) # 0 => \A b : Held(b) => Held(b)'
  BY <1>2
<1>4. QED
  BY <1>1, <1>3, GuardedRest

\* An operation that adds a dependency, or releases a barrier.
LEMMA RunLink ==
  ASSUME OrderInv, NEW p \in Seq(Operations), p # << >>, NEW num, BuildInv(p, num),
         NEW q, q = Tail(p), NEW m, m = [i \in 1 .. Len(q) + 1 |-> num[i + 1]],
         UNCHANGED waitings,
         \/ p[1].op = "edge" /\ AddDependency(p[1].id, p[1].dep)
         \/ p[1].op = "release" /\ RemoveNoneDependency(p[1].id)
  PROVE  /\ AnyNext /\ UNCHANGED <<ended, cnt>> /\ OpsGuarded(q)'
         /\ GrowsTo(p, num, q, m)
<1>1. /\ NetInv /\ cnt \in Nat /\ rev \in [Ids -> SUBSET Ids]
      /\ Numbered(p, cnt, num) /\ OpsKnown(p, num) /\ OpsGuarded(p)
  BY HostsFacts DEF BuildInv
<1>2. p[1] \in Operations /\ Len(p) \in Nat /\ 1 \in 1 .. Len(p) /\ p[1].op # "add"
  OBVIOUS
<1>3. PICK b \in Ids, s \in Ids, e \in Ids :
        /\ Behind(b, s, e)
        /\ \A i \in 1 .. Len(p) : p[i].op = "edge" => p[i].id \in {s, e}
        /\ \A i \in 1 .. Len(p) : p[i].op = "release" =>
             p[i].id = b /\ i = Len(p) /\ \A j \in DOMAIN waitings : waitings[j].barrier # b
  BY <1>1, <1>2 DEF OpsGuarded
<1>4. b \in DOMAIN pending /\ s \in DOMAIN pending /\ e \in DOMAIN pending
  BY <1>3, BehindPending
<1>5. PICK n : n = cnt
  OBVIOUS
<1>6. CASE p[1].op = "edge" /\ AddDependency(p[1].id, p[1].dep)
  <2>1. PICK id, dep : id = p[1].id /\ dep = p[1].dep
    OBVIOUS
  <2>2. id \in DOMAIN pending
    BY <1>2, <1>3, <1>4, <1>6, <2>1
  <2>3. AddDependency(id, dep)
    BY <1>6, <2>1
  <2>4. dep \in DOMAIN pending
    BY <2>3 DEF AddDependency, Independent
  <2>5. /\ UNCHANGED <<cnt, ended>>
        /\ \A d \in Ids : rev'[d] = IF d = dep THEN rev[d] \cup {id} ELSE rev[d]
        /\ \A x : NotFlow(x) => NotFlow(x)'
        /\ \A x : Held(x) => Held(x)'
    BY <1>1, <2>2, <2>3, <2>4, LinkGrows
  <2>6. \A d \in Ids : rev[d] \subseteq rev'[d]
    BY <2>5
  <2>7. Grows(p, num, q, m, {})
    BY <1>1, <1>2, <1>5, <2>5, <2>6, RunOther
  <2>8. OpsGuarded(q)'
    BY <1>1, <2>5, <2>6, GuardedTail
  <2>9. AnyNext
    BY <2>2, <2>3, <2>4 DEF AnyNext, AnyBuild
  <2>10. GrowsTo(p, num, q, m)
    <3>1. PICK gone : gone = {}
      OBVIOUS
    <3>2. Grows(p, num, q, m, gone) /\ \A i \in DOMAIN waitings : waitings[i].barrier \notin gone
      BY <2>7, <3>1
    <3>3. QED
      BY <3>2 DEF GrowsTo
  <2>11. QED
    BY <2>5, <2>8, <2>9, <2>10
<1>7. CASE p[1].op = "release" /\ RemoveNoneDependency(p[1].id)
  <2>1. /\ p[1].id = b /\ Len(p) = 1 /\ \A j \in DOMAIN waitings : waitings[j].barrier # b
    BY <1>2, <1>3, <1>7
  <2>2. RemoveNoneDependency(b)
    BY <1>7, <2>1
  <2>3. /\ UNCHANGED <<cnt, ended, rev>>
        /\ \A x : NotFlow(x) => NotFlow(x)'
        /\ \A x : Held(x) /\ x # b => Held(x)'
    BY <1>1, <1>4, <2>2, ReleaseGrows
  <2>4. \A x : Held(x) /\ x \notin {b} => Held(x)'
    BY <2>3
  <2>5. \A d \in Ids : rev[d] \subseteq rev'[d]
    BY <2>3
  <2>6. Grows(p, num, q, m, {b})
    BY <1>1, <1>2, <1>5, <2>3, <2>4, <2>5, RunOther
  <2>7. q = << >>
    BY <2>1
  <2>8. OpsGuarded(q)'
    BY <1>1, <2>5, <2>7, GuardedTail
  <2>9. AnyNext
    BY <1>4, <2>2 DEF AnyNext, AnyBuild
  <2>10. \A i \in DOMAIN waitings : waitings[i].barrier \notin {b}
    BY <2>1
  <2>11. GrowsTo(p, num, q, m)
    BY <2>6, <2>10 DEF GrowsTo
  <2>12. QED
    BY <2>3, <2>8, <2>9, <2>11
<1>8. QED
  BY <1>6, <1>7

-----------------------------------------------------------------------------
(***************************************************************************)
(* The steps of a handler.                                                 *)
(***************************************************************************)

\* One operation of a program.
LEMMA RunOpKeeps ==
  ASSUME HostsInv, RunOp
  PROVE  HostsInv'
<1>1. OrderInv /\ HostsTypes
  BY DEF HostsInv
<1>2. PICK p, num : p = Prog /\ BuildInv(p, num) /\ AnswerInv(p, num)
  BY DEF HostsInv
<1>3. call # NoCall /\ call \in Handlers /\ call.phase = "build"
  BY <1>1 DEF RunOp, InPhase, HostsTypes, NoCall
<1>4. p = call.prog /\ p \in Seq(Operations) /\ p # << >> /\ p[1] = Head(p)
  BY <1>2, <1>3 DEF Prog, RunOp, Handlers
<1>5. /\ cnt \in Nat /\ Numbered(p, cnt, num) /\ OpsKnown(p, num) /\ OpsGuarded(p)
  BY <1>1, <1>2, HostsFacts DEF BuildInv
<1>6. PICK q, m : q = Tail(p) /\ m = [i \in 1 .. Len(q) + 1 |-> num[i + 1]]
  OBVIOUS
<1>7. /\ UNCHANGED <<tail, buffered, idOf, syncing, waitings, clock, hostState>>
      /\ call' = [call EXCEPT !.prog = q]
  BY <1>4, <1>6 DEF RunOp, hostVars
<1>8. PICK n : n = cnt
  OBVIOUS
<1>20. n \in Nat /\ Numbered(p, n, num)
  BY <1>5, <1>8
<1>9. /\ q \in Seq(Operations)
      /\ p[1].op = "add" => Numbered(q, n + 1, m)
      /\ p[1].op # "add" => Numbered(q, n, m)
      /\ OpsKnown(q, m)
      /\ m[Len(q) + 1] = num[Len(p) + 1]
  <2>1. Follows(p, n, num, q, m)
    BY <1>4, <1>5, <1>6, <1>20, TailNumbered
  <2>2. QED
    BY <2>1 DEF Follows
<1>10. /\ AnyNext /\ UNCHANGED ended /\ OpsGuarded(q)'
       /\ GrowsTo(p, num, q, m)
       /\ Numbered(q, cnt', m)
  <2>1. CASE p[1].op = "add" /\ AddActionOrPoint(p[1].deps, p[1].act, p[1].t)
    <3>1. /\ AnyNext /\ UNCHANGED ended /\ cnt' = cnt + 1 /\ Grows(p, num, q, m, {})
          /\ \A b : Held(b) => Held(b)'
          /\ \A d \in Ids : rev[d] \subseteq rev'[d]
      BY <1>1, <1>4, <1>5, <1>6, <2>1, RunAdd
    <3>2. OpsGuarded(q)'
      BY <1>4, <1>5, <1>6, <1>7, <3>1, GuardedTail
    <3>3. GrowsTo(p, num, q, m)
      BY <3>1 DEF GrowsTo
    <3>4. QED
      BY <1>8, <1>9, <2>1, <3>1, <3>2, <3>3
  <2>2. CASE \/ p[1].op = "edge" /\ AddDependency(p[1].id, p[1].dep)
             \/ p[1].op = "release" /\ RemoveNoneDependency(p[1].id)
    <3>1. /\ AnyNext /\ UNCHANGED <<ended, cnt>> /\ OpsGuarded(q)'
          /\ GrowsTo(p, num, q, m)
      BY <1>1, <1>2, <1>4, <1>6, <1>7, <2>2, RunLink
    <3>2. QED
      BY <1>8, <1>9, <2>2, <3>1
  <2>3. QED
    BY <1>4, <2>1, <2>2 DEF RunOp
<1>11. OrderInv' /\ cnt' \in Nat
  <2>1. OrderInv'
    BY <1>1, <1>10, NextOrderInv
  <2>2. QED
    BY <1>1, <1>5, <1>9, <1>10, <2>1 DEF Numbered
<1>12. call' \in Handlers
  BY <1>3, <1>7, <1>9 DEF Handlers
<1>13. HostsTypes'
  BY <1>1, <1>7, <1>12 DEF HostsTypes
<1>14. PICK gone : /\ Grows(p, num, q, m, gone)
                   /\ \A i \in DOMAIN waitings : waitings[i].barrier \notin gone
  BY <1>10 DEF GrowsTo
<1>15. BuildInv(q, m)'
  <2>1. PICK k : k = cnt'
    OBVIOUS
  <2>2. QED
    BY <1>2, <1>7, <1>9, <1>10, <1>14, <2>1, BuildKeeps
<1>16. call' # NoCall /\ SameCaller
  <2>1. /\ call'.host = call.host /\ call'.phase = call.phase
        /\ call'.next = call.next /\ call'.id = call.id
    BY <1>3, <1>7 DEF Handlers
  <2>2. NoCall.phase = "none"
    BY DEF NoCall
  <2>3. QED
    BY <1>3, <2>1, <2>2 DEF SameCaller
<1>17. AnswerInv(q, m)'
  BY <1>2, <1>4, <1>5, <1>7, <1>10, <1>11, <1>14, <1>16, AnswerKeeps
<1>18. q = Prog'
  BY <1>3, <1>7, <1>16 DEF Prog, Handlers
<1>19. QED
  BY <1>11, <1>13, <1>15, <1>17, <1>18 DEF HostsInv

\* The program in progress is one.
LEMMA ProgType ==
  ASSUME HostsTypes
  PROVE  Prog \in Seq(Operations)
<1>1. << >> \in Seq(Operations)
  OBVIOUS
<1>2. CASE call = NoCall
  BY <1>1, <1>2 DEF Prog
<1>3. CASE call # NoCall
  BY <1>3 DEF Prog, HostsTypes, Handlers
<1>4. QED
  BY <1>2, <1>3

\* A step that leaves the queue alone is quiet.
LEMMA SameQuiet ==
  ASSUME UNCHANGED vars
  PROVE  /\ QuietStep /\ UNCHANGED <<ended, cnt>>
         /\ \A e : NotFlow(e)' <=> NotFlow(e)
<1>1. UNCHANGED <<pending, rev, cnt, ended, flows, retired, stack>>
  BY DEF vars, queueVars, netVars
<1>2. Items' = Items /\ NetIds' = NetIds
  BY <1>1 DEF Items, NetIds
<1>3. \A b : Held(b)' <=> Held(b)
  BY <1>1 DEF Held
<1>4. \A e : NotFlow(e)' <=> NotFlow(e)
  BY <1>1, <1>2 DEF NotFlow
<1>5. QED
  BY <1>1, <1>2, <1>3, <1>4 DEF QuietStep

\* A quiet step keeps what is known of the program and of what the hosts have on
\* it.
LEMMA QuietBuild ==
  ASSUME OrderInv, NEW p, NEW num, BuildInv(p, num), QuietStep, UNCHANGED <<tail, idOf, waitings>>
  PROVE  Grows(p, num, p, num, {}) /\ BuildInv(p, num)'
<1>1. NetInv /\ Numbered(p, cnt, num) /\ OpsKnown(p, num) /\ OpsGuarded(p)
  BY HostsFacts DEF BuildInv
<1>2. Grows(p, num, p, num, {})
  BY <1>1, QuietGrows
<1>3. PICK n : n = cnt'
  OBVIOUS
<1>4. Numbered(p, n, num)
  BY <1>1, <1>3 DEF QuietStep
<1>5. OpsGuarded(p)'
  <2>1. ASSUME NEW b, NEW s, NEW m, Behind(b, s, m)
        PROVE  Behind(b, s, m)'
    BY <2>1 DEF Behind, QuietStep
  <2>2. QED
    BY <1>1, <2>1 DEF OpsGuarded
<1>6. PICK gone : gone = {}
  OBVIOUS
<1>7. Grows(p, num, p, num, gone) /\ \A i \in DOMAIN waitings : waitings[i].barrier \notin gone
  BY <1>2, <1>6
<1>8. BuildInv(p, num)'
  BY <1>1, <1>3, <1>4, <1>5, <1>7, BuildKeeps
<1>9. QED
  BY <1>2, <1>8

\* The queue works on, or the network runs.
LEMMA QueueStepKeeps ==
  ASSUME HostsInv, Internal \/ ProceedNetsim, UNCHANGED <<simVars, hostVars>>
  PROVE  HostsInv'
<1>1. OrderInv /\ HostsTypes /\ NetInv
  BY HostsFacts DEF HostsInv
<1>2. PICK p, num : p = Prog /\ BuildInv(p, num) /\ AnswerInv(p, num)
  BY DEF HostsInv
<1>3. UNCHANGED <<tail, buffered, idOf, syncing, waitings, call, clock, hostState>>
  BY DEF simVars, hostVars
<1>4. OrderInv'
  BY <1>1, NextOrderInv DEF AnyNext
<1>5. HostsTypes'
  BY <1>1, <1>3 DEF HostsTypes
<1>6. QuietStep
  BY <1>1, InternalQuiet, ExecuteQuiet
<1>7. Grows(p, num, p, num, {}) /\ BuildInv(p, num)'
  BY <1>1, <1>2, <1>3, <1>6, QuietBuild
<1>8. AnswerInv(p, num)'
  <2>1. \A e \in DOMAIN ended' \ NetIds : e \in DOMAIN ended
    BY <1>1, InternalEnds
  <2>2. p \in Seq(Operations) /\ Numbered(p, cnt, num)
    BY <1>1, <1>2, ProgType DEF BuildInv
  <2>3. \A e : Plain(p, num, e) /\ e \notin DOMAIN ended => e \notin DOMAIN ended'
    BY <1>1, <2>1, <2>2, PlainLasts
  <2>4. SameCaller
    BY <1>3 DEF SameCaller
  <2>5. cnt \in Nat /\ cnt' \in Nat
    BY <1>1, <1>6, HostsFacts DEF QuietStep
  <2>6. QED
    BY <1>2, <1>3, <1>7, <2>3, <2>4, <2>5, AnswerKeeps
<1>9. p = Prog'
  BY <1>2, <1>3 DEF Prog
<1>10. QED
  BY <1>4, <1>5, <1>7, <1>8, <1>9 DEF HostsInv

\* execute, and the reply to the host that waits for what it ends.
LEMMA ExecuteAnswers ==
  ASSUME OrderInv, HostsTypes, NEW num, AnswerInv(<< >>, num), QuietStep,
         call # NoCall, call.phase \in {"toTime", "toEvent"},
         call' = call \/ (call.phase = "toEvent" /\ call' = NoCall),
         NEW e \in DOMAIN queue, ExecuteAnswering(e)
  PROVE  AnswerInv(<< >>, num)' /\ HostsTypes'
<1>1. NetInv /\ cnt \in Nat
  BY HostsFacts
<1>2. /\ Registered /\ WaitersHeard /\ EventsOwned /\ AboutNew(<< >>, num) /\ AboutOwn
  BY DEF AnswerInv
<1>3. /\ e[2] \in Ids
      /\ e[1] = "Start" => UNCHANGED ended
      /\ e[1] # "Start" => DOMAIN ended' = DOMAIN ended \cup {e[2]}
  BY <1>1, ExecuteEnds DEF ExecuteAnswering
<1>4. \A x : NotFlow(x) => NotFlow(x)'
  BY <1>1, QuietNotFlow
<1>5. UNCHANGED <<cnt, tail, buffered, idOf, waitings>>
  BY DEF QuietStep, ExecuteAnswering
<1>6. queue[e][1] \in Nat
  BY <1>1, NetTypes DEF TypeOK, Partial
<1>7. \A h : OwnIds(h)' = OwnIds(h)
  BY <1>5 DEF OwnIds
<1>9. CASE e[1] # "Start" /\ e[2] \in DOMAIN syncing
  <2>1. PICK w : w = syncing[e[2]]
    OBVIOUS
  <2>2. /\ hostState' = [hostState EXCEPT ![w] = "run"]
        /\ clock' = [clock EXCEPT ![w] = queue[e][1]]
        /\ syncing' = Without(syncing, {e[2]})
    BY <1>9, <2>1 DEF ExecuteAnswering, SyncResponse, Wake
  <2>3. w \in Hosts /\ hostState[w] = "wait"
    BY <1>2, <1>9, <2>1 DEF HostsTypes, Registered
  <2>4. /\ DOMAIN syncing' = DOMAIN syncing \ {e[2]}
        /\ \A f \in DOMAIN syncing' : syncing'[f] = syncing[f] /\ syncing[f] # w
    BY <1>2, <1>9, <2>1, <2>2 DEF Without, Registered
  <2>5. /\ hostState'[w] = "run"
        /\ \A h \in Hosts \ {w} : hostState'[h] = hostState[h]
    BY <2>2, <2>3 DEF HostsTypes
  <2>6. ~ Caller(w)
    BY <1>2, <1>9, <2>1, <2>3 DEF WaitersHeard
  <2>7. HostsTypes'
    <3>1. hostState' \in [Hosts -> {"run", "wait", "exit"}] /\ clock' \in [Hosts -> Nat]
      BY <1>6, <2>2 DEF HostsTypes
    <3>2. \A f \in DOMAIN syncing' : syncing'[f] \in Hosts
      BY <2>4 DEF HostsTypes
    <3>3. call' = NoCall \/ call' \in Handlers
      BY DEF HostsTypes
    <3>4. QED
      BY <1>5, <3>1, <3>2, <3>3 DEF HostsTypes
  <2>8. Registered'
    <3>1. ASSUME NEW f \in DOMAIN syncing'
          PROVE  /\ f \in 0 .. cnt' - 1 /\ f \notin DOMAIN ended' /\ NotFlow(f)'
                 /\ hostState'[syncing'[f]] = "wait"
      <4>1. f \in DOMAIN syncing /\ f # e[2] /\ syncing'[f] = syncing[f] /\ syncing[f] # w
        BY <2>4
      <4>2. f \in 0 .. cnt - 1 /\ f \notin DOMAIN ended /\ NotFlow(f) /\ hostState[syncing[f]] = "wait"
        BY <1>2, <4>1 DEF Registered
      <4>3. syncing[f] \in Hosts
        BY <4>1 DEF HostsTypes
      <4>4. QED
        BY <1>3, <1>4, <1>5, <1>9, <2>5, <4>1, <4>2, <4>3
    <3>2. \A f, g \in DOMAIN syncing' : syncing'[f] = syncing'[g] => f = g
      BY <1>2, <2>4 DEF Registered
    <3>3. QED
      BY <3>1, <3>2 DEF Registered
  <2>9. WaitersHeard'
    <3>1. ASSUME NEW h \in Hosts, hostState'[h] = "wait"
          PROVE  Caller(h)' \/ \E f \in DOMAIN syncing' : syncing'[f] = h
      <4>1. h # w /\ hostState[h] = "wait"
        BY <2>5, <3>1
      <4>2. CASE Caller(h)
        <5>1. Caller(h)' \/ call.phase = "toEvent"
          BY <4>2 DEF Caller
        <5>2. QED
          BY <4>2, <5>1 DEF Caller
      <4>3. CASE \E f \in DOMAIN syncing : syncing[f] = h
        BY <2>1, <2>4, <4>1, <4>3
      <4>4. QED
        BY <1>2, <4>1, <4>2, <4>3 DEF WaitersHeard
    <3>2. ASSUME NEW h \in Hosts, Caller(h)'
          PROVE  /\ \A f \in DOMAIN syncing' : syncing'[f] # h
                 /\ call'.next = "return" => hostState'[h] = "run" /\ call'.phase = "build"
                 /\ call'.next # "return" => hostState'[h] = "wait"
      <4>1. call' = call /\ Caller(h)
        BY <3>2 DEF Caller
      <4>2. h # w
        BY <2>6, <4>1
      <4>3. QED
        BY <1>2, <2>4, <2>5, <4>1, <4>2 DEF WaitersHeard
    <3>3. QED
      BY <3>1, <3>2 DEF WaitersHeard
  <2>10. EventsOwned'
    BY <1>2, <1>7, <2>4 DEF EventsOwned
  <2>11. AboutNew(<< >>, num)' /\ AboutOwn'
    BY <1>2, <1>7 DEF AboutNew, AboutOwn
  <2>12. QED
    BY <2>7, <2>8, <2>9, <2>10, <2>11 DEF AnswerInv
<1>10. CASE ~ (e[1] # "Start" /\ e[2] \in DOMAIN syncing)
  <2>1. UNCHANGED <<syncing, hostState, clock>>
    BY <1>10 DEF ExecuteAnswering, hostVars
  <2>2. HostsTypes'
    BY <1>5, <2>1 DEF HostsTypes
  <2>3. Registered'
    BY <1>2, <1>3, <1>4, <1>5, <1>10, <2>1 DEF Registered
  <2>4. WaitersHeard'
    BY <1>2, <2>1 DEF WaitersHeard, Caller
  <2>5. EventsOwned'
    BY <1>2, <1>7, <2>1 DEF EventsOwned
  <2>6. AboutNew(<< >>, num)' /\ AboutOwn'
    BY <1>2, <1>7 DEF AboutNew, AboutOwn
  <2>7. QED
    BY <2>2, <2>3, <2>4, <2>5, <2>6 DEF AnswerInv
<1>11. QED
  BY <1>9, <1>10

\* The loops of execute_to_time and execute_to_event execute an event.
LEMMA LoopKeeps ==
  ASSUME HostsInv, call # NoCall, call.phase \in {"toTime", "toEvent"},
         call' = call \/ (call.phase = "toEvent" /\ call' = NoCall),
         NEW e \in DOMAIN queue, ExecuteAnswering(e)
  PROVE  HostsInv'
<1>1. OrderInv /\ HostsTypes /\ NetInv
  BY HostsFacts DEF HostsInv
<1>2. PICK p, num : p = Prog /\ BuildInv(p, num) /\ AnswerInv(p, num)
  BY DEF HostsInv
<1>3. p = << >>
  BY <1>2 DEF AnswerInv
<1>4. Execute
  BY DEF Execute, ExecuteAnswering
<1>5. QuietStep /\ OrderInv'
  BY <1>1, <1>4, ExecuteQuiet, NextOrderInv DEF AnyNext
<1>6. BuildInv(p, num)'
  BY <1>1, <1>2, <1>5, QuietBuild DEF ExecuteAnswering
<1>7. AnswerInv(p, num)' /\ HostsTypes'
  BY <1>1, <1>2, <1>3, <1>5, ExecuteAnswers
<1>8. p = Prog'
  BY <1>2, <1>3 DEF Prog
<1>9. QED
  BY <1>5, <1>6, <1>7, <1>8 DEF HostsInv

\* A handler that has nothing more to build goes on without the queue: it
\* returns, registers the caller, executes, or replies.
LEMMA PhaseKeeps ==
  ASSUME HostsInv, call # NoCall, Prog = << >>, HostsTypes', UNCHANGED <<vars, tail, idOf, waitings>>,
         call' = NoCall \/ (call' # NoCall /\ call'.prog = << >>),
         \A num : AnswerInv(<< >>, num) => AnswerInv(<< >>, num)'
  PROVE  HostsInv'
<1>1. OrderInv /\ HostsTypes
  BY DEF HostsInv
<1>2. PICK num : BuildInv(<< >>, num) /\ AnswerInv(<< >>, num)
  BY DEF HostsInv
<1>3. UNCHANGED vars
  OBVIOUS
<1>4. OrderInv' /\ QuietStep
  BY <1>1, <1>3, NextOrderInv, SameQuiet
<1>5. BuildInv(<< >>, num)'
  BY <1>1, <1>2, <1>4, QuietBuild
<1>6. Prog' = << >>
  BY DEF Prog
<1>7. QED
  BY <1>2, <1>4, <1>5, <1>6 DEF HostsInv

\* What stays of the answers when only the handler goes on.
LEMMA AnswerSame ==
  ASSUME UNCHANGED vars, UNCHANGED idOf
  PROVE  /\ \A h : OwnIds(h)' = OwnIds(h)
         /\ UNCHANGED <<ended, cnt>>
         /\ \A e : NotFlow(e)' <=> NotFlow(e)
         /\ EventsOwned /\ UNCHANGED syncing => EventsOwned'
         /\ Registered /\ UNCHANGED <<syncing, hostState>> => Registered'
<1>1. \A h : OwnIds(h)' = OwnIds(h)
  BY DEF OwnIds
<1>2. UNCHANGED <<ended, cnt>> /\ \A e : NotFlow(e)' <=> NotFlow(e)
  BY SameQuiet
<1>3. EventsOwned /\ UNCHANGED syncing => EventsOwned'
  BY <1>1 DEF EventsOwned
<1>4. Registered /\ UNCHANGED <<syncing, hostState>> => Registered'
  BY <1>2 DEF Registered
<1>5. QED
  BY <1>1, <1>2, <1>3, <1>4

\* Returning to a host that is not waiting, or once the caller is registered.
LEMMA ReturnKeeps ==
  ASSUME HostsInv, call # NoCall, Prog = << >>, UNCHANGED <<vars, tail, idOf, waitings>>,
         UNCHANGED <<buffered, syncing, hostState, clock>>,
         call' = NoCall, call.phase = "toEvent" \/ call.next = "return"
  PROVE  HostsInv'
<1>1. HostsTypes
  BY DEF HostsInv
<1>2. HostsTypes'
  BY <1>1 DEF HostsTypes
<1>3. ASSUME NEW num, AnswerInv(<< >>, num)
      PROVE  AnswerInv(<< >>, num)'
  <2>1. Registered /\ WaitersHeard /\ EventsOwned
    BY <1>3 DEF AnswerInv
  <2>2. Registered' /\ EventsOwned'
    BY <2>1, AnswerSame
  <2>3. \A h \in Hosts : hostState[h] = "wait" => ~ Caller(h)
    BY <2>1 DEF WaitersHeard, Caller
  <2>4. WaitersHeard'
    BY <2>1, <2>3 DEF WaitersHeard, Caller
  <2>5. QED
    BY <2>2, <2>4 DEF AnswerInv, AboutNew, AboutOwn
<1>4. QED
  BY <1>2, <1>3, PhaseKeeps

\* Answering the caller and returning.
LEMMA AnswerCaller ==
  ASSUME HostsInv, call # NoCall, Prog = << >>, UNCHANGED <<vars, tail, idOf, waitings>>,
         UNCHANGED <<buffered, syncing>>, clock' \in [Hosts -> Nat], call.phase = "reply",
         hostState' = [hostState EXCEPT ![call.host] = "run"], call' = NoCall
  PROVE  HostsInv'
<1>1. HostsTypes /\ call.host \in Hosts
  BY DEF HostsInv, HostsTypes, Handlers
<1>2. HostsTypes'
  BY <1>1 DEF HostsTypes
<1>3. ASSUME NEW num, AnswerInv(<< >>, num)
      PROVE  AnswerInv(<< >>, num)'
  <2>1. Registered /\ WaitersHeard /\ EventsOwned
    BY <1>3 DEF AnswerInv
  <2>2. UNCHANGED <<ended, cnt>> /\ (\A e : NotFlow(e)' <=> NotFlow(e)) /\ EventsOwned'
    BY <2>1, AnswerSame
  <2>3. \A e \in DOMAIN syncing : syncing[e] # call.host
    BY <1>1, <2>1 DEF WaitersHeard, Caller
  <2>4. /\ hostState'[call.host] = "run"
        /\ \A h \in Hosts \ {call.host} : hostState'[h] = hostState[h]
    BY <1>1 DEF HostsTypes
  <2>5. Registered'
    <3>1. \A e \in DOMAIN syncing : syncing[e] \in Hosts \ {call.host}
      BY <1>1, <2>3 DEF HostsTypes
    <3>2. QED
      BY <2>1, <2>2, <2>4, <3>1 DEF Registered
  <2>6. WaitersHeard'
    BY <2>1, <2>4 DEF WaitersHeard, Caller
  <2>7. QED
    BY <2>2, <2>5, <2>6 DEF AnswerInv, AboutNew, AboutOwn
<1>4. QED
  BY <1>2, <1>3, PhaseKeeps

\* Registering the caller for the event its call is about.
LEMMA RegisterCaller ==
  ASSUME HostsInv, call # NoCall, Prog = << >>, UNCHANGED <<vars, tail, idOf, waitings>>,
         UNCHANGED <<buffered, hostState, clock>>,
         \/ call.phase = "build" /\ call.next = "sync"
         \/ call.phase = "reply" /\ call.next = "eventSync" /\ call.id \notin DOMAIN ended,
         syncing' = Put(syncing, call.id, call.host), call' = [call EXCEPT !.phase = "toEvent"]
  PROVE  HostsInv'
<1>1. OrderInv /\ HostsTypes /\ call \in Handlers /\ call.host \in Hosts
  BY DEF HostsInv, HostsTypes, Handlers
<1>2. PICK id, w : id = call.id /\ w = call.host
  OBVIOUS
<1>3. /\ DOMAIN syncing' = DOMAIN syncing \cup {id}
      /\ syncing'[id] = w
      /\ \A e \in DOMAIN syncing \ {id} : syncing'[e] = syncing[e]
  BY <1>2 DEF Put
<1>4. /\ call' \in Handlers /\ call'.phase = "toEvent" /\ call'.next = call.next
      /\ call'.prog = call.prog /\ call' # NoCall
  <2>1. NoCall.phase = "none"
    BY DEF NoCall
  <2>2. call' \in Handlers /\ call'.phase = "toEvent" /\ call'.next = call.next /\ call'.prog = call.prog
    BY <1>1 DEF Handlers
  <2>3. QED
    BY <2>1, <2>2
<1>5. HostsTypes'
  <2>1. \A e \in DOMAIN syncing' : syncing'[e] \in Hosts
    BY <1>1, <1>2, <1>3 DEF HostsTypes
  <2>2. QED
    BY <1>1, <1>4, <2>1 DEF HostsTypes
<1>6. PICK pre : BuildInv(<< >>, pre) /\ AnswerInv(<< >>, pre)
  BY DEF HostsInv
<1>7. /\ id \notin DOMAIN syncing /\ id \notin DOMAIN ended
      /\ Plain(<< >>, pre, id)
      /\ \A h \in Hosts : id \in OwnIds(h) => h = w
  <2>1. WaitersHeard /\ EventsOwned /\ AboutNew(<< >>, pre) /\ AboutOwn /\ EventsPlain(<< >>, pre)
    BY <1>6 DEF AnswerInv, BuildInv
  <2>2. CASE call.phase = "build" /\ call.next = "sync"
    BY <1>2, <2>1, <2>2 DEF AboutNew
  <2>3. CASE call.phase = "reply" /\ call.next = "eventSync" /\ call.id \notin DOMAIN ended
    <3>1. id \in OwnIds(w) /\ w \in Hosts
      BY <1>1, <1>2, <2>1, <2>3 DEF AboutOwn
    <3>2. \A e \in DOMAIN syncing : syncing[e] # w
      BY <1>1, <1>2, <2>1, <2>3 DEF WaitersHeard, Caller
    <3>3. QED
      BY <1>2, <2>1, <2>3, <3>1, <3>2 DEF EventsOwned, EventsPlain
  <2>4. QED
    BY <2>2, <2>3
<1>8. id \in 0 .. cnt - 1 /\ NotFlow(id)
  BY <1>7 DEF Plain
<1>9. ASSUME NEW num, AnswerInv(<< >>, num)
      PROVE  AnswerInv(<< >>, num)'
  <2>1. Registered /\ WaitersHeard /\ EventsOwned
    BY <1>9 DEF AnswerInv
  <2>2. /\ UNCHANGED <<ended, cnt>> /\ \A e : NotFlow(e)' <=> NotFlow(e)
        /\ \A h : OwnIds(h)' = OwnIds(h)
    BY AnswerSame
  <2>3. /\ \A e \in DOMAIN syncing : syncing[e] # w
        /\ hostState[w] = "wait" /\ Caller(w)
    BY <1>1, <1>2, <2>1 DEF WaitersHeard, Caller
  <2>4. \A e \in DOMAIN syncing : e # id /\ syncing'[e] = syncing[e]
    BY <1>3, <1>7
  <2>5. Registered'
    <3>1. \A e \in DOMAIN syncing' : /\ e \in 0 .. cnt - 1 /\ e \notin DOMAIN ended /\ NotFlow(e)
                                     /\ hostState[syncing'[e]] = "wait"
      BY <1>3, <1>7, <1>8, <2>1, <2>3, <2>4 DEF Registered
    <3>2. \A e, f \in DOMAIN syncing' : syncing'[e] = syncing'[f] => e = f
      BY <1>3, <2>1, <2>3, <2>4 DEF Registered
    <3>3. QED
      BY <2>2, <3>1, <3>2 DEF Registered
  <2>6. WaitersHeard'
    <3>1. \A h \in Hosts : hostState[h] = "wait" => \E e \in DOMAIN syncing' : syncing'[e] = h
      <4>1. ASSUME NEW h \in Hosts, hostState[h] = "wait"
            PROVE  \E e \in DOMAIN syncing' : syncing'[e] = h
        <5>1. CASE h = w
          BY <1>3, <5>1
        <5>2. CASE h # w
          <6>1. ~ Caller(h)
            BY <1>2, <5>2 DEF Caller
          <6>2. PICK e \in DOMAIN syncing : syncing[e] = h
            BY <2>1, <4>1, <6>1 DEF WaitersHeard
          <6>3. QED
            BY <1>3, <2>4, <6>2
        <5>3. QED
          BY <5>1, <5>2
      <4>2. QED
        BY <4>1
    <3>2. \A h : ~ Caller(h)'
      BY <1>4 DEF Caller
    <3>3. QED
      BY <3>1, <3>2 DEF WaitersHeard
  <2>7. EventsOwned'
    <3>1. ASSUME NEW h \in Hosts, NEW e \in OwnIds(h)
          PROVE  /\ \A g \in Hosts : e \in OwnIds(g) => g = h
                 /\ e \in DOMAIN syncing' => syncing'[e] = h
      BY <1>3, <1>7, <2>1, <2>4 DEF EventsOwned
    <3>2. QED
      BY <2>2, <3>1 DEF EventsOwned
  <2>8. AboutNew(<< >>, num)' /\ AboutOwn'
    BY <1>4 DEF AboutNew, AboutOwn
  <2>9. QED
    BY <2>5, <2>6, <2>7, <2>8 DEF AnswerInv
<1>10. call'.prog = << >>
  BY <1>4 DEF Prog
<1>11. QED
  BY <1>4, <1>5, <1>9, <1>10, PhaseKeeps

\* Going on to execute, or to reply, before the caller is registered.
LEMMA GoOnKeeps ==
  ASSUME HostsInv, call # NoCall, Prog = << >>, UNCHANGED <<vars, tail, idOf, waitings>>,
         UNCHANGED <<buffered, syncing, hostState, clock>>,
         call.phase \in {"build", "toTime"}, call.next # "return",
         NEW x \in {"toTime", "reply"}, call' = [call EXCEPT !.phase = x]
  PROVE  HostsInv'
<1>1. HostsTypes /\ call \in Handlers
  BY DEF HostsInv, HostsTypes
<1>2. /\ call' \in Handlers /\ call'.phase = x /\ call'.next = call.next
      /\ call'.prog = call.prog /\ call'.host = call.host /\ call'.id = call.id
  BY <1>1 DEF Handlers
<1>3. call' # NoCall
  <2>1. NoCall.phase = "none"
    BY DEF NoCall
  <2>2. QED
    BY <1>2, <2>1
<1>4. HostsTypes'
  BY <1>1, <1>2 DEF HostsTypes
<1>5. \A h : Caller(h)' <=> Caller(h)
  BY <1>2, <1>3 DEF Caller
<1>6. ASSUME NEW num, AnswerInv(<< >>, num)
      PROVE  AnswerInv(<< >>, num)'
  <2>1. Registered /\ WaitersHeard /\ EventsOwned /\ AboutOwn
    BY <1>6 DEF AnswerInv
  <2>2. Registered' /\ EventsOwned' /\ \A h : OwnIds(h)' = OwnIds(h)
    BY <2>1, AnswerSame
  <2>3. WaitersHeard'
    BY <1>2, <1>5, <2>1 DEF WaitersHeard
  <2>4. AboutNew(<< >>, num)' /\ AboutOwn'
    BY <1>2, <2>1, <2>2 DEF AboutNew, AboutOwn
  <2>5. QED
    BY <2>2, <2>3, <2>4 DEF AnswerInv
<1>7. call'.prog = << >>
  BY <1>2 DEF Prog
<1>8. QED
  BY <1>3, <1>4, <1>6, <1>7, PhaseKeeps

\* Every step of a handler.
LEMMA HandlerKeeps ==
  ASSUME HostsInv, Handler
  PROVE  HostsInv'
<1>1. OrderInv /\ HostsTypes /\ NetInv
  BY HostsFacts DEF HostsInv
<1>2. PICK p, num : p = Prog /\ BuildInv(p, num) /\ AnswerInv(p, num)
  BY DEF HostsInv
<1>3. NoCall.phase = "none"
  BY DEF NoCall
<1>4. CASE RunOp
  BY <1>4, RunOpKeeps
<1>5. CASE QueueStep
  BY <1>5, QueueStepKeeps DEF QueueStep
<1>6. CASE Proceed
  BY <1>6, QueueStepKeeps DEF Proceed
<1>7. CASE Built
  <2>1. call # NoCall /\ Prog = << >>
    BY <1>3, <1>7 DEF Built, InPhase, Prog
  <2>2. UNCHANGED <<vars, tail, idOf, waitings>> /\ UNCHANGED <<buffered, hostState, clock>>
    BY <1>7 DEF Built, hostVars
  <2>3. CASE call.next = "return" /\ Return /\ UNCHANGED syncing
    BY <2>1, <2>2, <2>3, ReturnKeeps DEF Return
  <2>4. CASE call.next = "sync" /\ syncing' = Put(syncing, call.id, call.host) /\ Goto("toEvent")
    BY <1>7, <2>1, <2>2, <2>4, RegisterCaller DEF Goto, Built, InPhase
  <2>5. CASE call.next \in {"eventSync", "query"} /\ Goto("toTime") /\ UNCHANGED syncing
    BY <1>7, <2>1, <2>2, <2>5, GoOnKeeps DEF Goto, Built, InPhase
  <2>6. QED
    BY <1>7, <2>3, <2>4, <2>5 DEF Built
<1>8. CASE ExecuteToTime
  <2>1. call # NoCall /\ call.phase = "toTime"
    BY <1>3, <1>8 DEF ExecuteToTime, InPhase
  <2>2. Prog = << >> /\ call.next # "return"
    <3>1. p = << >> /\ WaitersHeard /\ call.host \in Hosts
      BY <1>1, <1>2, <2>1 DEF AnswerInv, HostsTypes, Handlers
    <3>2. QED
      BY <1>2, <2>1, <3>1 DEF WaitersHeard, Caller
  <2>3. CASE \E e \in DOMAIN queue : BeforeUntil(e) /\ ExecuteAnswering(e) /\ UNCHANGED call
    BY <2>1, <2>3, LoopKeeps
  <2>4. CASE /\ Goto("reply")
             /\ UNCHANGED <<vars, tail, buffered, idOf, syncing, waitings, hostVars, history>>
    BY <2>1, <2>2, <2>4, GoOnKeeps DEF Goto, hostVars
  <2>5. QED
    BY <1>6, <1>8, <2>3, <2>4 DEF ExecuteToTime
<1>9. CASE ExecuteToEvent
  <2>1. call # NoCall /\ call.phase = "toEvent"
    BY <1>3, <1>9 DEF ExecuteToEvent, InPhase
  <2>2. Prog = << >>
    BY <1>2, <2>1 DEF AnswerInv
  <2>3. CASE \E e \in DOMAIN queue : ExecuteAnswering(e) /\ (Return \/ UNCHANGED call)
    BY <2>1, <2>3, LoopKeeps DEF Return
  <2>4. CASE /\ Return
             /\ UNCHANGED <<vars, tail, buffered, idOf, syncing, waitings, hostVars, history>>
    BY <2>1, <2>2, <2>4, ReturnKeeps DEF Return, hostVars
  <2>5. QED
    BY <1>6, <1>9, <2>3, <2>4 DEF ExecuteToEvent
<1>10. CASE ReplyEventSync
  <2>1. call # NoCall /\ call.phase = "reply" /\ call.next = "eventSync"
    BY <1>3, <1>10 DEF ReplyEventSync, InPhase
  <2>2. Prog = << >>
    BY <1>2, <2>1 DEF AnswerInv
  <2>3. UNCHANGED <<vars, tail, idOf, waitings>> /\ UNCHANGED buffered
    BY <1>10 DEF ReplyEventSync
  <2>4. CASE call.id \in DOMAIN ended
    <3>1. PICK t : t = ended[call.id][2]
      OBVIOUS
    <3>2. t \in Nat
      BY <1>1, <2>4, <3>1, NetTypes DEF TypeOK, Partial
    <3>3. /\ Return /\ UNCHANGED syncing
          /\ clock' = [clock EXCEPT ![call.host] = t]
          /\ hostState' = [hostState EXCEPT ![call.host] = "run"]
      BY <1>10, <2>4, <3>1 DEF ReplyEventSync, SyncResponse, Wake
    <3>4. clock' \in [Hosts -> Nat]
      BY <1>1, <3>2, <3>3 DEF HostsTypes
    <3>5. QED
      BY <2>1, <2>2, <2>3, <3>3, <3>4, AnswerCaller DEF Return
  <2>5. CASE call.id \notin DOMAIN ended
    <3>1. /\ syncing' = Put(syncing, call.id, call.host) /\ call' = [call EXCEPT !.phase = "toEvent"]
          /\ UNCHANGED <<hostState, clock>>
      BY <1>10, <2>5 DEF ReplyEventSync, Goto, hostVars
    <3>2. QED
      BY <2>1, <2>2, <2>3, <2>5, <3>1, RegisterCaller
  <2>6. QED
    BY <2>4, <2>5
<1>11. CASE ReplyQuery
  <2>1. call # NoCall /\ call.phase = "reply"
    BY <1>3, <1>11 DEF ReplyQuery, InPhase
  <2>2. Prog = << >>
    BY <1>2, <2>1 DEF AnswerInv
  <2>3. /\ UNCHANGED <<vars, tail, idOf, waitings>> /\ UNCHANGED <<buffered, syncing>>
        /\ call' = NoCall /\ hostState' = [hostState EXCEPT ![call.host] = "run"]
    BY <1>11 DEF ReplyQuery, Return, Wake
  <2>4. clock' \in [Hosts -> Nat]
    <3>1. \A h \in Hosts : NotReadyClock(h) \in Nat
      BY <1>1, HostsAssumption DEF NotReadyClock, HostsTypes
    <3>2. call.host \in Hosts
      BY <1>1, <2>1 DEF HostsTypes, Handlers
    <3>3. UNCHANGED clock \/ clock' = [clock EXCEPT ![call.host] = NotReadyClock(call.host)]
      BY <1>11 DEF ReplyQuery
    <3>4. PICK h \in Hosts, t \in Nat : h = call.host /\ t = NotReadyClock(call.host)
      BY <3>1, <3>2
    <3>5. CASE clock' = [clock EXCEPT ![h] = t]
      BY <1>1, <3>5 DEF HostsTypes
    <3>6. CASE UNCHANGED clock
      BY <1>1, <3>6 DEF HostsTypes
    <3>7. QED
      BY <3>3, <3>4, <3>5, <3>6
  <2>5. QED
    BY <2>1, <2>2, <2>3, <2>4, AnswerCaller
<1>12. QED
  BY <1>4, <1>5, <1>7, <1>8, <1>9, <1>10, <1>11 DEF Handler
-----------------------------------------------------------------------------
(***************************************************************************)
(* The programs of the calls.                                              *)
(***************************************************************************)

\* p adds the events n, n + 1, ..., each after events before it.
AddsFrom(p, n) ==
  /\ p \in Seq(Operations)
  /\ \A i \in 1 .. Len(p) :
       p[i].op = "add" /\ p[i].deps \subseteq 0 .. n + i - 2 \cup {NoneDep}

\* p makes the queue's next id m where it was n, and what edges it adds are to
\* the events in S.
Piece(p, n, m, S) ==
  /\ p \in Seq(Operations)
  /\ \E num : Numbered(p, n, num) /\ OpsKnown(p, num) /\ num[Len(p) + 1] = m
  /\ \A i \in 1 .. Len(p) : p[i].op = "add" \/ (p[i].op = "edge" /\ p[i].id \in S)

NumbersFrom(p, n) == [i \in 1 .. Len(p) + 1 |-> n + i - 1]

\* The numbers of a program that only adds.
LEMMA AddsNumbered ==
  ASSUME NEW n \in Nat, NEW p, AddsFrom(p, n), NEW num, num = NumbersFrom(p, n)
  PROVE  /\ Numbered(p, n, num) /\ OpsKnown(p, num)
         /\ num[Len(p) + 1] = n + Len(p)
         /\ \A i \in 1 .. Len(p) : num[i] = n + i - 1
<1>1. p \in Seq(Operations) /\ Len(p) \in Nat
  BY DEF AddsFrom
<1>2. \A i \in 1 .. Len(p) + 1 : num[i] = n + i - 1 /\ num[i] \in Nat
  BY <1>1 DEF NumbersFrom
<1>3. num \in [1 .. Len(p) + 1 -> Nat]
  BY <1>1 DEF NumbersFrom
<1>4. \A i \in 1 .. Len(p) : i + 1 \in 1 .. Len(p) + 1 /\ i \in 1 .. Len(p) + 1
  BY <1>1
<1>5. \A i \in 1 .. Len(p) : num[i + 1] = num[i] + 1 /\ num[i] - 1 = n + i - 2
  BY <1>2, <1>4
<1>6. num[1] = n /\ num[Len(p) + 1] = n + Len(p)
  BY <1>1, <1>2
<1>7. Numbered(p, n, num)
  BY <1>3, <1>5, <1>6 DEF Numbered, AddsFrom
<1>8. OpsKnown(p, num)
  BY <1>5 DEF OpsKnown, AddsFrom
<1>9. QED
  BY <1>2, <1>4, <1>6, <1>7, <1>8

\* Such a program is a piece, without edges.
LEMMA AddsPiece ==
  ASSUME NEW n \in Nat, NEW p, AddsFrom(p, n), NEW S
  PROVE  Piece(p, n, n + Len(p), S)
<1>1. PICK num : num = NumbersFrom(p, n)
  OBVIOUS
<1>2. Numbered(p, n, num) /\ OpsKnown(p, num) /\ num[Len(p) + 1] = n + Len(p)
  BY <1>1, AddsNumbered
<1>3. QED
  BY <1>2 DEF Piece, AddsFrom

\* The empty program.
LEMMA EmptyAdds ==
  ASSUME NEW n
  PROVE  AddsFrom(<< >>, n)
BY DEF AddsFrom

\* q is p with operation o at the end.
Appended(p, n, o, q) ==
  /\ AddsFrom(q, n) /\ Len(q) = Len(p) + 1
  /\ q[Len(p) + 1] = o
  /\ \A i \in 1 .. Len(p) : q[i] = p[i]

\* One more event.
LEMMA AppendAdds ==
  ASSUME NEW n \in Nat, NEW p, AddsFrom(p, n),
         NEW deps, deps \subseteq 0 .. n + Len(p) - 1 \cup {NoneDep},
         NEW act \in Actions, NEW t \in Nat, NEW w \in Nat,
         NEW q, q = Append(p, AddOp(deps, act, t, w))
  PROVE  Appended(p, n, AddOp(deps, act, t, w), q)
<1>1. p \in Seq(Operations) /\ Len(p) \in Nat
  BY DEF AddsFrom
<1>2. PICK o : o = AddOp(deps, act, t, w)
  OBVIOUS
<1>3. o.op = "add" /\ o.deps = deps
  BY <1>2 DEF AddOp
<1>4. o \in Operations
  <2>1. deps \in SUBSET (Nat \cup {NoneDep})
    BY <1>1
  <2>2. QED
    BY <1>2, <2>1 DEF AddOp, Operations
<1>5. /\ q \in Seq(Operations) /\ Len(q) = Len(p) + 1 /\ q[Len(p) + 1] = o
      /\ \A i \in 1 .. Len(p) : q[i] = p[i]
  BY <1>1, <1>2, <1>4
<1>6. ASSUME NEW i \in 1 .. Len(q)
      PROVE  q[i].op = "add" /\ q[i].deps \subseteq 0 .. n + i - 2 \cup {NoneDep}
  <2>1. CASE i \in 1 .. Len(p)
    BY <1>5, <2>1 DEF AddsFrom
  <2>2. CASE i = Len(p) + 1
    <3>1. n + i - 2 = n + Len(p) - 1
      BY <1>1, <2>2
    <3>2. QED
      BY <1>3, <1>5, <2>2, <3>1
  <2>3. QED
    BY <1>1, <1>5, <2>1, <2>2
<1>7. AddsFrom(q, n)
  BY <1>5, <1>6 DEF AddsFrom
<1>8. QED
  BY <1>2, <1>5, <1>7 DEF Appended

\* r is p and then q.
Concatenated(p, q, n, r) ==
  /\ AddsFrom(r, n) /\ Len(r) = Len(p) + Len(q)
  /\ \A i \in 1 .. Len(p) : r[i] = p[i]
  /\ \A i \in 1 .. Len(q) : r[Len(p) + i] = q[i]

\* Two programs after each other.
LEMMA ConcatAdds ==
  ASSUME NEW n \in Nat, NEW p, AddsFrom(p, n), NEW q, NEW m, m = n + Len(p), AddsFrom(q, m),
         NEW r, r = p \o q
  PROVE  Concatenated(p, q, n, r)
<1>1. p \in Seq(Operations) /\ Len(p) \in Nat /\ q \in Seq(Operations) /\ Len(q) \in Nat
  BY DEF AddsFrom
<1>3. /\ r \in Seq(Operations) /\ Len(r) = Len(p) + Len(q)
      /\ \A i \in 1 .. Len(p) : r[i] = p[i]
      /\ \A i \in 1 .. Len(r) : i > Len(p) => r[i] = q[i - Len(p)]
  BY <1>1
<1>4. ASSUME NEW i \in 1 .. Len(r)
      PROVE  r[i].op = "add" /\ r[i].deps \subseteq 0 .. n + i - 2 \cup {NoneDep}
  <2>1. CASE i \in 1 .. Len(p)
    BY <1>3, <2>1 DEF AddsFrom
  <2>2. CASE i > Len(p)
    <3>1. /\ i - Len(p) \in 1 .. Len(q) /\ m + (i - Len(p)) - 2 = n + i - 2
          /\ r[i] = q[i - Len(p)]
      BY <1>1, <1>3, <2>2
    <3>2. QED
      BY <3>1 DEF AddsFrom
  <2>3. QED
    BY <1>1, <1>3, <2>1, <2>2
<1>5. \A i \in 1 .. Len(q) : r[Len(p) + i] = q[i]
  <2>1. \A i \in 1 .. Len(q) : Len(p) + i \in 1 .. Len(r) /\ Len(p) + i > Len(p) /\ (Len(p) + i) - Len(p) = i
    BY <1>1, <1>3
  <2>2. QED
    BY <1>3, <2>1
<1>6. AddsFrom(r, n)
  BY <1>3, <1>4 DEF AddsFrom
<1>7. QED
  BY <1>3, <1>5, <1>6 DEF Concatenated

\* Two pieces after each other.
LEMMA ConcatPieces ==
  ASSUME NEW n \in Nat, NEW k \in Nat, NEW m \in Nat, NEW p, NEW q, NEW S,
         Piece(p, n, k, S), Piece(q, k, m, S)
  PROVE  Piece(p \o q, n, m, S)
<1>1. p \in Seq(Operations) /\ Len(p) \in Nat /\ q \in Seq(Operations) /\ Len(q) \in Nat
  BY DEF Piece
<1>2. PICK a : Numbered(p, n, a) /\ OpsKnown(p, a) /\ a[Len(p) + 1] = k
  BY DEF Piece
<1>3. PICK b : Numbered(q, k, b) /\ OpsKnown(q, b) /\ b[Len(q) + 1] = m
  BY DEF Piece
<1>4. PICK r : r = p \o q
  OBVIOUS
<1>5. /\ r \in Seq(Operations) /\ Len(r) = Len(p) + Len(q)
      /\ \A i \in 1 .. Len(p) : r[i] = p[i]
      /\ \A i \in 1 .. Len(r) : i > Len(p) => i - Len(p) \in 1 .. Len(q) /\ r[i] = q[i - Len(p)]
  BY <1>1, <1>4
<1>6. PICK num : num = [i \in 1 .. Len(r) + 1 |-> IF i <= Len(p) THEN a[i] ELSE b[i - Len(p)]]
  OBVIOUS
<1>7. /\ a \in [1 .. Len(p) + 1 -> Nat] /\ a[1] = n
      /\ b \in [1 .. Len(q) + 1 -> Nat] /\ b[1] = k
      /\ \A i \in 1 .. Len(p) : a[i + 1] = IF p[i].op = "add" THEN a[i] + 1 ELSE a[i]
      /\ \A i \in 1 .. Len(q) : b[i + 1] = IF q[i].op = "add" THEN b[i] + 1 ELSE b[i]
  BY <1>2, <1>3 DEF Numbered
<1>8. /\ \A i \in 1 .. Len(p) + 1 : num[i] = a[i]
      /\ \A i \in 1 .. Len(q) + 1 : num[Len(p) + i] = b[i]
  <2>1. ASSUME NEW i \in 1 .. Len(p) + 1 PROVE num[i] = a[i]
    <3>1. i \in 1 .. Len(r) + 1
      BY <1>1, <1>5
    <3>2. CASE i <= Len(p)
      BY <1>6, <3>1, <3>2
    <3>3. CASE ~ (i <= Len(p))
      <4>1. i = Len(p) + 1 /\ i - Len(p) = 1
        BY <1>1, <3>3
      <4>2. QED
        BY <1>2, <1>6, <1>7, <3>1, <3>3, <4>1
    <3>4. QED
      BY <3>2, <3>3
  <2>2. ASSUME NEW i \in 1 .. Len(q) + 1 PROVE num[Len(p) + i] = b[i]
    <3>1. Len(p) + i \in 1 .. Len(r) + 1 /\ ~ (Len(p) + i <= Len(p)) /\ (Len(p) + i) - Len(p) = i
      BY <1>1, <1>5
    <3>2. QED
      BY <1>6, <3>1
  <2>3. QED
    BY <2>1, <2>2
<1>9. num \in [1 .. Len(r) + 1 -> Nat]
  <2>1. ASSUME NEW i \in 1 .. Len(r) + 1
        PROVE  (IF i <= Len(p) THEN a[i] ELSE b[i - Len(p)]) \in Nat
    <3>1. CASE i <= Len(p)
      <4>1. i \in 1 .. Len(p) + 1
        BY <1>1, <3>1
      <4>2. QED
        BY <1>7, <3>1, <4>1
    <3>2. CASE ~ (i <= Len(p))
      <4>1. i - Len(p) \in 1 .. Len(q) + 1
        BY <1>1, <1>5, <3>2
      <4>2. QED
        BY <1>7, <3>2, <4>1
    <3>3. QED
      BY <3>1, <3>2
  <2>2. QED
    BY <1>6, <2>1
<1>10. ASSUME NEW i \in 1 .. Len(r)
       PROVE  /\ num[i + 1] = IF r[i].op = "add" THEN num[i] + 1 ELSE num[i]
              /\ r[i].op = "add" => r[i].deps \subseteq 0 .. num[i] - 1 \cup {NoneDep}
              /\ r[i].op = "add" \/ (r[i].op = "edge" /\ r[i].id \in S)
  <2>1. CASE i \in 1 .. Len(p)
    <3>1. i + 1 \in 1 .. Len(p) + 1 /\ i \in 1 .. Len(p) + 1
      BY <1>1, <2>1
    <3>2. num[i + 1] = a[i + 1] /\ num[i] = a[i] /\ r[i] = p[i]
      BY <1>5, <1>8, <2>1, <3>1
    <3>3. QED
      BY <1>2, <1>7, <2>1, <3>2 DEF OpsKnown, Piece
  <2>2. CASE i > Len(p)
    <3>1. PICK j \in 1 .. Len(q) : j = i - Len(p) /\ r[i] = q[j]
      BY <1>5, <2>2
    <3>2. j + 1 \in 1 .. Len(q) + 1 /\ j \in 1 .. Len(q) + 1 /\ Len(p) + j = i /\ Len(p) + (j + 1) = i + 1
      BY <1>1, <3>1
    <3>3. num[i] = b[j] /\ num[i + 1] = b[j + 1]
      BY <1>8, <3>2
    <3>4. QED
      BY <1>3, <1>7, <3>1, <3>3 DEF OpsKnown, Piece
  <2>3. QED
    BY <1>1, <1>5, <2>1, <2>2
<1>11. num[1] = n /\ num[Len(r) + 1] = m
  <2>1. 1 \in 1 .. Len(p) + 1 /\ Len(q) + 1 \in 1 .. Len(q) + 1 /\ Len(r) + 1 = Len(p) + (Len(q) + 1)
    BY <1>1, <1>5
  <2>2. QED
    BY <1>3, <1>7, <1>8, <2>1
<1>12. Numbered(r, n, num) /\ OpsKnown(r, num)
  BY <1>9, <1>10, <1>11 DEF Numbered, OpsKnown
<1>13. QED
  BY <1>4, <1>5, <1>10, <1>11, <1>12 DEF Piece

\* Edges to the events in S.
LEMMA EdgesPiece ==
  ASSUME NEW n \in Nat, NEW p \in Seq(Operations), NEW S,
         \A i \in 1 .. Len(p) : p[i].op = "edge" /\ p[i].id \in S
  PROVE  Piece(p, n, n, S)
<1>1. Len(p) \in Nat
  OBVIOUS
<1>2. PICK num : num = [i \in 1 .. Len(p) + 1 |-> n]
  OBVIOUS
<1>3. /\ num \in [1 .. Len(p) + 1 -> Nat] /\ num[1] = n /\ num[Len(p) + 1] = n
      /\ \A i \in 1 .. Len(p) : num[i + 1] = num[i]
  BY <1>1, <1>2
<1>4. Numbered(p, n, num) /\ OpsKnown(p, num)
  BY <1>3 DEF Numbered, OpsKnown
<1>5. QED
  BY <1>3, <1>4 DEF Piece

\* The events of a stream's buffered calls, and its last event then.
LEMMA FlushAdds ==
  ASSUME HostsTypes, NEW h \in Hosts, NEW s \in Streams, NEW base \in Nat,
         tail[h][s] \subseteq 0 .. base - 1, NEW p, p = FlushOps(h, s, base)
  PROVE  /\ AddsFrom(p, base) /\ Len(p) = Len(buffered[h][s])
         /\ \A i \in 1 .. Len(p) : p[i].act.kind = "comp"
         /\ TailAfter(h, s, base) \subseteq 0 .. base + Len(p) - 1
<1>1. PICK buf : buf = buffered[h][s] /\ buf \in Seq(BufferedCalls) /\ Len(buf) \in Nat
  BY DEF HostsTypes
<1>2. p = [i \in 1 .. Len(buf) |->
             AddOp(IF i = 1 THEN tail[h][s] ELSE {base + i - 2}, Comp(buf[i].dur), buf[i].t, buf[i].w)]
  BY <1>1 DEF FlushOps
<1>3. \A i \in 1 .. Len(buf) : buf[i].dur \in Durations /\ buf[i].t \in Nat /\ buf[i].w \in Nat
  <2>1. \A i \in 1 .. Len(buf) : buf[i] \in BufferedCalls
    BY <1>1
  <2>2. QED
    BY <2>1 DEF BufferedCalls
<1>4. ASSUME NEW i \in 1 .. Len(buf)
      PROVE  /\ p[i] \in Operations /\ p[i].op = "add" /\ p[i].act.kind = "comp"
             /\ p[i].deps \subseteq 0 .. base + i - 2 \cup {NoneDep}
  <2>1. PICK deps : /\ deps = IF i = 1 THEN tail[h][s] ELSE {base + i - 2}
                    /\ p[i] = AddOp(deps, Comp(buf[i].dur), buf[i].t, buf[i].w)
    BY <1>2
  <2>2. deps \subseteq 0 .. base + i - 2
    <3>1. CASE i = 1
      <4>1. base + i - 2 = base - 1
        BY <3>1
      <4>2. QED
        BY <2>1, <3>1, <4>1
    <3>2. CASE i # 1
      <4>1. base + i - 2 \in Nat
        BY <3>2
      <4>2. QED
        BY <2>1, <3>2, <4>1
    <3>3. QED
      BY <3>1, <3>2
  <2>3. Comp(buf[i].dur) \in Actions /\ Comp(buf[i].dur).kind = "comp"
    BY <1>3 DEF Actions, Comp
  <2>4. deps \in SUBSET (Nat \cup {NoneDep})
    BY <2>2
  <2>5. PICK act : act = Comp(buf[i].dur) /\ act \in Actions /\ act.kind = "comp"
    BY <2>3
  <2>6. /\ p[i].op = "add" /\ p[i].deps = deps /\ p[i].act = act
        /\ p[i] \in [op : {"add"}, deps : SUBSET (Nat \cup {NoneDep}), act : Actions, t : Nat, w : Nat]
    BY <1>3, <2>1, <2>4, <2>5 DEF AddOp
  <2>7. QED
    BY <2>2, <2>5, <2>6 DEF Operations
<1>5. p \in Seq(Operations) /\ Len(p) = Len(buf)
  <2>1. p \in [1 .. Len(buf) -> Operations]
    <3>1. DOMAIN p = 1 .. Len(buf) /\ p = [i \in 1 .. Len(buf) |-> p[i]]
      BY <1>2
    <3>2. QED
      BY <1>4, <3>1
  <2>2. QED
    BY <1>1, <2>1
<1>6. AddsFrom(p, base)
  BY <1>4, <1>5 DEF AddsFrom
<1>7. TailAfter(h, s, base) \subseteq 0 .. base + Len(p) - 1
  <2>1. CASE buf = << >>
    BY <1>1, <1>5, <2>1 DEF TailAfter
  <2>2. CASE buf # << >>
    <3>1. base + Len(buf) - 1 \in 0 .. base + Len(buf) - 1
      BY <1>1, <2>2
    <3>2. QED
      BY <1>1, <1>5, <2>2, <3>1 DEF TailAfter
  <2>3. QED
    BY <2>1, <2>2
<1>8. QED
  BY <1>1, <1>4, <1>5, <1>6, <1>7

\* p is a program from n, whose last operation adds event id, after those in on.
AddedLast(p, n, on, act, id) ==
  /\ AddsFrom(p, n) /\ Len(p) \in Nat \ {0} /\ id = n + Len(p) - 1
  /\ id \in Nat /\ id >= n
  /\ p[Len(p)].act = act /\ on \subseteq p[Len(p)].deps

\* The events of a call on a stream; the last one is the call's own.
LEMMA StreamAdds ==
  ASSUME HostsTypes, NEW h \in Hosts, NEW s \in Streams, NEW base \in Nat,
         tail[h][s] \subseteq 0 .. base - 1,
         NEW on, on \subseteq 0 .. base - 1 \cup {NoneDep}, NEW act \in Actions, NEW w \in Nat,
         NEW p, p = StreamOps(h, s, base, on, act, w), NEW id, id = StreamId(h, s, base)
  PROVE  AddedLast(p, base, on, act, id)
<1>1. PICK f : f = FlushOps(h, s, base)
  OBVIOUS
<1>2. /\ AddsFrom(f, base) /\ Len(f) = Len(buffered[h][s])
      /\ TailAfter(h, s, base) \subseteq 0 .. base + Len(f) - 1
  BY <1>1, FlushAdds
<1>3. Len(f) \in Nat
  BY <1>2 DEF AddsFrom
<1>4. PICK deps : deps = on \cup TailAfter(h, s, base)
  OBVIOUS
<1>5. deps \subseteq 0 .. base + Len(f) - 1 \cup {NoneDep}
  <2>1. PICK last : last = TailAfter(h, s, base)
    OBVIOUS
  <2>2. last \subseteq 0 .. base + Len(f) - 1 /\ deps = on \cup last
    BY <1>2, <1>4, <2>1
  <2>3. 0 .. base - 1 \subseteq 0 .. base + Len(f) - 1
    BY <1>3
  <2>4. QED
    BY <2>2, <2>3
<1>6. PICK t \in Nat : t = clock[h]
  BY DEF HostsTypes
<1>7. p = Append(f, AddOp(deps, act, t, w))
  BY <1>1, <1>4, <1>6 DEF StreamOps
<1>8. /\ AddsFrom(p, base) /\ Len(p) = Len(f) + 1
      /\ p[Len(f) + 1] = AddOp(deps, act, t, w)
  <2>1. AddsFrom(f, base)
    BY <1>2
  <2>2. Appended(f, base, AddOp(deps, act, t, w), p)
    BY <2>1, <1>5, <1>7, AppendAdds
  <2>3. QED
    BY <2>2 DEF Appended
<1>9. p[Len(p)].act = act /\ on \subseteq p[Len(p)].deps
  BY <1>4, <1>8 DEF AddOp
<1>10. QED
  BY <1>2, <1>3, <1>8, <1>9 DEF StreamId, AddedLast

\* g flushes the first i streams of o, for every i up to n.
FlushesTo(h, o, g, n) ==
  \A i \in 0 .. Len(o) : i <= n =>
    g[i] = IF i = 0 THEN << >> ELSE g[i - 1] \o FlushOps(h, o[i], cnt + Len(g[i - 1]))

\* g is the function that flushes the streams of o.
FlushesAll(h, o, g) ==
  g = [i \in 0 .. Len(o) |->
         IF i = 0 THEN << >> ELSE g[i - 1] \o FlushOps(h, o[i], cnt + Len(g[i - 1]))]

\* The function DeviceOps is defined by exists.
LEMMA DeviceOpsExists ==
  ASSUME NEW h, NEW o, Len(o) \in Nat
  PROVE  \E g : FlushesAll(h, o, g)
<1> DEFINE Made(g) == [i \in 0 .. Len(o) |->
                         IF i = 0 THEN << >> ELSE g[i - 1] \o FlushOps(h, o[i], cnt + Len(g[i - 1]))]
           Good(n) == \E g : FlushesTo(h, o, g, n)
           Bad     == {n \in Nat : ~ Good(n)}
<1>1. Good(0)
  <2>1. FlushesTo(h, o, [i \in 0 .. Len(o) |-> << >>], 0)
    BY DEF FlushesTo
  <2>2. QED
    BY <2>1
<1>2. ASSUME NEW n \in Nat, Good(n) PROVE Good(n + 1)
  <2>1. PICK g : FlushesTo(h, o, g, n)
    BY <1>2
  <2>2. PICK k : k = Made(g)
    OBVIOUS
  <2>3. \A i \in 0 .. Len(o) : i <= n => k[i] = g[i]
    BY <2>1, <2>2 DEF FlushesTo
  <2>4. ASSUME NEW i \in 0 .. Len(o), i <= n + 1
        PROVE  k[i] = IF i = 0 THEN << >> ELSE k[i - 1] \o FlushOps(h, o[i], cnt + Len(k[i - 1]))
    <3>1. CASE i = 0
      BY <2>2, <3>1
    <3>2. CASE i # 0
      <4>1. i - 1 \in 0 .. Len(o) /\ i - 1 <= n
        BY <2>4, <3>2
      <4>2. k[i - 1] = g[i - 1]
        BY <2>3, <4>1
      <4>3. QED
        BY <2>2, <3>2, <4>2
    <3>3. QED
      BY <3>1, <3>2
  <2>5. FlushesTo(h, o, k, n + 1)
    BY <2>4 DEF FlushesTo
  <2>6. QED
    BY <2>5
<1> HIDE DEF Good
<1>3. Bad = {}
  <2> SUFFICES ASSUME Bad # {} PROVE FALSE
    OBVIOUS
  <2>1. PICK m \in Bad : \A n \in Bad : m <= n
    BY LeastNumber
  <2>2. m # 0 /\ m \in Nat
    BY <1>1
  <2>3. m - 1 \in Nat /\ ~ Good(m)
    BY <2>2
  <2>4. Good(m - 1)
    BY <2>1, <2>3
  <2>5. Good((m - 1) + 1)
    BY <1>2, <2>3, <2>4
  <2>6. QED
    BY <2>2, <2>3, <2>5
<1>4. Good(Len(o))
  BY <1>3
<1>5. PICK g : FlushesTo(h, o, g, Len(o))
  BY <1>4 DEF Good
<1>6. PICK k : k = [i \in 0 .. Len(o) |-> g[i]]
  OBVIOUS
<1>7. \A i \in 0 .. Len(o) : k[i] = IF i = 0 THEN << >>
                                    ELSE k[i - 1] \o FlushOps(h, o[i], cnt + Len(k[i - 1]))
  <2>1. \A i \in 0 .. Len(o) : i # 0 => i - 1 \in 0 .. Len(o)
    OBVIOUS
  <2>2. \A i \in 0 .. Len(o) : k[i] = g[i]
    BY <1>6
  <2>3. \A i \in 0 .. Len(o) : i # 0 => k[i - 1] = g[i - 1]
    BY <2>1, <2>2
  <2>4. QED
    BY <1>5, <2>2, <2>3 DEF FlushesTo
<1>8. FlushesAll(h, o, k)
  BY <1>6, <1>7 DEF FlushesAll
<1>9. QED
  BY <1>8

\* What it computes.
LEMMA DeviceOpsStep ==
  ASSUME NEW h, NEW o, Len(o) \in Nat, NEW ops, ops = DeviceOps(h, o)
  PROVE  FlushesTo(h, o, ops, Len(o))
<1>1. \E g : FlushesAll(h, o, g)
  BY DeviceOpsExists
<1>2. ops = CHOOSE g : FlushesAll(h, o, g)
  BY DEF DeviceOps, FlushesAll
<1>3. FlushesAll(h, o, ops)
  BY <1>1, <1>2
<1>4. QED
  BY <1>3 DEF FlushesAll, FlushesTo

-----------------------------------------------------------------------------
(***************************************************************************)
(* The calls of the hosts.                                                 *)
(***************************************************************************)

CallKinds == {"return", "sync", "eventSync", "query"}

\* What a call does beside its program: it is made by h, and handled in phase
\* next about event id.
Calls(h, prog, next, id) ==
  /\ h \in Hosts /\ next \in CallKinds
  /\ Call(h, prog, next, id)
  /\ hostState' = IF next = "return" THEN hostState ELSE [hostState EXCEPT ![h] = "wait"]
  /\ UNCHANGED <<syncing, clock>>

\* The CUDA events a call leaves are those there were, or events of its program.
OwnGrow(h, prog, num, n) ==
  \A g \in Hosts : \A e \in OwnIds(g)' :
    e \in OwnIds(g) \/ (g = h /\ e \in Nat /\ e >= n /\ Plain(prog, num, e))

\* The event a synchronization is about is of its program, or a CUDA event.
AboutGrow(h, prog, num, n, next, id) ==
  /\ next = "sync" => id \in Nat /\ id >= n /\ Plain(prog, num, id) /\ UNCHANGED idOf
  /\ next = "eventSync" => id \in OwnIds(h) /\ UNCHANGED idOf

\* The handler of a call knows how to carry out its program.
LEMMA CallKeeps ==
  ASSUME HostsInv, NEW h, NEW prog \in Seq(Operations), NEW next, NEW id \in Nat \cup {None},
         Calls(h, prog, next, id), NEW n, n = cnt, NEW num, Numbered(prog, n, num),
         OpsKnown(prog, num), OpsGuarded(prog)', CollHeld(prog, num)',
         TailsKnown(num[Len(prog) + 1])',
         tail' \in [Hosts -> [Streams -> SUBSET Nat]],
         buffered' \in [Hosts -> [Streams -> Seq(BufferedCalls)]],
         DOMAIN idOf' = Hosts, waitings' \in Seq(Waitings),
         OwnGrow(h, prog, num, n), AboutGrow(h, prog, num, n, next, id)
  PROVE  HostsInv'
<1>1. /\ OrderInv /\ HostsTypes /\ cnt \in Nat /\ DOMAIN ended \subseteq 0 .. cnt - 1
  BY HostsFacts DEF HostsInv
<1>2. /\ h \in Hosts /\ next \in CallKinds /\ call = NoCall /\ hostState[h] = "run"
      /\ call' = [phase |-> "build", host |-> h, prog |-> prog, next |-> next,
                  id |-> id, until |-> clock[h]]
      /\ UNCHANGED vars /\ UNCHANGED <<syncing, clock>>
      /\ hostState' = IF next = "return" THEN hostState ELSE [hostState EXCEPT ![h] = "wait"]
  BY DEF Calls, Call
<1>3. PICK pre : BuildInv(<< >>, pre) /\ AnswerInv(<< >>, pre)
  BY <1>2 DEF HostsInv, Prog
<1>4. Registered /\ WaitersHeard /\ EventsOwned /\ EventsPlain(<< >>, pre)
  BY <1>3 DEF AnswerInv, BuildInv
<1>5. TailsKnown(n)
  <2>1. pre[1] = cnt
    BY <1>3 DEF BuildInv, Numbered
  <2>2. TailsKnown(pre[Len(<< >>) + 1])
    BY <1>3 DEF BuildInv
  <2>3. pre[Len(<< >>) + 1] = n
    BY <2>1
  <2>4. QED
    BY <2>2, <2>3
<1>6. OrderInv' /\ QuietStep /\ UNCHANGED <<ended, cnt>> /\ \A e : NotFlow(e)' <=> NotFlow(e)
  <2>1. OrderInv'
    BY <1>1, <1>2, NextOrderInv
  <2>2. QuietStep /\ UNCHANGED <<ended, cnt>> /\ \A e : NotFlow(e)' <=> NotFlow(e)
    BY <1>2, SameQuiet
  <2>3. QED
    BY <2>1, <2>2
<1>7. Grows(<< >>, pre, prog, num, {}) /\ Grows(prog, num, prog, num, {})
  BY <1>1, <1>2, CallGrows, SameGrows
<1>8. /\ call' # NoCall /\ call' \in Handlers
      /\ call'.phase = "build" /\ call'.host = h /\ call'.prog = prog
      /\ call'.next = next /\ call'.id = id
  <2>1. NoCall.phase = "none"
    BY DEF NoCall
  <2>2. PICK t \in Nat : t = clock[h]
    BY <1>1, <1>2 DEF HostsTypes
  <2>3. call' = [phase |-> "build", host |-> h, prog |-> prog, next |-> next, id |-> id, until |-> t]
    BY <1>2, <2>2
  <2>4. call' \in Handlers
    BY <1>2, <2>3 DEF Handlers, CallKinds
  <2>5. QED
    BY <2>1, <2>3, <2>4
<1>9. hostState' \in [Hosts -> {"run", "wait", "exit"}]
  BY <1>1, <1>2 DEF HostsTypes
<1>10. HostsTypes'
  BY <1>1, <1>2, <1>8, <1>9 DEF HostsTypes
<1>11. EventsPlain(prog, num)'
  <2>1. ASSUME NEW g \in Hosts, NEW e, e \in OwnIds(g)'
        PROVE  Plain(prog, num, e)'
    <3>1. e \in OwnIds(g) \/ Plain(prog, num, e)
      BY <2>1 DEF OwnGrow
    <3>2. QED
      BY <1>4, <1>7, <3>1 DEF EventsPlain, Grows
  <2>2. QED
    BY <2>1 DEF EventsPlain
<1>12. BuildInv(prog, num)'
  <2>1. Numbered(prog, cnt, num)'
    BY <1>6 DEF Numbered
  <2>2. QED
    BY <1>11, <2>1 DEF BuildInv, OpsKnown
<1>13. Prog' = prog
  BY <1>8 DEF Prog
<1>14. Registered'
  <2>1. \A e \in DOMAIN syncing : hostState'[syncing[e]] = "wait"
    <3>1. \A e \in DOMAIN syncing : syncing[e] \in Hosts /\ hostState[syncing[e]] = "wait" /\ syncing[e] # h
      BY <1>1, <1>2, <1>4 DEF Registered, HostsTypes
    <3>2. QED
      BY <1>1, <1>2, <3>1 DEF HostsTypes
  <2>2. QED
    BY <1>2, <1>4, <1>6, <2>1 DEF Registered
<1>15. WaitersHeard'
  <2>1. \A g : Caller(g)' <=> g = h
    BY <1>8 DEF Caller
  <2>2. ASSUME NEW g \in Hosts, hostState'[g] = "wait"
        PROVE  g = h \/ \E e \in DOMAIN syncing : syncing[e] = g
    <3>1. g = h \/ hostState[g] = "wait"
      BY <1>1, <1>2, <2>2 DEF HostsTypes
    <3>2. QED
      BY <1>2, <1>4, <3>1 DEF WaitersHeard, Caller
  <2>3. \A e \in DOMAIN syncing : syncing[e] # h
    BY <1>2, <1>4 DEF Registered
  <2>4. next # "return" => hostState'[h] = "wait"
    BY <1>1, <1>2 DEF HostsTypes
  <2>5. next = "return" => hostState'[h] = "run"
    BY <1>2
  <2>6. QED
    BY <1>2, <1>8, <2>1, <2>2, <2>3, <2>4, <2>5 DEF WaitersHeard
<1>16. DOMAIN syncing \subseteq 0 .. cnt - 1 /\ \A g \in Hosts : OwnIds(g) \subseteq 0 .. cnt - 1
  BY <1>4, <1>5 DEF Registered, TailsKnown
<1>17. EventsOwned'
  <2>1. ASSUME NEW g \in Hosts, NEW e, e \in OwnIds(g)'
        PROVE  /\ \A f \in Hosts : e \in OwnIds(f)' => f = g
               /\ e \in DOMAIN syncing => syncing[e] = g
    <3>1. CASE e \in 0 .. cnt - 1
      <4>1. \A f \in Hosts : e \in OwnIds(f)' => e \in OwnIds(f)
        BY <1>1, <3>1 DEF OwnGrow
      <4>2. QED
        BY <1>4, <2>1, <4>1 DEF EventsOwned
    <3>2. CASE e \notin 0 .. cnt - 1
      <4>1. \A f \in Hosts : e \in OwnIds(f)' => f = h
        BY <1>16, <3>2 DEF OwnGrow
      <4>2. QED
        BY <1>16, <2>1, <3>2, <4>1
    <3>3. QED
      BY <3>1, <3>2
  <2>2. QED
    BY <1>2, <2>1 DEF EventsOwned
<1>18. AboutNew(prog, num)'
  <2>1. CASE next = "sync"
    <3>1. id \in Nat /\ id >= n /\ Plain(prog, num, id) /\ UNCHANGED idOf
      BY <2>1 DEF AboutGrow
    <3>2. id \notin 0 .. cnt - 1
      BY <1>1, <3>1
    <3>3. \A g : OwnIds(g)' = OwnIds(g)
      BY <3>1 DEF OwnIds
    <3>4. Plain(prog, num, id)'
      BY <1>7, <3>1 DEF Grows
    <3>5. \A g \in Hosts : id \notin OwnIds(g)'
      BY <1>16, <3>2, <3>3
    <3>6. id \notin DOMAIN syncing' /\ id \notin DOMAIN ended'
      BY <1>1, <1>2, <1>6, <1>16, <3>2
    <3>7. QED
      BY <1>8, <3>4, <3>5, <3>6 DEF AboutNew
  <2>2. CASE next # "sync"
    BY <1>8, <2>2 DEF AboutNew
  <2>3. QED
    BY <2>1, <2>2
<1>19. AboutOwn'
  <2>1. next = "eventSync" => id \in OwnIds(h)'
    BY DEF AboutGrow, OwnIds
  <2>2. QED
    BY <1>8, <2>1 DEF AboutOwn
<1>20. AnswerInv(prog, num)'
  BY <1>8, <1>14, <1>15, <1>17, <1>18, <1>19 DEF AnswerInv
<1>21. QED
  BY <1>6, <1>10, <1>12, <1>13, <1>20 DEF HostsInv

\* The kernels, copies and collectives of the hosts, and what is noted of them.
Works == [first : Nat \cup {NotYet}, last : Nat \cup {NotYet}, after : SUBSET Nat]

HistoryTypes ==
  /\ work \in [Hosts -> Seq(Works)]
  /\ covers \in [Hosts -> [Streams -> SUBSET Nat]]
  /\ DOMAIN recorded = Hosts
  /\ \A h \in Hosts : /\ DOMAIN recorded[h] = DOMAIN idOf[h]
                      /\ \A c \in DOMAIN recorded[h] : recorded[h][c] \in SUBSET Nat

\* Event e is added by p, which starts at n, and is no flow.
AddsPlain(p, n, e) == \E i \in 1 .. Len(p) : e = n + i - 1 /\ p[i].act.kind # "comm"

TailsBelow(n) == \A h \in Hosts, s \in Streams : tail[h][s] \subseteq 0 .. n - 1

\* What a call that only adds events may do to the CUDA events.
OwnAdded(h, p, n) ==
  \A g \in Hosts : \A e \in OwnIds(g)' : e \in OwnIds(g) \/ (g = h /\ AddsPlain(p, n, e))

AboutAdded(h, p, n, next, id) ==
  /\ next = "sync" => AddsPlain(p, n, id) /\ UNCHANGED idOf
  /\ next = "eventSync" => id \in OwnIds(h) /\ UNCHANGED idOf

\* Between calls, the queue knows all that the hosts have on it.
LEMMA BetweenCalls ==
  ASSUME HostsInv, call = NoCall, NEW n, n = cnt
  PROVE  /\ OrderInv /\ HostsTypes /\ n \in Nat
         /\ TailsBelow(n) /\ \A h \in Hosts : OwnIds(h) \subseteq 0 .. n - 1
         /\ \E pre : BuildInv(<< >>, pre)
<1>1. OrderInv /\ HostsTypes /\ cnt \in Nat
  BY HostsFacts DEF HostsInv
<1>2. PICK pre : BuildInv(<< >>, pre)
  BY DEF HostsInv, Prog
<1>3. pre[1] = n /\ TailsKnown(pre[Len(<< >>) + 1])
  BY <1>2 DEF BuildInv, Numbered
<1>4. TailsKnown(n)
  BY <1>3
<1>5. QED
  BY <1>1, <1>2, <1>4 DEF TailsKnown, TailsBelow

SameEvents(v, w) == v.barrier = w.barrier /\ v.startMeta = w.startMeta /\ v.endMeta = w.endMeta

\* The collectives that waited keep their events.
LEMMA CollSame ==
  ASSUME HostsInv, call = NoCall, UNCHANGED vars, NEW p, NEW num,
         NEW W, \A v \in W : \E w \in Range(waitings) : SameEvents(v, w)
  PROVE  \A w \in W :
           /\ HeldSoon(p, num, w.barrier)'
           /\ \E f : /\ Edge(p, num, w.barrier, f)' /\ Edge(p, num, f, w.startMeta)'
                     /\ Edge(p, num, w.startMeta, w.endMeta)'
<1>1. HostsTypes /\ cnt \in Nat
  BY HostsFacts DEF HostsInv
<1>2. PICK pre : BuildInv(<< >>, pre)
  BY DEF HostsInv, Prog
<1>3. Grows(<< >>, pre, p, num, {})
  BY <1>1, CallGrows
<1>4. ASSUME NEW w \in Range(waitings)
      PROVE  /\ HeldSoon(p, num, w.barrier)'
             /\ \E f : /\ Edge(p, num, w.barrier, f)' /\ Edge(p, num, f, w.startMeta)'
                       /\ Edge(p, num, w.startMeta, w.endMeta)'
  <2>1. HeldSoon(<< >>, pre, w.barrier)
    BY <1>2 DEF BuildInv, CollHeld
  <2>2. PICK f : /\ Edge(<< >>, pre, w.barrier, f) /\ Edge(<< >>, pre, f, w.startMeta)
                 /\ Edge(<< >>, pre, w.startMeta, w.endMeta)
    BY <1>2 DEF BuildInv, CollHeld
  <2>3. HeldSoon(p, num, w.barrier)'
    BY <1>3, <2>1 DEF Grows
  <2>4. /\ Edge(p, num, w.barrier, f)' /\ Edge(p, num, f, w.startMeta)'
        /\ Edge(p, num, w.startMeta, w.endMeta)'
    BY <1>3, <2>2 DEF Grows
  <2>5. QED
    BY <2>3, <2>4
<1>7. ASSUME NEW v \in W
      PROVE  /\ HeldSoon(p, num, v.barrier)'
             /\ \E f : /\ Edge(p, num, v.barrier, f)' /\ Edge(p, num, f, v.startMeta)'
                       /\ Edge(p, num, v.startMeta, v.endMeta)'
  <2>1. PICK w \in Range(waitings) : /\ w.barrier = v.barrier /\ w.startMeta = v.startMeta
                                     /\ w.endMeta = v.endMeta
    BY DEF SameEvents
  <2>2. PICK b, s, m : b = v.barrier /\ s = v.startMeta /\ m = v.endMeta
    OBVIOUS
  <2>3. b = w.barrier /\ s = w.startMeta /\ m = w.endMeta
    BY <2>1, <2>2
  <2>4. HeldSoon(p, num, b)' /\ \E f : Edge(p, num, b, f)' /\ Edge(p, num, f, s)' /\ Edge(p, num, s, m)'
    BY <1>4, <2>3
  <2>5. QED
    BY <2>2, <2>4
<1>8. QED
  BY <1>7

\* A call that only adds events.
LEMMA AddsCall ==
  ASSUME HostsInv, NEW h, NEW p, NEW next, NEW id \in Nat \cup {None},
         Calls(h, p, next, id), NEW n, n = cnt, AddsFrom(p, n),
         NEW num, num = NumbersFrom(p, n), CollHeld(p, num)', waitings' \in Seq(Waitings),
         tail' \in [Hosts -> [Streams -> SUBSET Nat]], TailsBelow(n + Len(p))',
         buffered' \in [Hosts -> [Streams -> Seq(BufferedCalls)]],
         DOMAIN idOf' = Hosts, OwnAdded(h, p, n), AboutAdded(h, p, n, next, id)
  PROVE  HostsInv'
<1>1. call = NoCall /\ UNCHANGED vars
  BY DEF Calls, Call
<1>2. /\ OrderInv /\ HostsTypes /\ n \in Nat
      /\ \A g \in Hosts : OwnIds(g) \subseteq 0 .. n - 1
  BY <1>1, BetweenCalls
<1>3. p \in Seq(Operations) /\ Len(p) \in Nat
  BY DEF AddsFrom
<1>4. /\ Numbered(p, n, num) /\ OpsKnown(p, num) /\ num[Len(p) + 1] = n + Len(p)
      /\ \A i \in 1 .. Len(p) : num[i] = n + i - 1
  BY <1>2, AddsNumbered
<1>5. OpsGuarded(p)'
  BY DEF OpsGuarded, AddsFrom
<1>6. ASSUME NEW e, AddsPlain(p, n, e)
      PROVE  e \in Nat /\ e >= n /\ Plain(p, num, e) /\ e \in 0 .. n + Len(p) - 1
  <2>1. PICK i \in 1 .. Len(p) : e = n + i - 1 /\ p[i].act.kind # "comm"
    BY <1>6 DEF AddsPlain
  <2>2. num[i] = e /\ p[i].op = "add"
    BY <1>4, <2>1 DEF AddsFrom
  <2>3. Plain(p, num, e)
    BY <2>1, <2>2 DEF Plain
  <2>4. QED
    BY <1>2, <1>3, <2>1, <2>3
<1>7. OwnGrow(h, p, num, n)
  BY <1>6 DEF OwnGrow, OwnAdded
<1>8. AboutGrow(h, p, num, n, next, id)
  BY <1>6 DEF AboutGrow, AboutAdded
<1>9. TailsKnown(num[Len(p) + 1])'
  <2>2. PICK m \in Nat : m = n + Len(p)
    BY <1>2, <1>3
  <2>5. ASSUME NEW g \in Hosts, NEW e, e \in OwnIds(g)'
        PROVE  e \in 0 .. m - 1
    <3>1. e \in OwnIds(g) \/ AddsPlain(p, n, e)
      BY <2>5 DEF OwnAdded
    <3>2. e \in 0 .. n - 1 \/ e \in 0 .. n + Len(p) - 1
      BY <1>2, <1>6, <3>1
    <3>3. QED
      BY <1>2, <1>3, <2>2, <3>2
  <2>6. \A g \in Hosts : \A s \in Streams : tail'[g][s] \subseteq 0 .. m - 1
    BY <2>2 DEF TailsBelow
  <2>3. TailsKnown(m)'
    BY <2>5, <2>6 DEF TailsKnown
  <2>4. QED
    BY <1>4, <2>2, <2>3
<1>10. QED
  BY <1>3, <1>4, <1>5, <1>7, <1>8, <1>9, CallKeeps

\* Such a call by a host that joins no collective.
LEMMA OwnCall ==
  ASSUME HostsInv, NEW h, NEW p, NEW next, NEW id \in Nat \cup {None},
         Calls(h, p, next, id), NEW n, n = cnt, AddsFrom(p, n), UNCHANGED waitings,
         tail' \in [Hosts -> [Streams -> SUBSET Nat]], TailsBelow(n + Len(p))',
         buffered' \in [Hosts -> [Streams -> Seq(BufferedCalls)]],
         DOMAIN idOf' = Hosts, OwnAdded(h, p, n), AboutAdded(h, p, n, next, id)
  PROVE  HostsInv'
<1>1. call = NoCall /\ UNCHANGED vars
  BY DEF Calls, Call
<1>2. HostsTypes
  BY DEF HostsInv
<1>3. PICK num : num = NumbersFrom(p, n)
  OBVIOUS
<1>4. waitings' \in Seq(Waitings)
  BY <1>2 DEF HostsTypes
<1>5. PICK W : W = Range(waitings)
  OBVIOUS
<1>6. CollHeld(p, num)'
  <2>1. \A i, j \in DOMAIN waitings : waitings[i].barrier = waitings[j].barrier => i = j
    BY <1>1, BetweenCalls DEF BuildInv, CollHeld
  <2>5. \A v \in W : \E w \in Range(waitings) : SameEvents(v, w)
    BY <1>5 DEF SameEvents
  <2>2. \A w \in W :
           /\ HeldSoon(p, num, w.barrier)'
           /\ \E f : /\ Edge(p, num, w.barrier, f)' /\ Edge(p, num, f, w.startMeta)'
                     /\ Edge(p, num, w.startMeta, w.endMeta)'
    BY <1>1, <2>5, CollSame
  <2>3. Range(waitings)' = W
    BY <1>5 DEF Range
  <2>4. QED
    BY <2>1, <2>2, <2>3 DEF CollHeld
<1>7. QED
  BY <1>3, <1>4, <1>6, AddsCall

\* What the calls do to the buffers and to the streams.
LEMMA FlushedTypes ==
  ASSUME HostsTypes, NEW h \in Hosts, NEW S, Flushed(h, S)
  PROVE  buffered' \in [Hosts -> [Streams -> Seq(BufferedCalls)]]
<1>1. buffered \in [Hosts -> [Streams -> Seq(BufferedCalls)]]
  BY DEF HostsTypes
<1>2. PICK new : new = [s \in Streams |-> IF s \in S THEN << >> ELSE buffered[h][s]]
  OBVIOUS
<1>3. << >> \in Seq(BufferedCalls)
  OBVIOUS
<1>4. new \in [Streams -> Seq(BufferedCalls)]
  <2>1. \A s \in Streams : buffered[h][s] \in Seq(BufferedCalls)
    BY <1>1
  <2>2. QED
    BY <1>2, <1>3, <2>1
<1>5. buffered' = [buffered EXCEPT ![h] = new]
  BY <1>2 DEF Flushed
<1>6. QED
  BY <1>1, <1>4, <1>5

\* The stream's last event is the new one; the others stay.
LEMMA AdvanceTypes ==
  ASSUME HostsTypes, NEW h \in Hosts, NEW s \in Streams, NEW id \in Nat, Advance(h, s, id),
         NEW n \in Nat, TailsBelow(n), NEW m \in Nat, n <= m, id < m
  PROVE  tail' \in [Hosts -> [Streams -> SUBSET Nat]] /\ TailsBelow(m)'
<1>1. /\ tail \in [Hosts -> [Streams -> SUBSET Nat]]
      /\ tail' = [tail EXCEPT ![h] = [tail[h] EXCEPT ![s] = {id}]]
  BY DEF HostsTypes, Advance
<1>2. tail' \in [Hosts -> [Streams -> SUBSET Nat]]
  BY <1>1
<1>3. \A g \in Hosts, r \in Streams : tail'[g][r] = {id} \/ tail'[g][r] = tail[g][r]
  BY <1>1
<1>4. 0 .. n - 1 \subseteq 0 .. m - 1 /\ id \in 0 .. m - 1
  OBVIOUS
<1>5. \A g \in Hosts, r \in Streams : tail[g][r] \subseteq 0 .. n - 1
  BY DEF TailsBelow
<1>6. \A g \in Hosts, r \in Streams : tail'[g][r] \subseteq 0 .. m - 1
  BY <1>3, <1>4, <1>5
<1>7. QED
  BY <1>2, <1>6 DEF TailsBelow

\* A call that leaves the CUDA events alone.
LEMMA OwnSame ==
  ASSUME UNCHANGED idOf, HostsTypes, NEW h, NEW p, NEW n
  PROVE  DOMAIN idOf' = Hosts /\ OwnAdded(h, p, n)
BY DEF OwnAdded, OwnIds, HostsTypes

\* The last event of a call on a stream is its own.
LEMMA LastPlain ==
  ASSUME NEW n \in Nat, NEW p, Len(p) \in Nat \ {0}, p[Len(p)].act.kind # "comm",
         NEW id, id = n + Len(p) - 1
  PROVE  AddsPlain(p, n, id)
BY DEF AddsPlain

\* A call that returns at once.
LEMMA AsyncCalls ==
  ASSUME NEW h \in Hosts, NEW p, Async(h, p)
  PROVE  Calls(h, p, "return", None)
BY DEF Async, Calls, CallKinds

\* A call that waits for a reply.
LEMMA AskCalls ==
  ASSUME NEW h \in Hosts, NEW p, NEW next \in CallKinds \ {"return"}, NEW id, NEW kind, NEW must,
         Ask(h, p, next, id, kind, must)
  PROVE  Calls(h, p, next, id)
BY DEF Ask, Calls

\* Only the actions of flows have kind comm.
LEMMA CallActions ==
  /\ Point \in Actions /\ Comm \in Actions /\ Point.kind # "comm"
  /\ \A d \in Durations : Comp(d) \in Actions /\ Comp(d).kind # "comm"
<1>1. Point \in Actions /\ Comm \in Actions /\ \A d \in Durations : Comp(d) \in Actions
  BY DEF Actions
<1>2. Point.kind # "comm" /\ \A d \in Durations : Comp(d).kind # "comm"
  BY DEF Point, Comp
<1>3. QED
  BY <1>1, <1>2

\* The number of the host's next piece of work.
LEMMA NextWork ==
  ASSUME HistoryTypes, NEW h \in Hosts
  PROVE  Len(work[h]) + 1 \in Nat
<1>1. work[h] \in Seq(Works)
  BY DEF HistoryTypes
<1>2. QED
  BY <1>1

\* handle_torch_call
LEMMA TorchKeeps ==
  ASSUME HostsInv, HistoryTypes, NEW h \in Hosts, NEW s \in Streams, NEW d \in Durations,
         TorchCall(h, s, d)
  PROVE  HostsInv'
<1>1. Async(h, << >>) /\ UNCHANGED <<tail, idOf, waitings>>
  BY DEF TorchCall
<1>2. Calls(h, << >>, "return", None) /\ call = NoCall
  BY <1>1, AsyncCalls DEF Calls, Call
<1>3. PICK n : n = cnt
  OBVIOUS
<1>4. HostsTypes /\ n \in Nat /\ TailsBelow(n)
  BY <1>2, <1>3, BetweenCalls
<1>5. PICK t \in Nat, w \in Nat : t = clock[h] /\ w = Len(work[h]) + 1
  BY <1>4, NextWork DEF HostsTypes
<1>6. buffered' \in [Hosts -> [Streams -> Seq(BufferedCalls)]]
  <2>1. buffered' = [buffered EXCEPT ![h] = [buffered[h] EXCEPT ![s] =
                       Append(buffered[h][s], [t |-> t, dur |-> d, w |-> w])]]
    <3>1. PICK x : x = [t |-> t, dur |-> d, w |-> w]
      OBVIOUS
    <3>2. buffered' = [buffered EXCEPT ![h][s] = Append(buffered[h][s], x)]
      BY <1>5, <3>1 DEF TorchCall
    <3>3. buffered' = [buffered EXCEPT ![h] = [buffered[h] EXCEPT ![s] = Append(buffered[h][s], x)]]
      BY <3>2
    <3>4. QED
      BY <3>1, <3>3
  <2>2. [t |-> t, dur |-> d, w |-> w] \in BufferedCalls
    BY DEF BufferedCalls
  <2>3. buffered[h][s] \in Seq(BufferedCalls)
    BY <1>4 DEF HostsTypes
  <2>4. Append(buffered[h][s], [t |-> t, dur |-> d, w |-> w]) \in Seq(BufferedCalls)
    BY <2>2, <2>3
  <2>5. QED
    BY <1>4, <2>1, <2>4 DEF HostsTypes
<1>7. tail' \in [Hosts -> [Streams -> SUBSET Nat]] /\ TailsBelow(n + Len(<< >>))'
  BY <1>1, <1>4 DEF HostsTypes, TailsBelow
<1>8. DOMAIN idOf' = Hosts /\ OwnAdded(h, << >>, n)
  BY <1>1, <1>4, OwnSame
<1>9. AboutAdded(h, << >>, n, "return", None)
  BY DEF AboutAdded
<1>10. AddsFrom(<< >>, n)
  BY EmptyAdds
<1>11. QED
  BY <1>1, <1>2, <1>3, <1>6, <1>7, <1>8, <1>9, <1>10, OwnCall

\* A call that adds an event to a stream: a copy, a record, a wait or a
\* synchronization.
LEMMA StreamCall ==
  ASSUME HostsInv, NEW h \in Hosts, NEW s \in Streams,
         NEW on, on \subseteq 0 .. cnt - 1 \cup {NoneDep},
         NEW act \in Actions, act.kind # "comm", NEW w \in Nat,
         NEW n, n = cnt, NEW p, p = StreamOps(h, s, n, on, act, w),
         NEW id, id = StreamId(h, s, n), NEW next \in {"return", "sync"},
         NEW about, about = (IF next = "sync" THEN id ELSE None),
         Calls(h, p, next, about), Flushed(h, {s}), Advance(h, s, id), UNCHANGED waitings,
         \/ UNCHANGED idOf
         \/ next = "return" /\ \E c : idOf' = [idOf EXCEPT ![h] = Put(idOf[h], c, id)]
  PROVE  HostsInv'
<1>1. call = NoCall
  BY DEF Calls, Call
<1>2. HostsTypes /\ n \in Nat /\ TailsBelow(n)
  BY <1>1, BetweenCalls
<1>3. tail[h][s] \subseteq 0 .. n - 1 /\ on \subseteq 0 .. n - 1 \cup {NoneDep}
  BY <1>2 DEF TailsBelow
<1>4. /\ AddsFrom(p, n) /\ Len(p) \in Nat \ {0} /\ id = n + Len(p) - 1 /\ id \in Nat
      /\ p[Len(p)].act = act
  <2>1. AddedLast(p, n, on, act, id)
    BY <1>2, <1>3, StreamAdds
  <2>2. QED
    BY <2>1 DEF AddedLast
<1>5. buffered' \in [Hosts -> [Streams -> Seq(BufferedCalls)]]
  BY <1>2, FlushedTypes
<1>6. tail' \in [Hosts -> [Streams -> SUBSET Nat]] /\ TailsBelow(n + Len(p))'
  <2>1. PICK m \in Nat : m = n + Len(p)
    BY <1>2, <1>4
  <2>2. n <= m /\ id < m
    BY <1>2, <1>4, <2>1
  <2>3. tail' \in [Hosts -> [Streams -> SUBSET Nat]] /\ TailsBelow(m)'
    BY <1>2, <1>4, <2>2, AdvanceTypes
  <2>4. QED
    BY <2>1, <2>3 DEF TailsBelow
<1>7. AddsPlain(p, n, id)
  BY <1>2, <1>4, LastPlain
<1>8. DOMAIN idOf' = Hosts /\ OwnAdded(h, p, n)
  <2>1. CASE UNCHANGED idOf
    BY <1>2, <2>1, OwnSame
  <2>2. CASE next = "return" /\ \E c : idOf' = [idOf EXCEPT ![h] = Put(idOf[h], c, id)]
    <3>1. PICK c : idOf' = [idOf EXCEPT ![h] = Put(idOf[h], c, id)]
      BY <2>2
    <3>2. DOMAIN idOf = Hosts
      BY <1>2 DEF HostsTypes
    <3>3. /\ DOMAIN idOf' = Hosts
          /\ \A g \in Hosts \ {h} : idOf'[g] = idOf[g]
          /\ DOMAIN idOf'[h] = DOMAIN idOf[h] \cup {c}
          /\ idOf'[h][c] = id
          /\ \A x \in DOMAIN idOf[h] \ {c} : idOf'[h][x] = idOf[h][x]
      BY <3>1, <3>2 DEF Put
    <3>4. ASSUME NEW g \in Hosts, NEW e, e \in OwnIds(g)'
          PROVE  e \in OwnIds(g) \/ (g = h /\ e = id)
      <4>1. PICK x \in DOMAIN idOf'[g] : e = idOf'[g][x]
        BY <3>4 DEF OwnIds
      <4>2. CASE g # h
        BY <3>3, <4>1, <4>2 DEF OwnIds
      <4>3. CASE g = h /\ x = c
        BY <3>3, <4>1, <4>3
      <4>4. CASE g = h /\ x # c
        BY <3>3, <4>1, <4>4 DEF OwnIds
      <4>5. QED
        BY <4>2, <4>3, <4>4
    <3>5. QED
      BY <1>7, <3>3, <3>4 DEF OwnAdded
  <2>3. QED
    BY <2>1, <2>2
<1>9. AboutAdded(h, p, n, next, about)
  BY <1>7 DEF AboutAdded
<1>10. about \in Nat \cup {None}
  BY <1>4
<1>11. QED
  BY <1>4, <1>5, <1>6, <1>8, <1>9, <1>10, OwnCall

\* cuda_memcpy_async and the like, cuda_event_record, cuda_stream_wait_event and
\* cuda_stream_synchronize.
LEMMA MemcpyKeeps ==
  ASSUME HostsInv, HistoryTypes, NEW h \in Hosts, NEW s \in Streams, NEW d \in Durations,
         MemcpyAsync(h, s, d)
  PROVE  HostsInv'
<1>1. PICK n : n = cnt
  OBVIOUS
<1> PICK w \in Nat, act \in Actions : w = Len(work[h]) + 1 /\ act = Comp(d) /\ act.kind # "comm"
  BY NextWork, CallActions
<1>2. PICK p, id : p = StreamOps(h, s, n, {}, act, w) /\ id = StreamId(h, s, n)
  OBVIOUS
<1>3. /\ Async(h, p) /\ Flushed(h, {s}) /\ Advance(h, s, id) /\ UNCHANGED <<idOf, waitings>>
  BY <1>1, <1>2 DEF MemcpyAsync
<1>4. Calls(h, p, "return", None)
  BY <1>3, AsyncCalls
<1>5. {} \subseteq 0 .. cnt - 1 \cup {NoneDep}
  OBVIOUS
<1>6. QED
  BY <1>1, <1>2, <1>3, <1>4, <1>5, StreamCall

LEMMA RecordKeeps ==
  ASSUME HostsInv, NEW h \in Hosts, NEW s \in Streams, NEW c, EventRecord(h, s, c)
  PROVE  HostsInv'
<1>1. PICK n : n = cnt
  OBVIOUS
<1> PICK act \in Actions : act = Point /\ act.kind # "comm"
  BY CallActions
<1>2. PICK p, id : p = StreamOps(h, s, n, {}, act, 0) /\ id = StreamId(h, s, n)
  OBVIOUS
<1>3. /\ Async(h, p) /\ Flushed(h, {s}) /\ Advance(h, s, id) /\ UNCHANGED waitings
      /\ idOf' = [idOf EXCEPT ![h] = Put(idOf[h], c, id)]
  BY <1>1, <1>2 DEF EventRecord
<1>4. Calls(h, p, "return", None)
  BY <1>3, AsyncCalls
<1>5. {} \subseteq 0 .. cnt - 1 \cup {NoneDep}
  OBVIOUS
<1>6. QED
  BY <1>1, <1>2, <1>3, <1>4, <1>5, StreamCall

LEMMA WaitEventKeeps ==
  ASSUME HostsInv, NEW h \in Hosts, NEW s \in Streams, NEW c, StreamWaitEvent(h, s, c)
  PROVE  HostsInv'
<1>1. PICK n : n = cnt
  OBVIOUS
<1> PICK act \in Actions : act = Point /\ act.kind # "comm"
  BY CallActions
<1>2. PICK on : on = {idOf[h][c]}
  OBVIOUS
<1>3. PICK p, id : p = StreamOps(h, s, n, on, act, 0) /\ id = StreamId(h, s, n)
  OBVIOUS
<1>4. /\ Async(h, p) /\ Flushed(h, {s}) /\ Advance(h, s, id) /\ UNCHANGED <<idOf, waitings>>
      /\ c \in DOMAIN idOf[h]
  BY <1>1, <1>2, <1>3 DEF StreamWaitEvent
<1>5. Calls(h, p, "return", None) /\ call = NoCall
  BY <1>4, AsyncCalls DEF Calls, Call
<1>6. on \subseteq 0 .. cnt - 1 \cup {NoneDep}
  BY <1>2, <1>4, <1>5, BetweenCalls DEF OwnIds
<1>7. QED
  BY <1>1, <1>3, <1>4, <1>5, <1>6, StreamCall

LEMMA StreamSyncKeeps ==
  ASSUME HostsInv, NEW h \in Hosts, NEW s \in Streams, StreamSynchronize(h, s)
  PROVE  HostsInv'
<1>1. PICK n : n = cnt
  OBVIOUS
<1> PICK act \in Actions : act = Point /\ act.kind # "comm"
  BY CallActions
<1>2. PICK p, id : p = StreamOps(h, s, n, {}, act, 0) /\ id = StreamId(h, s, n)
  OBVIOUS
<1>3. /\ Ask(h, p, "sync", id, "sync", covers[h][s])
      /\ Flushed(h, {s}) /\ Advance(h, s, id) /\ UNCHANGED <<idOf, waitings>>
  BY <1>1, <1>2 DEF StreamSynchronize
<1>4. Calls(h, p, "sync", id)
  BY <1>3, AskCalls DEF CallKinds
<1>5. {} \subseteq 0 .. cnt - 1 \cup {NoneDep}
  OBVIOUS
<1>6. QED
  BY <1>1, <1>2, <1>3, <1>4, <1>5, StreamCall

\* cuda_event_synchronize and cuda_event_query add no events.
LEMMA EventAskKeeps ==
  ASSUME HostsInv, NEW h \in Hosts, NEW c, EventSynchronize(h, c) \/ EventQuery(h, c)
  PROVE  HostsInv'
<1>1. PICK id : id = idOf[h][c]
  OBVIOUS
<1>2. PICK next \in {"eventSync", "query"} :
        /\ Ask(h, << >>, next, id, next, recorded[h][c])
        /\ UNCHANGED <<tail, buffered, idOf, waitings>> /\ c \in DOMAIN idOf[h]
  BY <1>1 DEF EventSynchronize, EventQuery
<1>3. Calls(h, << >>, next, id) /\ call = NoCall
  BY <1>2, AskCalls DEF CallKinds, Calls, Call
<1>4. PICK n : n = cnt
  OBVIOUS
<1>5. HostsTypes /\ n \in Nat /\ TailsBelow(n) /\ OwnIds(h) \subseteq 0 .. n - 1
  BY <1>3, <1>4, BetweenCalls
<1>6. id \in OwnIds(h) /\ id \in Nat \cup {None}
  <2>1. id \in OwnIds(h)
    BY <1>1, <1>2 DEF OwnIds
  <2>2. QED
    BY <1>5, <2>1
<1>7. DOMAIN idOf' = Hosts /\ OwnAdded(h, << >>, n)
  BY <1>2, <1>5, OwnSame
<1>8. AboutAdded(h, << >>, n, next, id)
  BY <1>2, <1>6 DEF AboutAdded
<1>9. AddsFrom(<< >>, n)
  BY EmptyAdds
<1>10. tail' \in [Hosts -> [Streams -> SUBSET Nat]] /\ TailsBelow(n + Len(<< >>))'
  BY <1>2, <1>5 DEF HostsTypes, TailsBelow
<1>11. buffered' \in [Hosts -> [Streams -> Seq(BufferedCalls)]]
  BY <1>2, <1>5 DEF HostsTypes
<1>12. QED
  BY <1>2, <1>3, <1>4, <1>6, <1>7, <1>8, <1>9, <1>10, <1>11, OwnCall

\* cuda_stream_query flushes the stream.
LEMMA StreamQueryKeeps ==
  ASSUME HostsInv, NEW h \in Hosts, NEW s \in Streams, StreamQuery(h, s)
  PROVE  HostsInv'
<1>1. PICK n, p, last : n = cnt /\ p = FlushOps(h, s, n) /\ last = TailAfter(h, s, n)
  OBVIOUS
<1>2. PICK id : id = IF last = {} THEN None ELSE CHOOSE e \in last : TRUE
  OBVIOUS
<1>3. /\ Ask(h, p, "query", id, "query", covers[h][s])
      /\ Flushed(h, {s}) /\ tail' = [tail EXCEPT ![h][s] = last] /\ UNCHANGED <<idOf, waitings>>
  BY <1>1, <1>2 DEF StreamQuery
<1>4. Calls(h, p, "query", id) /\ call = NoCall
  BY <1>3, AskCalls DEF CallKinds, Calls, Call
<1>5. HostsTypes /\ n \in Nat /\ TailsBelow(n)
  BY <1>1, <1>4, BetweenCalls
<1>6. tail[h][s] \subseteq 0 .. n - 1
  BY <1>5 DEF TailsBelow
<1>7. AddsFrom(p, n) /\ last \subseteq 0 .. n + Len(p) - 1
  BY <1>1, <1>5, <1>6, FlushAdds
<1>8. Len(p) \in Nat
  BY <1>7 DEF AddsFrom
<1>9. id \in Nat \cup {None}
  <2>1. PICK x : x = CHOOSE e \in last : TRUE
    OBVIOUS
  <2>2. last # {} => x \in last
    BY <2>1
  <2>3. last \subseteq Nat
    BY <1>7
  <2>4. QED
    BY <1>2, <2>1, <2>2, <2>3
<1>10. tail' \in [Hosts -> [Streams -> SUBSET Nat]] /\ TailsBelow(n + Len(p))'
  <2>1. PICK m \in Nat : m = n + Len(p)
    BY <1>5, <1>8
  <2>2. tail' = [tail EXCEPT ![h] = [tail[h] EXCEPT ![s] = last]]
    BY <1>3
  <2>3. last \subseteq 0 .. m - 1
    BY <1>5, <1>7, <1>8, <2>1
  <2>4. last \in SUBSET Nat
    BY <2>3
  <2>5. /\ tail' \in [Hosts -> [Streams -> SUBSET Nat]]
        /\ \A g \in Hosts, r \in Streams : tail'[g][r] = last \/ tail'[g][r] = tail[g][r]
    BY <1>5, <2>2, <2>4 DEF HostsTypes
  <2>6. 0 .. n - 1 \subseteq 0 .. m - 1
    BY <1>5, <1>8, <2>1
  <2>7. \A g \in Hosts, r \in Streams : tail'[g][r] \subseteq 0 .. m - 1
    BY <1>5, <2>3, <2>5, <2>6 DEF TailsBelow
  <2>8. QED
    BY <2>1, <2>5, <2>7 DEF TailsBelow
<1>11. DOMAIN idOf' = Hosts /\ OwnAdded(h, p, n)
  BY <1>3, <1>5, OwnSame
<1>12. AboutAdded(h, p, n, "query", id)
  BY DEF AboutAdded
<1>13. buffered' \in [Hosts -> [Streams -> Seq(BufferedCalls)]]
  BY <1>3, <1>5, FlushedTypes
<1>14. QED
  BY <1>1, <1>3, <1>4, <1>7, <1>9, <1>10, <1>11, <1>12, <1>13, OwnCall

\* After i streams: the events so far, and how far the last stream's event is.
DeviceAdded(h, o, ops, n, i) ==
  /\ AddsFrom(ops[i], n)
  /\ \A j \in 0 .. i : Len(ops[j]) \in 0 .. Len(ops[i])
  /\ i > 0 => TailAfter(h, o[i], n + Len(ops[i - 1])) \subseteq 0 .. n + Len(ops[i]) - 1

\* cuda_device_synchronize flushes one stream after the other.
LEMMA DeviceStep ==
  ASSUME HostsTypes, NEW h \in Hosts, NEW n \in Nat, n = cnt, TailsBelow(n),
         NEW o \in Seq(Streams), NEW ops, FlushesTo(h, o, ops, Len(o)),
         NEW i \in 1 .. Len(o), DeviceAdded(h, o, ops, n, i - 1)
  PROVE  DeviceAdded(h, o, ops, n, i)
<1>1. Len(o) \in Nat /\ i \in 0 .. Len(o) /\ i # 0 /\ i > 0 /\ i - 1 \in 0 .. Len(o) /\ o[i] \in Streams
  OBVIOUS
<1>2. PICK s, p : s \in Streams /\ s = o[i] /\ p = ops[i - 1]
  BY <1>1
<1>3. AddsFrom(p, n) /\ \A j \in 0 .. i - 1 : Len(ops[j]) \in 0 .. Len(p)
  BY <1>2 DEF DeviceAdded
<1>4. Len(p) \in Nat
  BY <1>3 DEF AddsFrom
<1>5. PICK m \in Nat : m = n + Len(p)
  BY <1>4
<1>6. PICK q : q = FlushOps(h, s, m)
  OBVIOUS
<1>7. tail[h][s] \subseteq 0 .. m - 1
  <2>1. tail[h][s] \subseteq 0 .. n - 1
    BY <1>2 DEF TailsBelow
  <2>2. 0 .. n - 1 \subseteq 0 .. m - 1
    BY <1>4, <1>5
  <2>3. QED
    BY <2>1, <2>2
<1>8. AddsFrom(q, m) /\ TailAfter(h, s, m) \subseteq 0 .. m + Len(q) - 1
  BY <1>2, <1>6, <1>7, FlushAdds
<1>9. Len(q) \in Nat
  BY <1>8 DEF AddsFrom
<1>10. ops[i] = p \o q
  <2>1. i <= Len(o)
    BY <1>1
  <2>2. ops[i] = p \o FlushOps(h, s, cnt + Len(p))
    BY <1>1, <1>2, <2>1 DEF FlushesTo
  <2>3. cnt + Len(p) = m
    BY <1>5
  <2>4. QED
    BY <1>6, <2>2, <2>3
<1>11. AddsFrom(ops[i], n) /\ Len(ops[i]) = Len(p) + Len(q)
  <2>1. Concatenated(p, q, n, ops[i])
    BY <1>3, <1>5, <1>8, <1>10, ConcatAdds
  <2>2. QED
    BY <2>1 DEF Concatenated
<1>12. \A j \in 0 .. i : Len(ops[j]) \in 0 .. Len(ops[i])
  <2>1. Len(p) <= Len(ops[i]) /\ Len(ops[i]) \in Nat
    BY <1>4, <1>9, <1>11
  <2>2. ASSUME NEW j \in 0 .. i - 1
        PROVE  Len(ops[j]) \in 0 .. Len(ops[i])
    <3>1. Len(ops[j]) \in 0 .. Len(p)
      BY <1>3
    <3>2. QED
      BY <1>4, <2>1, <3>1
  <2>3. \A j \in 0 .. i : j = i \/ j \in 0 .. i - 1
    BY <1>1
  <2>4. QED
    BY <2>1, <2>2, <2>3
<1>13. TailAfter(h, o[i], n + Len(ops[i - 1])) \subseteq 0 .. n + Len(ops[i]) - 1
  <2>1. n + Len(ops[i - 1]) = m /\ o[i] = s
    BY <1>2, <1>5
  <2>2. n + Len(ops[i]) - 1 = m + Len(q) - 1
    BY <1>4, <1>5, <1>9, <1>11
  <2>3. QED
    BY <1>8, <2>1, <2>2
<1>14. QED
  BY <1>11, <1>12, <1>13 DEF DeviceAdded

\* So the whole device's events are added one after the other.
LEMMA DeviceAdds ==
  ASSUME HostsTypes, NEW h \in Hosts, NEW n \in Nat, n = cnt, TailsBelow(n),
         NEW o \in Seq(Streams), NEW ops, ops = DeviceOps(h, o)
  PROVE  \A i \in 0 .. Len(o) : DeviceAdded(h, o, ops, n, i)
<1> DEFINE Bad == {i \in Nat : i \in 0 .. Len(o) /\ ~ DeviceAdded(h, o, ops, n, i)}
<1>1. Len(o) \in Nat
  OBVIOUS
<1>5. FlushesTo(h, o, ops, Len(o))
  BY <1>1, DeviceOpsStep
<1>2. DeviceAdded(h, o, ops, n, 0)
  <2>1. ops[0] = << >>
    <3>1. 0 \in 0 .. Len(o) /\ 0 <= Len(o)
      BY <1>1
    <3>2. QED
      BY <1>5, <3>1 DEF FlushesTo
  <2>2. AddsFrom(ops[0], n) /\ Len(ops[0]) = 0
    BY <2>1, EmptyAdds
  <2>3. QED
    BY <2>2 DEF DeviceAdded
<1>3. Bad = {}
  <2> SUFFICES ASSUME Bad # {} PROVE FALSE
    OBVIOUS
  <2>1. PICK i \in Bad : \A j \in Bad : i <= j
    BY LeastNumber
  <2>2. i \in Nat /\ i \in 0 .. Len(o) /\ ~ DeviceAdded(h, o, ops, n, i) /\ i # 0
    BY <1>2, <2>1
  <2>3. i \in 1 .. Len(o) /\ i - 1 \in Nat /\ i - 1 \in 0 .. Len(o) /\ ~ (i <= i - 1)
    BY <1>1, <2>2
  <2>4. DeviceAdded(h, o, ops, n, i - 1)
    <3>1. i - 1 \notin Bad
      BY <2>1, <2>3
    <3>2. QED
      BY <2>3, <3>1
  <2>5. DeviceAdded(h, o, ops, n, i)
    BY <1>5, <2>3, <2>4, DeviceStep
  <2>6. QED
    BY <2>2, <2>5
<1>4. QED
  BY <1>3

\* What is known of the device's streams afterwards.
LEMMA FlushDeviceAdds ==
  ASSUME HostsTypes, NEW h \in Hosts, NEW n \in Nat, n = cnt, TailsBelow(n),
         NEW o \in Seq(Streams), NEW f, f = FlushDevice(h, o)
  PROVE  /\ AddsFrom(f.ops, n)
         /\ f.tail = [s \in Streams |-> f.tail[s]]
         /\ \A s \in Streams : f.tail[s] \subseteq 0 .. n + Len(f.ops) - 1
<1>1. PICK ops : ops = DeviceOps(h, o)
  OBVIOUS
<1>2. Len(o) \in Nat /\ DOMAIN o = 1 .. Len(o)
  OBVIOUS
<1>3. PICK p : p = ops[Len(o)]
  OBVIOUS
<1>4. /\ f.ops = p
      /\ f.tail = [s \in Streams |->
                    IF s \in Range(o)
                    THEN TailAfter(h, s, cnt + Len(ops[(CHOOSE i \in DOMAIN o : o[i] = s) - 1]))
                    ELSE tail[h][s]]
  BY <1>1, <1>3 DEF FlushDevice
<1>5. \A i \in 0 .. Len(o) : DeviceAdded(h, o, ops, n, i)
  BY <1>1, DeviceAdds
<1>6. Len(o) \in 0 .. Len(o)
  BY <1>2
<1>7. AddsFrom(p, n) /\ \A j \in 0 .. Len(o) : Len(ops[j]) \in 0 .. Len(p)
  BY <1>3, <1>5, <1>6 DEF DeviceAdded
<1>8. Len(p) \in Nat
  BY <1>7 DEF AddsFrom
<1>9. ASSUME NEW s \in Streams
      PROVE  f.tail[s] \subseteq 0 .. n + Len(p) - 1
  <2>1. CASE s \notin Range(o)
    <3>1. f.tail[s] = tail[h][s]
      BY <1>4, <2>1
    <3>2. tail[h][s] \subseteq 0 .. n - 1
      BY DEF TailsBelow
    <3>3. 0 .. n - 1 \subseteq 0 .. n + Len(p) - 1
      BY <1>8
    <3>4. QED
      BY <3>1, <3>2, <3>3
  <2>2. CASE s \in Range(o)
    <3>1. PICK i : i = CHOOSE k \in DOMAIN o : o[k] = s
      OBVIOUS
    <3>2. \E k \in DOMAIN o : o[k] = s
      BY <2>2 DEF Range
    <3>3. i \in DOMAIN o /\ o[i] = s
      BY <3>1, <3>2
    <3>4. i \in 0 .. Len(o) /\ i > 0
      BY <1>2, <3>3
    <3>5. TailAfter(h, s, n + Len(ops[i - 1])) \subseteq 0 .. n + Len(ops[i]) - 1
      BY <1>5, <3>3, <3>4 DEF DeviceAdded
    <3>6. f.tail[s] = TailAfter(h, s, n + Len(ops[i - 1]))
      BY <1>4, <2>2, <3>1
    <3>7. Len(ops[i]) \in 0 .. Len(p)
      BY <1>7, <3>4
    <3>8. 0 .. n + Len(ops[i]) - 1 \subseteq 0 .. n + Len(p) - 1
      BY <1>8, <3>7
    <3>9. QED
      BY <3>5, <3>6, <3>8
  <2>3. QED
    BY <2>1, <2>2
<1>10. f.tail = [s \in Streams |-> f.tail[s]]
  <2>1. DOMAIN f.tail = Streams
    BY <1>4
  <2>2. QED
    BY <1>4
<1>11. QED
  BY <1>4, <1>7, <1>9, <1>10

\* The order in which the streams are visited is a sequence of them.
LEMMA OrdersAreSequences ==
  ASSUME NEW S \in SUBSET Streams, NEW o \in SetToSeqs(S)
  PROVE  o \in Seq(Streams)
<1>1. Cardinality(S) \in Nat
  BY PartCardinality, HostsAssumption
<1>2. o \in [1 .. Cardinality(S) -> S]
  BY DEF SetToSeqs
<1>3. o \in [1 .. Cardinality(S) -> Streams]
  BY <1>2
<1>4. QED
  BY <1>1, <1>3

\* cuda_device_synchronize
LEMMA DeviceSyncKeeps ==
  ASSUME HostsInv, NEW h \in Hosts, NEW dev, DeviceSynchronize(h, dev)
  PROVE  HostsInv'
<1>1. PICK n, S : n = cnt /\ S = OfDevice(dev)
  OBVIOUS
<1>2. S \in SUBSET Streams
  BY <1>1 DEF OfDevice
<1>3. PICK o \in SetToSeqs(S) :
        LET f    == FlushDevice(h, o)
            must == UNION {covers[h][s] : s \in {s \in Streams : s[1] = dev}}
        IN  /\ Ask(h, Append(f.ops, AddOp(UNION {f.tail[s] : s \in S}, Point, clock[h], 0)),
                   "sync", cnt + Len(f.ops), "sync", must)
            /\ Flushed(h, S)
            /\ tail' = [tail EXCEPT ![h] = f.tail]
            /\ UNCHANGED <<idOf, waitings>>
  BY <1>1 DEF DeviceSynchronize
<1>4. o \in Seq(Streams)
  BY <1>2, OrdersAreSequences
<1>5. PICK f : f = FlushDevice(h, o)
  OBVIOUS
<1>6. PICK ops, last, on : ops = f.ops /\ last = f.tail /\ on = UNION {last[s] : s \in S}
  OBVIOUS
<1>7. PICK id, p : id = n + Len(ops) /\ p = Append(ops, AddOp(on, Point, clock[h], 0))
  OBVIOUS
<1>8. \E must : Ask(h, p, "sync", id, "sync", must)
  BY <1>1, <1>3, <1>5, <1>6, <1>7
<1>9. /\ Flushed(h, S) /\ tail' = [tail EXCEPT ![h] = last] /\ UNCHANGED <<idOf, waitings>>
  BY <1>3, <1>5, <1>6
<1>10. Calls(h, p, "sync", id) /\ call = NoCall
  BY <1>8, AskCalls DEF CallKinds, Calls, Call
<1>11. HostsTypes /\ n \in Nat /\ TailsBelow(n)
  BY <1>1, <1>10, BetweenCalls
<1>12. /\ AddsFrom(ops, n)
       /\ last = [s \in Streams |-> last[s]]
       /\ \A s \in Streams : last[s] \subseteq 0 .. n + Len(ops) - 1
  BY <1>1, <1>4, <1>5, <1>6, <1>11, FlushDeviceAdds
<1>13. Len(ops) \in Nat
  BY <1>12 DEF AddsFrom
<1>14. on \subseteq 0 .. n + Len(ops) - 1 \cup {NoneDep}
  BY <1>2, <1>6, <1>12
<1>15. PICK t \in Nat, act \in Actions : t = clock[h] /\ act = Point /\ act.kind # "comm"
  BY <1>11, CallActions DEF HostsTypes
<1>16. PICK a : a = AddOp(on, act, t, 0)
  OBVIOUS
<1>17. AddsFrom(p, n) /\ Len(p) = Len(ops) + 1 /\ p[Len(p)].act = act
  <2>1. p = Append(ops, AddOp(on, act, t, 0))
    BY <1>7, <1>15
  <2>2. Appended(ops, n, AddOp(on, act, t, 0), p)
    BY <1>11, <1>12, <1>14, <2>1, AppendAdds
  <2>3. QED
    BY <2>2 DEF Appended, AddOp
<1>18. AddsPlain(p, n, id)
  <2>1. Len(p) \in Nat \ {0} /\ id = n + Len(p) - 1
    BY <1>7, <1>11, <1>13, <1>17
  <2>2. QED
    BY <1>11, <1>15, <1>17, <2>1, LastPlain
<1>19. tail' \in [Hosts -> [Streams -> SUBSET Nat]] /\ TailsBelow(n + Len(p))'
  <2>1. PICK m \in Nat : m = n + Len(p)
    BY <1>11, <1>13, <1>17
  <2>2. 0 .. n - 1 \subseteq 0 .. m - 1 /\ 0 .. n + Len(ops) - 1 \subseteq 0 .. m - 1
    BY <1>11, <1>13, <1>17, <2>1
  <2>3. \A s \in Streams : last[s] \subseteq 0 .. m - 1
    BY <1>12, <2>2
  <2>4. last \in [Streams -> SUBSET Nat]
    <3>1. \A s \in Streams : last[s] \in SUBSET Nat
      BY <2>3
    <3>2. QED
      BY <1>12, <3>1
  <2>5. /\ tail' \in [Hosts -> [Streams -> SUBSET Nat]]
        /\ tail'[h] = last /\ \A g \in Hosts \ {h} : tail'[g] = tail[g]
    BY <1>9, <1>11, <2>4 DEF HostsTypes
  <2>6. \A g \in Hosts, s \in Streams : tail'[g][s] \subseteq 0 .. m - 1
    BY <1>11, <2>2, <2>3, <2>5 DEF TailsBelow
  <2>7. QED
    BY <2>1, <2>5, <2>6 DEF TailsBelow
<1>20. DOMAIN idOf' = Hosts /\ OwnAdded(h, p, n)
  BY <1>9, <1>11, OwnSame
<1>21. AboutAdded(h, p, n, "sync", id)
  BY <1>9, <1>18 DEF AboutAdded
<1>22. buffered' \in [Hosts -> [Streams -> Seq(BufferedCalls)]]
  BY <1>9, <1>11, FlushedTypes
<1>23. id \in Nat \cup {None}
  BY <1>7, <1>11, <1>13
<1>24. QED
  BY <1>1, <1>9, <1>10, <1>17, <1>19, <1>20, <1>21, <1>22, <1>23, OwnCall

\* The last points of a new collective.
ClosingOps(first, t, w) ==
  <<AddOp({first}, Point, t, 0), AddOp({first + 1}, Point, t, 0), AddOp({first + 2, first}, Point, t, w)>>

ClosingAdded(p, first) ==
  /\ AddsFrom(p, first + 1) /\ Len(p) = 3
  /\ p[1].deps = {first} /\ p[2].deps = {first + 1}

\* They are added after the start of the host's part.
LEMMA ClosingAdds ==
  ASSUME NEW first \in Nat, NEW t \in Nat, NEW w \in Nat, NEW p, p = ClosingOps(first, t, w)
  PROVE  ClosingAdded(p, first)
<1>1. PICK a, b, c : /\ a = AddOp({first}, Point, t, 0) /\ b = AddOp({first + 1}, Point, t, 0)
                     /\ c = AddOp({first + 2, first}, Point, t, w)
  OBVIOUS
<1>2. /\ a.op = "add" /\ a.deps = {first} /\ b.op = "add" /\ b.deps = {first + 1}
      /\ c.op = "add" /\ c.deps = {first + 2, first}
  BY <1>1 DEF AddOp
<1>3. /\ {first} \in SUBSET (Nat \cup {NoneDep}) /\ {first + 1} \in SUBSET (Nat \cup {NoneDep})
      /\ {first + 2, first} \in SUBSET (Nat \cup {NoneDep}) /\ Point \in Actions
  BY CallActions
<1>4. a \in Operations /\ b \in Operations /\ c \in Operations
  BY <1>1, <1>3 DEF AddOp, Operations
<1>5. p = <<a, b, c>>
  BY <1>1 DEF ClosingOps
<1>6. p \in Seq(Operations) /\ Len(p) = 3 /\ p[1] = a /\ p[2] = b /\ p[3] = c
  BY <1>4, <1>5
<1>7. /\ a.deps \subseteq 0 .. first /\ b.deps \subseteq 0 .. first + 1 /\ c.deps \subseteq 0 .. first + 2
  BY <1>2
<1>8. ASSUME NEW i \in 1 .. Len(p)
      PROVE  p[i].op = "add" /\ p[i].deps \subseteq 0 .. first + 1 + i - 2 \cup {NoneDep}
  <2>1. i = 1 \/ i = 2 \/ i = 3
    BY <1>6
  <2>2. CASE i = 1
    BY <1>2, <1>6, <1>7, <2>2
  <2>3. CASE i = 2
    <3>1. first + 1 + i - 2 = first + 1
      BY <2>3
    <3>2. QED
      BY <1>2, <1>6, <1>7, <2>3, <3>1
  <2>4. CASE i = 3
    <3>1. first + 1 + i - 2 = first + 2
      BY <2>4
    <3>2. QED
      BY <1>2, <1>6, <1>7, <2>4, <3>1
  <2>5. QED
    BY <2>1, <2>2, <2>3, <2>4
<1>9. QED
  BY <1>2, <1>6, <1>8 DEF AddsFrom, ClosingAdded

\* p, which starts at n, adds event e after d.
AddsEdge(p, n, d, e) == \E i \in 1 .. Len(p) : e = n + i - 1 /\ d \in p[i].deps

\* What the program of a new collective adds: barrier n, the start first of the
\* host's part, and its meta points.
OpenAdded(p, n, first) ==
  /\ AddsFrom(p, n) /\ Len(p) \in Nat \ {0} /\ first \in Nat /\ n + Len(p) = first + 4
  /\ p[1].deps = {NoneDep}
  /\ AddsEdge(p, n, n, first) /\ AddsEdge(p, n, first, first + 1)
  /\ AddsEdge(p, n, first + 1, first + 2)

\* The program of a new collective.
LEMMA OpenAdds ==
  ASSUME HostsTypes, NEW h \in Hosts, NEW s \in Streams, NEW n \in Nat, TailsBelow(n),
         NEW t \in Nat, NEW w \in Nat,
         NEW mid, mid = StreamOps(h, s, n + 1, {n}, Point, w),
         NEW first, first = StreamId(h, s, n + 1),
         NEW p, p = (<<AddOp({NoneDep}, Point, t, 0)>> \o mid) \o ClosingOps(first, t, w)
  PROVE  OpenAdded(p, n, first)
<1>1. PICK head, close, o : /\ o = AddOp({NoneDep}, Point, t, 0) /\ head = <<o>>
                            /\ close = ClosingOps(first, t, w)
  OBVIOUS
<1>2. PICK m \in Nat : m = n + 1
  OBVIOUS
<1>3. PICK act \in Actions : act = Point
  BY CallActions
<1>4. AddsFrom(head, n) /\ Len(head) = 1 /\ head[1].deps = {NoneDep}
  <2>1. AddsFrom(<< >>, n)
    BY EmptyAdds
  <2>2. head = Append(<< >>, AddOp({NoneDep}, act, t, 0))
    BY <1>1, <1>3
  <2>3. {NoneDep} \subseteq 0 .. n + Len(<< >>) - 1 \cup {NoneDep}
    OBVIOUS
  <2>4. Appended(<< >>, n, AddOp({NoneDep}, act, t, 0), head)
    BY <2>1, <2>2, <2>3, AppendAdds
  <2>5. Len(<< >>) = 0 /\ 0 + 1 = 1
    OBVIOUS
  <2>6. AddsFrom(head, n) /\ Len(head) = 1 /\ head[1] = AddOp({NoneDep}, act, t, 0)
    BY <2>4, <2>5 DEF Appended
  <2>7. QED
    BY <2>6 DEF AddOp
<1>5. AddsFrom(mid, m) /\ Len(mid) \in Nat \ {0} /\ first = m + Len(mid) - 1 /\ n \in mid[Len(mid)].deps
  <2>1. tail[h][s] \subseteq 0 .. m - 1 /\ {n} \subseteq 0 .. m - 1 \cup {NoneDep}
    <3>1. 0 .. n - 1 \subseteq 0 .. m - 1 /\ n \in 0 .. m - 1
      BY <1>2
    <3>2. QED
      BY <3>1 DEF TailsBelow
  <2>2. mid = StreamOps(h, s, m, {n}, act, w) /\ first = StreamId(h, s, m)
    BY <1>2, <1>3
  <2>3. AddedLast(mid, m, {n}, act, first)
    BY <2>1, <2>2, StreamAdds
  <2>4. QED
    BY <2>3 DEF AddedLast
<1>6. first \in Nat /\ first = n + Len(mid)
  BY <1>2, <1>5
<1>7. AddsFrom(close, first + 1) /\ Len(close) = 3 /\ close[1].deps = {first} /\ close[2].deps = {first + 1}
  <2>1. ClosingAdded(close, first)
    BY <1>1, <1>6, ClosingAdds
  <2>2. QED
    BY <2>1 DEF ClosingAdded
<1>8. PICK q : q = head \o mid
  OBVIOUS
<1>9. /\ AddsFrom(q, n) /\ Len(q) = 1 + Len(mid)
      /\ q[1] = head[1] /\ \A i \in 1 .. Len(mid) : q[1 + i] = mid[i]
  <2>1. m = n + Len(head)
    BY <1>2, <1>4
  <2>2. Concatenated(head, mid, n, q)
    BY <1>4, <1>5, <1>8, <2>1, ConcatAdds
  <2>3. /\ AddsFrom(q, n) /\ Len(q) = Len(head) + Len(mid)
        /\ \A i \in 1 .. Len(head) : q[i] = head[i]
        /\ \A i \in 1 .. Len(mid) : q[Len(head) + i] = mid[i]
    BY <2>2 DEF Concatenated
  <2>4. Len(head) = 1 /\ 1 \in 1 .. Len(head)
    BY <1>4
  <2>5. \A i \in 1 .. Len(mid) : q[1 + i] = mid[i]
    BY <2>3, <2>4
  <2>6. QED
    BY <2>3, <2>4, <2>5
<1>10. /\ AddsFrom(p, n) /\ Len(p) = Len(q) + 3
       /\ \A i \in 1 .. Len(q) : p[i] = q[i]
       /\ \A i \in 1 .. 3 : p[Len(q) + i] = close[i]
  <2>1. PICK k \in Nat : k = first + 1
    BY <1>6
  <2>2. k = n + Len(q)
    BY <1>6, <1>9, <2>1
  <2>3. AddsFrom(close, k)
    BY <1>7, <2>1
  <2>4. p = q \o close
    BY <1>1, <1>8
  <2>5. Concatenated(q, close, n, p)
    BY <1>9, <2>2, <2>3, <2>4, ConcatAdds
  <2>6. QED
    BY <1>7, <2>5 DEF Concatenated
<1> PICK k \in Nat \ {0} : k = Len(mid)
  BY <1>5
<1>11. Len(q) = k + 1 /\ Len(p) = k + 4 /\ first = n + k
  <2>1. Len(q) = 1 + Len(mid) /\ Len(p) = Len(q) + 3
    BY <1>9, <1>10
  <2>2. QED
    BY <1>6, <2>1
<1>12. p[1].deps = {NoneDep}
  <2>1. 1 \in 1 .. Len(q)
    BY <1>11
  <2>2. p[1] = head[1]
    BY <1>9, <1>10, <2>1
  <2>3. QED
    BY <1>4, <2>2
<1>13. AddsEdge(p, n, n, first)
  <2> PICK i \in Nat : i = 1 + k
    OBVIOUS
  <2>1. i \in 1 .. Len(q) /\ i \in 1 .. Len(p) /\ first = n + i - 1
    <3>1. i \in 1 .. Len(q) /\ i \in 1 .. Len(p)
      BY <1>11
    <3>2. n + k = n + i - 1
      OBVIOUS
    <3>3. QED
      BY <1>11, <3>1, <3>2
  <2>2. k \in 1 .. Len(mid)
    OBVIOUS
  <2>3. p[i] = mid[k]
    BY <1>9, <1>10, <2>1, <2>2
  <2>4. QED
    BY <1>5, <2>1, <2>3 DEF AddsEdge
<1>14. AddsEdge(p, n, first, first + 1)
  <2>1. PICK i : i = Len(q) + 1 /\ i \in 1 .. Len(p) /\ first + 1 = n + i - 1
    BY <1>11
  <2>2. p[i] = close[1]
    <3>1. 1 \in 1 .. 3
      OBVIOUS
    <3>2. QED
      BY <1>10, <2>1, <3>1
  <2>3. QED
    BY <1>7, <2>1, <2>2 DEF AddsEdge
<1>15. AddsEdge(p, n, first + 1, first + 2)
  <2>1. PICK i : i = Len(q) + 2 /\ i \in 1 .. Len(p) /\ first + 2 = n + i - 1
    BY <1>11
  <2>2. p[i] = close[2]
    <3>1. 2 \in 1 .. 3
      OBVIOUS
    <3>2. QED
      BY <1>10, <2>1, <3>1
  <2>3. QED
    BY <1>7, <2>1, <2>2 DEF AddsEdge
<1>16. Len(p) \in Nat \ {0} /\ first \in Nat /\ n + Len(p) = first + 4
  <2>1. Len(p) \in Nat \ {0}
    BY <1>11
  <2>2. first \in Nat
    BY <1>6
  <2>3. n + Len(p) = n + (k + 4)
    BY <1>11
  <2>4. n + (k + 4) = (n + k) + 4
    OBVIOUS
  <2>5. QED
    BY <1>11, <2>1, <2>2, <2>3, <2>4
<1>17. QED
  BY <1>10, <1>12, <1>13, <1>14, <1>15, <1>16 DEF OpenAdded

\* The edges and the barrier a program is going to add.
LEMMA EdgeSoon ==
  ASSUME NEW n \in Nat, NEW p, AddsFrom(p, n), NEW num, num = NumbersFrom(p, n)
  PROVE  /\ \A d \in Nat : \A e : AddsEdge(p, n, d, e) => Edge(p, num, d, e)
         /\ 1 \in 1 .. Len(p) /\ p[1].deps = {NoneDep} => HeldSoon(p, num, n)
<1>1. \A i \in 1 .. Len(p) : p[i].op = "add" /\ num[i] = n + i - 1
  BY AddsNumbered DEF AddsFrom
<1>2. ASSUME NEW d \in Nat, NEW e, AddsEdge(p, n, d, e)
      PROVE  Edge(p, num, d, e)
  BY <1>1, <1>2 DEF AddsEdge, Edge
<1>3. ASSUME 1 \in 1 .. Len(p), p[1].deps = {NoneDep}
      PROVE  HeldSoon(p, num, n)
  <2>1. num[1] = n
    BY <1>1, <1>3
  <2>2. QED
    BY <1>1, <1>3, <2>1 DEF HeldSoon
<1>4. QED
  BY <1>2, <1>3

\* The points of the collectives that wait, between calls.
LEMMA WaitingBehind ==
  ASSUME HostsInv, call = NoCall, NEW i \in DOMAIN waitings, NEW n, n = cnt
  PROVE  /\ waitings[i] \in Waitings
         /\ Held(waitings[i].barrier) /\ waitings[i].barrier \in 0 .. n - 1
         /\ Behind(waitings[i].barrier, waitings[i].startMeta, waitings[i].endMeta)
         /\ waitings[i].startMeta \in 0 .. n - 1 /\ waitings[i].endMeta \in 0 .. n - 1
         /\ waitings[i].barrier \in Ids /\ waitings[i].startMeta \in Ids /\ waitings[i].endMeta \in Ids
         /\ \A j \in DOMAIN waitings : waitings[j].barrier = waitings[i].barrier => j = i
<1>1. HostsTypes /\ OrderInv
  BY DEF HostsInv
<1>2. waitings \in Seq(Waitings) /\ waitings[i] \in Range(waitings)
  BY <1>1 DEF HostsTypes, Range
<1>3. waitings[i] \in Waitings
  BY <1>2
<1>4. PICK pre : BuildInv(<< >>, pre)
  BY BetweenCalls
<1>5. PICK b, s, m : b = waitings[i].barrier /\ s = waitings[i].startMeta /\ m = waitings[i].endMeta
  OBVIOUS
<1>6. CollHeld(<< >>, pre)
  BY <1>4 DEF BuildInv
<1>7. /\ HeldSoon(<< >>, pre, b)
      /\ \E f : Edge(<< >>, pre, b, f) /\ Edge(<< >>, pre, f, s) /\ Edge(<< >>, pre, s, m)
  BY <1>2, <1>5, <1>6 DEF CollHeld
<1>8. Held(b)
  BY <1>7 DEF HeldSoon
<1>9. PICK f : /\ b \in Ids /\ f \in rev[b] /\ f \in Ids /\ s \in rev[f] /\ s \in Ids /\ m \in rev[s]
  BY <1>7 DEF Edge
<1>10. b \in 0 .. n - 1
  BY <1>1, <1>8, HostsFacts DEF Held
<1>11. rev[b] \subseteq Ids /\ rev[f] \subseteq 0 .. n - 1 /\ rev[s] \subseteq 0 .. n - 1 /\ rev[s] \subseteq Ids
  BY <1>1, <1>9, HostsFacts
<1>12. s \in 0 .. n - 1 /\ m \in 0 .. n - 1 /\ m \in Ids
  BY <1>9, <1>11
<1>13. Behind(b, s, m)
  BY <1>8, <1>9 DEF Behind
<1>14. \A j \in DOMAIN waitings : waitings[j].barrier = waitings[i].barrier => j = i
  BY <1>6 DEF CollHeld
<1>15. QED
  BY <1>3, <1>5, <1>8, <1>9, <1>10, <1>12, <1>13, <1>14

\* nccl_call by a host that opens a collective.
LEMMA OpenKeeps ==
  ASSUME HostsInv, HistoryTypes, NEW h \in Hosts, NEW s \in Streams,
         NcclOpen(h, s), Flushed(h, {s}), UNCHANGED idOf
  PROVE  HostsInv'
<1> PICK n : n = cnt
  OBVIOUS
<1>1. PICK first, t, w : first = StreamId(h, s, n + 1) /\ t = clock[h] /\ w = Len(work[h]) + 1
  OBVIOUS
<1>2. PICK mid, p : /\ mid = StreamOps(h, s, n + 1, {n}, Point, w)
                    /\ p = (<<AddOp({NoneDep}, Point, t, 0)>> \o mid) \o ClosingOps(first, t, w)
  OBVIOUS
<1>3. PICK r : r = [joined |-> {h}, barrier |-> n, startMeta |-> first + 1, endMeta |-> first + 2]
  OBVIOUS
<1>4. Async(h, p) /\ waitings' = Append(waitings, r) /\ Advance(h, s, first + 3)
  BY <1>1, <1>2, <1>3 DEF NcclOpen, ClosingOps
<1>5. Calls(h, p, "return", None) /\ call = NoCall /\ UNCHANGED vars
  BY <1>4, AsyncCalls DEF Calls, Call
<1>6. HostsTypes /\ n \in Nat /\ TailsBelow(n)
  BY <1>5, BetweenCalls
<1>7. t \in Nat /\ w \in Nat
  BY <1>1, <1>6, NextWork DEF HostsTypes
<1>8. OpenAdded(p, n, first)
  BY <1>1, <1>2, <1>6, <1>7, OpenAdds
<1>9. /\ AddsFrom(p, n) /\ Len(p) \in Nat \ {0} /\ first \in Nat /\ n + Len(p) = first + 4
      /\ p[1].deps = {NoneDep}
      /\ AddsEdge(p, n, n, first) /\ AddsEdge(p, n, first, first + 1)
      /\ AddsEdge(p, n, first + 1, first + 2)
  BY <1>8 DEF OpenAdded
<1>10. PICK num : num = NumbersFrom(p, n)
  OBVIOUS
<1>11. /\ waitings \in Seq(Waitings) /\ r \in Waitings
       /\ r.barrier = n /\ r.startMeta = first + 1 /\ r.endMeta = first + 2
  <2>1. PICK a, b : a = first + 1 /\ b = first + 2 /\ a \in Nat /\ b \in Nat
    BY <1>9
  <2>2. r = [joined |-> {h}, barrier |-> n, startMeta |-> a, endMeta |-> b]
    BY <1>3, <2>1
  <2>3. r \in Waitings /\ r.barrier = n /\ r.startMeta = a /\ r.endMeta = b
    BY <1>6, <2>1, <2>2 DEF Waitings
  <2>4. QED
    BY <1>6, <2>1, <2>3 DEF HostsTypes
<1>12. Len(waitings) \in Nat
  BY <1>11
<1>13. waitings' \in Seq(Waitings)
  BY <1>4, <1>11
<1>14. /\ DOMAIN waitings = 1 .. Len(waitings) /\ DOMAIN waitings' = 1 .. Len(waitings) + 1
       /\ \A i \in 1 .. Len(waitings) : waitings'[i] = waitings[i]
       /\ waitings'[Len(waitings) + 1] = r
  BY <1>4, <1>11
<1>15. CollHeld(p, num)'
  <2>1. PICK W : W = Range(waitings)
    OBVIOUS
  <2>2. \A v \in W : \E x \in Range(waitings) : SameEvents(v, x)
    BY <2>1 DEF SameEvents
  <2>3. \A v \in W :
           /\ HeldSoon(p, num, v.barrier)'
           /\ \E f : /\ Edge(p, num, v.barrier, f)' /\ Edge(p, num, f, v.startMeta)'
                     /\ Edge(p, num, v.startMeta, v.endMeta)'
    BY <1>5, <2>2, CollSame
  <2>4. /\ HeldSoon(p, num, n)'
        /\ \E f : Edge(p, num, n, f)' /\ Edge(p, num, f, first + 1)' /\ Edge(p, num, first + 1, first + 2)'
    <3>1. PICK a, b : a = first + 1 /\ b = first + 2 /\ a \in Nat
      BY <1>9
    <3>2. AddsEdge(p, n, n, first) /\ AddsEdge(p, n, first, a) /\ AddsEdge(p, n, a, b)
      BY <1>9, <3>1
    <3>3. 1 \in 1 .. Len(p)
      BY <1>9
    <3>4. Edge(p, num, n, first) /\ Edge(p, num, first, a) /\ Edge(p, num, a, b) /\ HeldSoon(p, num, n)
      BY <1>6, <1>9, <1>10, <3>1, <3>2, <3>3, EdgeSoon
    <3>5. Grows(p, num, p, num, {})
      BY <1>5, <1>6, SameGrows
    <3>6. /\ Edge(p, num, n, first)' /\ Edge(p, num, first, a)' /\ Edge(p, num, a, b)'
          /\ HeldSoon(p, num, n)'
      BY <3>4, <3>5 DEF Grows
    <3>7. QED
      BY <3>1, <3>6
  <2>5. \A v \in Range(waitings)' : v \in W \/ v = r
    <3>1. ASSUME NEW i \in DOMAIN waitings'
          PROVE  waitings'[i] \in W \/ waitings'[i] = r
      <4>1. CASE i \in 1 .. Len(waitings)
        BY <1>14, <2>1, <4>1 DEF Range
      <4>2. CASE i \notin 1 .. Len(waitings)
        BY <1>12, <1>14, <4>2
      <4>3. QED
        BY <4>1, <4>2
    <3>2. QED
      BY <3>1 DEF Range
  <2>6. \A v \in Range(waitings)' :
           /\ HeldSoon(p, num, v.barrier)'
           /\ \E f : /\ Edge(p, num, v.barrier, f)' /\ Edge(p, num, f, v.startMeta)'
                     /\ Edge(p, num, v.startMeta, v.endMeta)'
    <3>1. ASSUME NEW v, v = r
          PROVE  /\ HeldSoon(p, num, v.barrier)'
                 /\ \E f : /\ Edge(p, num, v.barrier, f)' /\ Edge(p, num, f, v.startMeta)'
                           /\ Edge(p, num, v.startMeta, v.endMeta)'
      <4>1. v.barrier = n /\ v.startMeta = first + 1 /\ v.endMeta = first + 2
        BY <1>11, <3>1
      <4>2. QED
        BY <2>4, <4>1
    <3>2. QED
      BY <2>3, <2>5, <3>1
  <2>7. ASSUME NEW i \in DOMAIN waitings', NEW j \in DOMAIN waitings',
               waitings'[i].barrier = waitings'[j].barrier
        PROVE  i = j
    <3>1. \A k \in 1 .. Len(waitings) : waitings[k].barrier # n
      BY <1>5, <1>6, <1>14, WaitingBehind
    <3>2. CASE i \in 1 .. Len(waitings) /\ j \in 1 .. Len(waitings)
      BY <1>5, <1>14, <2>7, <3>2, WaitingBehind
    <3>3. CASE i \in 1 .. Len(waitings) /\ j \notin 1 .. Len(waitings)
      <4>1. j = Len(waitings) + 1
        BY <1>12, <1>14, <3>3
      <4>2. QED
        BY <1>11, <1>14, <2>7, <3>1, <3>3, <4>1
    <3>4. CASE i \notin 1 .. Len(waitings) /\ j \in 1 .. Len(waitings)
      <4>1. i = Len(waitings) + 1
        BY <1>12, <1>14, <3>4
      <4>2. QED
        BY <1>11, <1>14, <2>7, <3>1, <3>4, <4>1
    <3>5. CASE i \notin 1 .. Len(waitings) /\ j \notin 1 .. Len(waitings)
      BY <1>12, <1>14, <3>5
    <3>6. QED
      BY <3>2, <3>3, <3>4, <3>5
  <2>8. QED
    BY <2>6, <2>7 DEF CollHeld
<1>16. tail' \in [Hosts -> [Streams -> SUBSET Nat]] /\ TailsBelow(n + Len(p))'
  <2>1. PICK m \in Nat, id \in Nat : m = n + Len(p) /\ id = first + 3
    BY <1>6, <1>9
  <2>2. n <= m /\ id < m
    <3>1. m = first + 4
      BY <1>9, <2>1
    <3>2. QED
      BY <1>6, <1>9, <2>1, <3>1
  <2>3. Advance(h, s, id)
    BY <1>4, <2>1
  <2>4. tail' \in [Hosts -> [Streams -> SUBSET Nat]] /\ TailsBelow(m)'
    BY <1>6, <2>2, <2>3, AdvanceTypes
  <2>5. QED
    BY <2>1, <2>4 DEF TailsBelow
<1>17. buffered' \in [Hosts -> [Streams -> Seq(BufferedCalls)]]
  BY <1>6, FlushedTypes
<1>18. DOMAIN idOf' = Hosts /\ OwnAdded(h, p, n)
  BY <1>6, OwnSame
<1>19. AboutAdded(h, p, n, "return", None)
  BY DEF AboutAdded
<1>20. QED
  BY <1>5, <1>9, <1>10, <1>13, <1>15, <1>16, <1>17, <1>18, <1>19, AddsCall

\* p makes the queue's next id m where it was n, adds edges only to the events in
\* S, and may release barrier b, last.
Joins(p, n, m, S, b) ==
  /\ p \in Seq(Operations)
  /\ \E num : Numbered(p, n, num) /\ OpsKnown(p, num) /\ num[Len(p) + 1] = m
  /\ \A i \in 1 .. Len(p) : \/ p[i].op = "add"
                            \/ p[i].op = "edge" /\ p[i].id \in S
                            \/ p[i].op = "release" /\ p[i].id = b /\ i = Len(p)

\* A piece, alone or with the release at the end.
LEMMA PieceJoins ==
  ASSUME NEW n \in Nat, NEW m \in Nat, NEW p, NEW S, Piece(p, n, m, S), NEW b \in Nat
  PROVE  /\ Joins(p, n, m, S, b) /\ \A i \in 1 .. Len(p) : p[i].op # "release"
         /\ \A q : q = p \o <<ReleaseOp(b)>> => Joins(q, n, m, S, b)
<1>1. p \in Seq(Operations) /\ Len(p) \in Nat
  BY DEF Piece
<1>2. PICK a : Numbered(p, n, a) /\ OpsKnown(p, a) /\ a[Len(p) + 1] = m
  BY DEF Piece
<1>3. \A i \in 1 .. Len(p) : p[i].op = "add" \/ (p[i].op = "edge" /\ p[i].id \in S)
  BY DEF Piece
<1>4. Joins(p, n, m, S, b)
  BY <1>1, <1>2, <1>3 DEF Joins
<1>5. ASSUME NEW q, q = p \o <<ReleaseOp(b)>>
      PROVE  Joins(q, n, m, S, b)
  <2> PICK o : o = ReleaseOp(b)
    OBVIOUS
  <2>1. o.op = "release" /\ o.id = b /\ o \in Operations
    BY DEF ReleaseOp, Operations
  <2>2. /\ q \in Seq(Operations) /\ Len(q) = Len(p) + 1 /\ q[Len(p) + 1] = o
        /\ \A i \in 1 .. Len(p) : q[i] = p[i]
    BY <1>1, <1>5, <2>1
  <2>3. PICK num : num = [i \in 1 .. Len(q) + 1 |-> IF i <= Len(p) + 1 THEN a[i] ELSE m]
    OBVIOUS
  <2>4. /\ a \in [1 .. Len(p) + 1 -> Nat] /\ a[1] = n
        /\ \A i \in 1 .. Len(p) : a[i + 1] = IF p[i].op = "add" THEN a[i] + 1 ELSE a[i]
    BY <1>2 DEF Numbered
  <2>5. \A i \in 1 .. Len(p) + 1 : num[i] = a[i]
    BY <1>1, <2>2, <2>3
  <2>6. num[Len(q) + 1] = m
    <3>1. Len(q) + 1 \in 1 .. Len(q) + 1 /\ ~ (Len(q) + 1 <= Len(p) + 1)
      BY <1>1, <2>2
    <3>2. QED
      BY <2>3, <3>1
  <2>7. num \in [1 .. Len(q) + 1 -> Nat]
    BY <1>1, <2>2, <2>3, <2>4
  <2>8. num[1] = n
    BY <1>1, <2>4, <2>5
  <2>9. ASSUME NEW i \in 1 .. Len(q)
        PROVE  /\ num[i + 1] = IF q[i].op = "add" THEN num[i] + 1 ELSE num[i]
               /\ q[i].op = "add" => q[i].deps \subseteq 0 .. num[i] - 1 \cup {NoneDep}
               /\ \/ q[i].op = "add"
                  \/ q[i].op = "edge" /\ q[i].id \in S
                  \/ q[i].op = "release" /\ q[i].id = b /\ i = Len(q)
    <3>1. CASE i \in 1 .. Len(p)
      <4>1. i \in 1 .. Len(p) + 1 /\ i + 1 \in 1 .. Len(p) + 1
        BY <1>1, <3>1
      <4>2. num[i] = a[i] /\ num[i + 1] = a[i + 1] /\ q[i] = p[i]
        BY <2>2, <2>5, <3>1, <4>1
      <4>3. QED
        BY <1>2, <1>3, <2>4, <3>1, <4>2 DEF OpsKnown
    <3>2. CASE i \notin 1 .. Len(p)
      <4>1. i = Len(p) + 1 /\ i = Len(q) /\ i \in 1 .. Len(p) + 1
        BY <1>1, <2>2, <3>2
      <4>2. num[i] = m /\ num[i + 1] = m
        BY <1>2, <2>5, <2>6, <4>1
      <4>3. q[i].op = "release" /\ q[i].id = b
        BY <2>1, <2>2, <4>1
      <4>4. QED
        BY <4>1, <4>2, <4>3
    <3>3. QED
      BY <3>1, <3>2
  <2>10. Numbered(q, n, num) /\ OpsKnown(q, num)
    BY <2>7, <2>8, <2>9 DEF Numbered, OpsKnown
  <2>11. QED
    BY <2>2, <2>6, <2>9, <2>10 DEF Joins
<1>6. QED
  BY <1>3, <1>4, <1>5

\* The collectives that wait are those that waited, and not the ones in gone.
Remain(gone) ==
  \E from : /\ \A j \in DOMAIN waitings' : /\ from[j] \in DOMAIN waitings /\ from[j] \notin gone
                                           /\ SameEvents(waitings'[j], waitings[from[j]])
            /\ \A j, l \in DOMAIN waitings' : from[j] = from[l] => j = l

\* What that means for their barriers.
LEMMA RemainBarriers ==
  ASSUME HostsInv, call = NoCall, NEW gone \in SUBSET DOMAIN waitings, Remain(gone)
  PROVE  /\ \A v \in Range(waitings)' : \E x \in Range(waitings) : SameEvents(v, x)
         /\ \A j, l \in DOMAIN waitings' : waitings'[j].barrier = waitings'[l].barrier => j = l
         /\ \A i \in gone : \A j \in DOMAIN waitings' : waitings'[j].barrier # waitings[i].barrier
<1>1. PICK from : /\ \A j \in DOMAIN waitings' : /\ from[j] \in DOMAIN waitings /\ from[j] \notin gone
                                                 /\ SameEvents(waitings'[j], waitings[from[j]])
                  /\ \A j, l \in DOMAIN waitings' : from[j] = from[l] => j = l
  BY DEF Remain
<1>2. PICK new : new = waitings'
  OBVIOUS
<1>3. \A j \in DOMAIN new : new[j].barrier = waitings[from[j]].barrier
  BY <1>1, <1>2 DEF SameEvents
<1>4. \A i, j \in DOMAIN waitings : waitings[i].barrier = waitings[j].barrier => i = j
  BY WaitingBehind
<1>5. \A v \in Range(new) : \E x \in Range(waitings) : SameEvents(v, x)
  <2>1. ASSUME NEW j \in DOMAIN new
        PROVE  \E x \in Range(waitings) : SameEvents(new[j], x)
    BY <1>1, <1>2 DEF Range
  <2>2. QED
    BY <2>1 DEF Range
<1>6. \A j, l \in DOMAIN new : new[j].barrier = new[l].barrier => j = l
  BY <1>1, <1>2, <1>3, <1>4
<1>7. \A i \in gone : \A j \in DOMAIN new : new[j].barrier # waitings[i].barrier
  BY <1>1, <1>2, <1>3, <1>4
<1>8. QED
  BY <1>2, <1>5, <1>6, <1>7 DEF Range

\* p releases nothing, unless the collectives in gone are gone.
ReleasesGone(p, i, gone) ==
  gone \subseteq {i} /\ (i \in gone \/ \A l \in 1 .. Len(p) : p[l].op # "release")

\* A call that joins a collective, which waits no more if it is released.
LEMMA JoinCall ==
  ASSUME HostsInv, NEW h, NEW i \in DOMAIN waitings, NEW c, c = waitings[i],
         NEW p, Calls(h, p, "return", None), NEW n, n = cnt, NEW k \in Nat, n <= k,
         NEW S, S = {c.startMeta, c.endMeta}, Joins(p, n, k, S, c.barrier),
         NEW gone, ReleasesGone(p, i, gone), Remain(gone), waitings' \in Seq(Waitings),
         tail' \in [Hosts -> [Streams -> SUBSET Nat]], TailsBelow(k)',
         buffered' \in [Hosts -> [Streams -> Seq(BufferedCalls)]], UNCHANGED idOf
  PROVE  HostsInv'
<1>1. call = NoCall /\ UNCHANGED vars
  BY DEF Calls, Call
<1>2. /\ OrderInv /\ HostsTypes /\ n \in Nat
      /\ \A g \in Hosts : OwnIds(g) \subseteq 0 .. n - 1
  BY <1>1, BetweenCalls
<1>3. PICK num : Numbered(p, n, num) /\ OpsKnown(p, num) /\ num[Len(p) + 1] = k
  BY DEF Joins
<1>4. p \in Seq(Operations)
  BY DEF Joins
<1>5. PICK b, s, m : b = c.barrier /\ s = c.startMeta /\ m = c.endMeta
  OBVIOUS
<1> gone \in SUBSET DOMAIN waitings
  BY DEF ReleasesGone
<1>16. \A v \in Range(waitings)' : \E x \in Range(waitings) : SameEvents(v, x)
  BY <1>1, RemainBarriers
<1>17. \A j, l \in DOMAIN waitings' : waitings'[j].barrier = waitings'[l].barrier => j = l
  BY <1>1, RemainBarriers
<1>18. i \in gone => \A j \in DOMAIN waitings' : waitings'[j].barrier # b
  BY <1>1, <1>5, RemainBarriers
<1>6. Behind(b, s, m) /\ b \in Ids /\ s \in Ids /\ m \in Ids
  BY <1>1, <1>5, WaitingBehind
<1>7. Behind(b, s, m)'
  <2>1. UNCHANGED <<pending, rev>>
    BY <1>1 DEF vars, queueVars
  <2>2. QED
    BY <1>6, <2>1 DEF Behind, Held
<1>8. OpsGuarded(p)'
  <2>1. ASSUME NEW l \in 1 .. Len(p), p[l].op = "edge"
        PROVE  p[l].id \in {s, m}
    BY <1>5, <2>1 DEF Joins
  <2>2. ASSUME NEW l \in 1 .. Len(p), p[l].op = "release"
        PROVE  p[l].id = b /\ l = Len(p) /\ \A j \in DOMAIN waitings' : waitings'[j].barrier # b
    <3>1. p[l].id = b /\ l = Len(p)
      BY <1>5, <2>2 DEF Joins
    <3>2. i \in gone
      BY <2>2 DEF ReleasesGone
    <3>3. QED
      BY <1>18, <3>1, <3>2
  <2>3. QED
    BY <1>6, <1>7, <2>1, <2>2 DEF OpsGuarded
<1>9. CollHeld(p, num)'
  <2>1. PICK W : W = Range(waitings)'
    OBVIOUS
  <2>2. \A v \in W :
           /\ HeldSoon(p, num, v.barrier)'
           /\ \E f : /\ Edge(p, num, v.barrier, f)' /\ Edge(p, num, f, v.startMeta)'
                     /\ Edge(p, num, v.startMeta, v.endMeta)'
    BY <1>1, <1>16, <2>1, CollSame
  <2>3. QED
    BY <1>17, <2>1, <2>2 DEF CollHeld
<1>10. \A g : OwnIds(g)' = OwnIds(g)
  BY DEF OwnIds
<1>11. TailsKnown(num[Len(p) + 1])'
  <2>1. \A g \in Hosts : OwnIds(g)' \subseteq 0 .. k - 1
    <3>1. 0 .. n - 1 \subseteq 0 .. k - 1
      BY <1>2
    <3>2. QED
      BY <1>2, <1>10, <3>1
  <2>2. TailsKnown(k)'
    BY <2>1 DEF TailsKnown, TailsBelow
  <2>3. QED
    BY <1>3, <2>2
<1>12. OwnGrow(h, p, num, n)
  BY <1>10 DEF OwnGrow
<1>13. AboutGrow(h, p, num, n, "return", None)
  BY DEF AboutGrow
<1>14. DOMAIN idOf' = Hosts
  BY <1>2 DEF HostsTypes
<1>15. QED
  BY <1>3, <1>4, <1>8, <1>9, <1>11, <1>12, <1>13, <1>14, CallKeeps

\* A function on 1 .. N is a sequence; two one-element sequences make a pair.
LEMMA FunctionSeq ==
  ASSUME NEW N \in Nat, NEW S, NEW f \in [1 .. N -> S]
  PROVE  f \in Seq(S) /\ Len(f) = N
OBVIOUS

LEMMA PairSeq ==
  ASSUME NEW x, NEW y
  PROVE  <<x>> \o <<y>> = <<x, y>>
<1>1. PICK S : S = {x, y}
  OBVIOUS
<1>2. <<x>> \in Seq(S) /\ <<y>> \in Seq(S) /\ <<x, y>> \in Seq(S)
  BY <1>1
<1>3. Len(<<x>>) = 1 /\ Len(<<y>>) = 1 /\ <<x>>[1] = x /\ <<y>>[1] = y
  OBVIOUS
<1>4. /\ <<x>> \o <<y>> \in Seq(S) /\ Len(<<x>> \o <<y>>) = 2
      /\ (<<x>> \o <<y>>)[1] = x /\ (<<x>> \o <<y>>)[2] = y
  BY <1>2, <1>3
<1>5. PICK p, q : p = <<x>> \o <<y>> /\ q = <<x, y>>
  OBVIOUS
<1>6. p \in [1 .. 2 -> S] /\ q \in [1 .. 2 -> S] /\ p[1] = q[1] /\ p[2] = q[2]
  <2>1. p \in Seq(S) /\ Len(p) = 2 /\ q \in Seq(S) /\ Len(q) = 2
    BY <1>2, <1>4, <1>5
  <2>2. p \in [1 .. 2 -> S] /\ q \in [1 .. 2 -> S]
    BY <2>1
  <2>3. q[1] = x /\ q[2] = y
    BY <1>5
  <2>4. QED
    BY <1>4, <1>5, <2>2, <2>3
<1>7. \A i \in 1 .. 2 : p[i] = q[i]
  BY <1>6
<1>8. p = q
  BY <1>6, <1>7
<1>9. QED
  BY <1>5, <1>8

\* Events that there are before event n.
Below(S, n) == S \subseteq 0 .. n - 1

\* What a host adds of a collective it joins: an edge to its start meta point,
\* and its own end after the end meta point.
LinkOps(sm, em, first, t, w) == <<EdgeOp(sm, first), AddOp({em, first}, Point, t, w)>>

\* What it adds of a collective that all have joined: flows and their edges.
FlowOps(N, sm, t)       == [f \in 1 .. N |-> AddOp({sm}, Comm, t, 0)]
RingOps(N, em, first)   == [f \in 1 .. N |-> EdgeOp(em, first + 1 + f)]
OwnJoined(p, n, first, S) ==
  first \in Nat /\ \E k \in Nat : k = first + 2 /\ n <= k /\ Piece(p, n, k, S)

\* What a host adds of a collective it joins.
LEMMA OwnPiece ==
  ASSUME HostsTypes, NEW h \in Hosts, NEW s \in Streams, NEW n \in Nat, TailsBelow(n),
         NEW t \in Nat, NEW w \in Nat, NEW b, NEW sm, NEW em, Below({b, sm, em}, n),
         NEW mid, mid = StreamOps(h, s, n, {b}, Point, w), NEW first, first = StreamId(h, s, n),
         NEW p, p = mid \o LinkOps(sm, em, first, t, w), NEW S, S = {sm, em}
  PROVE  OwnJoined(p, n, first, S)
<1>1. PICK act \in Actions : act = Point
  BY CallActions
<1>b. b \in 0 .. n - 1 /\ sm \in 0 .. n - 1 /\ em \in 0 .. n - 1
  BY DEF Below
<1> PICK k : k = first + 2
  OBVIOUS
<1>2. AddsFrom(mid, n) /\ Len(mid) \in Nat \ {0} /\ first = n + Len(mid) - 1 /\ first \in Nat /\ first >= n
  <2>1. tail[h][s] \subseteq 0 .. n - 1 /\ {b} \subseteq 0 .. n - 1 \cup {NoneDep}
    BY <1>b DEF TailsBelow
  <2>2. mid = StreamOps(h, s, n, {b}, act, w)
    BY <1>1
  <2>3. AddedLast(mid, n, {b}, act, first)
    BY <2>1, <2>2, StreamAdds
  <2>4. QED
    BY <2>3 DEF AddedLast
<1>3. PICK j \in Nat : j = first + 1
  BY <1>2
<1>4. k \in Nat /\ n <= k /\ k = j + 1
  BY <1>2, <1>3
<1>5. Piece(mid, n, j, S)
  <2>1. n + Len(mid) = j
    BY <1>2, <1>3
  <2>2. Piece(mid, n, n + Len(mid), S)
    BY <1>2, AddsPiece
  <2>3. QED
    BY <2>1, <2>2
<1>6. PICK x, y : x = EdgeOp(sm, first) /\ y = AddOp({em, first}, act, t, w)
  OBVIOUS
<1>7. Piece(<<x>>, j, j, S)
  <2>1. sm \in Nat
    BY <1>b
  <2>2. x \in Operations /\ x.op = "edge" /\ x.id = sm
    BY <1>2, <1>6, <2>1 DEF EdgeOp, Operations
  <2>3. <<x>> \in Seq(Operations) /\ Len(<<x>>) = 1 /\ <<x>>[1] = x
    BY <2>2
  <2>4. \A i \in 1 .. Len(<<x>>) : <<x>>[i].op = "edge" /\ <<x>>[i].id \in S
    BY <1>1, <2>2, <2>3
  <2>5. QED
    BY <1>3, <2>3, <2>4, EdgesPiece
<1>8. Piece(<<y>>, j, k, S)
  <2>1. PICK deps, z : deps = {em, first} /\ z = <<y>>
    OBVIOUS
  <2>2. deps \subseteq 0 .. j + Len(<< >>) - 1 \cup {NoneDep}
    <3>1. j + Len(<< >>) - 1 = first
      BY <1>2, <1>3
    <3>2. em \in 0 .. first /\ first \in 0 .. first
      BY <1>2, <1>b
    <3>3. QED
      BY <2>1, <3>1, <3>2
  <2>3. z = Append(<< >>, AddOp(deps, act, t, w))
    BY <1>6, <2>1
  <2>4. AddsFrom(<< >>, j)
    BY EmptyAdds
  <2>5. Appended(<< >>, j, AddOp(deps, act, t, w), z)
    BY <1>3, <2>2, <2>3, <2>4, AppendAdds
  <2>6. AddsFrom(z, j)
    BY <2>5 DEF Appended
  <2>7. Piece(z, j, j + Len(z), S)
    BY <1>3, <2>6, AddsPiece
  <2>8. Len(z) = 1
    BY <2>1
  <2>9. QED
    BY <1>4, <2>1, <2>7, <2>8
<1>9. Piece(<<x>> \o <<y>>, j, k, S)
  BY <1>3, <1>4, <1>7, <1>8, ConcatPieces
<1>10. <<x>> \o <<y>> = <<x, y>>
  BY PairSeq
<1>11. Piece(<<x, y>>, j, k, S)
  BY <1>9, <1>10
<1>12. Piece(mid \o <<x, y>>, n, k, S)
  BY <1>3, <1>4, <1>5, <1>11, ConcatPieces
<1>13. p = mid \o <<x, y>>
  BY <1>1, <1>6 DEF LinkOps
<1>14. Piece(p, n, k, S)
  BY <1>12, <1>13
<1>15. QED
  BY <1>2, <1>4, <1>14 DEF OwnJoined

RingAdded(p, n, k, S) == \E m \in Nat : k <= m /\ Piece(p, n, m, S)

\* What the last host to join adds after its own events: the flows of the ring.
LEMMA RingPiece ==
  ASSUME NEW n \in Nat, NEW own, NEW S, NEW k \in Nat, Piece(own, n, k, S), NEW N \in Nat,
         NEW sm, Below({sm}, k), NEW em \in Nat, em \in S, NEW t \in Nat, NEW first \in Nat,
         NEW flow, flow = FlowOps(N, sm, t), NEW link, link = RingOps(N, em, first),
         NEW p, p = (own \o flow) \o link
  PROVE  RingAdded(p, n, k, S)
<1> PICK m \in Nat : m = k + N
  OBVIOUS
<1>b. sm \in 0 .. k - 1
  BY DEF Below
<1>1. m \in Nat /\ k <= m
  OBVIOUS
<1>2. Piece(flow, k, m, S)
  <2>1. PICK o : o = AddOp({sm}, Comm, t, 0)
    OBVIOUS
  <2>2. o \in Operations /\ o.op = "add" /\ o.deps = {sm}
    <3>1. {sm} \in SUBSET (Nat \cup {NoneDep})
      BY <1>b
    <3>2. PICK act \in Actions : act = Comm
      BY CallActions
    <3>3. o = AddOp({sm}, act, t, 0)
      BY <2>1, <3>2
    <3>4. QED
      BY <3>1, <3>3 DEF AddOp, Operations
  <2>3. flow = [f \in 1 .. N |-> o]
    BY <2>1 DEF FlowOps
  <2>4. flow \in Seq(Operations) /\ Len(flow) = N /\ \A i \in 1 .. N : flow[i] = o
    <3>1. flow \in [1 .. N -> Operations] /\ \A i \in 1 .. N : flow[i] = o
      BY <2>2, <2>3
    <3>2. QED
      BY <3>1, FunctionSeq
  <2>5. ASSUME NEW i \in 1 .. Len(flow)
        PROVE  flow[i].op = "add" /\ flow[i].deps \subseteq 0 .. k + i - 2 \cup {NoneDep}
    <3>1. i \in 1 .. N /\ flow[i] = o
      BY <2>4
    <3>2. k - 1 <= k + i - 2
      BY <3>1
    <3>3. sm \in 0 .. k + i - 2
      BY <1>b, <3>1, <3>2
    <3>4. QED
      BY <2>2, <3>1, <3>3
  <2>6. AddsFrom(flow, k)
    BY <2>4, <2>5 DEF AddsFrom
  <2>7. Piece(flow, k, k + Len(flow), S)
    BY <2>6, AddsPiece
  <2>8. QED
    BY <2>4, <2>7
<1>3. Piece(link, m, m, S)
  <2>1. ASSUME NEW f \in 1 .. N
        PROVE  link[f] \in Operations /\ link[f].op = "edge" /\ link[f].id = em
    <3>1. PICK d \in Nat : d = first + 1 + f
      OBVIOUS
    <3>2. link[f] = EdgeOp(em, d)
      BY <3>1 DEF RingOps
    <3>3. QED
      BY <3>2 DEF EdgeOp, Operations
  <2>2. link \in Seq(Operations) /\ Len(link) = N
    <3>1. DOMAIN link = 1 .. N /\ link = [f \in 1 .. N |-> link[f]]
      BY DEF RingOps
    <3>2. link \in [1 .. N -> Operations]
      BY <2>1, <3>1
    <3>3. QED
      BY <3>2, FunctionSeq
  <2>3. QED
    BY <1>1, <2>1, <2>2, EdgesPiece
<1>4. Piece(own \o flow, n, m, S)
  BY <1>1, <1>2, ConcatPieces
<1>5. PICK q : q = own \o flow
  OBVIOUS
<1>6. Piece(q \o link, n, m, S)
  BY <1>1, <1>3, <1>4, <1>5, ConcatPieces
<1>7. QED
  BY <1>1, <1>5, <1>6 DEF RingAdded

\* A sequence without its element i.
Removed(q, i, r) ==
  /\ Len(r) = Len(q) - 1
  /\ \A j \in 1 .. Len(r) : (j < i => j \in DOMAIN q /\ j # i /\ r[j] = q[j])
                            /\ (j >= i => j + 1 \in DOMAIN q /\ j + 1 # i /\ r[j] = q[j + 1])

LEMMA RemoveOne ==
  ASSUME NEW S, NEW q \in Seq(S), NEW i \in DOMAIN q, NEW r, r = RemoveAt(q, i)
  PROVE  r \in Seq(S) /\ Removed(q, i, r)
<1>1. Len(q) \in Nat /\ i \in 1 .. Len(q) /\ DOMAIN q = 1 .. Len(q)
  OBVIOUS
<1>2. PICK a, b : a = SubSeq(q, 1, i - 1) /\ b = SubSeq(q, i + 1, Len(q))
  OBVIOUS
<1>3. a \in Seq(S) /\ Len(a) = i - 1 /\ \A j \in 1 .. i - 1 : a[j] = q[j]
  <2>1. \A j \in 1 .. i - 1 : q[j] \in S
    BY <1>1
  <2>2. QED
    BY <1>1, <1>2, <2>1
<1>4. b \in Seq(S) /\ Len(b) = Len(q) - i /\ \A j \in 1 .. Len(q) - i : b[j] = q[i + j]
  <2>1. \A j \in i + 1 .. Len(q) : q[j] \in S
    BY <1>1
  <2>2. QED
    BY <1>1, <1>2, <2>1
<1>5. r = a \o b
  BY <1>2 DEF RemoveAt
<1>6. /\ r \in Seq(S) /\ Len(r) = Len(a) + Len(b)
      /\ \A j \in 1 .. Len(r) : j <= Len(a) => r[j] = a[j]
      /\ \A j \in 1 .. Len(r) : j > Len(a) => r[j] = b[j - Len(a)]
  <2>1. a \in Seq(S) /\ b \in Seq(S) /\ Len(a) \in Nat /\ Len(b) \in Nat
    BY <1>3, <1>4
  <2>2. r \in Seq(S) /\ Len(r) = Len(a) + Len(b)
    BY <1>5, <2>1
  <2>3. \A j \in 1 .. Len(r) : r[j] = IF j <= Len(a) THEN a[j] ELSE b[j - Len(a)]
    BY <1>5, <2>1, <2>2
  <2>4. \A j \in 1 .. Len(r) : j > Len(a) => ~ (j <= Len(a))
    BY <2>1
  <2>5. QED
    BY <2>2, <2>3, <2>4
<1>7. Len(r) = Len(q) - 1
  BY <1>1, <1>3, <1>4, <1>6
<1>8. ASSUME NEW j \in 1 .. Len(r), j < i
      PROVE  j \in DOMAIN q /\ j # i /\ r[j] = q[j]
  <2>1. j \in 1 .. i - 1 /\ j <= Len(a) /\ j \in 1 .. Len(q) /\ j # i
    BY <1>1, <1>3, <1>7, <1>8
  <2>2. QED
    BY <1>1, <1>3, <1>6, <2>1
<1>9. ASSUME NEW j \in 1 .. Len(r), j >= i
      PROVE  j + 1 \in DOMAIN q /\ j + 1 # i /\ r[j] = q[j + 1]
  <2>1. /\ j > Len(a) /\ j + 1 \in 1 .. Len(q) /\ j + 1 # i
        /\ j - Len(a) \in 1 .. Len(q) - i /\ i + (j - Len(a)) = j + 1
    BY <1>1, <1>3, <1>7, <1>9
  <2>2. r[j] = b[j - Len(a)] /\ b[j - Len(a)] = q[i + (j - Len(a))]
    BY <1>4, <1>6, <2>1
  <2>3. QED
    BY <1>1, <2>1, <2>2
<1>10. QED
  BY <1>6, <1>7, <1>8, <1>9 DEF Removed

\* What a joining host leaves of the collectives.
LEMMA JoinRemains ==
  ASSUME HostsTypes, NEW h \in Hosts, NEW i \in DOMAIN waitings
  PROVE  /\ waitings' = RemoveAt(waitings, i) => waitings' \in Seq(Waitings) /\ Remain({i})
         /\ waitings' = [waitings EXCEPT ![i].joined = @ \cup {h}]
              => waitings' \in Seq(Waitings) /\ Remain({})
<1>1. waitings \in Seq(Waitings)
  BY DEF HostsTypes
<1>2. Len(waitings) \in Nat /\ DOMAIN waitings = 1 .. Len(waitings)
  BY <1>1
<1>3. ASSUME waitings' = RemoveAt(waitings, i)
      PROVE  waitings' \in Seq(Waitings) /\ Remain({i})
  <2>1. PICK new : new = waitings'
    OBVIOUS
  <2>2. new \in Seq(Waitings) /\ Removed(waitings, i, new)
    BY <1>1, <1>3, <2>1, RemoveOne
  <2>3. DOMAIN new = 1 .. Len(new) /\ Len(new) \in Nat
    BY <2>2
  <2>4. PICK from : from = [j \in DOMAIN new |-> IF j < i THEN j ELSE j + 1]
    OBVIOUS
  <2>5. ASSUME NEW j \in DOMAIN new
        PROVE  from[j] \in DOMAIN waitings /\ from[j] # i /\ new[j] = waitings[from[j]]
    <3>1. i \in Nat /\ j \in 1 .. Len(new)
      BY <1>2, <2>3
    <3>2. CASE j < i
      BY <2>2, <2>4, <3>1, <3>2 DEF Removed
    <3>3. CASE ~ (j < i)
      <4>1. j >= i /\ from[j] = j + 1
        BY <2>4, <3>1, <3>3
      <4>2. QED
        BY <2>2, <3>1, <4>1 DEF Removed
    <3>4. QED
      BY <3>2, <3>3
  <2>6. ASSUME NEW j \in DOMAIN new, NEW l \in DOMAIN new, from[j] = from[l]
        PROVE  j = l
    <3>1. i \in Nat /\ j \in Nat /\ l \in Nat
      BY <1>2, <2>3
    <3>2. (j < i \/ j >= i) /\ (l < i \/ l >= i)
      BY <3>1
    <3>3. CASE j < i /\ l < i
      BY <2>4, <2>6, <3>3
    <3>4. CASE j >= i /\ l >= i
      <4>1. from[j] = j + 1 /\ from[l] = l + 1
        BY <2>4, <3>1, <3>4
      <4>2. j + 1 = l + 1
        BY <2>6, <4>1
      <4>3. QED
        BY <3>1, <4>2
    <3>5. CASE j < i /\ l >= i
      <4>1. from[j] = j /\ from[l] = l + 1
        BY <2>4, <3>1, <3>5
      <4>2. j = l + 1
        BY <2>6, <4>1
      <4>3. QED
        BY <3>1, <3>5, <4>2
    <3>6. CASE j >= i /\ l < i
      <4>1. from[j] = j + 1 /\ from[l] = l
        BY <2>4, <3>1, <3>6
      <4>2. l = j + 1
        BY <2>6, <4>1
      <4>3. QED
        BY <3>1, <3>6, <4>2
    <3>7. QED
      BY <3>2, <3>3, <3>4, <3>5, <3>6
  <2>7. \A j \in DOMAIN new : SameEvents(new[j], waitings[from[j]])
    BY <2>5 DEF SameEvents
  <2>8. QED
    BY <2>1, <2>2, <2>5, <2>6, <2>7 DEF Remain
<1>4. ASSUME waitings' = [waitings EXCEPT ![i].joined = @ \cup {h}]
      PROVE  waitings' \in Seq(Waitings) /\ Remain({})
  <2>1. PICK c, new : c = waitings[i] /\ new = waitings'
    OBVIOUS
  <2>2. c \in Waitings
    BY <1>1, <2>1
  <2>3. PICK d : d = [c EXCEPT !.joined = @ \cup {h}]
    OBVIOUS
  <2>4. d \in Waitings /\ SameEvents(d, c)
    BY <2>2, <2>3 DEF Waitings, SameEvents
  <2>5. new = [waitings EXCEPT ![i] = d]
    BY <1>4, <2>1, <2>3
  <2>6. new \in Seq(Waitings) /\ DOMAIN new = DOMAIN waitings
    BY <1>1, <2>4, <2>5
  <2>7. \A j \in DOMAIN new : SameEvents(new[j], waitings[j])
    BY <1>1, <2>1, <2>4, <2>5 DEF SameEvents
  <2>8. PICK from : from = [j \in DOMAIN new |-> j]
    OBVIOUS
  <2>9. \A j \in DOMAIN new : from[j] = j
    BY <2>8
  <2>10. QED
    BY <2>1, <2>6, <2>7, <2>9 DEF Remain
<1>5. QED
  BY <1>3, <1>4

\* nccl_call by a host that joins a collective.
LEMMA JoinKeeps ==
  ASSUME HostsInv, HistoryTypes, NEW h \in Hosts, NEW s \in Streams, NEW i \in DOMAIN waitings,
         NcclJoin(h, s, i), Flushed(h, {s}), UNCHANGED idOf
  PROVE  HostsInv'
<1> PICK n : n = cnt
  OBVIOUS
<1>1. PICK c, first, t, w : /\ c = waitings[i] /\ first = StreamId(h, s, n) /\ t = clock[h]
                            /\ w = Len(work[h]) + 1
  OBVIOUS
<1>2. PICK b, sm, em, N : /\ b = c.barrier /\ sm = c.startMeta /\ em = c.endMeta
                          /\ N = Cardinality(Hosts)
  OBVIOUS
<1>3. PICK mid, own : /\ mid = StreamOps(h, s, n, {b}, Point, w)
                      /\ own = mid \o LinkOps(sm, em, first, t, w)
  OBVIOUS
<1>4. PICK flow, link : flow = FlowOps(N, sm, t) /\ link = RingOps(N, em, first)
  OBVIOUS
<1>5. PICK full, last : full = (own \o flow) \o link /\ last = full \o <<ReleaseOp(b)>>
  OBVIOUS
<1>6. /\ \/ Async(h, last) /\ waitings' = RemoveAt(waitings, i)
         \/ Async(h, own) /\ waitings' = [waitings EXCEPT ![i].joined = @ \cup {h}]
      /\ Advance(h, s, first + 1)
  BY <1>1, <1>2, <1>3, <1>4, <1>5 DEF NcclJoin, LinkOps, FlowOps, RingOps
<1>7. call = NoCall
  BY <1>6 DEF Async, Call
<1>8. HostsTypes /\ n \in Nat /\ TailsBelow(n)
  BY <1>7, BetweenCalls
<1>9. b \in 0 .. n - 1 /\ sm \in 0 .. n - 1 /\ em \in 0 .. n - 1
  BY <1>1, <1>2, <1>7, WaitingBehind
<1>10. b \in Nat /\ em \in Nat /\ Below({b, sm, em}, n)
  BY <1>9 DEF Below
<1>11. t \in Nat /\ w \in Nat /\ N \in Nat
  <2>1. t \in Nat /\ w \in Nat
    BY <1>1, <1>8, NextWork DEF HostsTypes
  <2>2. N \in Nat
    BY <1>2, PartCardinality, HostsAssumption
  <2>3. QED
    BY <2>1, <2>2
<1>12. PICK S : S = {sm, em}
  OBVIOUS
<1>13. OwnJoined(own, n, first, S)
  BY <1>1, <1>3, <1>8, <1>10, <1>11, <1>12, OwnPiece
<1>14. first \in Nat
  BY <1>13 DEF OwnJoined
<1>15. PICK k \in Nat : k = first + 2 /\ n <= k /\ Piece(own, n, k, S)
  BY <1>13 DEF OwnJoined
<1>16. buffered' \in [Hosts -> [Streams -> Seq(BufferedCalls)]]
  BY <1>8, FlushedTypes
<1>17. tail' \in [Hosts -> [Streams -> SUBSET Nat]] /\ TailsBelow(k)'
  <2>1. PICK id \in Nat : id = first + 1
    BY <1>14
  <2>2. id < k
    BY <1>14, <1>15, <2>1
  <2>3. Advance(h, s, id)
    BY <1>6, <2>1
  <2>4. QED
    BY <1>8, <1>15, <2>2, <2>3, AdvanceTypes
<1>18. S = {c.startMeta, c.endMeta}
  BY <1>2, <1>12
<1>19. CASE Async(h, own) /\ waitings' = [waitings EXCEPT ![i].joined = @ \cup {h}]
  <2>1. waitings' \in Seq(Waitings) /\ Remain({})
    BY <1>8, <1>19, JoinRemains
  <2>2. Calls(h, own, "return", None)
    BY <1>19, AsyncCalls
  <2>3. Joins(own, n, k, S, b) /\ \A l \in 1 .. Len(own) : own[l].op # "release"
    BY <1>8, <1>10, <1>15, PieceJoins
  <2>4. Joins(own, n, k, S, c.barrier)
    BY <1>2, <2>3
  <2>5. ReleasesGone(own, i, {})
    BY <2>3 DEF ReleasesGone
  <2>6. QED
    BY <1>1, <1>15, <1>16, <1>17, <1>18, <2>1, <2>2, <2>4, <2>5, JoinCall
<1>20. CASE Async(h, last) /\ waitings' = RemoveAt(waitings, i)
  <2>1. waitings' \in Seq(Waitings) /\ Remain({i})
    BY <1>8, <1>20, JoinRemains
  <2>2. Calls(h, last, "return", None)
    BY <1>20, AsyncCalls
  <2>3. Below({sm}, k) /\ em \in S
    <3>1. sm \in 0 .. k - 1
      BY <1>8, <1>9, <1>15
    <3>2. QED
      BY <1>12, <3>1 DEF Below
  <2>4. RingAdded(full, n, k, S)
    BY <1>4, <1>5, <1>8, <1>10, <1>11, <1>14, <1>15, <2>3, RingPiece
  <2>5. PICK m \in Nat : k <= m /\ Piece(full, n, m, S)
    BY <2>4 DEF RingAdded
  <2>6. Joins(last, n, m, S, b)
    BY <1>5, <1>8, <1>10, <2>5, PieceJoins
  <2>7. Joins(last, n, m, S, c.barrier)
    BY <1>2, <2>6
  <2>8. ReleasesGone(last, i, {i})
    BY DEF ReleasesGone
  <2>9. n <= m /\ TailsBelow(m)'
    <3>1. n <= m /\ 0 .. k - 1 \subseteq 0 .. m - 1
      BY <1>8, <1>15, <2>5
    <3>2. QED
      BY <1>17, <3>1 DEF TailsBelow
  <2>10. QED
    BY <1>1, <1>16, <1>17, <1>18, <2>1, <2>2, <2>5, <2>7, <2>8, <2>9, JoinCall
<1>21. QED
  BY <1>6, <1>19, <1>20

\* nccl_call
LEMMA NcclKeeps ==
  ASSUME HostsInv, HistoryTypes, NEW h \in Hosts, NEW s \in Streams, NcclCall(h, s)
  PROVE  HostsInv'
BY OpenKeeps, JoinKeeps DEF NcclCall

-----------------------------------------------------------------------------
(***************************************************************************)
(* The specification.                                                      *)
(***************************************************************************)

\* handle_exit, and the host's own computation: nobody waits because of them.
LEMMA OutsideKeeps ==
  ASSUME HostsInv, NEW h \in Hosts, CpuTime(h) \/ Exit(h)
  PROVE  HostsInv'
<1>1. /\ call = NoCall /\ UNCHANGED <<vars, tail, buffered, idOf, syncing, waitings, call>>
      /\ hostState[h] = "run"
      /\ clock' = clock \/ clock' = [clock EXCEPT ![h] = @ + 1]
      /\ hostState' = hostState \/ hostState' = [hostState EXCEPT ![h] = "exit"]
  BY DEF CpuTime, Exit, simVars
<1>2. OrderInv /\ HostsTypes
  BY DEF HostsInv
<1>3. clock' \in [Hosts -> Nat] /\ hostState' \in [Hosts -> {"run", "wait", "exit"}]
  <2>1. PICK t : t = clock[h] + 1
    OBVIOUS
  <2>2. clock \in [Hosts -> Nat] /\ t \in Nat
    BY <1>2, <2>1 DEF HostsTypes
  <2>3. clock' = clock \/ clock' = [clock EXCEPT ![h] = t]
    BY <1>1, <2>1
  <2>4. clock' \in [Hosts -> Nat]
    BY <2>2, <2>3
  <2>5. hostState \in [Hosts -> {"run", "wait", "exit"}]
    BY <1>2 DEF HostsTypes
  <2>6. hostState' \in [Hosts -> {"run", "wait", "exit"}]
    BY <1>1, <2>5
  <2>7. QED
    BY <2>4, <2>6
<1>4. \A g \in Hosts : hostState'[g] = "wait" <=> hostState[g] = "wait"
  BY <1>1, <1>2 DEF HostsTypes
<1>5. HostsTypes'
  BY <1>1, <1>2, <1>3 DEF HostsTypes
<1>6. PICK num : BuildInv(<< >>, num) /\ AnswerInv(<< >>, num)
  BY <1>1 DEF HostsInv, Prog
<1>7. OrderInv' /\ QuietStep /\ UNCHANGED <<ended, cnt>> /\ \A e : NotFlow(e)' <=> NotFlow(e)
  <2>1. UNCHANGED vars
    BY <1>1
  <2>2. OrderInv'
    BY <1>2, <2>1, NextOrderInv
  <2>3. QED
    BY <2>1, <2>2, SameQuiet
<1>8. BuildInv(<< >>, num)'
  BY <1>1, <1>2, <1>6, <1>7, QuietBuild
<1>9. Registered /\ WaitersHeard /\ EventsOwned
  BY <1>6 DEF AnswerInv
<1>10. Registered'
  <2>1. \A e \in DOMAIN syncing : hostState'[syncing[e]] = "wait"
    BY <1>2, <1>4, <1>9 DEF Registered, HostsTypes
  <2>2. QED
    BY <1>1, <1>7, <1>9, <2>1 DEF Registered
<1>11. EventsOwned'
  <2>1. \A g : OwnIds(g)' = OwnIds(g)
    BY <1>1 DEF OwnIds
  <2>2. QED
    BY <1>1, <1>9, <2>1 DEF EventsOwned
<1>12. WaitersHeard'
  BY <1>1, <1>4, <1>9 DEF WaitersHeard, Caller
<1>13. AnswerInv(<< >>, num)'
  BY <1>1, <1>10, <1>11, <1>12 DEF AnswerInv, AboutNew, AboutOwn
<1>14. Prog' = << >>
  BY <1>1 DEF Prog
<1>15. QED
  BY <1>5, <1>7, <1>8, <1>13, <1>14 DEF HostsInv

\* Nothing happens.
LEMMA StutterKeeps ==
  ASSUME HostsInv, UNCHANGED vars,
         UNCHANGED <<tail, buffered, idOf, syncing, waitings, call, clock, hostState>>
  PROVE  HostsInv'
<1>1. OrderInv /\ HostsTypes
  BY DEF HostsInv
<1>2. PICK p, num : p = Prog /\ BuildInv(p, num) /\ AnswerInv(p, num)
  BY DEF HostsInv
<1>3. OrderInv' /\ QuietStep /\ UNCHANGED <<ended, cnt>> /\ \A e : NotFlow(e)' <=> NotFlow(e)
  <2>1. OrderInv'
    BY <1>1, NextOrderInv
  <2>2. QED
    BY <2>1, SameQuiet
<1>4. Grows(p, num, p, num, {}) /\ BuildInv(p, num)'
  BY <1>1, <1>2, <1>3, QuietBuild
<1>5. HostsTypes'
  BY <1>1 DEF HostsTypes
<1>6. Prog' = p
  BY <1>2 DEF Prog
<1>7. \A g : OwnIds(g)' = OwnIds(g)
  BY DEF OwnIds
<1>8. Registered' /\ EventsOwned'
  BY <1>2, AnswerSame DEF AnswerInv
<1>9. WaitersHeard' /\ AboutOwn'
  BY <1>2, <1>7 DEF AnswerInv, WaitersHeard, Caller, AboutOwn
<1>10. AboutNew(p, num)'
  <2>1. \A e : Plain(p, num, e) => Plain(p, num, e)'
    BY <1>4 DEF Grows
  <2>2. QED
    BY <1>2, <1>3, <1>7, <2>1 DEF AnswerInv, AboutNew
<1>11. AnswerInv(p, num)'
  BY <1>2, <1>8, <1>9, <1>10 DEF AnswerInv
<1>12. QED
  BY <1>3, <1>4, <1>5, <1>6, <1>11 DEF HostsInv

\* What is noted of the work keeps its types while a handler goes on.
LEMMA HandlerHistory ==
  ASSUME HostsInv, HistoryTypes, Handler
  PROVE  HistoryTypes'
<1>1. HostsTypes /\ cnt \in Nat
  BY HostsFacts DEF HostsInv
<1>2. UNCHANGED <<covers, recorded, idOf>> /\ (UNCHANGED work \/ RunOp)
  <2>1. ASSUME NEW e, ExecuteAnswering(e)
        PROVE  UNCHANGED <<covers, recorded, idOf, work>>
    BY <2>1 DEF ExecuteAnswering, SyncResponse, history
  <2>2. CASE RunOp
    BY <2>2 DEF RunOp
  <2>3. CASE Built \/ QueueStep \/ ReplyQuery \/ Proceed
    BY <2>3 DEF Built, QueueStep, ReplyQuery, Proceed, history, simVars
  <2>4. CASE ReplyEventSync
    BY <2>4 DEF ReplyEventSync, SyncResponse, history
  <2>5. CASE ExecuteToTime
    BY <2>1, <2>3, <2>5 DEF ExecuteToTime, history
  <2>6. CASE ExecuteToEvent
    BY <2>1, <2>3, <2>6 DEF ExecuteToEvent, history
  <2>7. QED
    BY <2>2, <2>3, <2>4, <2>5, <2>6 DEF Handler
<1>3. CASE UNCHANGED work
  BY <1>2, <1>3 DEF HistoryTypes
<1>4. CASE RunOp
  <2>1. PICK o, h, k, n : o = Head(call.prog) /\ h = call.host /\ k = o.w /\ n = cnt
    OBVIOUS
  <2>2. PICK new : new = [work[h][k] EXCEPT !.first = IF @ = NotYet THEN n ELSE @, !.last = n]
    OBVIOUS
  <2>3. UNCHANGED work \/ work' = [work EXCEPT ![h][k] = new]
    <3>1. \/ UNCHANGED work
          \/ work' = IF k = 0 THEN work ELSE [work EXCEPT ![h][k] = InQueue(work[h][k])]
      BY <1>4, <2>1 DEF RunOp
    <3>2. InQueue(work[h][k]) = new
      BY <2>1, <2>2 DEF InQueue
    <3>3. QED
      BY <3>1, <3>2
  <2>4. CASE work' = [work EXCEPT ![h][k] = new]
    <3>1. work' = [work EXCEPT ![h] = [work[h] EXCEPT ![k] = new]]
      BY <2>4
    <3>2. h \in Hosts
      <4>1. call # NoCall
        BY <1>4 DEF RunOp, InPhase, NoCall
      <4>2. QED
        BY <1>1, <2>1, <4>1 DEF HostsTypes, Handlers
    <3>3. PICK q : q = work[h] /\ q \in Seq(Works)
      BY <3>2 DEF HistoryTypes
    <3>4. [q EXCEPT ![k] = new] \in Seq(Works)
      <4>1. CASE k \in DOMAIN q
        <5>1. q[k] \in Works
          BY <3>3, <4>1
        <5>2. new \in Works
          BY <1>1, <2>1, <2>2, <3>3, <5>1 DEF Works
        <5>3. QED
          BY <3>3, <4>1, <5>2
      <4>2. CASE k \notin DOMAIN q
        <5>1. [q EXCEPT ![k] = new] = q
          BY <3>3, <4>2
        <5>2. QED
          BY <3>3, <5>1
      <4>3. QED
        BY <4>1, <4>2
    <3>5. work' \in [Hosts -> Seq(Works)]
      BY <3>1, <3>2, <3>3, <3>4 DEF HistoryTypes
    <3>6. QED
      BY <1>2, <3>5 DEF HistoryTypes
  <2>5. QED
    BY <1>3, <2>3, <2>4
<1>5. QED
  BY <1>2, <1>3, <1>4

\* A new piece of work.
LEMMA NewWorkHistory ==
  ASSUME HistoryTypes, NEW h \in Hosts, NEW s \in Streams, NewWork(h, s), UNCHANGED idOf
  PROVE  HistoryTypes'
<1>1. PICK x, c : /\ x = [first |-> NotYet, last |-> NotYet, after |-> covers[h][s]]
                  /\ c = covers[h][s] \cup {Len(work[h]) + 1}
  OBVIOUS
<1>2. /\ work' = [work EXCEPT ![h] = Append(work[h], x)]
      /\ covers' = [covers EXCEPT ![h] = [covers[h] EXCEPT ![s] = c]] /\ UNCHANGED recorded
  BY <1>1 DEF NewWork
<1>3. x \in Works /\ c \in SUBSET Nat
  <2>1. covers[h][s] \in SUBSET Nat /\ Len(work[h]) + 1 \in Nat
    BY NextWork DEF HistoryTypes
  <2>2. QED
    BY <1>1, <2>1 DEF Works
<1>4. work' \in [Hosts -> Seq(Works)]
  <2>1. work[h] \in Seq(Works)
    BY DEF HistoryTypes
  <2>2. Append(work[h], x) \in Seq(Works)
    BY <1>3, <2>1
  <2>3. QED
    BY <1>2, <2>2 DEF HistoryTypes
<1>5. covers' \in [Hosts -> [Streams -> SUBSET Nat]]
  BY <1>2, <1>3 DEF HistoryTypes
<1>6. QED
  BY <1>2, <1>4, <1>5 DEF HistoryTypes

\* The calls keep the types of what is noted of the work.
LEMMA CallHistory ==
  ASSUME HostsInv, HistoryTypes, NEW h \in Hosts, HostCall(h)
  PROVE  HistoryTypes'
<1>1. DOMAIN idOf = Hosts
  BY DEF HostsInv, HostsTypes
<1>2. ASSUME UNCHANGED <<work, covers, recorded, idOf>>
      PROVE  HistoryTypes'
  BY <1>2 DEF HistoryTypes
<1>3. ASSUME NEW s \in Streams, NEW d, TorchCall(h, s, d) \/ MemcpyAsync(h, s, d)
      PROVE  HistoryTypes'
  BY <1>3, NewWorkHistory DEF TorchCall, MemcpyAsync
<1>4. ASSUME NEW s \in Streams, NcclCall(h, s)
      PROVE  HistoryTypes'
  BY <1>4, NewWorkHistory DEF NcclCall
<1>5. ASSUME NEW s \in Streams, StreamSynchronize(h, s) \/ StreamQuery(h, s)
      PROVE  HistoryTypes'
  BY <1>2, <1>5 DEF StreamSynchronize, StreamQuery, Ask
<1>6. ASSUME NEW c, EventSynchronize(h, c) \/ EventQuery(h, c)
      PROVE  HistoryTypes'
  BY <1>2, <1>6 DEF EventSynchronize, EventQuery, Ask
<1>7. ASSUME NEW dev, DeviceSynchronize(h, dev)
      PROVE  HistoryTypes'
  BY <1>2, <1>7 DEF DeviceSynchronize, Ask
<1>8. ASSUME NEW s \in Streams, NEW c, EventRecord(h, s, c)
      PROVE  HistoryTypes'
  <2>1. PICK x : x = covers[h][s] /\ x \in SUBSET Nat
    BY DEF HistoryTypes
  <2>2. PICK id : id = StreamId(h, s, cnt)
    OBVIOUS
  <2>3. /\ idOf' = [idOf EXCEPT ![h] = Put(idOf[h], c, id)]
        /\ recorded' = [recorded EXCEPT ![h] = Put(recorded[h], c, x)]
        /\ UNCHANGED <<work, covers>>
    BY <1>8, <2>1, <2>2 DEF EventRecord
  <2>4. /\ DOMAIN idOf'[h] = DOMAIN idOf[h] \cup {c}
        /\ \A g \in Hosts \ {h} : idOf'[g] = idOf[g]
    BY <1>1, <2>3 DEF Put
  <2>5. /\ DOMAIN recorded' = Hosts
        /\ DOMAIN recorded'[h] = DOMAIN recorded[h] \cup {c}
        /\ \A g \in Hosts \ {h} : recorded'[g] = recorded[g]
        /\ \A y \in DOMAIN recorded'[h] : recorded'[h][y] = IF y = c THEN x ELSE recorded[h][y]
    BY <2>3 DEF Put, HistoryTypes
  <2>6. ASSUME NEW g \in Hosts
        PROVE  /\ DOMAIN recorded'[g] = DOMAIN idOf'[g]
               /\ \A y \in DOMAIN recorded'[g] : recorded'[g][y] \in SUBSET Nat
    <3>1. CASE g = h
      BY <2>1, <2>4, <2>5, <3>1 DEF HistoryTypes
    <3>2. CASE g # h
      BY <2>4, <2>5, <3>2 DEF HistoryTypes
    <3>3. QED
      BY <3>1, <3>2
  <2>7. QED
    BY <2>3, <2>5, <2>6 DEF HistoryTypes
<1>9. ASSUME NEW s \in Streams, NEW c, StreamWaitEvent(h, s, c)
      PROVE  HistoryTypes'
  <2>1. c \in DOMAIN recorded[h]
    BY <1>9 DEF StreamWaitEvent, HistoryTypes
  <2>2. PICK x : x = covers[h][s] \cup recorded[h][c] /\ x \in SUBSET Nat
    BY <2>1 DEF HistoryTypes
  <2>3. covers' = [covers EXCEPT ![h] = [covers[h] EXCEPT ![s] = x]] /\ UNCHANGED <<idOf, work, recorded>>
    BY <1>9, <2>2 DEF StreamWaitEvent
  <2>4. covers' \in [Hosts -> [Streams -> SUBSET Nat]]
    BY <2>2, <2>3 DEF HistoryTypes
  <2>5. QED
    BY <2>3, <2>4 DEF HistoryTypes
<1>10. QED
  BY <1>3, <1>4, <1>5, <1>6, <1>7, <1>8, <1>9 DEF HostCall

\* No host has called yet.
LEMMA InitHosts ==
  ASSUME HostsInit
  PROVE  HostsInv /\ HistoryTypes
<1>1. OrderInv
  BY InitOrderInv DEF HostsInit
<1>2. /\ tail = [h \in Hosts |-> [s \in Streams |-> {}]]
      /\ buffered = [h \in Hosts |-> [s \in Streams |-> << >>]]
      /\ idOf = [h \in Hosts |-> << >>]
      /\ syncing = << >> /\ waitings = << >> /\ call = NoCall
      /\ clock = [h \in Hosts |-> 0]
      /\ hostState = [h \in Hosts |-> "run"]
      /\ work = [h \in Hosts |-> << >>]
      /\ covers = [h \in Hosts |-> [s \in Streams |-> {}]]
      /\ recorded = [h \in Hosts |-> << >>]
  BY DEF HostsInit
<1>3. cnt = 0
  BY DEF HostsInit, Init
<1>4. DOMAIN << >> = {} /\ Len(<< >>) = 0
  OBVIOUS
<1>5. HostsTypes
  BY <1>2, <1>4 DEF HostsTypes
<1>6. HistoryTypes
  BY <1>2, <1>4 DEF HistoryTypes
<1>7. PICK num : num = NumbersFrom(<< >>, 0)
  OBVIOUS
<1>8. Numbered(<< >>, 0, num) /\ OpsKnown(<< >>, num) /\ num[Len(<< >>) + 1] = 0
  <2>1. AddsFrom(<< >>, 0)
    BY EmptyAdds
  <2>2. /\ Numbered(<< >>, 0, num) /\ OpsKnown(<< >>, num) /\ num[Len(<< >>) + 1] = 0 + Len(<< >>)
    BY <1>7, <2>1, AddsNumbered
  <2>3. QED
    BY <1>4, <2>2
<1>9. \A h \in Hosts : OwnIds(h) = {}
  BY <1>2, <1>4 DEF OwnIds
<1>10. BuildInv(<< >>, num)
  <2>1. OpsGuarded(<< >>)
    BY <1>4 DEF OpsGuarded
  <2>2. CollHeld(<< >>, num)
    BY <1>2, <1>4 DEF CollHeld, Range
  <2>3. TailsKnown(0)
    BY <1>2, <1>9 DEF TailsKnown
  <2>4. TailsKnown(num[Len(<< >>) + 1])
    BY <1>8, <2>3
  <2>5. EventsPlain(<< >>, num)
    BY <1>9 DEF EventsPlain
  <2>6. QED
    BY <1>3, <1>8, <2>1, <2>2, <2>4, <2>5 DEF BuildInv
<1>11. AnswerInv(<< >>, num)
  <2>1. Registered /\ EventsOwned
    BY <1>2, <1>4, <1>9 DEF Registered, EventsOwned
  <2>2. WaitersHeard
    BY <1>2 DEF WaitersHeard, Caller
  <2>3. QED
    BY <1>2, <2>1, <2>2 DEF AnswerInv, AboutNew, AboutOwn
<1>12. Prog = << >>
  BY <1>2 DEF Prog
<1>13. QED
  BY <1>1, <1>5, <1>6, <1>10, <1>11, <1>12 DEF HostsInv

\* Every step keeps the invariant.
LEMMA NextHosts ==
  ASSUME HostsInv, HistoryTypes, [HostsNext]_allVars
  PROVE  HostsInv' /\ HistoryTypes'
<1>1. CASE Handler
  BY <1>1, HandlerKeeps, HandlerHistory
<1>2. ASSUME NEW h \in Hosts, HostCall(h)
      PROVE  HostsInv' /\ HistoryTypes'
  <2>1. HistoryTypes'
    BY <1>2, CallHistory
  <2>2. HostsInv'
    BY <1>2, TorchKeeps, MemcpyKeeps, StreamSyncKeeps, StreamQueryKeeps, RecordKeeps, WaitEventKeeps,
       NcclKeeps, EventAskKeeps, DeviceSyncKeeps DEF HostCall
  <2>3. QED
    BY <2>1, <2>2
<1>3. ASSUME NEW h \in Hosts, CpuTime(h) \/ Exit(h)
      PROVE  HostsInv' /\ HistoryTypes'
  <2>1. HostsInv'
    BY <1>3, OutsideKeeps
  <2>2. UNCHANGED <<work, covers, recorded, idOf>>
    BY <1>3 DEF CpuTime, Exit, simVars, history
  <2>3. QED
    BY <2>1, <2>2 DEF HistoryTypes
<1>4. CASE UNCHANGED allVars
  <2>1. /\ UNCHANGED vars
        /\ UNCHANGED <<tail, buffered, idOf, syncing, waitings, call, clock, hostState, work, covers, recorded>>
    BY <1>4 DEF allVars, simVars, hostVars, history
  <2>2. HostsInv'
    BY <2>1, StutterKeeps
  <2>3. HistoryTypes'
    BY <2>1 DEF HistoryTypes
  <2>4. QED
    BY <2>2, <2>3
<1>5. QED
  BY <1>1, <1>2, <1>3, <1>4 DEF HostsNext

\* The inductive invariant of the hosts: the queue's own, what the program of the
\* call in progress is going to add, and who is registered for what.
THEOREM HostsInvariant == HostsSpec => [](HostsInv /\ HistoryTypes)
<1>1. HostsInit => HostsInv /\ HistoryTypes
  BY InitHosts
<1>2. (HostsInv /\ HistoryTypes) /\ [HostsNext]_allVars => (HostsInv /\ HistoryTypes)'
  BY NextHosts
<1>3. QED
  BY <1>1, <1>2, PTL DEF HostsSpec

\* Between calls, who waits is registered.
LEMMA HostsRegistered ==
  ASSUME HostsInv
  PROVE  WaiterRegistered
<1>1. ASSUME call = NoCall
      PROVE  /\ \A e \in DOMAIN syncing : e \notin DOMAIN ended /\ hostState[syncing[e]] = "wait"
             /\ \A h \in Hosts : hostState[h] = "wait" =>
                  \E e \in DOMAIN syncing : syncing[e] = h /\ \A g \in DOMAIN syncing : syncing[g] = h => g = e
  <2>1. Registered /\ WaitersHeard
    BY DEF HostsInv, AnswerInv
  <2>2. ASSUME NEW h \in Hosts, hostState[h] = "wait"
        PROVE  \E e \in DOMAIN syncing : syncing[e] = h /\ \A g \in DOMAIN syncing : syncing[g] = h => g = e
    <3>1. PICK e \in DOMAIN syncing : syncing[e] = h
      BY <1>1, <2>1, <2>2 DEF WaitersHeard, Caller
    <3>2. QED
      BY <2>1, <3>1 DEF Registered
  <2>3. QED
    BY <2>1, <2>2 DEF Registered
<1>2. QED
  BY <1>1 DEF WaiterRegistered

\* Between calls, a host that waits is registered, once, for an event that has
\* not ended, whatever host executed the queue and whatever its network rolled
\* back: its reply cannot be lost.
THEOREM WaitersAreRegistered == HostsSpec => []WaiterRegistered
BY HostsRegistered, HostsInvariant, PTL

\* The queue keeps its promises when hosts' handlers call it, with the hosts'
\* clocks as the times of the events and their programs as its calls: what events
\* begin after, what execute finds, the ends of the flows, and what an empty queue
\* still holds.
THEOREM QueueUnderHosts ==
  HostsSpec => [](DependencyOrder /\ UnwrapSafe /\ QueueNetAgree /\ EmptyMeansBarrier)
<1>1. ASSUME HostsInv
      PROVE  DependencyOrder /\ UnwrapSafe /\ QueueNetAgree /\ EmptyMeansBarrier
  <2>1. OrderInv /\ NetInv
    BY <1>1, HostsFacts DEF HostsInv
  <2>2. QED
    BY <2>1, TimesOrder, NetUnwrapSafe, NetQueueAgree, NetEmptyBarrier
<1>2. HostsInv => DependencyOrder /\ UnwrapSafe /\ QueueNetAgree /\ EmptyMeansBarrier
  BY <1>1
<1>3. QED
  BY <1>2, HostsInvariant, PTL
====

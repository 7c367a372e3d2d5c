------------------------- MODULE EventQueue_proofs -------------------------
(***************************************************************************)
(* For any bound on the events, any times, durations and completion times: *)
(* the event queue's state keeps its types through every rollback, no      *)
(* wake-up is lost, and a rollback is never started within another.        *)
(*                                                                         *)
(* That the end of an event reaches everything that waits for it needs an  *)
(* invariant on both sides of the edge: whoever lists a dependency in      *)
(* pending is listed in rev_dependencies, and what it lists was added and  *)
(* has not ended.  add_dependency keeps it only because the events it      *)
(* links were added before, so that is part of the induction (QueueInv).   *)
(*                                                                         *)
(* That rollbacks do not nest needs the shape of the call stack: which     *)
(* frame may lie on which, and that what is pushed within the rollback     *)
(* loop is never in the network's past (CallInv).                          *)
(***************************************************************************)
EXTENDS EventQueue, FiniteSetTheorems, TLAPS

PendingAdded == DOMAIN pending \subseteq 0 .. cnt - 1

QueueInv == TypeOK /\ NoLostWakeup /\ PendingAdded

-----------------------------------------------------------------------------
(***************************************************************************)
(* The operators keep the types.                                           *)
(***************************************************************************)

\* A nonempty set of natural numbers has a least element.
LEMMA LeastNumber ==
  ASSUME NEW T \in SUBSET Nat, T # {}
  PROVE  \E m \in T : \A n \in T : m <= n
<1>1. PICK m \in T : \A n \in T : ~ (<<n, m>> \in OpToRel(<, Nat))
  BY NatLessThanWellFounded, WFMin
<1>2. \A n \in T : n < m => <<n, m>> \in OpToRel(<, Nat)
  BY DEF OpToRel
<1>3. \A n \in T : n \in Nat /\ m \in Nat /\ ~ (n < m)
  BY <1>1, <1>2
<1>4. \A n \in T : m <= n
  BY <1>3
<1>5. QED
  BY <1>4

\* The number of elements of a part of a finite set.
LEMMA PartCardinality ==
  ASSUME NEW S, IsFiniteSet(S), NEW T \in SUBSET S
  PROVE  Cardinality(T) \in Nat
BY FS_Subset, FS_CardinalityType

\* Put and Without keep a partial function's type.
LEMMA PutPartial ==
  ASSUME NEW f, NEW D, NEW R, Partial(f, D, R), NEW x \in D, NEW v \in R
  PROVE  Partial(Put(f, x, v), D, R)
BY DEF Partial, Put

\* Taking keys out of a map keeps its type.
LEMMA WithoutPartial ==
  ASSUME NEW f, NEW D, NEW R, Partial(f, D, R), NEW S
  PROVE  Partial(Without(f, S), D, R)
BY DEF Partial, Without

\* A key of a typed map and its value have their types.
LEMMA PartialAt ==
  ASSUME NEW f, NEW D, NEW R, Partial(f, D, R), NEW x \in DOMAIN f
  PROVE  f[x] \in R /\ x \in D
BY DEF Partial

\* The later of two times is a time.
LEMMA LaterNat ==
  ASSUME NEW a \in Nat, NEW b \in Nat
  PROVE  Later(a, b) \in Nat
BY DEF Later

\* Microseconds to nanoseconds and back: both conversions yield times.
LEMMA TicksNat ==
  ASSUME NEW n \in Nat
  PROVE  n * NsPerUs \in Nat /\ ToUs(n) \in Nat
BY ConstantsAssumption DEF ToUs

\* A call stack with the pushes of end_event on top is a call stack.
LEMMA PushAllFrames ==
  ASSUME NEW items \in SUBSET PushItems, NEW rest \in Seq(Frames)
  PROVE  PushAll(items, rest) \in Seq(Frames)
<1>1. [op |-> "push", todo |-> items] \in Frames
  BY DEF Frames
<1>2. QED
  BY <1>1 DEF PushAll

\* A frame's op says which function's frame it is.
LEMMA FrameKinds ==
  ASSUME NEW f \in Frames
  PROVE  /\ f.op = "push" => f \in [op : {"push"}, todo : SUBSET PushItems]
         /\ f.op = "loop" => f \in [op : {"loop"}, id : Ids, time : Nat, n : Nat, wait : SUBSET Ids]
         /\ f.op = "finish" => f \in [op : {"finish"}, at : Nat, id : Ids, time : Nat,
                                      todo : SUBSET [id : Ids, ts : Nat]]
BY DEF Frames

\* The stack without its innermost frame, or with one task less in it.
LEMMA HeadFrame ==
  ASSUME stack \in Seq(Frames), stack # << >>
  PROVE  Head(stack) \in Frames /\ Tail(stack) \in Seq(Frames)
OBVIOUS

\* The stack once the innermost loop is done with x.
LEMMA RestFrames ==
  ASSUME stack \in Seq(Frames), InOp("push") \/ InOp("finish"), NEW x
  PROVE  Rest(x) \in Seq(Frames)
<1> DEFINE f == Head(stack)
           g == [f EXCEPT !.todo = @ \ {x}]
<1>1. f \in Frames /\ Tail(stack) \in Seq(Frames)
  BY HeadFrame DEF InOp
<1>2. f.op = "push" \/ f.op = "finish"
  BY DEF InOp
<1>3. g \in Frames
  <2>1. CASE f.op = "push"
    <3>1. f \in [op : {"push"}, todo : SUBSET PushItems]
      BY <1>1, <2>1, FrameKinds
    <3>2. g \in [op : {"push"}, todo : SUBSET PushItems]
      BY <3>1
    <3>3. QED
      BY <3>2 DEF Frames
  <2>2. CASE f.op = "finish"
    <3>1. f \in [op : {"finish"}, at : Nat, id : Ids, time : Nat, todo : SUBSET [id : Ids, ts : Nat]]
      BY <1>1, <2>2, FrameKinds
    <3>2. g \in [op : {"finish"}, at : Nat, id : Ids, time : Nat, todo : SUBSET [id : Ids, ts : Nat]]
      BY <3>1
    <3>3. QED
      BY <3>2 DEF Frames
  <2>3. QED
    BY <1>2, <2>1, <2>2
<1> HIDE DEF g
<1>4. <<g>> \o Tail(stack) \in Seq(Frames)
  BY <1>1, <1>3
<1>5. QED
  BY <1>1, <1>4 DEF Rest, g, f

\* What PushEvent, EndEvent and the calls put on the stack and into pending.
LEMMA PushTimeNat ==
  ASSUME Partial(pending, Ids, PendingRecords), NEW p \in DOMAIN pending, NEW end \in Nat
  PROVE  PushTime(p, end) \in Nat
<1>1. pending[p] \in PendingRecords
  BY PartialAt
<1>2. pending[p].depEnd \in Nat /\ pending[p].arrive \in Nat
  BY <1>1 DEF PendingRecords
<1>3. QED
  BY <1>2, LaterNat DEF PushTime

\* end_event keeps the types of what it writes.
LEMMA EndEventType ==
  ASSUME TypeOK, NEW id \in Ids, NEW start \in Nat, NEW end \in Nat,
         NEW rest \in Seq(Frames), EndEvent(id, start, end, rest)
  PROVE  /\ Partial(ended', Ids, Nat \X Nat)
         /\ Partial(pending', Ids, PendingRecords)
         /\ stack' \in Seq(Frames)
<1> DEFINE items == {[id |-> p, act |-> pending[p].act, time |-> PushTime(p, end)] : p \in Freed(id)}
<1>1. Partial(pending, Ids, PendingRecords) /\ Partial(ended, Ids, Nat \X Nat)
  BY DEF TypeOK
<1>2. Partial(ended', Ids, Nat \X Nat)
  <2>1. <<start, end>> \in Nat \X Nat
    OBVIOUS
  <2>2. QED
    BY <1>1, <2>1, PutPartial DEF EndEvent
<1>3. items \in SUBSET PushItems
  <2>1. ASSUME NEW p \in Freed(id)
        PROVE  [id |-> p, act |-> pending[p].act, time |-> PushTime(p, end)] \in PushItems
    <3>1. p \in DOMAIN pending
      BY DEF Freed
    <3>2. pending[p] \in PendingRecords /\ p \in Ids
      BY <1>1, <3>1, PartialAt
    <3>3. pending[p].act \in Actions
      BY <3>2 DEF PendingRecords
    <3>4. PushTime(p, end) \in Nat
      BY <1>1, <3>1, PushTimeNat
    <3>5. QED
      BY <3>2, <3>3, <3>4 DEF PushItems
  <2>2. QED
    BY <2>1
<1>4. stack' \in Seq(Frames)
  <2>1. stack' = PushAll(items, rest)
    BY DEF EndEvent
  <2>2. QED
    BY <1>3, <2>1, PushAllFrames
<1>5. Partial(pending', Ids, PendingRecords)
  <2>1. DOMAIN pending' \subseteq DOMAIN pending /\ pending' = [p \in DOMAIN pending' |-> pending'[p]]
    BY DEF EndEvent
  <2>2. ASSUME NEW p \in DOMAIN pending'
        PROVE  pending'[p] \in PendingRecords
    <3>1. pending[p] \in PendingRecords
      BY <1>1, <2>1, PartialAt
    <3>2. Later(pending[p].depEnd, end) \in Nat
      BY <3>1, LaterNat DEF PendingRecords
    <3>3. [pending[p] EXCEPT !.deps = @ \ {id}, !.depEnd = Later(@, end)] \in PendingRecords
      BY <3>1, <3>2 DEF PendingRecords
    <3>4. pending'[p] \in {pending[p], [pending[p] EXCEPT !.deps = @ \ {id}, !.depEnd = Later(@, end)]}
      BY DEF EndEvent
    <3>5. QED
      BY <3>1, <3>3, <3>4
  <2>3. QED
    BY <1>1, <2>1, <2>2 DEF Partial
<1>6. QED
  BY <1>2, <1>4, <1>5

\* No wake-up is lost when an event ends: all that wait for it are in its list.
LEMMA EndEventWakes ==
  ASSUME QueueInv, NEW id \in Ids, NEW start \in Nat, NEW end \in Nat, NEW rest,
         EndEvent(id, start, end, rest), UNCHANGED <<rev, cnt>>
  PROVE  NoLostWakeup' /\ PendingAdded'
<1>1. DOMAIN pending' = DOMAIN pending \ Freed(id)
  BY DEF EndEvent
<1>2. PendingAdded'
  BY <1>1 DEF QueueInv, PendingAdded
<1>3. DOMAIN ended' = DOMAIN ended \cup {id}
  BY DEF EndEvent, Put
<1>4. ASSUME NEW p \in DOMAIN pending'
      PROVE  /\ pending'[p].deps # {}
             /\ \A d \in pending'[p].deps \ {NoneDep} :
                  d < cnt /\ d \notin DOMAIN ended' /\ p \in rev[d]
  <2>1. p \in DOMAIN pending /\ p \notin Freed(id)
    BY <1>1
  <2>2. pending[p] \in PendingRecords
    BY <2>1, PartialAt DEF QueueInv, TypeOK
  <2>3. /\ pending[p].deps # {}
        /\ \A d \in pending[p].deps \ {NoneDep} :
             d < cnt /\ d \notin DOMAIN ended /\ p \in rev[d]
    BY <2>1 DEF QueueInv, NoLostWakeup
  <2>4. id # NoneDep
    BY ConstantsAssumption DEF Ids
  <2>5. CASE id \in pending[p].deps
    <3>1. p \in rev[id]
      BY <2>3, <2>4, <2>5
    <3>2. pending'[p].deps = pending[p].deps \ {id}
      BY <2>1, <2>2, <2>5, <3>1, <1>1 DEF EndEvent, PendingRecords
    <3>3. pending[p].deps # {id}
      BY <2>1, <3>1 DEF Freed
    <3>4. QED
      BY <1>3, <2>3, <2>5, <3>2, <3>3
  <2>6. CASE id \notin pending[p].deps
    <3>1. pending'[p] = pending[p]
      BY <2>1, <2>6, <1>1 DEF EndEvent
    <3>2. QED
      BY <1>3, <2>3, <2>6, <3>1
  <2>7. QED
    BY <2>5, <2>6
<1>5. NoLostWakeup'
  BY <1>4 DEF NoLostWakeup
<1>6. QED
  BY <1>2, <1>5

\* A step that leaves pending, ended and rev_dependencies alone loses no wake-up.
LEMMA WakeupFrame ==
  ASSUME NoLostWakeup, PendingAdded, UNCHANGED <<pending, ended, rev, cnt>>
  PROVE  NoLostWakeup' /\ PendingAdded'
BY DEF NoLostWakeup, PendingAdded

\* The network keeps its types.
LEMMA NextCompletionsNat ==
  ASSUME TypeOK
  PROVE  NextCompletions \subseteq Nat
<1>1. ASSUME NEW f \in DOMAIN flows, NEW s \in Spans
      PROVE  Later(nts, flows[f]) + s \in Nat
  <2>1. flows[f] \in Nat /\ nts \in Nat
    BY PartialAt DEF TypeOK
  <2>2. s \in Nat
    BY ConstantsAssumption
  <2>3. Later(nts, flows[f]) \in Nat
    BY <2>1, LaterNat
  <2>4. QED
    BY <2>2, <2>3
<1>2. QED
  BY <1>1 DEF NextCompletions

\* The network advancing to t and retiring flows keeps its types.
LEMMA NetRunType ==
  ASSUME TypeOK, NEW t \in Nat, NEW done \in SUBSET DOMAIN flows, NetRun(t, done)
  PROVE  nts' \in Nat /\ Partial(flows', Ids, Nat) /\ Partial(retired', Ids, [ts : Nat, end : Nat])
<1>1. Partial(flows, Ids, Nat) /\ Partial(retired, Ids, [ts : Nat, end : Nat])
  BY DEF TypeOK
<1>2. Partial(flows', Ids, Nat)
  BY <1>1, WithoutPartial DEF NetRun
<1>3. Partial(retired', Ids, [ts : Nat, end : Nat])
  <2>1. ASSUME NEW f \in done
        PROVE  [ts |-> flows[f], end |-> t] \in [ts : Nat, end : Nat] /\ f \in Ids
    BY <1>1, PartialAt
  <2>2. QED
    BY <1>1, <2>1 DEF NetRun, Partial
<1>4. QED
  BY <1>2, <1>3 DEF NetRun

\* A flow that arrives, in order or with a rollback, keeps the network's types.
LEMMA NetArriveType ==
  ASSUME TypeOK, NEW id \in Ids, NEW ts \in Nat, NetArrive(id, ts)
  PROVE  nts' \in Nat /\ Partial(flows', Ids, Nat) /\ Partial(retired', Ids, [ts : Nat, end : Nat])
<1>1. Partial(flows, Ids, Nat) /\ Partial(retired, Ids, [ts : Nat, end : Nat]) /\ nts \in Nat
  BY DEF TypeOK
<1>2. CASE MustRollback(ts)
  <2>1. ASSUME NEW f \in Revived(ts)
        PROVE  retired[f].ts \in Nat /\ f \in Ids
    <3>1. f \in DOMAIN retired
      BY DEF Revived
    <3>2. retired[f] \in [ts : Nat, end : Nat] /\ f \in Ids
      BY <1>1, <3>1, PartialAt
    <3>3. QED
      BY <3>2
  <2>2. Partial(flows', Ids, Nat)
    BY <1>1, <1>2, <2>1 DEF NetArrive, Partial
  <2>3. Partial(retired', Ids, [ts : Nat, end : Nat])
    BY <1>1, <1>2, WithoutPartial DEF NetArrive
  <2>4. QED
    BY <1>2, <2>2, <2>3 DEF NetArrive
<1>3. CASE ~ MustRollback(ts)
  <2>1. Partial(flows', Ids, Nat)
    BY <1>1, <1>3, PutPartial DEF NetArrive
  <2>2. QED
    BY <1>1, <1>3, <2>1 DEF NetArrive
<1>4. QED
  BY <1>2, <1>3

\* A push onto event_queue keeps its type.
LEMMA EnqueueType ==
  ASSUME TypeOK, NEW kind \in {"Start", "End", "Point"}, NEW id \in Ids, NEW time \in Nat, NEW n \in Nat
  PROVE  Partial(Put(queue, <<kind, id>>, <<time, n>>), Events, Nat \X Nat)
<1>1. <<kind, id>> \in Events /\ <<time, n>> \in Nat \X Nat
  BY DEF Events
<1>2. Partial(queue, Events, Nat \X Nat)
  BY DEF TypeOK
<1>3. QED
  BY <1>1, <1>2, PutPartial

\* Computations and communications are actions, with a duration.
LEMMA ActionKinds ==
  ASSUME NEW a \in Actions \cup {Finish}
  PROVE  /\ a.kind = "comp" => a \in Actions
         /\ a.kind = "comm" => a \in Actions
         /\ a \in Actions => a.dur \in Nat
BY ConstantsAssumption DEF Actions, Finish, Point, Comm, Comp

-----------------------------------------------------------------------------
(***************************************************************************)
(* The steps of a call.                                                    *)
(***************************************************************************)

\* push_event: a point, a computation, or a flow that may start a rollback.
LEMMA PushEventKeeps ==
  ASSUME QueueInv, PushEvent
  PROVE  QueueInv'
<1>1. TypeOK /\ NoLostWakeup /\ PendingAdded
  BY DEF QueueInv
<1>2. stack \in Seq(Frames) /\ stack # << >> /\ Head(stack).op = "push" /\ qcnt \in Nat
  BY <1>1 DEF TypeOK, PushEvent, InOp
<1>3. Head(stack) \in [op : {"push"}, todo : SUBSET PushItems]
  BY <1>2, HeadFrame, FrameKinds
<1>4. PICK x \in Head(stack).todo : PushPlain(x) \/ PushComputation(x) \/ PushFlow(x)
  BY DEF PushEvent
<1>5. x \in PushItems
  BY <1>3, <1>4
<1>6. x.id \in Ids /\ x.act \in Actions \cup {Finish} /\ x.time \in Nat
  BY <1>5 DEF PushItems
<1>7. Rest(x) \in Seq(Frames)
  BY <1>2, RestFrames DEF InOp
<1>8. UNCHANGED <<pending, started, ended, rev, cnt>> /\ qcnt' \in Nat
  BY <1>2 DEF PushEvent
<1>9. /\ Partial(queue', Events, Nat \X Nat)
      /\ Partial(notStarted', Ids, Actions)
      /\ nts' \in Nat /\ Partial(flows', Ids, Nat) /\ Partial(retired', Ids, [ts : Nat, end : Nat])
      /\ stack' \in Seq(Frames)
      /\ revived' \subseteq Ids
  <2>0. /\ Partial(notStarted, Ids, Actions) /\ revived \subseteq Ids
        /\ Partial(queue, Events, Nat \X Nat)
        /\ nts \in Nat /\ Partial(flows, Ids, Nat) /\ Partial(retired, Ids, [ts : Nat, end : Nat])
    BY <1>1 DEF TypeOK
  <2>1. CASE PushPlain(x)
    <3>1. Partial(queue', Events, Nat \X Nat)
      BY <1>1, <1>2, <1>6, <2>1, EnqueueType DEF PushPlain
    <3>2. QED
      BY <1>7, <2>0, <2>1, <3>1 DEF PushPlain, netVars
  <2>2. CASE PushComputation(x)
    <3>1. Partial(queue', Events, Nat \X Nat)
      BY <1>1, <1>2, <1>6, <2>2, EnqueueType DEF PushComputation, EnqueueStart
    <3>2. x.act \in Actions
      BY <1>6, <2>2, ActionKinds DEF PushComputation
    <3>3. Partial(notStarted', Ids, Actions)
      BY <1>6, <2>0, <2>2, <3>2, PutPartial DEF PushComputation, EnqueueStart
    <3>4. QED
      BY <1>7, <2>0, <2>2, <3>1, <3>3 DEF PushComputation, netVars
  <2>3. CASE PushFlow(x)
    <3> DEFINE ts == x.time * NsPerUs
    <3>1. ts \in Nat
      BY <1>6, TicksNat
    <3>2. NetArrive(x.id, ts)
      BY <2>3 DEF PushFlow
    <3> HIDE DEF ts
    <3>3. nts' \in Nat /\ Partial(flows', Ids, Nat) /\ Partial(retired', Ids, [ts : Nat, end : Nat])
      BY <1>1, <1>6, <3>1, <3>2, NetArriveType
    <3>4. x.act \in Actions
      BY <1>6, <2>3, ActionKinds DEF PushFlow
    <3>5. Revived(ts) \subseteq Ids
      BY <2>0 DEF Revived, Partial
    <3>6. CASE MustRollback(ts)
      <4>1. /\ stack' = <<[op |-> "loop", id |-> x.id, time |-> x.time, n |-> qcnt,
                           wait |-> Revived(ts)]>> \o Rest(x)
            /\ revived' = revived \cup (Revived(ts) \cap DOMAIN ended)
            /\ UNCHANGED <<queue, notStarted>>
        BY <2>3, <3>6 DEF PushFlow, ts
      <4>2. [op |-> "loop", id |-> x.id, time |-> x.time, n |-> qcnt, wait |-> Revived(ts)] \in Frames
        BY <1>2, <1>6, <3>5 DEF Frames
      <4>3. stack' \in Seq(Frames)
        BY <1>7, <4>1, <4>2
      <4>4. QED
        BY <2>0, <3>3, <3>5, <4>1, <4>3
    <3>7. CASE ~ MustRollback(ts)
      <4>1. EnqueueStart(x.id, x.act, x.time, qcnt) /\ stack' = Rest(x) /\ UNCHANGED revived
        BY <2>3, <3>7 DEF PushFlow, ts
      <4>2. Partial(queue', Events, Nat \X Nat)
        BY <1>1, <1>2, <1>6, <4>1, EnqueueType DEF EnqueueStart
      <4>3. Partial(notStarted', Ids, Actions)
        BY <1>6, <2>0, <3>4, <4>1, PutPartial DEF EnqueueStart
      <4>4. QED
        BY <1>7, <2>0, <3>3, <4>1, <4>2, <4>3
    <3>8. QED
      BY <3>6, <3>7
  <2>4. QED
    BY <1>4, <2>1, <2>2, <2>3
<1>10. TypeOK'
  BY <1>1, <1>8, <1>9 DEF TypeOK
<1>11. QED
  BY <1>1, <1>8, <1>10, WakeupFrame DEF QueueInv

\* An iteration of the rollback loop: the network completes flows.
LEMMA RollbackRunKeeps ==
  ASSUME QueueInv, RollbackRun
  PROVE  QueueInv'
<1>1. TypeOK /\ NoLostWakeup /\ PendingAdded
  BY DEF QueueInv
<1>2. stack \in Seq(Frames) /\ stack # << >> /\ Head(stack).op = "loop"
  BY <1>1 DEF TypeOK, RollbackRun, InOp
<1>3. /\ Head(stack) \in [op : {"loop"}, id : Ids, time : Nat, n : Nat, wait : SUBSET Ids]
      /\ Tail(stack) \in Seq(Frames)
  BY <1>2, HeadFrame, FrameKinds
<1>4. PICK t \in NextCompletions, done \in SUBSET DOMAIN flows :
        /\ NetRun(t, done)
        /\ stack' = <<[op |-> "finish", at |-> t, id |-> Head(stack).id,
                       time |-> Head(stack).time,
                       todo |-> {[id |-> f, ts |-> flows[f]] : f \in done}],
                      [Head(stack) EXCEPT !.wait = StillRevived(@, done)]>> \o Tail(stack)
  BY DEF RollbackRun
<1>5. t \in Nat
  BY <1>1, NextCompletionsNat
<1>6. nts' \in Nat /\ Partial(flows', Ids, Nat) /\ Partial(retired', Ids, [ts : Nat, end : Nat])
  BY <1>1, <1>4, <1>5, NetRunType
<1> DEFINE todo == {[id |-> f, ts |-> flows[f]] : f \in done}
           fin  == [op |-> "finish", at |-> t, id |-> Head(stack).id, time |-> Head(stack).time,
                    todo |-> todo]
           loop == [Head(stack) EXCEPT !.wait = StillRevived(@, done)]
<1>7. todo \in SUBSET [id : Ids, ts : Nat]
  <2>1. ASSUME NEW f \in done
        PROVE  [id |-> f, ts |-> flows[f]] \in [id : Ids, ts : Nat]
    <3>1. flows[f] \in Nat /\ f \in Ids
      BY <1>1, PartialAt DEF TypeOK
    <3>2. QED
      BY <3>1
  <2>2. QED
    BY <2>1
<1>8. fin \in Frames
  <2> HIDE DEF todo
  <2>1. QED
    BY <1>3, <1>5, <1>7 DEF Frames
<1>9. loop \in Frames
  <2>1. loop \in [op : {"loop"}, id : Ids, time : Nat, n : Nat, wait : SUBSET Ids]
    BY <1>3 DEF StillRevived
  <2>2. QED
    BY <2>1 DEF Frames
<1>10. stack' \in Seq(Frames)
  <2>1. stack' = <<fin, loop>> \o Tail(stack)
    BY <1>4
  <2> HIDE DEF fin, loop
  <2>2. <<fin, loop>> \in Seq(Frames)
    BY <1>8, <1>9
  <2>3. QED
    BY <1>3, <2>1, <2>2
<1>11. UNCHANGED <<queueVars, revived>>
  BY DEF RollbackRun
<1>12. TypeOK'
  BY <1>1, <1>6, <1>10, <1>11 DEF TypeOK, queueVars
<1>13. QED
  BY <1>1, <1>11, <1>12, WakeupFrame DEF QueueInv, queueVars

\* The rollback loop takes over the new end of a completed flow.
LEMMA RollbackFinishKeeps ==
  ASSUME QueueInv, RollbackFinish
  PROVE  QueueInv'
<1>1. TypeOK /\ NoLostWakeup /\ PendingAdded
  BY DEF QueueInv
<1>2. stack \in Seq(Frames) /\ stack # << >> /\ Head(stack).op = "finish" /\ qcnt \in Nat
  BY <1>1 DEF TypeOK, RollbackFinish, InOp
<1>3. Head(stack) \in [op : {"finish"}, at : Nat, id : Ids, time : Nat, todo : SUBSET [id : Ids, ts : Nat]]
  BY <1>2, HeadFrame, FrameKinds
<1>4. PICK r \in Head(stack).todo : FinishPushed(r) \/ FinishOther(r)
  BY DEF RollbackFinish
<1>5. r.id \in Ids /\ r.ts \in Nat
  BY <1>3, <1>4
<1>6. Rest(r) \in Seq(Frames)
  BY <1>2, RestFrames DEF InOp
<1>7. Head(stack).time \in Nat /\ ToUs(Head(stack).at) \in Nat /\ ToUs(r.ts) \in Nat
  BY <1>3, <1>5, TicksNat
<1>8. UNCHANGED <<notStarted, rev, cnt, nts, flows, retired, revived>>
  BY DEF RollbackFinish, netVars
<1>9. CASE FinishPushed(r)
  <2>1. /\ EndEvent(r.id, Head(stack).time, ToUs(Head(stack).at), Rest(r))
        /\ UNCHANGED <<queue, qcnt, started>>
    BY <1>9 DEF FinishPushed
  <2>2. /\ Partial(ended', Ids, Nat \X Nat)
        /\ Partial(pending', Ids, PendingRecords)
        /\ stack' \in Seq(Frames)
    BY <1>1, <1>5, <1>6, <1>7, <2>1, EndEventType
  <2>3. TypeOK'
    BY <1>1, <1>8, <2>1, <2>2 DEF TypeOK
  <2>4. NoLostWakeup' /\ PendingAdded'
    BY <1>5, <1>7, <1>8, <2>1, EndEventWakes
  <2>5. QED
    BY <2>3, <2>4 DEF QueueInv
<1>10. CASE FinishOther(r)
  <2>1. Partial(started', Ids, Nat)
    <3>1. Partial(started, Ids, Nat)
      BY <1>1 DEF TypeOK
    <3>2. QED
      BY <1>5, <1>7, <1>10, <3>1, PutPartial DEF FinishOther
  <2>2. Partial(queue', Events, Nat \X Nat)
    BY <1>1, <1>2, <1>5, <1>7, <1>10, EnqueueType DEF FinishOther
  <2>3. qcnt' \in Nat /\ stack' \in Seq(Frames) /\ UNCHANGED <<ended, pending>>
    BY <1>2, <1>6, <1>10 DEF FinishOther
  <2>4. TypeOK'
    BY <1>1, <1>8, <2>1, <2>2, <2>3 DEF TypeOK
  <2>5. QED
    BY <1>1, <1>8, <2>3, <2>4, WakeupFrame DEF QueueInv
<1>11. QED
  BY <1>4, <1>9, <1>10

\* The rollback loop ends; its flow is enqueued unless the loop has ended it.
LEMMA RollbackDoneKeeps ==
  ASSUME QueueInv, RollbackDone
  PROVE  QueueInv'
<1>1. TypeOK /\ NoLostWakeup /\ PendingAdded
  BY DEF QueueInv
<1>2. stack \in Seq(Frames) /\ stack # << >> /\ Head(stack).op = "loop"
  BY <1>1 DEF TypeOK, RollbackDone, InOp
<1>3. /\ Head(stack) \in [op : {"loop"}, id : Ids, time : Nat, n : Nat, wait : SUBSET Ids]
      /\ Tail(stack) \in Seq(Frames)
  BY <1>2, HeadFrame, FrameKinds
<1>4. /\ UNCHANGED <<pending, qcnt, started, ended, rev, cnt, nts, flows, retired, revived>>
      /\ stack' = Tail(stack)
  BY DEF RollbackDone, netVars
<1>5. Partial(queue', Events, Nat \X Nat) /\ Partial(notStarted', Ids, Actions)
  <2>1. Partial(queue, Events, Nat \X Nat) /\ Partial(notStarted, Ids, Actions)
    BY <1>1 DEF TypeOK
  <2>2. CASE Head(stack).id \in DOMAIN ended
    BY <2>1, <2>2 DEF RollbackDone
  <2>3. CASE Head(stack).id \notin DOMAIN ended
    <3>1. EnqueueStart(Head(stack).id, Comm, Head(stack).time, Head(stack).n)
      BY <2>3 DEF RollbackDone
    <3>2. Comm \in Actions
      BY DEF Actions
    <3>3. Partial(queue', Events, Nat \X Nat)
      BY <1>1, <1>3, <3>1, EnqueueType DEF EnqueueStart
    <3>4. Partial(notStarted', Ids, Actions)
      BY <1>3, <2>1, <3>1, <3>2, PutPartial DEF EnqueueStart
    <3>5. QED
      BY <3>3, <3>4
  <2>4. QED
    BY <2>2, <2>3
<1>6. TypeOK'
  BY <1>1, <1>3, <1>4, <1>5 DEF TypeOK
<1>7. QED
  BY <1>1, <1>4, <1>6, WakeupFrame DEF QueueInv

-----------------------------------------------------------------------------
(***************************************************************************)
(* Execution.                                                              *)
(***************************************************************************)

\* try_proceed_netsim hands the network's completions to the queue.
LEMMA ProceedNetsimKeeps ==
  ASSUME QueueInv, ProceedNetsim
  PROVE  QueueInv'
<1>1. TypeOK /\ NoLostWakeup /\ PendingAdded
  BY DEF QueueInv
<1>2. PICK t \in NextCompletions, done \in SUBSET DOMAIN flows :
        /\ NetRun(t, done)
        /\ stack' = PushAll({[id |-> f, act |-> Finish, time |-> ToUs(t)] : f \in done}, << >>)
  BY DEF ProceedNetsim
<1>3. t \in Nat
  BY <1>1, NextCompletionsNat
<1>4. nts' \in Nat /\ Partial(flows', Ids, Nat) /\ Partial(retired', Ids, [ts : Nat, end : Nat])
  BY <1>1, <1>2, <1>3, NetRunType
<1> DEFINE items == {[id |-> f, act |-> Finish, time |-> ToUs(t)] : f \in done}
<1>5. items \in SUBSET PushItems
  <2>1. ASSUME NEW f \in done
        PROVE  [id |-> f, act |-> Finish, time |-> ToUs(t)] \in PushItems
    <3>1. f \in Ids
      BY <1>1, PartialAt DEF TypeOK
    <3>2. ToUs(t) \in Nat
      BY <1>3, TicksNat
    <3>3. QED
      BY <3>1, <3>2 DEF PushItems
  <2>2. QED
    BY <2>1
<1>6. stack' \in Seq(Frames)
  <2>1. stack' = PushAll(items, << >>)
    BY <1>2
  <2> HIDE DEF items
  <2>2. << >> \in Seq(Frames)
    OBVIOUS
  <2>3. QED
    BY <1>5, <2>1, <2>2, PushAllFrames
<1>7. UNCHANGED <<queueVars, revived>>
  BY DEF ProceedNetsim
<1>8. TypeOK'
  BY <1>1, <1>4, <1>6, <1>7 DEF TypeOK, queueVars
<1>9. QED
  BY <1>1, <1>7, <1>8, WakeupFrame DEF QueueInv, queueVars

\* execute_event, whichever event is first.
LEMMA ExecuteKeeps ==
  ASSUME QueueInv, Execute
  PROVE  QueueInv'
<1>1. TypeOK /\ NoLostWakeup /\ PendingAdded
  BY DEF QueueInv
<1>2. PICK e \in DOMAIN queue : ExecuteEvent(e)
  BY DEF Execute
<1>3. /\ Partial(queue, Events, Nat \X Nat) /\ Partial(notStarted, Ids, Actions)
      /\ Partial(started, Ids, Nat) /\ qcnt \in Nat
  BY <1>1 DEF TypeOK
<1>4. queue[e] \in Nat \X Nat /\ e \in Events
  BY <1>2, <1>3, PartialAt
<1>5. queue[e][1] \in Nat /\ e[2] \in Ids
  BY <1>4 DEF Events
<1>6. Partial(Without(queue, {e}), Events, Nat \X Nat)
  BY <1>3, WithoutPartial
<1>7. UNCHANGED <<rev, cnt, nts, flows, retired, revived>>
  BY <1>2 DEF ExecuteEvent, netVars
<1>8. << >> \in Seq(Frames)
  OBVIOUS
<1>9. CASE ExecutePoint(e)
  <2>1. /\ queue' = Without(queue, {e})
        /\ EndEvent(e[2], queue[e][1], queue[e][1], << >>)
        /\ UNCHANGED <<qcnt, notStarted, started>>
    BY <1>9 DEF ExecutePoint
  <2>2. /\ Partial(ended', Ids, Nat \X Nat)
        /\ Partial(pending', Ids, PendingRecords)
        /\ stack' \in Seq(Frames)
    BY <1>1, <1>5, <1>8, <2>1, EndEventType
  <2>3. TypeOK'
    BY <1>1, <1>6, <1>7, <2>1, <2>2 DEF TypeOK
  <2>4. QED
    BY <1>5, <1>7, <2>1, <2>3, EndEventWakes DEF QueueInv
<1>10. CASE ExecuteEnd(e)
  <2>1. /\ queue' = Without(queue, {e})
        /\ e[2] \in DOMAIN started
        /\ started' = Without(started, {e[2]})
        /\ EndEvent(e[2], started[e[2]], queue[e][1], << >>)
        /\ UNCHANGED <<qcnt, notStarted>>
    BY <1>10 DEF ExecuteEnd
  <2>2. started[e[2]] \in Nat /\ Partial(started', Ids, Nat)
    BY <1>3, <2>1, PartialAt, WithoutPartial
  <2>3. /\ Partial(ended', Ids, Nat \X Nat)
        /\ Partial(pending', Ids, PendingRecords)
        /\ stack' \in Seq(Frames)
    BY <1>1, <1>5, <1>8, <2>1, <2>2, EndEventType
  <2>4. TypeOK'
    BY <1>1, <1>6, <1>7, <2>1, <2>2, <2>3 DEF TypeOK
  <2>5. QED
    BY <1>5, <1>7, <2>1, <2>2, <2>4, EndEventWakes DEF QueueInv
<1>11. CASE ExecuteStart(e)
  <2> DEFINE id == e[2]
  <2>1. /\ id \in DOMAIN notStarted
        /\ notStarted' = Without(notStarted, {id})
        /\ started' = Put(started, id, queue[e][1])
        /\ UNCHANGED <<ended, pending, stack>>
    BY <1>11 DEF ExecuteStart
  <2>2. Partial(notStarted', Ids, Actions) /\ Partial(started', Ids, Nat)
    BY <1>3, <1>5, <2>1, PutPartial, WithoutPartial
  <2>3. notStarted[id].dur \in Nat
    BY <1>3, <2>1, PartialAt, ActionKinds
  <2>4. Partial(queue', Events, Nat \X Nat) /\ qcnt' \in Nat
    <3>1. CASE /\ queue' = Put(Without(queue, {e}), <<"End", id>>,
                               <<queue[e][1] + notStarted[id].dur, qcnt>>)
               /\ qcnt' = qcnt + 1
      <4>1. <<"End", id>> \in Events /\ <<queue[e][1] + notStarted[id].dur, qcnt>> \in Nat \X Nat
        BY <1>3, <1>5, <2>3 DEF Events
      <4>2. QED
        BY <1>3, <1>6, <3>1, <4>1, PutPartial
    <3>2. CASE queue' = Without(queue, {e}) /\ qcnt' = qcnt
      BY <1>3, <1>6, <3>2
    <3>3. QED
      BY <1>11, <3>1, <3>2 DEF ExecuteStart
  <2>5. TypeOK'
    BY <1>1, <1>7, <2>1, <2>2, <2>4 DEF TypeOK
  <2>6. QED
    BY <1>1, <1>7, <2>1, <2>5, WakeupFrame DEF QueueInv
<1>12. QED
  BY <1>2, <1>9, <1>10, <1>11 DEF ExecuteEvent

-----------------------------------------------------------------------------
(***************************************************************************)
(* The calls that build the graph.                                         *)
(***************************************************************************)

\* add_action_or_point: a new event enters rev_dependencies of all it waits for.
LEMMA AddActionOrPointKeeps ==
  ASSUME QueueInv, NEW deps \in SUBSET (0 .. cnt - 1 \cup {NoneDep}), NEW act \in Actions,
         NEW t \in Nat, AddActionOrPoint(deps, act, t)
  PROVE  QueueInv'
<1> DEFINE real == deps \ {NoneDep}
           over == real \cap DOMAIN ended
           live == deps \ over
<1>1. TypeOK /\ NoLostWakeup /\ PendingAdded
  BY DEF QueueInv
<1>2. /\ cnt \in Nat /\ cnt < MaxEvents /\ MaxEvents \in Nat /\ cnt \in Ids
      /\ cnt' = cnt + 1 /\ cnt' \in 0 .. MaxEvents
  BY <1>1, ConstantsAssumption DEF TypeOK, AddActionOrPoint, Ids
<1>3. 0 .. cnt - 1 \subseteq Ids /\ real \subseteq 0 .. cnt - 1
  <2>1. 0 .. cnt - 1 \subseteq Ids
    BY <1>2 DEF Ids
  <2>2. real \subseteq 0 .. cnt - 1
    BY Zenon
  <2>3. QED
    BY <2>1, <2>2
<1>4. rev' = [d \in Ids |-> IF d \in real THEN rev[d] \cup {cnt} ELSE rev[d]]
  BY DEF AddActionOrPoint
<1>5. UNCHANGED <<queue, qcnt, notStarted, started, ended, nts, flows, retired, revived>>
  BY DEF AddActionOrPoint, netVars
<1>6. PICK now \in {t} \cup {ended[d][2] : d \in over} :
        IF live = {}
        THEN /\ stack' = PushAll({[id |-> cnt, act |-> act, time |-> now]}, << >>)
             /\ UNCHANGED pending
        ELSE /\ pending' = Put(pending, cnt, [deps |-> live, arrive |-> now,
                                              depEnd |-> 0, act |-> act])
             /\ UNCHANGED stack
  BY DEF AddActionOrPoint
<1>7. now \in Nat
  <2>1. ASSUME NEW d \in over
        PROVE  ended[d][2] \in Nat
    <3>1. ended[d] \in Nat \X Nat
      BY <1>1, PartialAt DEF TypeOK
    <3>2. QED
      BY <3>1
  <2>2. QED
    BY <1>6, <2>1
<1>8. rev' \in [Ids -> SUBSET Ids]
  BY <1>1, <1>2, <1>4 DEF TypeOK
<1>9. \A d \in Ids : rev[d] \subseteq rev'[d]
  BY <1>4
<1>10. CASE live = {}
  <2>1. stack' = PushAll({[id |-> cnt, act |-> act, time |-> now]}, << >>) /\ UNCHANGED pending
    BY <1>6, <1>10
  <2>2. {[id |-> cnt, act |-> act, time |-> now]} \in SUBSET PushItems
    BY <1>2, <1>7 DEF PushItems
  <2>3. << >> \in Seq(Frames)
    OBVIOUS
  <2>4. stack' \in Seq(Frames)
    BY <2>1, <2>2, <2>3, PushAllFrames
  <2>5. TypeOK'
    BY <1>1, <1>2, <1>5, <1>8, <2>1, <2>4 DEF TypeOK
  <2>6. PendingAdded'
    BY <1>1, <1>2, <2>1 DEF PendingAdded
  <2>7. NoLostWakeup'
    <3>1. ASSUME NEW p \in DOMAIN pending, NEW d \in pending[p].deps \ {NoneDep}
          PROVE  d < cnt' /\ d \notin DOMAIN ended' /\ p \in rev'[d]
      <4>1. pending[p] \in PendingRecords
        BY <1>1, PartialAt DEF TypeOK
      <4>2. d \in Ids /\ d \in Nat
        BY <4>1 DEF PendingRecords, Ids
      <4>3. d < cnt /\ d \notin DOMAIN ended /\ p \in rev[d]
        BY <1>1 DEF NoLostWakeup
      <4>4. QED
        BY <1>2, <1>5, <1>9, <4>2, <4>3
    <3>2. QED
      BY <1>1, <2>1, <3>1 DEF NoLostWakeup
  <2>8. QED
    BY <2>5, <2>6, <2>7 DEF QueueInv
<1>11. CASE live # {}
  <2> DEFINE new == [deps |-> live, arrive |-> now, depEnd |-> 0, act |-> act]
  <2>1. pending' = Put(pending, cnt, new) /\ UNCHANGED stack
    BY <1>6, <1>11
  <2>2. new \in PendingRecords
    BY <1>3, <1>7 DEF PendingRecords
  <2>3. Partial(pending', Ids, PendingRecords)
    <3> HIDE DEF new
    <3>1. Partial(pending, Ids, PendingRecords)
      BY <1>1 DEF TypeOK
    <3>2. QED
      BY <1>2, <2>1, <2>2, <3>1, PutPartial
  <2>4. TypeOK'
    BY <1>1, <1>2, <1>5, <1>8, <2>1, <2>3 DEF TypeOK
  <2>5. /\ DOMAIN pending' = DOMAIN pending \cup {cnt}
        /\ pending'[cnt] = new
        /\ \A p \in DOMAIN pending \ {cnt} : pending'[p] = pending[p]
    BY <2>1 DEF Put
  <2>6. PendingAdded'
    BY <1>1, <1>2, <2>5 DEF PendingAdded
  <2>7. ASSUME NEW p \in DOMAIN pending'
        PROVE  /\ pending'[p].deps # {}
               /\ \A d \in pending'[p].deps \ {NoneDep} :
                    d < cnt' /\ d \notin DOMAIN ended' /\ p \in rev'[d]
    <3>1. CASE p = cnt
      <4>1. pending'[p].deps = live
        BY <2>5, <3>1
      <4>2. ASSUME NEW d \in live \ {NoneDep}
            PROVE  d < cnt' /\ d \notin DOMAIN ended' /\ p \in rev'[d]
        <5>1. d \in real /\ d \notin DOMAIN ended
          OBVIOUS
        <5>2. d \in 0 .. cnt - 1 /\ d \in Ids
          BY <1>3, <5>1
        <5>3. d < cnt'
          BY <1>2, <5>2
        <5>4. p \in rev'[d]
          BY <1>4, <3>1, <5>1, <5>2
        <5>5. QED
          BY <1>5, <5>1, <5>3, <5>4
      <4>3. QED
        BY <1>11, <4>1, <4>2
    <3>2. CASE p # cnt
      <4>1. p \in DOMAIN pending /\ pending'[p] = pending[p]
        BY <2>5, <3>2
      <4>2. pending[p] \in PendingRecords
        BY <1>1, <4>1, PartialAt DEF TypeOK
      <4>3. ASSUME NEW d \in pending[p].deps \ {NoneDep}
            PROVE  d < cnt' /\ d \notin DOMAIN ended' /\ p \in rev'[d]
        <5>1. d \in Ids /\ d \in Nat
          BY <4>2 DEF PendingRecords, Ids
        <5>2. d < cnt /\ d \notin DOMAIN ended /\ p \in rev[d]
          BY <1>1, <4>1 DEF NoLostWakeup
        <5>3. QED
          BY <1>2, <1>5, <1>9, <5>1, <5>2
      <4>4. QED
        BY <1>1, <4>1, <4>3 DEF NoLostWakeup
    <3>3. QED
      BY <3>1, <3>2
  <2>8. NoLostWakeup'
    BY <2>7 DEF NoLostWakeup
  <2>9. QED
    BY <2>4, <2>6, <2>8 DEF QueueInv
<1>12. QED
  BY <1>10, <1>11

\* add_dependency: both ends of the new edge were added before.
LEMMA AddDependencyKeeps ==
  ASSUME QueueInv, NEW id \in DOMAIN pending, NEW dep \in DOMAIN pending, AddDependency(id, dep)
  PROVE  QueueInv'
<1>1. TypeOK /\ NoLostWakeup /\ PendingAdded
  BY DEF QueueInv
<1>2. id \in Ids /\ dep \in Ids /\ pending[id] \in PendingRecords
  BY <1>1, PartialAt DEF TypeOK
<1>3. dep < cnt /\ dep # NoneDep
  BY <1>1, ConstantsAssumption DEF PendingAdded, TypeOK
<1>4. UNCHANGED <<queue, qcnt, notStarted, started, ended, cnt, nts, flows, retired, stack, revived>>
  BY DEF AddDependency, netVars
<1>5. rev' = [rev EXCEPT ![dep] = @ \cup {id}]
  BY DEF AddDependency
<1>6. /\ rev' \in [Ids -> SUBSET Ids]
      /\ \A d \in Ids : rev[d] \subseteq rev'[d]
      /\ id \in rev'[dep]
  BY <1>1, <1>2, <1>5 DEF TypeOK
<1>7. DOMAIN pending' = DOMAIN pending
  BY DEF AddDependency
<1>8. \A p \in DOMAIN pending : p # id => pending'[p] = pending[p]
  BY DEF AddDependency
<1>9. \/ pending'[id] = pending[id]
      \/ dep \notin DOMAIN ended /\ pending'[id] = [pending[id] EXCEPT !.deps = @ \cup {dep}]
  BY DEF AddDependency
<1>10. pending'[id] \in PendingRecords
  BY <1>2, <1>9 DEF PendingRecords
<1>11. Partial(pending', Ids, PendingRecords)
  <2>1. Partial(pending, Ids, PendingRecords)
    BY <1>1 DEF TypeOK
  <2>2. ASSUME NEW p \in DOMAIN pending
        PROVE  pending'[p] \in PendingRecords
    BY <1>8, <1>10, <2>1, PartialAt
  <2>3. pending' = [p \in DOMAIN pending |-> pending'[p]]
    BY DEF AddDependency, Partial, TypeOK, QueueInv
  <2>4. QED
    BY <1>7, <2>1, <2>2, <2>3 DEF Partial
<1>12. TypeOK'
  BY <1>1, <1>4, <1>6, <1>11 DEF TypeOK
<1>13. PendingAdded'
  BY <1>1, <1>4, <1>7 DEF PendingAdded
<1>14. ASSUME NEW p \in DOMAIN pending'
       PROVE  /\ pending'[p].deps # {}
              /\ \A d \in pending'[p].deps \ {NoneDep} :
                   d < cnt' /\ d \notin DOMAIN ended' /\ p \in rev'[d]
  <2>1. p \in DOMAIN pending
    BY <1>7
  <2>2. pending[p] \in PendingRecords
    BY <1>1, <2>1, PartialAt DEF TypeOK
  <2>3. pending[p].deps # {}
    BY <1>1, <2>1 DEF NoLostWakeup
  <2>4. ASSUME NEW d \in pending[p].deps \ {NoneDep}
        PROVE  d < cnt' /\ d \notin DOMAIN ended' /\ p \in rev'[d]
    <3>1. d \in Ids
      BY <2>2 DEF PendingRecords
    <3>2. d < cnt /\ d \notin DOMAIN ended /\ p \in rev[d]
      BY <1>1, <2>1 DEF NoLostWakeup
    <3>3. QED
      BY <1>4, <1>6, <3>1, <3>2
  <2>5. CASE pending'[p] = pending[p]
    BY <2>3, <2>4, <2>5
  <2>6. CASE p = id /\ dep \notin DOMAIN ended /\ pending'[p] = [pending[p] EXCEPT !.deps = @ \cup {dep}]
    <3>1. pending'[p].deps = pending[p].deps \cup {dep}
      BY <2>2, <2>6 DEF PendingRecords
    <3>2. dep < cnt' /\ dep \notin DOMAIN ended' /\ p \in rev'[dep]
      BY <1>3, <1>4, <1>6, <2>6
    <3>3. QED
      BY <2>4, <3>1, <3>2
  <2>7. QED
    BY <1>8, <1>9, <2>1, <2>5, <2>6
<1>15. NoLostWakeup'
  BY <1>14 DEF NoLostWakeup
<1>16. QED
  BY <1>12, <1>13, <1>15 DEF QueueInv

\* remove_none_dependency: an event with nothing left to wait for is not left behind.
LEMMA RemoveNoneDependencyKeeps ==
  ASSUME QueueInv, NEW id \in DOMAIN pending, RemoveNoneDependency(id)
  PROVE  QueueInv'
<1>1. TypeOK /\ NoLostWakeup /\ PendingAdded
  BY DEF QueueInv
<1>2. Partial(pending, Ids, PendingRecords)
  BY <1>1 DEF TypeOK
<1>3. id \in Ids /\ pending[id] \in PendingRecords
  BY <1>2, PartialAt
<1>4. UNCHANGED <<queue, qcnt, notStarted, started, ended, rev, cnt, nts, flows, retired, revived>>
  BY DEF RemoveNoneDependency, netVars
<1>5. CASE pending[id].deps = {NoneDep}
  <2> DEFINE item == [id |-> id, act |-> pending[id].act,
                      time |-> Later(pending[id].depEnd, pending[id].arrive)]
  <2>1. pending' = Without(pending, {id}) /\ stack' = PushAll({item}, << >>)
    BY <1>5 DEF RemoveNoneDependency
  <2>2. Later(pending[id].depEnd, pending[id].arrive) \in Nat /\ pending[id].act \in Actions
    BY <1>3, LaterNat DEF PendingRecords
  <2>3. item \in PushItems
    BY <1>3, <2>2 DEF PushItems
  <2>4. stack' \in Seq(Frames)
    <3> HIDE DEF item
    <3>1. {item} \in SUBSET PushItems /\ << >> \in Seq(Frames)
      BY <2>3
    <3>2. QED
      BY <2>1, <3>1, PushAllFrames
  <2>5. Partial(pending', Ids, PendingRecords)
    BY <1>2, <2>1, WithoutPartial
  <2>6. TypeOK'
    BY <1>1, <1>4, <2>4, <2>5 DEF TypeOK
  <2>7. DOMAIN pending' \subseteq DOMAIN pending /\ \A p \in DOMAIN pending' : pending'[p] = pending[p]
    BY <2>1 DEF Without
  <2>8. NoLostWakeup' /\ PendingAdded'
    BY <1>1, <1>4, <2>7 DEF NoLostWakeup, PendingAdded
  <2>9. QED
    BY <2>6, <2>8 DEF QueueInv
<1>6. CASE pending[id].deps # {NoneDep}
  <2>1. /\ pending' = [pending EXCEPT ![id].deps = @ \ {NoneDep}]
        /\ UNCHANGED stack
        /\ NoneDep \in pending[id].deps
    BY <1>6 DEF RemoveNoneDependency
  <2>2. /\ DOMAIN pending' = DOMAIN pending
        /\ \A p \in DOMAIN pending : p # id => pending'[p] = pending[p]
        /\ pending'[id] = [pending[id] EXCEPT !.deps = @ \ {NoneDep}]
    BY <2>1
  <2>3. pending'[id] \in PendingRecords /\ pending'[id].deps = pending[id].deps \ {NoneDep}
    BY <1>3, <2>2 DEF PendingRecords
  <2>4. Partial(pending', Ids, PendingRecords)
    <3>1. ASSUME NEW p \in DOMAIN pending
          PROVE  pending'[p] \in PendingRecords
      BY <1>2, <2>2, <2>3, PartialAt
    <3>2. pending' = [p \in DOMAIN pending |-> pending'[p]]
      BY <1>2, <2>1 DEF Partial
    <3>3. QED
      BY <1>2, <2>2, <3>1, <3>2 DEF Partial
  <2>5. TypeOK'
    BY <1>1, <1>4, <2>1, <2>4 DEF TypeOK
  <2>6. pending'[id].deps # {}
    BY <1>6, <2>1, <2>3
  <2>7. NoLostWakeup' /\ PendingAdded'
    BY <1>1, <1>4, <2>2, <2>3, <2>6 DEF NoLostWakeup, PendingAdded
  <2>8. QED
    BY <2>5, <2>7 DEF QueueInv
<1>7. QED
  BY <1>5, <1>6

-----------------------------------------------------------------------------
(***************************************************************************)
(* The steps.  The lemmas let a caller pass any time, as the clocks of the *)
(* hosts are in no set fixed beforehand.                                   *)
(***************************************************************************)

AnyBuild ==
  \/ \E deps \in SUBSET (0 .. cnt - 1 \cup {NoneDep}), act \in Actions, t \in Nat :
       AddActionOrPoint(deps, act, t)
  \/ \E id, dep \in DOMAIN pending : AddDependency(id, dep)
  \/ \E id \in DOMAIN pending : RemoveNoneDependency(id)

AnyNext == AnyBuild \/ ProceedNetsim \/ Execute \/ Internal

\* In particular the times a run gives it.
LEMMA NextIsAny == [Next]_vars => [AnyNext]_vars
BY ConstantsAssumption DEF Next, Build, AnyNext, AnyBuild

\* An empty queue satisfies the invariant.
LEMMA InitQueueInv ==
  ASSUME Init
  PROVE  QueueInv
<1>1. TypeOK
  BY ConstantsAssumption DEF Init, TypeOK, Partial
<1>2. QED
  BY <1>1 DEF Init, QueueInv, NoLostWakeup, PendingAdded

\* Every step of every call keeps the invariant.
LEMMA NextQueueInv ==
  ASSUME QueueInv, [AnyNext]_vars
  PROVE  QueueInv'
<1>1. CASE AnyBuild
  BY <1>1, AddActionOrPointKeeps, AddDependencyKeeps, RemoveNoneDependencyKeeps DEF AnyBuild
<1>2. CASE ProceedNetsim
  BY <1>2, ProceedNetsimKeeps
<1>3. CASE Execute
  BY <1>3, ExecuteKeeps
<1>4. CASE Internal
  BY <1>4, PushEventKeeps, RollbackRunKeeps, RollbackFinishKeeps, RollbackDoneKeeps DEF Internal
<1>5. CASE UNCHANGED vars
  <2>1. UNCHANGED <<pending, queue, qcnt, notStarted, started, ended, rev, cnt, nts, flows, retired,
                    stack, revived>>
    BY <1>5 DEF vars, queueVars, netVars
  <2>2. QED
    BY <2>1, WakeupFrame DEF QueueInv, TypeOK
<1>6. QED
  BY <1>1, <1>2, <1>3, <1>4, <1>5 DEF AnyNext

\* The inductive invariant: types, wake-ups, and that only added events wait.
THEOREM QueueInvariant == Spec => []QueueInv
<1>1. Init => QueueInv
  BY InitQueueInv
<1>2. QueueInv /\ [Next]_vars => QueueInv'
  BY NextQueueInv, NextIsAny
<1>3. QED
  BY <1>1, <1>2, PTL DEF Spec

\* The queue, the records of started and ended events, the network's flows and
\* the call stack keep their types through every call and every rollback: the
\* unsigned times of event_queue.rs never become negative, and no map holds an
\* id beyond the events the bound MaxEvents allows.
THEOREM TypeCorrect == Spec => []TypeOK
<1>1. QueueInv => TypeOK
  BY DEF QueueInv
<1>2. QED
  BY <1>1, QueueInvariant, PTL

\* An event that is pending waits for something, every event it waits for is
\* yet to end, and will find it in rev_dependencies when it does (end_event,
\* add_action_or_point, add_dependency, remove_none_dependency).
THEOREM WakeupsArrive == Spec => []NoLostWakeup
<1>1. QueueInv => NoLostWakeup
  BY DEF QueueInv
<1>2. QED
  BY <1>1, QueueInvariant, PTL

-----------------------------------------------------------------------------
(***************************************************************************)
(* The call stack of the event queue, for any bound on the events, any     *)
(* times, durations and completion times: a rollback is never started      *)
(* inside another one, and the loop of a rollback waits only for flows the *)
(* network has still to complete.                                          *)
(*                                                                         *)
(* A rollback sets the network to the time of the flow that is pushed, and *)
(* only the rollback loop moves it on.  So what is pushed while the loop   *)
(* runs is pushed at the microsecond the network has reached, or later,    *)
(* and is not in its past.  The invariant says this of every frame of the  *)
(* stack, in terms of the frames below it.                                 *)
(***************************************************************************)

-----------------------------------------------------------------------------
(***************************************************************************)
(* Views of a stack.                                                       *)
(***************************************************************************)

\* The items a stack has still to push, its rollback loops, and the completed
\* flows a loop has still to handle.
ItemsIn(s) == UNION {s[i].todo : i \in {i \in 1 .. Len(s) : s[i].op = "push"}}
LoopsIn(s) == {s[i] : i \in {i \in 1 .. Len(s) : s[i].op = "loop"}}
TodoIn(s)  == UNION {s[i].todo : i \in {i \in 1 .. Len(s) : s[i].op = "finish"}}

\* Frame f may lie on the frames s when the network stands at now.
\*  - Ends from the network are pushed by a call of its own.
\*  - A rollback is not started within another.
\*  - Completed flows are handled by the loop below, at the network's time.
\*  - What is pushed within a loop is not in the network's past, and no event is
\*    pushed twice.
FrameOver(f, s, now) ==
  /\ \A y \in ItemsIn(s) : y.act # Finish
  /\ f.op = "loop" => LoopsIn(s) = {}
  /\ f.op = "finish" =>
       /\ TodoIn(s) = {} /\ LoopsIn(s) # {} /\ f.at = now
       /\ \A l \in LoopsIn(s) : l.id = f.id /\ l.time = f.time
  /\ f.op = "push" =>
       \A x \in f.todo :
         /\ LoopsIn(s) # {} => x.time >= ToUs(now)
         /\ x.act = Finish => s = << >>
         /\ \A y \in f.todo : (y.id = x.id => y = x) /\ (x.act = Finish => y.act = Finish)
         /\ \A y \in ItemsIn(s) : y.id # x.id

\* Every frame may lie on the ones below it.
Shape(s, now) == \A i \in 1 .. Len(s) : FrameOver(s[i], SubSeq(s, i + 1, Len(s)), now)

\* A stack of one more frame has that frame's items, loop or completed flows too.
LEMMA ConsViews ==
  ASSUME NEW f \in Frames, NEW s \in Seq(Frames)
  PROVE  /\ <<f>> \o s \in Seq(Frames)
         /\ ItemsIn(<<f>> \o s) = (IF f.op = "push" THEN f.todo ELSE {}) \cup ItemsIn(s)
         /\ LoopsIn(<<f>> \o s) = (IF f.op = "loop" THEN {f} ELSE {}) \cup LoopsIn(s)
         /\ TodoIn(<<f>> \o s) = (IF f.op = "finish" THEN f.todo ELSE {}) \cup TodoIn(s)
<1> DEFINE c == <<f>> \o s
<1>1. /\ c \in Seq(Frames) /\ Len(c) = Len(s) + 1 /\ Len(s) \in Nat
      /\ c[1] = f
      /\ \A i \in 1 .. Len(s) : c[i + 1] = s[i]
  OBVIOUS
<1>2. \A i \in 1 .. Len(c) : i = 1 \/ (i - 1 \in 1 .. Len(s) /\ c[i] = s[i - 1])
  BY <1>1
<1>3. \A i \in 1 .. Len(s) : i + 1 \in 1 .. Len(c)
  BY <1>1
<1>4. 1 \in 1 .. Len(c)
  BY <1>1
<1> HIDE DEF c
<1>5. ItemsIn(c) = (IF f.op = "push" THEN f.todo ELSE {}) \cup ItemsIn(s)
  <2>1. \A x : x \in ItemsIn(c) <=> \E i \in 1 .. Len(c) : c[i].op = "push" /\ x \in c[i].todo
    BY DEF ItemsIn
  <2>2. \A x : x \in ItemsIn(s) <=> \E i \in 1 .. Len(s) : s[i].op = "push" /\ x \in s[i].todo
    BY DEF ItemsIn
  <2>3. ASSUME NEW x \in ItemsIn(c)
        PROVE  x \in (IF f.op = "push" THEN f.todo ELSE {}) \cup ItemsIn(s)
    <3>1. PICK i \in 1 .. Len(c) : c[i].op = "push" /\ x \in c[i].todo
      BY <2>1
    <3>2. QED
      BY <1>1, <1>2, <2>2, <3>1
  <2>4. ASSUME NEW x \in (IF f.op = "push" THEN f.todo ELSE {}) \cup ItemsIn(s)
        PROVE  x \in ItemsIn(c)
    BY <1>1, <1>3, <1>4, <2>1, <2>2
  <2>5. QED
    BY <2>3, <2>4
<1>6. LoopsIn(c) = (IF f.op = "loop" THEN {f} ELSE {}) \cup LoopsIn(s)
  <2>1. \A x : x \in LoopsIn(c) <=> \E i \in 1 .. Len(c) : c[i].op = "loop" /\ x = c[i]
    BY DEF LoopsIn
  <2>2. \A x : x \in LoopsIn(s) <=> \E i \in 1 .. Len(s) : s[i].op = "loop" /\ x = s[i]
    BY DEF LoopsIn
  <2>3. ASSUME NEW x \in LoopsIn(c)
        PROVE  x \in (IF f.op = "loop" THEN {f} ELSE {}) \cup LoopsIn(s)
    <3>1. PICK i \in 1 .. Len(c) : c[i].op = "loop" /\ x = c[i]
      BY <2>1
    <3>2. QED
      BY <1>1, <1>2, <2>2, <3>1
  <2>4. ASSUME NEW x \in (IF f.op = "loop" THEN {f} ELSE {}) \cup LoopsIn(s)
        PROVE  x \in LoopsIn(c)
    BY <1>1, <1>3, <1>4, <2>1, <2>2
  <2>5. QED
    BY <2>3, <2>4
<1>7. TodoIn(c) = (IF f.op = "finish" THEN f.todo ELSE {}) \cup TodoIn(s)
  <2>1. \A x : x \in TodoIn(c) <=> \E i \in 1 .. Len(c) : c[i].op = "finish" /\ x \in c[i].todo
    BY DEF TodoIn
  <2>2. \A x : x \in TodoIn(s) <=> \E i \in 1 .. Len(s) : s[i].op = "finish" /\ x \in s[i].todo
    BY DEF TodoIn
  <2>3. ASSUME NEW x \in TodoIn(c)
        PROVE  x \in (IF f.op = "finish" THEN f.todo ELSE {}) \cup TodoIn(s)
    <3>1. PICK i \in 1 .. Len(c) : c[i].op = "finish" /\ x \in c[i].todo
      BY <2>1
    <3>2. QED
      BY <1>1, <1>2, <2>2, <3>1
  <2>4. ASSUME NEW x \in (IF f.op = "finish" THEN f.todo ELSE {}) \cup TodoIn(s)
        PROVE  x \in TodoIn(c)
    BY <1>1, <1>3, <1>4, <2>1, <2>2
  <2>5. QED
    BY <2>3, <2>4
<1>8. QED
  BY <1>1, <1>5, <1>6, <1>7 DEF c

\* An empty stack has nothing.
LEMMA NilViews ==
  /\ ItemsIn(<< >>) = {} /\ LoopsIn(<< >>) = {} /\ TodoIn(<< >>) = {}
  /\ \A now : Shape(<< >>, now)
<1>1. Len(<< >>) = 0 /\ 1 .. 0 = {}
  OBVIOUS
<1>2. QED
  BY <1>1 DEF ItemsIn, LoopsIn, TodoIn, Shape

\* A stack is its innermost frame on the others.
LEMMA HeadOnTail ==
  ASSUME NEW s \in Seq(Frames), s # << >>
  PROVE  Head(s) \in Frames /\ Tail(s) \in Seq(Frames) /\ s = <<Head(s)>> \o Tail(s)
OBVIOUS

\* Two frames on a stack are one on a stack of one more.
LEMMA TwoFrames ==
  ASSUME NEW f \in Frames, NEW g \in Frames, NEW s \in Seq(Frames)
  PROVE  <<f, g>> \o s = <<f>> \o (<<g>> \o s)
<1> DEFINE a == <<f, g>> \o s
           b == <<g>> \o s
           c == <<f>> \o b
<1>1. b \in Seq(Frames) /\ Len(b) = Len(s) + 1 /\ b[1] = g /\ \A i \in 1 .. Len(s) : b[i + 1] = s[i]
  OBVIOUS
<1>2. a \in Seq(Frames) /\ Len(a) = Len(s) + 2 /\ a[1] = f /\ a[2] = g
  OBVIOUS
<1>3. \A i \in 1 .. Len(s) : a[i + 2] = s[i]
  OBVIOUS
<1> HIDE DEF b
<1>4. c \in Seq(Frames) /\ Len(c) = Len(b) + 1 /\ c[1] = f /\ \A i \in 1 .. Len(b) : c[i + 1] = b[i]
  BY <1>1
<1> HIDE DEF a, c
<1>5. Len(a) = Len(c) /\ Len(s) \in Nat
  BY <1>1, <1>2, <1>4
<1>6. ASSUME NEW i \in 1 .. Len(a)
      PROVE  a[i] = c[i]
  <2>1. CASE i = 1
    BY <1>2, <1>4, <2>1
  <2>2. CASE i = 2
    <3>1. 1 \in 1 .. Len(b) /\ 1 + 1 = 2
      BY <1>1, <1>5
    <3>2. c[2] = b[1]
      BY <1>4, <3>1
    <3>3. QED
      BY <1>1, <1>2, <2>2, <3>2
  <2>3. CASE i > 2
    <3>1. i - 2 \in 1 .. Len(s) /\ i - 1 \in 1 .. Len(b) /\ (i - 2) + 1 = i - 1
          /\ (i - 2) + 2 = i /\ (i - 1) + 1 = i
      BY <1>1, <1>2, <1>5, <2>3
    <3>2. a[i] = s[i - 2]
      BY <1>3, <3>1
    <3>3. b[i - 1] = s[i - 2]
      BY <1>1, <3>1
    <3>4. c[i] = b[i - 1]
      BY <1>4, <3>1
    <3>5. QED
      BY <3>2, <3>3, <3>4
  <2>4. QED
    BY <1>2, <1>5, <2>1, <2>2, <2>3
<1>7. a = c
  BY <1>2, <1>4, <1>5, <1>6
<1>8. QED
  BY <1>7 DEF a, b, c

\* A stack is in order if its innermost frame may lie on the others and they are.
LEMMA ShapeCons ==
  ASSUME NEW f \in Frames, NEW s \in Seq(Frames), NEW now
  PROVE  Shape(<<f>> \o s, now) <=> FrameOver(f, s, now) /\ Shape(s, now)
<1> DEFINE c == <<f>> \o s
<1>1. /\ c \in Seq(Frames) /\ Len(c) = Len(s) + 1 /\ Len(s) \in Nat
      /\ c[1] = f
      /\ \A i \in 1 .. Len(s) : c[i + 1] = s[i]
  OBVIOUS
<1>2. SubSeq(c, 2, Len(c)) = s
  BY <1>1
<1>3. \A i \in 1 .. Len(s) : SubSeq(c, i + 2, Len(c)) = SubSeq(s, i + 1, Len(s))
  BY <1>1
<1> HIDE DEF c
<1>4. ASSUME Shape(c, now) PROVE FrameOver(f, s, now) /\ Shape(s, now)
  <2>1. FrameOver(f, s, now)
    <3>1. 1 \in 1 .. Len(c)
      BY <1>1
    <3>2. FrameOver(c[1], SubSeq(c, 1 + 1, Len(c)), now)
      BY <1>4, <3>1 DEF Shape
    <3>3. c[1] = f /\ SubSeq(c, 1 + 1, Len(c)) = s
      BY <1>1, <1>2
    <3>4. QED
      BY <3>2, <3>3, Zenon
  <2>2. ASSUME NEW i \in 1 .. Len(s)
        PROVE  FrameOver(s[i], SubSeq(s, i + 1, Len(s)), now)
    <3>1. i + 1 \in 1 .. Len(c) /\ (i + 1) + 1 = i + 2
      BY <1>1
    <3>2. FrameOver(c[i + 1], SubSeq(c, (i + 1) + 1, Len(c)), now)
      BY <1>4, <3>1 DEF Shape
    <3>3. c[i + 1] = s[i] /\ SubSeq(c, (i + 1) + 1, Len(c)) = SubSeq(s, i + 1, Len(s))
      BY <1>1, <1>3, <3>1
    <3>4. QED
      BY <3>2, <3>3, Zenon
  <2>3. QED
    BY <2>1, <2>2 DEF Shape
<1>5. ASSUME FrameOver(f, s, now), Shape(s, now) PROVE Shape(c, now)
  <2>1. ASSUME NEW i \in 1 .. Len(c)
        PROVE  FrameOver(c[i], SubSeq(c, i + 1, Len(c)), now)
    <3>1. CASE i = 1
      <4>1. c[i] = f /\ SubSeq(c, i + 1, Len(c)) = s
        BY <1>1, <1>2, <3>1
      <4>2. QED
        BY <1>5, <4>1, Zenon
    <3>2. CASE i # 1
      <4>1. i - 1 \in 1 .. Len(s) /\ (i - 1) + 1 = i /\ (i - 1) + 2 = i + 1
        BY <1>1, <3>2
      <4>2. FrameOver(s[i - 1], SubSeq(s, (i - 1) + 1, Len(s)), now)
        BY <1>5, <4>1 DEF Shape
      <4>3. c[i] = s[i - 1] /\ SubSeq(c, i + 1, Len(c)) = SubSeq(s, (i - 1) + 1, Len(s))
        BY <1>1, <1>3, <4>1
      <4>4. QED
        BY <4>2, <4>3, Zenon
    <3>3. QED
      BY <3>1, <3>2
  <2>2. QED
    BY <2>1 DEF Shape
<1>6. QED
  BY <1>4, <1>5 DEF c

\* The frames of a stack without loops depend on no network time, and none of
\* them handles completed flows.
LEMMA NoLoopShape ==
  ASSUME NEW s \in Seq(Frames), NEW now, Shape(s, now), LoopsIn(s) = {}
  PROVE  TodoIn(s) = {} /\ \A then : Shape(s, then)
<1>1. ASSUME NEW i \in 1 .. Len(s)
      PROVE  /\ SubSeq(s, i + 1, Len(s)) \in Seq(Frames)
             /\ LoopsIn(SubSeq(s, i + 1, Len(s))) = {}
             /\ s[i].op # "finish"
  <2> DEFINE u == SubSeq(s, i + 1, Len(s))
  <2>1. /\ u \in Seq(Frames) /\ Len(s) \in Nat
        /\ \A j \in 1 .. Len(u) : i + j \in 1 .. Len(s) /\ u[j] = s[i + j]
    OBVIOUS
  <2>2. FrameOver(s[i], u, now)
    BY DEF Shape
  <2> HIDE DEF u
  <2>3. LoopsIn(u) = {}
    BY <2>1 DEF LoopsIn
  <2>4. s[i].op # "finish"
    BY <2>2, <2>3 DEF FrameOver
  <2>5. QED
    BY <2>1, <2>3, <2>4 DEF u
<1>2. TodoIn(s) = {}
  BY <1>1 DEF TodoIn
<1>3. ASSUME NEW then, NEW i \in 1 .. Len(s)
      PROVE  FrameOver(s[i], SubSeq(s, i + 1, Len(s)), then)
  <2>1. FrameOver(s[i], SubSeq(s, i + 1, Len(s)), now)
    BY DEF Shape
  <2>2. QED
    BY <1>1, <2>1 DEF FrameOver
<1>4. QED
  BY <1>2, <1>3 DEF Shape

\* A stack in order has at most one loop.
LEMMA OneLoop ==
  ASSUME NEW s \in Seq(Frames), NEW now, Shape(s, now),
         NEW i \in 1 .. Len(s), NEW j \in 1 .. Len(s), s[i].op = "loop", s[j].op = "loop"
  PROVE  i = j
<1>1. ASSUME NEW a \in 1 .. Len(s), NEW b \in 1 .. Len(s), s[a].op = "loop", s[b].op = "loop", a < b
      PROVE  FALSE
  <2> DEFINE u == SubSeq(s, a + 1, Len(s))
  <2>1. /\ b - a \in 1 .. Len(u) /\ u[b - a] = s[b]
    BY <1>1
  <2>2. FrameOver(s[a], u, now)
    BY DEF Shape
  <2> HIDE DEF u
  <2>3. LoopsIn(u) = {}
    BY <1>1, <2>2 DEF FrameOver
  <2>4. u[b - a] \in LoopsIn(u)
    BY <1>1, <2>1 DEF LoopsIn
  <2>5. QED
    BY <2>3, <2>4
<1>2. Len(s) \in Nat
  OBVIOUS
<1>3. QED
  BY <1>1, <1>2

\* A frame that has one task less to do may lie where it lay.
LEMMA ShrinkFrame ==
  ASSUME NEW f \in Frames, f.op = "push" \/ f.op = "finish", NEW x, NEW s, NEW now,
         FrameOver(f, s, now)
  PROVE  LET g == [f EXCEPT !.todo = @ \ {x}]
         IN  g \in Frames /\ g.op = f.op /\ g.todo = f.todo \ {x} /\ FrameOver(g, s, now)
<1> DEFINE g == [f EXCEPT !.todo = @ \ {x}]
<1>1. CASE f.op = "push"
  <2>1. f \in [op : {"push"}, todo : SUBSET PushItems]
    BY <1>1, FrameKinds
  <2>2. /\ g \in [op : {"push"}, todo : SUBSET PushItems]
        /\ g.op = "push" /\ g.todo = f.todo \ {x}
    BY <2>1
  <2>3. g \in Frames
    BY <2>2 DEF Frames
  <2> HIDE DEF g
  <2>4. FrameOver(g, s, now)
    BY <1>1, <2>2 DEF FrameOver
  <2>5. QED
    BY <1>1, <2>2, <2>3, <2>4 DEF g
<1>2. CASE f.op = "finish"
  <2>1. f \in [op : {"finish"}, at : Nat, id : Ids, time : Nat, todo : SUBSET [id : Ids, ts : Nat]]
    BY <1>2, FrameKinds
  <2>2. /\ g \in [op : {"finish"}, at : Nat, id : Ids, time : Nat, todo : SUBSET [id : Ids, ts : Nat]]
        /\ g.op = "finish" /\ g.todo = f.todo \ {x} /\ g.id = f.id /\ g.at = f.at /\ g.time = f.time
    BY <2>1
  <2>3. g \in Frames
    BY <2>2 DEF Frames
  <2> HIDE DEF g
  <2>4. FrameOver(g, s, now)
    BY <1>2, <2>2 DEF FrameOver
  <2>5. QED
    BY <1>2, <2>2, <2>3, <2>4 DEF g
<1>3. QED
  BY <1>1, <1>2

\* Frames to push on a stack in order.
LEMMA PushAllViews ==
  ASSUME NEW items \in SUBSET PushItems, NEW rest \in Seq(Frames), NEW now, Shape(rest, now),
         items # {} => FrameOver([op |-> "push", todo |-> items], rest, now)
  PROVE  /\ PushAll(items, rest) \in Seq(Frames)
         /\ ItemsIn(PushAll(items, rest)) = items \cup ItemsIn(rest)
         /\ LoopsIn(PushAll(items, rest)) = LoopsIn(rest)
         /\ TodoIn(PushAll(items, rest)) = TodoIn(rest)
         /\ Shape(PushAll(items, rest), now)
<1>1. CASE items = {}
  BY <1>1 DEF PushAll
<1>2. CASE items # {}
  <2> DEFINE f == [op |-> "push", todo |-> items]
  <2>1. f \in Frames /\ f.op = "push" /\ f.todo = items
    BY DEF Frames
  <2>2. FrameOver(f, rest, now)
    BY <1>2
  <2>3. PushAll(items, rest) = <<f>> \o rest
    BY <1>2 DEF PushAll
  <2> HIDE DEF f
  <2>4. Shape(<<f>> \o rest, now)
    BY <2>1, <2>2, ShapeCons
  <2>5. QED
    BY <2>1, <2>3, <2>4, ConsViews
<1>3. QED
  BY <1>1, <1>2

-----------------------------------------------------------------------------
(***************************************************************************)
(* The invariant of the call stack.                                        *)
(***************************************************************************)

Items == ItemsIn(stack)
Loops == LoopsIn(stack)
Todo  == TodoIn(stack)

StackInv == Shape(stack, nts)

LoopWait == \A l \in Loops : l.wait \subseteq DOMAIN flows

\* The events that were added and no longer wait for a dependency.
Known == (0 .. cnt - 1) \ DOMAIN pending

\* Whatever the queue or the network has of an event, it has of such an event.
KnownInv ==
  /\ \A d \in Ids : rev[d] \subseteq 0 .. cnt - 1
  /\ \A x \in Items : x.id \in Known
  /\ \A l \in Loops : l.id \in Known
  /\ \A r \in Todo : r.id \in Known
  /\ \A e \in DOMAIN queue : e[2] \in Known
  /\ DOMAIN notStarted \subseteq Known /\ DOMAIN started \subseteq Known /\ DOMAIN ended \subseteq Known
  /\ DOMAIN flows \subseteq Known /\ DOMAIN retired \subseteq Known

CallInv == QueueInv /\ StackInv /\ LoopWait /\ KnownInv

\* The items and loops on the stack have their types.
LEMMA ViewTypes ==
  ASSUME NEW s \in Seq(Frames)
  PROVE  /\ ItemsIn(s) \subseteq PushItems
         /\ LoopsIn(s) \subseteq [op : {"loop"}, id : Ids, time : Nat, n : Nat, wait : SUBSET Ids]
         /\ TodoIn(s) \subseteq [id : Ids, ts : Nat]
<1>1. \A i \in 1 .. Len(s) : s[i] \in Frames
  OBVIOUS
<1>2. ASSUME NEW i \in 1 .. Len(s)
      PROVE  /\ s[i].op = "push" => s[i].todo \subseteq PushItems
             /\ s[i].op = "loop" =>
                  s[i] \in [op : {"loop"}, id : Ids, time : Nat, n : Nat, wait : SUBSET Ids]
             /\ s[i].op = "finish" => s[i].todo \subseteq [id : Ids, ts : Nat]
  <2>1. s[i] \in Frames
    BY <1>1
  <2>2. s[i].op = "push" => s[i].todo \subseteq PushItems
    BY <2>1, FrameKinds
  <2>3. s[i].op = "finish" => s[i].todo \subseteq [id : Ids, ts : Nat]
    BY <2>1, FrameKinds
  <2>4. QED
    BY <2>1, <2>2, <2>3, FrameKinds
<1>3. QED
  BY <1>2 DEF ItemsIn, LoopsIn, TodoIn

\* Between calls nothing is left to do.
LEMMA IdleViews ==
  ASSUME Idle
  PROVE  Items = {} /\ Loops = {} /\ Todo = {} /\ StackInv
BY NilViews DEF Idle, Items, Loops, Todo, StackInv

\* Only an item pushed within a loop is not in the network's past: at microsecond
\* granularity, what is due no earlier than the network's present never rolls back.
LEMMA NotInPast ==
  ASSUME NEW time \in Nat, nts \in Nat, time >= ToUs(nts)
  PROVE  ~ MustRollback(time * NsPerUs)
<1> DEFINE u == ToUs(nts)
<1>1. u \in Nat /\ NsPerUs \in Nat
  BY TicksNat, ConstantsAssumption
<1>2. \A a, b, c \in Nat : a >= b => a * c >= b * c
  <2>1. TAKE a, b, c \in Nat
  <2>2. HAVE a >= b
  <2>3. a - b \in Nat
    BY <2>2
  <2>4. (a - b) * c \in Nat /\ (a - b) * c = a * c - b * c
    BY <2>3
  <2>5. QED
    BY <2>4
<1> HIDE DEF u
<1>3. time * NsPerUs >= u * NsPerUs /\ time * NsPerUs \in Nat /\ u * NsPerUs \in Nat
  BY <1>1, <1>2 DEF u
<1>4. ~ (time * NsPerUs < u * NsPerUs)
  BY <1>3
<1>5. QED
  BY <1>4 DEF MustRollback, FloorUs, u

\* The stack after an item of its innermost frame has been pushed.
LEMMA PushViews ==
  ASSUME TypeOK, StackInv, InOp("push"), NEW x \in Head(stack).todo
  PROVE  /\ x \in Items /\ x \in PushItems
         /\ Rest(x) \in Seq(Frames) /\ Shape(Rest(x), nts)
         /\ ItemsIn(Rest(x)) = Items \ {x}
         /\ LoopsIn(Rest(x)) = Loops /\ TodoIn(Rest(x)) = Todo
         /\ \A y \in Items : y.id = x.id => y = x
         /\ \A y \in Items : x.act = Finish <=> y.act = Finish
         /\ x.act = Finish => Loops = {} /\ Todo = {}
         /\ Loops # {} => x.time >= ToUs(nts)
<1> DEFINE f == Head(stack)
           s == Tail(stack)
           g == [f EXCEPT !.todo = @ \ {x}]
<1>1. stack \in Seq(Frames) /\ stack # << >>
  BY DEF TypeOK, InOp
<1>2. f \in Frames /\ s \in Seq(Frames) /\ stack = <<f>> \o s
  BY <1>1, HeadOnTail
<1>3. f.op = "push" /\ x \in f.todo
  BY DEF InOp
<1>4. f \in [op : {"push"}, todo : SUBSET PushItems]
  BY <1>2, <1>3, FrameKinds
<1>5. x \in PushItems
  BY <1>3, <1>4
<1>6. Rest(x) = IF f.todo = {x} THEN s ELSE <<g>> \o s
  BY DEF Rest
<1> HIDE DEF f, s
<1>7. FrameOver(f, s, nts) /\ Shape(s, nts)
  BY <1>2, ShapeCons DEF StackInv
<1>8. g \in Frames /\ g.op = "push" /\ g.todo = f.todo \ {x} /\ FrameOver(g, s, nts)
  BY <1>2, <1>3, <1>7, ShrinkFrame
<1> HIDE DEF g
<1>9. Items = f.todo \cup ItemsIn(s) /\ Loops = LoopsIn(s) /\ Todo = TodoIn(s)
  BY <1>2, <1>3, ConsViews DEF Items, Loops, Todo
<1>10. /\ Loops # {} => x.time >= ToUs(nts)
       /\ x.act = Finish => s = << >>
       /\ \A y \in f.todo : (y.id = x.id => y = x) /\ (x.act = Finish <=> y.act = Finish)
       /\ \A y \in ItemsIn(s) : y.id # x.id /\ y.act # Finish
  BY <1>3, <1>7, <1>9 DEF FrameOver
<1>11. x.act = Finish => ItemsIn(s) = {} /\ LoopsIn(s) = {} /\ TodoIn(s) = {}
  BY <1>10, NilViews
<1>12. x \notin ItemsIn(s)
  BY <1>10
<1>13. /\ Rest(x) \in Seq(Frames) /\ Shape(Rest(x), nts)
       /\ ItemsIn(Rest(x)) = (f.todo \ {x}) \cup ItemsIn(s)
       /\ LoopsIn(Rest(x)) = Loops /\ TodoIn(Rest(x)) = Todo
  <2>1. CASE f.todo = {x}
    BY <1>2, <1>6, <1>7, <1>9, <2>1
  <2>2. CASE f.todo # {x}
    <3>1. Shape(<<g>> \o s, nts)
      BY <1>2, <1>7, <1>8, ShapeCons
    <3>2. /\ <<g>> \o s \in Seq(Frames)
          /\ ItemsIn(<<g>> \o s) = (f.todo \ {x}) \cup ItemsIn(s)
          /\ LoopsIn(<<g>> \o s) = LoopsIn(s) /\ TodoIn(<<g>> \o s) = TodoIn(s)
      <4>1. /\ <<g>> \o s \in Seq(Frames)
            /\ ItemsIn(<<g>> \o s) = (IF g.op = "push" THEN g.todo ELSE {}) \cup ItemsIn(s)
            /\ LoopsIn(<<g>> \o s) = (IF g.op = "loop" THEN {g} ELSE {}) \cup LoopsIn(s)
            /\ TodoIn(<<g>> \o s) = (IF g.op = "finish" THEN g.todo ELSE {}) \cup TodoIn(s)
        BY <1>2, <1>8, ConsViews, Zenon
      <4>2. QED
        BY <1>8, <4>1
    <3>3. Rest(x) = <<g>> \o s
      BY <1>6, <2>2, Zenon
    <3>4. QED
      BY <1>9, <3>1, <3>2, <3>3
  <2>3. QED
    BY <2>1, <2>2
<1>14. ItemsIn(Rest(x)) = Items \ {x}
  BY <1>9, <1>12, <1>13
<1>15. QED
  BY <1>3, <1>5, <1>9, <1>10, <1>11, <1>13, <1>14

\* The stack after a completed flow of its innermost frame has been handled.
LEMMA FinishViews ==
  ASSUME TypeOK, StackInv, InOp("finish"), NEW r \in Head(stack).todo
  PROVE  /\ r \in Todo /\ Todo = Head(stack).todo
         /\ Rest(r) \in Seq(Frames) /\ Shape(Rest(r), nts)
         /\ ItemsIn(Rest(r)) = Items
         /\ LoopsIn(Rest(r)) = Loops /\ TodoIn(Rest(r)) = Todo \ {r}
         /\ \A y \in Items : y.act # Finish
         /\ Head(stack).at = nts /\ Loops # {}
         /\ \A l \in Loops : l.id = Head(stack).id /\ l.time = Head(stack).time
<1> DEFINE f == Head(stack)
           s == Tail(stack)
           g == [f EXCEPT !.todo = @ \ {r}]
<1>1. stack \in Seq(Frames) /\ stack # << >>
  BY DEF TypeOK, InOp
<1>2. f \in Frames /\ s \in Seq(Frames) /\ stack = <<f>> \o s
  BY <1>1, HeadOnTail
<1>3. f.op = "finish" /\ r \in f.todo
  BY DEF InOp
<1>6. Rest(r) = IF f.todo = {r} THEN s ELSE <<g>> \o s
  BY DEF Rest
<1>7. FrameOver(f, s, nts) /\ Shape(s, nts)
  <2> HIDE DEF f, s
  <2>1. QED
    BY <1>2, ShapeCons DEF StackInv
<1>8. g \in Frames /\ g.op = "finish" /\ g.todo = f.todo \ {r} /\ FrameOver(g, s, nts)
  <2> HIDE DEF f, s
  <2>1. QED
    BY <1>2, <1>3, <1>7, ShrinkFrame
<1> HIDE DEF g
<1>9. Items = ItemsIn(s) /\ Loops = LoopsIn(s) /\ Todo = f.todo \cup TodoIn(s)
  <2> HIDE DEF f, s
  <2>1. QED
    BY <1>2, <1>3, ConsViews DEF Items, Loops, Todo
<1>10. /\ TodoIn(s) = {} /\ LoopsIn(s) # {} /\ f.at = nts
       /\ \A l \in LoopsIn(s) : l.id = f.id /\ l.time = f.time
       /\ \A y \in ItemsIn(s) : y.act # Finish
  <2> HIDE DEF f, s
  <2>1. QED
    BY <1>3, <1>7 DEF FrameOver
<1>11. Todo = f.todo
  BY <1>9, <1>10
<1>13. /\ Rest(r) \in Seq(Frames) /\ Shape(Rest(r), nts)
       /\ TodoIn(Rest(r)) = f.todo \ {r}
       /\ LoopsIn(Rest(r)) = Loops /\ ItemsIn(Rest(r)) = Items
  <2> HIDE DEF f, s
  <2>1. CASE f.todo = {r}
    BY <1>2, <1>6, <1>7, <1>9, <1>10, <2>1
  <2>2. CASE f.todo # {r}
    <3>1. Shape(<<g>> \o s, nts)
      BY <1>2, <1>7, <1>8, ShapeCons
    <3>2. /\ <<g>> \o s \in Seq(Frames)
          /\ TodoIn(<<g>> \o s) = (f.todo \ {r}) \cup TodoIn(s)
          /\ LoopsIn(<<g>> \o s) = LoopsIn(s) /\ ItemsIn(<<g>> \o s) = ItemsIn(s)
      <4>1. /\ <<g>> \o s \in Seq(Frames)
            /\ ItemsIn(<<g>> \o s) = (IF g.op = "push" THEN g.todo ELSE {}) \cup ItemsIn(s)
            /\ LoopsIn(<<g>> \o s) = (IF g.op = "loop" THEN {g} ELSE {}) \cup LoopsIn(s)
            /\ TodoIn(<<g>> \o s) = (IF g.op = "finish" THEN g.todo ELSE {}) \cup TodoIn(s)
        BY <1>2, <1>8, ConsViews, Zenon
      <4>2. QED
        BY <1>8, <4>1
    <3>3. Rest(r) = <<g>> \o s
      BY <1>6, <2>2, Zenon
    <3>4. QED
      BY <1>9, <1>10, <3>1, <3>2, <3>3
  <2>3. QED
    BY <2>1, <2>2
<1>14. QED
  BY <1>3, <1>9, <1>10, <1>11, <1>13

\* The stack with the loop of a rollback innermost: it is the only loop, and no
\* completed flow is left to handle.
LEMMA LoopViews ==
  ASSUME TypeOK, StackInv, InOp("loop")
  PROVE  /\ Loops = {Head(stack)} /\ Todo = {}
         /\ Head(stack) \in [op : {"loop"}, id : Ids, time : Nat, n : Nat, wait : SUBSET Ids]
         /\ Tail(stack) \in Seq(Frames) /\ \A now : Shape(Tail(stack), now)
         /\ ItemsIn(Tail(stack)) = Items
         /\ LoopsIn(Tail(stack)) = {} /\ TodoIn(Tail(stack)) = {}
         /\ \A y \in Items : y.act # Finish
<1> DEFINE f == Head(stack)
           s == Tail(stack)
<1>1. stack \in Seq(Frames) /\ stack # << >>
  BY DEF TypeOK, InOp
<1>2. f \in Frames /\ s \in Seq(Frames) /\ stack = <<f>> \o s
  BY <1>1, HeadOnTail
<1>3. f.op = "loop"
  BY DEF InOp
<1>4. f \in [op : {"loop"}, id : Ids, time : Nat, n : Nat, wait : SUBSET Ids]
  BY <1>2, <1>3, FrameKinds
<1> HIDE DEF f, s
<1>7. FrameOver(f, s, nts) /\ Shape(s, nts)
  BY <1>2, ShapeCons DEF StackInv
<1>8. LoopsIn(s) = {} /\ \A y \in ItemsIn(s) : y.act # Finish
  BY <1>3, <1>7 DEF FrameOver
<1>9. TodoIn(s) = {} /\ \A now : Shape(s, now)
  BY <1>2, <1>7, <1>8, NoLoopShape
<1>10. Items = ItemsIn(s) /\ Loops = {f} \cup LoopsIn(s) /\ Todo = TodoIn(s)
  BY <1>2, <1>3, ConsViews DEF Items, Loops, Todo
<1>11. QED
  BY <1>2, <1>4, <1>8, <1>9, <1>10 DEF f, s

-----------------------------------------------------------------------------
(***************************************************************************)
(* What each step does to the items, the loops and the completed flows.    *)
(***************************************************************************)

\* What end_event has to push.
FreedItems(id, end) ==
  {[id |-> p, act |-> pending[p].act, time |-> PushTime(p, end)] : p \in Freed(id)}

\* No action is the End that try_proceed_netsim pushes.
LEMMA FinishNoAction == Finish \notin Actions
BY DEF Finish, Actions, Point, Comm, Comp

\* end_event pushes each event it frees once, at the end it is called with or later.
LEMMA FreedTypes ==
  ASSUME TypeOK, NEW id \in Ids, NEW end \in Nat
  PROVE  /\ FreedItems(id, end) \subseteq PushItems
         /\ \A x \in FreedItems(id, end) :
              /\ x.id \in Freed(id) /\ x.act = pending[x.id].act /\ x.time = PushTime(x.id, end)
              /\ x.act \in Actions /\ x.act # Finish /\ x.time >= end
         /\ \A x, y \in FreedItems(id, end) : x.id = y.id => x = y
<1>1. ASSUME NEW p \in Freed(id)
      PROVE  /\ p \in Ids /\ pending[p].act \in Actions /\ pending[p].act # Finish
             /\ PushTime(p, end) \in Nat /\ PushTime(p, end) >= end
             /\ [id |-> p, act |-> pending[p].act, time |-> PushTime(p, end)] \in PushItems
  <2>1. p \in DOMAIN pending
    BY DEF Freed
  <2>2. pending[p] \in PendingRecords /\ p \in Ids
    BY <2>1, PartialAt DEF TypeOK
  <2>3. pending[p].act \in Actions /\ pending[p].depEnd \in Nat /\ pending[p].arrive \in Nat
    BY <2>2 DEF PendingRecords
  <2>4. pending[p].act # Finish
    BY <2>3, FinishNoAction
  <2>5. PushTime(p, end) \in Nat /\ PushTime(p, end) >= end
    BY <2>3 DEF PushTime, Later
  <2>6. QED
    BY <2>2, <2>3, <2>4, <2>5 DEF PushItems
<1>2. QED
  BY <1>1 DEF FreedItems

\* end_event with the rest of the call below it.
LEMMA EndEventViews ==
  ASSUME TypeOK, NEW id \in Ids, NEW start, NEW end \in Nat, NEW rest \in Seq(Frames),
         Shape(rest, nts), EndEvent(id, start, end, rest), UNCHANGED nts,
         \A y \in ItemsIn(rest) : y.act # Finish /\ y.id \notin DOMAIN pending,
         LoopsIn(rest) # {} => end >= ToUs(nts)
  PROVE  /\ StackInv'
         /\ Items' = FreedItems(id, end) \cup ItemsIn(rest)
         /\ Loops' = LoopsIn(rest) /\ Todo' = TodoIn(rest)
<1> DEFINE items == FreedItems(id, end)
           f == [op |-> "push", todo |-> items]
<1>1. stack' = PushAll(items, rest)
  BY DEF EndEvent, FreedItems
<1>2. /\ items \in SUBSET PushItems
      /\ \A x \in items : x.id \in Freed(id) /\ x.act # Finish /\ x.time >= end /\ x.time \in Nat
      /\ \A x, y \in items : x.id = y.id => x = y
  BY FreedTypes DEF PushItems
<1>3. ToUs(nts) \in Nat
  BY TicksNat DEF TypeOK
<1> HIDE DEF items
<1>4. f.op = "push" /\ f.todo = items
  OBVIOUS
<1>5. \A x \in items, y \in ItemsIn(rest) : x.id # y.id
  BY <1>2 DEF Freed
<1> HIDE DEF f
<1>6. \A x \in items : LoopsIn(rest) # {} => x.time >= ToUs(nts)
  BY <1>2, <1>3
<1>7. FrameOver(f, rest, nts)
  BY <1>2, <1>4, <1>5, <1>6 DEF FrameOver
<1>8. /\ ItemsIn(PushAll(items, rest)) = items \cup ItemsIn(rest)
      /\ LoopsIn(PushAll(items, rest)) = LoopsIn(rest)
      /\ TodoIn(PushAll(items, rest)) = TodoIn(rest)
      /\ Shape(PushAll(items, rest), nts)
  BY <1>2, <1>7, PushAllViews DEF f
<1>9. QED
  BY <1>1, <1>8 DEF StackInv, Items, Loops, Todo, items

\* A call that pushes one event, or none.
LEMMA CallViews ==
  ASSUME NEW items \in SUBSET PushItems, stack' = PushAll(items, << >>),
         \A x, y \in items : x.id = y.id => x = y,
         \A x, y \in items : x.act = Finish => y.act = Finish
  PROVE  StackInv' /\ Items' = items /\ Loops' = {} /\ Todo' = {}
<1> DEFINE f == [op |-> "push", todo |-> items]
<1>1. f.op = "push" /\ f.todo = items
  OBVIOUS
<1> HIDE DEF f
<1>2. FrameOver(f, << >>, nts')
  BY <1>1, NilViews DEF FrameOver
<1>3. << >> \in Seq(Frames) /\ Shape(<< >>, nts')
  BY NilViews
<1>4. /\ ItemsIn(PushAll(items, << >>)) = items \cup ItemsIn(<< >>)
      /\ LoopsIn(PushAll(items, << >>)) = LoopsIn(<< >>)
      /\ TodoIn(PushAll(items, << >>)) = TodoIn(<< >>)
      /\ Shape(PushAll(items, << >>), nts')
  BY <1>2, <1>3, PushAllViews DEF f
<1>5. QED
  BY <1>4, NilViews DEF StackInv, Items, Loops, Todo

\* push_event takes one item; only a flow in the network's past adds a loop, and
\* then there was none.
LEMMA PushEventViews ==
  ASSUME CallInv, PushEvent
  PROVE  /\ StackInv' /\ Todo' = Todo
         /\ \E x \in Items :
              /\ PushPlain(x) \/ PushComputation(x) \/ PushFlow(x)
              /\ Items' = Items \ {x}
              /\ \A y \in Items : y.id = x.id => y = x
              /\ \A y \in Items : x.act = Finish <=> y.act = Finish
              /\ x.act = Finish => Loops = {} /\ Todo = {}
              /\ IF x.act.kind = "comm" /\ MustRollback(x.time * NsPerUs)
                 THEN /\ Loops = {} /\ Todo = {}
                      /\ Loops' = {[op |-> "loop", id |-> x.id, time |-> x.time, n |-> qcnt,
                                    wait |-> Revived(x.time * NsPerUs)]}
                 ELSE Loops' = Loops
<1>1. TypeOK /\ StackInv /\ InOp("push") /\ qcnt \in Nat /\ nts \in Nat
  BY DEF CallInv, QueueInv, TypeOK, PushEvent
<1>2. PICK x \in Head(stack).todo : PushPlain(x) \/ PushComputation(x) \/ PushFlow(x)
  BY DEF PushEvent
<1>3. /\ x \in Items /\ x \in PushItems
      /\ Rest(x) \in Seq(Frames) /\ Shape(Rest(x), nts)
      /\ ItemsIn(Rest(x)) = Items \ {x}
      /\ LoopsIn(Rest(x)) = Loops /\ TodoIn(Rest(x)) = Todo
      /\ \A y \in Items : y.id = x.id => y = x
      /\ \A y \in Items : x.act = Finish <=> y.act = Finish
      /\ x.act = Finish => Loops = {} /\ Todo = {}
      /\ Loops # {} => x.time >= ToUs(nts)
  BY <1>1, PushViews
<1>4. x.id \in Ids /\ x.act \in Actions \cup {Finish} /\ x.time \in Nat
  BY <1>3 DEF PushItems
<1> DEFINE ts == x.time * NsPerUs
           loop == [op |-> "loop", id |-> x.id, time |-> x.time, n |-> qcnt, wait |-> Revived(ts)]
<1>5. CASE x.act.kind = "comm" /\ MustRollback(ts)
  <2>1. PushFlow(x)
    BY <1>2, <1>5 DEF PushPlain, PushComputation, Point, Finish
  <2>2. stack' = <<loop>> \o Rest(x) /\ nts' = ts
    BY <1>5, <2>1 DEF PushFlow, NetArrive
  <2>3. Loops = {}
    BY <1>1, <1>3, <1>4, <1>5, NotInPast
  <2>4. Todo = {} /\ \A now : Shape(Rest(x), now)
    BY <1>3, <2>3, NoLoopShape
  <2>5. x.act # Finish
    BY <1>5 DEF Finish
  <2>6. loop \in Frames /\ loop.op = "loop"
    <3>1. Revived(ts) \subseteq Ids
      BY <1>1 DEF Revived, TypeOK, Partial
    <3> HIDE DEF ts
    <3>2. QED
      BY <1>1, <1>4, <3>1 DEF Frames
  <2> HIDE DEF loop, ts
  <2>7. FrameOver(loop, Rest(x), nts')
    BY <1>3, <2>3, <2>5, <2>6 DEF FrameOver
  <2>8. Shape(<<loop>> \o Rest(x), nts')
    BY <1>3, <2>4, <2>6, <2>7, ShapeCons
  <2>9. /\ ItemsIn(<<loop>> \o Rest(x)) = ItemsIn(Rest(x))
        /\ LoopsIn(<<loop>> \o Rest(x)) = {loop} \cup LoopsIn(Rest(x))
        /\ TodoIn(<<loop>> \o Rest(x)) = TodoIn(Rest(x))
    <3>1. /\ ItemsIn(<<loop>> \o Rest(x))
               = (IF loop.op = "push" THEN loop.todo ELSE {}) \cup ItemsIn(Rest(x))
          /\ LoopsIn(<<loop>> \o Rest(x))
               = (IF loop.op = "loop" THEN {loop} ELSE {}) \cup LoopsIn(Rest(x))
          /\ TodoIn(<<loop>> \o Rest(x))
               = (IF loop.op = "finish" THEN loop.todo ELSE {}) \cup TodoIn(Rest(x))
      BY <1>3, <2>6, ConsViews, Zenon
    <3>2. QED
      BY <2>6, <3>1
  <2>10. StackInv' /\ Todo' = Todo /\ Items' = Items \ {x} /\ Loops' = {loop}
    BY <1>3, <2>2, <2>3, <2>8, <2>9 DEF StackInv, Items, Loops, Todo
  <2>11. QED
    BY <1>2, <1>3, <1>5, <2>3, <2>4, <2>10 DEF loop, ts
<1>6. CASE ~ (x.act.kind = "comm" /\ MustRollback(ts))
  <2>1. stack' = Rest(x) /\ nts' = nts
    BY <1>2, <1>6 DEF PushPlain, PushComputation, PushFlow, NetArrive, netVars
  <2>2. StackInv' /\ Todo' = Todo /\ Items' = Items \ {x} /\ Loops' = Loops
    BY <1>3, <2>1 DEF StackInv, Items, Loops, Todo
  <2>3. QED
    BY <1>2, <1>3, <1>6, <2>2
<1>7. QED
  BY <1>5, <1>6

\* An iteration of the rollback loop.
LEMMA RollbackRunViews ==
  ASSUME CallInv, RollbackRun
  PROVE  /\ StackInv' /\ Items' = Items /\ Todo = {}
         /\ \A y \in Items : y.act # Finish
         /\ \E t \in NextCompletions, done \in SUBSET DOMAIN flows, l \in Loops, m \in Loops' :
              /\ NetRun(t, done)
              /\ Loops = {l} /\ Loops' = {m}
              /\ m.id = l.id /\ m.time = l.time /\ m.n = l.n /\ m.wait = l.wait \ done
              /\ Todo' = {[id |-> f, ts |-> flows[f]] : f \in done}
<1>1. TypeOK /\ StackInv /\ InOp("loop") /\ nts \in Nat
  BY DEF CallInv, QueueInv, TypeOK, RollbackRun
<1> DEFINE l == Head(stack)
           s == Tail(stack)
<1>2. PICK t \in NextCompletions, done \in SUBSET DOMAIN flows :
        /\ NetRun(t, done)
        /\ stack' = <<[op |-> "finish", at |-> t, id |-> Head(stack).id,
                       time |-> Head(stack).time,
                       todo |-> {[id |-> f, ts |-> flows[f]] : f \in done}],
                      [Head(stack) EXCEPT !.wait = StillRevived(@, done)]>> \o Tail(stack)
  BY DEF RollbackRun
<1>3. /\ Loops = {l} /\ Todo = {}
      /\ l \in [op : {"loop"}, id : Ids, time : Nat, n : Nat, wait : SUBSET Ids]
      /\ s \in Seq(Frames) /\ \A now : Shape(s, now)
      /\ ItemsIn(s) = Items /\ LoopsIn(s) = {} /\ TodoIn(s) = {}
      /\ \A y \in Items : y.act # Finish
  BY <1>1, LoopViews
<1>4. t \in Nat
  BY <1>1, NextCompletionsNat
<1> DEFINE todo == {[id |-> f, ts |-> flows[f]] : f \in done}
           fin  == [op |-> "finish", at |-> t, id |-> l.id, time |-> l.time, todo |-> todo]
           m    == [l EXCEPT !.wait = StillRevived(@, done)]
<1>5. todo \in SUBSET [id : Ids, ts : Nat]
  <2>1. ASSUME NEW f \in done
        PROVE  [id |-> f, ts |-> flows[f]] \in [id : Ids, ts : Nat]
    <3>1. flows[f] \in Nat /\ f \in Ids
      BY <1>1, PartialAt DEF TypeOK
    <3>2. QED
      BY <3>1
  <2>2. QED
    BY <2>1
<1>6. stack' = <<fin, m>> \o s /\ nts' = t
  BY <1>2 DEF NetRun
<1> HIDE DEF l, s, todo
<1>7. /\ fin \in Frames /\ fin.op = "finish" /\ fin.todo = todo /\ fin.at = t
      /\ fin.id = l.id /\ fin.time = l.time
  BY <1>3, <1>4, <1>5 DEF Frames
<1>8. /\ m \in [op : {"loop"}, id : Ids, time : Nat, n : Nat, wait : SUBSET Ids]
      /\ m.op = "loop" /\ m.id = l.id /\ m.time = l.time /\ m.n = l.n /\ m.wait = l.wait \ done
  BY <1>3 DEF StillRevived
<1>9. m \in Frames
  BY <1>8 DEF Frames
<1> HIDE DEF fin, m
<1> DEFINE u == <<m>> \o s
<1>10. stack' = <<fin>> \o u
  BY <1>3, <1>6, <1>7, <1>9, TwoFrames
<1>11. /\ u \in Seq(Frames)
       /\ ItemsIn(u) = Items /\ LoopsIn(u) = {m} /\ TodoIn(u) = {}
  <2>1. /\ u \in Seq(Frames)
        /\ ItemsIn(u) = (IF m.op = "push" THEN m.todo ELSE {}) \cup ItemsIn(s)
        /\ LoopsIn(u) = (IF m.op = "loop" THEN {m} ELSE {}) \cup LoopsIn(s)
        /\ TodoIn(u) = (IF m.op = "finish" THEN m.todo ELSE {}) \cup TodoIn(s)
    BY <1>3, <1>9, ConsViews, Zenon
  <2> HIDE DEF u
  <2>2. QED
    BY <1>3, <1>8, <2>1
<1>12. FrameOver(m, s, t)
  BY <1>3, <1>8 DEF FrameOver
<1>13. Shape(u, t)
  BY <1>3, <1>9, <1>12, ShapeCons
<1> HIDE DEF u
<1>14. FrameOver(fin, u, t)
  BY <1>3, <1>7, <1>8, <1>11 DEF FrameOver
<1>15. Shape(<<fin>> \o u, t)
  BY <1>7, <1>11, <1>13, <1>14, ShapeCons
<1>16. ItemsIn(<<fin>> \o u) = Items /\ LoopsIn(<<fin>> \o u) = {m} /\ TodoIn(<<fin>> \o u) = todo
  <2>1. /\ ItemsIn(<<fin>> \o u) = (IF fin.op = "push" THEN fin.todo ELSE {}) \cup ItemsIn(u)
        /\ LoopsIn(<<fin>> \o u) = (IF fin.op = "loop" THEN {fin} ELSE {}) \cup LoopsIn(u)
        /\ TodoIn(<<fin>> \o u) = (IF fin.op = "finish" THEN fin.todo ELSE {}) \cup TodoIn(u)
    BY <1>7, <1>11, ConsViews, Zenon
  <2>2. QED
    BY <1>7, <1>11, <2>1
<1>17. StackInv' /\ Items' = Items /\ Loops' = {m} /\ Todo' = todo
  BY <1>6, <1>10, <1>15, <1>16 DEF StackInv, Items, Loops, Todo
<1>18. QED
  BY <1>2, <1>3, <1>8, <1>17 DEF todo

\* A completed flow is handled: if it is the flow of the loop, it ends.
LEMMA RollbackFinishViews ==
  ASSUME CallInv, RollbackFinish
  PROVE  /\ StackInv' /\ Loops' = Loops /\ Loops # {}
         /\ \A y \in Items : y.act # Finish
         /\ \A l \in Loops : l.id = Head(stack).id /\ l.time = Head(stack).time
         /\ Head(stack).at = nts
         /\ \E r \in Todo :
              /\ Todo' = Todo \ {r}
              /\ \/ FinishPushed(r) /\ Items' = FreedItems(r.id, ToUs(nts)) \cup Items
                 \/ FinishOther(r) /\ Items' = Items
<1>1. TypeOK /\ StackInv /\ InOp("finish") /\ nts \in Nat /\ KnownInv
  BY DEF CallInv, QueueInv, TypeOK, RollbackFinish
<1>2. PICK r \in Head(stack).todo : FinishPushed(r) \/ FinishOther(r)
  BY DEF RollbackFinish
<1>3. /\ r \in Todo /\ Todo = Head(stack).todo
      /\ Rest(r) \in Seq(Frames) /\ Shape(Rest(r), nts)
      /\ ItemsIn(Rest(r)) = Items
      /\ LoopsIn(Rest(r)) = Loops /\ TodoIn(Rest(r)) = Todo \ {r}
      /\ \A y \in Items : y.act # Finish
      /\ Head(stack).at = nts /\ Loops # {}
      /\ \A l \in Loops : l.id = Head(stack).id /\ l.time = Head(stack).time
  BY <1>1, FinishViews
<1>4. UNCHANGED nts
  BY DEF RollbackFinish, netVars
<1>5. CASE FinishPushed(r)
  <2>1. EndEvent(r.id, Head(stack).time, ToUs(nts), Rest(r))
    BY <1>3, <1>5 DEF FinishPushed
  <2>2. r.id \in Ids
    BY <1>1, <1>3, ViewTypes DEF Todo, TypeOK
  <2>3. ToUs(nts) \in Nat
    BY <1>1, TicksNat
  <2>4. \A y \in ItemsIn(Rest(r)) : y.act # Finish /\ y.id \notin DOMAIN pending
    BY <1>1, <1>3 DEF KnownInv, Known
  <2>5. ToUs(nts) >= ToUs(nts)
    BY <2>3
  <2>6. /\ StackInv'
        /\ Items' = FreedItems(r.id, ToUs(nts)) \cup ItemsIn(Rest(r))
        /\ Loops' = LoopsIn(Rest(r)) /\ Todo' = TodoIn(Rest(r))
    BY <1>1, <1>3, <1>4, <2>1, <2>2, <2>3, <2>4, <2>5, EndEventViews
  <2>7. QED
    BY <1>3, <1>5, <2>6
<1>6. CASE FinishOther(r)
  <2>1. stack' = Rest(r)
    BY <1>6 DEF FinishOther
  <2>2. StackInv' /\ Items' = Items /\ Loops' = Loops /\ Todo' = Todo \ {r}
    BY <1>3, <1>4, <2>1 DEF StackInv, Items, Loops, Todo
  <2>3. QED
    BY <1>3, <1>6, <2>2
<1>7. QED
  BY <1>2, <1>5, <1>6

\* The loop is left.
LEMMA RollbackDoneViews ==
  ASSUME CallInv, RollbackDone
  PROVE  /\ StackInv' /\ Items' = Items /\ Loops' = {} /\ Todo = {} /\ Todo' = {}
         /\ \A y \in Items : y.act # Finish
         /\ Loops = {Head(stack)} /\ Head(stack).wait = {}
         /\ Head(stack) \in [op : {"loop"}, id : Ids, time : Nat, n : Nat, wait : SUBSET Ids]
<1>1. TypeOK /\ StackInv /\ InOp("loop")
  BY DEF CallInv, QueueInv, RollbackDone
<1>2. /\ Loops = {Head(stack)} /\ Todo = {}
      /\ Head(stack) \in [op : {"loop"}, id : Ids, time : Nat, n : Nat, wait : SUBSET Ids]
      /\ Tail(stack) \in Seq(Frames) /\ \A now : Shape(Tail(stack), now)
      /\ ItemsIn(Tail(stack)) = Items
      /\ LoopsIn(Tail(stack)) = {} /\ TodoIn(Tail(stack)) = {}
      /\ \A y \in Items : y.act # Finish
  BY <1>1, LoopViews
<1>3. stack' = Tail(stack) /\ Head(stack).wait = {}
  BY DEF RollbackDone
<1>4. QED
  BY <1>2, <1>3 DEF StackInv, Items, Loops, Todo

\* Between calls the network is run, and the Ends it yields are pushed.
LEMMA ProceedNetsimViews ==
  ASSUME CallInv, ProceedNetsim
  PROVE  /\ StackInv' /\ Items = {} /\ Loops = {} /\ Todo = {} /\ Loops' = {} /\ Todo' = {}
         /\ \E t \in NextCompletions, done \in SUBSET DOMAIN flows :
              /\ NetRun(t, done)
              /\ Items' = {[id |-> f, act |-> Finish, time |-> ToUs(t)] : f \in done}
<1>1. TypeOK /\ Items = {} /\ Loops = {} /\ Todo = {}
  BY IdleViews DEF CallInv, QueueInv, ProceedNetsim
<1>2. PICK t \in NextCompletions, done \in SUBSET DOMAIN flows :
        /\ NetRun(t, done)
        /\ stack' = PushAll({[id |-> f, act |-> Finish, time |-> ToUs(t)] : f \in done}, << >>)
  BY DEF ProceedNetsim
<1> DEFINE items == {[id |-> f, act |-> Finish, time |-> ToUs(t)] : f \in done}
<1>3. ToUs(t) \in Nat
  BY <1>1, NextCompletionsNat, TicksNat
<1>4. items \in SUBSET PushItems
  <2>1. ASSUME NEW f \in done
        PROVE  [id |-> f, act |-> Finish, time |-> ToUs(t)] \in PushItems
    <3>1. f \in Ids
      BY <1>1, PartialAt DEF TypeOK
    <3>2. QED
      BY <1>3, <3>1 DEF PushItems
  <2>2. QED
    BY <2>1
<1>5. \A x, y \in items : (x.id = y.id => x = y) /\ (x.act = Finish => y.act = Finish)
  OBVIOUS
<1>6. stack' = PushAll(items, << >>)
  BY <1>2
<1> HIDE DEF items
<1>7. StackInv' /\ Items' = items /\ Loops' = {} /\ Todo' = {}
  BY <1>4, <1>5, <1>6, CallViews
<1>8. QED
  BY <1>1, <1>2, <1>7 DEF items

\* An event is executed between calls.
LEMMA ExecuteViews ==
  ASSUME CallInv, Execute
  PROVE  /\ StackInv' /\ Items = {} /\ Loops = {} /\ Todo = {} /\ Loops' = {} /\ Todo' = {}
         /\ \E e \in DOMAIN queue :
              /\ ExecuteEvent(e)
              /\ e \in Events /\ queue[e] \in Nat \X Nat
              /\ Items' = IF e[1] = "Start" THEN {} ELSE FreedItems(e[2], queue[e][1])
<1>1. TypeOK /\ Items = {} /\ Loops = {} /\ Todo = {} /\ stack = << >>
  BY IdleViews DEF CallInv, QueueInv, Execute, ExecuteEvent, Idle
<1>2. PICK e \in DOMAIN queue : ExecuteEvent(e)
  BY DEF Execute
<1>3. e \in Events /\ queue[e] \in Nat \X Nat
  BY <1>1, PartialAt DEF TypeOK
<1>4. e[2] \in Ids /\ queue[e][1] \in Nat
  BY <1>3 DEF Events
<1>5. UNCHANGED nts
  BY <1>2 DEF ExecuteEvent, netVars
<1>6. << >> \in Seq(Frames) /\ Shape(<< >>, nts)
  BY NilViews
<1>7. CASE ExecuteStart(e)
  <2>1. e[1] = "Start" /\ stack' = << >>
    BY <1>1, <1>7 DEF ExecuteStart
  <2>2. StackInv' /\ Items' = {} /\ Loops' = {} /\ Todo' = {}
    BY <2>1, NilViews DEF StackInv, Items, Loops, Todo
  <2>3. QED
    BY <1>1, <1>2, <1>3, <2>1, <2>2
<1>8. CASE ExecutePoint(e) \/ ExecuteEnd(e)
  <2>1. e[1] # "Start" /\ \E start : EndEvent(e[2], start, queue[e][1], << >>)
    BY <1>8 DEF ExecutePoint, ExecuteEnd
  <2>2. PICK start : EndEvent(e[2], start, queue[e][1], << >>)
    BY <2>1
  <2>3. ItemsIn(<< >>) = {} /\ LoopsIn(<< >>) = {} /\ TodoIn(<< >>) = {}
    BY NilViews
  <2>4. /\ StackInv'
        /\ Items' = FreedItems(e[2], queue[e][1]) \cup ItemsIn(<< >>)
        /\ Loops' = LoopsIn(<< >>) /\ Todo' = TodoIn(<< >>)
    BY <1>1, <1>4, <1>5, <1>6, <2>2, <2>3, EndEventViews
  <2>5. QED
    BY <1>1, <1>2, <1>3, <2>1, <2>3, <2>4
<1>9. QED
  BY <1>2, <1>7, <1>8 DEF ExecuteEvent

\* A call that adds an event pushes it if nothing is left for it to wait for.
LEMMA AddViews ==
  ASSUME CallInv, NEW deps \in SUBSET (0 .. cnt - 1 \cup {NoneDep}), NEW act \in Actions,
         NEW t \in Nat, AddActionOrPoint(deps, act, t)
  PROVE  /\ StackInv' /\ Items = {} /\ Loops = {} /\ Todo = {} /\ Loops' = {} /\ Todo' = {}
         /\ \E now \in Nat :
              LET over == (deps \ {NoneDep}) \cap DOMAIN ended
                  live == deps \ over
              IN  /\ IsArrival(now, t, over)
                  /\ IF live = {}
                     THEN /\ Items' = {[id |-> cnt, act |-> act, time |-> now]}
                          /\ UNCHANGED pending
                     ELSE /\ pending' = Put(pending, cnt, [deps |-> live, arrive |-> now,
                                                           depEnd |-> 0, act |-> act])
                          /\ Items' = {}
<1> DEFINE over == (deps \ {NoneDep}) \cap DOMAIN ended
           live == deps \ over
<1>1. TypeOK /\ Items = {} /\ Loops = {} /\ Todo = {} /\ stack = << >>
  BY IdleViews DEF CallInv, QueueInv, AddActionOrPoint, Idle
<1>2. PICK now \in {t} \cup {ended[d][2] : d \in over} :
        /\ IsArrival(now, t, over)
        /\ IF live = {}
           THEN /\ stack' = PushAll({[id |-> cnt, act |-> act, time |-> now]}, << >>)
                /\ UNCHANGED pending
           ELSE /\ pending' = Put(pending, cnt, [deps |-> live, arrive |-> now,
                                                 depEnd |-> 0, act |-> act])
                /\ UNCHANGED stack
  BY DEF AddActionOrPoint
<1>3. now \in Nat
  <2>1. ASSUME NEW d \in over
        PROVE  ended[d][2] \in Nat
    <3>1. ended[d] \in Nat \X Nat
      BY <1>1, PartialAt DEF TypeOK
    <3>2. QED
      BY <3>1
  <2>2. QED
    BY <1>2, <2>1
<1>4. cnt \in Ids
  BY <1>1, ConstantsAssumption DEF AddActionOrPoint, TypeOK, Ids
<1>5. CASE live = {}
  <2> DEFINE x == [id |-> cnt, act |-> act, time |-> now]
  <2>1. x \in PushItems
    BY <1>3, <1>4 DEF PushItems
  <2>2. stack' = PushAll({x}, << >>) /\ UNCHANGED pending
    BY <1>2, <1>5
  <2> HIDE DEF x
  <2>3. StackInv' /\ Items' = {x} /\ Loops' = {} /\ Todo' = {}
    <3>1. {x} \in SUBSET PushItems
      BY <2>1
    <3>2. QED
      BY <2>2, <3>1, CallViews
  <2>4. QED
    BY <1>1, <1>2, <1>3, <1>5, <2>2, <2>3 DEF x
<1>6. CASE live # {}
  <2>1. stack' = << >>
    BY <1>1, <1>2, <1>6
  <2>2. StackInv' /\ Items' = {} /\ Loops' = {} /\ Todo' = {}
    BY <2>1, NilViews DEF StackInv, Items, Loops, Todo
  <2>3. QED
    BY <1>1, <1>2, <1>3, <1>6, <2>2
<1>7. QED
  BY <1>5, <1>6

\* add_dependency pushes nothing.
LEMMA LinkViews ==
  ASSUME CallInv, NEW id \in DOMAIN pending, NEW dep \in DOMAIN pending, AddDependency(id, dep)
  PROVE  /\ StackInv' /\ Items = {} /\ Loops = {} /\ Todo = {}
         /\ Items' = {} /\ Loops' = {} /\ Todo' = {}
<1>1. stack = << >> /\ stack' = << >>
  BY DEF AddDependency, Idle
<1>2. QED
  BY <1>1, NilViews DEF StackInv, Items, Loops, Todo

\* remove_none_dependency pushes the event if nothing else holds it.
LEMMA ReleaseViews ==
  ASSUME CallInv, NEW id \in DOMAIN pending, RemoveNoneDependency(id)
  PROVE  /\ StackInv' /\ Items = {} /\ Loops = {} /\ Todo = {} /\ Loops' = {} /\ Todo' = {}
         /\ IF pending[id].deps = {NoneDep}
            THEN /\ pending' = Without(pending, {id})
                 /\ Items' = {[id |-> id, act |-> pending[id].act,
                               time |-> Later(pending[id].depEnd, pending[id].arrive)]}
            ELSE /\ pending' = [pending EXCEPT ![id].deps = @ \ {NoneDep}]
                 /\ Items' = {}
<1>1. TypeOK /\ Items = {} /\ Loops = {} /\ Todo = {} /\ stack = << >>
  BY IdleViews DEF CallInv, QueueInv, RemoveNoneDependency, Idle
<1>2. id \in Ids /\ pending[id] \in PendingRecords
  BY <1>1, PartialAt DEF TypeOK
<1>3. CASE pending[id].deps = {NoneDep}
  <2> DEFINE x == [id |-> id, act |-> pending[id].act,
                   time |-> Later(pending[id].depEnd, pending[id].arrive)]
  <2>1. x \in PushItems
    <3>1. Later(pending[id].depEnd, pending[id].arrive) \in Nat /\ pending[id].act \in Actions
      BY <1>2, LaterNat DEF PendingRecords
    <3>2. QED
      BY <1>2, <3>1 DEF PushItems
  <2>2. stack' = PushAll({x}, << >>) /\ pending' = Without(pending, {id})
    BY <1>3 DEF RemoveNoneDependency
  <2> HIDE DEF x
  <2>3. StackInv' /\ Items' = {x} /\ Loops' = {} /\ Todo' = {}
    <3>1. {x} \in SUBSET PushItems
      BY <2>1
    <3>2. QED
      BY <2>2, <3>1, CallViews
  <2>4. QED
    BY <1>1, <1>3, <2>2, <2>3 DEF x
<1>4. CASE pending[id].deps # {NoneDep}
  <2>1. stack' = << >> /\ pending' = [pending EXCEPT ![id].deps = @ \ {NoneDep}]
    BY <1>1, <1>4 DEF RemoveNoneDependency
  <2>2. StackInv' /\ Items' = {} /\ Loops' = {} /\ Todo' = {}
    BY <2>1, NilViews DEF StackInv, Items, Loops, Todo
  <2>3. QED
    BY <1>1, <1>4, <2>1, <2>2
<1>5. QED
  BY <1>3, <1>4

-----------------------------------------------------------------------------
(***************************************************************************)
(* The loop waits for unfinished flows, and what was added stays known.    *)
(***************************************************************************)

\* What end_event takes out of pending it pushes.
LEMMA EndEventFrees ==
  ASSUME TypeOK, NEW id, NEW start, NEW end, NEW rest, EndEvent(id, start, end, rest)
  PROVE  /\ DOMAIN pending' = DOMAIN pending \ Freed(id) /\ Freed(id) \subseteq DOMAIN pending
         /\ ended' = Put(ended, id, <<start, end>>) /\ DOMAIN ended' = DOMAIN ended \cup {id}
         /\ \A p \in DOMAIN pending' :
              IF p \in rev[id] /\ id \in pending[p].deps
              THEN /\ pending'[p].deps = pending[p].deps \ {id}
                   /\ pending'[p].depEnd = Later(pending[p].depEnd, end)
                   /\ pending'[p].arrive = pending[p].arrive /\ pending'[p].act = pending[p].act
              ELSE pending'[p] = pending[p]
<1>1. /\ DOMAIN pending' = DOMAIN pending \ Freed(id) /\ Freed(id) \subseteq DOMAIN pending
      /\ ended' = Put(ended, id, <<start, end>>) /\ DOMAIN ended' = DOMAIN ended \cup {id}
  BY DEF EndEvent, Freed, Put
<1>2. ASSUME NEW p \in DOMAIN pending'
      PROVE  IF p \in rev[id] /\ id \in pending[p].deps
             THEN /\ pending'[p].deps = pending[p].deps \ {id}
                  /\ pending'[p].depEnd = Later(pending[p].depEnd, end)
                  /\ pending'[p].arrive = pending[p].arrive /\ pending'[p].act = pending[p].act
             ELSE pending'[p] = pending[p]
  <2>1. p \in DOMAIN pending
    BY <1>1
  <2>2. pending[p] \in PendingRecords
    BY <2>1, PartialAt DEF TypeOK
  <2>3. CASE p \in rev[id] /\ id \in pending[p].deps
    <3>1. pending'[p] = [pending[p] EXCEPT !.deps = @ \ {id}, !.depEnd = Later(@, end)]
      BY <1>1, <2>1, <2>3 DEF EndEvent
    <3>2. QED
      BY <2>2, <2>3, <3>1 DEF PendingRecords
  <2>4. CASE ~ (p \in rev[id] /\ id \in pending[p].deps)
    BY <1>1, <2>1, <2>4 DEF EndEvent
  <2>5. QED
    BY <2>3, <2>4
<1>3. QED
  BY <1>1, <1>2

\* push_event: the flow that starts a rollback waits for what the network revived.
LEMMA PushEventCall ==
  ASSUME CallInv, PushEvent
  PROVE  CallInv'
<1>1. QueueInv /\ StackInv /\ LoopWait /\ KnownInv /\ TypeOK
  BY DEF CallInv, QueueInv
<1>2. QueueInv' /\ TypeOK'
  BY <1>1, PushEventKeeps DEF QueueInv
<1>3. StackInv' /\ Todo' = Todo
  BY PushEventViews
<1>4. PICK x \in Items :
        /\ PushPlain(x) \/ PushComputation(x) \/ PushFlow(x)
        /\ Items' = Items \ {x}
        /\ IF x.act.kind = "comm" /\ MustRollback(x.time * NsPerUs)
           THEN /\ Loops = {} /\ Todo = {}
                /\ Loops' = {[op |-> "loop", id |-> x.id, time |-> x.time, n |-> qcnt,
                              wait |-> Revived(x.time * NsPerUs)]}
           ELSE Loops' = Loops
  BY PushEventViews
<1>5. UNCHANGED <<pending, started, ended, rev, cnt>> /\ Known' = Known /\ x.id \in Known
  BY <1>1, <1>4 DEF PushEvent, Known, KnownInv
<1> DEFINE ts == x.time * NsPerUs
<1>6. CASE PushPlain(x)
  <2>1. LoopWait' /\ Loops' = Loops /\ UNCHANGED <<notStarted, nts, flows, retired>>
    BY <1>1, <1>4, <1>6 DEF PushPlain, Point, Finish, LoopWait, netVars
  <2>2. \A e \in DOMAIN queue' : e \in DOMAIN queue \/ e[2] = x.id
    BY <1>6 DEF PushPlain, Put
  <2>3. KnownInv'
    BY <1>1, <1>3, <1>4, <1>5, <2>1, <2>2 DEF KnownInv
  <2>4. QED
    BY <1>2, <1>3, <2>1, <2>3 DEF CallInv
<1>7. CASE PushComputation(x)
  <2>1. LoopWait' /\ Loops' = Loops /\ UNCHANGED <<nts, flows, retired>>
    BY <1>1, <1>4, <1>7 DEF PushComputation, LoopWait, netVars
  <2>2. /\ \A e \in DOMAIN queue' : e \in DOMAIN queue \/ e[2] = x.id
        /\ DOMAIN notStarted' = DOMAIN notStarted \cup {x.id}
    BY <1>7 DEF PushComputation, EnqueueStart, Put
  <2>3. KnownInv'
    BY <1>1, <1>3, <1>4, <1>5, <2>1, <2>2 DEF KnownInv
  <2>4. QED
    BY <1>2, <1>3, <2>1, <2>3 DEF CallInv
<1>8. CASE PushFlow(x) /\ MustRollback(ts)
  <2>1. /\ DOMAIN flows' = DOMAIN flows \cup Revived(ts) \cup {x.id}
        /\ DOMAIN retired' = DOMAIN retired \ Revived(ts)
        /\ UNCHANGED <<queue, notStarted>> /\ x.act.kind = "comm"
    BY <1>8 DEF PushFlow, NetArrive, Without
  <2>2. Loops' = {[op |-> "loop", id |-> x.id, time |-> x.time, n |-> qcnt, wait |-> Revived(ts)]}
    BY <1>4, <1>8, <2>1
  <2>3. LoopWait'
    BY <2>1, <2>2 DEF LoopWait
  <2>4. Revived(ts) \subseteq DOMAIN retired
    BY DEF Revived
  <2>5. KnownInv'
    BY <1>1, <1>3, <1>4, <1>5, <2>1, <2>2, <2>4 DEF KnownInv
  <2>6. QED
    BY <1>2, <1>3, <2>3, <2>5 DEF CallInv
<1>9. CASE PushFlow(x) /\ ~ MustRollback(ts)
  <2>1. /\ DOMAIN flows' = DOMAIN flows \cup {x.id} /\ UNCHANGED retired
        /\ \A e \in DOMAIN queue' : e \in DOMAIN queue \/ e[2] = x.id
        /\ DOMAIN notStarted' = DOMAIN notStarted \cup {x.id}
    BY <1>9 DEF PushFlow, NetArrive, EnqueueStart, Put
  <2>2. Loops' = Loops
    BY <1>4, <1>9
  <2>3. LoopWait'
    BY <1>1, <2>1, <2>2 DEF LoopWait
  <2>4. KnownInv'
    BY <1>1, <1>3, <1>4, <1>5, <2>1, <2>2 DEF KnownInv
  <2>5. QED
    BY <1>2, <1>3, <2>3, <2>4 DEF CallInv
<1>10. QED
  BY <1>4, <1>6, <1>7, <1>8, <1>9

\* An iteration of the rollback loop: it crosses off the flows the network completes.
LEMMA RollbackRunCall ==
  ASSUME CallInv, RollbackRun
  PROVE  CallInv'
<1>1. QueueInv /\ StackInv /\ LoopWait /\ KnownInv
  BY DEF CallInv
<1>2. QueueInv'
  BY <1>1, RollbackRunKeeps
<1>3. StackInv' /\ Items' = Items
  BY RollbackRunViews
<1>4. PICK t \in NextCompletions, done \in SUBSET DOMAIN flows, l \in Loops, m \in Loops' :
        /\ NetRun(t, done)
        /\ Loops = {l} /\ Loops' = {m}
        /\ m.id = l.id /\ m.wait = l.wait \ done
        /\ Todo' = {[id |-> f, ts |-> flows[f]] : f \in done}
  BY RollbackRunViews
<1>5. DOMAIN flows' = DOMAIN flows \ done /\ DOMAIN retired' = DOMAIN retired \cup done
  BY <1>4 DEF NetRun, Without
<1>6. UNCHANGED <<pending, queue, notStarted, started, ended, rev, cnt>> /\ Known' = Known
  BY DEF RollbackRun, queueVars, Known
<1>7. LoopWait'
  BY <1>1, <1>4, <1>5 DEF LoopWait
<1>8. KnownInv'
  BY <1>1, <1>3, <1>4, <1>5, <1>6 DEF KnownInv
<1>9. QED
  BY <1>2, <1>3, <1>7, <1>8 DEF CallInv

\* The loop handles a completed flow; the one just pushed ends and may free others.
LEMMA RollbackFinishCall ==
  ASSUME CallInv, RollbackFinish
  PROVE  CallInv'
<1>1. QueueInv /\ StackInv /\ LoopWait /\ KnownInv /\ TypeOK /\ nts \in Nat
  BY DEF CallInv, QueueInv, TypeOK
<1>2. QueueInv'
  BY <1>1, RollbackFinishKeeps
<1>3. /\ StackInv' /\ Loops' = Loops /\ Loops # {}
      /\ \A l \in Loops : l.id = Head(stack).id
      /\ Head(stack).at = nts
  BY RollbackFinishViews
<1>4. PICK r \in Todo : /\ Todo' = Todo \ {r}
                        /\ \/ FinishPushed(r) /\ Items' = FreedItems(r.id, ToUs(nts)) \cup Items
                           \/ FinishOther(r) /\ Items' = Items
  BY RollbackFinishViews
<1>5. UNCHANGED <<notStarted, rev, cnt, nts, flows, retired>>
  BY DEF RollbackFinish, netVars
<1>6. LoopWait'
  BY <1>1, <1>3, <1>5 DEF LoopWait
<1>7. r.id \in Ids
  BY <1>1, ViewTypes DEF Todo, TypeOK
<1>8. CASE FinishPushed(r) /\ Items' = FreedItems(r.id, ToUs(nts)) \cup Items
  <2>1. /\ EndEvent(r.id, Head(stack).time, ToUs(Head(stack).at), Rest(r))
        /\ UNCHANGED <<queue, started>> /\ r.id = Head(stack).id
    BY <1>8 DEF FinishPushed
  <2>2. /\ DOMAIN pending' = DOMAIN pending \ Freed(r.id) /\ Freed(r.id) \subseteq DOMAIN pending
        /\ DOMAIN ended' = DOMAIN ended \cup {r.id}
    BY <1>1, <2>1, EndEventFrees
  <2>3. Known \subseteq Known' /\ Freed(r.id) \subseteq Known'
    BY <1>1, <1>5, <2>2 DEF Known, QueueInv, PendingAdded
  <2>4. r.id \in Known
    BY <1>1, <1>3, <2>1 DEF KnownInv
  <2>5. \A x \in FreedItems(r.id, ToUs(nts)) : x.id \in Freed(r.id)
    BY DEF FreedItems
  <2>6. KnownInv'
    <3>1. \A x \in Items' : x.id \in Known'
      BY <1>1, <1>8, <2>3, <2>5 DEF KnownInv
    <3>2. DOMAIN ended' \subseteq Known'
      BY <1>1, <2>2, <2>3, <2>4 DEF KnownInv
    <3>3. QED
      BY <1>1, <1>3, <1>4, <1>5, <2>1, <2>3, <3>1, <3>2 DEF KnownInv
  <2>7. QED
    BY <1>2, <1>3, <1>6, <2>6 DEF CallInv
<1>9. CASE FinishOther(r) /\ Items' = Items
  <2>1. /\ UNCHANGED <<pending, ended>>
        /\ DOMAIN started' = DOMAIN started \cup {r.id}
        /\ DOMAIN queue' = DOMAIN queue \cup {<<"End", r.id>>}
    BY <1>9 DEF FinishOther, Put
  <2>2. Known' = Known
    BY <1>5, <2>1 DEF Known
  <2>3. r.id \in Known
    BY <1>1 DEF KnownInv
  <2>4. KnownInv'
    BY <1>1, <1>3, <1>4, <1>5, <1>9, <2>1, <2>2, <2>3 DEF KnownInv
  <2>5. QED
    BY <1>2, <1>3, <1>6, <2>4 DEF CallInv
<1>10. QED
  BY <1>4, <1>8, <1>9

\* The loop is left.
LEMMA RollbackDoneCall ==
  ASSUME CallInv, RollbackDone
  PROVE  CallInv'
<1>1. QueueInv /\ KnownInv
  BY DEF CallInv
<1>2. QueueInv'
  BY <1>1, RollbackDoneKeeps
<1>3. StackInv' /\ Items' = Items /\ Loops' = {} /\ Todo' = {} /\ Loops = {Head(stack)}
  BY RollbackDoneViews
<1>4. UNCHANGED <<pending, started, ended, rev, cnt, flows, retired>> /\ Known' = Known
  BY DEF RollbackDone, netVars, Known
<1>5. /\ DOMAIN notStarted' \subseteq DOMAIN notStarted \cup {Head(stack).id}
      /\ \A e \in DOMAIN queue' : e \in DOMAIN queue \/ e[2] = Head(stack).id
  BY DEF RollbackDone, EnqueueStart, Put
<1>6. KnownInv'
  BY <1>1, <1>3, <1>4, <1>5 DEF KnownInv
<1>7. QED
  BY <1>2, <1>3, <1>6 DEF CallInv, LoopWait

\* try_proceed_netsim: the Ends to push are those of flows the network had.
LEMMA ProceedNetsimCall ==
  ASSUME CallInv, ProceedNetsim
  PROVE  CallInv'
<1>1. QueueInv /\ KnownInv
  BY DEF CallInv
<1>2. QueueInv'
  BY <1>1, ProceedNetsimKeeps
<1>3. StackInv' /\ Loops' = {} /\ Todo' = {}
  BY ProceedNetsimViews
<1>4. PICK t \in NextCompletions, done \in SUBSET DOMAIN flows :
        /\ NetRun(t, done)
        /\ Items' = {[id |-> f, act |-> Finish, time |-> ToUs(t)] : f \in done}
  BY ProceedNetsimViews
<1>5. UNCHANGED <<pending, queue, notStarted, started, ended, rev, cnt>> /\ Known' = Known
  BY DEF ProceedNetsim, queueVars, Known
<1>6. DOMAIN flows' = DOMAIN flows \ done /\ DOMAIN retired' = DOMAIN retired \cup done
  BY <1>4 DEF NetRun, Without
<1>7. KnownInv'
  BY <1>1, <1>3, <1>4, <1>5, <1>6 DEF KnownInv
<1>8. QED
  BY <1>2, <1>3, <1>7 DEF CallInv, LoopWait

\* execute: what it frees was added.
LEMMA ExecuteCall ==
  ASSUME CallInv, Execute
  PROVE  CallInv'
<1>1. QueueInv /\ KnownInv /\ TypeOK
  BY DEF CallInv, QueueInv
<1>2. QueueInv'
  BY <1>1, ExecuteKeeps
<1>3. StackInv' /\ Loops' = {} /\ Todo' = {}
  BY ExecuteViews
<1>4. PICK e \in DOMAIN queue :
        /\ ExecuteEvent(e)
        /\ e \in Events
        /\ Items' = IF e[1] = "Start" THEN {} ELSE FreedItems(e[2], queue[e][1])
  BY ExecuteViews
<1>5. UNCHANGED <<rev, cnt, flows, retired>> /\ e[2] \in Known
  BY <1>1, <1>4 DEF ExecuteEvent, netVars, KnownInv
<1>6. CASE ExecuteStart(e)
  <2>1. /\ UNCHANGED <<ended, pending>> /\ e[1] = "Start"
        /\ DOMAIN notStarted' \subseteq DOMAIN notStarted
        /\ DOMAIN started' = DOMAIN started \cup {e[2]}
        /\ \A q \in DOMAIN queue' : q \in DOMAIN queue \/ q[2] = e[2]
    BY <1>6 DEF ExecuteStart, Put, Without
  <2>2. Known' = Known
    BY <1>5, <2>1 DEF Known
  <2>3. KnownInv'
    BY <1>1, <1>3, <1>4, <1>5, <2>1, <2>2 DEF KnownInv
  <2>4. QED
    BY <1>2, <1>3, <2>3 DEF CallInv, LoopWait
<1>7. CASE ExecutePoint(e) \/ ExecuteEnd(e)
  <2>1. /\ \E start : EndEvent(e[2], start, queue[e][1], << >>)
        /\ DOMAIN queue' \subseteq DOMAIN queue /\ DOMAIN started' \subseteq DOMAIN started
        /\ UNCHANGED notStarted
        /\ e[1] # "Start"
    BY <1>7 DEF ExecutePoint, ExecuteEnd, Without
  <2>2. PICK start : EndEvent(e[2], start, queue[e][1], << >>)
    BY <2>1
  <2>3. /\ DOMAIN pending' = DOMAIN pending \ Freed(e[2]) /\ Freed(e[2]) \subseteq DOMAIN pending
        /\ DOMAIN ended' = DOMAIN ended \cup {e[2]}
    BY <1>1, <2>2, EndEventFrees
  <2>4. Known \subseteq Known' /\ Freed(e[2]) \subseteq Known'
    BY <1>1, <1>5, <2>3 DEF Known, QueueInv, PendingAdded
  <2>5. \A x \in FreedItems(e[2], queue[e][1]) : x.id \in Freed(e[2])
    BY DEF FreedItems
  <2>6. \A x \in Items' : x.id \in Known'
    BY <1>4, <2>1, <2>4, <2>5
  <2>7. KnownInv'
    BY <1>1, <1>3, <1>5, <2>1, <2>3, <2>4, <2>6 DEF KnownInv
  <2>8. QED
    BY <1>2, <1>3, <2>7 DEF CallInv, LoopWait
<1>8. QED
  BY <1>4, <1>6, <1>7 DEF ExecuteEvent

\* The calls that build the graph: a new event depends on earlier ones.
LEMMA BuildCall ==
  ASSUME CallInv, AnyBuild
  PROVE  CallInv'
<1>1. QueueInv /\ KnownInv /\ TypeOK /\ cnt \in Nat
  BY DEF CallInv, QueueInv, TypeOK
<1>2. ASSUME NEW deps \in SUBSET (0 .. cnt - 1 \cup {NoneDep}), NEW act \in Actions, NEW t \in Nat,
             AddActionOrPoint(deps, act, t)
      PROVE  CallInv'
  <2>1. t \in Nat
    OBVIOUS
  <2>2. QueueInv'
    BY <1>1, <1>2, <2>1, AddActionOrPointKeeps
  <2>3. StackInv' /\ Loops' = {} /\ Todo' = {}
    BY <1>2, <2>1, AddViews
  <2>4. \/ \E now \in Nat : Items' = {[id |-> cnt, act |-> act, time |-> now]} /\ UNCHANGED pending
        \/ DOMAIN pending' = DOMAIN pending \cup {cnt} /\ Items' = {}
    BY <1>2, <2>1, AddViews DEF Put
  <2>5. /\ UNCHANGED <<queue, notStarted, started, ended, flows, retired>> /\ cnt' = cnt + 1
        /\ \A d \in Ids : rev'[d] \subseteq rev[d] \cup {cnt}
    BY <1>2 DEF AddActionOrPoint, netVars
  <2>6. 0 .. cnt' - 1 = (0 .. cnt - 1) \cup {cnt} /\ cnt \notin DOMAIN pending
    BY <1>1, <2>5 DEF QueueInv, PendingAdded
  <2>7. Known \subseteq Known' /\ (UNCHANGED pending => cnt \in Known')
    BY <2>4, <2>6 DEF Known
  <2>8. \A x \in Items' : x.id \in Known'
    BY <2>4, <2>7
  <2>9. KnownInv'
    BY <1>1, <2>3, <2>5, <2>6, <2>7, <2>8 DEF KnownInv
  <2>10. QED
    BY <2>2, <2>3, <2>9 DEF CallInv, LoopWait
<1>3. ASSUME NEW id \in DOMAIN pending, NEW dep \in DOMAIN pending, AddDependency(id, dep)
      PROVE  CallInv'
  <2>1. QueueInv'
    BY <1>1, <1>3, AddDependencyKeeps
  <2>2. StackInv' /\ Items' = {} /\ Loops' = {} /\ Todo' = {}
    BY <1>3, LinkViews
  <2>3. /\ UNCHANGED <<queue, notStarted, started, ended, cnt, flows, retired>>
        /\ DOMAIN pending' = DOMAIN pending /\ rev' = [rev EXCEPT ![dep] = @ \cup {id}]
    BY <1>3 DEF AddDependency, netVars
  <2>4. id \in 0 .. cnt - 1 /\ rev \in [Ids -> SUBSET Ids]
    BY <1>1 DEF QueueInv, PendingAdded, TypeOK
  <2>5. Known' = Known /\ \A d \in Ids : rev'[d] \subseteq rev[d] \cup {id}
    BY <2>3, <2>4 DEF Known
  <2>6. KnownInv'
    BY <1>1, <2>2, <2>3, <2>4, <2>5 DEF KnownInv
  <2>7. QED
    BY <2>1, <2>2, <2>6 DEF CallInv, LoopWait
<1>4. ASSUME NEW id \in DOMAIN pending, RemoveNoneDependency(id)
      PROVE  CallInv'
  <2>1. QueueInv'
    BY <1>1, <1>4, RemoveNoneDependencyKeeps
  <2>2. StackInv' /\ Loops' = {} /\ Todo' = {}
    BY <1>4, ReleaseViews
  <2>3. UNCHANGED <<queue, notStarted, started, ended, rev, cnt, flows, retired>>
    BY <1>4 DEF RemoveNoneDependency, netVars
  <2>4. /\ DOMAIN pending' \subseteq DOMAIN pending
        /\ \A x \in Items' : x.id = id /\ id \notin DOMAIN pending'
    <3>1. CASE pending[id].deps = {NoneDep}
      <4>1. /\ pending' = Without(pending, {id})
            /\ Items' = {[id |-> id, act |-> pending[id].act,
                          time |-> Later(pending[id].depEnd, pending[id].arrive)]}
        BY <1>4, <3>1, ReleaseViews
      <4>2. QED
        BY <4>1 DEF Without
    <3>2. CASE pending[id].deps # {NoneDep}
      <4>1. pending' = [pending EXCEPT ![id].deps = @ \ {NoneDep}] /\ Items' = {}
        BY <1>4, <3>2, ReleaseViews
      <4>2. QED
        BY <4>1
    <3>3. QED
      BY <3>1, <3>2
  <2>5. id \in 0 .. cnt - 1
    BY <1>1 DEF QueueInv, PendingAdded
  <2>6. Known \subseteq Known' /\ \A x \in Items' : x.id \in Known'
    BY <2>3, <2>4, <2>5 DEF Known
  <2>7. KnownInv'
    BY <1>1, <2>2, <2>3, <2>6 DEF KnownInv
  <2>8. QED
    BY <2>1, <2>2, <2>7 DEF CallInv, LoopWait
<1>5. QED
  BY <1>2, <1>3, <1>4 DEF AnyBuild

\* Every step keeps the invariant of the call stack.
LEMMA NextCallInv ==
  ASSUME CallInv, [AnyNext]_vars
  PROVE  CallInv'
<1>1. CASE AnyNext
  BY <1>1, BuildCall, ProceedNetsimCall, ExecuteCall, PushEventCall, RollbackRunCall,
     RollbackFinishCall, RollbackDoneCall DEF AnyNext, Internal
<1>2. CASE UNCHANGED vars
  <2>1. QueueInv'
    BY <1>2, NextQueueInv DEF CallInv
  <2>2. UNCHANGED <<pending, queue, notStarted, started, ended, rev, cnt, nts, flows, retired, stack>>
    BY <1>2 DEF vars, queueVars, netVars
  <2>3. Items' = Items /\ Loops' = Loops /\ Todo' = Todo /\ Known' = Known /\ StackInv'
    BY <2>2 DEF Items, Loops, Todo, Known, CallInv, StackInv
  <2>4. QED
    BY <2>1, <2>2, <2>3 DEF CallInv, LoopWait, KnownInv
<1>3. QED
  BY <1>1, <1>2

\* Before the first call the stack is empty.
LEMMA InitCallInv ==
  ASSUME Init
  PROVE  CallInv
<1>1. QueueInv
  BY InitQueueInv
<1>2. Items = {} /\ Loops = {} /\ Todo = {} /\ StackInv
  BY IdleViews DEF Init, Idle
<1>3. QED
  BY <1>1, <1>2 DEF Init, CallInv, LoopWait, KnownInv, Known

\* The inductive invariant of the call stack.
THEOREM CallInvariant == Spec => []CallInv
<1>1. Init => CallInv
  BY InitCallInv
<1>2. CallInv /\ [Next]_vars => CallInv'
  BY NextCallInv, NextIsAny
<1>3. QED
  BY <1>1, <1>2, PTL DEF Spec

\* A rollback is never started while another one is being replayed: what
\* push_event is given by the end_event calls of the rollback loop is due no
\* earlier than the microsecond the network has been brought to.
THEOREM RollbacksDoNotNest == Spec => []OneRollbackAtATime
<1>1. ASSUME CallInv
      PROVE  OneRollbackAtATime
  <2>1. stack \in Seq(Frames) /\ Shape(stack, nts)
    BY <1>1 DEF CallInv, QueueInv, TypeOK, StackInv
  <2>2. QED
    BY <2>1, OneLoop DEF OneRollbackAtATime
<1>2. QED
  BY <1>1, CallInvariant, PTL

\* Every flow the rollback loop of push_event waits for is one the network has
\* still to complete: run_one_step always has a flow to return to it.
THEOREM LoopCanProceed == Spec => []LoopTargetsUnfinished
<1>1. ASSUME CallInv
      PROVE  LoopTargetsUnfinished
  <2>1. ASSUME NEW i \in 1 .. Len(stack), stack[i].op = "loop"
        PROVE  stack[i] \in Loops
    BY <2>1 DEF Loops, LoopsIn
  <2>2. QED
    BY <1>1, <2>1 DEF CallInv, LoopWait, LoopTargetsUnfinished
<1>2. QED
  BY <1>1, CallInvariant, PTL
====

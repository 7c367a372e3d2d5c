---------------------------- MODULE EventQueue ----------------------------
(***************************************************************************)
(* The event queue of the Phantora simulator                               *)
(* (phantora/phantora/src/event_queue.rs): a DAG of simulated events, a    *)
(* priority queue of the ones whose dependencies have ended, and the       *)
(* coupling with the flow-level network simulator, which runs ahead of the *)
(* queue and is rolled back when a flow turns up in its past.              *)
(*                                                                         *)
(* The network simulator is represented by its contract, NetContract,      *)
(* which module NetSim implements.                                         *)
(*                                                                         *)
(* Queue times are microseconds; network times are ticks of which NsPerUs  *)
(* make a microsecond, so the rounding of the two conversions is kept.     *)
(*                                                                         *)
(* One call into the queue is a run to completion of a recursive function: *)
(* end_event pushes the events it frees, pushing a flow may roll the       *)
(* network back, and re-running the network may end the flow just pushed,  *)
(* which frees more events.  The call stack of that recursion is the       *)
(* variable stack; a new call is accepted only when it is empty.           *)
(***************************************************************************)
EXTENDS NetContract, Sequences

CONSTANTS
  MaxEvents,  \* bound on the number of events ever added
  Times,      \* the host clock values callers may pass
  Durations,  \* the computation times the estimators may return
  NoneDep     \* the dependency None: a barrier released by hand

ASSUME ConstantsAssumption ==
  /\ MaxEvents \in Nat
  /\ Times \subseteq Nat
  /\ Durations \subseteq Nat
  /\ Spans \subseteq Nat
  /\ NsPerUs \in Nat \ {0}
  /\ NoneDep \notin Nat

VARIABLES
  pending,    \* event -> dependencies it waits for, arrival, latest dependency end, action
  queue,      \* PriorityQueue: <<"Start" | "End" | "Point", event>> -> <<time, counter>>
  qcnt,       \* queue_counter
  notStarted, \* in_queue_not_started: event -> action
  started,    \* event -> start time
  ended,      \* event -> <<start time, end time>>
  rev,        \* rev_dependencies: event -> the events that depend on it
  cnt,        \* event_counter: the next EventId
  stack,      \* the frames of the call in progress, innermost first
  revived     \* history: flows that had ended when a rollback revived them

queueVars == <<pending, queue, qcnt, notStarted, started, ended, rev, cnt>>
vars      == <<queueVars, netVars, stack, revived>>

Ids == 0 .. MaxEvents - 1

Point     == [kind |-> "point", dur |-> 0]
Comm      == [kind |-> "comm", dur |-> 0]
Comp(d)   == [kind |-> "comp", dur |-> d]
Actions   == {Point, Comm} \cup {Comp(d) : d \in Durations}
Finish    == [kind |-> "end", dur |-> 0]   \* PushEvent::End, which carries no action
Events    == {"Start", "End", "Point"} \X Ids

Before(p, q)   == p[1] < q[1] \/ (p[1] = q[1] /\ p[2] <= q[2])

Init ==
  /\ pending = << >> /\ queue = << >> /\ qcnt = 0
  /\ notStarted = << >> /\ started = << >> /\ ended = << >>
  /\ rev = [e \in Ids |-> {}] /\ cnt = 0
  /\ nts = 0 /\ flows = << >> /\ retired = << >>
  /\ stack = << >> /\ revived = {}

-----------------------------------------------------------------------------
(***************************************************************************)
(* The frames of a call and its internal steps.                            *)
(***************************************************************************)

\* A call that has the events in items to push, in any order, before rest: the
\* order is that of a HashSet or of the network's list of running flows.
PushAll(items, rest) ==
  IF items = {} THEN rest ELSE <<[op |-> "push", todo |-> items]>> \o rest

\* What is left of the stack after element x of the innermost frame's todo.
Rest(x) ==
  IF Head(stack).todo = {x}
  THEN Tail(stack)
  ELSE <<[Head(stack) EXCEPT !.todo = @ \ {x}]>> \o Tail(stack)

Idle     == stack = << >>
InOp(op) == stack # << >> /\ Head(stack).op = op

\* Mutant: Freed, but one ended dependency is enough.
FreedByAny(id) == {p \in DOMAIN pending : p \in rev[id] /\ id \in pending[p].deps}

\* The pending events whose last dependency is id.
Freed(id) == {p \in DOMAIN pending : p \in rev[id] /\ pending[p].deps = {id}}

\* Mutant: PushTime, but dependencies do not delay the event.
PushTimeOnArrival(p, end) == pending[p].arrive

\* When pending event p can begin, its last dependency having ended at end.
PushTime(p, end) == Later(Later(pending[p].depEnd, end), pending[p].arrive)

\* end_event: record the span, drop the dependency from every pending event
\* that has it, and push the ones that wait for nothing else.
EndEvent(id, start, end, rest) ==
  LET waiters == {p \in DOMAIN pending : p \in rev[id] /\ id \in pending[p].deps}
      freed   == Freed(id)
  IN  /\ ended' = Put(ended, id, <<start, end>>)
      /\ pending' = [p \in DOMAIN pending \ freed |->
                       IF p \in waiters
                       THEN [pending[p] EXCEPT !.deps = @ \ {id},
                                               !.depEnd = Later(@, end)]
                       ELSE pending[p]]
      /\ stack' = PushAll({[id |-> p, act |-> pending[p].act, time |-> PushTime(p, end)] :
                             p \in freed}, rest)

\* Enter id's Start into the queue with priority <<time, n>>.
EnqueueStart(id, act, time, n) ==
  /\ queue' = Put(queue, <<"Start", id>>, <<time, n>>)
  /\ notStarted' = Put(notStarted, id, act)

\* push_event for a Point or an End, for a computation, and for a flow, which
\* enters the queue at once unless the network has to roll back.
PushPlain(x) ==
  /\ \/ x.act = Point  /\ queue' = Put(queue, <<"Point", x.id>>, <<x.time, qcnt>>)
     \/ x.act = Finish /\ queue' = Put(queue, <<"End", x.id>>, <<x.time, qcnt>>)
  /\ stack' = Rest(x)
  /\ UNCHANGED <<notStarted, netVars, revived>>

PushComputation(x) ==
  /\ x.act.kind = "comp"
  /\ EnqueueStart(x.id, x.act, x.time, qcnt)
  /\ stack' = Rest(x)
  /\ UNCHANGED <<netVars, revived>>

PushFlow(x) ==
  LET ts == x.time * NsPerUs
  IN  /\ x.act.kind = "comm"
      /\ NetArrive(x.id, ts)
      /\ IF MustRollback(ts)
         THEN /\ stack' = <<[op |-> "loop", id |-> x.id, time |-> x.time, n |-> qcnt,
                             wait |-> Revived(ts)]>> \o Rest(x)
              /\ revived' = revived \cup (Revived(ts) \cap DOMAIN ended)
              /\ UNCHANGED <<queue, notStarted>>
         ELSE /\ EnqueueStart(x.id, x.act, x.time, qcnt)
              /\ stack' = Rest(x)
              /\ UNCHANGED revived

PushEvent ==
  /\ InOp("push")
  /\ \E x \in Head(stack).todo : PushPlain(x) \/ PushComputation(x) \/ PushFlow(x)
  /\ qcnt' = qcnt + 1
  /\ UNCHANGED <<pending, started, ended, rev, cnt>>

\* Mutant: StillRevived, but nothing is crossed off.
StillRevivedAll(wait, done) == wait

\* The revived flows the loop waits for once those in done have completed.
StillRevived(wait, done) == wait \ done

\* The rollback loop of push_event: run the network until every revived flow
\* has completed again.
RollbackRun ==
  /\ InOp("loop")
  /\ Head(stack).wait # {}
  /\ \E t \in NextCompletions, done \in SUBSET DOMAIN flows :
       /\ NetRun(t, done)
       /\ stack' = <<[op |-> "finish", at |-> t, id |-> Head(stack).id,
                      time |-> Head(stack).time,
                      todo |-> {[id |-> f, ts |-> flows[f]] : f \in done}],
                     [Head(stack) EXCEPT !.wait = StillRevived(@, done)]>> \o Tail(stack)
  /\ UNCHANGED <<queueVars, revived>>

\* The flow just pushed completed: it ends at once.
FinishPushed(r) ==
  /\ r.id = Head(stack).id
  /\ EndEvent(r.id, Head(stack).time, ToUs(Head(stack).at), Rest(r))
  /\ UNCHANGED <<queue, qcnt, started>>

\* Mutant: FinishOther, but a flow that had ended is not entered into started.
FinishOtherNoStart(r) ==
  /\ r.id # Head(stack).id
  /\ started' = IF r.id \in DOMAIN ended THEN started ELSE Put(started, r.id, ToUs(r.ts))
  /\ queue' = Put(queue, <<"End", r.id>>, <<ToUs(Head(stack).at), qcnt>>)
  /\ qcnt' = qcnt + 1
  /\ stack' = Rest(r)
  /\ UNCHANGED <<ended, pending>>

\* Mutant: FinishOther, but an End that is already in the queue stays.
FinishOtherKeepEnd(r) ==
  /\ r.id # Head(stack).id
  /\ started' = Put(started, r.id, ToUs(r.ts))
  /\ queue' = IF <<"End", r.id>> \in DOMAIN queue
              THEN queue
              ELSE Put(queue, <<"End", r.id>>, <<ToUs(Head(stack).at), qcnt>>)
  /\ qcnt' = qcnt + 1
  /\ stack' = Rest(r)
  /\ UNCHANGED <<ended, pending>>

\* Another flow completed: it (re)enters started and gets an End, which
\* replaces the one it may still have in the queue.  The branch that would
\* re-time an already ended event (add_end_time_to) tests for a flow that the
\* line above has just removed from the set, so no step takes it.
FinishOther(r) ==
  /\ r.id # Head(stack).id
  /\ started' = Put(started, r.id, ToUs(r.ts))
  /\ queue' = Put(queue, <<"End", r.id>>, <<ToUs(Head(stack).at), qcnt>>)
  /\ qcnt' = qcnt + 1
  /\ stack' = Rest(r)
  /\ UNCHANGED <<ended, pending>>

\* One flow of finished_flows.
RollbackFinish ==
  /\ InOp("finish")
  /\ \E r \in Head(stack).todo : FinishPushed(r) \/ FinishOther(r)
  /\ UNCHANGED <<notStarted, rev, cnt, netVars, revived>>

\* The loop is over: the pushed flow enters the queue with the priority taken
\* when push_event was called, unless it has ended meanwhile.
RollbackDone ==
  /\ InOp("loop")
  /\ Head(stack).wait = {}
  /\ IF Head(stack).id \in DOMAIN ended
     THEN UNCHANGED <<queue, notStarted>>
     ELSE EnqueueStart(Head(stack).id, Comm, Head(stack).time, Head(stack).n)
  /\ stack' = Tail(stack)
  /\ UNCHANGED <<pending, qcnt, started, ended, rev, cnt, netVars, revived>>

-----------------------------------------------------------------------------
(***************************************************************************)
(* Execution: what execute and peek_next_time do.                          *)
(***************************************************************************)

\* try_proceed_netsim, called by execute and by peek_next_time on an empty
\* queue: run the network to its next completions and push their Ends.
ProceedNetsim ==
  /\ Idle
  /\ DOMAIN queue = {}
  /\ \E t \in NextCompletions, done \in SUBSET DOMAIN flows :
       /\ NetRun(t, done)
       /\ stack' = PushAll({[id |-> f, act |-> Finish, time |-> ToUs(t)] : f \in done}, << >>)
  /\ UNCHANGED <<queueVars, revived>>

\* The event execute pops: the one with the least (time, counter).
IsNext(e) == e \in DOMAIN queue /\ \A o \in DOMAIN queue : Before(queue[e], queue[o])

ExecutePoint(e) ==
  /\ e[1] = "Point"
  /\ queue' = Without(queue, {e})
  /\ EndEvent(e[2], queue[e][1], queue[e][1], << >>)
  /\ UNCHANGED <<qcnt, notStarted, started>>

ExecuteEnd(e) ==
  /\ e[1] = "End"
  /\ queue' = Without(queue, {e})
  /\ e[2] \in DOMAIN started
  /\ started' = Without(started, {e[2]})
  /\ EndEvent(e[2], started[e[2]], queue[e][1], << >>)
  /\ UNCHANGED <<qcnt, notStarted>>

\* A computation's End is pushed at once; a flow's comes from the network.
ExecuteStart(e) ==
  LET id == e[2] IN
  /\ e[1] = "Start"
  /\ id \in DOMAIN notStarted
  /\ notStarted' = Without(notStarted, {id})
  /\ started' = Put(started, id, queue[e][1])
  /\ \/ /\ notStarted[id].kind = "comp"
        /\ queue' = Put(Without(queue, {e}), <<"End", id>>,
                        <<queue[e][1] + notStarted[id].dur, qcnt>>)
        /\ qcnt' = qcnt + 1
     \/ /\ notStarted[id].kind = "comm"
        /\ queue' = Without(queue, {e})
        /\ UNCHANGED qcnt
  /\ UNCHANGED <<ended, pending, stack>>

ExecuteEvent(e) ==
  /\ Idle
  /\ IsNext(e)
  /\ ExecutePoint(e) \/ ExecuteEnd(e) \/ ExecuteStart(e)
  /\ UNCHANGED <<rev, cnt, netVars, revived>>

Execute == \E e \in DOMAIN queue : ExecuteEvent(e)

-----------------------------------------------------------------------------
(***************************************************************************)
(* The calls that build the DAG.  Their preconditions are how simulator.rs *)
(* calls them: only points carry the dependency None; a flow is added      *)
(* under a meta point that is still pending; add_dependency links two      *)
(* pending events without closing a cycle.                                 *)
(***************************************************************************)

\* now is the later of the call and of the ends of the dependencies in over.
IsArrival(now, t, over) == now >= t /\ \A d \in over : now >= ended[d][2]

AddActionOrPoint(deps, act, t) ==
  LET id   == cnt
      real == deps \ {NoneDep}
      over == real \cap DOMAIN ended
      live == deps \ over
  IN  /\ Idle
      /\ cnt < MaxEvents
      /\ NoneDep \in deps => act = Point
      /\ act = Comm => deps \cap DOMAIN pending # {}
      /\ cnt' = cnt + 1
      /\ rev' = [d \in Ids |-> IF d \in real THEN rev[d] \cup {id} ELSE rev[d]]
      /\ \E now \in {t} \cup {ended[d][2] : d \in over} :
           /\ IsArrival(now, t, over)
           /\ IF live = {}
              THEN /\ stack' = PushAll({[id |-> id, act |-> act, time |-> now]}, << >>)
                   /\ UNCHANGED pending
              ELSE /\ pending' = Put(pending, id, [deps |-> live, arrive |-> now,
                                                   depEnd |-> 0, act |-> act])
                   /\ UNCHANGED stack
      /\ UNCHANGED <<queue, qcnt, notStarted, started, ended, netVars, revived>>

\* Pending event p does not wait, directly or not, for pending event q.
Independent(p, q) ==
  \E S \in SUBSET DOMAIN pending :
    /\ p \in S /\ q \notin S
    /\ \A r \in S : pending[r].deps \cap DOMAIN pending \subseteq S

\* Mutant: AddDependency, but the dependency does not learn of its dependent.
AddDependencyOneWay(id, dep) ==
  /\ Idle
  /\ Independent(dep, id)
  /\ IF dep \in DOMAIN ended
     THEN UNCHANGED pending
     ELSE pending' = [pending EXCEPT ![id].deps = @ \cup {dep}]
  /\ UNCHANGED <<queue, qcnt, notStarted, started, ended, rev, cnt, netVars, stack, revived>>

AddDependency(id, dep) ==
  /\ Idle
  /\ Independent(dep, id)
  /\ rev' = [rev EXCEPT ![dep] = @ \cup {id}]
  /\ IF dep \in DOMAIN ended
     THEN UNCHANGED pending
     ELSE pending' = [pending EXCEPT ![id].deps = @ \cup {dep}]
  /\ UNCHANGED <<queue, qcnt, notStarted, started, ended, cnt, netVars, stack, revived>>

\* Mutant: RemoveNoneDependency, but the released event is never pushed.
RemoveNoneDependencyLose(id) ==
  /\ Idle
  /\ NoneDep \in pending[id].deps
  /\ IF pending[id].deps = {NoneDep}
     THEN pending' = Without(pending, {id})
     ELSE pending' = [pending EXCEPT ![id].deps = @ \ {NoneDep}]
  /\ UNCHANGED <<queue, qcnt, notStarted, started, ended, rev, cnt, netVars, stack, revived>>

RemoveNoneDependency(id) ==
  LET p == pending[id] IN
  /\ Idle
  /\ NoneDep \in p.deps
  /\ IF p.deps = {NoneDep}
     THEN /\ pending' = Without(pending, {id})
          /\ stack' = PushAll({[id |-> id, act |-> p.act,
                                time |-> Later(p.depEnd, p.arrive)]}, << >>)
     ELSE /\ pending' = [pending EXCEPT ![id].deps = @ \ {NoneDep}]
          /\ UNCHANGED stack
  /\ UNCHANGED <<queue, qcnt, notStarted, started, ended, rev, cnt, netVars, revived>>

Build ==
  \/ \E deps \in SUBSET (0 .. cnt - 1 \cup {NoneDep}), act \in Actions, t \in Times :
       AddActionOrPoint(deps, act, t)
  \/ \E id, dep \in DOMAIN pending : AddDependency(id, dep)
  \/ \E id \in DOMAIN pending : RemoveNoneDependency(id)

\* The steps that finish a call once it has begun.
Internal == PushEvent \/ RollbackRun \/ RollbackFinish \/ RollbackDone

Next == Build \/ ProceedNetsim \/ Execute \/ Internal

Spec == Init /\ [][Next]_vars

-----------------------------------------------------------------------------
(***************************************************************************)
(* Properties                                                              *)
(***************************************************************************)

PendingRecords == [deps : SUBSET (Ids \cup {NoneDep}), arrive : Nat, depEnd : Nat,
                   act : Actions]
PushItems      == [id : Ids, act : Actions \cup {Finish}, time : Nat]
Frames         == [op : {"push"}, todo : SUBSET PushItems]
                    \cup [op : {"loop"}, id : Ids, time : Nat, n : Nat, wait : SUBSET Ids]
                    \cup [op : {"finish"}, at : Nat, id : Ids, time : Nat,
                          todo : SUBSET [id : Ids, ts : Nat]]

\* f is a partial function from D to R.
Partial(f, D, R) == DOMAIN f \subseteq D /\ f \in [DOMAIN f -> R]

\* The variables have the shapes the structs of event_queue.rs declare.
TypeOK ==
  /\ Partial(pending, Ids, PendingRecords)
  /\ Partial(queue, Events, Nat \X Nat)
  /\ qcnt \in Nat
  /\ Partial(notStarted, Ids, Actions)
  /\ Partial(started, Ids, Nat)
  /\ Partial(ended, Ids, Nat \X Nat)
  /\ rev \in [Ids -> SUBSET Ids]
  /\ cnt \in 0 .. MaxEvents
  /\ nts \in Nat
  /\ Partial(flows, Ids, Nat)
  /\ Partial(retired, Ids, [ts : Nat, end : Nat])
  /\ stack \in Seq(Frames)
  /\ revived \subseteq Ids

\* execute unwraps what it removes from started (End) and in_queue_not_started
\* (Start), and push_event asserts that a flow completed after a rollback has
\* the start it had.  Rollbacks put Ends of flows into the queue that have not
\* started or have already ended, and yet nothing of this can fail.
UnwrapSafe ==
  /\ Idle => \A e \in DOMAIN queue : IsNext(e) =>
               /\ e[1] = "End" => e[2] \in DOMAIN started
               /\ e[1] = "Start" => e[2] \in DOMAIN notStarted
  /\ InOp("finish") => \A r \in Head(stack).todo :
                         r.id \in DOMAIN started => started[r.id] = ToUs(r.ts)

\* Between calls the queue and the network agree on every flow, however often
\* it was rolled back: a completed flow has exactly one end, in the queue or in
\* ended, and it is the instant the network completed it last; an unfinished
\* flow is nowhere recorded as ending.
QueueNetAgree ==
  Idle =>
    /\ \A f \in DOMAIN retired :
         LET end == ToUs(retired[f].end) IN
         IF <<"End", f>> \in DOMAIN queue
         THEN queue[<<"End", f>>][1] = end
         ELSE f \in DOMAIN ended /\ ended[f][2] = end
    /\ \A f \in DOMAIN flows : <<"End", f>> \notin DOMAIN queue /\ f \notin DOMAIN ended

\* A pending event waits for something, and only for events that have not
\* ended and whose end will find it in rev_dependencies: no wake-up is lost.
NoLostWakeup ==
  \A p \in DOMAIN pending :
    /\ pending[p].deps # {}
    /\ \A d \in pending[p].deps \ {NoneDep} :
         d < cnt /\ d \notin DOMAIN ended /\ p \in rev[d]

\* The start times recorded for event e, in the queue or after it left it.
StartTimes(e) ==
  {queue[q][1] : q \in DOMAIN queue \cap {<<"Start", e>>, <<"Point", e>>}}
    \cup {started[x] : x \in DOMAIN started \cap {e}}
    \cup {ended[x][1] : x \in DOMAIN ended \cap {e}}

\* An event starts only after each of its dependencies has ended, and not
\* before the time at which it ended, unless a rollback has since moved that
\* end.
DependencyOrder ==
  \A d \in Ids : \A e \in rev[d] : \A t \in StartTimes(e) :
    /\ d \in DOMAIN ended
    /\ d \notin revived => t >= ended[d][2]

\* The same for every dependency.  This is what the rollback is for, and what
\* the unreachable branch of push_event would maintain.
DependencyOrderStrict ==
  Idle => \A d \in DOMAIN ended : \A e \in rev[d] : \A t \in StartTimes(e) : t >= ended[d][2]

\* While the network is re-run after a rollback, the events that are freed can
\* push flows; none of them rolls the network back again.
OneRollbackAtATime ==
  \A i, j \in 1 .. Len(stack) : stack[i].op = "loop" /\ stack[j].op = "loop" => i = j

\* The rollback loop waits only for flows the network has still to complete.
\* Otherwise run_one_step would return no flow and the loop never end.
LoopTargetsUnfinished ==
  \A i \in 1 .. Len(stack) : stack[i].op = "loop" => stack[i].wait \subseteq DOMAIN flows

\* When execute reports EmptyQueue, every event that has not ended is pending
\* and waits, through its dependencies, for a barrier that some later call has
\* to release.
EmptyMeansBarrier ==
  (Idle /\ DOMAIN queue = {} /\ DOMAIN flows = {}) =>
    /\ 0 .. cnt - 1 = DOMAIN pending \cup DOMAIN ended
    /\ \A S \in SUBSET DOMAIN pending :
         S # {} => \E p \in S : NoneDep \in pending[p].deps
                                \/ ~ (pending[p].deps \subseteq S)

\* Every call into the queue returns.
CallsReturn == []<>Idle

-----------------------------------------------------------------------------
(***************************************************************************)
(* What an event was made to depend on, read off rev_dependencies, which   *)
(* never forgets an edge; the None of a barrier is in pending while it is  *)
(* held.                                                                   *)
(***************************************************************************)
DepsOf(e) ==
  {d \in Ids : e \in rev[d]}
    \cup {n \in {NoneDep} : e \in DOMAIN pending /\ n \in pending[e].deps}

Graph == INSTANCE DepGraph WITH
           EventIds <- Ids,
           deps     <- [e \in 0 .. cnt - 1 |-> DepsOf(e)],
           over     <- DOMAIN ended

\* The queue implements the untimed dependency graph, rollbacks included: an
\* event ends only after all its dependencies, one at a time, and an end that
\* is replayed after a rollback is no new end.
ImplementsDepGraph == Graph!GraphSpec

====

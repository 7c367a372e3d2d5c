------------------------------- MODULE NetSim -------------------------------
(***************************************************************************)
(* The flow-level network simulator (phantora/netsim/src/simulator.rs):    *)
(* flows wait in a buffer until their start, then share the links of their *)
(* routes max-min fairly until their last byte is sent.  Every flow keeps  *)
(* the history of its speed, with which the simulator goes back to an      *)
(* earlier time when a flow arrives in its past.                           *)
(*                                                                         *)
(* on_event and one iteration of the loop of max_min_fairness are one step *)
(* each.  Times are ticks (nanoseconds in the code, NsPerUs = 1000).       *)
(* Speeds are integral, as Bandwidth is; the f64 arithmetic on bytes is    *)
(* taken to be exact.  FlowSet is FlowSet::Flat, the only one NetState's   *)
(* default fairness builds; loopback_flows is never read and left out.     *)
(***************************************************************************)
EXTENDS Routing, FiniteSetsExt

CONSTANTS
  NsPerUs,        \* ticks per microsecond
  LoopbackSpeed,  \* setting.loopback_speed, bytes per tick
  MaxRate,        \* bandwidth::MAX, the max_rate of every flow
  HostMapping,    \* host_mapping: the real names of host_0, host_1, ...
  MaxSpan,        \* bound for the contract: ticks until the next completion
  NoEvent         \* the step in progress has not returned

ASSUME NetSimAssumption ==
  NsPerUs \in Nat \ {0} /\ LoopbackSpeed \in Nat \ {0} /\ MaxRate \in Nat /\ MaxSpan \in Nat

VARIABLES
  ts,         \* Simulator::ts
  fs,         \* flow -> FlowState: start, bytes, route, bytes sent, speed_history, token
  buf,        \* flow_bufs: the flows that have not started
  running,    \* running_flows
  linkFlows,  \* link_flows: link -> the running flows on it
  retired,    \* retired_flows, in the order they completed
  timers,     \* the timers that have not fired
  call,       \* "step" while max_min_fairness loops, else "idle"
  from,       \* history: ts when the step in progress began
  event       \* what the last step returned

netState == <<fs, buf, running, linkFlows, retired>>
simVars  == <<ts, netState, timers, call, from, event>>

FloorUs(t) == (t \div NsPerUs) * NsPerUs
CeilDiv(a, b) == (a + b - 1) \div b

\* A new simulator, with the event first for whoever drives it.
NetSimInit(first) ==
  /\ ts = 0 /\ fs = << >> /\ buf = {} /\ running = {}
  /\ linkFlows = << >> /\ retired = << >> /\ timers = {}
  /\ call = "idle" /\ from = 0 /\ event = first

-----------------------------------------------------------------------------
(***************************************************************************)
(* The bandwidth of the running flows.                                     *)
(***************************************************************************)

\* calc_delta_per_flow: by how much the flows of link l may still grow.
CalcDelta(l, p) ==
  LET on     == linkFlows[l]
      used   == MapThenSumSet(LAMBDA f : p[f].speed, on)
      active == Cardinality({f \in on : ~p[f].converged})
  IN  Min({IF Bandwidth(l) < used THEN 0 ELSE (Bandwidth(l) - used) \div active}
            \cup {MaxRate - p[f].speed : f \in {f \in on : p[f].converged}})

\* Mutant: Round where the flows of every link converge at once.
RoundAll(p) ==
  LET busy  == {l \in DOMAIN linkFlows : \E f \in linkFlows[l] : ~p[f].converged}
      inc   == Min({CalcDelta(l, p) : l \in busy})
  IN  [f \in running |->
         IF p[f].converged THEN p[f]
         ELSE [speed |-> p[f].speed + inc, converged |-> TRUE]]

\* One turn of max_min_fairness_converge: all flows that have not converged grow
\* by what the bottleneck link allows, and those at their bound converge.
Round(p) ==
  LET busy  == {l \in DOMAIN linkFlows : \E f \in linkFlows[l] : ~p[f].converged}
      delta == [l \in busy |-> CalcDelta(l, p)]
      inc   == Min(Range(delta))
      bound(f) == Min({MaxRate} \cup {p[f].speed + delta[l] :
                                        l \in {l \in busy : f \in linkFlows[l]}})
  IN  [f \in running |->
         IF p[f].converged THEN p[f]
         ELSE [speed |-> p[f].speed + inc, converged |-> p[f].speed + inc >= bound(f)]]

\* max_min_fairness_converge: loopback flows have converged from the start, and
\* every turn makes at least one flow converge.
Converge ==
  LET turn[n \in 0 .. Cardinality(running)] ==
        IF n = 0
        THEN [f \in running |->
                IF fs[f].path = << >> THEN [speed |-> LoopbackSpeed, converged |-> TRUE]
                ELSE [speed |-> 0, converged |-> FALSE]]
        ELSE CHOOSE q \in {IF \A f \in running : p[f].converged THEN p ELSE Round(p) :
                             p \in {turn[n - 1]}} : TRUE
  IN  turn[Cardinality(running)]

-----------------------------------------------------------------------------
(***************************************************************************)
(* Arrival and rollback.                                                   *)
(***************************************************************************)

\* The index from links to flows with the flows S of state st added, and the
\* index restricted to the flows in keep, without the links left empty.
EmitToIndex(ix, S, st) ==
  [l \in DOMAIN ix \cup UNION {Range(st[f].path) : f \in S} |->
     (IF l \in DOMAIN ix THEN ix[l] ELSE {}) \cup {f \in S : l \in Range(st[f].path)}]
FilterIndex(ix, keep) ==
  [l \in {l \in DOMAIN ix : ix[l] \cap keep # {}} |-> ix[l] \cap keep]

\* add_flow: the host a real host name stands for, the last one given that name;
\* the flow's route and its fresh state.
Mapped(name) == Host(Max({i \in DOMAIN HostMapping : HostMapping[i] = name}) - 1)
NewFlow(r) ==
  [ts |-> r.ts, bytes |-> r.bytes, src |-> r.src, dst |-> r.dst, virt |-> r.virt,
   tok |-> r.tok, path |-> ResolveRoute(r.src, r.dst, r.virt), sent |-> 0, hist |-> << >>]

EndOf(f) == Last(fs[f].hist).start

\* Mutant: Kept that compares exact times.
KeptExact(past) == Max({0} \cup {n \in DOMAIN retired : past >= EndOf(retired[n])})

\* How many of the retired flows stay: they are popped from the back, up to the
\* first that had completed by then, sub-microsecond differences ignored.
Kept(past) == Max({0} \cup {n \in DOMAIN retired : past >= FloorUs(EndOf(retired[n]))})

\* Mutant: Reverted without the part of an entry that the rollback cuts.
RevertedWhole(s, past) ==
  LET n == Max({0} \cup {i \in DOMAIN s.hist : s.hist[i].start < past})
      until(i) == IF i = Len(s.hist) THEN ts ELSE s.hist[i + 1].start
      bytes == MapThenSumSet(LAMBDA i : (until(i) - s.hist[i].start) * s.hist[i].speed,
                             n + 1 .. Len(s.hist))
  IN  [s EXCEPT !.hist = SubSeq(s.hist, 1, n),
                !.sent = IF past <= s.ts THEN 0 ELSE s.sent - Min({bytes, s.sent})]

\* A flow's state as it was at past: the entries of its history since then are
\* popped, and what was sent since then taken back.
Reverted(s, past) ==
  LET n == Max({0} \cup {i \in DOMAIN s.hist : s.hist[i].start < past})
      until(i) == IF i = Len(s.hist) THEN ts ELSE s.hist[i + 1].start
      bytes == MapThenSumSet(
                 LAMBDA i : (until(i) - Max({s.hist[i].start, past})) * s.hist[i].speed,
                 Max({1, n}) .. Len(s.hist))
  IN  [s EXCEPT !.hist = SubSeq(s.hist, 1, n),
                !.sent = IF past <= s.ts THEN 0 ELSE s.sent - Min({bytes, s.sent})]

\* rollback_to: the flows that completed since past run again, every active
\* flow is reverted, and the ones that had not started return to the buffer.
\* all holds the states with the new flows, new the ones of them emitted.
RollbackTo(all, new, past) ==
  LET revived == Range(SubSeq(retired, Kept(past) + 1, Len(retired)))
      active  == running \cup new \cup revived
      embryos == {f \in active : past <= all[f].ts}
      again   == {f \in embryos : all[f].ts <= past}
      keep    == {f \in DOMAIN all : past > all[f].ts}
  IN  /\ ts' = past
      /\ fs' = [f \in DOMAIN all |-> IF f \in active THEN Reverted(all[f], past) ELSE all[f]]
      /\ buf' = (DOMAIN all \ (DOMAIN fs \cup new)) \cup buf \cup (embryos \ again)
      /\ running' = (active \ embryos) \cup again
      /\ linkFlows' = EmitToIndex(FilterIndex(EmitToIndex(linkFlows, new \cup revived, all),
                                              keep), again, all)
      /\ retired' = SubSeq(retired, 1, Kept(past))

\* on_event(FlowArrive): the new flows are emitted or buffered; if one of them
\* starts in an earlier microsecond than the present, the simulator goes back.
OnFlowArrive(recs) ==
  LET all  == [f \in DOMAIN fs \cup DOMAIN recs |->
                 IF f \in DOMAIN recs THEN NewFlow(recs[f]) ELSE fs[f]]
      new  == {f \in DOMAIN recs : recs[f].ts <= ts}
      past == Min({recs[f].ts : f \in DOMAIN recs})
  IN  IF past < FloorUs(ts)
      THEN RollbackTo(all, new, past)
      ELSE /\ fs' = all
           /\ buf' = buf \cup (DOMAIN recs \ new)
           /\ running' = running \cup new
           /\ linkFlows' = EmitToIndex(linkFlows, new, all)
           /\ UNCHANGED <<ts, retired>>

\* on_event(AdapterRegisterTimer).
OnRegisterTimer(after, tok, id) ==
  /\ timers' = timers \cup {[at |-> ts + after, tok |-> tok, id |-> id]}
  /\ UNCHANGED <<ts, netState>>

-----------------------------------------------------------------------------
(***************************************************************************)
(* max_min_fairness(None), one iteration of its loop at a time.            *)
(***************************************************************************)

StartStep == call = "idle" /\ call' = "step" /\ from' = ts /\ event' = NoEvent

Return(e) == call' = "idle" /\ event' = e

\* There is nothing left to simulate.
Drained ==
  /\ call = "step"
  /\ running = {} /\ buf = {} /\ timers = {}
  /\ Return([kind |-> "flows", flows |-> {}])
  /\ UNCHANGED <<ts, netState, timers, from>>

\* The next instant something happens: a completion, a start or a timer.
NextInstant(rate) ==
  Min({ts + CeilDiv(fs[f].bytes - fs[f].sent, rate[f].speed) : f \in running}
        \cup {fs[f].ts : f \in buf} \cup {tm.at : tm \in timers})

\* A timer that is due fires before anything else at this instant; the order
\* of timers due at the same time is the heap's.
FireTimer ==
  /\ call = "step"
  /\ \E tm \in timers :
       /\ tm.at = ts
       /\ NextInstant(Converge) = ts
       /\ timers' = timers \ {tm}
       /\ Return([kind |-> "adapter", tok |-> tm.tok, id |-> tm.id])
  /\ UNCHANGED <<ts, netState, from>>

\* proceed: at the given rates every running flow sends until the next instant,
\* the ones that are through retire, and the ones whose start has come are
\* emitted.  The step returns when a flow completed and goes on otherwise.
Advance(rate) ==
  LET next     == NextInstant(rate)
      after(f) == fs[f].sent + rate[f].speed * (next - ts)
      done     == {f \in running : after(f) >= fs[f].bytes}
      ready    == {f \in buf : fs[f].ts <= next}
      ran(f)   == Append(fs[f].hist, [start |-> ts, speed |-> rate[f].speed])
  IN  /\ ~(next = ts /\ \E tm \in timers : tm.at = ts)
      /\ ts' = next
      /\ fs' = [f \in DOMAIN fs |->
                  IF f \notin running THEN fs[f]
                  ELSE [fs[f] EXCEPT
                          !.sent = after(f),
                          !.hist = IF f \in done
                                   THEN Append(ran(f), [start |-> next, speed |-> 0])
                                   ELSE ran(f)]]
      /\ retired' = retired \o SetToSeq(done)
      /\ buf' = buf \ ready
      /\ running' = (running \ done) \cup ready
      /\ linkFlows' = EmitToIndex(FilterIndex(linkFlows, running \ done), ready, fs)
      /\ IF done = {} THEN UNCHANGED <<call, event>>
         ELSE Return([kind |-> "flows", flows |-> done])

Proceed ==
  /\ call = "step"
  /\ ~(running = {} /\ buf = {} /\ timers = {})
  /\ \E rate \in {Converge} : Advance(rate)
  /\ UNCHANGED <<timers, from>>

Iterate == Drained \/ FireTimer \/ Proceed

-----------------------------------------------------------------------------

\* What the event queue is promised.  While a step loops, the network still
\* stands where the step began.
Contract == INSTANCE NetContract WITH
  Spans   <- 0 .. MaxSpan,
  nts     <- IF call = "step" THEN from ELSE ts,
  flows   <- [f \in buf \cup running |-> fs[f].ts],
  retired <- [f \in Range(retired) |-> [ts |-> fs[f].ts, end |-> EndOf(f)]]

\* A step that returns because of a timer, of which the event queue has none.
TimerReturns ==
  /\ call = "step" /\ call' = "idle" /\ event'.kind = "adapter"
  /\ UNCHANGED <<buf \cup running, retired>>

\* The simulator keeps the promise on which the event queue relies: in
\* particular a rollback, which pops the retired flows from the back and stops
\* at the first that may stay, revives every flow that completed since, although
\* the times at which they completed need not be in order.
ImplementsNetContract ==
  Contract!NetInit /\ [][Contract!NetNext \/ TimerReturns]_(Contract!netVars)

\* A running flow has sent exactly what its speed history says, from no earlier
\* than its start, and from no later than the microsecond of its start; a
\* retired flow has sent all of its bytes, a buffered one nothing.  It is what
\* the assertions of rollback_to and emit_ready_flows rely on.
Sent(f, now) ==
  LET h == fs[f].hist
      until(i) == IF i = Len(h) THEN now ELSE h[i + 1].start
  IN  MapThenSumSet(LAMBDA i : h[i].speed * (until(i) - h[i].start), DOMAIN h)
HistoryExact ==
  /\ \A f \in running : fs[f].sent = Sent(f, ts) /\ fs[f].ts <= ts
  /\ \A f \in Range(retired) : fs[f].sent = Sent(f, EndOf(f)) /\ fs[f].sent >= fs[f].bytes
  /\ \A f \in running \cup Range(retired) :
       fs[f].hist # << >> =>
         FloorUs(fs[f].hist[1].start) <= fs[f].ts /\ fs[f].ts <= fs[f].hist[1].start
  /\ \A f \in buf : fs[f].sent = 0 /\ fs[f].hist = << >> /\ fs[f].ts > ts

\* The speeds of the running flows are a max-min fair allocation: no link of
\* their routes carries more than its bandwidth, and every flow crosses a link
\* that is full, up to the rounding of the division, on which no flow is faster.
\* It needs the index from links to flows to agree with the routes after every
\* completion, start and rollback.
MaxMinFair ==
  LET rate  == Converge
      on(l) == {f \in running : l \in Range(fs[f].path)}
      used(l) == MapThenSumSet(LAMBDA f : rate[f].speed, on(l))
  IN  /\ \A l \in DOMAIN linkFlows : linkFlows[l] \subseteq running
      /\ \A l \in Links : used(l) <= Bandwidth(l)
      /\ \A f \in running :
           \/ fs[f].path = << >> /\ rate[f].speed = LoopbackSpeed
           \/ \E l \in Range(fs[f].path) :
                /\ Bandwidth(l) - used(l) < Cardinality(on(l))
                /\ \A g \in on(l) : rate[g].speed <= rate[f].speed

\* The route of every flow is a path of the topology from its source to its
\* destination that uses no link twice, and so is every route the load balancer
\* could have chosen; a flow between two virtual machines of one host leaves it.
RoutesValid ==
  \A f \in DOMAIN fs :
    \A p \in {fs[f].path} \cup ResolveRouteMultipath(fs[f].src, fs[f].dst, fs[f].virt) :
      /\ IsPath(p, fs[f].src, fs[f].dst)
      /\ IsInjective(p)
      /\ p = << >> => ~fs[f].virt
====

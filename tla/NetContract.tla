---------------------------- MODULE NetContract ----------------------------
(***************************************************************************)
(* What the flow-level network simulator (phantora/netsim/src/simulator.rs)*)
(* promises the event queue: it completes some unfinished flows at some    *)
(* instant that is not in its past, and when a flow arrives in its past it *)
(* goes back there and makes the flows completed since unfinished again.   *)
(* Which flows share a link, and how long each takes, is left open.        *)
(* EventQueue uses the actions; NetSim implements them.                    *)
(***************************************************************************)
EXTENDS Integers

CONSTANTS
  Spans,      \* how many ticks the network may need until a flow completes
  NsPerUs     \* ticks per microsecond (1000 in the code)

VARIABLES
  nts,        \* the time the network state stands for
  flows,      \* unfinished flow -> its start
  retired     \* completed flow -> its start and end

netVars == <<nts, flows, retired>>

Put(f, x, v)   == [y \in DOMAIN f \cup {x} |-> IF y = x THEN v ELSE f[y]]
Without(f, S)  == [y \in DOMAIN f \ S |-> f[y]]
Later(a, b)    == IF a >= b THEN a ELSE b
ToUs(ns)       == ns \div NsPerUs
FloorUs(ns)    == ToUs(ns) * NsPerUs

\* The instants at which the network may complete its next flows: no earlier
\* than its present, nor than the start of the first unfinished flow.
NextCompletions ==
  {Later(nts, flows[f]) + s :
     f \in {f \in DOMAIN flows : \A g \in DOMAIN flows : flows[f] <= flows[g]},
     s \in Spans}

\* run_one_step(None): the network advances to t, where the flows in done,
\* all of them started by then, complete.
NetRun(t, done) ==
  /\ done # {}
  /\ \A f \in done : flows[f] <= t
  /\ nts' = t
  /\ flows' = Without(flows, done)
  /\ retired' = [f \in DOMAIN retired \cup done |->
                   IF f \in done THEN [ts |-> flows[f], end |-> t] ELSE retired[f]]

\* Mutant: MustRollback without the microsecond granularity.
MustRollbackExact(ts) == ts < nts

\* on_event(FlowArrive) with a flow that starts in the network's past, at
\* microsecond granularity: the test of on_event.
MustRollback(ts) == ts < FloorUs(nts)

\* The completed flows a rollback to ts makes unfinished again.
Revived(ts) == {f \in DOMAIN retired : ts < FloorUs(retired[f].end)}

\* Mutant: NetArrive, but the revived flows are dropped.
NetArriveDropping(id, ts) ==
  /\ flows' = Put(flows, id, ts)
  /\ IF MustRollback(ts)
     THEN nts' = ts /\ retired' = Without(retired, Revived(ts))
     ELSE UNCHANGED <<nts, retired>>

\* on_event(FlowArrive) for flow id starting at ts, with or without rollback.
NetArrive(id, ts) ==
  IF MustRollback(ts)
  THEN /\ nts' = ts
       /\ flows' = [f \in DOMAIN flows \cup Revived(ts) \cup {id} |->
                      IF f = id THEN ts
                      ELSE IF f \in Revived(ts) THEN retired[f].ts ELSE flows[f]]
       /\ retired' = Without(retired, Revived(ts))
  ELSE /\ flows' = Put(flows, id, ts)
       /\ UNCHANGED <<nts, retired>>

-----------------------------------------------------------------------------

\* on_event(FlowArrive) for several flows at once: the earliest of them decides
\* whether, and how far, the network goes back.
NetArriveAll(new) ==
  \E first \in DOMAIN new :
    LET past == new[first]
        back == IF MustRollback(past) THEN Revived(past) ELSE {}
    IN  /\ \A f \in DOMAIN new : past <= new[f]
        /\ nts' = IF MustRollback(past) THEN past ELSE nts
        /\ flows' = [f \in DOMAIN flows \cup back \cup DOMAIN new |->
                       IF f \in DOMAIN new THEN new[f]
                       ELSE IF f \in back THEN retired[f].ts ELSE flows[f]]
        /\ retired' = Without(retired, back)

NetInit == nts = 0 /\ flows = << >> /\ retired = << >>

\* The flows a step adds to the network, with their starts.
Arrived == [f \in DOMAIN flows' \ (DOMAIN flows \cup DOMAIN retired) |-> flows'[f]]

NetNext ==
  \/ Arrived # << >> /\ NetArriveAll(Arrived)
  \/ \E t \in NextCompletions, done \in SUBSET DOMAIN flows : NetRun(t, done)

NetSpec == NetInit /\ [][NetNext]_netVars
====

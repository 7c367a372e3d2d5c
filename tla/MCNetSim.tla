------------------------------ MODULE MCNetSim ------------------------------
(***************************************************************************)
(* The network simulator in its two uses.  Either the event queue drives   *)
(* it: the flows of a collective arrive one by one, each at any            *)
(* microsecond, in the past or in the future of the network, between any   *)
(* of its steps.  Or a group of applications drives it, with flows that    *)
(* start between microseconds.                                             *)
(***************************************************************************)
EXTENDS NetApps, NcclOps

CONSTANT Starts  \* when a flow of the event queue may start: whole microseconds

VARIABLE plan   \* the flows the event queue adds; none when applications run

vars == <<simVars, appVars, plan>>

MCHostMapping == <<"c", "a", "b", "d">>

\* Four flows that share one access link; a ring with two ranks on one host;
\* a ring across the racks.
Plans == { Bcast(0, <<"a", "b", "c", "d">>, 34),
           AllReduce(<<"a", "b", "b">>, 25),
           AllGather(<<"d", "b", "c", "a">>, 9),
           ReduceScatter(<<"d", "b", "c">>, 13) }

Rec(t, x, y, size, virt, tok) ==
  [ts |-> t, bytes |-> size, src |-> Host(x), dst |-> Host(y), virt |-> virt, tok |-> tok]

Replay(off) ==
  [kind |-> "replay", off |-> off, completed |-> << >>,
   trace |-> [f \in {<<1, 1>>, <<1, 2>>, <<1, 3>>} |->
                CASE f[2] = 1 -> Rec(0, 0, 0, 6, TRUE, 7)
                  [] f[2] = 2 -> Rec(3, 0, 2, 11, FALSE, 8)
                  [] f[2] = 3 -> Rec(0, 1, 0, 14, FALSE, NoToken)]]

Background(pattern, n, off, dur) ==
  [kind |-> "background", pattern |-> pattern, nhosts |-> n, off |-> off, dur |-> dur,
   size |-> 8, made |-> 0, remaining |-> 0]

Groups == {<<Replay(a), Background("alltoall", 2, b, 5)>> : a, b \in {0, 1, 4}}
            \cup {<<Replay(1), Background("plink", 3, b, 4)>> : b \in {0, 1}}

QueueArrive ==
  \E f \in DOMAIN plan \ DOMAIN fs, t \in Starts :
    /\ call = "idle"
    /\ OnFlowArrive([g \in {f} |->
         [ts |-> t, bytes |-> plan[f].bytes, src |-> Mapped(plan[f].src),
          dst |-> Mapped(plan[f].dst), virt |-> FALSE, tok |-> 0]])
    /\ UNCHANGED <<timers, call, from, event, appVars, plan>>

QueueStep == StartStep /\ UNCHANGED <<ts, netState, timers, appVars, plan>>

Init ==
  \/ NetSimInit(NoEvent) /\ AppsInit(<< >>) /\ plan \in Plans
  \/ NetSimInit([kind |-> "start"]) /\ plan = << >> /\ \E group \in Groups : AppsInit(group)

Next ==
  \/ /\ plan # << >>
     /\ QueueArrive \/ QueueStep \/ (Iterate /\ UNCHANGED <<appVars, plan>>)
  \/ plan = << >> /\ AppsNext /\ UNCHANGED plan

\* Both drivers are single-threaded loops that go on as long as they can.
Spec == Init /\ [][Next]_vars /\ WF_vars(AppsNext /\ UNCHANGED plan)

\* A group of applications comes to its end: every application finishes and
\* run_with_application returns.
AppRunEnds == <>(plan # << >> \/ finished)
====

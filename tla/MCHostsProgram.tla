-------------------------- MODULE MCHostsProgram --------------------------
(***************************************************************************)
(* Every host runs the same program on one stream: a kernel and a          *)
(* collective, which it may poll for until it is ready and then            *)
(* synchronizes with.  A host that has finished stays and polls its stream *)
(* now and then, as the watchdog threads of the frameworks do.  Without    *)
(* that a reply can remain outstanding: only synchronizations and queries  *)
(* execute the queue, and execute_to_event stops at the caller's own event.*)
(***************************************************************************)
EXTENDS Hosts

VARIABLE at   \* program counters

OneStream == {<<0, 0>>}

Program == <<"kernel", "nccl", "record", "poll", "sync", "idle">>

Stream == CHOOSE s \in Streams : TRUE
Event  == CHOOSE c \in CudaEvents : TRUE

SeenReady(h) == reply[h].kind = "query" /\ reply[h].time # NotReady
Finished(h)  == Program[at[h]] = "idle"

\* The poll loop is left when the last poll has found the event ready; a host may
\* also leave it out and synchronize at once.
Step(h) ==
  LET op == Program[at[h]] IN
  \/ op = "kernel" /\ \E d \in Durations : TorchCall(h, Stream, d)
  \/ op = "nccl"   /\ NcclCall(h, Stream)
  \/ op = "record" /\ EventRecord(h, Stream, Event)
  \/ op = "sync"   /\ StreamSynchronize(h, Stream)
  \/ /\ op = "poll" /\ hostState[h] = "run"
     /\ SeenReady(h) \/ reply[h] = NoReply
     /\ UNCHANGED allVars
Poll(h) == Program[at[h]] = "poll" /\ ~ SeenReady(h) /\ EventQuery(h, Event)

ProgramStep(h) ==
  \/ Step(h) /\ at' = [at EXCEPT ![h] = @ + 1]
  \/ Poll(h) /\ UNCHANGED at

IdleTime(h)  == Finished(h) /\ CpuTime(h) /\ UNCHANGED at
IdleQuery(h) == Finished(h) /\ StreamQuery(h, Stream) /\ UNCHANGED at

ProgramInit == HostsInit /\ at = [h \in Hosts |-> 1]
ProgramNext ==
  \/ Handler /\ UNCHANGED at
  \/ \E h \in Hosts : ProgramStep(h) \/ IdleTime(h) \/ IdleQuery(h)

\* The simulator handles the messages it has received, and every host goes on.
\* The message of a host is taken when the simulator is free, which it is again
\* and again: hence strong fairness.
ProgramSpec ==
  /\ ProgramInit /\ [][ProgramNext]_<<allVars, at>>
  /\ WF_<<allVars, at>>(Handler /\ UNCHANGED at)
  /\ \A h \in Hosts : /\ SF_<<allVars, at>>(ProgramStep(h))
                      /\ SF_<<allVars, at>>(IdleTime(h))
                      /\ SF_<<allVars, at>>(IdleQuery(h))

\* Every host gets to the end of its program: no reply is lost, and the poll
\* loop ends, because each poll costs time (capi.rs) and the queue is executed up
\* to the poll's time.
ProgramsEnd == <>(\A h \in Hosts : Finished(h) /\ hostState[h] = "run")
====

------------------------------ MODULE MCHosts ------------------------------
(***************************************************************************)
(* Drivers for Hosts: one host that makes any calls on two streams, and    *)
(* two hosts that synchronize and poll.                                    *)
(***************************************************************************)
EXTENDS Hosts

TwoStreams == {<<0, 0>>, <<0, 1>>}
OneStream  == {<<0, 0>>}

\* A communicator of a single host makes no calls (stub/nccl.c).
SoloCall(h) ==
  \/ \E s \in Streams :
       \/ \E d \in Durations : TorchCall(h, s, d) \/ MemcpyAsync(h, s, d)
       \/ StreamSynchronize(h, s) \/ StreamQuery(h, s)
       \/ \E c \in CudaEvents : EventRecord(h, s, c) \/ StreamWaitEvent(h, s, c)
  \/ \E c \in CudaEvents : EventSynchronize(h, c) \/ EventQuery(h, c)
  \/ \E dev \in {s[1] : s \in Streams} : DeviceSynchronize(h, dev)

SoloNext == Handler \/ \E h \in Hosts : SoloCall(h) \/ Exit(h)
SoloSpec == HostsInit /\ [][SoloNext]_allVars

PollCall(h) ==
  \E s \in Streams :
    \/ \E d \in Durations : MemcpyAsync(h, s, d)
    \/ StreamSynchronize(h, s)
    \/ StreamQuery(h, s)

PollNext == Handler \/ \E h \in Hosts : PollCall(h)
PollSpec == HostsInit /\ [][PollNext]_allVars
====

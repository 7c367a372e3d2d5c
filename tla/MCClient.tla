------------------------------ MODULE MCClient ------------------------------
(***************************************************************************)
(* The client library with threads that either use the clock, or allocate  *)
(* device memory, or pin host memory: the three do not touch each other's  *)
(* state.                                                                  *)
(***************************************************************************)
EXTENDS Client, TLC

VARIABLE use

\* Threads and devices are interchangeable.
Interchangeable == Permutations(Threads) \cup Permutations(Devices)

MCInit == Init /\ use \in {"clock", "memory", "pinned"} /\ (use # "clock" => ~ignore)
MCNext ==
  /\ \E t \in Threads :
       \/ use = "clock" /\ ClockStep(t)
       \/ use = "memory" /\ MemStep(t)
       \/ use = "pinned" /\ HostStep(t)
  /\ UNCHANGED use
MCSpec == MCInit /\ [][MCNext]_<<vars, use>>
====

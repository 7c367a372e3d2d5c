------------------------------ MODULE NcclOps ------------------------------
(***************************************************************************)
(* The flows of a collective (phantora/phantora/src/nccl_ops.rs,           *)
(* SimpleRing): a list of [src, dst, bytes], where ranks is the sequence of *)
(* the ranks' host names and size is count * dtype.size().                 *)
(***************************************************************************)
EXTENDS Integers, Sequences

Flow(src, dst, bytes) == [src |-> src, dst |-> dst, bytes |-> bytes]

\* Every rank sends to the next one.
Ring(ranks, bytes) ==
  LET n == Len(ranks)
  IN  [i \in 1 .. n |-> Flow(ranks[i], ranks[(i % n) + 1], bytes)]

\* bcast: the root sends to every other rank; root counts from 0.
Bcast(root, ranks, size) ==
  LET n == Len(ranks)
  IN  [i \in 1 .. n - 1 |-> Flow(ranks[root + 1], ranks[((root + i) % n) + 1], size)]

\* allreduce: each rank passes on 2 (n - 1) / n of the data.
AllReduce(ranks, size) ==
  LET n == Len(ranks) IN Ring(ranks, (size * 2 * (n - 1)) \div n)

\* allgather and reduce_scatter: each rank passes on the n - 1 other parts.
AllGather(ranks, size) ==
  LET n == Len(ranks) IN Ring(ranks, ((size * n) \div n) * (n - 1))
ReduceScatter(ranks, size) == AllGather(ranks, size)
====

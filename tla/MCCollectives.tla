--------------------------- MODULE MCCollectives ---------------------------
(***************************************************************************)
(* Collectives for TLC: every rank makes the same calls, at its own pace   *)
(* and one of them on streams of its own choice.                           *)
(***************************************************************************)
EXTENDS Collectives

AllEvents == UNION {CollectiveEvents(k, n) : k \in Kinds, n \in 1 .. MaxCalls}

\* The collectives every rank calls.  Rank 0 uses any stream for each, the other
\* ranks the one given here.
Program == << [kind |-> "allreduce", stream |-> "s1"],
              [kind |-> "allgather", stream |-> "s2"],
              [kind |-> "allreduce", stream |-> "s2"],
              [kind |-> "allreduce", stream |-> "s1"] >>

\* How many of the program's calls rank r has made.
Made(r) == calls["allreduce"][r] + calls["allgather"][r]

RankStep(r) ==
  /\ Made(r) < Len(Program)
  /\ LET c == Program[Made(r) + 1] IN
     \E s \in Streams : (r = 0 \/ s = c.stream) /\ NcclCall(r, c.kind, s)

SpmdNext == (\E r \in Ranks : RankStep(r)) \/ Execute

\* Every rank keeps calling, and some host keeps synchronizing, which is what
\* executes the queue.
SpmdSpec ==
  /\ Init /\ [][SpmdNext]_vars
  /\ \A r \in Ranks : WF_vars(RankStep(r))
  /\ WF_vars(Execute)

\* Ranks that call collectives of all kinds in the same order see all of them
\* end: matching each kind separately makes no two ranks wait for one another.
AllCollectivesEnd ==
  <>[](/\ \A r \in Ranks : Made(r) = Len(Program)
       /\ over = Added)
====

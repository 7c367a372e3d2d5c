-------------------------- MODULE MCPointToPoint --------------------------
(***************************************************************************)
(* PointToPoint for TLC, with the calls of one of two programs, chosen at  *)
(* the start: "pair", in which ranks 0 and 1 make ungrouped calls and      *)
(* close groups in any order, and "three", in which three ranks close      *)
(* groups only.                                                            *)
(***************************************************************************)
EXTENDS PointToPoint

CONSTANT PairCalls  \* bound on the calls of the program "pair"

VARIABLE program

Send(peer, s) == [kind |-> "send", peer |-> peer, stream |-> s]
Recv(peer, s) == [kind |-> "recv", peer |-> peer, stream |-> s]

AllEvents ==
  UNION {{UnmatchedBarrier(ep), FlowStart(ep), FlowEnd(ep), FlowEvent(ep)} :
           ep \in [kind : P2PCallKind, key : Keys, call : 1 .. MaxCalls]}
    \cup UNION {{GroupBarrier(r, g, s), GroupStart(r, g, s), GroupEnd(r, g, s)} :
                  r \in Ranks, g \in 1 .. MaxGroups, s \in Streams}

\* Groups that exchange, repeat a call, talk to oneself, and use two streams for
\* different peers.
Exchanges == { <<Send(1, "s1"), Recv(1, "s1")>>, <<Recv(0, "s1"), Send(0, "s1")>>,
               <<Send(1, "s1"), Send(1, "s1")>>, <<Send(0, "s1"), Recv(1, "s2")>> }

\* A group whose two sends to the same peer are on different streams.
TwoStreams == { <<Send(1, "s1"), Send(1, "s2")>> }

\* Groups of three ranks in which a call may remain without its peer.
Partial == { <<Send(1, "s1"), Send(2, "s1")>>, <<Recv(0, "s1"), Send(2, "s1")>>,
             <<Recv(0, "s1")>>, <<Recv(1, "s1")>> }

AllGroups == Exchanges \cup Partial

PairNext ==
  /\ program = "pair"
  /\ \/ \E r, peer \in {0, 1}, kind \in P2PCallKind, s \in Streams :
          /\ r = 1 => s = "s1"   \* outside groups, two streams for rank 0 only
          /\ UngroupedP2P(r, kind, peer, s)
     \/ \E r \in {0, 1}, calls \in Batches \ Partial : GroupCall(r, calls)
  /\ Cardinality(Made') <= PairCalls

ThreeNext ==
  /\ program = "three"
  /\ \E r \in Ranks, calls \in Batches \cap Partial : GroupCall(r, calls)

MCInit == Init /\ program \in {"pair", "three"}

MCNext ==
  /\ PairNext \/ ThreeNext \/ GroupHandler \/ Execute
  /\ UNCHANGED program

\* A handler runs to its end, and some host keeps synchronizing.
MCSpec ==
  MCInit /\ [][MCNext]_<<vars, program>> /\ WF_vars(GroupHandler) /\ WF_vars(Execute)

\* "flow A may run while flow B is still unmatched": when each rank has at most
\* one group on a stream, a matched transfer ends whether or not the other
\* calls of its groups ever find a peer.
MatchedTransfersEnd ==
  []<>(program = "three" =>
         \A key \in Keys : \A i \in 1 .. Len(matches[key]) :
           FlowEvent(matches[key][i][1]) \in over)
====

--------------------------- MODULE PointToPoint ---------------------------
(***************************************************************************)
(* NCCL sends and receives on one communicator (nccl_ungrouped_p2p,        *)
(* nccl_grouped_p2p and their helpers in phantora/phantora/src/simulator.rs*)
(* ).  Every call is an endpoint with three events of its own: a barrier   *)
(* held until the peer's call has come, and the start and the end of the   *)
(* transfer.  Endpoints wait in one FIFO per kind and key (sender,         *)
(* receiver); a matched pair gets a network flow between its starts and    *)
(* its ends.                                                               *)
(*                                                                         *)
(* The event queue is taken at the level of DepGraph.  A group is handled  *)
(* stream by stream, in the order of a HashMap; the steps of that handler  *)
(* are separate actions, and nothing else happens between them.            *)
(***************************************************************************)
EXTENDS DepGraph, Naturals, FiniteSets, Sequences

CONSTANTS
  Ranks,     \* the ranks of the communicator
  Streams,   \* the CUDA streams of a rank
  Batches,   \* the groups of calls a rank may close with ncclGroupEnd
  MaxCalls,  \* bound on the calls of all ranks together
  MaxGroups  \* bound on the groups of a rank

P2PCallKind == {"send", "recv"}
Keys        == Ranks \X Ranks     \* (sender, receiver)
CallInfo    == [kind : P2PCallKind, peer : Ranks, stream : Streams]

ASSUME BatchesAssumption ==
  /\ Batches \subseteq Seq(CallInfo)
  /\ Ranks # {}
  /\ MaxCalls \in Nat
  /\ MaxGroups \in Nat

VARIABLES
  waiting,  \* kind, key -> VecDeque<P2PFlowEndpoint>: send_waiting and recv_waiting
  tail,     \* rank, stream -> the last event of the stream, as a set
  groups,   \* rank -> how many groups it has closed, to name their events
  batch,    \* the group in progress: its rank, its endpoints in call order, and
            \* stream -> the numbers of the endpoints still to set up
  cur,      \* the stream of the group in progress, as a set
  todo,     \* the numbers of that stream's endpoints still to be matched or enqueued
  made,     \* history: kind, key -> calls made
  arrived,  \* history: kind, key -> endpoints in the order they were matched or enqueued
  matches   \* history: key -> the matched pairs <<send, recv>>

handlerVars == <<batch, cur, todo>>
p2pVars     == <<waiting, tail, groups, handlerVars, made, arrived, matches>>
vars        == <<graphVars, p2pVars>>

\* An endpoint is known by its kind, its key and its number among those calls.
Endpoint(kind, key, n) == [kind |-> kind, key |-> key, call |-> n]
Endpoints == [kind : P2PCallKind, key : Keys, call : Nat]

p2p_key(kind, r, peer) == IF kind = "send" THEN <<r, peer>> ELSE <<peer, r>>
\* Mutant: Peer, looking among the calls of the same kind.
PeerSame(kind)         == kind
Peer(kind)             == IF kind = "send" THEN "recv" ELSE "send"

UnmatchedBarrier(ep) == <<"unmatched_barrier", ep>>
FlowStart(ep)        == <<"flow_start", ep>>
FlowEnd(ep)          == <<"flow_end", ep>>
FlowEvent(send)      == <<"flow", send>>
GroupBarrier(r, g, s) == <<"group_barrier", r, g, s>>
GroupStart(r, g, s)   == <<"group_start", r, g, s>>
GroupEnd(r, g, s)     == <<"group_end", r, g, s>>

EndpointEvents(ep)    == {UnmatchedBarrier(ep), FlowStart(ep), FlowEnd(ep)}
GroupEvents(r, g, s)  == {GroupBarrier(r, g, s), GroupStart(r, g, s), GroupEnd(r, g, s)}

EventNames ==
  ({"unmatched_barrier", "flow_start", "flow_end", "flow"} \X Endpoints)
    \cup ({"group_barrier", "group_start", "group_end"} \X Ranks \X Nat \X Streams)

\* None is not an event.
ASSUME NoneAssumption == NoneDep \notin EventNames

\* The calls made, to bound their number.
Made == {c \in P2PCallKind \X Keys \X (1 .. MaxCalls) : c[3] <= made[c[1]][c[2]]}

Elements(seq) == {seq[i] : i \in 1 .. Len(seq)}

\* No group is in progress.
NoBatch == [rank |-> CHOOSE r \in Ranks : TRUE, eps |-> << >>, left |-> [s \in Streams |-> {}]]
Idle    == cur = {} /\ batch = NoBatch

Init ==
  /\ GraphInit
  /\ waiting = [kind \in P2PCallKind |-> [key \in Keys |-> << >>]]
  /\ tail = [r \in Ranks |-> [s \in Streams |-> {}]]
  /\ groups = [r \in Ranks |-> 0]
  /\ batch = NoBatch /\ cur = {} /\ todo = {}
  /\ made = [kind \in P2PCallKind |-> [key \in Keys |-> 0]]
  /\ arrived = [kind \in P2PCallKind |-> [key \in Keys |-> << >>]]
  /\ matches = [key \in Keys |-> << >>]

-----------------------------------------------------------------------------

\* The graph with the flow of a matched pair, which depends on both starts.
WithFlow(graph, send, recv) ==
  [e \in DOMAIN graph \cup {FlowEvent(send)} |->
     IF e \in DOMAIN graph THEN graph[e] ELSE {FlowStart(send), FlowStart(recv)}]

\* Mutants: ScheduleFlow, but only the sender's stream waits for the flow, or
\* only the sender's barrier is released.
ScheduleFlowSenderEnd(graph, send, recv) ==
  [WithFlow(graph, send, recv) EXCEPT
     ![FlowEnd(send)] = @ \cup {FlowEvent(send)},
     ![UnmatchedBarrier(send)] = @ \ {NoneDep},
     ![UnmatchedBarrier(recv)] = @ \ {NoneDep}]

ScheduleFlowSenderBarrier(graph, send, recv) ==
  [WithFlow(graph, send, recv) EXCEPT
     ![FlowEnd(send)] = @ \cup {FlowEvent(send)},
     ![FlowEnd(recv)] = @ \cup {FlowEvent(send)},
     ![UnmatchedBarrier(send)] = @ \ {NoneDep}]

\* schedule_p2p_flow: both ends depend on the flow, and both barriers are
\* released.
ScheduleFlow(graph, send, recv) ==
  [WithFlow(graph, send, recv) EXCEPT
     ![FlowEnd(send)] = @ \cup {FlowEvent(send)},
     ![FlowEnd(recv)] = @ \cup {FlowEvent(send)},
     ![UnmatchedBarrier(send)] = @ \ {NoneDep},
     ![UnmatchedBarrier(recv)] = @ \ {NoneDep}]

\* Mutant: Enqueue at the front.
EnqueueFront(queue, ep) == <<ep>> \o queue

\* enqueue_p2p_endpoint: push_back.
Enqueue(queue, ep) == Append(queue, ep)

\* match_or_enqueue_p2p_endpoint, on the graph as it stands at that point.
MatchOrEnqueue(ep, graph) ==
  LET queue == waiting[Peer(ep.kind)][ep.key]
      pair  == IF ep.kind = "send" THEN <<ep, Head(queue)>> ELSE <<Head(queue), ep>>
  IN  /\ arrived' = [arrived EXCEPT ![ep.kind][ep.key] = Append(@, ep)]
      /\ IF queue # << >>
         THEN /\ waiting' = [waiting EXCEPT ![Peer(ep.kind)][ep.key] = Tail(@)]
              /\ matches' = [matches EXCEPT ![ep.key] = Append(@, pair)]
              /\ deps' = ScheduleFlow(graph, pair[1], pair[2])
         ELSE /\ waiting' = [waiting EXCEPT ![ep.kind][ep.key] = Enqueue(@, ep)]
              /\ deps' = graph
              /\ UNCHANGED matches

\* Mutant: EndpointDeps, but the start does not wait for the peer's call.
EndpointDepsUnheld(e, before) ==
  CASE e[1] = "unmatched_barrier" -> {NoneDep}
    [] e[1] = "flow_start" -> before
    [] e[1] = "flow_end" -> {FlowStart(e[2])}

\* create_ungrouped_p2p_endpoint and its counterpart in a group: what an event
\* of an endpoint depends on when its transfer may start after those in before.
EndpointDeps(e, before) ==
  CASE e[1] = "unmatched_barrier" -> {NoneDep}
    [] e[1] = "flow_start" -> before \cup {UnmatchedBarrier(e[2])}
    [] e[1] = "flow_end" -> {FlowStart(e[2])}

\* nccl_ungrouped_p2p, the graph: the start and the end are events of the stream.
UngroupedGraph(ep, r, s) ==
  [e \in Added \cup EndpointEvents(ep) |->
     IF e \in Added THEN deps[e] ELSE EndpointDeps(e, tail[r][s])]

UngroupedP2P(r, kind, peer, s) ==
  LET key == p2p_key(kind, r, peer)
      ep  == Endpoint(kind, key, made[kind][key] + 1)
  IN  /\ Idle
      /\ Cardinality(Made) < MaxCalls
      /\ made' = [made EXCEPT ![kind][key] = @ + 1]
      /\ tail' = [tail EXCEPT ![r][s] = {FlowEnd(ep)}]
      /\ MatchOrEnqueue(ep, UngroupedGraph(ep, r, s))
      /\ UNCHANGED <<over, groups, handlerVars>>

\* The numbers of the calls on stream s.
OfStream(calls, s) == {i \in 1 .. Len(calls) : calls[i].stream = s}

\* nccl_grouped_p2p, first part: the calls are sorted by stream, those of one
\* stream in call order.
GroupCall(r, calls) ==
  LET KeyOf(i)      == p2p_key(calls[i].kind, r, calls[i].peer)
      OfKey(k, key) == {i \in 1 .. Len(calls) : calls[i].kind = k /\ KeyOf(i) = key}
      Number(i)     == made[calls[i].kind][KeyOf(i)]
                         + Cardinality({j \in OfKey(calls[i].kind, KeyOf(i)) : j <= i})
  IN  /\ Idle
      /\ calls # << >>
      /\ groups[r] < MaxGroups
      /\ Cardinality(Made) + Len(calls) <= MaxCalls
      /\ groups' = [groups EXCEPT ![r] = @ + 1]
      /\ batch' = [rank |-> r,
                   eps  |-> [i \in 1 .. Len(calls) |->
                               Endpoint(calls[i].kind, KeyOf(i), Number(i))],
                   left |-> [s \in Streams |-> OfStream(calls, s)]]
      /\ made' = [k \in P2PCallKind |-> [key \in Keys |->
                    made[k][key] + Cardinality(OfKey(k, key))]]
      /\ UNCHANGED <<graphVars, waiting, tail, cur, todo, arrived, matches>>

\* What an event of a group's stream s depends on: the shell of group events
\* follows the stream, and the endpoints lie between its start and its end.
GroupDeps(e, eps, r, g, s) ==
  CASE e = GroupBarrier(r, g, s) -> {NoneDep}
    [] e = GroupStart(r, g, s) -> tail[r][s] \cup {GroupBarrier(r, g, s)}
    [] e = GroupEnd(r, g, s) -> {GroupStart(r, g, s)} \cup {FlowEnd(ep) : ep \in eps}
    [] OTHER -> EndpointDeps(e, {GroupStart(r, g, s)})

\* The events of a group's stream s.
BatchEvents(eps, r, g, s) ==
  {UnmatchedBarrier(ep) : ep \in eps} \cup {FlowStart(ep) : ep \in eps}
    \cup {FlowEnd(ep) : ep \in eps} \cup GroupEvents(r, g, s)

\* nccl_grouped_p2p, the graph of one stream: the endpoints' events are off it.
GroupGraph(eps, r, g, s) ==
  [e \in Added \cup BatchEvents(eps, r, g, s) |->
     IF e \in Added THEN deps[e] ELSE GroupDeps(e, eps, r, g, s)]

\* One stream of the group.
GroupSetup(s) ==
  LET r   == batch.rank
      g   == groups[r]
      eps == {batch.eps[i] : i \in batch.left[s]}
  IN  /\ cur = {}
      /\ eps # {}
      /\ cur' = {s}
      /\ todo' = batch.left[s]
      /\ batch' = [batch EXCEPT !.left[s] = {}]
      /\ deps' = GroupGraph(eps, r, g, s)
      /\ tail' = [tail EXCEPT ![r][s] = {GroupEnd(r, g, s)}]
      /\ UNCHANGED <<over, waiting, groups, made, arrived, matches>>

\* Mutant: GroupMatch, last call first.
GroupMatchReversed ==
  \E i \in todo :
    /\ \A j \in todo : i >= j
    /\ MatchOrEnqueue(batch.eps[i], deps)
    /\ todo' = todo \ {i}
    /\ UNCHANGED <<over, tail, groups, batch, cur, made>>

\* The endpoints of the stream are matched or enqueued in call order.
GroupMatch ==
  \E i \in todo :
    /\ \A j \in todo : i <= j
    /\ MatchOrEnqueue(batch.eps[i], deps)
    /\ todo' = todo \ {i}
    /\ UNCHANGED <<over, tail, groups, batch, cur, made>>

GroupRelease ==
  \E s \in cur :
    LET b == GroupBarrier(batch.rank, groups[batch.rank], s) IN
    /\ todo = {}
    /\ deps' = [deps EXCEPT ![b] = @ \ {NoneDep}]
    /\ cur' = {}
    /\ batch' = IF \A x \in Streams : batch.left[x] = {} THEN NoBatch ELSE batch
    /\ UNCHANGED <<over, waiting, tail, groups, todo, made, arrived, matches>>

GroupHandler == (\E s \in Streams : GroupSetup(s)) \/ GroupMatch \/ GroupRelease

\* The event queue ends some event whose dependencies have all ended.
Execute == Idle /\ \E e \in Added : EndOf(e) /\ UNCHANGED p2pVars

Next ==
  \/ \E r, peer \in Ranks, kind \in P2PCallKind, s \in Streams : UngroupedP2P(r, kind, peer, s)
  \/ \E r \in Ranks, calls \in Batches : GroupCall(r, calls)
  \/ GroupHandler
  \/ Execute

Spec == Init /\ [][Next]_vars

-----------------------------------------------------------------------------
(***************************************************************************)
(* Properties                                                              *)
(***************************************************************************)

\* The variables other than the graph have the shapes of the structs.
TypeOK ==
  /\ waiting \in [P2PCallKind -> [Keys -> Seq(Endpoints)]]
  /\ arrived \in [P2PCallKind -> [Keys -> Seq(Endpoints)]]
  /\ matches \in [Keys -> Seq(Endpoints \X Endpoints)]
  /\ made \in [P2PCallKind -> [Keys -> Nat]]
  /\ groups \in [Ranks -> Nat]
  /\ batch \in [rank : Ranks, eps : Seq(Endpoints), left : [Streams -> SUBSET Nat]]
  /\ \A s \in Streams : batch.left[s] \subseteq 1 .. Len(batch.eps)
  /\ cur \in SUBSET Streams
  /\ todo \subseteq 1 .. Len(batch.eps)

\* A send and a receive of the same pair of ranks never both wait.
NeverBothWait ==
  \A key \in Keys : waiting["send"][key] = << >> \/ waiting["recv"][key] = << >>

\* queue holds what came after the first m of came.
Behind(queue, came, m) ==
  /\ Len(came) = m + Len(queue)
  /\ \A i \in 1 .. Len(queue) : queue[i] = came[m + i]

\* pairs joins the first sends with the first receives.
Paired(pairs, sends, recvs) == \A i \in 1 .. Len(pairs) : pairs[i] = <<sends[i], recvs[i]>>

\* Per key, sends and receives are matched in the order they reached the
\* matching, each exactly once, and exactly those not matched yet wait.
MatchedInArrivalOrder ==
  \A key \in Keys :
    /\ \A kind \in P2PCallKind :
         Behind(waiting[kind][key], arrived[kind][key], Len(matches[key]))
    /\ Paired(matches[key], arrived["send"][key], arrived["recv"][key])

\* "FIFO queues preserve NCCL's peer ordering for repeated sends/receives": the
\* i-th send to a peer is matched with the i-th receive that peer posted.
PeerOrder ==
  \A key \in Keys : \A i \in 1 .. Len(matches[key]) :
    matches[key][i] = <<Endpoint("send", key, i), Endpoint("recv", key, i)>>

\* The events of an endpoint that waits are held back, so that when its peer
\* comes add_dependency finds its end still pending.
UnmatchedIsHeld ==
  \A kind \in P2PCallKind, key \in Keys : \A i \in 1 .. Len(waiting[kind][key]) :
    LET ep == waiting[kind][key][i]
    IN  over \cap {UnmatchedBarrier(ep), FlowStart(ep), FlowEnd(ep)} = {}

\* A transfer starts when both streams have reached it and occupies both until
\* it has ended; a group passes when all its transfers have.
TransferOccupiesStreams ==
  /\ \A key \in Keys : \A i \in 1 .. Len(matches[key]) :
       LET flow == FlowEvent(matches[key][i][1])
           eps  == Elements(matches[key][i])
       IN  /\ flow \in over => \A ep \in eps : FlowStart(ep) \in over
           /\ (\E ep \in eps : FlowEnd(ep) \in over) => flow \in over
  /\ \A e \in over : e[1] = "group_end" =>
       \A ep \in {d[2] : d \in {d \in deps[e] : d[1] = "flow_end"}} :
         \E p \in Elements(matches[ep.key]) : ep \in Elements(p) /\ FlowEvent(p[1]) \in over
====

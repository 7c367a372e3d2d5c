---------------------------- MODULE Collectives ----------------------------
(***************************************************************************)
(* Collectives of one communicator (nccl_call of                           *)
(* phantora/phantora/src/simulator.rs).  The simulator keeps, for each     *)
(* kind of collective, a queue of calls that wait for ranks.  A rank that  *)
(* calls joins the first one it has not joined and opens a new one if it   *)
(* has joined them all.  The call that completes a collective adds its     *)
(* network flows and releases the barrier that held its events back.       *)
(*                                                                         *)
(* The event queue is taken at the level of DepGraph: which event depends  *)
(* on which, and which have ended.  Work that a rank has buffered for a    *)
(* stream only lengthens the chain of events before stream_start.          *)
(***************************************************************************)
EXTENDS DepGraph, Naturals, Sequences

CONSTANTS
  Ranks,     \* the ranks of the communicator
  Kinds,     \* the kinds of collective: each has a waiting map of its own
  Streams,   \* the CUDA streams of a rank
  Flows,     \* the network flows of one collective's trace
  MaxCalls   \* bound on the calls of a rank, per kind

\* ncclAllReduce and the others (stub/nccl.c) send nothing for a single rank.
ASSUME RanksAssumption ==
  /\ \E a, b \in Ranks : a # b
  /\ MaxCalls \in Nat

VARIABLES
  waitings,  \* kind -> VecDeque<CCWaiting>
  created,   \* kind -> how many CCWaiting were made, to name their events
  tail,      \* rank, stream -> the last event of the stream, as a set
  calls,     \* history: kind, rank -> calls made so far
  completed  \* history: kind -> for each completed collective, rank -> which of its calls

ccVars == <<waitings, created, tail, calls, completed>>
vars   == <<graphVars, ccVars>>

\* The events of the n-th collective of kind k.
Barrier(k, n)        == <<"comm_barrier", k, n>>
StartMeta(k, n)      == <<"comm_start_meta", k, n>>
EndMeta(k, n)        == <<"comm_end_meta", k, n>>
StreamStart(k, n, r) == <<"stream_start", k, n, r>>
StreamEnd(k, n, r)   == <<"stream_end", k, n, r>>
FlowEvent(k, n, f)   == <<"flow", k, n, f>>

OwnEvents(k, n)       == {Barrier(k, n), StartMeta(k, n), EndMeta(k, n)}
StreamEvents(k, n, r) == {StreamStart(k, n, r), StreamEnd(k, n, r)}
FlowEvents(k, n)      == {FlowEvent(k, n, f) : f \in Flows}
CollectiveEvents(k, n) ==
  OwnEvents(k, n) \cup FlowEvents(k, n)
    \cup {StreamStart(k, n, r) : r \in Ranks} \cup {StreamEnd(k, n, r) : r \in Ranks}

\* Events have identities of their own, and None is not one of them.
ASSUME EventsAssumption ==
  /\ NoneDep \notin EventIds
  /\ \A k \in Kinds, n \in 1 .. MaxCalls : CollectiveEvents(k, n) \subseteq EventIds

\* s without its i-th element (VecDeque::remove).
RemoveIndex(s, i) == [j \in 1 .. Len(s) - 1 |-> IF j < i THEN s[j] ELSE s[j + 1]]

Init ==
  /\ GraphInit
  /\ waitings = [k \in Kinds |-> << >>]
  /\ created = [k \in Kinds |-> 0]
  /\ tail = [r \in Ranks |-> [s \in Streams |-> {}]]
  /\ calls = [k \in Kinds |-> [r \in Ranks |-> 0]]
  /\ completed = [k \in Kinds |-> << >>]

-----------------------------------------------------------------------------

\* Mutant: HasJoinedAll, looking at the oldest collective only.
HasJoinedOldest(r, k) == waitings[k] # << >> => r \in waitings[k][1].joined

HasJoinedAll(r, k) == \A i \in 1 .. Len(waitings[k]) : r \in waitings[k][i].joined

\* The graph with the events in new, when rank r joins the n-th collective.  The
\* two on the stream (add_event) are chained to the last event of the stream.
WithEvents(new, r, k, n, s) ==
  [e \in Added \cup new |->
     IF e \in Added THEN deps[e]
     ELSE CASE e = Barrier(k, n) -> {NoneDep}
            [] e = StreamStart(k, n, r) -> tail[r][s] \cup {Barrier(k, n)}
            [] e = StartMeta(k, n) -> {StreamStart(k, n, r)}
            [] e \in FlowEvents(k, n) \cup {EndMeta(k, n)} -> {StartMeta(k, n)}
            [] e = StreamEnd(k, n, r) -> {StreamStart(k, n, r), EndMeta(k, n)}]

\* Mutant: OpenGraph without a barrier to hold its events back.
OpenGraphUnheld(r, k, n, s) ==
  [WithEvents(OwnEvents(k, n) \cup StreamEvents(k, n, r), r, k, n, s)
     EXCEPT ![Barrier(k, n)] = {}]

OpenGraph(r, k, n, s) ==
  WithEvents(OwnEvents(k, n) \cup StreamEvents(k, n, r), r, k, n, s)

\* Rank r has joined every waiting collective: it opens one (new_cc_waiting).
Open(r, k, s) ==
  LET n == created[k] + 1 IN
  /\ HasJoinedAll(r, k)
  /\ created' = [created EXCEPT ![k] = n]
  /\ waitings' = [waitings EXCEPT ![k] =
       Append(@, [n |-> n, joined |-> {r}, waiting |-> Ranks \ {r},
                  nth |-> [x \in {r} |-> calls[k][r] + 1]])]
  /\ deps' = OpenGraph(r, k, n, s)
  /\ tail' = [tail EXCEPT ![r][s] = {StreamEnd(k, n, r)}]
  /\ UNCHANGED completed

\* What joining adds to the graph.
JoinGraph(r, k, n, s) ==
  [WithEvents(StreamEvents(k, n, r), r, k, n, s)
     EXCEPT ![StartMeta(k, n)] = @ \cup {StreamStart(k, n, r)}]

\* Mutants: CompleteGraph, but the end does not wait for the flows, or the
\* barrier stays.
CompleteGraphOpenEnd(r, k, n, s) ==
  [WithEvents(StreamEvents(k, n, r) \cup FlowEvents(k, n), r, k, n, s)
     EXCEPT ![StartMeta(k, n)] = @ \cup {StreamStart(k, n, r)},
            ![Barrier(k, n)] = @ \ {NoneDep}]

CompleteGraphHeld(r, k, n, s) ==
  [WithEvents(StreamEvents(k, n, r) \cup FlowEvents(k, n), r, k, n, s)
     EXCEPT ![StartMeta(k, n)] = @ \cup {StreamStart(k, n, r)},
            ![EndMeta(k, n)] = @ \cup FlowEvents(k, n)]

\* The last rank to join also adds the flows between the two meta points and
\* releases the barrier.
CompleteGraph(r, k, n, s) ==
  [WithEvents(StreamEvents(k, n, r) \cup FlowEvents(k, n), r, k, n, s)
     EXCEPT ![StartMeta(k, n)] = @ \cup {StreamStart(k, n, r)},
            ![EndMeta(k, n)] = @ \cup FlowEvents(k, n),
            ![Barrier(k, n)] = @ \ {NoneDep}]

\* Mutant: IsFirstMissing, but any collective the rank has not joined will do.
IsAnyMissing(r, k, i) == r \notin waitings[k][i].joined

\* The i-th waiting collective is the first that rank r has not joined.
IsFirstMissing(r, k, i) ==
  /\ r \notin waitings[k][i].joined
  /\ \A j \in 1 .. i - 1 : r \in waitings[k][j].joined

Complete(w) == w.waiting = {}

\* Rank r joins the i-th waiting collective; if no rank is missing any more, the
\* collective leaves the queue.
Join(r, k, s, i) ==
  LET w    == waitings[k][i]
      w2   == [w EXCEPT !.joined = @ \cup {r}, !.waiting = @ \ {r},
                        !.nth = [x \in w.joined \cup {r} |->
                                   IF x = r THEN calls[k][r] + 1 ELSE w.nth[x]]]
  IN  /\ IsFirstMissing(r, k, i)
      /\ tail' = [tail EXCEPT ![r][s] = {StreamEnd(k, w.n, r)}]
      /\ IF Complete(w2)
         THEN /\ waitings' = [waitings EXCEPT ![k] = RemoveIndex(@, i)]
              /\ completed' = [completed EXCEPT ![k] = Append(@, w2.nth)]
              /\ deps' = CompleteGraph(r, k, w.n, s)
         ELSE /\ waitings' = [waitings EXCEPT ![k][i] = w2]
              /\ deps' = JoinGraph(r, k, w.n, s)
              /\ UNCHANGED completed
      /\ UNCHANGED created

NcclCall(r, k, s) ==
  /\ calls[k][r] < MaxCalls
  /\ Open(r, k, s) \/ \E i \in 1 .. Len(waitings[k]) : Join(r, k, s, i)
  /\ calls' = [calls EXCEPT ![k][r] = @ + 1]
  /\ UNCHANGED over

\* The event queue ends some event whose dependencies have all ended.
Execute == \E e \in Added : EndOf(e) /\ UNCHANGED ccVars

Next ==
  \/ \E r \in Ranks, k \in Kinds, s \in Streams : NcclCall(r, k, s)
  \/ Execute

Spec == Init /\ [][Next]_vars

-----------------------------------------------------------------------------
(***************************************************************************)
(* Properties                                                              *)
(***************************************************************************)

\* The variables other than the graph have the shapes of the structs; a waiting
\* collective knows the call of each rank that joined, a completed one of all.
TypeOK ==
  /\ \A k \in Kinds : \A i \in 1 .. Len(waitings[k]) :
       LET w == waitings[k][i]
       IN  /\ w.n \in Nat
           /\ w.joined \subseteq Ranks /\ w.waiting \subseteq Ranks
           /\ w.nth \in [w.joined -> Nat]
  /\ created \in [Kinds -> Nat]
  /\ calls \in [Kinds -> [Ranks -> Nat]]
  /\ completed \in [Kinds -> Seq([Ranks -> Nat])]

\* A collective is made of the calls of the same number, one of every rank: the
\* m-th to complete consists of every rank's m-th call, and in the i-th that
\* waits every call is the one that would make it the i-th to complete.
SameNthCall ==
  \A k \in Kinds :
    /\ \A m \in 1 .. Len(completed[k]) : completed[k][m] = [r \in Ranks |-> m]
    /\ \A i \in 1 .. Len(waitings[k]) :
         waitings[k][i].nth = [r \in waitings[k][i].joined |-> Len(completed[k]) + i]

\* Collectives are scheduled neither early nor late: as many have completed as
\* the slowest rank has made calls.
NeitherEarlyNorLate ==
  \A k \in Kinds :
    /\ \A r \in Ranks : calls[k][r] >= Len(completed[k])
    /\ \E r \in Ranks : calls[k][r] = Len(completed[k])

\* The events of a waiting collective are held back until the last rank joins,
\* whatever order events end in: neither does the assertion of add_dependency
\* fail nor does it return without recording the dependency.
WaitingIsHeld ==
  \A k \in Kinds : \A i \in 1 .. Len(waitings[k]) :
    LET n == waitings[k][i].n
    IN  over \cap ({Barrier(k, n), StartMeta(k, n), EndMeta(k, n)}
                     \cup {StreamStart(k, n, r) : r \in Ranks}
                     \cup {StreamEnd(k, n, r) : r \in Ranks}) = {}

\* No flow of a collective ends before every rank's stream has reached the
\* call, and no rank's stream passes the call before every flow has ended.
FlowsBetweenStreams ==
  \A k \in Kinds : \A n \in 1 .. created[k] :
    /\ \A f \in Flows : FlowEvent(k, n, f) \in over =>
         \A r \in Ranks : StreamStart(k, n, r) \in over
    /\ \A r \in Ranks : StreamEnd(k, n, r) \in over =>
         \A f \in Flows : FlowEvent(k, n, f) \in over
====

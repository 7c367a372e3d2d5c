------------------------- MODULE Hosts_order_proofs -------------------------
(***************************************************************************)
(* Proofs about what the hosts' calls promise, for any hosts, streams,     *)
(* CUDA events, clocks and bounds: work starts only after the work before  *)
(* it in its stream has ended (StreamOrder), and what a synchronization or *)
(* a query reports done has ended (SyncMeansDone).                         *)
(*                                                                         *)
(* Both speak of history, of what a stream's next event comes after.  The  *)
(* invariant finds it again in the graph of the queue: what must have      *)
(* ended is reached by edges from the stream's last event, from a CUDA     *)
(* event, or from the event that is waited for.  Edges and events that the *)
(* program in progress has still to add count as there.  No path leads     *)
(* through a flow, whose end a rollback may move.                          *)
(***************************************************************************)
EXTENDS Hosts_proofs, SequenceTheorems

-----------------------------------------------------------------------------
(***************************************************************************)
(* Graphs.  G.solid are the events that are no flows, G.edges the pairs of *)
(* an event and one that depends on it.                                    *)
(***************************************************************************)

Closed(G, C) ==
  \A d, e \in G.solid : d \in C /\ <<d, e>> \in G.edges => e \in C

\* From d one comes to e, without passing a flow.
After(G, d, e) == \A C \in SUBSET G.solid : d \in C /\ Closed(G, C) => e \in C

\* When e has ended, so have the events in D, of which there are some.
Covered(G, D, e) ==
  D # {} /\ D \subseteq G.solid /\ e \in G.solid /\ \A d \in D : After(G, d, e)

\* Event e depends on one that covers D.
Waits(G, D, e) == \E d \in G.solid : Covered(G, D, d) /\ <<d, e>> \in G.edges

\* H has all that G has.
Within(G, H) == G.solid \subseteq H.solid /\ G.edges \subseteq H.edges

\* An event comes after itself.
LEMMA AfterSelf ==
  ASSUME NEW G, NEW d
  PROVE  After(G, d, d)
BY DEF After

\* One edge further.
LEMMA AfterEdge ==
  ASSUME NEW G, NEW d, NEW e \in G.solid, NEW f \in G.solid, After(G, d, e), <<e, f>> \in G.edges
  PROVE  After(G, d, f)
<1>1. ASSUME NEW C \in SUBSET G.solid, d \in C, Closed(G, C)
      PROVE  f \in C
  <2>1. e \in C
    BY <1>1 DEF After
  <2>2. QED
    BY <1>1, <2>1 DEF Closed
<1>2. QED
  BY <1>1 DEF After

\* What comes after e comes after what e comes after.
LEMMA AfterAfter ==
  ASSUME NEW G, NEW d, NEW e, NEW f, After(G, d, e), After(G, e, f)
  PROVE  After(G, d, f)
BY DEF After

\* More edges leave it so.
LEMMA AfterWithin ==
  ASSUME NEW G, NEW H, Within(G, H), NEW d \in G.solid, NEW e \in G.solid, After(G, d, e)
  PROVE  After(H, d, e)
<1>1. ASSUME NEW C \in SUBSET H.solid, d \in C, Closed(H, C)
      PROVE  e \in C
  <2>1. PICK B : B = C \cap G.solid
    OBVIOUS
  <2>2. B \in SUBSET G.solid /\ d \in B
    BY <1>1, <2>1
  <2>3. Closed(G, B)
    BY <1>1, <2>1 DEF Closed, Within
  <2>4. QED
    BY <2>1, <2>2, <2>3 DEF After
<1>2. QED
  BY <1>1 DEF After

\* Neither do they uncover what is covered, nor fewer events of it.
LEMMA CoveredWithin ==
  ASSUME NEW G, NEW H, Within(G, H), NEW D, NEW E, E # {}, E \subseteq D, NEW e, Covered(G, D, e)
  PROVE  Covered(H, E, e)
<1>1. D \subseteq G.solid /\ e \in G.solid /\ \A d \in D : After(G, d, e)
  BY DEF Covered
<1>2. E \subseteq H.solid /\ e \in H.solid
  BY <1>1 DEF Within
<1>3. ASSUME NEW d \in E
      PROVE  After(H, d, e)
  BY <1>1, <1>3, AfterWithin
<1>4. QED
  BY <1>2, <1>3 DEF Covered

LEMMA WaitsWithin ==
  ASSUME NEW G, NEW H, Within(G, H), NEW D, NEW E, E # {}, E \subseteq D, NEW e, Waits(G, D, e)
  PROVE  Waits(H, E, e)
<1>1. PICK d \in G.solid : Covered(G, D, d) /\ <<d, e>> \in G.edges
  BY DEF Waits
<1>2. Covered(H, E, d)
  BY <1>1, CoveredWithin
<1>3. d \in H.solid /\ <<d, e>> \in H.edges
  BY <1>1 DEF Within
<1>4. QED
  BY <1>2, <1>3 DEF Waits

\* An event covers what it waits for, and what those that it comes after cover.
LEMMA CoveredAfter ==
  ASSUME NEW G, NEW D, NEW d, Covered(G, D, d), NEW e \in G.solid, After(G, d, e)
  PROVE  Covered(G, D, e)
BY AfterAfter DEF Covered

LEMMA CoveredEdge ==
  ASSUME NEW G, NEW D, NEW d, Covered(G, D, d), NEW e \in G.solid, <<d, e>> \in G.edges
  PROVE  Covered(G, D, e) /\ Waits(G, D, e)
<1>1. d \in G.solid
  BY DEF Covered
<1>2. After(G, d, e)
  BY <1>1, AfterSelf, AfterEdge
<1>3. QED
  BY <1>1, <1>2, CoveredAfter DEF Waits

LEMMA CoveredSelf ==
  ASSUME NEW G, NEW d \in G.solid
  PROVE  Covered(G, {d}, d)
BY AfterSelf DEF Covered

\* The events base, ..., base + n - 1 follow each other, and the events in T.
Chain(G, T, base, n) ==
  /\ \A i \in 1 .. n : base + i - 1 \in G.solid
  /\ \A i \in 2 .. n : <<base + i - 2, base + i - 1>> \in G.edges
  /\ n > 0 => \A e \in T : <<e, base>> \in G.edges

\* Each comes after the ones before it.
LEMMA ChainAfter ==
  ASSUME NEW G, NEW T, NEW base \in Nat, NEW n \in Nat, Chain(G, T, base, n),
         NEW i \in 1 .. n, NEW j \in 1 .. n, i <= j
  PROVE  After(G, base + i - 1, base + j - 1)
<1> DEFINE Bad == {k \in Nat : k \in 1 .. n /\ i <= k /\ ~ After(G, base + i - 1, base + k - 1)}
<1>1. Bad = {}
  <2> SUFFICES ASSUME Bad # {} PROVE FALSE
    OBVIOUS
  <2>1. PICK k \in Bad : \A l \in Bad : k <= l
    BY LeastNumber
  <2>2. k \in 1 .. n /\ i <= k /\ ~ After(G, base + i - 1, base + k - 1)
    BY <2>1
  <2>3. k # i
    BY <2>2, AfterSelf
  <2>4. PICK l \in Nat : l = k - 1
    BY <2>2
  <2>5. l \in 1 .. n /\ i <= l /\ k \in 2 .. n /\ k - 2 = l - 1 /\ ~ (k <= l)
    BY <2>2, <2>3, <2>4
  <2>6. l \notin Bad
    BY <2>1, <2>5
  <2>7. After(G, base + i - 1, base + l - 1)
    BY <2>5, <2>6
  <2>8. /\ base + l - 1 \in G.solid /\ base + k - 1 \in G.solid
        /\ <<base + k - 2, base + k - 1>> \in G.edges
    BY <2>2, <2>5 DEF Chain
  <2>9. base + k - 2 = base + l - 1
    BY <2>5
  <2>10. QED
    BY <2>2, <2>7, <2>8, <2>9, AfterEdge
<1>2. ASSUME ~ After(G, base + i - 1, base + j - 1)
      PROVE  FALSE
  <2>1. PICK k \in 1 .. n : k = j
    OBVIOUS
  <2>2. k \in Nat /\ i <= k /\ ~ After(G, base + i - 1, base + k - 1)
    BY <1>2, <2>1
  <2>3. QED
    BY <1>1, <2>2
<1>3. QED
  BY <1>2

\* What an event of T covers, the chain covers, and waits for.
LEMMA ChainCovers ==
  ASSUME NEW G, NEW T, NEW base \in Nat, NEW n \in Nat, Chain(G, T, base, n),
         NEW D, NEW e \in T, Covered(G, D, e), NEW j \in 1 .. n
  PROVE  Covered(G, D, base + j - 1) /\ Waits(G, D, base + j - 1)
<1>1. 1 \in 1 .. n /\ base + 1 - 1 = base /\ n > 0
  OBVIOUS
<1>2. base \in G.solid /\ <<e, base>> \in G.edges
  BY <1>1 DEF Chain
<1>3. Covered(G, D, base) /\ Waits(G, D, base)
  BY <1>2, CoveredEdge
<1>4. \A i \in 1 .. n : base + i - 1 \in G.solid
  BY DEF Chain
<1>5. \A i \in 1 .. n : Covered(G, D, base + i - 1)
  <2>1. ASSUME NEW i \in 1 .. n
        PROVE  Covered(G, D, base + i - 1)
    <3>1. PICK k \in 1 .. n : k <= i /\ base + k - 1 = base
      BY <1>1
    <3>2. After(G, base + k - 1, base + i - 1)
      BY <3>1, ChainAfter
    <3>3. QED
      BY <1>3, <1>4, <3>1, <3>2, CoveredAfter
  <2>2. QED
    BY <2>1
<1>6. Waits(G, D, base + j - 1)
  <2>1. CASE j = 1
    BY <1>1, <1>3, <2>1
  <2>2. CASE j # 1
    <3>1. PICK i \in 1 .. n : i = j - 1
      BY <2>2
    <3>2. j \in 2 .. n /\ base + j - 2 = base + i - 1
      BY <2>2, <3>1
    <3>3. <<base + i - 1, base + j - 1>> \in G.edges
      BY <3>2 DEF Chain
    <3>4. QED
      BY <1>4, <1>5, <3>3, CoveredEdge
  <2>3. QED
    BY <2>1, <2>2
<1>7. QED
  BY <1>5, <1>6

\* An event of the chain is covered by the later ones.
LEMMA ChainOwn ==
  ASSUME NEW G, NEW T, NEW base \in Nat, NEW n \in Nat, Chain(G, T, base, n),
         NEW i \in 1 .. n, NEW j \in 1 .. n, i <= j
  PROVE  /\ Covered(G, {base + i - 1}, base + j - 1)
         /\ i < j => Waits(G, {base + i - 1}, base + j - 1)
<1>1. \A k \in 1 .. n : base + k - 1 \in G.solid
  BY DEF Chain
<1>2. ASSUME NEW k \in 1 .. n, i <= k
      PROVE  Covered(G, {base + i - 1}, base + k - 1)
  <2>1. After(G, base + i - 1, base + k - 1)
    BY <1>2, ChainAfter
  <2>2. Covered(G, {base + i - 1}, base + i - 1)
    BY <1>1, CoveredSelf
  <2>3. QED
    BY <1>1, <2>1, <2>2, CoveredAfter
<1>3. ASSUME i < j
      PROVE  Waits(G, {base + i - 1}, base + j - 1)
  <2>1. PICK k \in 1 .. n : k = j - 1 /\ i <= k
    BY <1>3
  <2>2. j \in 2 .. n /\ base + j - 2 = base + k - 1
    BY <2>1
  <2>3. <<base + k - 1, base + j - 1>> \in G.edges
    BY <2>2 DEF Chain
  <2>4. QED
    BY <1>1, <1>2, <2>1, <2>3, CoveredEdge
<1>4. QED
  BY <1>2, <1>3

-----------------------------------------------------------------------------
(***************************************************************************)
(* The invariant.                                                          *)
(***************************************************************************)

\* The queue's graph as it will be when p, numbered num, has been carried out.
Dag(p, num) ==
  [solid |-> {e \in Nat : Plain(p, num, e)},
   edges |-> {x \in Nat \X Nat : Edge(p, num, x[1], x[2])}]

\* The events p adds, each with its operation; they are of the caller.
Soon(p, num) == {<<num[i], p[i]>> : i \in {i \in 1 .. Len(p) : p[i].op = "add"}}
SoonOf(p, num) == [h \in Hosts |-> IF call # NoCall /\ call.host = h THEN Soon(p, num) ELSE {}]

\* The events of host h's work w; those in A have still to be added.
EventsOf(A, h, w) ==
  ({work[h][w].first, work[h][w].last} \ {NotYet}) \cup {x[1] : x \in {x \in A : x[2].w = w}}

\* Work v is covered by every event in T, of which there are some.
CoveredAt(A, G, h, v, T) ==
  v \in DOMAIN work[h] /\ T # {} /\ \A e \in T : Covered(G, EventsOf(A, h, v), e)

BufferedBefore(h, s, n, v) == \E i \in DOMAIN buffered[h][s] : i < n /\ buffered[h][s][i].w = v

\* The work that comes before a stream's next event is in the stream's buffer, or
\* covered by its last event.
StreamsCovered(A, G, h) ==
  \A s \in Streams : \A v \in covers[h][s] :
    (\E i \in DOMAIN buffered[h][s] : buffered[h][s][i].w = v) \/ CoveredAt(A, G, h, v, tail[h][s])

\* A buffered call has no event yet.  What comes before it is in the buffer, before
\* it, or covered by the stream's last event.
BuffersWait(A, G, h) ==
  \A s \in Streams : \A i \in DOMAIN buffered[h][s] :
    LET w == buffered[h][s][i].w IN
    /\ w \in DOMAIN work[h] /\ EventsOf(A, h, w) = {}
    /\ \A v \in work[h][w].after : BufferedBefore(h, s, i, v) \/ CoveredAt(A, G, h, v, tail[h][s])

\* It is in no other place of a buffer.
BuffersApart(h) ==
  \A r, s \in Streams : \A i \in DOMAIN buffered[h][r], j \in DOMAIN buffered[h][s] :
    buffered[h][r][i].w = buffered[h][s][j].w => r = s /\ i = j

\* Every event of a piece of work waits for the work before it.
WorkWaits(A, G, h) ==
  \A w \in DOMAIN work[h] : \A v \in work[h][w].after : \A e \in EventsOf(A, h, w) :
    v \in DOMAIN work[h] /\ Waits(G, EventsOf(A, h, v), e)

BothEnds(h) == \A w \in DOMAIN work[h] : work[h][w].first = NotYet <=> work[h][w].last = NotYet

\* A CUDA event covers the work before its record.
RecordsCovered(A, G, h) ==
  \A c \in DOMAIN idOf[h] : \A v \in recorded[h][c] : CoveredAt(A, G, h, v, {idOf[h][c]})

WorkOrder(A, G, h) ==
  /\ StreamsCovered(A, G, h) /\ BuffersWait(A, G, h) /\ BuffersApart(h)
  /\ WorkWaits(A, G, h) /\ BothEnds(h) /\ RecordsCovered(A, G, h)

\* The event a host waits for covers the work that is to be done.
AskCovered(A, G, h) ==
  hostState[h] = "wait" => \A v \in ask[h].must : CoveredAt(A, G, h, v, {ask[h].id})

\* A stream or device synchronization waits for an event that does not begin
\* before the call.
AskBounded(A, h) ==
  hostState[h] = "wait" /\ ask[h].kind = "sync" =>
    /\ ask[h].at \in Nat
    /\ ask[h].id \in 0 .. cnt - 1 => NotBefore(ask[h].id, ask[h].at)
    /\ \A x \in A : x[1] = ask[h].id => x[2].t = ask[h].at

\* The handler in progress is about what its host asked.
CallerAsks(h) == Caller(h) /\ call.next # "return" => call.id = ask[h].id /\ call.next = ask[h].kind

\* All events of work v have ended by time t.
DoneBy(A, G, h, v, t) ==
  /\ v \in DOMAIN work[h] /\ EventsOf(A, h, v) # {}
  /\ \A d \in EventsOf(A, h, v) : d \in G.solid /\ d \in DOMAIN ended /\ ended[d][2] <= t

ReplyDone(A, G, h) ==
  reply[h].kind \in Answers /\ reply[h].time # NotReady =>
    /\ reply[h].kind = "sync" => reply[h].time >= reply[h].at
    /\ \A v \in reply[h].must : DoneBy(A, G, h, v, reply[h].time)

AnswerOrder(A, G, h) ==
  AskCovered(A, G, h) /\ AskBounded(A, h) /\ CallerAsks(h) /\ ReplyDone(A, G, h)

\* A host is registered for the event it asked about.
RegisteredAsks == \A e \in DOMAIN syncing : ask[syncing[e]].id = e

Asks == [kind : {"none", "sync", "eventSync", "query"}, id : Nat \cup {None}, at : Nat, time : Nat,
         must : SUBSET Nat]

AskTypes == ask \in [Hosts -> Asks] /\ DOMAIN reply = Hosts

\* A view of the program in progress: its numbers, its events, and the graph.
Views(p, num, A, G) ==
  p = Prog /\ Numbered(p, cnt, num) /\ A = SoonOf(p, num) /\ G = Dag(p, num)

HostsOrder ==
  /\ HostsInv /\ HistoryTypes /\ AskTypes /\ RegisteredAsks
  /\ \E p, num, A, G : /\ Views(p, num, A, G)
                       /\ \A h \in Hosts : WorkOrder(A[h], G, h) /\ AnswerOrder(A[h], G, h)

-----------------------------------------------------------------------------
(***************************************************************************)
(* What the graph says of ends.                                            *)
(***************************************************************************)

\* In graph G an event ends no earlier than those it depends on.  E is ended.
EndsInOrder(G, E) ==
  \A x, y \in G.solid : <<x, y>> \in G.edges /\ y \in DOMAIN E =>
    x \in DOMAIN E /\ E[x][2] \in Nat /\ E[y][2] \in Nat /\ E[x][2] <= E[y][2]

\* When an event has ended, the events it covers have.
LEMMA CoveredDone ==
  ASSUME NEW G, NEW E, EndsInOrder(G, E), \A x \in DOMAIN E : E[x][2] \in Nat,
         NEW D, NEW e \in DOMAIN E, Covered(G, D, e), NEW d \in D
  PROVE  d \in DOMAIN E /\ E[d][2] <= E[e][2]
<1>1. PICK C : C = {x \in G.solid : x \in DOMAIN E => d \in DOMAIN E /\ E[d][2] <= E[x][2]}
  OBVIOUS
<1>2. d \in G.solid /\ e \in G.solid /\ After(G, d, e)
  BY DEF Covered
<1>3. d \in C
  BY <1>1, <1>2
<1>4. Closed(G, C)
  <2>1. ASSUME NEW x \in G.solid, NEW y \in G.solid, x \in C, <<x, y>> \in G.edges, y \in DOMAIN E
        PROVE  d \in DOMAIN E /\ E[d][2] <= E[y][2]
    <3>1. x \in DOMAIN E /\ E[x][2] <= E[y][2]
      BY <2>1 DEF EndsInOrder
    <3>2. d \in DOMAIN E /\ E[d][2] <= E[x][2]
      BY <1>1, <2>1, <3>1
    <3>3. E[d][2] \in Nat /\ E[x][2] \in Nat /\ E[y][2] \in Nat
      BY <2>1, <3>1, <3>2
    <3>4. QED
      BY <3>1, <3>2, <3>3
  <2>2. QED
    BY <1>1, <2>1 DEF Closed
<1>5. e \in C
  BY <1>1, <1>2, <1>3, <1>4 DEF After
<1>6. QED
  BY <1>1, <1>5

\* Events that have still to be added have not ended.
LEMMA SoonLater ==
  ASSUME OrderInv, NEW p \in Seq(Operations), NEW num, Numbered(p, cnt, num),
         NEW i \in 1 .. Len(p)
  PROVE  num[i] \in Nat /\ num[i] >= cnt /\ num[i] \notin DOMAIN ended /\ num[i] \notin DOMAIN started
<1>1. cnt \in Nat /\ DOMAIN ended \subseteq 0 .. cnt - 1 /\ KnownInv
  BY HostsFacts
<1>2. PICK n : n = cnt
  OBVIOUS
<1>3. num[i] >= n /\ num[i] \in Nat
  BY <1>1, <1>2, NumbersGrow
<1>4. DOMAIN started \subseteq 0 .. cnt - 1
  BY <1>1 DEF KnownInv, Known
<1>5. QED
  BY <1>1, <1>2, <1>3, <1>4

\* The queue's edges are those of the graph that end in what has been added.
LEMMA OldEdge ==
  ASSUME OrderInv, NEW p \in Seq(Operations), NEW num, Numbered(p, cnt, num),
         NEW x, NEW y, <<x, y>> \in Dag(p, num).edges, y \in 0 .. cnt - 1
  PROVE  x \in Ids /\ y \in rev[x]
<1>1. Edge(p, num, x, y)
  BY DEF Dag
<1>2. \A i \in 1 .. Len(p) : num[i] # y
  <2>1. cnt \in Nat
    BY HostsFacts
  <2>2. \A i \in 1 .. Len(p) : num[i] \in Nat /\ num[i] >= cnt
    BY SoonLater
  <2>3. QED
    BY <2>1, <2>2
<1>3. QED
  BY <1>1, <1>2 DEF Edge

\* So do the queue's own events.
LEMMA OldSolid ==
  ASSUME OrderInv, NEW p \in Seq(Operations), NEW num, Numbered(p, cnt, num),
         NEW x \in Dag(p, num).solid
  PROVE  x \in Nat /\ x \notin NetIds /\ (x \in 0 .. cnt - 1 => NotFlow(x))
<1>1. x \in Nat /\ Plain(p, num, x) /\ cnt \in Nat /\ NetIds \subseteq 0 .. cnt - 1
  BY HostsFacts DEF Dag
<1>2. \A i \in 1 .. Len(p) : num[i] \in Nat /\ num[i] >= cnt
  BY SoonLater
<1>3. x \in 0 .. cnt - 1 => NotFlow(x)
  BY <1>1, <1>2 DEF Plain
<1>4. QED
  BY <1>1, <1>3 DEF NotFlow

LEMMA DagEnds ==
  ASSUME OrderInv, NEW p \in Seq(Operations), NEW num, Numbered(p, cnt, num)
  PROVE  EndsInOrder(Dag(p, num), ended) /\ \A x \in DOMAIN ended : ended[x][2] \in Nat
<1>1. /\ NetInv /\ DOMAIN ended \subseteq 0 .. cnt - 1
      /\ \A e \in 0 .. cnt - 1 : e \in Ids
  BY HostsFacts
<1>2. \A x \in DOMAIN ended : ended[x][2] \in Nat /\ ended[x][1] \in Nat
  BY <1>1, TimeTypes DEF TypeOK, Partial
<1>3. ASSUME NEW x \in Dag(p, num).solid, NEW y \in Dag(p, num).solid,
             <<x, y>> \in Dag(p, num).edges, y \in DOMAIN ended
      PROVE  x \in DOMAIN ended /\ ended[x][2] <= ended[y][2]
  <2>1. x \in Ids /\ y \in rev[x] /\ y \in Ids
    BY <1>1, <1>3, OldEdge
  <2>2. x \notin NetIds /\ y \notin NetIds
    BY OldSolid
  <2>3. x \notin revived
    BY <2>2 DEF OrderInv, RevivedFlows
  <2>4. ended[y][1] \in StartTimes(y)
    BY <1>3 DEF StartTimes
  <2>5. x \in DOMAIN ended /\ ended[y][1] >= ended[x][2]
    BY <2>1, <2>3, <2>4, TimesOrder DEF DependencyOrder
  <2>6. ended[y][1] <= ended[y][2]
    BY <1>3, <2>1, <2>2 DEF OrderInv, SpanInv
  <2>7. QED
    BY <1>2, <1>3, <2>5, <2>6
<1>4. QED
  BY <1>2, <1>3 DEF EndsInOrder

\* What has a time of start has been added.
LEMMA StartsKnown ==
  ASSUME OrderInv, NEW e, NEW t \in StartTimes(e)
  PROVE  e \in 0 .. cnt - 1 /\ t \in Nat
<1>1. KnownInv /\ TypeOK
  BY HostsFacts
<1>2. CASE \E q \in DOMAIN queue : q \in {<<"Start", e>>, <<"Point", e>>} /\ t = queue[q][1]
  <2>1. PICK q \in DOMAIN queue : q \in {<<"Start", e>>, <<"Point", e>>} /\ t = queue[q][1]
    BY <1>2
  <2>2. q[2] = e /\ q[2] \in Known
    BY <1>1, <2>1 DEF KnownInv
  <2>3. t \in Nat
    BY <1>1, <2>1 DEF TypeOK, Partial
  <2>4. QED
    BY <2>2, <2>3 DEF Known
<1>3. CASE e \in DOMAIN started /\ t = started[e]
  BY <1>1, <1>3 DEF KnownInv, Known, TypeOK, Partial
<1>4. CASE e \in DOMAIN ended /\ t = ended[e][1]
  BY <1>1, <1>4 DEF KnownInv, Known, TypeOK, Partial
<1>5. QED
  BY <1>2, <1>3, <1>4 DEF StartTimes

\* An event has started only when those it waits for have ended.
LEMMA WaitsDone ==
  ASSUME OrderInv, NEW p \in Seq(Operations), NEW num, Numbered(p, cnt, num),
         NEW D, NEW e, Waits(Dag(p, num), D, e), NEW t \in StartTimes(e), NEW d \in D
  PROVE  d \in DOMAIN ended /\ ended[d][2] <= t
<1>1. PICK G : G = Dag(p, num)
  OBVIOUS
<1>2. PICK x \in G.solid : Covered(G, D, x) /\ <<x, e>> \in G.edges
  BY <1>1 DEF Waits
<1>3. /\ NetInv /\ KnownInv /\ DOMAIN ended \subseteq 0 .. cnt - 1 /\ TypeOK
  BY HostsFacts
<1>4. e \in 0 .. cnt - 1 /\ t \in Nat
  BY StartsKnown
<1>5. x \in Ids /\ e \in rev[x]
  BY <1>1, <1>2, <1>4, OldEdge
<1>6. x \notin revived
  BY <1>1, <1>2, OldSolid DEF OrderInv, RevivedFlows
<1>7. x \in DOMAIN ended /\ t >= ended[x][2]
  BY <1>5, <1>6, TimesOrder DEF DependencyOrder
<1>8. EndsInOrder(G, ended) /\ \A y \in DOMAIN ended : ended[y][2] \in Nat
  BY <1>1, DagEnds
<1>9. d \in DOMAIN ended /\ ended[d][2] <= ended[x][2]
  <2>1. PICK E : E = ended
    OBVIOUS
  <2>2. QED
    BY <1>2, <1>7, <1>8, <2>1, CoveredDone
<1>10. QED
  BY <1>4, <1>7, <1>8, <1>9

-----------------------------------------------------------------------------
(***************************************************************************)
(* What the invariant says.                                                *)
(***************************************************************************)

\* Work whose events have all ended has ended.
LEMMA LastDone ==
  ASSUME OrderInv, NEW p \in Seq(Operations), NEW num, NEW A, NEW G, Numbered(p, cnt, num),
         A = SoonOf(p, num), NEW h \in Hosts, BothEnds(h), NEW v, NEW t,
         v \in DOMAIN work[h], EventsOf(A[h], h, v) # {},
         \A d \in EventsOf(A[h], h, v) : d \in DOMAIN ended /\ ended[d][2] <= t
  PROVE  work[h][v].last \in DOMAIN ended /\ ended[work[h][v].last][2] <= t
<1>1. PICK d : d \in EventsOf(A[h], h, v)
  OBVIOUS
<1>2. d \in DOMAIN ended
  BY <1>1
<1>3. ASSUME NEW x \in A[h], d = x[1]
      PROVE  FALSE
  <2>1. x \in Soon(p, num)
    BY <1>3 DEF SoonOf
  <2>2. PICK i \in 1 .. Len(p) : x = <<num[i], p[i]>>
    BY <2>1 DEF Soon
  <2>3. num[i] \notin DOMAIN ended
    BY SoonLater
  <2>4. QED
    BY <1>2, <1>3, <2>2, <2>3
<1>4. d \in {work[h][v].first, work[h][v].last} \ {NotYet}
  BY <1>1, <1>3 DEF EventsOf
<1>5. work[h][v].last # NotYet
  BY <1>4 DEF BothEnds
<1>6. work[h][v].last \in EventsOf(A[h], h, v)
  BY <1>5 DEF EventsOf
<1>7. QED
  BY <1>6

LEMMA OrderOfStreams ==
  ASSUME HostsOrder
  PROVE  StreamOrder
<1>1. OrderInv /\ Prog \in Seq(Operations)
  BY ProgType DEF HostsOrder, HostsInv
<1>2. PICK p, num, A, G : /\ Views(p, num, A, G)
                          /\ \A h \in Hosts : WorkOrder(A[h], G, h) /\ AnswerOrder(A[h], G, h)
  BY DEF HostsOrder
<1>3. p \in Seq(Operations) /\ Numbered(p, cnt, num) /\ A = SoonOf(p, num) /\ G = Dag(p, num)
  BY <1>1, <1>2 DEF Views
<1>4. ASSUME NEW h \in Hosts, NEW w \in DOMAIN work[h], NEW v \in work[h][w].after,
             NEW t \in StartTimes(work[h][w].first)
      PROVE  work[h][v].last \in DOMAIN ended /\ ended[work[h][v].last][2] <= t
  <2>1. work[h][w].first \in 0 .. cnt - 1 /\ t \in Nat
    BY <1>1, StartsKnown
  <2>2. work[h][w].first \in EventsOf(A[h], h, w)
    BY <2>1 DEF EventsOf, NotYet
  <2>3. /\ v \in DOMAIN work[h] /\ BothEnds(h)
        /\ Waits(G, EventsOf(A[h], h, v), work[h][w].first)
    BY <1>2, <2>2 DEF WorkOrder, WorkWaits
  <2>4. \A d \in EventsOf(A[h], h, v) : d \in DOMAIN ended /\ ended[d][2] <= t
    BY <1>1, <1>3, <2>3, WaitsDone
  <2>5. EventsOf(A[h], h, v) # {}
    BY <2>3 DEF Waits, Covered
  <2>6. QED
    BY <1>1, <1>3, <2>3, <2>4, <2>5, LastDone
<1>5. QED
  BY <1>4 DEF StreamOrder

LEMMA DoneWhenReplied ==
  ASSUME HostsOrder
  PROVE  SyncMeansDone
<1>1. OrderInv /\ Prog \in Seq(Operations)
  BY ProgType DEF HostsOrder, HostsInv
<1>2. PICK p, num, A, G : /\ Views(p, num, A, G)
                          /\ \A h \in Hosts : WorkOrder(A[h], G, h) /\ AnswerOrder(A[h], G, h)
  BY DEF HostsOrder
<1>3. p \in Seq(Operations) /\ Numbered(p, cnt, num) /\ A = SoonOf(p, num)
  BY <1>1, <1>2 DEF Views
<1>4. ASSUME NEW h \in Hosts, reply[h].kind \in Answers, reply[h].time # NotReady
      PROVE  /\ reply[h].kind = "sync" => reply[h].time >= reply[h].at
             /\ \A v \in reply[h].must : /\ work[h][v].last \in DOMAIN ended
                                         /\ ended[work[h][v].last][2] <= reply[h].time
  <2>1. BothEnds(h) /\ ReplyDone(A[h], G, h)
    BY <1>2 DEF WorkOrder, AnswerOrder
  <2>2. /\ reply[h].kind = "sync" => reply[h].time >= reply[h].at
        /\ \A v \in reply[h].must : DoneBy(A[h], G, h, v, reply[h].time)
    BY <1>4, <2>1 DEF ReplyDone
  <2>3. ASSUME NEW v \in reply[h].must
        PROVE  /\ work[h][v].last \in DOMAIN ended
               /\ ended[work[h][v].last][2] <= reply[h].time
    <3>1. /\ v \in DOMAIN work[h] /\ EventsOf(A[h], h, v) # {}
          /\ \A d \in EventsOf(A[h], h, v) : d \in DOMAIN ended /\ ended[d][2] <= reply[h].time
      BY <2>2, <2>3 DEF DoneBy
    <3>2. QED
      BY <1>1, <1>3, <2>1, <3>1, LastDone
  <2>4. QED
    BY <2>2, <2>3
<1>5. QED
  BY <1>4 DEF SyncMeansDone

-----------------------------------------------------------------------------
(***************************************************************************)
(* What steps keep.                                                        *)
(***************************************************************************)

\* There is one way of numbering.
LEMMA NumbersSame ==
  ASSUME NEW p, Len(p) \in Nat, NEW n \in Nat, NEW num, Numbered(p, n, num),
         NEW m, Numbered(p, n, m)
  PROVE  num = m
<1>1. /\ num \in [1 .. Len(p) + 1 -> Nat] /\ num[1] = n
      /\ m \in [1 .. Len(p) + 1 -> Nat] /\ m[1] = n
  BY DEF Numbered
<1> DEFINE Bad == {j \in Nat : j \in 1 .. Len(p) + 1 /\ num[j] # m[j]}
<1>2. Bad = {}
  <2> SUFFICES ASSUME Bad # {} PROVE FALSE
    OBVIOUS
  <2>1. PICK j \in Bad : \A k \in Bad : j <= k
    BY LeastNumber
  <2>2. j \in 1 .. Len(p) + 1 /\ num[j] # m[j] /\ j # 1
    BY <1>1, <2>1
  <2>3. PICK k \in Nat : k = j - 1
    BY <2>2
  <2>4. k \in 1 .. Len(p) /\ k + 1 = j /\ k \in 1 .. Len(p) + 1 /\ ~ (j <= k)
    BY <2>2, <2>3
  <2>5. num[k] = m[k]
    BY <2>1, <2>4
  <2>6. QED
    BY <2>2, <2>4, <2>5 DEF Numbered
<1>3. \A j \in 1 .. Len(p) + 1 : num[j] = m[j]
  BY <1>2
<1>4. QED
  BY <1>1, <1>3

\* The graph grows.
LEMMA GrowsWithin ==
  ASSUME NEW p, NEW num, NEW q, NEW m, NEW gone, Grows(p, num, q, m, gone), NEW G, NEW H,
         G = Dag(p, num), H = Dag(q, m)'
  PROVE  Within(G, H)
<1>1. G.solid \subseteq H.solid
  BY DEF Grows, Dag
<1>2. G.edges \subseteq H.edges
  <2>1. ASSUME NEW x \in Nat \X Nat, Edge(p, num, x[1], x[2])
        PROVE  Edge(q, m, x[1], x[2])'
    BY <2>1 DEF Grows
  <2>2. QED
    BY <2>1 DEF Dag
<1>3. QED
  BY <1>1, <1>2 DEF Within

\* Work that has events keeps some of them, and gets no others.  A are the events
\* that are still to be added to host h's work before the step, B those after it.
KeepsEvents(A, B, h) ==
  \A w \in DOMAIN work[h] :
    /\ w \in DOMAIN work'[h] /\ work'[h][w].after = work[h][w].after
    /\ EventsOf(A, h, w) # {} => EventsOf(B, h, w)' # {} /\ EventsOf(B, h, w)' \subseteq EventsOf(A, h, w)

LEMMA CoveredKeeps ==
  ASSUME NEW A, NEW B, NEW G, NEW H, NEW h, KeepsEvents(A, B, h), Within(G, H),
         NEW v, NEW T, CoveredAt(A, G, h, v, T)
  PROVE  CoveredAt(B, H, h, v, T)'
<1>1. v \in DOMAIN work[h] /\ T # {} /\ \A e \in T : Covered(G, EventsOf(A, h, v), e)
  BY DEF CoveredAt
<1>2. EventsOf(A, h, v) # {}
  BY <1>1 DEF Covered
<1>3. /\ v \in DOMAIN work'[h]
      /\ EventsOf(B, h, v)' # {} /\ EventsOf(B, h, v)' \subseteq EventsOf(A, h, v)
  BY <1>1, <1>2 DEF KeepsEvents
<1>4. PICK D, E : D = EventsOf(A, h, v) /\ E = EventsOf(B, h, v)'
  OBVIOUS
<1>5. \A e \in T : Covered(H, E, e)
  BY <1>1, <1>3, <1>4, CoveredWithin
<1>6. QED
  BY <1>1, <1>3, <1>4, <1>5 DEF CoveredAt

LEMMA WaitsKeeps ==
  ASSUME NEW A, NEW B, NEW G, NEW H, NEW h, KeepsEvents(A, B, h), Within(G, H),
         NEW v \in DOMAIN work[h], NEW e, Waits(G, EventsOf(A, h, v), e)
  PROVE  v \in DOMAIN work'[h] /\ Waits(H, EventsOf(B, h, v), e)'
<1>1. EventsOf(A, h, v) # {}
  BY DEF Waits, Covered
<1>2. /\ v \in DOMAIN work'[h]
      /\ EventsOf(B, h, v)' # {} /\ EventsOf(B, h, v)' \subseteq EventsOf(A, h, v)
  BY <1>1 DEF KeepsEvents
<1>3. PICK D, E : D = EventsOf(A, h, v) /\ E = EventsOf(B, h, v)'
  OBVIOUS
<1>4. Waits(H, E, e)
  BY <1>2, <1>3, WaitsWithin
<1>5. QED
  BY <1>2, <1>3, <1>4

\* A step that leaves host h's streams and CUDA events as they are.
WorkStays(A, B, h) ==
  /\ KeepsEvents(A, B, h) /\ DOMAIN work'[h] = DOMAIN work[h]
  /\ \A w \in DOMAIN work[h] : EventsOf(B, h, w)' \subseteq EventsOf(A, h, w)
  /\ BothEnds(h)'
  /\ tail'[h] = tail[h] /\ buffered'[h] = buffered[h] /\ idOf'[h] = idOf[h]
  /\ covers'[h] = covers[h] /\ recorded'[h] = recorded[h]

\* In particular one that leaves host h's work as it is.
LEMMA SameWork ==
  ASSUME NEW A, NEW h, BothEnds(h), work'[h] = work[h],
         tail'[h] = tail[h], buffered'[h] = buffered[h], idOf'[h] = idOf[h],
         covers'[h] = covers[h], recorded'[h] = recorded[h]
  PROVE  WorkStays(A, A, h)
<1>1. \A w : EventsOf(A, h, w)' = EventsOf(A, h, w)
  BY DEF EventsOf
<1>2. KeepsEvents(A, A, h)
  BY <1>1 DEF KeepsEvents
<1>3. BothEnds(h)'
  BY DEF BothEnds
<1>4. QED
  BY <1>1, <1>2, <1>3 DEF WorkStays

\* Such a step keeps the order of the work.
LEMMA WorkKeeps ==
  ASSUME NEW A, NEW B, NEW G, NEW H, NEW h, WorkStays(A, B, h), Within(G, H), WorkOrder(A, G, h)
  PROVE  WorkOrder(B, H, h)'
<1>1. /\ KeepsEvents(A, B, h) /\ DOMAIN work'[h] = DOMAIN work[h]
      /\ tail'[h] = tail[h] /\ buffered'[h] = buffered[h] /\ idOf'[h] = idOf[h]
      /\ covers'[h] = covers[h] /\ recorded'[h] = recorded[h]
      /\ \A w \in DOMAIN work[h] : work'[h][w].after = work[h][w].after
      /\ \A w \in DOMAIN work[h] : EventsOf(B, h, w)' \subseteq EventsOf(A, h, w)
  BY DEF WorkStays, KeepsEvents
<1>2. \A v, T : CoveredAt(A, G, h, v, T) => CoveredAt(B, H, h, v, T)'
  BY <1>1, CoveredKeeps
<1>3. StreamsCovered(B, H, h)'
  <2>1. ASSUME NEW s \in Streams, NEW v \in covers'[h][s],
               ~ \E i \in DOMAIN buffered'[h][s] : buffered'[h][s][i].w = v
        PROVE  CoveredAt(B, H, h, v, tail[h][s])'
    <3>1. PICK T : T = tail[h][s]
      OBVIOUS
    <3>2. CoveredAt(A, G, h, v, T)
      BY <1>1, <2>1, <3>1 DEF WorkOrder, StreamsCovered
    <3>3. CoveredAt(B, H, h, v, T)'
      BY <1>2, <3>2
    <3>4. T = tail'[h][s]
      BY <1>1, <3>1
    <3>5. QED
      BY <3>3, <3>4
  <2>2. QED
    BY <2>1 DEF StreamsCovered
<1>4. BuffersWait(B, H, h)'
  <2>1. ASSUME NEW s \in Streams, NEW i \in DOMAIN buffered'[h][s], NEW w, w = buffered'[h][s][i].w
        PROVE  /\ w \in DOMAIN work'[h] /\ EventsOf(B, h, w)' = {}
               /\ \A v \in work'[h][w].after :
                    BufferedBefore(h, s, i, v)' \/ CoveredAt(B, H, h, v, tail[h][s])'
    <3>1. /\ w \in DOMAIN work[h] /\ EventsOf(A, h, w) = {}
          /\ \A v \in work[h][w].after :
               BufferedBefore(h, s, i, v) \/ CoveredAt(A, G, h, v, tail[h][s])
      BY <1>1, <2>1 DEF WorkOrder, BuffersWait
    <3>2. PICK T : T = tail[h][s]
      OBVIOUS
    <3>3. ASSUME NEW v \in work[h][w].after
          PROVE  BufferedBefore(h, s, i, v)' \/ CoveredAt(B, H, h, v, T)'
      <4>1. CASE BufferedBefore(h, s, i, v)
        BY <1>1, <4>1 DEF BufferedBefore
      <4>2. CASE CoveredAt(A, G, h, v, T)
        BY <1>2, <4>2
      <4>3. QED
        BY <3>1, <3>2, <3>3, <4>1, <4>2
    <3>4. T = tail'[h][s]
      BY <1>1, <3>2
    <3>5. w \in DOMAIN work'[h] /\ EventsOf(B, h, w)' = {} /\ work'[h][w].after = work[h][w].after
      BY <1>1, <3>1
    <3>6. QED
      BY <3>3, <3>4, <3>5
  <2>2. QED
    BY <2>1 DEF BuffersWait
<1>5. BuffersApart(h)'
  BY <1>1 DEF WorkOrder, BuffersApart
<1>6. WorkWaits(B, H, h)'
  <2>1. ASSUME NEW w \in DOMAIN work'[h], NEW v \in work'[h][w].after, NEW e \in EventsOf(B, h, w)'
        PROVE  v \in DOMAIN work'[h] /\ Waits(H, EventsOf(B, h, v), e)'
    <3>1. w \in DOMAIN work[h] /\ v \in work[h][w].after /\ e \in EventsOf(A, h, w)
      BY <1>1, <2>1
    <3>2. v \in DOMAIN work[h] /\ Waits(G, EventsOf(A, h, v), e)
      BY <3>1 DEF WorkOrder, WorkWaits
    <3>3. QED
      BY <1>1, <3>2, WaitsKeeps
  <2>2. QED
    BY <2>1 DEF WorkWaits
<1>7. RecordsCovered(B, H, h)'
  <2>1. ASSUME NEW c \in DOMAIN idOf'[h], NEW v \in recorded'[h][c], NEW T, T = {idOf'[h][c]}
        PROVE  CoveredAt(B, H, h, v, T)'
    <3>1. T = {idOf[h][c]} /\ c \in DOMAIN idOf[h] /\ v \in recorded[h][c]
      BY <1>1, <2>1
    <3>2. CoveredAt(A, G, h, v, T)
      BY <3>1 DEF WorkOrder, RecordsCovered
    <3>3. QED
      BY <1>2, <3>2
  <2>2. QED
    BY <2>1 DEF RecordsCovered
<1>8. QED
  BY <1>3, <1>4, <1>5, <1>6, <1>7 DEF WorkStays, WorkOrder

\* What is no flow ends once.
EndsStay(G) == \A d \in G.solid : d \in DOMAIN ended => d \in DOMAIN ended' /\ ended'[d] = ended[d]

\* A reply stays true.
LEMMA DoneKeeps ==
  ASSUME NEW A, NEW B, NEW G, NEW H, NEW h, KeepsEvents(A, B, h), Within(G, H), EndsStay(G),
         reply'[h] = reply[h], ReplyDone(A, G, h)
  PROVE  ReplyDone(B, H, h)'
<1>1. ASSUME NEW v, NEW t, DoneBy(A, G, h, v, t)
      PROVE  DoneBy(B, H, h, v, t)'
  <2>1. /\ v \in DOMAIN work[h] /\ EventsOf(A, h, v) # {}
        /\ \A d \in EventsOf(A, h, v) : d \in G.solid /\ d \in DOMAIN ended /\ ended[d][2] <= t
    BY <1>1 DEF DoneBy
  <2>2. /\ v \in DOMAIN work'[h] /\ EventsOf(B, h, v)' # {}
        /\ EventsOf(B, h, v)' \subseteq EventsOf(A, h, v)
    BY <2>1 DEF KeepsEvents
  <2>3. ASSUME NEW d \in EventsOf(B, h, v)'
        PROVE  d \in H.solid /\ d \in DOMAIN ended' /\ ended'[d][2] <= t
    <3>1. d \in G.solid /\ d \in DOMAIN ended /\ ended[d][2] <= t
      BY <2>1, <2>2, <2>3
    <3>2. QED
      BY <3>1 DEF EndsStay, Within
  <2>4. QED
    BY <2>2, <2>3 DEF DoneBy
<1>2. ASSUME reply'[h].kind \in Answers, reply'[h].time # NotReady
      PROVE  /\ reply'[h].kind = "sync" => reply'[h].time >= reply'[h].at
             /\ \A v \in reply'[h].must : DoneBy(B, H, h, v, reply[h].time)'
  <2>1. PICK t : t = reply[h].time
    OBVIOUS
  <2>2. /\ reply[h].kind = "sync" => t >= reply[h].at
        /\ \A v \in reply[h].must : DoneBy(A, G, h, v, t)
    BY <1>2, <2>1 DEF ReplyDone
  <2>3. \A v \in reply[h].must : DoneBy(B, H, h, v, t)'
    BY <1>1, <2>2
  <2>4. t = reply'[h].time
    BY <2>1
  <2>5. QED
    BY <2>2, <2>3, <2>4
<1>3. QED
  BY <1>2 DEF ReplyDone

\* What a host waits for stays what it waits for.
LEMMA AskKeeps ==
  ASSUME NEW A, NEW B, NEW G, NEW H, NEW h, KeepsEvents(A, B, h), Within(G, H),
         hostState'[h] = "wait" => hostState[h] = "wait" /\ ask'[h] = ask[h], AskCovered(A, G, h)
  PROVE  AskCovered(B, H, h)'
<1>1. ASSUME hostState'[h] = "wait", NEW v \in ask'[h].must, NEW T, T = {ask'[h].id}
      PROVE  CoveredAt(B, H, h, v, T)'
  <2>1. v \in ask[h].must /\ T = {ask[h].id} /\ hostState[h] = "wait"
    BY <1>1
  <2>2. CoveredAt(A, G, h, v, T)
    BY <2>1 DEF AskCovered
  <2>3. QED
    BY <2>2, CoveredKeeps
<1>2. QED
  BY <1>1 DEF AskCovered

LEMMA BoundKeeps ==
  ASSUME NEW A, NEW B, NEW h, B \subseteq A, BoundsKept, UNCHANGED cnt,
         hostState'[h] = "wait" => hostState[h] = "wait" /\ ask'[h] = ask[h], AskBounded(A, h)
  PROVE  AskBounded(B, h)'
<1>1. ASSUME hostState'[h] = "wait", ask'[h].kind = "sync"
      PROVE  /\ ask'[h].at \in Nat
             /\ ask'[h].id \in 0 .. cnt' - 1 => NotBefore(ask[h].id, ask[h].at)'
             /\ \A x \in B : x[1] = ask'[h].id => x[2].t = ask'[h].at
  <2>1. PICK e, t : e = ask[h].id /\ t = ask[h].at
    OBVIOUS
  <2>2. e = ask'[h].id /\ t = ask'[h].at
    BY <1>1, <2>1
  <2>3. t \in Nat /\ (e \in 0 .. cnt - 1 => NotBefore(e, t)) /\ \A x \in A : x[1] = e => x[2].t = t
    BY <1>1, <2>1 DEF AskBounded
  <2>4. e \in 0 .. cnt' - 1 => NotBefore(e, t)'
    BY <2>3 DEF BoundsKept
  <2>5. QED
    BY <2>2, <2>3, <2>4
<1>2. QED
  BY <1>1 DEF AskBounded

\* Work is done when an event that covers it has ended.
LEMMA EndedDone ==
  ASSUME OrderInv, NEW p \in Seq(Operations), NEW num, NEW G, Numbered(p, cnt, num), G = Dag(p, num),
         NEW A, NEW h, NEW v, NEW e \in DOMAIN ended, CoveredAt(A, G, h, v, {e})
  PROVE  DoneBy(A, G, h, v, ended[e][2])
<1>1. PICK E, D : E = ended /\ D = EventsOf(A, h, v)
  OBVIOUS
<1>2. EndsInOrder(G, E) /\ \A x \in DOMAIN E : E[x][2] \in Nat
  BY <1>1, DagEnds
<1>3. v \in DOMAIN work[h] /\ Covered(G, D, e)
  BY <1>1 DEF CoveredAt
<1>4. D # {} /\ D \subseteq G.solid
  BY <1>3 DEF Covered
<1>5. \A d \in D : d \in DOMAIN E /\ E[d][2] <= E[e][2]
  BY <1>1, <1>2, <1>3, CoveredDone
<1>6. QED
  BY <1>1, <1>3, <1>4, <1>5 DEF DoneBy

\* The same of the state after a step.
LEMMA EndedDoneNext ==
  (\A p, num, G, A, h, v, e, t :
     p \in Seq(Operations) /\ OrderInv /\ Numbered(p, cnt, num) /\ G = Dag(p, num)
       /\ e \in DOMAIN ended /\ t = ended[e][2] /\ CoveredAt(A, G, h, v, {e}) => DoneBy(A, G, h, v, t))'
<1>1. \A p, num, G, A, h, v, e, t :
        p \in Seq(Operations) /\ OrderInv /\ Numbered(p, cnt, num) /\ G = Dag(p, num)
          /\ e \in DOMAIN ended /\ t = ended[e][2] /\ CoveredAt(A, G, h, v, {e}) => DoneBy(A, G, h, v, t)
  BY EndedDone
<1>2. QED
  BY <1>1, PTL

\* A program that is empty adds nothing.
LEMMA SoonEmpty ==
  ASSUME NEW num
  PROVE  SoonOf(<< >>, num) = [h \in Hosts |-> {}] /\ SoonOf(<< >>, num)' = [h \in Hosts |-> {}]
<1>1. Soon(<< >>, num) = {}
  BY DEF Soon
<1>2. QED
  BY <1>1 DEF SoonOf

-----------------------------------------------------------------------------
(***************************************************************************)
(* The handlers that carry out no operation of a program.                  *)
(***************************************************************************)

\* A step that leaves the program and the streams as they are: G is the graph
\* before it, H the one after it.
StepOf(p, num, A, G, H) ==
  /\ p \in Seq(Operations) /\ Numbered(p, cnt, num)
  /\ \A h \in Hosts : WorkOrder(A[h], G, h) /\ AnswerOrder(A[h], G, h)
  /\ Views(p, num, A, G) /\ Views(p, num, A, H)' /\ Within(G, H) /\ EndsStay(G)
  /\ \A h \in Hosts : KeepsEvents(A[h], A[h], h) /\ WorkOrder(A[h], H, h)'

\* Such are the steps of the queue, and the ones that leave it alone.
LEMMA QuietViews ==
  ASSUME HostsOrder, QuietStep,
         \A d \in DOMAIN ended \ NetIds : d \in DOMAIN ended' /\ ended'[d] = ended[d],
         UNCHANGED <<tail, buffered, idOf, work, covers, recorded>>,
         UNCHANGED call \/ (Prog = << >> /\ Prog' = << >>)
  PROVE  \E p, num, A, G, H : StepOf(p, num, A, G, H)
<1>1. OrderInv /\ NetInv /\ Prog \in Seq(Operations)
  BY HostsFacts, ProgType DEF HostsOrder, HostsInv
<1>2. PICK p, num, A, G : /\ Views(p, num, A, G)
                          /\ \A h \in Hosts : WorkOrder(A[h], G, h) /\ AnswerOrder(A[h], G, h)
  BY DEF HostsOrder
<1>3. /\ p = Prog /\ p \in Seq(Operations) /\ Numbered(p, cnt, num)
      /\ A = SoonOf(p, num) /\ G = Dag(p, num)
  BY <1>1, <1>2 DEF Views
<1>4. PICK H, gone : H = Dag(p, num)' /\ gone = {}
  OBVIOUS
<1>5. Grows(p, num, p, num, gone)
  BY <1>1, <1>4, QuietGrows
<1>6. Within(G, H)
  BY <1>3, <1>4, <1>5, GrowsWithin
<1>7. p = Prog'
  BY <1>3 DEF Prog
<1>8. A = SoonOf(p, num)'
  <2>1. CASE UNCHANGED call
    BY <1>3, <2>1 DEF SoonOf
  <2>2. CASE p = << >>
    BY <1>3, <2>2, SoonEmpty
  <2>3. QED
    BY <1>3, <2>1, <2>2
<1>9. Views(p, num, A, H)'
  BY <1>3, <1>4, <1>7, <1>8 DEF Views, QuietStep
<1>10. EndsStay(G)
  BY <1>1, <1>3, OldSolid DEF EndsStay
<1>11. ASSUME NEW h \in Hosts
       PROVE  KeepsEvents(A[h], A[h], h) /\ WorkOrder(A[h], H, h)'
  <2>1. PICK B : B = A[h]
    OBVIOUS
  <2>2. BothEnds(h)
    BY <1>2 DEF WorkOrder
  <2>3. WorkStays(B, B, h)
    BY <2>2, SameWork
  <2>4. KeepsEvents(B, B, h)
    BY <2>3 DEF WorkStays
  <2>5. WorkOrder(B, H, h)'
    BY <1>2, <1>6, <2>1, <2>3, WorkKeeps
  <2>6. QED
    BY <2>1, <2>4, <2>5
<1>12. StepOf(p, num, A, G, H)
  BY <1>2, <1>3, <1>6, <1>9, <1>10, <1>11 DEF StepOf
<1>13. QED
  BY <1>12

\* Such a step keeps the invariant, if the replies it sends are right.
LEMMA QuietOrder ==
  ASSUME HostsInv', HistoryTypes', AskTypes', RegisteredAsks', BoundsKept, UNCHANGED <<cnt, ask>>,
         NEW p, NEW num, NEW A, NEW G, NEW H, StepOf(p, num, A, G, H),
         \A h \in Hosts : hostState'[h] = "wait" => hostState[h] = "wait",
         \A h \in Hosts : Caller(h)' => Caller(h) /\ call'.id = call.id /\ call'.next = call.next,
         \A h \in Hosts : reply'[h] = reply[h] \/ ReplyDone(A[h], H, h)'
  PROVE  HostsOrder'
<1>1. ASSUME NEW h \in Hosts
      PROVE  AnswerOrder(A[h], H, h)'
  <2>1. PICK B : B = A[h]
    OBVIOUS
  <2>2. AnswerOrder(B, G, h) /\ KeepsEvents(B, B, h) /\ Within(G, H) /\ EndsStay(G)
    BY <2>1 DEF StepOf
  <2>3. hostState'[h] = "wait" => hostState[h] = "wait" /\ ask'[h] = ask[h]
    OBVIOUS
  <2>4. AskCovered(B, H, h)'
    BY <2>2, <2>3, AskKeeps DEF AnswerOrder
  <2>5. AskBounded(B, h)'
    BY <2>2, <2>3, BoundKeeps DEF AnswerOrder
  <2>6. CallerAsks(h)'
    BY <2>2 DEF AnswerOrder, CallerAsks
  <2>7. ReplyDone(B, H, h)'
    BY <2>1, <2>2, DoneKeeps DEF AnswerOrder
  <2>8. AnswerOrder(B, H, h)'
    BY <2>4, <2>5, <2>6, <2>7 DEF AnswerOrder
  <2>9. QED
    BY <2>1, <2>8
<1>2. Views(p, num, A, H)' /\ \A h \in Hosts : WorkOrder(A[h], H, h)'
  BY DEF StepOf
<1>3. QED
  BY <1>1, <1>2 DEF HostsOrder

\* The reply to a host is about what it asked; it is right if what it asked about
\* has been done by the time it is given.
LEMMA ReplyMade ==
  ASSUME AskTypes, NEW w \in Hosts, NEW t, reply' = [reply EXCEPT ![w] = [ask[w] EXCEPT !.time = t]],
         NEW A, NEW H,
         t # NotReady => /\ ask[w].kind = "sync" => t >= ask[w].at
                         /\ \A v \in ask[w].must : DoneBy(A, H, w, v, t)'
  PROVE  ReplyDone(A, H, w)' /\ \A h \in Hosts \ {w} : reply'[h] = reply[h]
<1>1. PICK r : r = [ask[w] EXCEPT !.time = t]
  OBVIOUS
<1>2. ask[w] \in Asks
  BY DEF AskTypes
<1>3. r.kind = ask[w].kind /\ r.at = ask[w].at /\ r.must = ask[w].must /\ r.time = t
  BY <1>1, <1>2 DEF Asks
<1>4. reply'[w] = r /\ \A h \in Hosts \ {w} : reply'[h] = reply[h]
  BY <1>1 DEF AskTypes
<1>5. ASSUME r.time # NotReady
      PROVE  /\ r.kind = "sync" => r.time >= r.at
             /\ \A v \in r.must : DoneBy(A, H, w, v, t)'
  BY <1>3, <1>5
<1>6. t = reply'[w].time
  BY <1>3, <1>4
<1>7. QED
  BY <1>3, <1>4, <1>5, <1>6 DEF ReplyDone

\* What a host asked about is done once the event it waits for has ended.
LEMMA AnsweredDone ==
  ASSUME OrderInv', NEW p, NEW num, NEW A, NEW G, NEW H, StepOf(p, num, A, G, H),
         NEW w \in Hosts, hostState[w] = "wait", NEW e, e = ask[w].id, e \in DOMAIN ended',
         NEW t, t = ended'[e][2]
  PROVE  \A v \in ask[w].must : DoneBy(A[w], H, w, v, t)'
<1>1. PICK B, D : B = A[w] /\ D = {e}
  OBVIOUS
<1>2. /\ p \in Seq(Operations) /\ Numbered(p, cnt, num)' /\ H = Dag(p, num)'
      /\ AskCovered(B, G, w) /\ KeepsEvents(B, B, w) /\ Within(G, H)
  BY <1>1 DEF StepOf, Views, AnswerOrder
<1>3. ASSUME NEW v \in ask[w].must
      PROVE  DoneBy(B, H, w, v, t)'
  <2>1. CoveredAt(B, G, w, v, D)
    BY <1>1, <1>2 DEF AskCovered
  <2>2. CoveredAt(B, H, w, v, D)'
    BY <1>2, <2>1, CoveredKeeps
  <2>3. CoveredAt(B, H, w, v, {e})'
    BY <1>1, <2>2
  <2>4. QED
    BY <1>2, <2>3, EndedDoneNext
<1>4. ASSUME NEW v \in ask[w].must
      PROVE  DoneBy(A[w], H, w, v, t)'
  BY <1>1, <1>3
<1>5. QED
  BY <1>4

\* A step that leaves the queue alone keeps the bounds on its events.
LEMMA SameBounds ==
  ASSUME OrderInv, UNCHANGED vars
  PROVE  QuietStep /\ BoundsKept /\ UNCHANGED <<cnt, ended>> /\ OrderInv'
BY SameQuiet, NextOrderInv

\* A step of the queue by itself, or of the network.
LEMMA QueueOrder ==
  ASSUME HostsOrder, HostsInv', HistoryTypes', Internal \/ ProceedNetsim,
         UNCHANGED <<simVars, hostVars, history>>
  PROVE  HostsOrder'
<1>1. OrderInv /\ NetInv
  BY HostsFacts DEF HostsOrder, HostsInv
<1>2. QuietStep /\ BoundsKept
  BY <1>1, InternalQuiet, ExecuteQuiet, NextOrderInv DEF AnyNext
<1>3. \A d \in DOMAIN ended \ NetIds : d \in DOMAIN ended' /\ ended'[d] = ended[d]
  BY <1>1, InternalEnds
<1>4. /\ UNCHANGED <<tail, buffered, idOf, work, covers, recorded>> /\ UNCHANGED call
      /\ UNCHANGED <<ask, reply, syncing, hostState>>
  BY DEF simVars, hostVars, history
<1>5. PICK p, num, A, G, H : StepOf(p, num, A, G, H)
  BY <1>2, <1>3, <1>4, QuietViews
<1>6. RegisteredAsks' /\ AskTypes' /\ UNCHANGED cnt
  BY <1>2, <1>4 DEF HostsOrder, RegisteredAsks, AskTypes, QuietStep
<1>7. QED
  BY <1>2, <1>4, <1>5, <1>6, QuietOrder DEF Caller

\* What is no flow does not end before it begins.
LEMMA EndsLater ==
  \A e, t : OrderInv /\ NotFlow(e) /\ NotBefore(e, t) /\ e \in DOMAIN ended /\ t \in Nat
              => ended[e][2] >= t
<1>1. ASSUME OrderInv, NEW e, NEW t, NotFlow(e), NotBefore(e, t), e \in DOMAIN ended, t \in Nat
      PROVE  ended[e][2] >= t
  <2>1. ended[e][1] \in Nat /\ ended[e][2] \in Nat /\ e \in Ids
    BY <1>1, HostsFacts DEF TypeOK, Partial
  <2>2. ended[e][1] >= t
    BY <1>1 DEF NotBefore, BegunAt
  <2>3. ended[e][1] <= ended[e][2]
    BY <1>1, <2>1 DEF OrderInv, SpanInv, NotFlow
  <2>4. QED
    BY <1>1, <2>1, <2>2, <2>3
<1>2. QED
  BY <1>1

LEMMA EndsLaterNext ==
  (\A e, t : OrderInv /\ NotFlow(e) /\ NotBefore(e, t) /\ e \in DOMAIN ended /\ t \in Nat
               => ended[e][2] >= t)'
BY EndsLater, PTL

\* The loops of execute_to_time and execute_to_event execute an event, and may
\* answer the host that waits for it.
LEMMA ExecuteOrder ==
  ASSUME HostsOrder, HostsInv', HistoryTypes', call # NoCall, call.phase \in {"toTime", "toEvent"},
         call' = call \/ call' = NoCall,
         NEW e \in DOMAIN queue, ExecuteAnswering(e)
  PROVE  HostsOrder'
<1>1. OrderInv /\ NetInv /\ HostsTypes /\ OrderInv' /\ AskTypes
  BY HostsFacts DEF HostsOrder, HostsInv
<1>2. QuietStep /\ BoundsKept
  <2>1. Execute
    BY DEF Execute, ExecuteAnswering
  <2>2. QED
    BY <1>1, <2>1, ExecuteQuiet, NextOrderInv DEF AnyNext
<1>3. /\ e[1] = "Start" => UNCHANGED ended
      /\ e[1] # "Start" => /\ DOMAIN ended' = DOMAIN ended \cup {e[2]}
                           /\ ended'[e[2]][2] = queue[e][1]
                           /\ \A f \in DOMAIN ended \ {e[2]} : ended'[f] = ended[f]
                           /\ e[2] \notin NetIds => e[2] \notin DOMAIN ended
  BY <1>1, ExecuteEnds DEF ExecuteAnswering
<1>4. \A d \in DOMAIN ended \ NetIds : d \in DOMAIN ended' /\ ended'[d] = ended[d]
  BY <1>3
<1>5. UNCHANGED <<tail, buffered, idOf, work, covers, recorded>> /\ UNCHANGED <<ask, cnt>>
  BY <1>2 DEF ExecuteAnswering, SyncResponse, history, QuietStep
<1>6. Prog = << >>
  BY DEF HostsOrder, HostsInv, AnswerInv
<1>7. UNCHANGED call \/ (Prog = << >> /\ Prog' = << >>)
  BY <1>6 DEF Prog
<1>8. PICK p, num, A, G, H : StepOf(p, num, A, G, H)
  BY <1>2, <1>4, <1>5, <1>7, QuietViews
<1>9. Registered /\ RegisteredAsks
  BY DEF HostsOrder, HostsInv, AnswerInv
<1>10. \A h \in Hosts : Caller(h)' => Caller(h) /\ call'.id = call.id /\ call'.next = call.next
  BY DEF Caller
<1>11. CASE e[1] # "Start" /\ e[2] \in DOMAIN syncing
  <2>1. PICK w, id, t : w = syncing[e[2]] /\ id = e[2] /\ t = queue[e][1]
    OBVIOUS
  <2>2. /\ hostState' = [hostState EXCEPT ![w] = "run"]
        /\ syncing' = Without(syncing, {id})
        /\ reply' = [reply EXCEPT ![w] = [ask[w] EXCEPT !.time = t]]
    BY <1>11, <2>1 DEF ExecuteAnswering, SyncResponse, Wake, Replied
  <2>3. /\ w \in Hosts /\ hostState[w] = "wait" /\ ask[w].id = id
        /\ id \in 0 .. cnt - 1 /\ NotFlow(id)
    BY <1>1, <1>9, <1>11, <2>1 DEF HostsTypes, Registered, RegisteredAsks
  <2>4. id \in DOMAIN ended' /\ t = ended'[id][2]
    BY <1>3, <1>11, <2>1
  <2>5. \A v \in ask[w].must : DoneBy(A[w], H, w, v, t)'
    BY <1>1, <1>8, <2>3, <2>4, AnsweredDone
  <2>6. ask[w].kind = "sync" => t >= ask[w].at
    <3>1. PICK u : u = ask[w].at
      OBVIOUS
    <3>2. ASSUME ask[w].kind = "sync"
          PROVE  t >= u
      <4>1. AskBounded(A[w], w)
        BY <1>8, <2>3 DEF StepOf, AnswerOrder
      <4>2. u \in Nat /\ NotBefore(id, u)
        BY <2>3, <3>1, <3>2, <4>1 DEF AskBounded
      <4>3. NotBefore(id, u)' /\ NotFlow(id)'
        BY <1>1, <1>2, <2>3, <4>2, QuietNotFlow DEF BoundsKept
      <4>4. QED
        BY <1>1, <2>4, <4>2, <4>3, EndsLaterNext
    <3>3. QED
      BY <3>1, <3>2
  <2>7. ReplyDone(A[w], H, w)' /\ \A h \in Hosts \ {w} : reply'[h] = reply[h]
    <3>1. PICK B : B = A[w]
      OBVIOUS
    <3>2. \A v \in ask[w].must : DoneBy(B, H, w, v, t)'
      BY <2>5, <3>1
    <3>3. ReplyDone(B, H, w)' /\ \A h \in Hosts \ {w} : reply'[h] = reply[h]
      BY <1>1, <2>2, <2>3, <2>6, <3>2, ReplyMade
    <3>4. QED
      BY <3>1, <3>3
  <2>8. RegisteredAsks'
    BY <1>5, <1>9, <2>2 DEF RegisteredAsks, Without
  <2>9. AskTypes'
    BY <1>1, <1>5, <2>2 DEF AskTypes
  <2>10. \A h \in Hosts : hostState'[h] = "wait" => hostState[h] = "wait"
    BY <1>1, <2>2 DEF HostsTypes
  <2>11. \A h \in Hosts : reply'[h] = reply[h] \/ ReplyDone(A[h], H, h)'
    BY <2>7
  <2>12. QED
    BY <1>2, <1>5, <1>8, <1>10, <2>8, <2>9, <2>10, <2>11, QuietOrder
<1>12. CASE ~ (e[1] # "Start" /\ e[2] \in DOMAIN syncing)
  <2>1. UNCHANGED <<hostState, reply, syncing>>
    BY <1>12 DEF ExecuteAnswering, hostVars, history
  <2>2. RegisteredAsks' /\ AskTypes'
    BY <1>1, <1>5, <1>9, <2>1 DEF RegisteredAsks, AskTypes
  <2>3. QED
    BY <1>2, <1>5, <1>8, <1>10, <2>1, <2>2, QuietOrder
<1>13. QED
  BY <1>11, <1>12

\* A handler that has nothing more to build goes on without the queue.
LEMMA GoOnOrder ==
  ASSUME HostsOrder, HostsInv', HistoryTypes', call # NoCall, Prog = << >>, UNCHANGED vars,
         UNCHANGED <<tail, buffered, idOf, work, covers, recorded>>, UNCHANGED ask,
         call' = NoCall \/ (call.phase # "toEvent" /\ \E x : call' = [call EXCEPT !.phase = x]),
         \/ UNCHANGED syncing
         \/ /\ syncing' = Put(syncing, call.id, call.host)
            /\ call.phase # "toEvent" /\ call.next # "return",
         \A h \in Hosts : hostState'[h] = "wait" => hostState[h] = "wait", DOMAIN reply' = Hosts,
         \A p, num, A, G, H : StepOf(p, num, A, G, H) =>
           \A h \in Hosts : reply'[h] = reply[h] \/ ReplyDone(A[h], H, h)'
  PROVE  HostsOrder'
<1>1. OrderInv /\ HostsTypes /\ AskTypes /\ call \in Handlers /\ RegisteredAsks
  BY DEF HostsOrder, HostsInv, HostsTypes
<1>2. QuietStep /\ BoundsKept /\ UNCHANGED <<cnt, ended>>
  BY <1>1, SameBounds
<1>3. \/ call' = NoCall
      \/ /\ call.phase # "toEvent" /\ call'.host = call.host /\ call'.prog = call.prog
         /\ call'.id = call.id /\ call'.next = call.next
  BY <1>1 DEF Handlers
<1>4. Prog' = << >>
  BY <1>3 DEF Prog
<1>5. PICK p, num, A, G, H : StepOf(p, num, A, G, H)
  BY <1>2, <1>4, QuietViews
<1>6. \A h \in Hosts : Caller(h)' => Caller(h) /\ call'.id = call.id /\ call'.next = call.next
  BY <1>3 DEF Caller
<1>7. RegisteredAsks'
  <2>1. CASE UNCHANGED syncing
    BY <1>1, <2>1 DEF RegisteredAsks
  <2>2. CASE /\ syncing' = Put(syncing, call.id, call.host)
             /\ call.phase # "toEvent" /\ call.next # "return"
    <3>1. call.host \in Hosts
      BY <1>1 DEF Handlers
    <3>2. CallerAsks(call.host) /\ Caller(call.host)
      BY <1>5, <2>2, <3>1 DEF StepOf, AnswerOrder, Caller
    <3>3. call.id = ask[call.host].id
      BY <2>2, <3>2 DEF CallerAsks
    <3>4. /\ DOMAIN syncing' = DOMAIN syncing \cup {call.id}
          /\ syncing'[call.id] = call.host
          /\ \A e \in DOMAIN syncing \ {call.id} : syncing'[e] = syncing[e]
      BY <2>2 DEF Put
    <3>5. QED
      BY <1>1, <3>3, <3>4 DEF RegisteredAsks
  <2>3. QED
    BY <2>1, <2>2
<1>8. AskTypes'
  BY <1>1 DEF AskTypes
<1>9. \A h \in Hosts : reply'[h] = reply[h] \/ ReplyDone(A[h], H, h)'
  BY <1>5
<1>10. QED
  BY <1>2, <1>5, <1>6, <1>7, <1>8, <1>9, QuietOrder

\* The caller is answered, with the time its event ended or as not ready; or its
\* stream has no events, and no work.
LEMMA ReplyOrder ==
  ASSUME HostsOrder, HostsInv', call # NoCall, call.phase = "reply", UNCHANGED ended, NEW t,
         reply' = [reply EXCEPT ![call.host] = [ask[call.host] EXCEPT !.time = t]],
         \/ call.id \in DOMAIN ended /\ t = ended[call.id][2]
         \/ call.id = None
         \/ t = NotReady,
         call.next \in {"eventSync", "query"},
         NEW p, NEW num, NEW A, NEW G, NEW H, StepOf(p, num, A, G, H)
  PROVE  \A h \in Hosts : reply'[h] = reply[h] \/ ReplyDone(A[h], H, h)'
<1>1. OrderInv /\ HostsTypes /\ AskTypes /\ OrderInv' /\ WaitersHeard
  BY DEF HostsOrder, HostsInv, AnswerInv
<1>2. PICK w, id, B : w = call.host /\ id = call.id /\ B = A[w]
  OBVIOUS
<1>3. w \in Hosts
  BY <1>1, <1>2 DEF HostsTypes, Handlers
<1>4. Caller(w) /\ hostState[w] = "wait"
  BY <1>1, <1>2, <1>3 DEF Caller, WaitersHeard
<1>5. AnswerOrder(B, G, w)
  BY <1>2, <1>3 DEF StepOf
<1>6. ask[w].id = id /\ ask[w].kind # "sync"
  BY <1>2, <1>4, <1>5 DEF AnswerOrder, CallerAsks
<1>7. t # NotReady => \A v \in ask[w].must : DoneBy(B, H, w, v, t)'
  <2>1. CASE id \in DOMAIN ended /\ t = ended[id][2]
    <3>1. id \in DOMAIN ended' /\ t = ended'[id][2]
      BY <2>1
    <3>2. \A v \in ask[w].must : DoneBy(A[w], H, w, v, t)'
      BY <1>1, <1>3, <1>4, <1>6, <3>1, AnsweredDone
    <3>3. QED
      BY <1>2, <3>2
  <2>2. CASE id = None
    <3>1. None \notin G.solid
      BY DEF StepOf, Views, Dag, None
    <3>2. \A v \in ask[w].must : CoveredAt(B, G, w, v, {None})
      BY <1>4, <1>5, <1>6, <2>2 DEF AnswerOrder, AskCovered
    <3>3. ask[w].must = {}
      BY <3>1, <3>2 DEF CoveredAt, Covered
    <3>4. QED
      BY <3>3
  <2>3. QED
    BY <1>2, <2>1, <2>2
<1>8. ReplyDone(B, H, w)' /\ \A h \in Hosts \ {w} : reply'[h] = reply[h]
  BY <1>1, <1>2, <1>3, <1>6, <1>7, ReplyMade
<1>9. ReplyDone(A[w], H, w)'
  BY <1>2, <1>8
<1>10. QED
  BY <1>8, <1>9

\* The handlers that carry out no operation.
LEMMA HandlerOrder ==
  ASSUME HostsOrder, HostsInv', HistoryTypes', Handler, ~ RunOp
  PROVE  HostsOrder'
<1>1. OrderInv /\ HostsTypes /\ AskTypes /\ NoCall.phase = "none"
  BY DEF HostsOrder, HostsInv, NoCall
<1>2. PICK p, num : p = Prog /\ BuildInv(p, num) /\ AnswerInv(p, num)
  BY DEF HostsOrder, HostsInv
<1>3. CASE QueueStep
  BY <1>3, QueueOrder DEF QueueStep
<1>4. CASE Proceed
  BY <1>4, QueueOrder DEF Proceed
<1>5. CASE Built
  <2>1. call # NoCall /\ Prog = << >> /\ call.phase = "build"
    BY <1>1, <1>5 DEF Built, InPhase, Prog
  <2>2. UNCHANGED vars /\ UNCHANGED <<tail, buffered, idOf, work, covers, recorded>>
        /\ UNCHANGED <<ask, reply, hostState>>
    BY <1>5 DEF Built, hostVars, history
  <2>3. call' = NoCall \/ (call.phase # "toEvent" /\ \E x : call' = [call EXCEPT !.phase = x])
    BY <1>5, <2>1 DEF Built, Return, Goto
  <2>4. \/ UNCHANGED syncing
        \/ /\ syncing' = Put(syncing, call.id, call.host)
           /\ call.phase # "toEvent" /\ call.next # "return"
    BY <1>5, <2>1 DEF Built
  <2>5. DOMAIN reply' = Hosts
    BY <1>1, <2>2 DEF AskTypes
  <2>6. QED
    BY <2>1, <2>2, <2>3, <2>4, <2>5, GoOnOrder
<1>6. CASE ExecuteToTime
  <2>1. call # NoCall /\ call.phase = "toTime"
    BY <1>1, <1>6 DEF ExecuteToTime, InPhase
  <2>2. Prog = << >>
    BY <1>2, <2>1 DEF AnswerInv
  <2>3. CASE \E e \in DOMAIN queue : BeforeUntil(e) /\ ExecuteAnswering(e) /\ UNCHANGED call
    BY <2>1, <2>3, ExecuteOrder
  <2>4. CASE /\ Goto("reply")
             /\ UNCHANGED <<vars, tail, buffered, idOf, syncing, waitings, hostVars, history>>
    <3>1. UNCHANGED vars /\ UNCHANGED <<tail, buffered, idOf, work, covers, recorded>>
          /\ UNCHANGED <<ask, reply, hostState>> /\ UNCHANGED syncing
      BY <2>4 DEF hostVars, history
    <3>2. DOMAIN reply' = Hosts
      BY <1>1, <3>1 DEF AskTypes
    <3>3. QED
      BY <2>1, <2>2, <2>4, <3>1, <3>2, GoOnOrder DEF Goto
  <2>5. QED
    BY <1>4, <1>6, <2>3, <2>4 DEF ExecuteToTime
<1>7. CASE ExecuteToEvent
  <2>1. call # NoCall /\ call.phase = "toEvent"
    BY <1>1, <1>7 DEF ExecuteToEvent, InPhase
  <2>2. Prog = << >>
    BY <1>2, <2>1 DEF AnswerInv
  <2>3. CASE \E e \in DOMAIN queue : ExecuteAnswering(e) /\ (Return \/ UNCHANGED call)
    BY <2>1, <2>3, ExecuteOrder DEF Return
  <2>4. CASE /\ Return
             /\ UNCHANGED <<vars, tail, buffered, idOf, syncing, waitings, hostVars, history>>
    <3>1. UNCHANGED vars /\ UNCHANGED <<tail, buffered, idOf, work, covers, recorded>>
          /\ UNCHANGED <<ask, reply, hostState>> /\ UNCHANGED syncing
      BY <2>4 DEF hostVars, history
    <3>2. DOMAIN reply' = Hosts
      BY <1>1, <3>1 DEF AskTypes
    <3>3. QED
      BY <2>1, <2>2, <2>4, <3>1, <3>2, GoOnOrder DEF Return
  <2>5. QED
    BY <1>4, <1>7, <2>3, <2>4 DEF ExecuteToEvent
<1>8. CASE ReplyEventSync
  <2>1. call # NoCall /\ call.phase = "reply" /\ call.next = "eventSync" /\ call.phase # "toEvent"
    BY <1>1, <1>8 DEF ReplyEventSync, InPhase
  <2>2. Prog = << >> /\ call.host \in Hosts
    BY <1>1, <1>2, <2>1 DEF AnswerInv, HostsTypes, Handlers
  <2>3. UNCHANGED vars /\ UNCHANGED ended /\ UNCHANGED <<tail, buffered, idOf>>
    BY <1>8 DEF ReplyEventSync, vars, queueVars
  <2>4. CASE call.id \in DOMAIN ended
    <3>1. PICK t : t = ended[call.id][2]
      OBVIOUS
    <3>2. /\ Return /\ UNCHANGED syncing
          /\ hostState' = [hostState EXCEPT ![call.host] = "run"]
          /\ reply' = [reply EXCEPT ![call.host] = [ask[call.host] EXCEPT !.time = t]]
          /\ UNCHANGED <<work, covers, recorded, ask>>
      BY <1>8, <2>4, <3>1 DEF ReplyEventSync, SyncResponse, Wake, Replied
    <3>3. \A q, m, A, G, H : StepOf(q, m, A, G, H) =>
            \A h \in Hosts : reply'[h] = reply[h] \/ ReplyDone(A[h], H, h)'
      BY <2>1, <2>3, <2>4, <3>1, <3>2, ReplyOrder
    <3>4. DOMAIN reply' = Hosts /\ \A h \in Hosts : hostState'[h] = "wait" => hostState[h] = "wait"
      BY <1>1, <2>2, <3>2 DEF AskTypes, HostsTypes
    <3>5. QED
      BY <2>1, <2>2, <2>3, <3>2, <3>3, <3>4, GoOnOrder DEF Return
  <2>5. CASE call.id \notin DOMAIN ended
    <3>1. /\ syncing' = Put(syncing, call.id, call.host) /\ call' = [call EXCEPT !.phase = "toEvent"]
          /\ UNCHANGED <<hostState, reply, ask>> /\ UNCHANGED <<work, covers, recorded>>
      BY <1>8, <2>5 DEF ReplyEventSync, Goto, hostVars, history
    <3>2. DOMAIN reply' = Hosts
      BY <1>1, <3>1 DEF AskTypes
    <3>3. QED
      BY <2>1, <2>2, <2>3, <3>1, <3>2, GoOnOrder
  <2>6. QED
    BY <2>4, <2>5
<1>9. CASE ReplyQuery
  <2>1. call # NoCall /\ call.phase = "reply" /\ call.next = "query" /\ call.phase # "toEvent"
    BY <1>1, <1>9 DEF ReplyQuery, InPhase
  <2>2. Prog = << >> /\ call.host \in Hosts
    BY <1>1, <1>2, <2>1 DEF AnswerInv, HostsTypes, Handlers
  <2>3. /\ UNCHANGED vars /\ UNCHANGED ended /\ UNCHANGED <<tail, buffered, idOf>>
        /\ UNCHANGED <<syncing, work, covers, recorded, ask>>
        /\ hostState' = [hostState EXCEPT ![call.host] = "run"] /\ call' = NoCall
    BY <1>9 DEF ReplyQuery, Wake, Return, vars, queueVars
  <2>4. PICK t : /\ reply' = [reply EXCEPT ![call.host] = [ask[call.host] EXCEPT !.time = t]]
                 /\ \/ call.id \in DOMAIN ended /\ t = ended[call.id][2]
                    \/ call.id = None
                    \/ t = NotReady
    BY <1>9 DEF ReplyQuery, Replied
  <2>5. \A q, m, A, G, H : StepOf(q, m, A, G, H) =>
          \A h \in Hosts : reply'[h] = reply[h] \/ ReplyDone(A[h], H, h)'
    BY <2>1, <2>3, <2>4, ReplyOrder
  <2>6. DOMAIN reply' = Hosts /\ \A h \in Hosts : hostState'[h] = "wait" => hostState[h] = "wait"
    BY <1>1, <2>2, <2>3, <2>4 DEF AskTypes, HostsTypes
  <2>7. QED
    BY <2>1, <2>2, <2>3, <2>5, <2>6, GoOnOrder
<1>10. QED
  BY <1>3, <1>5, <1>6, <1>7, <1>8, <1>9 DEF Handler

-----------------------------------------------------------------------------
(***************************************************************************)
(* The operations of a program.                                            *)
(***************************************************************************)

\* Piece of work x with event n.
WithEvent(x, n) == [x EXCEPT !.first = IF x.first = NotYet THEN n ELSE x.first, !.last = n]

\* A piece of work of host h gets event n, which was still to be added.
NotesEvent(A, B, h, n, o) ==
  /\ A = {<<n, o>>} \cup B
  /\ work'[h] = IF o.w \in DOMAIN work[h]
                THEN [work[h] EXCEPT ![o.w] = WithEvent(work[h][o.w], n)] ELSE work[h]

LEMMA AddedEvents ==
  ASSUME HistoryTypes, NEW h \in Hosts, BothEnds(h), NEW n \in Nat, NEW o, NEW A, NEW B,
         NotesEvent(A, B, h, n, o)
  PROVE  /\ KeepsEvents(A, B, h) /\ DOMAIN work'[h] = DOMAIN work[h]
         /\ \A w \in DOMAIN work[h] : EventsOf(B, h, w)' \subseteq EventsOf(A, h, w)
         /\ BothEnds(h)'
<1> DEFINE new == WithEvent(work[h][o.w], n)
<1>1. /\ \A w \in DOMAIN work[h] : work[h][w] \in Works
      /\ A = {<<n, o>>} \cup B
      /\ work'[h] = IF o.w \in DOMAIN work[h] THEN [work[h] EXCEPT ![o.w] = new] ELSE work[h]
  BY DEF HistoryTypes, NotesEvent
<1>2. n # NotYet
  BY DEF NotYet
<1>3. DOMAIN work'[h] = DOMAIN work[h]
  BY <1>1
<1>4. ASSUME NEW w \in DOMAIN work[h]
      PROVE  /\ work'[h][w].after = work[h][w].after
             /\ EventsOf(B, h, w)' \subseteq EventsOf(A, h, w)
             /\ EventsOf(A, h, w) # {} => EventsOf(B, h, w)' # {}
             /\ work'[h][w].first = NotYet <=> work'[h][w].last = NotYet
  <2>1. CASE w = o.w
    <3>1. work[h][w] \in Works /\ work'[h][w] = new
      BY <1>1, <2>1
    <3>2. /\ new.after = work[h][w].after /\ new.last = n
          /\ new.first = IF work[h][w].first = NotYet THEN n ELSE work[h][w].first
      BY <2>1, <3>1 DEF Works, WithEvent
    <3>3. n \in EventsOf(A, h, w)
      <4>1. <<n, o>> \in {x \in A : x[2].w = w}
        BY <1>1, <2>1
      <4>2. QED
        BY <4>1 DEF EventsOf
    <3>4. new.first # NotYet /\ new.first \in EventsOf(A, h, w)
      BY <1>2, <3>2, <3>3 DEF EventsOf
    <3>5. EventsOf(B, h, w)' = {new.first, n} \cup {x[1] : x \in {x \in B : x[2].w = w}}
      BY <1>2, <3>1, <3>2, <3>4 DEF EventsOf
    <3>6. {x[1] : x \in {x \in B : x[2].w = w}} \subseteq EventsOf(A, h, w)
      BY <1>1 DEF EventsOf
    <3>7. QED
      BY <1>2, <3>1, <3>2, <3>3, <3>4, <3>5, <3>6
  <2>2. CASE w # o.w
    <3>1. work'[h][w] = work[h][w]
      BY <1>1, <2>2
    <3>2. {x \in B : x[2].w = w} = {x \in A : x[2].w = w}
      BY <1>1, <2>2
    <3>3. EventsOf(B, h, w)' = EventsOf(A, h, w)
      BY <3>1, <3>2 DEF EventsOf
    <3>4. QED
      BY <3>1, <3>3 DEF BothEnds
  <2>3. QED
    BY <2>1, <2>2
<1>5. QED
  BY <1>3, <1>4 DEF KeepsEvents, BothEnds

\* What is left to add.
LEMMA SoonTail ==
  ASSUME NEW p, NEW n, NEW num, NEW q, NEW m, Follows(p, n, num, q, m), Len(p) \in Nat
  PROVE  Soon(p, num) = IF p[1].op = "add" THEN {<<n, p[1]>>} \cup Soon(q, m) ELSE Soon(q, m)
<1>1. /\ Len(q) \in Nat /\ Len(p) = Len(q) + 1 /\ num[1] = n
      /\ \A i \in 1 .. Len(q) : q[i] = p[i + 1] /\ m[i] = num[i + 1]
      /\ \A i \in 2 .. Len(p) : i - 1 \in 1 .. Len(q) /\ p[i] = q[i - 1] /\ num[i] = m[i - 1]
      /\ \A i \in 1 .. Len(p) : i = 1 \/ i \in 2 .. Len(p)
  BY DEF Follows
<1>2. ASSUME NEW x \in Soon(p, num)
      PROVE  x \in Soon(q, m) \/ (p[1].op = "add" /\ x = <<n, p[1]>>)
  <2>1. PICK i \in 1 .. Len(p) : p[i].op = "add" /\ x = <<num[i], p[i]>>
    BY <1>2 DEF Soon
  <2>2. CASE i = 1
    BY <1>1, <2>1, <2>2
  <2>3. CASE i \in 2 .. Len(p)
    <3>1. PICK j \in 1 .. Len(q) : j = i - 1
      BY <1>1, <2>3
    <3>2. q[j].op = "add" /\ x = <<m[j], q[j]>>
      BY <1>1, <2>1, <2>3, <3>1
    <3>3. QED
      BY <3>2 DEF Soon
  <2>4. QED
    BY <1>1, <2>2, <2>3
<1>3. ASSUME NEW x \in Soon(q, m)
      PROVE  x \in Soon(p, num)
  <2>1. PICK i \in 1 .. Len(q) : q[i].op = "add" /\ x = <<m[i], q[i]>>
    BY <1>3 DEF Soon
  <2>2. PICK j \in 1 .. Len(p) : j = i + 1
    BY <1>1
  <2>3. p[j].op = "add" /\ x = <<num[j], p[j]>>
    BY <1>1, <2>1, <2>2
  <2>4. QED
    BY <2>3 DEF Soon
<1>4. ASSUME p[1].op = "add"
      PROVE  <<n, p[1]>> \in Soon(p, num)
  <2>1. 1 \in 1 .. Len(p)
    BY <1>1
  <2>2. QED
    BY <1>1, <1>4, <2>1 DEF Soon
<1>5. QED
  BY <1>2, <1>3, <1>4

\* The program in progress, as the two invariants see it.
LEMMA SameProgram ==
  ASSUME HostsOrder, NEW p, NEW num, NEW A, NEW G, Views(p, num, A, G)
  PROVE  /\ p = Prog /\ p \in Seq(Operations) /\ Len(p) \in Nat /\ Numbered(p, cnt, num)
         /\ A = SoonOf(p, num) /\ G = Dag(p, num)
         /\ BuildInv(p, num) /\ AnswerInv(p, num)
<1>1. OrderInv /\ Prog \in Seq(Operations) /\ cnt \in Nat
  BY ProgType, HostsFacts DEF HostsOrder, HostsInv
<1>2. p = Prog /\ Numbered(p, cnt, num) /\ A = SoonOf(p, num) /\ G = Dag(p, num)
  BY DEF Views
<1>3. PICK m : BuildInv(p, m) /\ AnswerInv(p, m)
  BY <1>2 DEF HostsOrder, HostsInv
<1>4. Len(p) \in Nat
  BY <1>1, <1>2
<1>5. m = num
  <2>1. PICK n \in Nat : n = cnt
    BY <1>1
  <2>2. Numbered(p, n, m) /\ Numbered(p, n, num)
    BY <1>2, <1>3, <2>1 DEF BuildInv
  <2>3. QED
    BY <1>4, <2>2, NumbersSame
<1>6. QED
  BY <1>1, <1>2, <1>3, <1>4, <1>5

\* What RunOp notes of the work that an event is added for.
LEMMA RunOpWork ==
  ASSUME HistoryTypes, call.prog # << >>, NEW n, n = cnt, NEW c \in Hosts, c = call.host,
         NEW o, o = Head(call.prog), RunOp
  PROVE  /\ \A h \in Hosts \ {c} : work'[h] = work[h]
         /\ o.op # "add" => work'[c] = work[c]
         /\ o.op = "add" => work'[c] =
              IF o.w \in DOMAIN work[c]
              THEN [work[c] EXCEPT ![o.w] = WithEvent(work[c][o.w], n)] ELSE work[c]
<1>1. PICK k, q : k = o.w /\ q = work[c] /\ q \in Seq(Works)
  BY DEF HistoryTypes
<1>2. PICK new : new = WithEvent(q[k], n)
  OBVIOUS
<1>3. \/ o.op # "add" /\ UNCHANGED work
      \/ o.op = "add" /\ k = 0 /\ UNCHANGED work
      \/ o.op = "add" /\ work' = [work EXCEPT ![c][k] = new]
  <2>1. InQueue(work[c][k]) = new
    BY <1>1, <1>2 DEF InQueue, WithEvent
  <2>2. \/ o.op # "add" /\ UNCHANGED work
        \/ o.op = "add" /\ work' = IF k = 0 THEN work ELSE [work EXCEPT ![c][k] = InQueue(work[c][k])]
    BY <1>1 DEF RunOp
  <2>3. QED
    BY <2>1, <2>2
<1>4. 0 \notin DOMAIN q
  BY <1>1
<1>5. CASE UNCHANGED work /\ (o.op # "add" \/ k = 0)
  BY <1>1, <1>4, <1>5
<1>6. CASE o.op = "add" /\ work' = [work EXCEPT ![c][k] = new]
  <2>1. work' = [work EXCEPT ![c] = [q EXCEPT ![k] = new]]
    BY <1>1, <1>6
  <2>2. work'[c] = [q EXCEPT ![k] = new] /\ \A h \in Hosts \ {c} : work'[h] = work[h]
    BY <2>1 DEF HistoryTypes
  <2>3. k \notin DOMAIN q => [q EXCEPT ![k] = new] = q
    BY <1>1
  <2>4. QED
    BY <1>1, <1>2, <1>6, <2>2, <2>3
<1>7. QED
  BY <1>3, <1>5, <1>6

\* An operation is carried out.
LEMMA RunOpOrder ==
  ASSUME HostsOrder, HostsInv', HistoryTypes', RunOp
  PROVE  HostsOrder'
<1>1. OrderInv /\ NetInv /\ HostsTypes /\ HistoryTypes /\ AskTypes /\ RegisteredAsks /\ cnt \in Nat
  BY HostsFacts DEF HostsOrder, HostsInv
<1>2. PICK p, num, A, G : /\ Views(p, num, A, G)
                          /\ \A h \in Hosts : WorkOrder(A[h], G, h) /\ AnswerOrder(A[h], G, h)
  BY DEF HostsOrder
<1>3. /\ p = Prog /\ p \in Seq(Operations) /\ Len(p) \in Nat /\ Numbered(p, cnt, num)
      /\ A = SoonOf(p, num) /\ G = Dag(p, num)
      /\ BuildInv(p, num) /\ AnswerInv(p, num)
  BY <1>2, SameProgram
<1>4. call # NoCall /\ call \in Handlers /\ call.phase = "build"
  BY <1>1 DEF RunOp, InPhase, HostsTypes, NoCall
<1>5. p = call.prog /\ p # << >> /\ p[1] = Head(p) /\ p[1] \in Operations
  BY <1>3, <1>4 DEF Prog, RunOp
<1>6. PICK q, m, n, c, o, H : /\ q = Tail(p) /\ m = [i \in 1 .. Len(q) + 1 |-> num[i + 1]]
                              /\ n = cnt /\ c = call.host /\ o = p[1] /\ H = Dag(q, m)'
  OBVIOUS
<1>7. n \in Nat /\ c \in Hosts
  BY <1>1, <1>4, <1>6 DEF Handlers
<1>8. OpsKnown(p, num) /\ Follows(p, n, num, q, m)
  <2>1. OpsKnown(p, num) /\ Numbered(p, n, num)
    BY <1>3, <1>6 DEF BuildInv
  <2>2. QED
    BY <1>3, <1>5, <1>6, <1>7, <2>1, TailNumbered
<1>9. /\ UNCHANGED <<tail, buffered, idOf, syncing, waitings, hostState, covers, recorded, ask, reply>>
      /\ call' = [call EXCEPT !.prog = q]
  BY <1>5, <1>6 DEF RunOp, hostVars
<1>10. /\ call' # NoCall /\ call'.host = c /\ call'.prog = q
       /\ call'.phase = call.phase /\ call'.id = call.id /\ call'.next = call.next
  <2>1. /\ call'.host = c /\ call'.prog = q
        /\ call'.phase = call.phase /\ call'.id = call.id /\ call'.next = call.next
    BY <1>4, <1>6, <1>9 DEF Handlers
  <2>2. NoCall.phase = "none"
    BY DEF NoCall
  <2>3. QED
    BY <1>4, <2>1, <2>2
<1>11. /\ AnyNext /\ UNCHANGED ended /\ Numbered(q, cnt, m)'
       /\ \E gone : Grows(p, num, q, m, gone)
       /\ cnt' = IF o.op = "add" THEN n + 1 ELSE n
  <2>1. CASE o.op = "add" /\ AddActionOrPoint(o.deps, o.act, o.t)
    <3>1. AnyNext /\ UNCHANGED ended /\ cnt' = cnt + 1 /\ Grows(p, num, q, m, {})
      BY <1>1, <1>3, <1>5, <1>6, <1>8, <2>1, RunAdd
    <3>2. Numbered(q, n + 1, m)
      BY <1>6, <1>8, <2>1 DEF Follows
    <3>3. QED
      BY <1>6, <2>1, <3>1, <3>2
  <2>2. CASE \/ o.op = "edge" /\ AddDependency(o.id, o.dep)
             \/ o.op = "release" /\ RemoveNoneDependency(o.id)
    <3>1. AnyNext /\ UNCHANGED <<ended, cnt>> /\ GrowsTo(p, num, q, m)
      BY <1>1, <1>3, <1>5, <1>6, <1>9, <2>2, RunLink
    <3>2. Numbered(q, n, m)
      BY <1>6, <1>8, <2>2 DEF Follows
    <3>3. QED
      BY <1>6, <2>2, <3>1, <3>2 DEF GrowsTo
  <2>3. QED
    BY <1>5, <1>6, <2>1, <2>2 DEF RunOp
<1>12. BoundsKept
  BY <1>1, <1>11, NextOrderInv
<1>13. Within(G, H)
  BY <1>3, <1>6, <1>11, GrowsWithin
<1>14. PICK B : B = [h \in Hosts |-> IF h = c THEN Soon(q, m) ELSE {}]
  OBVIOUS
<1>15. Views(q, m, B, H)'
  <2>1. q = Prog'
    BY <1>10 DEF Prog
  <2>2. B = SoonOf(q, m)'
    BY <1>10, <1>14 DEF SoonOf, Soon
  <2>3. QED
    BY <1>6, <1>11, <2>1, <2>2 DEF Views
<1>16. /\ \A h \in Hosts \ {c} : A[h] = {} /\ B[h] = {}
       /\ A[c] = IF o.op = "add" THEN {<<n, o>>} \cup B[c] ELSE B[c]
  <2>1. A[c] = Soon(p, num) /\ B[c] = Soon(q, m)
    BY <1>3, <1>4, <1>6, <1>7, <1>14 DEF SoonOf
  <2>2. A[c] = IF o.op = "add" THEN {<<n, o>>} \cup B[c] ELSE B[c]
    <3>1. Soon(p, num) = IF p[1].op = "add" THEN {<<n, p[1]>>} \cup Soon(q, m) ELSE Soon(q, m)
      BY <1>3, <1>8, SoonTail
    <3>2. QED
      BY <1>6, <2>1, <3>1
  <2>3. \A h \in Hosts \ {c} : A[h] = {} /\ B[h] = {}
    BY <1>3, <1>6, <1>14 DEF SoonOf
  <2>4. QED
    BY <2>2, <2>3
<1>17. EndsStay(G)
  BY <1>11 DEF EndsStay
<1>18. ASSUME NEW h \in Hosts
       PROVE  WorkStays(A[h], B[h], h)
  <2>1. BothEnds(h)
    BY <1>2 DEF WorkOrder
  <2>2. /\ \A g \in Hosts \ {c} : work'[g] = work[g]
        /\ o.op # "add" => work'[c] = work[c]
        /\ o.op = "add" => work'[c] =
             IF o.w \in DOMAIN work[c]
             THEN [work[c] EXCEPT ![o.w] = WithEvent(work[c][o.w], n)] ELSE work[c]
    BY <1>1, <1>5, <1>6, <1>7, RunOpWork
  <2>3. CASE h # c \/ o.op # "add"
    <3>1. work'[h] = work[h] /\ A[h] = B[h]
      BY <1>16, <2>2, <2>3
    <3>2. PICK b : b = A[h]
      OBVIOUS
    <3>3. WorkStays(b, b, h)
      BY <1>9, <2>1, <3>1, SameWork
    <3>4. QED
      BY <3>1, <3>2, <3>3
  <2>4. CASE h = c /\ o.op = "add"
    <3>1. PICK a, b : a = A[h] /\ b = B[h]
      OBVIOUS
    <3>2. NotesEvent(a, b, h, n, o)
      BY <1>16, <2>2, <2>4, <3>1 DEF NotesEvent
    <3>3. /\ KeepsEvents(a, b, h) /\ DOMAIN work'[h] = DOMAIN work[h]
          /\ \A w \in DOMAIN work[h] : EventsOf(b, h, w)' \subseteq EventsOf(a, h, w)
          /\ BothEnds(h)'
      BY <1>1, <1>7, <2>1, <3>2, AddedEvents
    <3>4. WorkStays(a, b, h)
      BY <1>9, <3>3 DEF WorkStays
    <3>5. QED
      BY <3>1, <3>4
  <2>5. QED
    BY <2>3, <2>4
<1>19. ASSUME NEW h \in Hosts
       PROVE  WorkOrder(B[h], H, h)' /\ AnswerOrder(B[h], H, h)'
  <2>1. PICK a, b : a = A[h] /\ b = B[h]
    OBVIOUS
  <2>2. WorkStays(a, b, h) /\ WorkOrder(a, G, h) /\ AnswerOrder(a, G, h)
    BY <1>2, <1>18, <2>1
  <2>3. WorkOrder(b, H, h)'
    BY <1>13, <2>2, WorkKeeps
  <2>4. KeepsEvents(a, b, h)
    BY <2>2 DEF WorkStays
  <2>5. AskCovered(b, H, h)' /\ ReplyDone(b, H, h)'
    BY <1>9, <1>13, <1>17, <2>2, <2>4, AskKeeps, DoneKeeps DEF AnswerOrder
  <2>6. CallerAsks(h)'
    BY <1>4, <1>6, <1>9, <1>10, <2>2 DEF AnswerOrder, CallerAsks, Caller
  <2>7. AskBounded(b, h)'
    <3>1. ASSUME hostState[h] = "wait", ask[h].kind = "sync", NEW e, e = ask[h].id, NEW t, t = ask[h].at
          PROVE  /\ t \in Nat
                 /\ e \in 0 .. cnt' - 1 => NotBefore(e, t)'
                 /\ \A x \in b : x[1] = e => x[2].t = t
      <4>1. /\ t \in Nat
            /\ e \in 0 .. n - 1 => NotBefore(e, t)
            /\ \A x \in a : x[1] = e => x[2].t = t
        BY <1>6, <2>2, <3>1 DEF AnswerOrder, AskBounded
      <4>2. e \in 0 .. n - 1 => NotBefore(e, t)'
        BY <1>6, <1>12, <4>1 DEF BoundsKept
      <4>3. b \subseteq a
        BY <1>16, <2>1
      <4>4. ASSUME o.op = "add", e = n
            PROVE  NotBefore(e, t)'
        <5>1. h = c
          <6>1. ASSUME h # c
                PROVE  FALSE
            <7>1. ~ Caller(h)
              BY <1>6, <6>1 DEF Caller
            <7>2. PICK f \in DOMAIN syncing : syncing[f] = h
              BY <1>3, <3>1, <7>1 DEF AnswerInv, WaitersHeard
            <7>3. e = f /\ f \in 0 .. n - 1
              BY <1>1, <1>3, <1>6, <3>1, <7>2 DEF AnswerInv, Registered, RegisteredAsks
            <7>4. QED
              BY <1>7, <4>4, <7>3
          <6>2. QED
            BY <6>1
        <5>2. <<n, o>> \in a
          BY <1>16, <2>1, <4>4, <5>1
        <5>3. o.t = t
          BY <4>1, <4>4, <5>2
        <5>4. NotBefore(n, o.t)'
          <6>1. PICK d, x, u : d = o.deps /\ x = o.act /\ u = o.t
            OBVIOUS
          <6>2. d \in SUBSET (0 .. cnt - 1 \cup {NoneDep}) /\ x \in Actions /\ u \in Nat
            <7>1. 1 \in 1 .. Len(p) /\ num[1] = n
              BY <1>3, <1>6, <1>8 DEF Follows
            <7>2. d \subseteq 0 .. n - 1 \cup {NoneDep}
              BY <1>6, <1>8, <4>4, <6>1, <7>1 DEF OpsKnown
            <7>3. QED
              BY <1>5, <1>6, <4>4, <6>1, <7>2 DEF Operations
          <6>3. AddActionOrPoint(d, x, u)
            BY <1>5, <1>6, <4>4, <6>1 DEF RunOp
          <6>4. NotBefore(n, u)'
            BY <1>1, <1>6, <6>2, <6>3, AddTimes DEF OrderInv
          <6>5. u = t
            BY <5>3, <6>1
          <6>6. QED
            BY <5>3, <6>4, <6>5
        <5>5. QED
          BY <4>4, <5>3, <5>4
      <4>5. QED
        BY <1>7, <1>11, <4>1, <4>2, <4>3, <4>4
    <3>2. QED
      BY <1>9, <3>1 DEF AskBounded
  <2>8. AnswerOrder(b, H, h)'
    BY <2>5, <2>6, <2>7 DEF AnswerOrder
  <2>9. QED
    BY <2>1, <2>3, <2>8
<1>20. RegisteredAsks' /\ AskTypes'
  BY <1>1, <1>9 DEF RegisteredAsks, AskTypes
<1>21. QED
  BY <1>15, <1>19, <1>20 DEF HostsOrder

-----------------------------------------------------------------------------
(***************************************************************************)
(* The events of a program.                                                *)
(***************************************************************************)

\* Program p makes the next event k where it was n; A are the events it adds.
Carries(p, n, k, A) ==
  /\ p \in Seq(Operations)
  /\ \E num : Numbered(p, n, num) /\ num[Len(p) + 1] = k /\ A = Soon(p, num)

\* A program that only adds.
LEMMA CarriesAdds ==
  ASSUME NEW n \in Nat, NEW p, AddsFrom(p, n), NEW A, A = {<<n + i - 1, p[i]>> : i \in 1 .. Len(p)}
  PROVE  Carries(p, n, n + Len(p), A)
<1>1. PICK num : num = NumbersFrom(p, n)
  OBVIOUS
<1>2. /\ Numbered(p, n, num) /\ num[Len(p) + 1] = n + Len(p)
      /\ \A i \in 1 .. Len(p) : num[i] = n + i - 1
  BY <1>1, AddsNumbered
<1>3. p \in Seq(Operations) /\ \A i \in 1 .. Len(p) : p[i].op = "add"
  BY DEF AddsFrom
<1>4. Soon(p, num) = {<<num[i], p[i]>> : i \in 1 .. Len(p)}
  BY <1>3 DEF Soon
<1>5. A = Soon(p, num)
  BY <1>2, <1>4
<1>6. QED
  BY <1>2, <1>3, <1>5 DEF Carries

\* One that adds nothing.
LEMMA CarriesNone ==
  ASSUME NEW n \in Nat, NEW p \in Seq(Operations), \A i \in 1 .. Len(p) : p[i].op # "add"
  PROVE  Carries(p, n, n, {})
<1>1. Len(p) \in Nat
  OBVIOUS
<1>2. PICK num : num = [i \in 1 .. Len(p) + 1 |-> n]
  OBVIOUS
<1>3. /\ num \in [1 .. Len(p) + 1 -> Nat] /\ num[1] = n /\ num[Len(p) + 1] = n
      /\ \A i \in 1 .. Len(p) : num[i + 1] = num[i]
  BY <1>1, <1>2
<1>4. Numbered(p, n, num)
  BY <1>3 DEF Numbered
<1>5. Soon(p, num) = {}
  BY DEF Soon
<1>6. QED
  BY <1>3, <1>4, <1>5 DEF Carries

\* One operation.
LEMMA CarriesAdd ==
  ASSUME NEW n \in Nat, NEW o \in Operations, o.op = "add"
  PROVE  Carries(<<o>>, n, n + 1, {<<n, o>>})
<1>1. PICK p : p = <<o>>
  OBVIOUS
<1>2. p \in Seq(Operations) /\ Len(p) = 1 /\ p[1] = o
  BY <1>1
<1>3. PICK num : num = [i \in 1 .. 2 |-> IF i = 1 THEN n ELSE n + 1]
  OBVIOUS
<1>4. num \in [1 .. 2 -> Nat] /\ num[1] = n /\ num[2] = n + 1
  BY <1>3
<1>5. Len(p) + 1 = 2 /\ 1 .. Len(p) = {1} /\ 1 + 1 = 2
  BY <1>2
<1>6. Numbered(p, n, num)
  BY <1>2, <1>4, <1>5 DEF Numbered
<1>7. Soon(p, num) = {<<n, o>>}
  BY <1>2, <1>4, <1>5 DEF Soon
<1>8. QED
  BY <1>1, <1>2, <1>4, <1>5, <1>6, <1>7 DEF Carries

\* Two programs after each other.
LEMMA CarriesBoth ==
  ASSUME NEW n \in Nat, NEW k \in Nat, NEW m \in Nat, NEW p, NEW q, NEW A, NEW B,
         Carries(p, n, k, A), Carries(q, k, m, B)
  PROVE  Carries(p \o q, n, m, A \cup B)
<1>1. p \in Seq(Operations) /\ Len(p) \in Nat /\ q \in Seq(Operations) /\ Len(q) \in Nat
  BY DEF Carries
<1>2. PICK a : Numbered(p, n, a) /\ a[Len(p) + 1] = k /\ A = Soon(p, a)
  BY DEF Carries
<1>3. PICK b : Numbered(q, k, b) /\ b[Len(q) + 1] = m /\ B = Soon(q, b)
  BY DEF Carries
<1>4. PICK r : r = p \o q
  OBVIOUS
<1>5. /\ r \in Seq(Operations) /\ Len(r) = Len(p) + Len(q)
      /\ \A i \in 1 .. Len(p) : i \in 1 .. Len(r) /\ r[i] = p[i]
      /\ \A i \in 1 .. Len(r) : i > Len(p) => i - Len(p) \in 1 .. Len(q) /\ r[i] = q[i - Len(p)]
  BY <1>1, <1>4
<1>6. PICK num : num = [i \in 1 .. Len(r) + 1 |-> IF i <= Len(p) THEN a[i] ELSE b[i - Len(p)]]
  OBVIOUS
<1>7. /\ a \in [1 .. Len(p) + 1 -> Nat] /\ a[1] = n
      /\ b \in [1 .. Len(q) + 1 -> Nat] /\ b[1] = k
      /\ \A i \in 1 .. Len(p) : a[i + 1] = IF p[i].op = "add" THEN a[i] + 1 ELSE a[i]
      /\ \A i \in 1 .. Len(q) : b[i + 1] = IF q[i].op = "add" THEN b[i] + 1 ELSE b[i]
  BY <1>2, <1>3 DEF Numbered
<1>8. /\ \A i \in 1 .. Len(p) + 1 : num[i] = a[i]
      /\ \A i \in 1 .. Len(q) + 1 : num[Len(p) + i] = b[i]
  <2>1. ASSUME NEW i \in 1 .. Len(p) + 1 PROVE num[i] = a[i]
    <3>1. i \in 1 .. Len(r) + 1
      BY <1>1, <1>5
    <3>2. CASE i <= Len(p)
      BY <1>6, <3>1, <3>2
    <3>3. CASE ~ (i <= Len(p))
      <4>1. i = Len(p) + 1 /\ i - Len(p) = 1
        BY <1>1, <3>3
      <4>2. QED
        BY <1>2, <1>6, <1>7, <3>1, <3>3, <4>1
    <3>4. QED
      BY <3>2, <3>3
  <2>2. ASSUME NEW i \in 1 .. Len(q) + 1 PROVE num[Len(p) + i] = b[i]
    <3>1. Len(p) + i \in 1 .. Len(r) + 1 /\ ~ (Len(p) + i <= Len(p)) /\ (Len(p) + i) - Len(p) = i
      BY <1>1, <1>5
    <3>2. QED
      BY <1>6, <3>1
  <2>3. QED
    BY <2>1, <2>2
<1>9. num \in [1 .. Len(r) + 1 -> Nat]
  <2>1. ASSUME NEW i \in 1 .. Len(r) + 1
        PROVE  (IF i <= Len(p) THEN a[i] ELSE b[i - Len(p)]) \in Nat
    <3>1. CASE i <= Len(p)
      <4>1. i \in 1 .. Len(p) + 1
        BY <1>1, <3>1
      <4>2. QED
        BY <1>7, <3>1, <4>1
    <3>2. CASE ~ (i <= Len(p))
      <4>1. i - Len(p) \in 1 .. Len(q) + 1
        BY <1>1, <1>5, <3>2
      <4>2. QED
        BY <1>7, <3>2, <4>1
    <3>3. QED
      BY <3>1, <3>2
  <2>2. QED
    BY <1>6, <2>1
<1>10. \A i \in 1 .. Len(q) : Len(p) + i \in 1 .. Len(r) /\ r[Len(p) + i] = q[i]
  <2>1. \A i \in 1 .. Len(q) : /\ Len(p) + i \in 1 .. Len(r) /\ Len(p) + i > Len(p)
                               /\ (Len(p) + i) - Len(p) = i
    BY <1>1, <1>5
  <2>2. QED
    BY <1>5, <2>1
<1>11. ASSUME NEW i \in 1 .. Len(r)
       PROVE  num[i + 1] = IF r[i].op = "add" THEN num[i] + 1 ELSE num[i]
  <2>1. CASE i \in 1 .. Len(p)
    <3>1. i + 1 \in 1 .. Len(p) + 1 /\ i \in 1 .. Len(p) + 1
      BY <1>1, <2>1
    <3>2. num[i + 1] = a[i + 1] /\ num[i] = a[i] /\ r[i] = p[i]
      BY <1>5, <1>8, <2>1, <3>1
    <3>3. QED
      BY <1>7, <2>1, <3>2
  <2>2. CASE i > Len(p)
    <3>1. PICK j \in 1 .. Len(q) : j = i - Len(p) /\ r[i] = q[j]
      BY <1>5, <2>2
    <3>2. j + 1 \in 1 .. Len(q) + 1 /\ j \in 1 .. Len(q) + 1 /\ Len(p) + j = i /\ Len(p) + (j + 1) = i + 1
      BY <1>1, <3>1
    <3>3. num[i] = b[j] /\ num[i + 1] = b[j + 1]
      BY <1>8, <3>2
    <3>4. QED
      BY <1>7, <3>1, <3>3
  <2>3. QED
    BY <1>1, <1>5, <2>1, <2>2
<1>12. num[1] = n /\ num[Len(r) + 1] = m
  <2>1. 1 \in 1 .. Len(p) + 1 /\ Len(q) + 1 \in 1 .. Len(q) + 1 /\ Len(r) + 1 = Len(p) + (Len(q) + 1)
    BY <1>1, <1>5
  <2>2. QED
    BY <1>3, <1>7, <1>8, <2>1
<1>13. Numbered(r, n, num)
  BY <1>9, <1>11, <1>12 DEF Numbered
<1>14. Soon(r, num) = A \cup B
  <2>1. ASSUME NEW x \in Soon(r, num)
        PROVE  x \in A \cup B
    <3>1. PICK i \in 1 .. Len(r) : r[i].op = "add" /\ x = <<num[i], r[i]>>
      BY <2>1 DEF Soon
    <3>2. CASE i \in 1 .. Len(p)
      <4>1. i \in 1 .. Len(p) + 1
        BY <1>1, <3>2
      <4>2. p[i].op = "add" /\ x = <<a[i], p[i]>>
        BY <1>5, <1>8, <3>1, <3>2, <4>1
      <4>3. QED
        BY <1>2, <3>2, <4>2 DEF Soon
    <3>3. CASE i > Len(p)
      <4>1. PICK j \in 1 .. Len(q) : j = i - Len(p) /\ r[i] = q[j]
        BY <1>5, <3>3
      <4>2. j \in 1 .. Len(q) + 1 /\ Len(p) + j = i
        BY <1>1, <4>1
      <4>3. q[j].op = "add" /\ x = <<b[j], q[j]>>
        BY <1>8, <3>1, <4>1, <4>2
      <4>4. QED
        BY <1>3, <4>3 DEF Soon
    <3>4. QED
      BY <1>1, <1>5, <3>2, <3>3
  <2>2. ASSUME NEW x \in A
        PROVE  x \in Soon(r, num)
    <3>1. PICK i \in 1 .. Len(p) : p[i].op = "add" /\ x = <<a[i], p[i]>>
      BY <1>2, <2>2 DEF Soon
    <3>2. i \in 1 .. Len(p) + 1
      BY <1>1
    <3>3. i \in 1 .. Len(r) /\ r[i].op = "add" /\ x = <<num[i], r[i]>>
      BY <1>5, <1>8, <3>1, <3>2
    <3>4. QED
      BY <3>3 DEF Soon
  <2>3. ASSUME NEW x \in B
        PROVE  x \in Soon(r, num)
    <3>1. PICK i \in 1 .. Len(q) : q[i].op = "add" /\ x = <<b[i], q[i]>>
      BY <1>3, <2>3 DEF Soon
    <3>2. i \in 1 .. Len(q) + 1
      BY <1>1
    <3>3. PICK j : j = Len(p) + i
      OBVIOUS
    <3>4. j \in 1 .. Len(r) /\ r[j].op = "add" /\ x = <<num[j], r[j]>>
      BY <1>8, <1>10, <3>1, <3>2, <3>3
    <3>5. QED
      BY <3>4 DEF Soon
  <2>4. QED
    BY <2>1, <2>2, <2>3
<1>15. QED
  BY <1>4, <1>5, <1>12, <1>13, <1>14 DEF Carries

\* In the graph of a program are the events it adds, but its flows, and what they
\* depend on.
Holds(H, B) ==
  \A x \in B : /\ x[2].act.kind # "comm" => x[1] \in H.solid
               /\ \A d \in x[2].deps \cap Nat : <<d, x[1]>> \in H.edges

\* A call has been made whose program is p; before it the graph was G.
Begun(p, B, G, H) ==
  /\ \E num : Numbered(p, cnt, num)' /\ B = Soon(p, num) /\ H = Dag(p, num)'
  /\ Within(G, H) /\ Holds(H, B) /\ EndsStay(G)
  /\ \A h \in Hosts : WorkOrder({}, G, h) /\ AnswerOrder({}, G, h)

LEMMA CallBegins ==
  ASSUME HostsOrder, call = NoCall, UNCHANGED vars, NEW n, n = cnt,
         NEW p, NEW k, NEW B, Carries(p, n, k, B)
  PROVE  \E G, H : Begun(p, B, G, H)
<1>1. OrderInv /\ n \in Nat /\ cnt' = n /\ ended' = ended
  BY HostsFacts DEF HostsOrder, HostsInv, vars, queueVars
<1>2. PICK q, pre, A, G : /\ Views(q, pre, A, G)
                          /\ \A h \in Hosts : WorkOrder(A[h], G, h) /\ AnswerOrder(A[h], G, h)
  BY DEF HostsOrder
<1>3. q = << >> /\ G = Dag(q, pre) /\ A = SoonOf(q, pre)
  BY <1>2 DEF Views, Prog
<1>4. \A h \in Hosts : A[h] = {}
  BY <1>3, SoonEmpty
<1>5. \A h \in Hosts : WorkOrder({}, G, h) /\ AnswerOrder({}, G, h)
  BY <1>2, <1>4
<1>6. p \in Seq(Operations) /\ Len(p) \in Nat
  BY DEF Carries
<1>7. PICK num : Numbered(p, n, num) /\ B = Soon(p, num)
  BY DEF Carries
<1>8. PICK H, gone : H = Dag(p, num)' /\ gone = {}
  OBVIOUS
<1>9. Grows(q, pre, p, num, gone)
  BY <1>1, <1>3, <1>8, CallGrows
<1>10. Within(G, H)
  BY <1>3, <1>8, <1>9, GrowsWithin
<1>11. Holds(H, B)
  <2>1. ASSUME NEW x \in B
        PROVE  /\ x[2].act.kind # "comm" => x[1] \in H.solid
               /\ \A d \in x[2].deps \cap Nat : <<d, x[1]>> \in H.edges
    <3>1. PICK i \in 1 .. Len(p) : p[i].op = "add" /\ x[1] = num[i] /\ x[2] = p[i]
      BY <1>7, <2>1 DEF Soon
    <3>2. num[i] \in Nat
      BY <1>6, <1>7 DEF Numbered
    <3>3. x[2].act.kind # "comm" => Plain(p, num, x[1])'
      BY <3>1 DEF Plain
    <3>4. \A d \in x[2].deps \cap Nat : Edge(p, num, d, x[1])'
      BY <3>1 DEF Edge
    <3>5. QED
      BY <1>8, <3>1, <3>2, <3>3, <3>4 DEF Dag
  <2>2. QED
    BY <2>1 DEF Holds
<1>12. EndsStay(G)
  BY <1>1 DEF EndsStay
<1>13. Numbered(p, cnt, num)'
  BY <1>1, <1>7
<1>14. Begun(p, B, G, H)
  BY <1>5, <1>7, <1>8, <1>10, <1>11, <1>12, <1>13 DEF Begun
<1>15. QED
  BY <1>14

-----------------------------------------------------------------------------
(***************************************************************************)
(* What a call flushes, seen before the call: B are the events its program *)
(* adds, to work that was in the buffers and to new work.                  *)
(***************************************************************************)

\* The events of stream s's buffered calls, from base on.
FlushPairs(h, s, base) == {<<base + i - 1, FlushOps(h, s, base)[i]>> : i \in DOMAIN buffered[h][s]}

\* The streams in S are flushed, from bs[s] on.
Flushes(B, h, S, bs) ==
  /\ S \subseteq Streams /\ \A s \in S : bs[s] \in Nat /\ FlushPairs(h, s, bs[s]) \subseteq B
  /\ \A x \in B : x[2].w \in DOMAIN work[h] => \E s \in S : x \in FlushPairs(h, s, bs[s])

InBuffer(h, s, v) == \E i \in DOMAIN buffered[h][s] : buffered[h][s][i].w = v

\* The streams' last events then.
LastEvents(h, S, bs, last) ==
  \A s \in Streams : last[s] = IF s \in S THEN TailAfter(h, s, bs[s]) ELSE tail[h][s]

\* What is in no buffer then is covered by the streams' last events.
FlushedOrder(B, H, h, S, last) ==
  /\ \A v \in DOMAIN work[h] : EventsOf({}, h, v) # {} => EventsOf(B, h, v) = EventsOf({}, h, v)
  /\ \A s \in Streams : \A v \in covers[h][s] :
       (s \notin S /\ InBuffer(h, s, v)) \/ CoveredAt(B, H, h, v, last[s])
  /\ \A s \in Streams \ S : \A i \in DOMAIN buffered[h][s] :
       LET w == buffered[h][s][i].w IN
       /\ w \in DOMAIN work[h] /\ EventsOf(B, h, w) = {}
       /\ \A v \in work[h][w].after : BufferedBefore(h, s, i, v) \/ CoveredAt(B, H, h, v, last[s])
  /\ BuffersApart(h) /\ WorkWaits(B, H, h) /\ BothEnds(h) /\ RecordsCovered(B, H, h)

\* The operation for a buffered call.
FlushedCall(o, h, s, base, i) ==
  /\ o.w = buffered[h][s][i].w /\ o.act.kind = "comp"
  /\ i = 1 => o.deps = tail[h][s]
  /\ i # 1 => o.deps = {base + i - 2}
  /\ tail[h][s] \subseteq Nat

LEMMA FlushOp ==
  ASSUME HostsTypes, NEW h \in Hosts, NEW s \in Streams, NEW base \in Nat,
         NEW i \in DOMAIN buffered[h][s], NEW o, o = FlushOps(h, s, base)[i]
  PROVE  FlushedCall(o, h, s, base, i)
<1>1. PICK buf : buf = buffered[h][s] /\ buf \in Seq(BufferedCalls)
  BY DEF HostsTypes
<1>2. i \in 1 .. Len(buf)
  BY <1>1
<1>3. PICK deps, act : deps = (IF i = 1 THEN tail[h][s] ELSE {base + i - 2}) /\ act = Comp(buf[i].dur)
  OBVIOUS
<1>4. o = AddOp(deps, act, buf[i].t, buf[i].w)
  BY <1>1, <1>2, <1>3 DEF FlushOps
<1>5. o.w = buf[i].w /\ o.act = act /\ o.deps = deps
  BY <1>4 DEF AddOp
<1>6. act.kind = "comp"
  BY <1>3 DEF Comp
<1>7. QED
  BY <1>1, <1>3, <1>5, <1>6 DEF HostsTypes, FlushedCall

\* They follow each other, and the stream's last event before.
LEMMA FlushChain ==
  ASSUME HostsTypes, NEW h \in Hosts, NEW s \in Streams, NEW base \in Nat, NEW H, NEW B, Holds(H, B),
         FlushPairs(h, s, base) \subseteq B, NEW n, n = Len(buffered[h][s])
  PROVE  n \in Nat /\ DOMAIN buffered[h][s] = 1 .. n /\ Chain(H, tail[h][s], base, n)
<1>1. n \in Nat /\ DOMAIN buffered[h][s] = 1 .. n
  <2>1. buffered[h][s] \in Seq(BufferedCalls)
    BY DEF HostsTypes
  <2>2. QED
    BY <2>1
<1>2. ASSUME NEW i \in 1 .. n
      PROVE  /\ base + i - 1 \in H.solid
             /\ i # 1 => <<base + i - 2, base + i - 1>> \in H.edges
             /\ i = 1 => \A e \in tail[h][s] : <<e, base>> \in H.edges
  <2>1. PICK o, x : o = FlushOps(h, s, base)[i] /\ x = <<base + i - 1, o>>
    OBVIOUS
  <2>2. x \in B /\ x[1] = base + i - 1 /\ x[2] = o
    BY <1>1, <2>1 DEF FlushPairs
  <2>3. /\ o.act.kind = "comp" /\ tail[h][s] \subseteq Nat
        /\ o.deps = IF i = 1 THEN tail[h][s] ELSE {base + i - 2}
    <3>1. FlushedCall(o, h, s, base, i)
      BY <1>1, <2>1, FlushOp
    <3>2. QED
      BY <3>1 DEF FlushedCall
  <2>4. x[1] \in H.solid /\ \A d \in o.deps \cap Nat : <<d, x[1]>> \in H.edges
    BY <2>2, <2>3 DEF Holds
  <2>5. CASE i = 1
    BY <2>2, <2>3, <2>4, <2>5
  <2>6. CASE i # 1
    <3>1. base + i - 2 \in Nat
      BY <2>6
    <3>2. base + i - 2 \in o.deps \cap Nat
      BY <2>3, <2>6, <3>1
    <3>3. QED
      BY <2>2, <2>4, <2>6, <3>2
  <2>7. QED
    BY <2>5, <2>6
<1>3. Chain(H, tail[h][s], base, n)
  <2>1. n > 0 => 1 \in 1 .. n
    BY <1>1
  <2>2. \A i \in 2 .. n : i \in 1 .. n /\ i # 1
    BY <1>1
  <2>3. QED
    BY <1>2, <2>1, <2>2 DEF Chain
<1>4. QED
  BY <1>1, <1>3

\* Work that was buffered gets its one event, or none; other work has no new one.
LEMMA FlushEvents ==
  ASSUME HostsTypes, NEW h \in Hosts, NEW B, NEW S, NEW bs, Flushes(B, h, S, bs), NEW G,
         BuffersWait({}, G, h), BuffersApart(h)
  PROVE  /\ \A v \in DOMAIN work[h] :
              EventsOf({}, h, v) # {} => EventsOf(B, h, v) = EventsOf({}, h, v)
         /\ \A s \in S : \A i \in DOMAIN buffered[h][s] :
              EventsOf(B, h, buffered[h][s][i].w) = {bs[s] + i - 1}
         /\ \A s \in Streams \ S : \A i \in DOMAIN buffered[h][s] :
              EventsOf(B, h, buffered[h][s][i].w) = {}
<1>1. ASSUME NEW v \in DOMAIN work[h], NEW x \in B, x[2].w = v
      PROVE  \E s \in S : \E i \in DOMAIN buffered[h][s] :
               s \in Streams /\ x[1] = bs[s] + i - 1 /\ buffered[h][s][i].w = v
  <2>1. PICK s \in S : s \in Streams /\ bs[s] \in Nat /\ x \in FlushPairs(h, s, bs[s])
    BY <1>1 DEF Flushes
  <2>2. PICK b \in Nat : b = bs[s]
    BY <2>1
  <2>3. PICK i \in DOMAIN buffered[h][s] : x = <<b + i - 1, FlushOps(h, s, b)[i]>>
    BY <2>1, <2>2 DEF FlushPairs
  <2>4. PICK o : o = FlushOps(h, s, b)[i]
    OBVIOUS
  <2>5. o.w = buffered[h][s][i].w
    BY <2>1, <2>2, <2>3, <2>4, FlushOp DEF FlushedCall
  <2>6. QED
    BY <1>1, <2>1, <2>2, <2>3, <2>4, <2>5
<1>2. \A s \in Streams : \A i \in DOMAIN buffered[h][s] :
        buffered[h][s][i].w \in DOMAIN work[h] /\ EventsOf({}, h, buffered[h][s][i].w) = {}
  BY DEF BuffersWait
<1>3. \A v : EventsOf(B, h, v) = EventsOf({}, h, v) \cup {x[1] : x \in {x \in B : x[2].w = v}}
  BY DEF EventsOf
<1>4. ASSUME NEW v \in DOMAIN work[h], EventsOf({}, h, v) # {}
      PROVE  EventsOf(B, h, v) = EventsOf({}, h, v)
  <2>1. {x \in B : x[2].w = v} = {}
    BY <1>1, <1>2, <1>4
  <2>2. QED
    BY <1>3, <2>1
<1>5. ASSUME NEW s \in S, NEW i \in DOMAIN buffered[h][s]
      PROVE  EventsOf(B, h, buffered[h][s][i].w) = {bs[s] + i - 1}
  <2>1. PICK v, b, e : v = buffered[h][s][i].w /\ b = bs[s] /\ e = b + i - 1
    OBVIOUS
  <2>2. s \in Streams /\ b \in Nat /\ FlushPairs(h, s, b) \subseteq B
    BY <2>1 DEF Flushes
  <2>3. v \in DOMAIN work[h] /\ EventsOf({}, h, v) = {}
    BY <1>2, <2>1, <2>2
  <2>4. ASSUME NEW x \in B, x[2].w = v
        PROVE  x[1] = e
    <3>1. PICK r \in S : \E j \in DOMAIN buffered[h][r] :
            r \in Streams /\ x[1] = bs[r] + j - 1 /\ buffered[h][r][j].w = v
      BY <1>1, <2>3, <2>4
    <3>2. PICK j \in DOMAIN buffered[h][r] :
            r \in Streams /\ x[1] = bs[r] + j - 1 /\ buffered[h][r][j].w = v
      BY <3>1
    <3>4. r = s /\ j = i
      BY <2>1, <2>2, <3>2 DEF BuffersApart
    <3>3. QED
      BY <2>1, <3>2, <3>4
  <2>5. \E x \in B : x[2].w = v /\ x[1] = e
    <3>1. PICK o, x : o = FlushOps(h, s, b)[i] /\ x = <<e, o>>
      OBVIOUS
    <3>2. o.w = v
      <4>1. FlushedCall(o, h, s, b, i)
        BY <2>1, <2>2, <3>1, FlushOp
      <4>2. QED
        BY <2>1, <4>1 DEF FlushedCall
    <3>3. x \in FlushPairs(h, s, b)
      BY <2>1, <3>1 DEF FlushPairs
    <3>4. QED
      BY <2>2, <3>1, <3>2, <3>3
  <2>6. {x[1] : x \in {x \in B : x[2].w = v}} = {e}
    BY <2>4, <2>5
  <2>7. EventsOf(B, h, v) = {e}
    BY <1>3, <2>3, <2>6
  <2>8. QED
    BY <2>1, <2>7
<1>6. ASSUME NEW s \in Streams \ S, NEW i \in DOMAIN buffered[h][s]
      PROVE  EventsOf(B, h, buffered[h][s][i].w) = {}
  <2>1. PICK v : v = buffered[h][s][i].w
    OBVIOUS
  <2>2. v \in DOMAIN work[h] /\ EventsOf({}, h, v) = {}
    BY <1>2, <2>1
  <2>3. ASSUME NEW x \in B, x[2].w = v
        PROVE  FALSE
    <3>1. PICK r \in S : r \in Streams /\ \E j \in DOMAIN buffered[h][r] : buffered[h][r][j].w = v
      BY <1>1, <2>2, <2>3
    <3>2. r = s
      BY <2>1, <3>1 DEF BuffersApart
    <3>3. QED
      BY <3>1, <3>2
  <2>4. {x[1] : x \in {x \in B : x[2].w = v}} = {}
    BY <2>3
  <2>5. EventsOf(B, h, v) = {}
    BY <1>3, <2>2, <2>4
  <2>6. QED
    BY <2>1, <2>5
<1>7. QED
  BY <1>4, <1>5, <1>6

\* What was covered is.
LEMMA CoveredOld ==
  ASSUME NEW B, NEW G, NEW H, NEW h, Within(G, H),
         \A v \in DOMAIN work[h] : EventsOf({}, h, v) # {} => EventsOf(B, h, v) = EventsOf({}, h, v),
         NEW v, NEW T, CoveredAt({}, G, h, v, T)
  PROVE  CoveredAt(B, H, h, v, T)
<1>1. v \in DOMAIN work[h] /\ T # {} /\ \A e \in T : Covered(G, EventsOf({}, h, v), e)
  BY DEF CoveredAt
<1>2. PICK D : D = EventsOf({}, h, v)
  OBVIOUS
<1>3. D # {}
  BY <1>1, <1>2 DEF Covered
<1>4. EventsOf(B, h, v) = D
  BY <1>1, <1>2, <1>3
<1>5. \A e \in T : Covered(H, D, e)
  BY <1>1, <1>2, <1>3, CoveredWithin
<1>6. QED
  BY <1>1, <1>4, <1>5 DEF CoveredAt

\* What the last event of a stream covered, the stream's flushed calls cover and
\* wait for.
LEMMA CoveredChain ==
  ASSUME NEW B, NEW H, NEW h, NEW v, NEW T, CoveredAt(B, H, h, v, T),
         NEW base \in Nat, NEW n \in Nat, Chain(H, T, base, n), NEW j \in 1 .. n
  PROVE  Covered(H, EventsOf(B, h, v), base + j - 1) /\ Waits(H, EventsOf(B, h, v), base + j - 1)
<1>1. PICK e \in T : Covered(H, EventsOf(B, h, v), e)
  BY DEF CoveredAt
<1>2. PICK D : D = EventsOf(B, h, v)
  OBVIOUS
<1>3. Covered(H, D, base + j - 1) /\ Waits(H, D, base + j - 1)
  BY <1>1, <1>2, ChainCovers
<1>4. QED
  BY <1>2, <1>3

\* Work v comes before stream s, whose buffered calls will be the events from base.
StreamBefore(B, H, h, s, base, v) ==
  /\ (InBuffer(h, s, v) /\ v \in DOMAIN work[h]) \/ CoveredAt(B, H, h, v, tail[h][s])
  /\ \A i \in DOMAIN buffered[h][s] : EventsOf(B, h, buffered[h][s][i].w) = {base + i - 1}

\* A stream that is flushed: its last event covers what comes before it.
LEMMA FlushedStream ==
  ASSUME HostsTypes, NEW h \in Hosts, NEW s \in Streams, NEW base \in Nat, NEW H, NEW B, Holds(H, B),
         FlushPairs(h, s, base) \subseteq B, NEW v, StreamBefore(B, H, h, s, base, v)
  PROVE  CoveredAt(B, H, h, v, TailAfter(h, s, base))
<1>1. PICK n, T, D : n = Len(buffered[h][s]) /\ T = tail[h][s] /\ D = EventsOf(B, h, v)
  OBVIOUS
<1>2. n \in Nat /\ DOMAIN buffered[h][s] = 1 .. n /\ Chain(H, T, base, n)
  <2>1. n \in Nat /\ DOMAIN buffered[h][s] = 1 .. n /\ Chain(H, tail[h][s], base, n)
    BY <1>1, FlushChain
  <2>2. QED
    BY <1>1, <2>1
<1>3. buffered[h][s] \in Seq(BufferedCalls)
  BY DEF HostsTypes
<1>4. CASE n = 0
  <2>1. buffered[h][s] = << >>
    <3>1. PICK q \in Seq(BufferedCalls) : q = buffered[h][s] /\ Len(q) = 0
      BY <1>1, <1>3, <1>4
    <3>2. q = << >>
      BY <3>1
    <3>3. QED
      BY <3>1, <3>2
  <2>2. ~ InBuffer(h, s, v)
    BY <1>2, <1>4 DEF InBuffer
  <2>3. QED
    BY <2>1, <2>2 DEF TailAfter, StreamBefore
<1>5. CASE n # 0
  <2>1. buffered[h][s] # << >>
    BY <1>1, <1>5
  <2>2. PICK f : f = base + n - 1
    OBVIOUS
  <2>3. TailAfter(h, s, base) = {f}
    BY <1>1, <2>1, <2>2 DEF TailAfter
  <2>4. n \in 1 .. n
    BY <1>2, <1>5
  <2>5. CASE InBuffer(h, s, v) /\ v \in DOMAIN work[h]
    <3>1. PICK i \in 1 .. n : buffered[h][s][i].w = v
      BY <1>2, <2>5 DEF InBuffer
    <3>2. D = {base + i - 1}
      BY <1>1, <1>2, <3>1 DEF StreamBefore
    <3>3. i <= n
      OBVIOUS
    <3>4. Covered(H, {base + i - 1}, base + n - 1)
      BY <1>2, <2>4, <3>3, ChainOwn
    <3>5. Covered(H, D, f)
      BY <2>2, <3>2, <3>4
    <3>6. QED
      BY <1>1, <2>3, <2>5, <3>5 DEF CoveredAt
  <2>6. CASE CoveredAt(B, H, h, v, T)
    <3>1. Covered(H, D, f)
      BY <1>1, <1>2, <2>2, <2>4, <2>6, CoveredChain
    <3>2. v \in DOMAIN work[h]
      BY <2>6 DEF CoveredAt
    <3>3. QED
      BY <1>1, <2>3, <3>1, <3>2 DEF CoveredAt
  <2>7. QED
    BY <1>1, <2>5, <2>6 DEF StreamBefore
<1>6. QED
  BY <1>4, <1>5

\* So it is for all streams.
LEMMA FlushOrder ==
  ASSUME HostsTypes, NEW h \in Hosts, NEW B, NEW S, NEW bs, Flushes(B, h, S, bs),
         NEW G, NEW H, Within(G, H), Holds(H, B), WorkOrder({}, G, h),
         NEW last, LastEvents(h, S, bs, last)
  PROVE  FlushedOrder(B, H, h, S, last)
<1>1. /\ StreamsCovered({}, G, h) /\ BuffersWait({}, G, h) /\ BuffersApart(h)
      /\ WorkWaits({}, G, h) /\ BothEnds(h) /\ RecordsCovered({}, G, h)
  BY DEF WorkOrder
<1>2. /\ \A v \in DOMAIN work[h] : EventsOf({}, h, v) # {} => EventsOf(B, h, v) = EventsOf({}, h, v)
      /\ \A s \in S : \A i \in DOMAIN buffered[h][s] :
           EventsOf(B, h, buffered[h][s][i].w) = {bs[s] + i - 1}
      /\ \A s \in Streams \ S : \A i \in DOMAIN buffered[h][s] :
           EventsOf(B, h, buffered[h][s][i].w) = {}
  BY <1>1, FlushEvents
<1>3. \A v, T : CoveredAt({}, G, h, v, T) => CoveredAt(B, H, h, v, T)
  BY <1>2, CoveredOld
<1>4. S \subseteq Streams /\ \A s \in S : bs[s] \in Nat /\ FlushPairs(h, s, bs[s]) \subseteq B
  BY DEF Flushes
<1>5. \A s \in Streams : \A i \in DOMAIN buffered[h][s] :
        /\ buffered[h][s][i].w \in DOMAIN work[h]
        /\ EventsOf({}, h, buffered[h][s][i].w) = {}
        /\ \A v \in work[h][buffered[h][s][i].w].after :
             BufferedBefore(h, s, i, v) \/ CoveredAt({}, G, h, v, tail[h][s])
  BY <1>1 DEF BuffersWait
<1>6. ASSUME NEW s \in Streams, NEW v \in covers[h][s]
      PROVE  (s \notin S /\ InBuffer(h, s, v)) \/ CoveredAt(B, H, h, v, last[s])
  <2>1. InBuffer(h, s, v) \/ CoveredAt({}, G, h, v, tail[h][s])
    BY <1>1 DEF StreamsCovered, InBuffer
  <2>2. (InBuffer(h, s, v) /\ v \in DOMAIN work[h]) \/ CoveredAt(B, H, h, v, tail[h][s])
    BY <1>3, <1>5, <2>1 DEF InBuffer
  <2>3. CASE s \notin S
    BY <2>2, <2>3 DEF LastEvents
  <2>4. CASE s \in S
    <3>1. PICK b \in Nat : b = bs[s] /\ FlushPairs(h, s, b) \subseteq B
      BY <1>4, <2>4
    <3>2. \A i \in DOMAIN buffered[h][s] : EventsOf(B, h, buffered[h][s][i].w) = {b + i - 1}
      BY <1>2, <2>4, <3>1
    <3>6. StreamBefore(B, H, h, s, b, v)
      BY <2>2, <3>2 DEF StreamBefore
    <3>3. CoveredAt(B, H, h, v, TailAfter(h, s, b))
      BY <3>1, <3>6, FlushedStream
    <3>4. last[s] = TailAfter(h, s, b)
      BY <2>4, <3>1 DEF LastEvents
    <3>5. QED
      BY <3>3, <3>4
  <2>5. QED
    BY <2>3, <2>4
<1>7. ASSUME NEW s \in Streams \ S, NEW i \in DOMAIN buffered[h][s], NEW w, w = buffered[h][s][i].w
      PROVE  /\ w \in DOMAIN work[h] /\ EventsOf(B, h, w) = {}
             /\ \A v \in work[h][w].after :
                  BufferedBefore(h, s, i, v) \/ CoveredAt(B, H, h, v, last[s])
  <2>1. last[s] = tail[h][s]
    BY DEF LastEvents
  <2>2. w \in DOMAIN work[h] /\ EventsOf(B, h, w) = {}
    BY <1>2, <1>5, <1>7
  <2>3. \A v \in work[h][w].after :
          BufferedBefore(h, s, i, v) \/ CoveredAt({}, G, h, v, tail[h][s])
    BY <1>5, <1>7
  <2>4. QED
    BY <1>3, <2>1, <2>2, <2>3
<1>8. WorkWaits(B, H, h)
  <2>1. ASSUME NEW w \in DOMAIN work[h], NEW v \in work[h][w].after, NEW e \in EventsOf(B, h, w)
        PROVE  v \in DOMAIN work[h] /\ Waits(H, EventsOf(B, h, v), e)
    <3>1. CASE EventsOf({}, h, w) # {}
      <4>1. e \in EventsOf({}, h, w)
        BY <1>2, <2>1, <3>1
      <4>2. v \in DOMAIN work[h] /\ Waits(G, EventsOf({}, h, v), e)
        BY <1>1, <2>1, <4>1 DEF WorkWaits
      <4>3. PICK D : D = EventsOf({}, h, v)
        OBVIOUS
      <4>4. D # {}
        BY <4>2, <4>3 DEF Waits, Covered
      <4>5. EventsOf(B, h, v) = D
        BY <1>2, <4>2, <4>3, <4>4
      <4>6. Waits(H, D, e)
        BY <4>2, <4>3, <4>4, WaitsWithin
      <4>7. QED
        BY <4>2, <4>5, <4>6
    <3>2. CASE EventsOf({}, h, w) = {}
      <4>1. PICK x \in B : x[2].w = w /\ e = x[1]
        BY <2>1, <3>2 DEF EventsOf
      <4>2. PICK s \in S : x \in FlushPairs(h, s, bs[s])
        BY <2>1, <4>1 DEF Flushes
      <4>3. PICK b \in Nat : b = bs[s] /\ FlushPairs(h, s, b) \subseteq B /\ s \in Streams
        BY <1>4, <4>2
      <4>4. PICK i \in DOMAIN buffered[h][s] : x = <<b + i - 1, FlushOps(h, s, b)[i]>>
        BY <4>2, <4>3 DEF FlushPairs
      <4>5. PICK o : o = FlushOps(h, s, b)[i]
        OBVIOUS
      <4>6. FlushedCall(o, h, s, b, i)
        BY <4>3, <4>4, <4>5, FlushOp
      <4>7. buffered[h][s][i].w = w /\ e = b + i - 1
        BY <4>1, <4>4, <4>5, <4>6 DEF FlushedCall
      <4>8. PICK n, T : n = Len(buffered[h][s]) /\ T = tail[h][s]
        OBVIOUS
      <4>9. n \in Nat /\ DOMAIN buffered[h][s] = 1 .. n /\ Chain(H, T, b, n)
        BY <4>3, <4>8, FlushChain
      <4>10. BufferedBefore(h, s, i, v) \/ CoveredAt({}, G, h, v, T)
        BY <1>5, <2>1, <4>3, <4>4, <4>7, <4>8
      <4>11. CASE BufferedBefore(h, s, i, v)
        <5>1. PICK j \in 1 .. n : j < i /\ buffered[h][s][j].w = v
          BY <4>9, <4>11 DEF BufferedBefore
        <5>2. EventsOf(B, h, v) = {b + j - 1} /\ v \in DOMAIN work[h]
          BY <1>2, <1>5, <4>2, <4>3, <4>9, <5>1
        <5>3. i \in 1 .. n /\ j <= i
          BY <4>4, <4>9, <5>1
        <5>4. Waits(H, {b + j - 1}, b + i - 1)
          BY <4>9, <5>1, <5>3, ChainOwn
        <5>5. QED
          BY <4>7, <5>2, <5>4
      <4>12. CASE CoveredAt({}, G, h, v, T)
        <5>1. CoveredAt(B, H, h, v, T)
          BY <1>3, <4>12
        <5>2. i \in 1 .. n
          BY <4>4, <4>9
        <5>3. Waits(H, EventsOf(B, h, v), b + i - 1)
          BY <4>9, <5>1, <5>2, CoveredChain
        <5>4. QED
          BY <4>7, <5>1, <5>3 DEF CoveredAt
      <4>13. QED
        BY <4>10, <4>11, <4>12
    <3>3. QED
      BY <3>1, <3>2
  <2>2. QED
    BY <2>1 DEF WorkWaits
<1>9. RecordsCovered(B, H, h)
  BY <1>1, <1>3 DEF RecordsCovered
<1>10. QED
  BY <1>1, <1>2, <1>6, <1>7, <1>8, <1>9 DEF FlushedOrder

-----------------------------------------------------------------------------
(***************************************************************************)
(* What a call leaves.                                                     *)
(***************************************************************************)

\* A host's work stays, or gets a new piece.
NewPiece(h, after) ==
  work'[h] = Append(work[h], [first |-> NotYet, last |-> NotYet, after |-> after])
CallWork(h) == work'[h] = work[h] \/ \E after \in SUBSET Nat : NewPiece(h, after)

\* The events of the work there was are what they were.
WorkSame(B, h) ==
  /\ \A v \in DOMAIN work[h] : /\ v \in DOMAIN work'[h] /\ work'[h][v] = work[h][v]
                               /\ EventsOf(B, h, v)' = EventsOf(B, h, v)
  /\ \A w \in DOMAIN work'[h] : w \in DOMAIN work[h]
                                  \/ (work'[h][w].first = NotYet /\ work'[h][w].last = NotYet)

LEMMA CallWorkSame ==
  ASSUME HistoryTypes, NEW h \in Hosts, CallWork(h), NEW B
  PROVE  WorkSame(B, h)
<1>1. PICK q \in Seq(Works) : q = work[h]
  BY DEF HistoryTypes
<1>2. /\ \A v \in DOMAIN q : v \in DOMAIN work'[h] /\ work'[h][v] = q[v]
      /\ \A w \in DOMAIN work'[h] :
           w \in DOMAIN q \/ (work'[h][w].first = NotYet /\ work'[h][w].last = NotYet)
  <2>1. CASE work'[h] = work[h]
    BY <1>1, <2>1
  <2>2. CASE \E after \in SUBSET Nat : NewPiece(h, after)
    <3>1. PICK after \in SUBSET Nat : NewPiece(h, after)
      BY <2>2
    <3>2. PICK r : r = [first |-> NotYet, last |-> NotYet, after |-> after]
      OBVIOUS
    <3>3. r \in Works /\ r.first = NotYet /\ r.last = NotYet
      BY <3>2 DEF Works
    <3>4. work'[h] = Append(q, r)
      BY <1>1, <3>1, <3>2 DEF NewPiece
    <3>5. /\ Len(q) \in Nat /\ DOMAIN q = 1 .. Len(q)
          /\ DOMAIN Append(q, r) = 1 .. Len(q) + 1
          /\ \A v \in 1 .. Len(q) : Append(q, r)[v] = q[v]
          /\ Append(q, r)[Len(q) + 1] = r
      BY <3>3
    <3>6. \A w \in 1 .. Len(q) + 1 : w \in 1 .. Len(q) \/ w = Len(q) + 1
      BY <3>5
    <3>7. \A v \in 1 .. Len(q) : v \in 1 .. Len(q) + 1
      BY <3>5
    <3>8. QED
      BY <3>3, <3>4, <3>5, <3>6, <3>7
  <2>3. QED
    BY <2>1, <2>2 DEF CallWork
<1>3. \A v \in DOMAIN work[h] : EventsOf(B, h, v)' = EventsOf(B, h, v)
  BY <1>1, <1>2 DEF EventsOf
<1>4. QED
  BY <1>1, <1>2, <1>3 DEF WorkSame

LEMMA CoveredSame ==
  ASSUME NEW B, NEW H, NEW h, WorkSame(B, h), NEW v, NEW T, CoveredAt(B, H, h, v, T)
  PROVE  CoveredAt(B, H, h, v, T)'
<1>1. v \in DOMAIN work[h] /\ T # {} /\ \A e \in T : Covered(H, EventsOf(B, h, v), e)
  BY DEF CoveredAt
<1>2. PICK D : D = EventsOf(B, h, v)
  OBVIOUS
<1>3. v \in DOMAIN work'[h] /\ EventsOf(B, h, v)' = D
  BY <1>1, <1>2 DEF WorkSame
<1>4. QED
  BY <1>1, <1>2, <1>3 DEF CoveredAt

\* What the events in T cover, those in U do.
Moves(H, T, U) == U = T \/ \E f \in H.solid : U = {f} /\ \A e \in T : e \in H.solid => After(H, e, f)

LEMMA CoveredMoves ==
  ASSUME NEW B, NEW H, NEW h, NEW v, NEW T, NEW U, Moves(H, T, U), CoveredAt(B, H, h, v, T)
  PROVE  CoveredAt(B, H, h, v, U)
<1>1. CASE U = T
  BY <1>1
<1>2. CASE \E f \in H.solid : U = {f} /\ \A e \in T : e \in H.solid => After(H, e, f)
  <2>1. PICK f \in H.solid : U = {f} /\ \A e \in T : e \in H.solid => After(H, e, f)
    BY <1>2
  <2>2. PICK D : D = EventsOf(B, h, v)
    OBVIOUS
  <2>3. PICK e \in T : Covered(H, D, e)
    BY <2>2 DEF CoveredAt
  <2>4. e \in H.solid
    BY <2>3 DEF Covered
  <2>5. Covered(H, D, f)
    BY <2>1, <2>3, <2>4, CoveredAfter
  <2>6. QED
    BY <2>1, <2>2, <2>5 DEF CoveredAt
<1>3. QED
  BY <1>1, <1>2 DEF Moves

\* The call flushes the streams in S and moves their last events; what it adds to
\* what comes before a stream's next event, or before a CUDA event, is covered.
Closes(B, H, h, S, last) ==
  /\ CallWork(h)
  /\ \A s \in Streams : buffered'[h][s] = IF s \in S THEN << >> ELSE buffered[h][s]
  /\ \A s \in Streams : Moves(H, last[s], tail'[h][s]) /\ (s \notin S => tail'[h][s] = last[s])
  /\ \A s \in Streams : \A v \in covers'[h][s] :
       v \in covers[h][s] \/ CoveredAt(B, H, h, v, tail[h][s])'
  /\ \A w \in DOMAIN work'[h] \ DOMAIN work[h] :
       \A v \in work'[h][w].after : \A e \in EventsOf(B, h, w)' :
         v \in DOMAIN work[h] /\ Waits(H, EventsOf(B, h, v), e)
  /\ \A c \in DOMAIN idOf'[h] : \A v \in recorded'[h][c] :
       \/ c \in DOMAIN idOf[h] /\ idOf'[h][c] = idOf[h][c] /\ v \in recorded[h][c]
       \/ CoveredAt(B, H, h, v, {idOf[h][c]})'

LEMMA CloseOrder ==
  ASSUME HistoryTypes, NEW h \in Hosts, NEW B, NEW H, NEW S, NEW last,
         FlushedOrder(B, H, h, S, last), Closes(B, H, h, S, last)
  PROVE  WorkOrder(B, H, h)' /\ KeepsEvents({}, B, h)
<1>1. /\ \A v \in DOMAIN work[h] : EventsOf({}, h, v) # {} => EventsOf(B, h, v) = EventsOf({}, h, v)
      /\ \A s \in Streams : \A v \in covers[h][s] :
           (s \notin S /\ InBuffer(h, s, v)) \/ CoveredAt(B, H, h, v, last[s])
      /\ \A s \in Streams \ S : \A i \in DOMAIN buffered[h][s] :
           /\ buffered[h][s][i].w \in DOMAIN work[h] /\ EventsOf(B, h, buffered[h][s][i].w) = {}
           /\ \A v \in work[h][buffered[h][s][i].w].after :
                BufferedBefore(h, s, i, v) \/ CoveredAt(B, H, h, v, last[s])
      /\ BuffersApart(h) /\ WorkWaits(B, H, h) /\ BothEnds(h) /\ RecordsCovered(B, H, h)
  BY DEF FlushedOrder
<1>2. WorkSame(B, h)
  BY CallWorkSame DEF Closes
<1>3. \A v, T : CoveredAt(B, H, h, v, T) => CoveredAt(B, H, h, v, T)'
  BY <1>2, CoveredSame
<1>4. \A s \in Streams : /\ buffered'[h][s] = IF s \in S THEN << >> ELSE buffered[h][s]
                         /\ Moves(H, last[s], tail'[h][s]) /\ (s \notin S => tail'[h][s] = last[s])
  BY DEF Closes
<1>5. DOMAIN << >> = {}
  OBVIOUS
<1>6. StreamsCovered(B, H, h)'
  <2>1. ASSUME NEW s \in Streams, NEW v \in covers'[h][s], NEW U, U = tail'[h][s]
        PROVE  InBuffer(h, s, v)' \/ CoveredAt(B, H, h, v, U)'
    <3>1. v \in covers[h][s] \/ CoveredAt(B, H, h, v, U)'
      BY <2>1 DEF Closes
    <3>2. CASE s \notin S /\ InBuffer(h, s, v)
      BY <1>4, <2>1, <3>2 DEF InBuffer
    <3>3. CASE CoveredAt(B, H, h, v, last[s])
      <4>1. PICK T : T = last[s]
        OBVIOUS
      <4>2. Moves(H, T, U) /\ CoveredAt(B, H, h, v, T)
        BY <1>4, <2>1, <3>3, <4>1
      <4>3. CoveredAt(B, H, h, v, U)
        BY <4>2, CoveredMoves
      <4>4. QED
        BY <1>3, <4>3
    <3>4. QED
      BY <1>1, <3>1, <3>2, <3>3
  <2>2. ASSUME NEW s \in Streams, NEW v \in covers'[h][s]
        PROVE  InBuffer(h, s, v)' \/ CoveredAt(B, H, h, v, tail[h][s])'
    BY <2>1
  <2>3. QED
    BY <2>2 DEF StreamsCovered, InBuffer
<1>7. BuffersWait(B, H, h)'
  <2>1. ASSUME NEW s \in Streams, NEW i \in DOMAIN buffered'[h][s], NEW w, w = buffered'[h][s][i].w
        PROVE  /\ w \in DOMAIN work'[h] /\ EventsOf(B, h, w)' = {}
               /\ \A v \in work'[h][w].after :
                    BufferedBefore(h, s, i, v)' \/ CoveredAt(B, H, h, v, tail[h][s])'
    <3>1. s \in Streams \ S /\ buffered'[h][s] = buffered[h][s]
      BY <1>4, <1>5, <2>1
    <3>2. PICK T : T = last[s]
      OBVIOUS
    <3>3. /\ w \in DOMAIN work[h] /\ EventsOf(B, h, w) = {}
          /\ \A v \in work[h][w].after : BufferedBefore(h, s, i, v) \/ CoveredAt(B, H, h, v, T)
      BY <1>1, <2>1, <3>1, <3>2
    <3>4. w \in DOMAIN work'[h] /\ EventsOf(B, h, w)' = {} /\ work'[h][w] = work[h][w]
      BY <1>2, <3>3 DEF WorkSame
    <3>5. ASSUME NEW v \in work[h][w].after
          PROVE  BufferedBefore(h, s, i, v)' \/ CoveredAt(B, H, h, v, T)'
      <4>1. CASE BufferedBefore(h, s, i, v)
        BY <3>1, <4>1 DEF BufferedBefore
      <4>2. CASE CoveredAt(B, H, h, v, T)
        BY <1>3, <4>2
      <4>3. QED
        BY <3>3, <4>1, <4>2
    <3>6. T = tail'[h][s]
      BY <1>4, <3>1, <3>2
    <3>7. QED
      BY <3>4, <3>5, <3>6
  <2>2. QED
    BY <2>1 DEF BuffersWait
<1>8. BuffersApart(h)'
  <2>1. \A s \in Streams : \A i \in DOMAIN buffered'[h][s] : buffered'[h][s] = buffered[h][s]
    BY <1>4, <1>5
  <2>2. QED
    BY <1>1, <2>1 DEF BuffersApart
<1>9. WorkWaits(B, H, h)'
  <2>1. ASSUME NEW w \in DOMAIN work'[h], NEW v \in work'[h][w].after, NEW e \in EventsOf(B, h, w)'
        PROVE  v \in DOMAIN work'[h] /\ Waits(H, EventsOf(B, h, v), e)'
    <3>1. v \in DOMAIN work[h] /\ Waits(H, EventsOf(B, h, v), e)
      <4>1. CASE w \in DOMAIN work[h]
        <5>1. v \in work[h][w].after /\ e \in EventsOf(B, h, w)
          BY <1>2, <2>1, <4>1 DEF WorkSame
        <5>2. QED
          BY <1>1, <4>1, <5>1 DEF WorkWaits
      <4>2. CASE w \notin DOMAIN work[h]
        BY <2>1, <4>2 DEF Closes
      <4>3. QED
        BY <4>1, <4>2
    <3>2. v \in DOMAIN work'[h] /\ EventsOf(B, h, v)' = EventsOf(B, h, v)
      BY <1>2, <3>1 DEF WorkSame
    <3>3. QED
      BY <3>1, <3>2
  <2>2. QED
    BY <2>1 DEF WorkWaits
<1>10. BothEnds(h)'
  BY <1>1, <1>2 DEF BothEnds, WorkSame
<1>11. RecordsCovered(B, H, h)'
  <2>1. ASSUME NEW c \in DOMAIN idOf'[h], NEW v \in recorded'[h][c], NEW T, T = {idOf'[h][c]}
        PROVE  CoveredAt(B, H, h, v, T)'
    <3>1. \/ c \in DOMAIN idOf[h] /\ idOf'[h][c] = idOf[h][c] /\ v \in recorded[h][c]
          \/ CoveredAt(B, H, h, v, T)'
      BY <2>1 DEF Closes
    <3>2. CASE c \in DOMAIN idOf[h] /\ idOf'[h][c] = idOf[h][c] /\ v \in recorded[h][c]
      <4>1. CoveredAt(B, H, h, v, T)
        BY <1>1, <2>1, <3>2 DEF RecordsCovered
      <4>2. QED
        BY <1>3, <4>1
    <3>3. QED
      BY <3>1, <3>2
  <2>2. QED
    BY <2>1 DEF RecordsCovered
<1>12. KeepsEvents({}, B, h)
  <2>1. ASSUME NEW w \in DOMAIN work[h]
        PROVE  /\ w \in DOMAIN work'[h] /\ work'[h][w].after = work[h][w].after
               /\ EventsOf({}, h, w) # {} => /\ EventsOf(B, h, w)' # {}
                                            /\ EventsOf(B, h, w)' \subseteq EventsOf({}, h, w)
    BY <1>1, <1>2 DEF WorkSame
  <2>2. QED
    BY <2>1 DEF KeepsEvents
<1>13. QED
  BY <1>6, <1>7, <1>8, <1>9, <1>10, <1>11, <1>12 DEF WorkOrder

\* The call is host h's: the others stay as they are.
OthersSame(h) ==
  \A g \in Hosts \ {h} :
    /\ work'[g] = work[g] /\ covers'[g] = covers[g] /\ recorded'[g] = recorded[g]
    /\ tail'[g] = tail[g] /\ buffered'[g] = buffered[g] /\ idOf'[g] = idOf[g]

\* What the call asks is about work that event id covers; a synchronization's event
\* is new, and added at the host's time.
Asked(B, H, h, id, next, a) ==
  /\ a \in Asks /\ a.id = id /\ a.kind = next
  /\ \A v \in a.must : CoveredAt(B, H, h, v, {id})'
  /\ next = "sync" => id \in Nat /\ id >= cnt /\ \A x \in B : x[1] = id => x[2].t = a.at

AskStep(B, H, h, id, next) ==
  \/ next = "return" /\ UNCHANGED ask
  \/ next # "return" /\ \E a : ask' = [ask EXCEPT ![h] = a] /\ Asked(B, H, h, id, next, a)

LEMMA CallOrder ==
  ASSUME HostsOrder, HostsInv', HistoryTypes', NEW h \in Hosts, NEW p, NEW next, NEW id,
         Calls(h, p, next, id), NEW B, NEW G, NEW H, Begun(p, B, G, H), OthersSame(h),
         WorkOrder(B, H, h)', KeepsEvents({}, B, h), UNCHANGED reply, AskStep(B, H, h, id, next)
  PROVE  HostsOrder'
<1>1. OrderInv /\ HostsTypes /\ HistoryTypes /\ AskTypes /\ RegisteredAsks
  BY DEF HostsOrder, HostsInv
<1>2. /\ call = NoCall /\ hostState[h] = "run" /\ UNCHANGED vars /\ UNCHANGED syncing
      /\ call' # NoCall /\ call'.host = h /\ call'.prog = p /\ call'.id = id /\ call'.next = next
      /\ hostState' = IF next = "return" THEN hostState ELSE [hostState EXCEPT ![h] = "wait"]
  <2>1. /\ call = NoCall /\ hostState[h] = "run" /\ UNCHANGED vars /\ UNCHANGED syncing
        /\ call' = [phase |-> "build", host |-> h, prog |-> p, next |-> next, id |-> id, until |-> clock[h]]
        /\ hostState' = IF next = "return" THEN hostState ELSE [hostState EXCEPT ![h] = "wait"]
    BY DEF Calls, Call
  <2>2. call'.phase = "build" /\ NoCall.phase = "none"
    BY <2>1 DEF NoCall
  <2>3. QED
    BY <2>1, <2>2
<1>3. BoundsKept /\ UNCHANGED cnt
  BY <1>1, <1>2, SameBounds
<1>4. /\ Within(G, H) /\ EndsStay(G)
      /\ \A g \in Hosts : WorkOrder({}, G, g) /\ AnswerOrder({}, G, g)
  BY DEF Begun
<1>5. PICK num : Numbered(p, cnt, num)' /\ B = Soon(p, num) /\ H = Dag(p, num)'
  BY DEF Begun
<1>6. PICK C : C = [g \in Hosts |-> IF g = h THEN B ELSE {}]
  OBVIOUS
<1>7. Views(p, num, C, H)'
  <2>1. p = Prog'
    BY <1>2 DEF Prog
  <2>2. C = SoonOf(p, num)'
    BY <1>2, <1>5, <1>6 DEF SoonOf, Soon
  <2>3. QED
    BY <1>5, <2>1, <2>2 DEF Views
<1>8. AskTypes' /\ \A g \in Hosts \ {h} : ask'[g] = ask[g]
  BY <1>1 DEF AskTypes, AskStep, Asked
<1>9. RegisteredAsks'
  <2>1. PICK q, m : AnswerInv(q, m)
    BY DEF HostsOrder, HostsInv
  <2>2. \A e \in DOMAIN syncing : syncing[e] \in Hosts /\ hostState[syncing[e]] = "wait"
    BY <1>1, <2>1 DEF AnswerInv, Registered, HostsTypes
  <2>3. \A e \in DOMAIN syncing : syncing[e] \in Hosts \ {h}
    BY <1>2, <2>2
  <2>4. QED
    BY <1>1, <1>2, <1>8, <2>3 DEF RegisteredAsks
<1>10. ASSUME NEW g \in Hosts \ {h}
       PROVE  WorkOrder({}, H, g)' /\ AnswerOrder({}, H, g)'
  <2>1. WorkOrder({}, G, g) /\ AnswerOrder({}, G, g)
    BY <1>4
  <2>2. BothEnds(g)
    BY <2>1 DEF WorkOrder
  <2>3. PICK A : A = {}
    OBVIOUS
  <2>4. WorkStays(A, A, g)
    BY <1>10, <2>2, SameWork DEF OthersSame
  <2>5. WorkOrder(A, H, g)' /\ KeepsEvents(A, A, g)
    BY <1>4, <2>1, <2>3, <2>4, WorkKeeps DEF WorkStays
  <2>6. hostState'[g] = hostState[g] /\ ask'[g] = ask[g] /\ reply'[g] = reply[g]
    BY <1>1, <1>2, <1>8, <1>10 DEF HostsTypes
  <2>7. AskCovered(A, G, g) /\ AskBounded(A, g) /\ ReplyDone(A, G, g)
    BY <2>1, <2>3 DEF AnswerOrder
  <2>8. AskCovered(A, H, g)'
    BY <1>4, <2>5, <2>6, <2>7, AskKeeps
  <2>9. AskBounded(A, g)'
    BY <1>3, <2>6, <2>7, BoundKeeps
  <2>10. ReplyDone(A, H, g)'
    BY <1>4, <2>5, <2>6, <2>7, DoneKeeps
  <2>11. CallerAsks(g)'
    BY <1>2, <1>10 DEF CallerAsks, Caller
  <2>12. WorkOrder(A, H, g)' /\ AnswerOrder(A, H, g)'
    BY <2>5, <2>8, <2>9, <2>10, <2>11 DEF AnswerOrder
  <2>13. QED
    BY <2>3, <2>12
<1>11. AnswerOrder(B, H, h)'
  <2>1. ReplyDone(B, H, h)'
    <3>1. PICK A : A = {}
      OBVIOUS
    <3>2. ReplyDone(A, G, h) /\ KeepsEvents(A, B, h) /\ reply'[h] = reply[h]
      BY <1>4, <3>1 DEF AnswerOrder
    <3>3. QED
      BY <1>4, <3>2, DoneKeeps
  <2>2. CASE next = "return"
    <3>1. hostState'[h] # "wait"
      BY <1>2, <2>2
    <3>2. AskCovered(B, H, h)' /\ AskBounded(B, h)'
      BY <3>1 DEF AskCovered, AskBounded
    <3>3. CallerAsks(h)'
      BY <1>2, <2>2 DEF CallerAsks
    <3>4. QED
      BY <2>1, <3>2, <3>3 DEF AnswerOrder
  <2>3. CASE next # "return"
    <3>1. PICK a : ask' = [ask EXCEPT ![h] = a] /\ Asked(B, H, h, id, next, a)
      BY <2>3 DEF AskStep
    <3>2. ask'[h] = a
      BY <1>1, <3>1 DEF AskTypes
    <3>3. AskCovered(B, H, h)'
      BY <3>1, <3>2 DEF AskCovered, Asked
    <3>4. CallerAsks(h)'
      BY <1>2, <3>1, <3>2 DEF CallerAsks, Asked
    <3>5. AskBounded(B, h)'
      <4>1. ASSUME a.kind = "sync"
            PROVE  /\ a.at \in Nat
                   /\ id \notin 0 .. cnt' - 1
                   /\ \A x \in B : x[1] = id => x[2].t = a.at
        <5>1. a.at \in Nat
          BY <3>1 DEF Asked, Asks
        <5>2. next = "sync"
          BY <3>1, <4>1 DEF Asked
        <5>3. id \in Nat /\ id >= cnt /\ \A x \in B : x[1] = id => x[2].t = a.at
          BY <3>1, <5>2 DEF Asked
        <5>4. cnt \in Nat /\ cnt' = cnt
          BY <1>1, <1>3, HostsFacts
        <5>5. QED
          BY <5>1, <5>3, <5>4
      <4>2. a.id = id
        BY <3>1 DEF Asked
      <4>3. QED
        BY <3>2, <4>1, <4>2 DEF AskBounded
    <3>6. QED
      BY <2>1, <3>3, <3>4, <3>5 DEF AnswerOrder
  <2>4. QED
    BY <2>2, <2>3
<1>12. ASSUME NEW g \in Hosts
       PROVE  WorkOrder(C[g], H, g)' /\ AnswerOrder(C[g], H, g)'
  <2>1. PICK A : A = C[g]
    OBVIOUS
  <2>2. CASE g = h
    <3>1. A = B
      BY <1>6, <2>1, <2>2
    <3>2. WorkOrder(A, H, g)' /\ AnswerOrder(A, H, g)'
      BY <1>11, <2>2, <3>1
    <3>3. QED
      BY <2>1, <3>2
  <2>3. CASE g # h
    <3>1. A = {}
      BY <1>6, <2>1, <2>3
    <3>2. WorkOrder(A, H, g)' /\ AnswerOrder(A, H, g)'
      BY <1>10, <2>3, <3>1
    <3>3. QED
      BY <2>1, <3>2
  <2>4. QED
    BY <2>2, <2>3
<1>13. QED
  BY <1>7, <1>8, <1>9, <1>12 DEF HostsOrder
-----------------------------------------------------------------------------
(***************************************************************************)
(* The calls on one stream.                                                *)
(***************************************************************************)

\* The calls buffered on a stream, as events from base on.
LEMMA FlushCarries ==
  ASSUME HostsTypes, NEW h \in Hosts, NEW s \in Streams, NEW base \in Nat,
         tail[h][s] \subseteq 0 .. base - 1, NEW id, id = StreamId(h, s, base)
  PROVE  /\ Carries(FlushOps(h, s, base), base, id, FlushPairs(h, s, base))
         /\ id \in Nat /\ base <= id /\ TailAfter(h, s, base) \subseteq 0 .. id - 1
         /\ \A x \in FlushPairs(h, s, base) : x[1] < id
<1>1. PICK p : p = FlushOps(h, s, base)
  OBVIOUS
<1>2. PICK buf : buf = buffered[h][s] /\ buf \in Seq(BufferedCalls)
  BY DEF HostsTypes
<1>3. /\ AddsFrom(p, base) /\ Len(p) = Len(buf)
      /\ TailAfter(h, s, base) \subseteq 0 .. base + Len(p) - 1
  BY <1>1, <1>2, FlushAdds
<1>4. Len(p) \in Nat /\ id = base + Len(p) /\ DOMAIN buffered[h][s] = 1 .. Len(p)
  BY <1>2, <1>3 DEF StreamId
<1>5. FlushPairs(h, s, base) = {<<base + i - 1, p[i]>> : i \in 1 .. Len(p)}
  BY <1>1, <1>4 DEF FlushPairs
<1>6. Carries(p, base, id, FlushPairs(h, s, base))
  BY <1>3, <1>4, <1>5, CarriesAdds
<1>7. id \in Nat /\ base <= id /\ \A i \in 1 .. Len(p) : base + i - 1 < id
  BY <1>4
<1>8. QED
  BY <1>1, <1>3, <1>4, <1>5, <1>6, <1>7

\* And an event of the call's own at the end.
StreamCarried(h, s, base, on, act, w, id, o, p, A) ==
  /\ Carries(p, base, id + 1, A)
  /\ id \in Nat /\ base <= id /\ TailAfter(h, s, base) \subseteq Nat
  /\ o.act = act /\ o.w = w /\ o.t = clock[h] /\ o.deps = on \cup TailAfter(h, s, base)

LEMMA StreamCarries ==
  ASSUME HostsTypes, NEW h \in Hosts, NEW s \in Streams, NEW base \in Nat,
         tail[h][s] \subseteq 0 .. base - 1,
         NEW on, on \subseteq 0 .. base - 1 \cup {NoneDep}, NEW act \in Actions, NEW w \in Nat,
         NEW id, id = StreamId(h, s, base),
         NEW o, o = AddOp(on \cup TailAfter(h, s, base), act, clock[h], w),
         NEW p, p = StreamOps(h, s, base, on, act, w),
         NEW A, A = FlushPairs(h, s, base) \cup {<<id, o>>}
  PROVE  StreamCarried(h, s, base, on, act, w, id, o, p, A)
<1>1. PICK f, T : f = FlushOps(h, s, base) /\ T = TailAfter(h, s, base)
  OBVIOUS
<1>2. /\ Carries(f, base, id, FlushPairs(h, s, base))
      /\ id \in Nat /\ base <= id /\ T \subseteq 0 .. id - 1
  BY <1>1, FlushCarries
<1>3. clock[h] \in Nat
  BY DEF HostsTypes
<1>4. on \cup T \in SUBSET (Nat \cup {NoneDep})
  BY <1>2
<1>5. o \in Operations /\ o.op = "add"
  BY <1>1, <1>3, <1>4 DEF AddOp, Operations
<1>6. Carries(<<o>>, id, id + 1, {<<id, o>>}) /\ id + 1 \in Nat
  <2>1. PICK x \in Operations : x = o /\ x.op = "add"
    BY <1>5
  <2>2. PICK k \in Nat : k = id
    BY <1>2
  <2>3. Carries(<<x>>, k, k + 1, {<<k, x>>})
    BY <2>1, <2>2, CarriesAdd
  <2>4. QED
    BY <2>1, <2>2, <2>3
<1>7. Carries(f \o <<o>>, base, id + 1, A)
  BY <1>2, <1>6, CarriesBoth
<1>8. p = f \o <<o>>
  <2>1. f \in Seq(Operations)
    BY <1>2 DEF Carries
  <2>2. Append(f, o) = f \o <<o>>
    BY <1>5, <2>1, AppendIsConcat
  <2>3. QED
    BY <1>1, <2>2 DEF StreamOps
<1>9. T \subseteq Nat
  BY <1>2
<1>10. QED
  BY <1>1, <1>2, <1>7, <1>8, <1>9 DEF AddOp, StreamCarried

\* The calls buffered on stream s are events from base on; the call's own are
\* first, after them, and fin.
PlacedAt(B, H, h, s, base, first, fin) ==
  /\ base \in Nat /\ FlushPairs(h, s, base) \subseteq B
  /\ \A x \in B : x \in FlushPairs(h, s, base) \/ x[2].w \notin DOMAIN work[h]
  /\ first \in H.solid /\ fin \in H.solid
  /\ \A e \in TailAfter(h, s, base) : <<e, first>> \in H.edges
  /\ first = fin \/ <<first, fin>> \in H.edges

\* The streams' last events when s is flushed.
LastOf(h, s, base) ==
  [r \in Streams |-> IF r = s THEN TailAfter(h, s, base) ELSE tail[h][r]]

\* What the call's own events come after.
OwnBehind(B, H, h, s, first, fin) ==
  \A v \in covers[h][s] : v \in DOMAIN work[h] /\ \A e \in {first, fin} :
    Waits(H, EventsOf(B, h, v), e) /\ CoveredAt(B, H, h, v, {e})

LEMMA PlacedOrder ==
  ASSUME HostsTypes, NEW h \in Hosts, NEW s \in Streams, NEW B, NEW G, NEW H,
         Within(G, H), Holds(H, B), WorkOrder({}, G, h),
         NEW base, NEW first, NEW fin, PlacedAt(B, H, h, s, base, first, fin),
         NEW last, last = LastOf(h, s, base)
  PROVE  /\ FlushedOrder(B, H, h, {s}, last) /\ Moves(H, last[s], {fin})
         /\ OwnBehind(B, H, h, s, first, fin)
         /\ \A x \in FlushPairs(h, s, base) : x[2].w \in DOMAIN work[h]
<1>1. /\ base \in Nat /\ FlushPairs(h, s, base) \subseteq B
      /\ \A x \in B : x \in FlushPairs(h, s, base) \/ x[2].w \notin DOMAIN work[h]
      /\ first \in H.solid /\ fin \in H.solid
      /\ \A e \in TailAfter(h, s, base) : <<e, first>> \in H.edges
      /\ first = fin \/ <<first, fin>> \in H.edges
  BY DEF PlacedAt
<1>2. PICK T : T = TailAfter(h, s, base)
  OBVIOUS
<1>3. last[s] = T
  BY <1>2 DEF LastOf
<1>4. FlushedOrder(B, H, h, {s}, last)
  <2>1. PICK bs : bs = [r \in {s} |-> base]
    OBVIOUS
  <2>2. bs[s] = base
    BY <2>1
  <2>3. Flushes(B, h, {s}, bs)
    BY <1>1, <2>2 DEF Flushes
  <2>4. LastEvents(h, {s}, bs, last)
    BY <2>2 DEF LastEvents, LastOf
  <2>5. QED
    BY <2>3, <2>4, FlushOrder
<1>5. \A e \in T : e \in H.solid => After(H, e, first) /\ After(H, e, fin)
  <2>1. ASSUME NEW e \in T, e \in H.solid
        PROVE  After(H, e, first) /\ After(H, e, fin)
    <3>1. After(H, e, first)
      BY <1>1, <1>2, <2>1, AfterSelf, AfterEdge
    <3>2. QED
      BY <1>1, <3>1, AfterEdge
  <2>2. QED
    BY <2>1
<1>6. Moves(H, last[s], {fin})
  BY <1>1, <1>3, <1>5 DEF Moves
<1>7. ASSUME NEW v \in covers[h][s]
      PROVE  v \in DOMAIN work[h] /\ \A e \in {first, fin} :
               Waits(H, EventsOf(B, h, v), e) /\ CoveredAt(B, H, h, v, {e})
  <2>1. PICK D : D = EventsOf(B, h, v)
    OBVIOUS
  <2>2. v \in DOMAIN work[h] /\ T # {} /\ \A e \in T : Covered(H, D, e)
    <3>1. CoveredAt(B, H, h, v, last[s])
      BY <1>4 DEF FlushedOrder
    <3>2. QED
      BY <1>3, <2>1, <3>1 DEF CoveredAt
  <2>3. PICK e \in T : Covered(H, D, e)
    BY <2>2
  <2>4. Covered(H, D, first) /\ Waits(H, D, first)
    BY <1>1, <1>2, <2>3, CoveredEdge
  <2>5. Covered(H, D, fin) /\ Waits(H, D, fin)
    BY <1>1, <2>4, CoveredEdge
  <2>6. QED
    BY <2>1, <2>2, <2>4, <2>5 DEF CoveredAt
<1>8. OwnBehind(B, H, h, s, first, fin)
  BY <1>7 DEF OwnBehind
<1>9. ASSUME NEW x \in FlushPairs(h, s, base)
      PROVE  x[2].w \in DOMAIN work[h]
  <2>1. PICK i \in DOMAIN buffered[h][s] : x = <<base + i - 1, FlushOps(h, s, base)[i]>>
    BY DEF FlushPairs
  <2>2. PICK o : o = FlushOps(h, s, base)[i]
    OBVIOUS
  <2>3. o.w = buffered[h][s][i].w
    BY <1>1, <2>2, FlushOp DEF FlushedCall
  <2>4. buffered[h][s][i].w \in DOMAIN work[h]
    BY DEF WorkOrder, BuffersWait
  <2>5. QED
    BY <2>1, <2>2, <2>3, <2>4
<1>10. QED
  BY <1>4, <1>6, <1>8, <1>9

\* What the calls on one stream do to the streams.
StreamMoved(H, h, s, last, fin) ==
  /\ \A r \in Streams : /\ buffered'[h][r] = (IF r \in {s} THEN << >> ELSE buffered[h][r])
                        /\ Moves(H, last[r], tail'[h][r]) /\ (r \notin {s} => tail'[h][r] = last[r])
  /\ tail'[h][s] = {fin}
  /\ \A g \in Hosts \ {h} : tail'[g] = tail[g] /\ buffered'[g] = buffered[g]

LEMMA MovesStream ==
  ASSUME HostsTypes, NEW h \in Hosts, NEW s \in Streams, Flushed(h, {s}), NEW fin, Advance(h, s, fin),
         NEW base, NEW last, last = LastOf(h, s, base), NEW H, Moves(H, last[s], {fin})
  PROVE  StreamMoved(H, h, s, last, fin)
<1>1. /\ tail \in [Hosts -> [Streams -> SUBSET Nat]]
      /\ tail' = [tail EXCEPT ![h] = [tail[h] EXCEPT ![s] = {fin}]]
  BY DEF HostsTypes, Advance
<1>2. /\ tail'[h][s] = {fin} /\ \A r \in Streams : r # s => tail'[h][r] = tail[h][r]
      /\ \A g \in Hosts \ {h} : tail'[g] = tail[g]
  BY <1>1
<1>3. PICK new : new = [r \in Streams |-> IF r \in {s} THEN << >> ELSE buffered[h][r]]
  OBVIOUS
<1>4. buffered' = [buffered EXCEPT ![h] = new] /\ DOMAIN buffered = Hosts
  BY <1>3 DEF Flushed, HostsTypes
<1>5. buffered'[h] = new /\ \A g \in Hosts \ {h} : buffered'[g] = buffered[g]
  BY <1>4
<1>6. \A r \in Streams : r # s => last[r] = tail[h][r]
  BY DEF LastOf
<1>7. \A r \in Streams : /\ Moves(H, last[r], tail'[h][r])
                         /\ (r \notin {s} => tail'[h][r] = last[r])
  BY <1>2, <1>6 DEF Moves
<1>8. QED
  BY <1>2, <1>3, <1>5, <1>7 DEF StreamMoved

\* What NewWork notes.
NotedWork(h, s, w) ==
  /\ w = Len(work[h]) + 1 /\ covers[h][s] \in SUBSET Nat /\ NewPiece(h, covers[h][s])
  /\ w \in DOMAIN work'[h] /\ work'[h][w].first = NotYet /\ work'[h][w].last = NotYet
  /\ work'[h][w].after = covers[h][s]
  /\ \A v \in DOMAIN work'[h] \ DOMAIN work[h] : v = w
  /\ w \notin DOMAIN work[h]
  /\ covers'[h][s] = covers[h][s] \cup {w}
  /\ \A r \in Streams : r # s => covers'[h][r] = covers[h][r]
  /\ \A g \in Hosts \ {h} : work'[g] = work[g] /\ covers'[g] = covers[g]
  /\ recorded' = recorded

LEMMA WorkNoted ==
  ASSUME HistoryTypes, NEW h \in Hosts, NEW s \in Streams, NewWork(h, s), NEW w, w = Len(work[h]) + 1
  PROVE  NotedWork(h, s, w)
<1>1. PICK q \in Seq(Works) : q = work[h]
  BY DEF HistoryTypes
<1>2. PICK T \in SUBSET Nat : T = covers[h][s]
  BY DEF HistoryTypes
<1>3. PICK r : r = [first |-> NotYet, last |-> NotYet, after |-> T]
  OBVIOUS
<1>4. r \in Works /\ r.first = NotYet /\ r.last = NotYet /\ r.after = T
  BY <1>3 DEF Works
<1>5. work' = [work EXCEPT ![h] = Append(q, r)] /\ DOMAIN work = Hosts
  BY <1>1, <1>2, <1>3 DEF NewWork, HistoryTypes
<1>6. work'[h] = Append(q, r) /\ \A g \in Hosts \ {h} : work'[g] = work[g]
  BY <1>5
<1>7. Len(q) \in Nat /\ DOMAIN q = 1 .. Len(q) /\ w = Len(q) + 1
  BY <1>1
<1>8. DOMAIN work'[h] = 1 .. w /\ work'[h][w] = r
  BY <1>1, <1>4, <1>6, <1>7
<1>9. w \in DOMAIN work'[h] /\ w \notin DOMAIN q /\ \A v \in DOMAIN work'[h] \ DOMAIN q : v = w
  BY <1>7, <1>8
<1>10. NewPiece(h, T)
  BY <1>1, <1>3, <1>6 DEF NewPiece
<1>11. /\ covers' = [covers EXCEPT ![h] = [covers[h] EXCEPT ![s] = T \cup {w}]]
       /\ covers \in [Hosts -> [Streams -> SUBSET Nat]] /\ recorded' = recorded
  BY <1>2 DEF NewWork, HistoryTypes
<1>12. /\ covers'[h][s] = T \cup {w} /\ \A x \in Streams : x # s => covers'[h][x] = covers[h][x]
       /\ \A g \in Hosts \ {h} : covers'[g] = covers[g]
  BY <1>11
<1>13. QED
  BY <1>1, <1>2, <1>4, <1>6, <1>8, <1>9, <1>10, <1>11, <1>12 DEF NotedWork

\* The events of a new piece of work.
OwnEvents(B, h, first, fin) ==
  LET D == {x[1] : x \in {x \in B : x[2].w = Len(work[h]) + 1}} IN D # {} /\ D \subseteq {first, fin}

\* A call that starts work: a copy or a collective.
LEMMA WorkCloses ==
  ASSUME HostsTypes, HistoryTypes, NEW h \in Hosts, NEW s \in Streams, NEW B, NEW H,
         NEW base, NEW first, NEW fin, PlacedAt(B, H, h, s, base, first, fin),
         OwnBehind(B, H, h, s, first, fin), OwnEvents(B, h, first, fin),
         NEW last, last = LastOf(h, s, base), Moves(H, last[s], {fin}),
         Flushed(h, {s}), Advance(h, s, fin), NewWork(h, s), UNCHANGED idOf
  PROVE  Closes(B, H, h, {s}, last) /\ OthersSame(h)
<1>1. PICK w : w = Len(work[h]) + 1
  OBVIOUS
<1>2. NotedWork(h, s, w)
  BY <1>1, WorkNoted
<1>3. StreamMoved(H, h, s, last, fin)
  BY MovesStream
<1>4. CallWork(h)
  BY <1>2 DEF NotedWork, CallWork
<1>5. PICK D : D = {x[1] : x \in {x \in B : x[2].w = w}} /\ D # {} /\ D \subseteq {first, fin}
  BY <1>1 DEF OwnEvents
<1>6. EventsOf(B, h, w)' = D
  BY <1>2, <1>5 DEF EventsOf, NotedWork
<1>7. /\ first \in H.solid /\ fin \in H.solid /\ After(H, first, fin) /\ After(H, fin, fin)
  BY AfterSelf, AfterEdge DEF PlacedAt
<1>8. Covered(H, D, fin)
  BY <1>5, <1>7 DEF Covered
<1>9. CoveredAt(B, H, h, w, tail[h][s])'
  <2>1. w \in DOMAIN work'[h] /\ tail'[h][s] = {fin}
    BY <1>2, <1>3 DEF NotedWork, StreamMoved
  <2>2. QED
    BY <1>6, <1>8, <2>1 DEF CoveredAt
<1>10. \A r \in Streams : \A v \in covers'[h][r] :
         v \in covers[h][r] \/ CoveredAt(B, H, h, v, tail[h][r])'
  <2>1. ASSUME NEW r \in Streams, NEW v \in covers'[h][r]
        PROVE  v \in covers[h][r] \/ (v = w /\ r = s)
    BY <1>2 DEF NotedWork
  <2>2. ASSUME NEW r, NEW v, r = s, v = w
        PROVE  CoveredAt(B, H, h, v, tail[h][r])'
    BY <1>9, <2>2
  <2>3. QED
    BY <2>1, <2>2
<1>11. \A x \in DOMAIN work'[h] \ DOMAIN work[h] :
         \A v \in work'[h][x].after : \A e \in EventsOf(B, h, x)' :
           v \in DOMAIN work[h] /\ Waits(H, EventsOf(B, h, v), e)
  <2>1. ASSUME NEW v \in work'[h][w].after, NEW e \in D
        PROVE  v \in DOMAIN work[h] /\ Waits(H, EventsOf(B, h, v), e)
    <3>1. v \in covers[h][s] /\ e \in {first, fin}
      BY <1>2, <1>5 DEF NotedWork
    <3>2. QED
      BY <3>1 DEF OwnBehind
  <2>2. \A x \in DOMAIN work'[h] \ DOMAIN work[h] : x = w
    BY <1>2 DEF NotedWork
  <2>3. ASSUME NEW x \in DOMAIN work'[h] \ DOMAIN work[h]
        PROVE  \A v \in work'[h][x].after : \A e \in EventsOf(B, h, x)' :
                 v \in DOMAIN work[h] /\ Waits(H, EventsOf(B, h, v), e)
    <3>1. x = w
      BY <2>2
    <3>2. EventsOf(B, h, x)' = D
      BY <1>6, <3>1
    <3>3. QED
      BY <2>1, <3>1, <3>2
  <2>4. QED
    BY <2>3
<1>12. \A c \in DOMAIN idOf'[h] : \A v \in recorded'[h][c] :
         c \in DOMAIN idOf[h] /\ idOf'[h][c] = idOf[h][c] /\ v \in recorded[h][c]
  BY <1>2 DEF NotedWork
<1>13. Closes(B, H, h, {s}, last)
  BY <1>3, <1>4, <1>10, <1>11, <1>12 DEF Closes, StreamMoved
<1>14. OthersSame(h)
  BY <1>2, <1>3 DEF OthersSame, NotedWork, StreamMoved
<1>15. QED
  BY <1>13, <1>14

\* A call that adds a point to a stream: a record, a wait or a synchronization.
PointNotes(B, H, h, s, fin) ==
  /\ work' = work
  /\ \A g \in Hosts \ {h} : covers'[g] = covers[g] /\ recorded'[g] = recorded[g] /\ idOf'[g] = idOf[g]
  /\ \A r \in Streams : \A v \in covers'[h][r] :
       v \in covers[h][r] \/ (r = s /\ CoveredAt(B, H, h, v, {fin}))
  /\ \A c \in DOMAIN idOf'[h] : \A v \in recorded'[h][c] :
       \/ c \in DOMAIN idOf[h] /\ idOf'[h][c] = idOf[h][c] /\ v \in recorded[h][c]
       \/ idOf'[h][c] = fin /\ CoveredAt(B, H, h, v, {fin})

LEMMA PointCloses ==
  ASSUME HostsTypes, HistoryTypes, NEW h \in Hosts, NEW s \in Streams, NEW B, NEW H,
         NEW base, NEW fin, NEW last, last = LastOf(h, s, base), Moves(H, last[s], {fin}),
         Flushed(h, {s}), Advance(h, s, fin), PointNotes(B, H, h, s, fin)
  PROVE  Closes(B, H, h, {s}, last) /\ OthersSame(h)
<1>1. StreamMoved(H, h, s, last, fin)
  BY MovesStream
<1>2. CallWork(h) /\ work' = work
  BY DEF PointNotes, CallWork
<1>3. WorkSame(B, h)
  BY <1>2, CallWorkSame
<1>4. \A v : CoveredAt(B, H, h, v, {fin}) => CoveredAt(B, H, h, v, {fin})'
  <2>1. PICK T : T = {fin}
    OBVIOUS
  <2>2. \A v : CoveredAt(B, H, h, v, T) => CoveredAt(B, H, h, v, T)'
    BY <1>3, CoveredSame
  <2>3. QED
    BY <2>1, <2>2
<1>5. \A r \in Streams : \A v \in covers'[h][r] :
         v \in covers[h][r] \/ CoveredAt(B, H, h, v, tail[h][r])'
  <2>1. ASSUME NEW r \in Streams, NEW v \in covers'[h][r], v \notin covers[h][r]
        PROVE  CoveredAt(B, H, h, v, tail[h][r])'
    <3>1. r = s /\ CoveredAt(B, H, h, v, {fin})'
      BY <1>4, <2>1 DEF PointNotes
    <3>2. tail'[h][r] = {fin}
      BY <1>1, <3>1 DEF StreamMoved
    <3>3. QED
      BY <3>1, <3>2 DEF CoveredAt
  <2>2. QED
    BY <2>1
<1>6. \A c \in DOMAIN idOf'[h] : \A v \in recorded'[h][c] :
         \/ c \in DOMAIN idOf[h] /\ idOf'[h][c] = idOf[h][c] /\ v \in recorded[h][c]
         \/ CoveredAt(B, H, h, v, {idOf[h][c]})'
  <2>1. ASSUME NEW c \in DOMAIN idOf'[h], NEW v \in recorded'[h][c],
               idOf'[h][c] = fin, CoveredAt(B, H, h, v, {fin})
        PROVE  CoveredAt(B, H, h, v, {idOf[h][c]})'
    <3>1. CoveredAt(B, H, h, v, {fin})'
      BY <1>4, <2>1
    <3>2. {idOf'[h][c]} = {fin}
      BY <2>1
    <3>3. QED
      BY <3>1, <3>2 DEF CoveredAt
  <2>2. QED
    BY <2>1 DEF PointNotes
<1>7. DOMAIN work'[h] \ DOMAIN work[h] = {}
  BY <1>2
<1>8. Closes(B, H, h, {s}, last)
  BY <1>1, <1>2, <1>5, <1>6, <1>7 DEF Closes, StreamMoved
<1>9. OthersSame(h)
  BY <1>1, <1>2 DEF OthersSame, PointNotes, StreamMoved
<1>10. QED
  BY <1>8, <1>9

\* A call that closes its events in order keeps the invariant.
LEMMA StreamCallOrder ==
  ASSUME HostsOrder, HostsInv', HistoryTypes', NEW h \in Hosts, NEW s \in Streams,
         NEW p, NEW next, NEW id, Calls(h, p, next, id), NEW B, NEW G, NEW H, Begun(p, B, G, H),
         NEW base, NEW first, NEW fin, PlacedAt(B, H, h, s, base, first, fin),
         NEW last, last = LastOf(h, s, base), Closes(B, H, h, {s}, last), OthersSame(h),
         UNCHANGED reply, AskStep(B, H, h, id, next)
  PROVE  HostsOrder'
<1>1. HostsTypes /\ HistoryTypes
  BY DEF HostsOrder, HostsInv
<1>2. Within(G, H) /\ Holds(H, B) /\ WorkOrder({}, G, h)
  BY DEF Begun
<1>3. FlushedOrder(B, H, h, {s}, last)
  BY <1>1, <1>2, PlacedOrder
<1>4. WorkOrder(B, H, h)' /\ KeepsEvents({}, B, h)
  BY <1>1, <1>3, CloseOrder
<1>5. QED
  BY <1>4, CallOrder

\* The program of a call that adds one event of its own.
OneBegun(p, B, G, H, h, s, n, id, on, w) ==
  /\ Begun(p, B, G, H) /\ PlacedAt(B, H, h, s, n, id, id)
  /\ id \in Nat /\ id >= n /\ \A x \in B : x[1] = id => x[2].t = clock[h]
  /\ \A d \in on \cap Nat : <<d, id>> \in H.edges
  /\ w = Len(work[h]) + 1 => OwnEvents(B, h, id, id)

LEMMA OneBegins ==
  ASSUME HostsOrder, call = NoCall, UNCHANGED vars, NEW h \in Hosts, NEW s \in Streams,
         NEW n, n = cnt, NEW on, on \subseteq 0 .. n - 1 \cup {NoneDep},
         NEW act \in Actions, act.kind # "comm", NEW w \in Nat, w \notin DOMAIN work[h],
         NEW p, p = StreamOps(h, s, n, on, act, w), NEW id, id = StreamId(h, s, n)
  PROVE  \E B, G, H : OneBegun(p, B, G, H, h, s, n, id, on, w)
<1>1. HostsTypes /\ n \in Nat /\ tail[h][s] \subseteq 0 .. n - 1
  BY BetweenCalls DEF HostsOrder, TailsBelow
<1>2. PICK o, B : /\ o = AddOp(on \cup TailAfter(h, s, n), act, clock[h], w)
                  /\ B = FlushPairs(h, s, n) \cup {<<id, o>>}
  OBVIOUS
<1>3. /\ Carries(p, n, id + 1, B) /\ id \in Nat /\ n <= id /\ TailAfter(h, s, n) \subseteq Nat
      /\ o.act = act /\ o.w = w /\ o.t = clock[h] /\ o.deps = on \cup TailAfter(h, s, n)
  <2>1. PICK b \in Nat : b = n
    BY <1>1
  <2>2. tail[h][s] \subseteq 0 .. b - 1 /\ on \subseteq 0 .. b - 1 \cup {NoneDep}
    BY <1>1, <2>1
  <2>3. StreamCarried(h, s, b, on, act, w, id, o, p, B)
    BY <1>1, <1>2, <2>1, <2>2, StreamCarries
  <2>4. QED
    BY <2>1, <2>3 DEF StreamCarried
<1>4. PICK G, H : Begun(p, B, G, H)
  BY <1>3, CallBegins
<1>5. Holds(H, B) /\ WorkOrder({}, G, h) /\ Within(G, H)
  BY <1>4 DEF Begun
<1>6. id \in H.solid /\ \A d \in o.deps \cap Nat : <<d, id>> \in H.edges
  <2>1. PICK x \in B : x = <<id, o>>
    BY <1>2
  <2>2. x[1] = id /\ x[2] = o
    BY <2>1
  <2>3. QED
    BY <1>3, <1>5, <2>2 DEF Holds
<1>7. PlacedAt(B, H, h, s, n, id, id)
  <2>1. \A x \in B : x \in FlushPairs(h, s, n) \/ x[2].w \notin DOMAIN work[h]
    BY <1>2, <1>3
  <2>2. QED
    BY <1>1, <1>2, <1>3, <1>6, <2>1 DEF PlacedAt
<1>8. \A x \in B : x[1] = id => x[2].t = clock[h]
  <2>1. \A x \in FlushPairs(h, s, n) : x[1] < id
    BY <1>1, FlushCarries
  <2>2. QED
    BY <1>2, <1>3, <2>1
<1>9. w = Len(work[h]) + 1 => OwnEvents(B, h, id, id)
  <2>1. PICK last : last = LastOf(h, s, n)
    OBVIOUS
  <2>2. \A x \in FlushPairs(h, s, n) : x[2].w \in DOMAIN work[h]
    BY <1>1, <1>5, <1>7, <2>1, PlacedOrder
  <2>3. {x \in B : x[2].w = w} = {<<id, o>>}
    BY <1>2, <1>3, <2>2
  <2>4. {x[1] : x \in {<<id, o>>}} = {id}
    OBVIOUS
  <2>5. w = Len(work[h]) + 1 =>
          {x[1] : x \in {x \in B : x[2].w = Len(work[h]) + 1}} = {id}
    BY <2>3, <2>4
  <2>6. QED
    BY <2>5 DEF OwnEvents
<1>10. QED
  BY <1>3, <1>4, <1>6, <1>7, <1>8, <1>9 DEF OneBegun

\* What every call has: it is made between calls.
LEMMA CallFrom ==
  ASSUME HostsOrder, NEW h \in Hosts, NEW p, NEW next, NEW id, Calls(h, p, next, id), NEW n, n = cnt
  PROVE  /\ call = NoCall /\ UNCHANGED vars /\ HostsInv /\ HostsTypes /\ HistoryTypes
         /\ n \in Nat /\ TailsBelow(n) /\ OwnIds(h) \subseteq 0 .. n - 1 /\ 0 \notin DOMAIN work[h]
<1>1. HostsInv /\ HistoryTypes
  BY DEF HostsOrder
<1>2. call = NoCall /\ UNCHANGED vars
  BY DEF Calls, Call
<1>3. 0 \notin DOMAIN work[h]
  <2>1. PICK q \in Seq(Works) : q = work[h]
    BY <1>1 DEF HistoryTypes
  <2>2. QED
    BY <2>1
<1>4. QED
  BY <1>1, <1>2, <1>3, BetweenCalls

\* cuda_memcpy_async and the like.
LEMMA MemcpyOrder ==
  ASSUME HostsOrder, HostsInv', HistoryTypes', NEW h \in Hosts, NEW s \in Streams,
         NEW d \in Durations, MemcpyAsync(h, s, d)
  PROVE  HostsOrder'
<1>1. PICK n : n = cnt
  OBVIOUS
<1>2. PICK w : w = Len(work[h]) + 1
  OBVIOUS
<1>3. PICK act \in Actions : act = Comp(d) /\ act.kind # "comm"
  BY CallActions
<1>4. PICK p, id : p = StreamOps(h, s, n, {}, act, w) /\ id = StreamId(h, s, n)
  OBVIOUS
<1>5. /\ Async(h, p) /\ Flushed(h, {s}) /\ Advance(h, s, id) /\ NewWork(h, s)
      /\ UNCHANGED <<idOf, ask, reply>>
  BY <1>1, <1>2, <1>3, <1>4 DEF MemcpyAsync, Async
<1>6. Calls(h, p, "return", None)
  BY <1>5, AsyncCalls
<1>7. call = NoCall /\ UNCHANGED vars /\ HostsTypes /\ HistoryTypes
  BY <1>1, <1>6, CallFrom
<1>8. w \in Nat /\ w \notin DOMAIN work[h]
  <2>1. NotedWork(h, s, w)
    BY <1>2, <1>5, <1>7, WorkNoted
  <2>2. QED
    BY <1>2, <1>7, <2>1, NextWork DEF NotedWork
<1>9. PICK B, G, H : OneBegun(p, B, G, H, h, s, n, id, {}, w)
  BY <1>1, <1>3, <1>4, <1>7, <1>8, OneBegins
<1>10. PICK last : last = LastOf(h, s, n)
  OBVIOUS
<1>11. /\ Begun(p, B, G, H) /\ PlacedAt(B, H, h, s, n, id, id) /\ OwnEvents(B, h, id, id)
       /\ Within(G, H) /\ Holds(H, B) /\ WorkOrder({}, G, h)
  BY <1>2, <1>9 DEF OneBegun, Begun
<1>12. Moves(H, last[s], {id}) /\ OwnBehind(B, H, h, s, id, id)
  BY <1>7, <1>10, <1>11, PlacedOrder
<1>13. Closes(B, H, h, {s}, last) /\ OthersSame(h)
  BY <1>5, <1>7, <1>10, <1>11, <1>12, WorkCloses
<1>14. AskStep(B, H, h, None, "return")
  BY <1>5 DEF AskStep
<1>15. QED
  BY <1>5, <1>6, <1>10, <1>11, <1>13, <1>14, StreamCallOrder

\* A call that adds a point keeps the invariant.
LEMMA PointCallOrder ==
  ASSUME HostsOrder, HostsInv', HistoryTypes', NEW h \in Hosts, NEW s \in Streams,
         NEW p, NEW next, NEW about, Calls(h, p, next, about),
         NEW B, NEW G, NEW H, NEW n, NEW id, NEW on, OneBegun(p, B, G, H, h, s, n, id, on, 0),
         Flushed(h, {s}), Advance(h, s, id), PointNotes(B, H, h, s, id),
         UNCHANGED reply, AskStep(B, H, h, about, next)
  PROVE  HostsOrder'
<1>1. HostsTypes /\ HistoryTypes
  BY DEF HostsOrder, HostsInv
<1>2. PICK last : last = LastOf(h, s, n)
  OBVIOUS
<1>3. /\ Begun(p, B, G, H) /\ PlacedAt(B, H, h, s, n, id, id)
      /\ Within(G, H) /\ Holds(H, B) /\ WorkOrder({}, G, h)
  BY DEF OneBegun, Begun
<1>4. Moves(H, last[s], {id})
  BY <1>1, <1>2, <1>3, PlacedOrder
<1>5. Closes(B, H, h, {s}, last) /\ OthersSame(h)
  BY <1>1, <1>2, <1>4, PointCloses
<1>6. QED
  BY <1>2, <1>3, <1>5, StreamCallOrder

\* What the program of such a call finds on its stream, and of CUDA events.
LEMMA OneFinds ==
  ASSUME HostsTypes, NEW h \in Hosts, NEW s \in Streams, NEW p, NEW B, NEW G, NEW H, NEW n, NEW id,
         NEW on, NEW w, OneBegun(p, B, G, H, h, s, n, id, on, w)
  PROVE  /\ \A v \in covers[h][s] : CoveredAt(B, H, h, v, {id})
         /\ RecordsCovered(B, H, h) /\ id \in H.solid
<1>1. PICK last : last = LastOf(h, s, n)
  OBVIOUS
<1>2. /\ PlacedAt(B, H, h, s, n, id, id)
      /\ Within(G, H) /\ Holds(H, B) /\ WorkOrder({}, G, h)
  BY DEF OneBegun, Begun
<1>3. FlushedOrder(B, H, h, {s}, last) /\ OwnBehind(B, H, h, s, id, id)
  BY <1>1, <1>2, PlacedOrder
<1>4. QED
  BY <1>2, <1>3 DEF FlushedOrder, OwnBehind, PlacedAt

\* cuda_event_record
LEMMA RecordOrder ==
  ASSUME HostsOrder, HostsInv', HistoryTypes', NEW h \in Hosts, NEW s \in Streams, NEW c,
         EventRecord(h, s, c)
  PROVE  HostsOrder'
<1>1. PICK n : n = cnt
  OBVIOUS
<1>2. PICK act \in Actions : act = Point /\ act.kind # "comm"
  BY CallActions
<1>3. PICK p, id : p = StreamOps(h, s, n, {}, act, 0) /\ id = StreamId(h, s, n)
  OBVIOUS
<1>4. /\ Async(h, p) /\ Flushed(h, {s}) /\ Advance(h, s, id)
      /\ idOf' = [idOf EXCEPT ![h] = Put(idOf[h], c, id)]
      /\ recorded' = [recorded EXCEPT ![h] = Put(recorded[h], c, covers[h][s])]
      /\ UNCHANGED <<work, covers, ask, reply>>
  BY <1>1, <1>2, <1>3 DEF EventRecord, Async
<1>5. Calls(h, p, "return", None)
  BY <1>4, AsyncCalls
<1>6. call = NoCall /\ UNCHANGED vars /\ HostsTypes /\ HistoryTypes /\ 0 \notin DOMAIN work[h]
  BY <1>1, <1>5, CallFrom
<1>7. PICK B, G, H : OneBegun(p, B, G, H, h, s, n, id, {}, 0)
  BY <1>1, <1>2, <1>3, <1>6, OneBegins
<1>8. \A v \in covers[h][s] : CoveredAt(B, H, h, v, {id})
  BY <1>6, <1>7, OneFinds
<1>9. DOMAIN idOf = Hosts /\ DOMAIN recorded = Hosts /\ DOMAIN recorded[h] = DOMAIN idOf[h]
  BY <1>6 DEF HostsTypes, HistoryTypes
<1>10. /\ \A g \in Hosts \ {h} : recorded'[g] = recorded[g] /\ idOf'[g] = idOf[g]
       /\ DOMAIN idOf'[h] = DOMAIN idOf[h] \cup {c}
       /\ idOf'[h][c] = id /\ recorded'[h][c] = covers[h][s]
       /\ \A x \in DOMAIN idOf[h] \ {c} :
            idOf'[h][x] = idOf[h][x] /\ recorded'[h][x] = recorded[h][x]
  BY <1>4, <1>9 DEF Put
<1>11. PointNotes(B, H, h, s, id)
  BY <1>4, <1>8, <1>10 DEF PointNotes
<1>12. AskStep(B, H, h, None, "return")
  BY <1>4 DEF AskStep
<1>13. QED
  BY <1>4, <1>5, <1>7, <1>11, <1>12, PointCallOrder

\* cuda_stream_wait_event
LEMMA WaitEventOrder ==
  ASSUME HostsOrder, HostsInv', HistoryTypes', NEW h \in Hosts, NEW s \in Streams, NEW c,
         StreamWaitEvent(h, s, c)
  PROVE  HostsOrder'
<1>1. PICK n : n = cnt
  OBVIOUS
<1>2. PICK act \in Actions : act = Point /\ act.kind # "comm"
  BY CallActions
<1>3. PICK d, on : d = idOf[h][c] /\ on = {d}
  OBVIOUS
<1>4. PICK p, id : p = StreamOps(h, s, n, on, act, 0) /\ id = StreamId(h, s, n)
  OBVIOUS
<1>5. /\ Async(h, p) /\ Flushed(h, {s}) /\ Advance(h, s, id) /\ c \in DOMAIN idOf[h]
      /\ covers' = [covers EXCEPT ![h][s] = covers[h][s] \cup recorded[h][c]]
      /\ UNCHANGED <<work, idOf, recorded, ask, reply>>
  BY <1>1, <1>2, <1>3, <1>4 DEF StreamWaitEvent, Async
<1>6. Calls(h, p, "return", None)
  BY <1>5, AsyncCalls
<1>7. /\ call = NoCall /\ UNCHANGED vars /\ HostsTypes /\ HistoryTypes /\ 0 \notin DOMAIN work[h]
      /\ n \in Nat /\ OwnIds(h) \subseteq 0 .. n - 1
  BY <1>1, <1>6, CallFrom
<1>8. d \in 0 .. n - 1 /\ on \subseteq 0 .. n - 1 \cup {NoneDep}
  BY <1>3, <1>5, <1>7 DEF OwnIds
<1>9. PICK B, G, H : OneBegun(p, B, G, H, h, s, n, id, on, 0)
  BY <1>1, <1>2, <1>4, <1>7, <1>8, OneBegins
<1>10. RecordsCovered(B, H, h) /\ id \in H.solid
  BY <1>7, <1>9, OneFinds
<1>11. <<d, id>> \in H.edges
  <2>1. d \in on \cap Nat
    BY <1>3, <1>7, <1>8
  <2>2. QED
    BY <1>9, <2>1 DEF OneBegun
<1>12. ASSUME NEW v \in recorded[h][c]
       PROVE  CoveredAt(B, H, h, v, {id})
  <2>1. PICK D : D = EventsOf(B, h, v)
    OBVIOUS
  <2>2. v \in DOMAIN work[h] /\ Covered(H, D, d)
    BY <1>3, <1>5, <1>10, <1>12, <2>1 DEF RecordsCovered, CoveredAt
  <2>3. Covered(H, D, id)
    BY <1>10, <1>11, <2>2, CoveredEdge
  <2>4. QED
    BY <2>1, <2>2, <2>3 DEF CoveredAt
<1>13. /\ \A g \in Hosts \ {h} : covers'[g] = covers[g]
       /\ \A r \in Streams : r # s => covers'[h][r] = covers[h][r]
       /\ covers'[h][s] = covers[h][s] \cup recorded[h][c]
  BY <1>5, <1>7 DEF HistoryTypes
<1>14. \A r \in Streams : \A v \in covers'[h][r] :
         v \in covers[h][r] \/ (r = s /\ CoveredAt(B, H, h, v, {id}))
  BY <1>12, <1>13
<1>15. PointNotes(B, H, h, s, id)
  BY <1>5, <1>13, <1>14 DEF PointNotes
<1>16. AskStep(B, H, h, None, "return")
  BY <1>5 DEF AskStep
<1>17. QED
  BY <1>5, <1>6, <1>9, <1>15, <1>16, PointCallOrder

\* What a synchronization or a query asks for.
AskIs(h, id, next, must) ==
  ask' = [ask EXCEPT ![h] = [kind |-> next, id |-> id, at |-> clock[h], time |-> 0, must |-> must]]

\* It is covered by the event it is about.
AskFits(B, H, h, id, next, must) ==
  /\ next \in {"sync", "eventSync", "query"} /\ id \in Nat \cup {None} /\ must \in SUBSET Nat
  /\ \A v \in must : CoveredAt(B, H, h, v, {id})
  /\ next = "sync" => id \in Nat /\ id >= cnt /\ \A x \in B : x[1] = id => x[2].t = clock[h]

LEMMA AskSteps ==
  ASSUME HostsTypes, HistoryTypes, UNCHANGED work, NEW h \in Hosts, NEW B, NEW H,
         NEW id, NEW next, NEW must, AskIs(h, id, next, must), AskFits(B, H, h, id, next, must)
  PROVE  AskStep(B, H, h, id, next)
<1>1. PICK t \in Nat : t = clock[h]
  BY DEF HostsTypes
<1>2. PICK a : a = [kind |-> next, id |-> id, at |-> t, time |-> 0, must |-> must]
  OBVIOUS
<1>3. a \in Asks /\ a.id = id /\ a.kind = next /\ a.at = t /\ a.must = must
  <2>1. 0 \in Nat
    OBVIOUS
  <2>2. /\ next \in {"none", "sync", "eventSync", "query"} /\ id \in Nat \cup {None}
        /\ must \in SUBSET Nat
    BY DEF AskFits
  <2>3. QED
    BY <1>2, <2>1, <2>2 DEF Asks
<1>4. WorkSame(B, h)
  <2>1. CallWork(h)
    BY DEF CallWork
  <2>2. QED
    BY <2>1, CallWorkSame
<1>5. PICK T : T = {id}
  OBVIOUS
<1>6. \A v \in must : CoveredAt(B, H, h, v, T)
  BY <1>5 DEF AskFits
<1>7. \A v \in must : CoveredAt(B, H, h, v, T)'
  BY <1>4, <1>6, CoveredSame
<1>8. \A v \in must : CoveredAt(B, H, h, v, {id})'
  BY <1>5, <1>7
<1>9. next # "return" /\ ask' = [ask EXCEPT ![h] = a]
  BY <1>1, <1>2 DEF AskIs, AskFits
<1>10. Asked(B, H, h, id, next, a)
  BY <1>1, <1>3, <1>8 DEF Asked, AskFits
<1>11. QED
  BY <1>9, <1>10 DEF AskStep

\* cuda_stream_synchronize
LEMMA StreamSyncOrder ==
  ASSUME HostsOrder, HostsInv', HistoryTypes', NEW h \in Hosts, NEW s \in Streams,
         StreamSynchronize(h, s)
  PROVE  HostsOrder'
<1>1. PICK n : n = cnt
  OBVIOUS
<1>2. PICK act \in Actions : act = Point /\ act.kind # "comm"
  BY CallActions
<1>3. PICK p, id : p = StreamOps(h, s, n, {}, act, 0) /\ id = StreamId(h, s, n)
  OBVIOUS
<1>4. /\ Ask(h, p, "sync", id, "sync", covers[h][s])
      /\ Flushed(h, {s}) /\ Advance(h, s, id) /\ UNCHANGED idOf
  BY <1>1, <1>2, <1>3 DEF StreamSynchronize
<1>5. Calls(h, p, "sync", id)
  BY <1>4, AskCalls DEF CallKinds
<1>6. AskIs(h, id, "sync", covers[h][s]) /\ UNCHANGED <<work, covers, recorded, reply>>
  BY <1>4 DEF Ask, AskIs
<1>7. call = NoCall /\ UNCHANGED vars /\ HostsTypes /\ HistoryTypes /\ 0 \notin DOMAIN work[h]
  BY <1>1, <1>5, CallFrom
<1>8. PICK B, G, H : OneBegun(p, B, G, H, h, s, n, id, {}, 0)
  BY <1>1, <1>2, <1>3, <1>7, OneBegins
<1>9. PointNotes(B, H, h, s, id)
  BY <1>4, <1>6 DEF PointNotes
<1>10. AskFits(B, H, h, id, "sync", covers[h][s])
  <2>1. covers[h][s] \in SUBSET Nat
    BY <1>7 DEF HistoryTypes
  <2>2. \A v \in covers[h][s] : CoveredAt(B, H, h, v, {id})
    BY <1>7, <1>8, OneFinds
  <2>3. QED
    BY <1>1, <1>8, <2>1, <2>2 DEF AskFits, OneBegun
<1>11. AskStep(B, H, h, id, "sync")
  <2>1. PICK must : must = covers[h][s]
    OBVIOUS
  <2>2. QED
    BY <1>6, <1>7, <1>10, <2>1, AskSteps
<1>12. QED
  BY <1>4, <1>5, <1>6, <1>8, <1>9, <1>11, PointCallOrder

-----------------------------------------------------------------------------
(***************************************************************************)
(* The calls that ask, and flush any number of streams.                    *)
(***************************************************************************)

\* The streams in S are flushed, and nothing is noted.
AskNotes(h, S, last) ==
  /\ UNCHANGED <<work, covers, recorded, idOf, reply>>
  /\ \A s \in Streams : /\ buffered'[h][s] = (IF s \in S THEN << >> ELSE buffered[h][s])
                        /\ tail'[h][s] = last[s] /\ (s \notin S => tail[h][s] = last[s])
  /\ \A g \in Hosts \ {h} : tail'[g] = tail[g] /\ buffered'[g] = buffered[g]

LEMMA AskCloses ==
  ASSUME HistoryTypes, NEW h \in Hosts, NEW S, NEW last, AskNotes(h, S, last),
         NEW B, NEW H, FlushedOrder(B, H, h, S, last)
  PROVE  Closes(B, H, h, S, last) /\ OthersSame(h)
<1>1. CallWork(h) /\ work' = work
  BY DEF AskNotes, CallWork
<1>2. \A s \in Streams : Moves(H, last[s], tail'[h][s]) /\ (s \notin S => tail'[h][s] = last[s])
  BY DEF AskNotes, Moves
<1>3. DOMAIN work'[h] \ DOMAIN work[h] = {}
  BY <1>1
<1>4. Closes(B, H, h, S, last)
  BY <1>1, <1>2, <1>3 DEF Closes, AskNotes
<1>5. OthersSame(h)
  BY DEF OthersSame, AskNotes
<1>6. QED
  BY <1>4, <1>5

\* The streams that are flushed, and what their last events are then.
FlushBegun(p, B, G, H, h, S, bs, last) ==
  Begun(p, B, G, H) /\ Flushes(B, h, S, bs) /\ LastEvents(h, S, bs, last)

LEMMA BegunFlushed ==
  ASSUME HostsTypes, NEW h \in Hosts, NEW p, NEW B, NEW G, NEW H, NEW S, NEW bs, NEW last,
         FlushBegun(p, B, G, H, h, S, bs, last)
  PROVE  FlushedOrder(B, H, h, S, last)
<1>1. /\ Within(G, H) /\ Holds(H, B) /\ WorkOrder({}, G, h)
      /\ Flushes(B, h, S, bs) /\ LastEvents(h, S, bs, last)
  BY DEF FlushBegun, Begun
<1>2. QED
  BY <1>1, FlushOrder

\* A call that asks for what is covered keeps the invariant.
LEMMA AskOrder ==
  ASSUME HostsOrder, HostsInv', HistoryTypes', NEW h \in Hosts,
         NEW p, NEW next, NEW id, Calls(h, p, next, id), NEW B, NEW G, NEW H, NEW S, NEW bs, NEW last,
         FlushBegun(p, B, G, H, h, S, bs, last), AskNotes(h, S, last),
         NEW must, AskIs(h, id, next, must), AskFits(B, H, h, id, next, must)
  PROVE  HostsOrder'
<1>1. HostsTypes /\ HistoryTypes
  BY DEF HostsOrder, HostsInv
<1>2. FlushedOrder(B, H, h, S, last) /\ Begun(p, B, G, H)
  BY <1>1, BegunFlushed DEF FlushBegun
<1>3. Closes(B, H, h, S, last) /\ OthersSame(h)
  BY <1>1, <1>2, AskCloses
<1>4. WorkOrder(B, H, h)' /\ KeepsEvents({}, B, h)
  BY <1>1, <1>2, <1>3, CloseOrder
<1>5. UNCHANGED <<work, reply>>
  BY DEF AskNotes
<1>6. AskStep(B, H, h, id, next)
  BY <1>1, <1>5, AskSteps
<1>7. QED
  BY <1>2, <1>3, <1>4, <1>5, <1>6, CallOrder

\* cuda_event_synchronize and cuda_event_query
LEMMA EventAskOrder ==
  ASSUME HostsOrder, HostsInv', HistoryTypes', NEW h \in Hosts, NEW c,
         EventSynchronize(h, c) \/ EventQuery(h, c)
  PROVE  HostsOrder'
<1>1. PICK id, must : id = idOf[h][c] /\ must = recorded[h][c]
  OBVIOUS
<1>2. PICK next \in {"eventSync", "query"} :
        /\ Ask(h, << >>, next, id, next, must)
        /\ UNCHANGED <<tail, buffered, idOf>> /\ c \in DOMAIN idOf[h]
  BY <1>1 DEF EventSynchronize, EventQuery
<1>3. PICK p : p = << >>
  OBVIOUS
<1>4. PICK n : n = cnt
  OBVIOUS
<1>5. Calls(h, p, next, id)
  BY <1>2, <1>3, AskCalls DEF CallKinds
<1>6. /\ call = NoCall /\ UNCHANGED vars /\ HostsTypes /\ HistoryTypes /\ n \in Nat
      /\ OwnIds(h) \subseteq 0 .. n - 1
  BY <1>4, <1>5, CallFrom
<1>7. Carries(p, n, n, {})
  <2>1. p \in Seq(Operations) /\ Len(p) = 0
    BY <1>3
  <2>2. \A i \in 1 .. Len(p) : p[i].op # "add"
    BY <2>1
  <2>3. QED
    BY <1>6, <2>1, <2>2, CarriesNone
<1>8. PICK G, H : Begun(p, {}, G, H)
  BY <1>4, <1>6, <1>7, CallBegins
<1>9. PICK last, bs : last = tail[h] /\ bs = << >>
  OBVIOUS
<1>10. FlushBegun(p, {}, G, H, h, {}, bs, last)
  BY <1>8, <1>9 DEF FlushBegun, Flushes, LastEvents
<1>11. AskNotes(h, {}, last)
  BY <1>2, <1>9 DEF AskNotes, Ask
<1>12. AskFits({}, H, h, id, next, must)
  <2>1. id \in Nat
    <3>1. id \in OwnIds(h)
      BY <1>1, <1>2 DEF OwnIds
    <3>2. QED
      BY <1>6, <3>1
  <2>2. must \in SUBSET Nat
    BY <1>1, <1>2, <1>6 DEF HistoryTypes
  <2>3. RecordsCovered({}, H, h)
    BY <1>6, <1>10, BegunFlushed DEF FlushedOrder
  <2>4. \A v \in must : CoveredAt({}, H, h, v, {id})
    BY <1>1, <1>2, <2>3 DEF RecordsCovered
  <2>5. QED
    BY <2>1, <2>2, <2>4 DEF AskFits
<1>13. AskIs(h, id, next, must)
  BY <1>2 DEF Ask, AskIs
<1>14. QED
  BY <1>5, <1>10, <1>11, <1>12, <1>13, AskOrder

\* cuda_stream_query
LEMMA StreamQueryOrder ==
  ASSUME HostsOrder, HostsInv', HistoryTypes', NEW h \in Hosts, NEW s \in Streams,
         StreamQuery(h, s)
  PROVE  HostsOrder'
<1>1. PICK n, p, T : n = cnt /\ p = FlushOps(h, s, n) /\ T = TailAfter(h, s, n)
  OBVIOUS
<1>2. PICK id, must : id = (IF T = {} THEN None ELSE CHOOSE e \in T : TRUE) /\ must = covers[h][s]
  OBVIOUS
<1>3. /\ Ask(h, p, "query", id, "query", must)
      /\ Flushed(h, {s}) /\ tail' = [tail EXCEPT ![h][s] = T] /\ UNCHANGED idOf
  BY <1>1, <1>2 DEF StreamQuery
<1>4. Calls(h, p, "query", id)
  BY <1>3, AskCalls DEF CallKinds
<1>5. /\ call = NoCall /\ UNCHANGED vars /\ HostsTypes /\ HistoryTypes /\ n \in Nat
      /\ tail[h][s] \subseteq 0 .. n - 1
  BY <1>1, <1>4, CallFrom DEF TailsBelow
<1>6. PICK B, k : B = FlushPairs(h, s, n) /\ k = StreamId(h, s, n)
  OBVIOUS
<1>7. Carries(p, n, k, B) /\ k \in Nat /\ T \subseteq 0 .. k - 1
  BY <1>1, <1>5, <1>6, FlushCarries
<1>8. PICK G, H : Begun(p, B, G, H)
  BY <1>1, <1>5, <1>7, CallBegins
<1>9. PICK last, bs : last = LastOf(h, s, n) /\ bs = [r \in {s} |-> n]
  OBVIOUS
<1>10. bs[s] = n /\ last[s] = T
  BY <1>1, <1>9 DEF LastOf
<1>11. FlushBegun(p, B, G, H, h, {s}, bs, last)
  <2>1. Flushes(B, h, {s}, bs)
    BY <1>5, <1>6, <1>10 DEF Flushes
  <2>2. LastEvents(h, {s}, bs, last)
    BY <1>9, <1>10 DEF LastEvents, LastOf
  <2>3. QED
    BY <1>8, <2>1, <2>2 DEF FlushBegun
<1>12. AskNotes(h, {s}, last)
  <2>1. UNCHANGED <<work, covers, recorded, idOf, reply>>
    BY <1>3 DEF Ask
  <2>2. tail' = [tail EXCEPT ![h] = [tail[h] EXCEPT ![s] = T]]
    BY <1>3
  <2>3. tail \in [Hosts -> [Streams -> SUBSET Nat]]
    BY <1>5 DEF HostsTypes
  <2>4. /\ tail'[h][s] = T /\ \A r \in Streams : r # s => tail'[h][r] = tail[h][r]
        /\ \A g \in Hosts \ {h} : tail'[g] = tail[g]
    BY <2>2, <2>3
  <2>5. PICK new : new = [r \in Streams |-> IF r \in {s} THEN << >> ELSE buffered[h][r]]
    OBVIOUS
  <2>6. buffered' = [buffered EXCEPT ![h] = new] /\ DOMAIN buffered = Hosts
    BY <1>3, <1>5, <2>5 DEF Flushed, HostsTypes
  <2>7. buffered'[h] = new /\ \A g \in Hosts \ {h} : buffered'[g] = buffered[g]
    BY <2>6
  <2>8. \A r \in Streams : r # s => last[r] = tail[h][r]
    BY <1>9 DEF LastOf
  <2>9. QED
    BY <1>10, <2>1, <2>4, <2>5, <2>7, <2>8 DEF AskNotes
<1>13. AskFits(B, H, h, id, "query", must)
  <2>1. must \in SUBSET Nat
    BY <1>2, <1>5 DEF HistoryTypes
  <2>2. T # {} => id \in T
    BY <1>2
  <2>3. id \in Nat \cup {None}
    <3>1. T \subseteq Nat
      BY <1>7
    <3>2. CASE T = {}
      BY <1>2, <3>2
    <3>3. CASE T # {}
      BY <2>2, <3>1, <3>3
    <3>4. QED
      BY <3>2, <3>3
  <2>4. ASSUME NEW v \in must
        PROVE  CoveredAt(B, H, h, v, {id})
    <3>1. CoveredAt(B, H, h, v, last[s])
      BY <1>2, <1>5, <1>11, BegunFlushed DEF FlushedOrder
    <3>2. v \in DOMAIN work[h] /\ T # {} /\ \A e \in T : Covered(H, EventsOf(B, h, v), e)
      BY <1>10, <3>1 DEF CoveredAt
    <3>3. QED
      BY <2>2, <3>2 DEF CoveredAt
  <2>5. QED
    BY <2>1, <2>3, <2>4 DEF AskFits
<1>14. AskIs(h, id, "query", must)
  BY <1>3 DEF Ask, AskIs
<1>15. QED
  BY <1>4, <1>11, <1>12, <1>13, <1>14, AskOrder

\* The events of the first i streams of a device, flushed in order o.
DevicePairs(h, o, ops, n, i) == UNION {FlushPairs(h, o[j], n + Len(ops[j - 1])) : j \in 1 .. i}

DeviceCarried(h, o, ops, n, i) ==
  /\ Carries(ops[i], n, n + Len(ops[i]), DevicePairs(h, o, ops, n, i))
  /\ \A x \in DevicePairs(h, o, ops, n, i) : x[1] < n + Len(ops[i])

\* One more stream.
LEMMA DeviceCarriesStep ==
  ASSUME HostsTypes, NEW h \in Hosts, NEW n \in Nat, n = cnt, TailsBelow(n),
         NEW o \in Seq(Streams), NEW ops, FlushesTo(h, o, ops, Len(o)),
         NEW i \in 1 .. Len(o), DeviceAdded(h, o, ops, n, i - 1), DeviceCarried(h, o, ops, n, i - 1)
  PROVE  DeviceCarried(h, o, ops, n, i)
<1>1. Len(o) \in Nat /\ i \in 0 .. Len(o) /\ i # 0 /\ o[i] \in Streams
  OBVIOUS
<1>2. PICK s, p : s \in Streams /\ s = o[i] /\ p = ops[i - 1]
  BY <1>1
<1>3. Len(p) \in Nat
  BY <1>2 DEF DeviceAdded, AddsFrom
<1>4. PICK m \in Nat : m = n + Len(p)
  BY <1>3
<1>5. PICK A, C : A = DevicePairs(h, o, ops, n, i - 1) /\ C = FlushPairs(h, s, m)
  OBVIOUS
<1>6. Carries(p, n, m, A) /\ \A x \in A : x[1] < m
  BY <1>2, <1>4, <1>5 DEF DeviceCarried
<1>7. tail[h][s] \subseteq 0 .. m - 1
  <2>1. tail[h][s] \subseteq 0 .. n - 1
    BY <1>2 DEF TailsBelow
  <2>2. 0 .. n - 1 \subseteq 0 .. m - 1
    BY <1>3, <1>4
  <2>3. QED
    BY <2>1, <2>2
<1>8. PICK q, k : q = FlushOps(h, s, m) /\ k = StreamId(h, s, m)
  OBVIOUS
<1>9. Carries(q, m, k, C) /\ k \in Nat /\ m <= k /\ \A x \in C : x[1] < k
  BY <1>2, <1>5, <1>7, <1>8, FlushCarries
<1>10. Carries(p \o q, n, k, A \cup C)
  BY <1>6, <1>9, CarriesBoth
<1>11. ops[i] = p \o q
  <2>1. i <= Len(o)
    BY <1>1
  <2>2. ops[i] = p \o FlushOps(h, s, cnt + Len(p))
    BY <1>1, <1>2, <2>1 DEF FlushesTo
  <2>3. cnt + Len(p) = m
    BY <1>4
  <2>4. QED
    BY <1>8, <2>2, <2>3
<1>12. n + Len(ops[i]) = k
  <2>1. p \in Seq(Operations) /\ q \in Seq(Operations)
    BY <1>6, <1>9 DEF Carries
  <2>2. Len(ops[i]) = Len(p) + Len(q)
    BY <1>11, <2>1
  <2>3. Len(q) = Len(buffered[h][s])
    BY <1>2, <1>7, <1>8, FlushAdds
  <2>4. Len(q) \in Nat
    BY <2>1
  <2>5. k = m + Len(q)
    BY <1>8, <2>3 DEF StreamId
  <2>6. QED
    BY <1>3, <1>4, <2>2, <2>4, <2>5
<1>13. DevicePairs(h, o, ops, n, i) = A \cup C
  <2>1. \A j : j \in 1 .. i <=> j \in 1 .. i - 1 \/ j = i
    BY <1>1
  <2>2. FlushPairs(h, o[i], n + Len(ops[i - 1])) = C
    BY <1>2, <1>4, <1>5
  <2>3. QED
    BY <1>5, <2>1, <2>2 DEF DevicePairs
<1>14. \A x \in A \cup C : x[1] < k
  <2>1. ASSUME NEW x \in A
        PROVE  x[1] < k
    <3>1. n + Len(p) - 1 < k /\ x[1] < m
      BY <1>3, <1>4, <1>6, <1>9
    <3>2. PICK y \in A : y = x
      OBVIOUS
    <3>3. x[1] \in Int
      <4>1. PICK num : Numbered(p, n, num) /\ A = Soon(p, num)
        BY <1>6 DEF Carries
      <4>2. PICK j \in 1 .. Len(p) : x = <<num[j], p[j]>>
        BY <4>1 DEF Soon
      <4>3. num[j] \in Nat
        <5>1. j \in 1 .. Len(p) + 1
          BY <1>3
        <5>2. QED
          BY <4>1, <5>1 DEF Numbered
      <4>4. QED
        BY <4>2, <4>3
    <3>4. QED
      BY <1>4, <1>9, <3>1, <3>3
  <2>2. QED
    BY <1>9, <2>1
<1>15. QED
  BY <1>10, <1>11, <1>12, <1>13, <1>14 DEF DeviceCarried

\* So it is for the whole device.
LEMMA DeviceCarries ==
  ASSUME HostsTypes, NEW h \in Hosts, NEW n \in Nat, n = cnt, TailsBelow(n),
         NEW o \in Seq(Streams), NEW ops, ops = DeviceOps(h, o)
  PROVE  DeviceCarried(h, o, ops, n, Len(o))
<1> DEFINE Bad == {i \in Nat : i \in 0 .. Len(o) /\ ~ DeviceCarried(h, o, ops, n, i)}
<1>1. Len(o) \in Nat /\ Len(o) \in 0 .. Len(o)
  OBVIOUS
<1>2. FlushesTo(h, o, ops, Len(o)) /\ \A i \in 0 .. Len(o) : DeviceAdded(h, o, ops, n, i)
  BY <1>1, DeviceOpsStep, DeviceAdds
<1>3. DeviceCarried(h, o, ops, n, 0)
  <2>1. ops[0] = << >>
    <3>1. 0 \in 0 .. Len(o) /\ 0 <= Len(o)
      BY <1>1
    <3>2. QED
      BY <1>2, <3>1 DEF FlushesTo
  <2>2. PICK p : p = ops[0]
    OBVIOUS
  <2>3. p \in Seq(Operations) /\ Len(p) = 0
    BY <2>1, <2>2
  <2>4. \A i \in 1 .. Len(p) : p[i].op # "add"
    BY <2>3
  <2>5. Carries(p, n, n, {})
    BY <2>3, <2>4, CarriesNone
  <2>6. DevicePairs(h, o, ops, n, 0) = {}
    BY DEF DevicePairs
  <2>7. n + Len(p) = n
    BY <2>3
  <2>8. QED
    BY <2>2, <2>5, <2>6, <2>7 DEF DeviceCarried
<1>4. Bad = {}
  <2> SUFFICES ASSUME Bad # {} PROVE FALSE
    OBVIOUS
  <2>1. PICK i \in Bad : \A j \in Bad : i <= j
    BY LeastNumber
  <2>2. i \in Nat /\ i \in 0 .. Len(o) /\ ~ DeviceCarried(h, o, ops, n, i) /\ i # 0
    BY <1>3, <2>1
  <2>3. /\ i \in 1 .. Len(o) /\ i - 1 \in Nat /\ i - 1 \in 0 .. Len(o) /\ ~ (i <= i - 1)
    BY <1>1, <2>2
  <2>4. DeviceCarried(h, o, ops, n, i - 1)
    <3>1. i - 1 \notin Bad
      BY <2>1, <2>3
    <3>2. QED
      BY <2>3, <3>1
  <2>5. DeviceCarried(h, o, ops, n, i)
    BY <1>2, <2>3, <2>4, DeviceCarriesStep
  <2>6. QED
    BY <2>2, <2>5
<1>5. QED
  BY <1>1, <1>4

\* Every stream of the device is visited, and once.
LEMMA OrdersVisit ==
  ASSUME NEW S \in SUBSET Streams, NEW o \in SetToSeqs(S)
  PROVE  Range(o) = S /\ \A i, j \in DOMAIN o : o[i] = o[j] => i = j
<1>1. PICK c \in Nat : c = Cardinality(S)
  BY PartCardinality, HostsAssumption
<1>2. o \in [1 .. c -> S] /\ \A i, j \in 1 .. c : i # j => o[i] # o[j]
  BY <1>1 DEF SetToSeqs
<1>3. PICK D : D = 1 .. c
  OBVIOUS
<1>4. o \in Injection(D, S)
  BY <1>2, <1>3 DEF Injection, IsInjective
<1>5. IsFiniteSet(S)
  BY FS_Subset, HostsAssumption
<1>6. Cardinality(D) = c
  BY <1>3, FS_Interval
<1>7. o \in Surjection(D, S)
  BY <1>1, <1>4, <1>5, <1>6, FS_Injection
<1>8. Range(o) = S
  BY <1>2, <1>3, <1>7 DEF Surjection, Range
<1>9. QED
  BY <1>2, <1>8

\* What flushing a device adds, and where its streams' events start.
DeviceFlushed(h, S, f, n, A, bs) ==
  /\ Carries(f.ops, n, n + Len(f.ops), A)
  /\ \A x \in A : x[1] < n + Len(f.ops)
  /\ \A s \in S : bs[s] \in Nat /\ FlushPairs(h, s, bs[s]) \subseteq A
  /\ \A x \in A : \E s \in S : x \in FlushPairs(h, s, bs[s])
  /\ LastEvents(h, S, bs, f.tail)

LEMMA DeviceFlushes ==
  ASSUME HostsTypes, NEW h \in Hosts, NEW n \in Nat, n = cnt, TailsBelow(n),
         NEW S \in SUBSET Streams, NEW o \in SetToSeqs(S), NEW f, f = FlushDevice(h, o)
  PROVE  \E A, bs : DeviceFlushed(h, S, f, n, A, bs)
<1>1. PICK ops : ops = DeviceOps(h, o)
  OBVIOUS
<1>2. o \in Seq(Streams) /\ Range(o) = S /\ \A i, j \in DOMAIN o : o[i] = o[j] => i = j
  BY OrdersAreSequences, OrdersVisit
<1>3. Len(o) \in Nat /\ DOMAIN o = 1 .. Len(o)
  BY <1>2
<1>4. /\ f.ops = ops[Len(o)]
      /\ f.tail = [s \in Streams |->
                    IF s \in Range(o)
                    THEN TailAfter(h, s, cnt + Len(ops[(CHOOSE i \in DOMAIN o : o[i] = s) - 1]))
                    ELSE tail[h][s]]
  BY <1>1 DEF FlushDevice
<1>5. PICK A : A = DevicePairs(h, o, ops, n, Len(o))
  OBVIOUS
<1>6. Carries(f.ops, n, n + Len(f.ops), A) /\ \A x \in A : x[1] < n + Len(f.ops)
  <2>1. DeviceCarried(h, o, ops, n, Len(o))
    BY <1>1, <1>2, DeviceCarries
  <2>2. QED
    BY <1>4, <1>5, <2>1 DEF DeviceCarried
<1>7. PICK at : at = [s \in S |-> CHOOSE i \in DOMAIN o : o[i] = s]
  OBVIOUS
<1>8. \A s \in S : at[s] \in 1 .. Len(o) /\ o[at[s]] = s
  <2>1. ASSUME NEW s \in S
        PROVE  at[s] \in DOMAIN o /\ o[at[s]] = s
    <3>1. \E i \in DOMAIN o : o[i] = s
      BY <1>2 DEF Range
    <3>2. at[s] = CHOOSE i \in DOMAIN o : o[i] = s
      BY <1>7
    <3>3. QED
      BY <3>1, <3>2
  <2>2. QED
    BY <1>3, <2>1
<1>9. PICK bs : bs = [s \in S |-> n + Len(ops[at[s] - 1])]
  OBVIOUS
<1>10. \A i \in 0 .. Len(o) : Len(ops[i]) \in Nat
  <2>1. \A i \in 0 .. Len(o) : DeviceAdded(h, o, ops, n, i)
    BY <1>1, <1>2, DeviceAdds
  <2>2. QED
    BY <2>1 DEF DeviceAdded, AddsFrom
<1>11. ASSUME NEW s \in S
       PROVE  bs[s] \in Nat /\ FlushPairs(h, s, bs[s]) \subseteq A
  <2>1. PICK i \in 1 .. Len(o) : i = at[s] /\ o[i] = s
    BY <1>8
  <2>2. i - 1 \in 0 .. Len(o)
    BY <1>3
  <2>3. bs[s] = n + Len(ops[i - 1]) /\ Len(ops[i - 1]) \in Nat
    BY <1>9, <1>10, <2>1, <2>2
  <2>4. FlushPairs(h, o[i], n + Len(ops[i - 1])) \subseteq A
    BY <1>5 DEF DevicePairs
  <2>5. QED
    BY <2>1, <2>3, <2>4
<1>12. ASSUME NEW x \in A
       PROVE  \E s \in S : x \in FlushPairs(h, s, bs[s])
  <2>1. PICK i \in 1 .. Len(o) : x \in FlushPairs(h, o[i], n + Len(ops[i - 1]))
    BY <1>5 DEF DevicePairs
  <2>2. PICK s \in S : s = o[i]
    BY <1>2, <1>3 DEF Range
  <2>3. at[s] = i
    BY <1>2, <1>3, <1>8, <2>2
  <2>4. bs[s] = n + Len(ops[i - 1])
    BY <1>9, <2>3
  <2>5. QED
    BY <2>1, <2>2, <2>4
<1>13. LastEvents(h, S, bs, f.tail)
  <2>1. ASSUME NEW s \in Streams
        PROVE  f.tail[s] = IF s \in S THEN TailAfter(h, s, bs[s]) ELSE tail[h][s]
    <3>1. CASE s \in S
      <4>1. PICK i : i = CHOOSE j \in DOMAIN o : o[j] = s
        OBVIOUS
      <4>2. at[s] = i
        BY <1>7, <3>1, <4>1
      <4>3. f.tail[s] = TailAfter(h, s, cnt + Len(ops[i - 1]))
        BY <1>2, <1>4, <3>1, <4>1
      <4>4. bs[s] = cnt + Len(ops[i - 1])
        BY <1>9, <3>1, <4>2
      <4>5. QED
        BY <3>1, <4>3, <4>4
    <3>2. CASE s \notin S
      BY <1>2, <1>4, <3>2
    <3>3. QED
      BY <3>1, <3>2
  <2>2. QED
    BY <2>1 DEF LastEvents
<1>14. QED
  BY <1>6, <1>11, <1>12, <1>13 DEF DeviceFlushed

\* cuda_device_synchronize
LEMMA DeviceSyncOrder ==
  ASSUME HostsOrder, HostsInv', HistoryTypes', NEW h \in Hosts, NEW dev, DeviceSynchronize(h, dev)
  PROVE  HostsOrder'
<1>1. PICK n, S : n = cnt /\ S = OfDevice(dev)
  OBVIOUS
<1>2. S \in SUBSET Streams /\ S = {s \in Streams : s[1] = dev}
  BY <1>1 DEF OfDevice
<1>3. PICK must : must = UNION {covers[h][s] : s \in S}
  OBVIOUS
<1>4. PICK o \in SetToSeqs(S) :
        LET f == FlushDevice(h, o)
        IN  /\ Ask(h, Append(f.ops, AddOp(UNION {f.tail[s] : s \in S}, Point, clock[h], 0)),
                   "sync", cnt + Len(f.ops), "sync", must)
            /\ Flushed(h, S)
            /\ tail' = [tail EXCEPT ![h] = f.tail]
            /\ UNCHANGED idOf
  BY <1>1, <1>2, <1>3 DEF DeviceSynchronize
<1>5. PICK f : f = FlushDevice(h, o)
  OBVIOUS
<1>6. PICK ops, last, on : ops = f.ops /\ last = f.tail /\ on = UNION {last[s] : s \in S}
  OBVIOUS
<1>7. PICK id, p, a : /\ id = n + Len(ops) /\ a = AddOp(on, Point, clock[h], 0)
                      /\ p = Append(ops, a)
  OBVIOUS
<1>8. Ask(h, p, "sync", id, "sync", must)
  BY <1>1, <1>4, <1>5, <1>6, <1>7
<1>9. Flushed(h, S) /\ tail' = [tail EXCEPT ![h] = last] /\ UNCHANGED idOf
  BY <1>4, <1>5, <1>6
<1>10. Calls(h, p, "sync", id)
  BY <1>8, AskCalls DEF CallKinds
<1>11. /\ call = NoCall /\ UNCHANGED vars /\ HostsTypes /\ HistoryTypes /\ n \in Nat
       /\ TailsBelow(n) /\ 0 \notin DOMAIN work[h]
  BY <1>1, <1>10, CallFrom
<1>12. PICK A, bs : DeviceFlushed(h, S, f, n, A, bs)
  BY <1>1, <1>2, <1>5, <1>11, DeviceFlushes
<1>13. /\ Carries(ops, n, id, A) /\ \A x \in A : x[1] < id
       /\ \A s \in S : bs[s] \in Nat /\ FlushPairs(h, s, bs[s]) \subseteq A
       /\ \A x \in A : \E s \in S : x \in FlushPairs(h, s, bs[s])
       /\ LastEvents(h, S, bs, last)
  BY <1>6, <1>7, <1>12 DEF DeviceFlushed
<1>14. ops \in Seq(Operations) /\ Len(ops) \in Nat /\ id \in Nat /\ n <= id
  <2>1. ops \in Seq(Operations)
    BY <1>13 DEF Carries
  <2>2. QED
    BY <1>7, <1>11, <2>1
<1>15. \A s \in Streams : last[s] \subseteq Nat
  <2>1. o \in Seq(Streams)
    BY <1>2, OrdersAreSequences
  <2>2. \A s \in Streams : last[s] \subseteq 0 .. n + Len(ops) - 1
    BY <1>1, <1>5, <1>6, <1>11, <2>1, FlushDeviceAdds
  <2>3. 0 .. n + Len(ops) - 1 \subseteq Nat
    BY <1>11, <1>14
  <2>4. QED
    BY <2>2, <2>3
<1>16. on \subseteq Nat
  BY <1>2, <1>6, <1>15
<1>17. /\ a \in Operations /\ a.op = "add" /\ a.deps = on /\ a.t = clock[h] /\ a.w = 0
       /\ a.act.kind # "comm"
  <2>1. on \in SUBSET (Nat \cup {NoneDep}) /\ clock[h] \in Nat /\ Point \in Actions /\ Point.kind # "comm"
    BY <1>11, <1>16, CallActions DEF HostsTypes
  <2>2. PICK act \in Actions : act = Point /\ act.kind # "comm"
    BY <2>1
  <2>3. a = AddOp(on, act, clock[h], 0)
    BY <1>7, <2>2
  <2>4. 0 \in Nat
    OBVIOUS
  <2>5. QED
    BY <2>1, <2>2, <2>3, <2>4 DEF AddOp, Operations
<1>18. PICK B : B = A \cup {<<id, a>>}
  OBVIOUS
<1>19. Carries(p, n, id + 1, B)
  <2>1. PICK k \in Nat, x \in Operations : k = id /\ x = a /\ x.op = "add"
    BY <1>14, <1>17
  <2>2. Carries(<<x>>, k, k + 1, {<<k, x>>})
    BY <2>1, CarriesAdd
  <2>3. k + 1 \in Nat
    BY <2>1
  <2>4. Carries(ops \o <<x>>, n, k + 1, A \cup {<<k, x>>})
    BY <1>11, <1>13, <2>1, <2>2, <2>3, CarriesBoth
  <2>5. p = ops \o <<x>>
    BY <1>7, <1>14, <2>1, AppendIsConcat
  <2>6. QED
    BY <1>18, <2>1, <2>4, <2>5
<1>20. PICK G, H : Begun(p, B, G, H)
  BY <1>1, <1>11, <1>19, CallBegins
<1>21. FlushBegun(p, B, G, H, h, S, bs, last)
  <2>1. \A x \in B : x[2].w \in DOMAIN work[h] => \E s \in S : x \in FlushPairs(h, s, bs[s])
    <3>1. \A x \in B : x \in A \/ x[2].w = 0
      BY <1>17, <1>18
    <3>2. QED
      BY <1>11, <1>13, <3>1
  <2>2. Flushes(B, h, S, bs)
    BY <1>2, <1>13, <1>18, <2>1 DEF Flushes
  <2>3. QED
    BY <1>13, <1>20, <2>2 DEF FlushBegun
<1>22. AskNotes(h, S, last)
  <2>1. UNCHANGED <<work, covers, recorded, idOf, reply>>
    BY <1>8, <1>9 DEF Ask
  <2>2. tail'[h] = last /\ \A g \in Hosts \ {h} : tail'[g] = tail[g]
    BY <1>9, <1>11 DEF HostsTypes
  <2>3. PICK new : new = [r \in Streams |-> IF r \in S THEN << >> ELSE buffered[h][r]]
    OBVIOUS
  <2>4. buffered' = [buffered EXCEPT ![h] = new] /\ DOMAIN buffered = Hosts
    BY <1>9, <1>11, <2>3 DEF Flushed, HostsTypes
  <2>5. buffered'[h] = new /\ \A g \in Hosts \ {h} : buffered'[g] = buffered[g]
    BY <2>4
  <2>6. \A s \in Streams : s \notin S => tail[h][s] = last[s]
    BY <1>13 DEF LastEvents
  <2>7. QED
    BY <2>1, <2>2, <2>3, <2>5, <2>6 DEF AskNotes
<1>23. id \in H.solid /\ \A d \in on : <<d, id>> \in H.edges
  <2>1. Holds(H, B)
    BY <1>20 DEF Begun
  <2>2. PICK x \in B : x = <<id, a>>
    BY <1>18
  <2>3. x[1] = id /\ x[2] = a
    BY <2>2
  <2>4. QED
    BY <1>16, <1>17, <2>1, <2>3 DEF Holds
<1>24. ASSUME NEW v \in must
       PROVE  CoveredAt(B, H, h, v, {id})
  <2>1. PICK s \in S : v \in covers[h][s]
    BY <1>3
  <2>2. PICK T, D : T = last[s] /\ D = EventsOf(B, h, v)
    OBVIOUS
  <2>3. CoveredAt(B, H, h, v, T)
    BY <1>2, <1>11, <1>21, <2>1, <2>2, BegunFlushed DEF FlushedOrder
  <2>4. PICK e \in T : v \in DOMAIN work[h] /\ Covered(H, D, e)
    BY <2>2, <2>3 DEF CoveredAt
  <2>5. <<e, id>> \in H.edges
    BY <1>6, <1>23, <2>1, <2>2, <2>4
  <2>6. Covered(H, D, id)
    BY <1>23, <2>4, <2>5, CoveredEdge
  <2>7. QED
    BY <2>2, <2>4, <2>6 DEF CoveredAt
<1>25. AskFits(B, H, h, id, "sync", must)
  <2>1. must \in SUBSET Nat
    BY <1>2, <1>3, <1>11 DEF HistoryTypes
  <2>2. \A x \in B : x[1] = id => x[2].t = clock[h]
    BY <1>13, <1>14, <1>17, <1>18
  <2>3. QED
    BY <1>1, <1>14, <1>24, <2>1, <2>2 DEF AskFits
<1>26. AskIs(h, id, "sync", must)
  BY <1>8 DEF Ask, AskIs
<1>27. QED
  BY <1>10, <1>21, <1>22, <1>25, <1>26, AskOrder

-----------------------------------------------------------------------------
(***************************************************************************)
(* The collectives.                                                        *)
(***************************************************************************)

\* What the program of a collective has of the host's own: the buffered calls
\* of its stream from base on, the collective's start, first, and its end, fin.
NcclEvents(B, h, s, base, first, fin) ==
  /\ base \in Nat /\ FlushPairs(h, s, base) \subseteq B
  /\ \A x \in B : \/ x \in FlushPairs(h, s, base) \/ x[2].w = 0
                  \/ x[2].w = Len(work[h]) + 1 /\ x[1] \in {first, fin}
  /\ \E x \in B : /\ x[1] = first /\ x[2].act.kind # "comm" /\ x[2].w = Len(work[h]) + 1
                  /\ TailAfter(h, s, base) \subseteq x[2].deps \cap Nat
  /\ \E x \in B : x[1] = fin /\ x[2].act.kind # "comm" /\ first \in x[2].deps \cap Nat

LEMMA NcclOrder ==
  ASSUME HostsOrder, HostsInv', HistoryTypes', NEW h \in Hosts, NEW s \in Streams,
         NEW n, n = cnt, NEW p, Async(h, p), NEW k, NEW B, Carries(p, n, k, B),
         NEW base, NEW first, NEW fin, NcclEvents(B, h, s, base, first, fin),
         Flushed(h, {s}), Advance(h, s, fin), NewWork(h, s), UNCHANGED idOf
  PROVE  HostsOrder'
<1>1. Calls(h, p, "return", None) /\ UNCHANGED <<ask, reply>>
  BY AsyncCalls DEF Async
<1>2. call = NoCall /\ UNCHANGED vars /\ HostsTypes /\ HistoryTypes /\ 0 \notin DOMAIN work[h]
  BY <1>1, CallFrom
<1>3. PICK w : w = Len(work[h]) + 1
  OBVIOUS
<1>4. w \notin DOMAIN work[h]
  BY <1>2, <1>3, WorkNoted DEF NotedWork
<1>5. PICK G, H : Begun(p, B, G, H)
  BY <1>2, CallBegins
<1>6. Within(G, H) /\ Holds(H, B) /\ WorkOrder({}, G, h)
  BY <1>5 DEF Begun
<1>7. PICK x \in B : /\ x[1] = first /\ x[2].act.kind # "comm" /\ x[2].w = w
                     /\ TailAfter(h, s, base) \subseteq x[2].deps \cap Nat
  BY <1>3 DEF NcclEvents
<1>8. PICK y \in B : y[1] = fin /\ y[2].act.kind # "comm" /\ first \in y[2].deps \cap Nat
  BY DEF NcclEvents
<1>9. /\ first \in H.solid /\ fin \in H.solid /\ <<first, fin>> \in H.edges
      /\ \A e \in TailAfter(h, s, base) : <<e, first>> \in H.edges
  <2>1. first \in H.solid /\ \A e \in TailAfter(h, s, base) : <<e, first>> \in H.edges
    BY <1>6, <1>7 DEF Holds
  <2>2. fin \in H.solid /\ <<first, fin>> \in H.edges
    BY <1>6, <1>8 DEF Holds
  <2>3. QED
    BY <2>1, <2>2
<1>10. PlacedAt(B, H, h, s, base, first, fin)
  BY <1>2, <1>3, <1>4, <1>9 DEF PlacedAt, NcclEvents
<1>11. PICK last : last = LastOf(h, s, base)
  OBVIOUS
<1>12. /\ Moves(H, last[s], {fin}) /\ OwnBehind(B, H, h, s, first, fin)
       /\ \A z \in FlushPairs(h, s, base) : z[2].w \in DOMAIN work[h]
  BY <1>2, <1>6, <1>10, <1>11, PlacedOrder
<1>13. OwnEvents(B, h, first, fin)
  <2>1. PICK D : D = {z[1] : z \in {z \in B : z[2].w = Len(work[h]) + 1}}
    OBVIOUS
  <2>2. first \in D
    BY <1>3, <1>7, <2>1
  <2>3. ASSUME NEW z \in B, z[2].w = w
        PROVE  z[1] \in {first, fin}
    BY <1>2, <1>3, <1>4, <1>12, <2>3, NextWork DEF NcclEvents
  <2>4. D \subseteq {first, fin}
    BY <1>3, <2>1, <2>3
  <2>5. QED
    BY <2>1, <2>2, <2>4 DEF OwnEvents
<1>14. Closes(B, H, h, {s}, last) /\ OthersSame(h)
  BY <1>2, <1>10, <1>11, <1>12, <1>13, WorkCloses
<1>15. AskStep(B, H, h, None, "return")
  BY <1>1 DEF AskStep
<1>16. QED
  BY <1>1, <1>5, <1>10, <1>11, <1>14, <1>15, StreamCallOrder

\* One point of a collective.
PointAdded(o, deps, w) == o \in Operations /\ o.op = "add" /\ o.deps = deps /\ o.w = w /\ o.act.kind # "comm"

LEMMA PointAdds ==
  ASSUME NEW deps \in SUBSET (Nat \cup {NoneDep}), NEW t \in Nat, NEW w \in Nat,
         NEW o, o = AddOp(deps, Point, t, w)
  PROVE  PointAdded(o, deps, w)
<1>1. PICK act \in Actions : act = Point /\ act.kind # "comm"
  BY CallActions
<1>2. o = AddOp(deps, act, t, w)
  BY <1>1
<1>3. QED
  BY <1>1, <1>2 DEF AddOp, Operations, PointAdded

\* The last points of a new collective, as events.
ClosingCarried(p, first, w, A) ==
  /\ Carries(p, first + 1, first + 4, A)
  /\ \A x \in A : x[2].w = 0 \/ (x[2].w = w /\ x[1] = first + 3)
  /\ \E x \in A : x[1] = first + 3 /\ x[2].act.kind # "comm" /\ first \in x[2].deps \cap Nat

LEMMA ClosingCarries ==
  ASSUME NEW first \in Nat, NEW t \in Nat, NEW w \in Nat, NEW p, p = ClosingOps(first, t, w)
  PROVE  \E A : ClosingCarried(p, first, w, A)
<1>1. PICK a, b, c : /\ a = AddOp({first}, Point, t, 0) /\ b = AddOp({first + 1}, Point, t, 0)
                     /\ c = AddOp({first + 2, first}, Point, t, w)
  OBVIOUS
<1>2. a.w = 0 /\ b.w = 0 /\ c.w = w /\ c.act.kind # "comm" /\ first \in c.deps \cap Nat
  BY <1>1, CallActions DEF AddOp
<1>3. AddsFrom(p, first + 1) /\ Len(p) = 3
  BY ClosingAdds DEF ClosingAdded
<1>4. p = <<a, b, c>>
  BY <1>1 DEF ClosingOps
<1>5. p[1] = a /\ p[2] = b /\ p[3] = c
  BY <1>4
<1>6. PICK m \in Nat : m = first + 1
  OBVIOUS
<1>7. PICK A : A = {<<m + i - 1, p[i]>> : i \in 1 .. Len(p)}
  OBVIOUS
<1>8. Carries(p, m, m + Len(p), A)
  BY <1>3, <1>6, <1>7, CarriesAdds
<1>9. m + Len(p) = first + 4 /\ m + 3 - 1 = first + 3 /\ 3 \in 1 .. Len(p)
  BY <1>3, <1>6
<1>10. ASSUME NEW x \in A
       PROVE  x[2].w = 0 \/ (x[2].w = w /\ x[1] = first + 3)
  <2>1. PICK i \in 1 .. Len(p) : x = <<m + i - 1, p[i]>>
    BY <1>7
  <2>2. i = 1 \/ i = 2 \/ i = 3
    BY <1>3
  <2>3. QED
    BY <1>2, <1>5, <1>9, <2>1, <2>2
<1>11. \E x \in A : x[1] = first + 3 /\ x[2].act.kind # "comm" /\ first \in x[2].deps \cap Nat
  <2>1. PICK x \in A : x = <<m + 3 - 1, p[3]>>
    BY <1>7, <1>9
  <2>2. x[1] = first + 3 /\ x[2] = c
    BY <1>5, <1>9, <2>1
  <2>3. QED
    BY <1>2, <2>2
<1>12. QED
  BY <1>6, <1>8, <1>9, <1>10, <1>11 DEF ClosingCarried

\* nccl_call by a host that opens a collective.
LEMMA OpenOrder ==
  ASSUME HostsOrder, HostsInv', HistoryTypes', NEW h \in Hosts, NEW s \in Streams,
         NcclOpen(h, s), Flushed(h, {s}), NewWork(h, s), UNCHANGED idOf
  PROVE  HostsOrder'
<1>1. PICK n : n = cnt
  OBVIOUS
<1>2. PICK first, t, w : first = StreamId(h, s, n + 1) /\ t = clock[h] /\ w = Len(work[h]) + 1
  OBVIOUS
<1>3. PICK head, mid, close : /\ head = AddOp({NoneDep}, Point, t, 0)
                              /\ mid = StreamOps(h, s, n + 1, {n}, Point, w)
                              /\ close = ClosingOps(first, t, w)
  OBVIOUS
<1>4. PICK p : p = (<<head>> \o mid) \o close
  OBVIOUS
<1>5. Async(h, p) /\ Advance(h, s, first + 3)
  BY <1>1, <1>2, <1>3, <1>4 DEF NcclOpen, ClosingOps
<1>6. Calls(h, p, "return", None)
  BY <1>5, AsyncCalls
<1>7. HostsTypes /\ HistoryTypes /\ n \in Nat /\ TailsBelow(n)
  BY <1>1, <1>6, CallFrom
<1>8. t \in Nat /\ w \in Nat
  BY <1>2, <1>7, NextWork DEF HostsTypes
<1>9. PICK m \in Nat : m = n + 1
  BY <1>7
<1>10. Carries(<<head>>, n, m, {<<n, head>>}) /\ head.w = 0
  <2>1. {NoneDep} \in SUBSET (Nat \cup {NoneDep}) /\ 0 \in Nat
    OBVIOUS
  <2>2. PointAdded(head, {NoneDep}, 0)
    BY <1>3, <1>8, <2>1, PointAdds
  <2>3. head \in Operations /\ head.op = "add" /\ head.w = 0
    BY <2>2 DEF PointAdded
  <2>4. QED
    BY <1>7, <1>9, <2>3, CarriesAdd
<1>11. PICK T, o, C : /\ T = TailAfter(h, s, m) /\ o = AddOp({n} \cup T, Point, clock[h], w)
                      /\ C = FlushPairs(h, s, m) \cup {<<first, o>>}
  OBVIOUS
<1>12. /\ Carries(mid, m, first + 1, C) /\ first \in Nat /\ T \subseteq Nat
       /\ o.act.kind # "comm" /\ o.w = w /\ o.deps = {n} \cup T
  <2>1. PICK act \in Actions : act = Point /\ act.kind # "comm"
    BY CallActions
  <2>2. PICK on : on = {n}
    OBVIOUS
  <2>3. tail[h][s] \subseteq 0 .. m - 1 /\ on \subseteq 0 .. m - 1 \cup {NoneDep}
    <3>1. 0 .. n - 1 \subseteq 0 .. m - 1 /\ n \in 0 .. m - 1
      BY <1>7, <1>9
    <3>2. QED
      BY <1>7, <2>2, <3>1 DEF TailsBelow
  <2>4. /\ first = StreamId(h, s, m) /\ o = AddOp(on \cup TailAfter(h, s, m), act, clock[h], w)
        /\ mid = StreamOps(h, s, m, on, act, w)
    BY <1>2, <1>3, <1>9, <1>11, <2>1, <2>2
  <2>5. StreamCarried(h, s, m, on, act, w, first, o, mid, C)
    BY <1>7, <1>8, <1>11, <2>3, <2>4, StreamCarries
  <2>6. QED
    BY <1>11, <2>1, <2>2, <2>5 DEF StreamCarried
<1>13. PICK D : ClosingCarried(close, first, w, D)
  BY <1>3, <1>8, <1>12, ClosingCarries
<1>14. /\ Carries(close, first + 1, first + 4, D)
       /\ \A x \in D : x[2].w = 0 \/ (x[2].w = w /\ x[1] = first + 3)
       /\ \E x \in D : x[1] = first + 3 /\ x[2].act.kind # "comm" /\ first \in x[2].deps \cap Nat
  BY <1>13 DEF ClosingCarried
<1>15. PICK B : B = ({<<n, head>>} \cup C) \cup D
  OBVIOUS
<1>16. Carries(p, n, first + 4, B)
  <2>1. PICK k, l : k = first + 1 /\ l = first + 4 /\ k \in Nat /\ l \in Nat
    BY <1>12
  <2>2. Carries(<<head>> \o mid, n, k, {<<n, head>>} \cup C)
    BY <1>7, <1>9, <1>10, <1>12, <2>1, CarriesBoth
  <2>3. PICK q, E : q = <<head>> \o mid /\ E = {<<n, head>>} \cup C
    OBVIOUS
  <2>4. Carries(q, n, k, E) /\ Carries(close, k, l, D)
    BY <1>14, <2>1, <2>2, <2>3
  <2>5. Carries(q \o close, n, l, E \cup D)
    BY <1>7, <2>1, <2>4, CarriesBoth
  <2>6. q \o close = p /\ E \cup D = B
    BY <1>4, <1>15, <2>3
  <2>7. QED
    BY <2>1, <2>5, <2>6
<1>17. PICK fin : fin = first + 3
  OBVIOUS
<1>18. NcclEvents(B, h, s, m, first, fin)
  <2>1. FlushPairs(h, s, m) \subseteq B
    BY <1>11, <1>15
  <2>2. ASSUME NEW x \in B
        PROVE  \/ x \in FlushPairs(h, s, m) \/ x[2].w = 0
               \/ x[2].w = Len(work[h]) + 1 /\ x[1] \in {first, fin}
    <3>1. \/ x = <<n, head>> \/ x \in FlushPairs(h, s, m) \/ x = <<first, o>> \/ x \in D
      BY <1>11, <1>15
    <3>2. CASE x = <<n, head>>
      BY <1>10, <3>2
    <3>3. CASE x = <<first, o>>
      BY <1>2, <1>12, <3>3
    <3>4. CASE x \in D
      BY <1>2, <1>14, <1>17, <3>4
    <3>5. QED
      BY <3>1, <3>2, <3>3, <3>4
  <2>3. \E x \in B : /\ x[1] = first /\ x[2].act.kind # "comm" /\ x[2].w = Len(work[h]) + 1
                     /\ TailAfter(h, s, m) \subseteq x[2].deps \cap Nat
    <3>1. PICK x \in B : x = <<first, o>>
      BY <1>11, <1>15
    <3>2. x[1] = first /\ x[2] = o
      BY <3>1
    <3>3. QED
      BY <1>2, <1>11, <1>12, <3>2
  <2>4. \E x \in B : x[1] = fin /\ x[2].act.kind # "comm" /\ first \in x[2].deps \cap Nat
    BY <1>14, <1>15, <1>17
  <2>5. QED
    BY <2>1, <2>2, <2>3, <2>4 DEF NcclEvents
<1>19. Advance(h, s, fin)
  BY <1>5, <1>17
<1>20. QED
  BY <1>1, <1>5, <1>16, <1>18, <1>19, NcclOrder

\* A program that adds more, but none of the host's own events.
LEMMA NcclMore ==
  ASSUME NEW B, NEW C, NEW h, NEW s, NEW base, NEW first, NEW fin, NcclEvents(B, h, s, base, first, fin),
         \A x \in C : x[2].w = 0
  PROVE  NcclEvents(B \cup C, h, s, base, first, fin)
<1>1. FlushPairs(h, s, base) \subseteq B \cup C
  BY DEF NcclEvents
<1>2. \A x \in B \cup C : \/ x \in FlushPairs(h, s, base) \/ x[2].w = 0
                          \/ x[2].w = Len(work[h]) + 1 /\ x[1] \in {first, fin}
  BY DEF NcclEvents
<1>3. /\ \E x \in B \cup C : /\ x[1] = first /\ x[2].act.kind # "comm" /\ x[2].w = Len(work[h]) + 1
                             /\ TailAfter(h, s, base) \subseteq x[2].deps \cap Nat
      /\ \E x \in B \cup C : x[1] = fin /\ x[2].act.kind # "comm" /\ first \in x[2].deps \cap Nat
  BY DEF NcclEvents
<1>4. QED
  BY <1>1, <1>2, <1>3 DEF NcclEvents

\* What a host adds of a collective it joins.
OwnCarried(own, n, h, s, first, B) ==
  /\ first \in Nat /\ Carries(own, n, first + 2, B)
  /\ NcclEvents(B, h, s, n, first, first + 1)

LEMMA OwnCarries ==
  ASSUME HostsTypes, NEW h \in Hosts, NEW s \in Streams, NEW n \in Nat, TailsBelow(n),
         NEW w \in Nat, w = Len(work[h]) + 1, NEW b, NEW sm, NEW em, Below({b, sm, em}, n),
         NEW mid, mid = StreamOps(h, s, n, {b}, Point, w), NEW first, first = StreamId(h, s, n),
         NEW own, own = mid \o LinkOps(sm, em, first, clock[h], w)
  PROVE  \E B : OwnCarried(own, n, h, s, first, B)
<1>1. b \in 0 .. n - 1 /\ sm \in Nat /\ em \in Nat
  BY DEF Below
<1>2. PICK t \in Nat : t = clock[h]
  BY DEF HostsTypes
<1>3. PICK T, o, C : /\ T = TailAfter(h, s, n) /\ o = AddOp({b} \cup T, Point, clock[h], w)
                     /\ C = FlushPairs(h, s, n) \cup {<<first, o>>}
  OBVIOUS
<1>4. /\ Carries(mid, n, first + 1, C) /\ first \in Nat /\ T \subseteq Nat
      /\ o.act.kind # "comm" /\ o.w = w /\ o.deps = {b} \cup T
  <2>1. PICK act \in Actions : act = Point /\ act.kind # "comm"
    BY CallActions
  <2>2. PICK on : on = {b}
    OBVIOUS
  <2>3. tail[h][s] \subseteq 0 .. n - 1 /\ on \subseteq 0 .. n - 1 \cup {NoneDep}
    BY <1>1, <2>2 DEF TailsBelow
  <2>4. /\ o = AddOp(on \cup TailAfter(h, s, n), act, clock[h], w)
        /\ mid = StreamOps(h, s, n, on, act, w)
    BY <1>3, <2>1, <2>2
  <2>5. StreamCarried(h, s, n, on, act, w, first, o, mid, C)
    BY <1>3, <2>3, <2>4, StreamCarries
  <2>6. QED
    BY <1>3, <2>1, <2>2, <2>5 DEF StreamCarried
<1>5. PICK j, k : j = first + 1 /\ k = first + 2 /\ j \in Nat /\ k \in Nat /\ k = j + 1
  BY <1>4
<1>6. PICK x, y : x = EdgeOp(sm, first) /\ y = AddOp({em, first}, Point, t, w)
  OBVIOUS
<1>7. Carries(<<x>>, j, j, {})
  <2>1. x \in Operations /\ x.op = "edge"
    BY <1>1, <1>4, <1>6 DEF EdgeOp, Operations
  <2>2. PICK q : q = <<x>>
    OBVIOUS
  <2>3. q \in Seq(Operations) /\ Len(q) = 1 /\ q[1] = x
    BY <2>1, <2>2
  <2>4. \A i \in 1 .. Len(q) : q[i].op # "add"
    BY <2>1, <2>3
  <2>5. QED
    BY <1>5, <2>2, <2>3, <2>4, CarriesNone
<1>8. /\ Carries(<<y>>, j, k, {<<j, y>>})
      /\ y.w = w /\ y.act.kind # "comm" /\ first \in y.deps \cap Nat
  <2>1. PICK deps : deps = {em, first}
    OBVIOUS
  <2>2. deps \in SUBSET (Nat \cup {NoneDep})
    BY <1>1, <1>4, <2>1
  <2>3. PointAdded(y, deps, w)
    BY <1>2, <1>6, <2>1, <2>2, PointAdds
  <2>4. y \in Operations /\ y.op = "add" /\ y.w = w /\ y.act.kind # "comm" /\ y.deps = {em, first}
    BY <2>1, <2>3 DEF PointAdded
  <2>5. Carries(<<y>>, j, j + 1, {<<j, y>>})
    BY <1>5, <2>4, CarriesAdd
  <2>6. QED
    BY <1>4, <1>5, <2>4, <2>5
<1>9. PICK B : B = C \cup {<<j, y>>}
  OBVIOUS
<1>10. Carries(own, n, k, B)
  <2>1. Carries(<<x>> \o <<y>>, j, k, {} \cup {<<j, y>>})
    BY <1>5, <1>7, <1>8, CarriesBoth
  <2>2. <<x>> \o <<y>> = <<x, y>> /\ {} \cup {<<j, y>>} = {<<j, y>>}
    BY PairSeq
  <2>3. Carries(<<x, y>>, j, k, {<<j, y>>})
    BY <2>1, <2>2
  <2>4. Carries(mid, n, j, C)
    BY <1>4, <1>5
  <2>5. Carries(mid \o <<x, y>>, n, k, B)
    BY <1>5, <1>9, <2>3, <2>4, CarriesBoth
  <2>6. own = mid \o <<x, y>>
    BY <1>2, <1>6 DEF LinkOps
  <2>7. QED
    BY <2>5, <2>6
<1>11. NcclEvents(B, h, s, n, first, j)
  <2>1. FlushPairs(h, s, n) \subseteq B
    BY <1>3, <1>9
  <2>2. ASSUME NEW z \in B
        PROVE  \/ z \in FlushPairs(h, s, n) \/ z[2].w = 0
               \/ z[2].w = Len(work[h]) + 1 /\ z[1] \in {first, j}
    <3>1. z \in FlushPairs(h, s, n) \/ z = <<first, o>> \/ z = <<j, y>>
      BY <1>3, <1>9
    <3>2. QED
      BY <1>4, <1>8, <3>1
  <2>3. \E z \in B : /\ z[1] = first /\ z[2].act.kind # "comm" /\ z[2].w = Len(work[h]) + 1
                     /\ TailAfter(h, s, n) \subseteq z[2].deps \cap Nat
    <3>1. PICK z \in B : z = <<first, o>>
      BY <1>3, <1>9
    <3>2. z[1] = first /\ z[2] = o
      BY <3>1
    <3>3. QED
      BY <1>3, <1>4, <3>2
  <2>4. \E z \in B : z[1] = j /\ z[2].act.kind # "comm" /\ first \in z[2].deps \cap Nat
    <3>1. PICK z \in B : z = <<j, y>>
      BY <1>9
    <3>2. z[1] = j /\ z[2] = y
      BY <3>1
    <3>3. QED
      BY <1>8, <3>2
  <2>5. QED
    BY <2>1, <2>2, <2>3, <2>4 DEF NcclEvents
<1>12. QED
  BY <1>4, <1>5, <1>10, <1>11 DEF OwnCarried

\* What the last host to join adds as well, of which nothing is its own.
RingCarried(last, n, B) ==
  \E m, C : /\ Carries(last, n, m, B \cup C)
            /\ \A x \in C : x[2].w = 0

LEMMA RingCarries ==
  ASSUME NEW n \in Nat, NEW own, NEW B, NEW k \in Nat, Carries(own, n, k, B), NEW N \in Nat,
         NEW sm, Below({sm}, k), NEW em \in Nat, NEW t \in Nat, NEW first \in Nat, NEW b \in Nat,
         NEW flow, flow = FlowOps(N, sm, t), NEW link, link = RingOps(N, em, first),
         NEW full, full = (own \o flow) \o link, NEW last, last = full \o <<ReleaseOp(b)>>
  PROVE  RingCarried(last, n, B)
<1>1. PICK m \in Nat : m = k + N
  OBVIOUS
<1>2. sm \in 0 .. k - 1
  BY DEF Below
<1>3. PICK C : C = {<<k + i - 1, flow[i]>> : i \in 1 .. Len(flow)}
  OBVIOUS
<1>4. Carries(flow, k, m, C) /\ \A x \in C : x[2].w = 0
  <2>1. PICK o : o = AddOp({sm}, Comm, t, 0)
    OBVIOUS
  <2>2. o \in Operations /\ o.op = "add" /\ o.deps = {sm} /\ o.w = 0
    <3>1. {sm} \in SUBSET (Nat \cup {NoneDep})
      BY <1>2
    <3>2. PICK act \in Actions : act = Comm
      BY CallActions
    <3>3. o = AddOp({sm}, act, t, 0)
      BY <2>1, <3>2
    <3>4. QED
      BY <3>1, <3>3 DEF AddOp, Operations
  <2>3. flow = [f \in 1 .. N |-> o]
    BY <2>1 DEF FlowOps
  <2>4. flow \in Seq(Operations) /\ Len(flow) = N /\ \A i \in 1 .. N : flow[i] = o
    <3>1. flow \in [1 .. N -> Operations] /\ \A i \in 1 .. N : flow[i] = o
      BY <2>2, <2>3
    <3>2. QED
      BY <3>1, FunctionSeq
  <2>5. ASSUME NEW i \in 1 .. Len(flow)
        PROVE  flow[i].op = "add" /\ flow[i].deps \subseteq 0 .. k + i - 2 \cup {NoneDep}
    <3>1. i \in 1 .. N /\ flow[i] = o
      BY <2>4
    <3>2. k - 1 <= k + i - 2
      BY <3>1
    <3>3. sm \in 0 .. k + i - 2
      BY <1>2, <3>1, <3>2
    <3>4. QED
      BY <2>2, <3>1, <3>3
  <2>6. AddsFrom(flow, k)
    BY <2>4, <2>5 DEF AddsFrom
  <2>7. Carries(flow, k, k + Len(flow), C)
    BY <1>3, <2>6, CarriesAdds
  <2>8. Carries(flow, k, m, C)
    BY <1>1, <2>4, <2>7
  <2>9. \A x \in C : \E i \in 1 .. N : x[2] = flow[i]
    BY <1>3, <2>4
  <2>10. QED
    BY <2>2, <2>4, <2>8, <2>9
<1>5. Carries(link, m, m, {})
  <2>1. ASSUME NEW f \in 1 .. N
        PROVE  link[f] \in Operations /\ link[f].op = "edge"
    <3>1. PICK d \in Nat : d = first + 1 + f
      OBVIOUS
    <3>2. link[f] = EdgeOp(em, d)
      BY <3>1 DEF RingOps
    <3>3. QED
      BY <3>2 DEF EdgeOp, Operations
  <2>2. link \in Seq(Operations) /\ Len(link) = N
    <3>1. DOMAIN link = 1 .. N /\ link = [f \in 1 .. N |-> link[f]]
      BY DEF RingOps
    <3>2. link \in [1 .. N -> Operations]
      BY <2>1, <3>1
    <3>3. QED
      BY <3>2, FunctionSeq
  <2>3. \A i \in 1 .. Len(link) : link[i].op # "add"
    BY <2>1, <2>2
  <2>4. QED
    BY <2>2, <2>3, CarriesNone
<1>6. PICK r : r = <<ReleaseOp(b)>>
  OBVIOUS
<1>7. Carries(r, m, m, {})
  <2>1. PICK o \in Operations : o = ReleaseOp(b) /\ o.op = "release"
    BY DEF ReleaseOp, Operations
  <2>2. r = <<o>>
    BY <1>6, <2>1
  <2>3. r \in Seq(Operations) /\ Len(r) = 1 /\ r[1] = o
    BY <2>2
  <2>4. \A i \in 1 .. Len(r) : r[i].op # "add"
    BY <2>1, <2>3
  <2>5. QED
    BY <2>3, <2>4, CarriesNone
<1>8. PICK q, D : q = own \o flow /\ D = B \cup C
  OBVIOUS
<1>9. Carries(q, n, m, D)
  BY <1>1, <1>4, <1>8, CarriesBoth
<1>10. Carries(q \o link, n, m, D \cup {})
  BY <1>1, <1>5, <1>9, CarriesBoth
<1>11. Carries(full, n, m, D)
  <2>1. full = q \o link /\ D \cup {} = D
    BY <1>8
  <2>2. QED
    BY <1>10, <2>1
<1>12. Carries(full \o r, n, m, D \cup {})
  BY <1>1, <1>7, <1>11, CarriesBoth
<1>13. Carries(last, n, m, B \cup C)
  <2>1. last = full \o r /\ D \cup {} = B \cup C
    BY <1>6, <1>8
  <2>2. QED
    BY <1>12, <2>1
<1>14. QED
  BY <1>4, <1>13 DEF RingCarried

\* nccl_call by a host that joins a collective.
LEMMA JoinOrder ==
  ASSUME HostsOrder, HostsInv', HistoryTypes', NEW h \in Hosts, NEW s \in Streams,
         NEW i \in DOMAIN waitings, NcclJoin(h, s, i), Flushed(h, {s}), NewWork(h, s), UNCHANGED idOf
  PROVE  HostsOrder'
<1>1. PICK n : n = cnt
  OBVIOUS
<1>2. PICK c, first, t, w : /\ c = waitings[i] /\ first = StreamId(h, s, n) /\ t = clock[h]
                            /\ w = Len(work[h]) + 1
  OBVIOUS
<1>3. PICK b, sm, em, N : /\ b = c.barrier /\ sm = c.startMeta /\ em = c.endMeta
                          /\ N = Cardinality(Hosts)
  OBVIOUS
<1>4. PICK mid, own : /\ mid = StreamOps(h, s, n, {b}, Point, w)
                      /\ own = mid \o LinkOps(sm, em, first, t, w)
  OBVIOUS
<1>5. PICK flow, link : flow = FlowOps(N, sm, t) /\ link = RingOps(N, em, first)
  OBVIOUS
<1>6. PICK full, last : full = (own \o flow) \o link /\ last = full \o <<ReleaseOp(b)>>
  OBVIOUS
<1>7. (Async(h, last) \/ Async(h, own)) /\ Advance(h, s, first + 1)
  BY <1>1, <1>2, <1>3, <1>4, <1>5, <1>6 DEF NcclJoin, LinkOps, FlowOps, RingOps
<1>8. PICK p : Async(h, p) /\ p \in {last, own}
  BY <1>7
<1>9. Calls(h, p, "return", None)
  BY <1>8, AsyncCalls
<1>10. HostsTypes /\ HistoryTypes /\ n \in Nat /\ TailsBelow(n) /\ call = NoCall /\ HostsInv
  BY <1>1, <1>9, CallFrom DEF HostsOrder
<1>11. b \in 0 .. n - 1 /\ sm \in 0 .. n - 1 /\ em \in 0 .. n - 1
  BY <1>1, <1>2, <1>3, <1>10, WaitingBehind
<1>12. b \in Nat /\ em \in Nat /\ Below({b, sm, em}, n)
  BY <1>11 DEF Below
<1>13. t \in Nat /\ w \in Nat /\ N \in Nat
  <2>1. t \in Nat /\ w \in Nat
    BY <1>2, <1>10, NextWork DEF HostsTypes
  <2>2. N \in Nat
    BY <1>3, PartCardinality, HostsAssumption
  <2>3. QED
    BY <2>1, <2>2
<1>14. PICK B : OwnCarried(own, n, h, s, first, B)
  BY <1>2, <1>4, <1>10, <1>12, <1>13, OwnCarries
<1>15. PICK k \in Nat, fin \in Nat : k = first + 2 /\ fin = first + 1
  BY <1>14 DEF OwnCarried
<1>16. first \in Nat /\ Carries(own, n, k, B) /\ NcclEvents(B, h, s, n, first, fin)
  BY <1>14, <1>15 DEF OwnCarried
<1>17. Advance(h, s, fin)
  BY <1>7, <1>15
<1>18. CASE p = own
  BY <1>1, <1>8, <1>16, <1>17, <1>18, NcclOrder
<1>19. CASE p = last
  <2>1. Below({sm}, k)
    <3>1. n <= k
      <4>1. first >= n
        <5>1. Len(buffered[h][s]) \in Nat
          BY <1>10 DEF HostsTypes
        <5>2. QED
          BY <1>2, <1>10, <5>1 DEF StreamId
      <4>2. QED
        BY <1>10, <1>15, <1>16, <4>1
    <3>2. sm \in 0 .. k - 1
      BY <1>10, <1>11, <3>1
    <3>3. QED
      BY <3>2 DEF Below
  <2>2. RingCarried(last, n, B)
    BY <1>5, <1>6, <1>10, <1>12, <1>13, <1>15, <1>16, <2>1, RingCarries
  <2>3. PICK m, C : Carries(last, n, m, B \cup C) /\ \A x \in C : x[2].w = 0
    BY <2>2 DEF RingCarried
  <2>4. PICK D : D = B \cup C
    OBVIOUS
  <2>5. NcclEvents(D, h, s, n, first, fin)
    BY <1>16, <2>3, <2>4, NcclMore
  <2>6. Carries(last, n, m, D) /\ Async(h, last)
    BY <1>8, <1>19, <2>3, <2>4
  <2>7. QED
    BY <1>1, <1>17, <2>5, <2>6, NcclOrder
<1>20. QED
  BY <1>8, <1>18, <1>19

\* nccl_call
LEMMA NcclCallOrder ==
  ASSUME HostsOrder, HostsInv', HistoryTypes', NEW h \in Hosts, NEW s \in Streams, NcclCall(h, s)
  PROVE  HostsOrder'
BY OpenOrder, JoinOrder DEF NcclCall

\* The call w at place m of stream s is added to the buffers.
BufferedAt(h, s, m, w) ==
  /\ m \in DOMAIN buffered'[h][s] /\ buffered'[h][s][m].w = w
  /\ \A i \in DOMAIN buffered[h][s] : i < m
  /\ \A r \in Streams : \A i \in DOMAIN buffered[h][r] :
       i \in DOMAIN buffered'[h][r] /\ buffered'[h][r][i] = buffered[h][r][i]
  /\ \A r \in Streams : \A i \in DOMAIN buffered'[h][r] : i \in DOMAIN buffered[h][r] \/ (r = s /\ i = m)
  /\ \A g \in Hosts \ {h} : buffered'[g] = buffered[g]

LEMMA TorchBuffers ==
  ASSUME HostsTypes, NEW h \in Hosts, NEW s \in Streams, NEW x \in BufferedCalls,
         buffered' = [buffered EXCEPT ![h][s] = Append(@, x)]
  PROVE  \E m : BufferedAt(h, s, m, x.w)
<1>1. PICK q \in Seq(BufferedCalls) : q = buffered[h][s]
  BY DEF HostsTypes
<1>2. PICK r, m : r = Append(q, x) /\ m = Len(q) + 1
  OBVIOUS
<1>3. /\ Len(q) \in Nat /\ DOMAIN q = 1 .. Len(q) /\ DOMAIN r = 1 .. m /\ m \in Nat
      /\ \A i \in 1 .. Len(q) : r[i] = q[i]
      /\ r[m] = x
  BY <1>2
<1>4. m \in DOMAIN r /\ \A i \in DOMAIN q : i < m /\ i \in DOMAIN r
  BY <1>2, <1>3
<1>5. \A i \in DOMAIN r : i \in DOMAIN q \/ i = m
  BY <1>2, <1>3
<1>6. buffered \in [Hosts -> [Streams -> Seq(BufferedCalls)]]
  BY DEF HostsTypes
<1>7. buffered' = [buffered EXCEPT ![h] = [buffered[h] EXCEPT ![s] = r]]
  BY <1>1, <1>2
<1>8. /\ buffered'[h][s] = r /\ \A y \in Streams : y # s => buffered'[h][y] = buffered[h][y]
      /\ \A g \in Hosts \ {h} : buffered'[g] = buffered[g]
  BY <1>6, <1>7
<1>9. \A y \in Streams : \A i \in DOMAIN buffered[h][y] :
        i \in DOMAIN buffered'[h][y] /\ buffered'[h][y][i] = buffered[h][y][i]
  BY <1>1, <1>3, <1>4, <1>8
<1>10. \A y \in Streams : \A i \in DOMAIN buffered'[h][y] :
         i \in DOMAIN buffered[h][y] \/ (y = s /\ i = m)
  BY <1>1, <1>5, <1>8
<1>11. QED
  BY <1>1, <1>3, <1>4, <1>8, <1>9, <1>10 DEF BufferedAt

\* The new call is behind what comes before its stream's next event.
LEMMA TorchWork ==
  ASSUME HistoryTypes, NEW h \in Hosts, NEW s \in Streams, NEW w, NotedWork(h, s, w),
         NEW m, BufferedAt(h, s, m, w), NEW B, B = {}, NEW H, FlushedOrder(B, H, h, {}, tail[h]),
         UNCHANGED <<tail, idOf>>
  PROVE  WorkOrder(B, H, h)' /\ KeepsEvents({}, B, h)
<1>1. /\ \A r \in Streams : \A v \in covers[h][r] : InBuffer(h, r, v) \/ CoveredAt(B, H, h, v, tail[h][r])
      /\ \A r \in Streams : \A i \in DOMAIN buffered[h][r] :
           /\ buffered[h][r][i].w \in DOMAIN work[h] /\ EventsOf(B, h, buffered[h][r][i].w) = {}
           /\ \A v \in work[h][buffered[h][r][i].w].after :
                BufferedBefore(h, r, i, v) \/ CoveredAt(B, H, h, v, tail[h][r])
      /\ BuffersApart(h) /\ WorkWaits(B, H, h) /\ BothEnds(h) /\ RecordsCovered(B, H, h)
  BY DEF FlushedOrder
<1>2. /\ w \in DOMAIN work'[h] /\ w \notin DOMAIN work[h] /\ work'[h][w].after = covers[h][s]
      /\ work'[h][w].first = NotYet /\ work'[h][w].last = NotYet
      /\ \A v \in DOMAIN work'[h] \ DOMAIN work[h] : v = w
  BY DEF NotedWork
<1>3. WorkSame(B, h)
  BY CallWorkSame DEF NotedWork, CallWork
<1>4. \A v, T : CoveredAt(B, H, h, v, T) => CoveredAt(B, H, h, v, T)'
  BY <1>3, CoveredSame
<1>5. EventsOf(B, h, w)' = {}
  BY <1>2 DEF EventsOf
<1>6. /\ m \in DOMAIN buffered'[h][s] /\ buffered'[h][s][m].w = w
      /\ \A i \in DOMAIN buffered[h][s] : i < m
      /\ \A r \in Streams : \A i \in DOMAIN buffered[h][r] :
           i \in DOMAIN buffered'[h][r] /\ buffered'[h][r][i] = buffered[h][r][i]
      /\ \A r \in Streams : \A i \in DOMAIN buffered'[h][r] :
           i \in DOMAIN buffered[h][r] \/ (r = s /\ i = m)
  BY DEF BufferedAt
<1>7. ASSUME NEW r \in Streams, NEW v, InBuffer(h, r, v) \/ CoveredAt(B, H, h, v, tail[h][r])
      PROVE  InBuffer(h, r, v)' \/ CoveredAt(B, H, h, v, tail[h][r])'
  <2>1. CASE InBuffer(h, r, v)
    BY <1>6, <2>1 DEF InBuffer
  <2>2. CASE CoveredAt(B, H, h, v, tail[h][r])
    <3>1. PICK T : T = tail[h][r]
      OBVIOUS
    <3>2. CoveredAt(B, H, h, v, T)' /\ T = tail'[h][r]
      BY <1>4, <2>2, <3>1
    <3>3. QED
      BY <3>2 DEF CoveredAt
  <2>3. QED
    BY <1>7, <2>1, <2>2
<1>8. StreamsCovered(B, H, h)'
  <2>1. ASSUME NEW r \in Streams, NEW v \in covers'[h][r]
        PROVE  InBuffer(h, r, v)' \/ CoveredAt(B, H, h, v, tail[h][r])'
    <3>1. v \in covers[h][r] \/ (v = w /\ r = s)
      BY <2>1 DEF NotedWork
    <3>2. CASE v = w /\ r = s
      BY <1>6, <3>2 DEF InBuffer
    <3>3. CASE v \in covers[h][r]
      BY <1>1, <1>7, <3>3
    <3>4. QED
      BY <3>1, <3>2, <3>3
  <2>2. QED
    BY <2>1 DEF StreamsCovered, InBuffer
<1>9. BuffersWait(B, H, h)'
  <2>1. ASSUME NEW r \in Streams, NEW i \in DOMAIN buffered'[h][r], NEW x, x = buffered'[h][r][i].w
        PROVE  /\ x \in DOMAIN work'[h] /\ EventsOf(B, h, x)' = {}
               /\ \A v \in work'[h][x].after :
                    BufferedBefore(h, r, i, v)' \/ CoveredAt(B, H, h, v, tail[h][r])'
    <3>1. CASE r = s /\ i = m
      <4>1. x = w
        BY <1>6, <2>1, <3>1
      <4>2. ASSUME NEW v \in covers[h][s]
            PROVE  BufferedBefore(h, s, m, v)' \/ CoveredAt(B, H, h, v, tail[h][s])'
        <5>1. CASE InBuffer(h, s, v)
          BY <1>6, <5>1 DEF InBuffer, BufferedBefore
        <5>2. CASE CoveredAt(B, H, h, v, tail[h][s])
          <6>1. PICK T : T = tail[h][s]
            OBVIOUS
          <6>2. CoveredAt(B, H, h, v, T)' /\ T = tail'[h][s]
            BY <1>4, <5>2, <6>1
          <6>3. QED
            BY <6>2 DEF CoveredAt
        <5>3. QED
          BY <1>1, <5>1, <5>2
      <4>3. ASSUME NEW v \in covers[h][s]
            PROVE  BufferedBefore(h, r, i, v)' \/ CoveredAt(B, H, h, v, tail[h][r])'
        BY <3>1, <4>2 DEF BufferedBefore, CoveredAt
      <4>4. QED
        BY <1>2, <1>5, <4>1, <4>3
    <3>2. CASE i \in DOMAIN buffered[h][r]
      <4>1. x = buffered[h][r][i].w
        BY <1>6, <2>1, <3>2
      <4>2. /\ x \in DOMAIN work[h] /\ EventsOf(B, h, x) = {}
            /\ \A v \in work[h][x].after : BufferedBefore(h, r, i, v) \/ CoveredAt(B, H, h, v, tail[h][r])
        BY <1>1, <3>2, <4>1
      <4>3. x \in DOMAIN work'[h] /\ EventsOf(B, h, x)' = {} /\ work'[h][x] = work[h][x]
        BY <1>3, <4>2 DEF WorkSame
      <4>4. ASSUME NEW v \in work[h][x].after
            PROVE  BufferedBefore(h, r, i, v)' \/ CoveredAt(B, H, h, v, tail[h][r])'
        <5>1. CASE BufferedBefore(h, r, i, v)
          BY <1>6, <5>1 DEF BufferedBefore
        <5>2. CASE CoveredAt(B, H, h, v, tail[h][r])
          <6>1. PICK T : T = tail[h][r]
            OBVIOUS
          <6>2. CoveredAt(B, H, h, v, T)' /\ T = tail'[h][r]
            BY <1>4, <5>2, <6>1
          <6>3. QED
            BY <6>2 DEF CoveredAt
        <5>3. QED
          BY <4>2, <5>1, <5>2
      <4>5. QED
        BY <4>3, <4>4
    <3>3. QED
      BY <1>6, <3>1, <3>2
  <2>2. QED
    BY <2>1 DEF BuffersWait
<1>10. BuffersApart(h)'
  <2>1. ASSUME NEW r \in Streams, NEW y \in Streams, NEW i \in DOMAIN buffered'[h][r],
               NEW j \in DOMAIN buffered'[h][y], buffered'[h][r][i].w = buffered'[h][y][j].w
        PROVE  r = y /\ i = j
    <3>1. CASE i \in DOMAIN buffered[h][r] /\ j \in DOMAIN buffered[h][y]
      BY <1>1, <1>6, <2>1, <3>1 DEF BuffersApart
    <3>2. CASE i \in DOMAIN buffered[h][r] /\ y = s /\ j = m
      <4>1. buffered[h][r][i].w = w
        BY <1>6, <2>1, <3>2
      <4>2. QED
        BY <1>1, <1>2, <3>2, <4>1
    <3>3. CASE r = s /\ i = m /\ j \in DOMAIN buffered[h][y]
      <4>1. buffered[h][y][j].w = w
        BY <1>6, <2>1, <3>3
      <4>2. QED
        BY <1>1, <1>2, <3>3, <4>1
    <3>4. QED
      BY <1>6, <3>1, <3>2, <3>3
  <2>2. QED
    BY <2>1 DEF BuffersApart
<1>11. WorkWaits(B, H, h)'
  <2>1. ASSUME NEW x \in DOMAIN work'[h], NEW v \in work'[h][x].after, NEW e \in EventsOf(B, h, x)'
        PROVE  v \in DOMAIN work'[h] /\ Waits(H, EventsOf(B, h, v), e)'
    <3>1. x \in DOMAIN work[h]
      BY <1>2, <1>5, <2>1
    <3>2. v \in work[h][x].after /\ e \in EventsOf(B, h, x)
      BY <1>3, <2>1, <3>1 DEF WorkSame
    <3>3. v \in DOMAIN work[h] /\ Waits(H, EventsOf(B, h, v), e)
      BY <1>1, <3>1, <3>2 DEF WorkWaits
    <3>4. v \in DOMAIN work'[h] /\ EventsOf(B, h, v)' = EventsOf(B, h, v)
      BY <1>3, <3>3 DEF WorkSame
    <3>5. QED
      BY <3>3, <3>4
  <2>2. QED
    BY <2>1 DEF WorkWaits
<1>12. BothEnds(h)'
  BY <1>1, <1>3 DEF BothEnds, WorkSame
<1>13. RecordsCovered(B, H, h)'
  <2>1. recorded' = recorded
    BY DEF NotedWork
  <2>2. ASSUME NEW c \in DOMAIN idOf[h], NEW v \in recorded[h][c], NEW T, T = {idOf[h][c]}
        PROVE  CoveredAt(B, H, h, v, T)'
    <3>1. CoveredAt(B, H, h, v, T)
      BY <1>1, <2>2 DEF RecordsCovered
    <3>2. QED
      BY <1>4, <3>1
  <2>3. QED
    BY <2>1, <2>2 DEF RecordsCovered
<1>14. KeepsEvents({}, B, h)
  <2>1. ASSUME NEW x \in DOMAIN work[h]
        PROVE  /\ x \in DOMAIN work'[h] /\ work'[h][x].after = work[h][x].after
               /\ EventsOf({}, h, x) # {} => /\ EventsOf(B, h, x)' # {}
                                            /\ EventsOf(B, h, x)' \subseteq EventsOf({}, h, x)
    BY <1>3 DEF WorkSame
  <2>2. QED
    BY <2>1 DEF KeepsEvents
<1>15. QED
  BY <1>8, <1>9, <1>10, <1>11, <1>12, <1>13, <1>14 DEF WorkOrder

\* handle_torch_call
LEMMA TorchOrder ==
  ASSUME HostsOrder, HostsInv', HistoryTypes', NEW h \in Hosts, NEW s \in Streams,
         NEW d \in Durations, TorchCall(h, s, d)
  PROVE  HostsOrder'
<1>1. PICK n, p : n = cnt /\ p = << >>
  OBVIOUS
<1>2. Async(h, p) /\ NewWork(h, s) /\ UNCHANGED <<tail, idOf, ask, reply>>
  BY <1>1 DEF TorchCall, Async
<1>3. Calls(h, p, "return", None)
  BY <1>2, AsyncCalls
<1>4. call = NoCall /\ UNCHANGED vars /\ HostsTypes /\ HistoryTypes /\ n \in Nat
  BY <1>1, <1>3, CallFrom
<1>5. PICK t \in Nat, w \in Nat : t = clock[h] /\ w = Len(work[h]) + 1
  BY <1>4, NextWork DEF HostsTypes
<1>6. NotedWork(h, s, w)
  BY <1>2, <1>4, <1>5, WorkNoted
<1>7. PICK m : BufferedAt(h, s, m, w)
  <2>1. PICK x : x = [t |-> t, dur |-> d, w |-> w]
    OBVIOUS
  <2>2. x \in BufferedCalls /\ x.w = w
    BY <2>1 DEF BufferedCalls
  <2>3. buffered' = [buffered EXCEPT ![h][s] = Append(@, x)]
    BY <1>5, <2>1 DEF TorchCall
  <2>4. \E m : BufferedAt(h, s, m, x.w)
    BY <1>4, <2>2, <2>3, TorchBuffers
  <2>5. QED
    BY <2>2, <2>4
<1>8. PICK B : B = {}
  OBVIOUS
<1>9. Carries(p, n, n, B)
  <2>1. p \in Seq(Operations) /\ Len(p) = 0
    BY <1>1
  <2>2. \A i \in 1 .. Len(p) : p[i].op # "add"
    BY <2>1
  <2>3. QED
    BY <1>4, <1>8, <2>1, <2>2, CarriesNone
<1>10. PICK G, H : Begun(p, B, G, H)
  BY <1>1, <1>4, <1>9, CallBegins
<1>11. PICK last : last = tail[h]
  OBVIOUS
<1>12. FlushBegun(p, B, G, H, h, {}, last, last)
  BY <1>8, <1>10, <1>11 DEF FlushBegun, Flushes, LastEvents
<1>13. FlushedOrder(B, H, h, {}, tail[h])
  BY <1>4, <1>11, <1>12, BegunFlushed
<1>14. WorkOrder(B, H, h)' /\ KeepsEvents({}, B, h)
  BY <1>2, <1>4, <1>6, <1>7, <1>8, <1>13, TorchWork
<1>15. OthersSame(h)
  BY <1>2, <1>6, <1>7 DEF OthersSame, NotedWork, BufferedAt
<1>16. AskStep(B, H, h, None, "return")
  BY <1>2 DEF AskStep
<1>17. QED
  BY <1>2, <1>3, <1>10, <1>14, <1>15, <1>16, CallOrder

-----------------------------------------------------------------------------
(***************************************************************************)
(* The specification.                                                      *)
(***************************************************************************)

\* The calls of a host.
LEMMA CallsOrder ==
  ASSUME HostsOrder, HostsInv', HistoryTypes', NEW h \in Hosts, HostCall(h)
  PROVE  HostsOrder'
<1>1. ASSUME NEW s \in Streams, NEW d \in Durations, TorchCall(h, s, d) \/ MemcpyAsync(h, s, d)
      PROVE  HostsOrder'
  BY <1>1, TorchOrder, MemcpyOrder
<1>2. ASSUME NEW s \in Streams, StreamSynchronize(h, s) \/ StreamQuery(h, s)
      PROVE  HostsOrder'
  BY <1>2, StreamSyncOrder, StreamQueryOrder
<1>3. ASSUME NEW s \in Streams, NEW c, EventRecord(h, s, c) \/ StreamWaitEvent(h, s, c)
      PROVE  HostsOrder'
  BY <1>3, RecordOrder, WaitEventOrder
<1>4. ASSUME NEW s \in Streams, NcclCall(h, s)
      PROVE  HostsOrder'
  BY <1>4, NcclCallOrder
<1>5. ASSUME NEW c, EventSynchronize(h, c) \/ EventQuery(h, c)
      PROVE  HostsOrder'
  BY <1>5, EventAskOrder
<1>6. ASSUME NEW dev, DeviceSynchronize(h, dev)
      PROVE  HostsOrder'
  BY <1>6, DeviceSyncOrder
<1>7. QED
  BY <1>1, <1>2, <1>3, <1>4, <1>5, <1>6 DEF HostCall

\* handle_exit, the host's own computation, and nothing at all.
LEMMA OutsideOrder ==
  ASSUME HostsOrder, HostsInv', HistoryTypes',
         UNCHANGED vars, UNCHANGED <<tail, buffered, idOf, syncing, call>>, UNCHANGED history,
         \A h \in Hosts : hostState'[h] = "wait" => hostState[h] = "wait"
  PROVE  HostsOrder'
<1>1. OrderInv /\ UNCHANGED <<work, covers, recorded, ask, reply>>
  BY DEF HostsOrder, HostsInv, history
<1>2. QuietStep /\ BoundsKept /\ UNCHANGED <<cnt, ended>>
  BY <1>1, SameBounds
<1>3. PICK p, num, A, G, H : StepOf(p, num, A, G, H)
  BY <1>1, <1>2, QuietViews
<1>4. AskTypes' /\ RegisteredAsks'
  BY <1>1 DEF HostsOrder, AskTypes, RegisteredAsks
<1>5. \A h \in Hosts : Caller(h)' => Caller(h) /\ call'.id = call.id /\ call'.next = call.next
  BY DEF Caller
<1>6. QED
  BY <1>1, <1>2, <1>3, <1>4, <1>5, QuietOrder

\* There is no work yet.
LEMMA InitOrder ==
  ASSUME HostsInit
  PROVE  HostsOrder
<1>1. HostsInv /\ HistoryTypes
  BY InitHosts
<1>2. /\ tail = [h \in Hosts |-> [s \in Streams |-> {}]]
      /\ buffered = [h \in Hosts |-> [s \in Streams |-> << >>]]
      /\ idOf = [h \in Hosts |-> << >>]
      /\ syncing = << >> /\ call = NoCall
      /\ hostState = [h \in Hosts |-> "run"]
      /\ work = [h \in Hosts |-> << >>]
      /\ covers = [h \in Hosts |-> [s \in Streams |-> {}]]
      /\ ask = [h \in Hosts |-> NoReply] /\ reply = [h \in Hosts |-> NoReply]
  BY DEF HostsInit
<1>3. DOMAIN << >> = {}
  OBVIOUS
<1>4. AskTypes /\ RegisteredAsks
  <2>1. NoReply \in Asks
    BY DEF NoReply, Asks, None
  <2>2. QED
    BY <1>2, <1>3, <2>1 DEF AskTypes, RegisteredAsks
<1>5. PICK p : p = << >>
  OBVIOUS
<1>6. p = Prog
  BY <1>2, <1>5 DEF Prog
<1>7. PICK num : Numbered(p, cnt, num)
  BY <1>1, <1>6 DEF HostsInv, BuildInv
<1>8. PICK A, G : A = SoonOf(p, num) /\ G = Dag(p, num)
  OBVIOUS
<1>9. ASSUME NEW h \in Hosts
      PROVE  WorkOrder(A[h], G, h) /\ AnswerOrder(A[h], G, h)
  <2>1. PICK B : B = A[h]
    OBVIOUS
  <2>2. WorkOrder(B, G, h)
    BY <1>2, <1>3 DEF WorkOrder, StreamsCovered, BuffersWait, BuffersApart, WorkWaits, BothEnds,
       RecordsCovered
  <2>3. AnswerOrder(B, G, h)
    <3>1. hostState[h] # "wait" /\ ~ Caller(h)
      BY <1>2 DEF Caller
    <3>2. reply[h].kind \notin Answers
      BY <1>2 DEF NoReply, Answers
    <3>3. QED
      BY <3>1, <3>2 DEF AnswerOrder, AskCovered, AskBounded, CallerAsks, ReplyDone
  <2>4. QED
    BY <2>1, <2>2, <2>3
<1>10. Views(p, num, A, G)
  BY <1>6, <1>7, <1>8 DEF Views
<1>11. QED
  BY <1>1, <1>4, <1>9, <1>10 DEF HostsOrder

\* Every step keeps the order.
LEMMA NextOrder ==
  ASSUME HostsOrder, [HostsNext]_allVars
  PROVE  HostsOrder'
<1>1. HostsInv /\ HistoryTypes
  BY DEF HostsOrder
<1>2. HostsInv' /\ HistoryTypes'
  BY <1>1, NextHosts
<1>3. CASE Handler
  BY <1>2, <1>3, HandlerOrder, RunOpOrder
<1>4. ASSUME NEW h \in Hosts, HostCall(h)
      PROVE  HostsOrder'
  BY <1>2, <1>4, CallsOrder
<1>5. ASSUME NEW h \in Hosts, CpuTime(h) \/ Exit(h)
      PROVE  HostsOrder'
  <2>1. /\ UNCHANGED vars /\ UNCHANGED <<tail, buffered, idOf, syncing, call>> /\ UNCHANGED history
        /\ hostState' = hostState \/ hostState' = [hostState EXCEPT ![h] = "exit"]
    BY <1>5 DEF CpuTime, Exit, simVars
  <2>2. \A g \in Hosts : hostState'[g] = "wait" => hostState[g] = "wait"
    BY <1>1, <2>1 DEF HostsInv, HostsTypes
  <2>3. QED
    BY <1>2, <2>1, <2>2, OutsideOrder
<1>6. CASE UNCHANGED allVars
  <2>1. /\ UNCHANGED vars /\ UNCHANGED <<tail, buffered, idOf, syncing, call>> /\ UNCHANGED history
        /\ hostState' = hostState
    BY <1>6 DEF allVars, simVars, hostVars
  <2>2. QED
    BY <1>2, <2>1, OutsideOrder
<1>7. QED
  BY <1>3, <1>4, <1>5, <1>6 DEF HostsNext

\* The inductive invariant of the hosts' work: in the graph of the queue and of the
\* program of the call in progress, what comes before a stream's next event is in
\* the stream's buffer or behind its last event, every event of a piece of work
\* waits for all of the work before it, and the event a host waits for, or has
\* recorded, is behind the work that it stands for.
THEOREM HostsOrderInvariant == HostsSpec => []HostsOrder
<1>1. HostsInit => HostsOrder
  BY InitOrder
<1>2. HostsOrder /\ [HostsNext]_allVars => HostsOrder'
  BY NextOrder
<1>3. QED
  BY <1>1, <1>2, PTL DEF HostsSpec

\* Work starts only after the work before it in its stream, and after the work of
\* the events that its stream was made to wait for, has ended: whether
\* handle_torch_call buffers it or its call adds it at once, whichever call
\* flushes the buffers, whatever collectives the other hosts join, and whatever the
\* network re-times.
THEOREM StreamOrderHolds == HostsSpec => []StreamOrder
BY OrderOfStreams, HostsOrderInvariant, PTL

\* When a synchronization returns, or a query reports its event ready, the work
\* that the stream, the device or the recorded event stood for has ended, no later
\* than the time in the reply; a stream or device synchronization does not return
\* before it was called.  This is so whichever host's handler executed the queue
\* as far as the event that send_sync_response_to answers.
THEOREM SyncsMeanDone == HostsSpec => []SyncMeansDone
BY DoneWhenReplied, HostsOrderInvariant, PTL
====

------------------------ MODULE PointToPoint_proofs ------------------------
(***************************************************************************)
(* For any number of ranks, streams, groups and calls: sends and receives  *)
(* of a pair of ranks are matched in arrival order, each once, and never   *)
(* both wait.  The two properties are inductive together with TypeOK.      *)
(*                                                                         *)
(* The events of a call that waits are held back until its peer arrives,   *)
(* and those of two matched calls occupy both streams together: in the     *)
(* second part the invariant says of every endpoint that was ever made     *)
(* whether it waits, is still to be handled in its group, or is matched,   *)
(* and what the graph holds for it (PInv).                                 *)
(***************************************************************************)
EXTENDS PointToPoint, FiniteSetTheorems, TLAPS

MatchInv == TypeOK /\ NeverBothWait /\ MatchedInArrivalOrder

\* The part of TypeOK that match_or_enqueue_p2p_endpoint touches.
QueueTypes ==
  /\ waiting \in [P2PCallKind -> [Keys -> Seq(Endpoints)]]
  /\ arrived \in [P2PCallKind -> [Keys -> Seq(Endpoints)]]
  /\ matches \in [Keys -> Seq(Endpoints \X Endpoints)]

\* The other kind is a kind, and not the same one.
LEMMA PeerKind ==
  ASSUME NEW kind \in P2PCallKind
  PROVE  Peer(kind) \in P2PCallKind /\ Peer(kind) # kind /\ P2PCallKind = {kind, Peer(kind)}
BY DEF Peer, P2PCallKind

\* match_or_enqueue_p2p_endpoint leaves queues and history well typed.
LEMMA MatchTypes ==
  ASSUME QueueTypes, NEW ep \in Endpoints, NEW graph, MatchOrEnqueue(ep, graph)
  PROVE  QueueTypes'
<1> DEFINE k == ep.kind  o == Peer(ep.kind)  key == ep.key
           q == waiting[o][key]
           pair == IF ep.kind = "send" THEN <<ep, Head(q)>> ELSE <<Head(q), ep>>
<1>1. k \in P2PCallKind /\ o \in P2PCallKind /\ key \in Keys
  BY PeerKind DEF Endpoints
<1>2. q \in Seq(Endpoints) /\ waiting[k][key] \in Seq(Endpoints)
      /\ arrived[k][key] \in Seq(Endpoints) /\ matches[key] \in Seq(Endpoints \X Endpoints)
  BY <1>1 DEF QueueTypes
<1>3. arrived' \in [P2PCallKind -> [Keys -> Seq(Endpoints)]]
  <2>1. Append(arrived[k][key], ep) \in Seq(Endpoints)
    BY <1>2
  <2>2. QED
    BY <2>1, <1>1 DEF MatchOrEnqueue, QueueTypes
<1>4. CASE q # << >>
  <2>1. Tail(q) \in Seq(Endpoints) /\ Head(q) \in Endpoints
    BY <1>2, <1>4
  <2>2. pair \in Endpoints \X Endpoints
    BY <2>1
  <2>3. Append(matches[key], pair) \in Seq(Endpoints \X Endpoints)
    BY <1>2, <2>2
  <2>4. /\ waiting' = [waiting EXCEPT ![o][key] = Tail(@)]
        /\ matches' = [matches EXCEPT ![key] = Append(@, pair)]
    BY <1>4 DEF MatchOrEnqueue
  <2>5. waiting' \in [P2PCallKind -> [Keys -> Seq(Endpoints)]]
    BY <2>1, <2>4, <1>1 DEF QueueTypes
  <2>6. matches' \in [Keys -> Seq(Endpoints \X Endpoints)]
    BY <2>3, <2>4, <1>1 DEF QueueTypes
  <2>7. QED
    BY <1>3, <2>5, <2>6 DEF QueueTypes
<1>5. CASE q = << >>
  <2>1. Append(waiting[k][key], ep) \in Seq(Endpoints)
    BY <1>2
  <2>2. waiting' = [waiting EXCEPT ![k][key] = Append(@, ep)] /\ matches' = matches
    BY <1>5 DEF MatchOrEnqueue, Enqueue
  <2>3. QED
    BY <1>1, <1>3, <2>1, <2>2 DEF QueueTypes
<1>6. QED
  BY <1>4, <1>5


\* A call that waits: it goes to the back of its queue.
LEMMA BehindWait ==
  ASSUME NEW S, NEW w \in Seq(S), NEW a \in Seq(S), NEW m \in Nat, NEW x \in S, Behind(w, a, m)
  PROVE  /\ Behind(Append(w, x), Append(a, x), m)
         /\ \A i \in 1 .. m : Append(a, x)[i] = a[i]
<1>1. Len(a) = m + Len(w) /\ Len(a) \in Nat /\ Len(w) \in Nat
  BY DEF Behind
<1>2. Len(Append(a, x)) = Len(a) + 1 /\ Len(Append(w, x)) = Len(w) + 1
  OBVIOUS
<1>3. /\ \A i \in 1 .. Len(a) : Append(a, x)[i] = a[i]
      /\ Append(a, x)[Len(a) + 1] = x
      /\ \A i \in 1 .. Len(w) : Append(w, x)[i] = w[i]
      /\ Append(w, x)[Len(w) + 1] = x
  OBVIOUS
<1>4. \A i \in 1 .. m : Append(a, x)[i] = a[i]
  BY <1>1, <1>3
<1>5. ASSUME NEW i \in 1 .. Len(w) + 1
      PROVE  Append(w, x)[i] = Append(a, x)[m + i]
  <2>1. CASE i \in 1 .. Len(w)
    <3>1. w[i] = a[m + i] /\ m + i \in 1 .. Len(a)
      BY <1>1, <2>1 DEF Behind
    <3>2. QED
      BY <1>3, <2>1, <3>1
  <2>2. CASE i = Len(w) + 1
    <3>1. m + i = Len(a) + 1
      BY <1>1, <2>2
    <3>2. QED
      BY <1>3, <2>2, <3>1
  <2>3. QED
    BY <2>1, <2>2, <1>1
<1>6. Behind(Append(w, x), Append(a, x), m)
  <2>1. Len(a) + 1 = m + (Len(w) + 1)
    BY <1>1
  <2>2. QED
    BY <1>2, <1>5, <2>1 DEF Behind
<1>7. QED
  BY <1>4, <1>6

\* A call that finds its peer waiting: none of its own kind waits, so it is the
\* next one to be matched.
LEMMA BehindSelf ==
  ASSUME NEW S, NEW w \in Seq(S), NEW a \in Seq(S), NEW m \in Nat, NEW x \in S, w = << >>,
         Behind(w, a, m)
  PROVE  Behind(w, Append(a, x), m + 1) /\ Len(a) = m
<1>1. Len(a) = m
  BY DEF Behind
<1>2. Len(Append(a, x)) = m + 1
  BY <1>1
<1>3. QED
  BY <1>1, <1>2 DEF Behind

\* The peer it takes from the front of the other queue is the next one as well.
LEMMA BehindPeer ==
  ASSUME NEW S, NEW w \in Seq(S), NEW a \in Seq(S), NEW m \in Nat, w # << >>, Behind(w, a, m)
  PROVE  /\ Behind(Tail(w), a, m + 1)
         /\ a[m + 1] = Head(w)
<1>1. Len(w) \in Nat /\ Len(w) > 0 /\ Head(w) = w[1]
  OBVIOUS
<1>2. Len(Tail(w)) = Len(w) - 1 /\ \A i \in 1 .. Len(w) - 1 : Tail(w)[i] = w[i + 1]
  OBVIOUS
<1>3. Len(a) = m + Len(w) /\ \A i \in 1 .. Len(w) : w[i] = a[m + i]
  BY DEF Behind
<1>4. ASSUME NEW i \in 1 .. Len(w) - 1
      PROVE  Tail(w)[i] = a[m + 1 + i]
  <2>1. i + 1 \in 1 .. Len(w) /\ m + (i + 1) = m + 1 + i
    BY <1>1
  <2>2. w[i + 1] = a[m + (i + 1)]
    BY <1>3, <2>1
  <2>3. QED
    BY <1>2, <2>1, <2>2
<1>5. m + Len(w) = m + 1 + (Len(w) - 1)
  BY <1>1
<1>6. Behind(Tail(w), a, m + 1)
  BY <1>2, <1>3, <1>4, <1>5 DEF Behind
<1>7. a[m + 1] = Head(w)
  BY <1>1, <1>3
<1>8. QED
  BY <1>6, <1>7

\* Appending the pair of the next send and the next receive.
LEMMA PairedAppend ==
  ASSUME NEW S, NEW pairs \in Seq(S), NEW s1, NEW r1, NEW s2, NEW r2,
         NEW p \in S, Paired(pairs, s1, r1),
         \A i \in 1 .. Len(pairs) : s2[i] = s1[i] /\ r2[i] = r1[i],
         p = <<s2[Len(pairs) + 1], r2[Len(pairs) + 1]>>
  PROVE  Paired(Append(pairs, p), s2, r2)
<1>1. /\ Len(pairs) \in Nat
      /\ Len(Append(pairs, p)) = Len(pairs) + 1
      /\ \A i \in 1 .. Len(pairs) : Append(pairs, p)[i] = pairs[i]
      /\ Append(pairs, p)[Len(pairs) + 1] = p
  OBVIOUS
<1>2. ASSUME NEW i \in 1 .. Len(pairs) + 1
      PROVE  Append(pairs, p)[i] = <<s2[i], r2[i]>>
  <2>1. CASE i \in 1 .. Len(pairs)
    BY <1>1, <2>1 DEF Paired
  <2>2. CASE i = Len(pairs) + 1
    BY <1>1, <2>2
  <2>3. QED
    BY <1>1, <2>1, <2>2
<1>3. QED
  BY <1>1, <1>2 DEF Paired

\* match_or_enqueue_p2p_endpoint keeps the two properties.
LEMMA MatchKeeps ==
  ASSUME QueueTypes, NeverBothWait, MatchedInArrivalOrder,
         NEW ep \in Endpoints, NEW graph, MatchOrEnqueue(ep, graph)
  PROVE  NeverBothWait' /\ MatchedInArrivalOrder'
<1> DEFINE k == ep.kind  o == Peer(ep.kind)  key == ep.key
           q == waiting[o][key]
           pair == IF ep.kind = "send" THEN <<ep, Head(q)>> ELSE <<Head(q), ep>>
           m == Len(matches[key])
<1>1. /\ k \in P2PCallKind /\ o \in P2PCallKind /\ key \in Keys
      /\ k # o /\ P2PCallKind = {k, o}
  BY PeerKind DEF Endpoints
<1>2. /\ q \in Seq(Endpoints) /\ waiting[k][key] \in Seq(Endpoints)
      /\ arrived[k][key] \in Seq(Endpoints) /\ arrived[o][key] \in Seq(Endpoints)
      /\ matches[key] \in Seq(Endpoints \X Endpoints) /\ m \in Nat
  BY <1>1 DEF QueueTypes
<1>3. /\ Behind(waiting[k][key], arrived[k][key], m)
      /\ Behind(q, arrived[o][key], m)
      /\ Paired(matches[key], arrived["send"][key], arrived["recv"][key])
  BY <1>1 DEF MatchedInArrivalOrder
<1>4. /\ arrived'[k][key] = Append(arrived[k][key], ep)
      /\ arrived'[o][key] = arrived[o][key]
      /\ \A x \in Keys \ {key} : \A kind \in P2PCallKind : arrived'[kind][x] = arrived[kind][x]
  BY <1>1 DEF MatchOrEnqueue, QueueTypes
<1>5. CASE q # << >>
  <2>1. /\ waiting' = [waiting EXCEPT ![o][key] = Tail(@)]
        /\ matches' = [matches EXCEPT ![key] = Append(@, pair)]
    BY <1>5 DEF MatchOrEnqueue
  <2>2. waiting[k][key] = << >>
    BY <1>1, <1>5 DEF NeverBothWait, Peer, P2PCallKind
  <2>3. /\ waiting'[o][key] = Tail(q) /\ waiting'[k][key] = << >>
        /\ \A x \in Keys \ {key} : \A kind \in P2PCallKind : waiting'[kind][x] = waiting[kind][x]
    BY <2>1, <2>2, <1>1 DEF QueueTypes
  <2>4. /\ matches'[key] = Append(matches[key], pair)
        /\ \A x \in Keys \ {key} : matches'[x] = matches[x]
    BY <2>1, <1>1 DEF QueueTypes
  <2>5. Head(q) \in Endpoints
    BY <1>2, <1>5
  <2>6. pair \in Endpoints \X Endpoints
    BY <2>5
  <2>7. Len(matches'[key]) = m + 1
    BY <1>2, <2>4, <2>6
  <2>8. /\ Behind(<< >>, arrived'[k][key], m + 1)
        /\ arrived'[k][key][m + 1] = ep
        /\ \A i \in 1 .. m : arrived'[k][key][i] = arrived[k][key][i]
    <3> DEFINE a == arrived[k][key]  w == waiting[k][key]
    <3>1. /\ a \in Seq(Endpoints) /\ w \in Seq(Endpoints) /\ m \in Nat
          /\ w = << >> /\ Behind(w, a, m)
      BY <1>2, <1>3, <2>2
    <3> HIDE DEF a, w, m
    <3>2. Behind(w, Append(a, ep), m + 1) /\ Len(a) = m
      BY <3>1, BehindSelf
    <3>3. /\ Append(a, ep)[m + 1] = ep
          /\ \A i \in 1 .. m : Append(a, ep)[i] = a[i]
      BY <3>1, <3>2
    <3>4. QED
      BY <1>4, <2>2, <3>2, <3>3 DEF a, w
  <2>9. Behind(Tail(q), arrived'[o][key], m + 1) /\ arrived'[o][key][m + 1] = Head(q)
    <3>1. Behind(Tail(q), arrived[o][key], m + 1) /\ arrived[o][key][m + 1] = Head(q)
      BY <1>2, <1>3, <1>5, BehindPeer, Zenon
    <3>2. QED
      BY <1>4, <3>1
  <2>10. Paired(matches'[key], arrived'["send"][key], arrived'["recv"][key])
    <3>1. /\ \A i \in 1 .. m : /\ arrived'["send"][key][i] = arrived["send"][key][i]
                               /\ arrived'["recv"][key][i] = arrived["recv"][key][i]
      BY <1>1, <1>4, <2>8 DEF P2PCallKind
    <3>2. pair = <<arrived'["send"][key][m + 1], arrived'["recv"][key][m + 1]>>
      BY <1>1, <2>8, <2>9 DEF P2PCallKind, Peer
    <3>3. QED
      <4> DEFINE s1 == arrived["send"][key]   r1 == arrived["recv"][key]
                 s2 == arrived'["send"][key]  r2 == arrived'["recv"][key]
                 pairs == matches[key]
      <4>1. /\ pairs \in Seq(Endpoints \X Endpoints) /\ pair \in Endpoints \X Endpoints
            /\ Paired(pairs, s1, r1)
            /\ \A i \in 1 .. Len(pairs) : s2[i] = s1[i] /\ r2[i] = r1[i]
            /\ pair = <<s2[Len(pairs) + 1], r2[Len(pairs) + 1]>>
        BY <1>2, <1>3, <2>6, <3>1, <3>2
      <4>2. Paired(Append(pairs, pair), s2, r2)
        <5> HIDE DEF s1, r1, s2, r2, pairs, pair
        <5>1. QED
          BY <4>1, PairedAppend
      <4>3. QED
        BY <2>4, <4>2
  <2>11. NeverBothWait'
    BY <1>1, <2>3 DEF NeverBothWait, P2PCallKind
  <2>12. MatchedInArrivalOrder'
    <3> SUFFICES ASSUME NEW x \in Keys
                 PROVE  /\ \A kind \in P2PCallKind :
                             Behind(waiting'[kind][x], arrived'[kind][x], Len(matches'[x]))
                        /\ Paired(matches'[x], arrived'["send"][x], arrived'["recv"][x])
      BY DEF MatchedInArrivalOrder
    <3>1. CASE x = key
      BY <3>1, <1>1, <2>3, <2>7, <2>8, <2>9, <2>10
    <3>2. CASE x # key
      BY <3>2, <1>4, <2>3, <2>4 DEF MatchedInArrivalOrder, P2PCallKind
    <3>3. QED
      BY <3>1, <3>2
  <2>13. QED
    BY <2>11, <2>12
<1>6. CASE q = << >>
  <2>1. waiting' = [waiting EXCEPT ![k][key] = Append(@, ep)] /\ matches' = matches
    BY <1>6 DEF MatchOrEnqueue, Enqueue
  <2>2. /\ waiting'[k][key] = Append(waiting[k][key], ep) /\ waiting'[o][key] = q
        /\ \A x \in Keys \ {key} : \A kind \in P2PCallKind : waiting'[kind][x] = waiting[kind][x]
    BY <2>1, <1>1 DEF QueueTypes
  <2>3. /\ Behind(waiting'[k][key], arrived'[k][key], m)
        /\ \A i \in 1 .. m : arrived'[k][key][i] = arrived[k][key][i]
    <3>1. /\ Behind(Append(waiting[k][key], ep), Append(arrived[k][key], ep), m)
          /\ \A i \in 1 .. m : Append(arrived[k][key], ep)[i] = arrived[k][key][i]
      <4> HIDE DEF k, o, key, q, m
      <4>1. QED
        BY <1>2, <1>3, BehindWait
    <3>2. QED
      BY <1>4, <2>2, <3>1
  <2>4. Behind(waiting'[o][key], arrived'[o][key], m)
    BY <1>3, <1>4, <2>2
  <2>5. Paired(matches'[key], arrived'["send"][key], arrived'["recv"][key])
    <3>1. /\ \A i \in 1 .. m : /\ arrived'["send"][key][i] = arrived["send"][key][i]
                               /\ arrived'["recv"][key][i] = arrived["recv"][key][i]
      BY <1>1, <1>4, <2>3 DEF P2PCallKind
    <3>2. QED
      BY <1>3, <2>1, <3>1 DEF Paired
  <2>6. NeverBothWait'
    BY <1>1, <1>6, <2>2 DEF NeverBothWait, P2PCallKind
  <2>7. MatchedInArrivalOrder'
    <3> SUFFICES ASSUME NEW x \in Keys
                 PROVE  /\ \A kind \in P2PCallKind :
                             Behind(waiting'[kind][x], arrived'[kind][x], Len(matches'[x]))
                        /\ Paired(matches'[x], arrived'["send"][x], arrived'["recv"][x])
      BY DEF MatchedInArrivalOrder
    <3>1. CASE x = key
      BY <3>1, <1>1, <2>1, <2>3, <2>4, <2>5
    <3>2. CASE x # key
      BY <3>2, <1>4, <2>1, <2>2 DEF MatchedInArrivalOrder, P2PCallKind
    <3>3. QED
      BY <3>1, <3>2
  <2>8. QED
    BY <2>6, <2>7
<1>7. QED
  BY <1>5, <1>6

-----------------------------------------------------------------------------

\* The key of a call of one of the ranks to another.
LEMMA KeyType ==
  ASSUME NEW kind, NEW r \in Ranks, NEW peer \in Ranks
  PROVE  p2p_key(kind, r, peer) \in Keys
BY DEF p2p_key, Keys

\* The place that stands for "no group in progress".
LEMMA NoBatchType ==
  /\ NoBatch \in [rank : Ranks, eps : Seq(Endpoints), left : [Streams -> SUBSET Nat]]
  /\ NoBatch.eps = << >>
  /\ \A s \in Streams : NoBatch.left[s] = {}
<1>1. (CHOOSE r \in Ranks : TRUE) \in Ranks
  BY BatchesAssumption
<1>2. QED
  BY <1>1 DEF NoBatch

\* How many of a group's calls satisfy a condition is a natural number.
LEMMA CountType ==
  ASSUME NEW n \in Nat, NEW T, T \subseteq 1 .. n
  PROVE  Cardinality(T) \in Nat
<1>1. IsFiniteSet(1 .. n)
  BY FS_Interval
<1>2. IsFiniteSet(T)
  BY <1>1, FS_Subset
<1>3. QED
  BY <1>2, FS_CardinalityType

\* The part of TypeOK that only the handlers of groups and calls touch.
CallTypes ==
  /\ made \in [P2PCallKind -> [Keys -> Nat]]
  /\ groups \in [Ranks -> Nat]
  /\ batch \in [rank : Ranks, eps : Seq(Endpoints), left : [Streams -> SUBSET Nat]]
  /\ \A s \in Streams : batch.left[s] \subseteq 1 .. Len(batch.eps)
  /\ cur \in SUBSET Streams
  /\ todo \subseteq 1 .. Len(batch.eps)

\* The type invariant, split into the part of the queues and that of the calls.
LEMMA TypeParts == TypeOK <=> QueueTypes /\ CallTypes
BY DEF TypeOK, QueueTypes, CallTypes

\* Steps that leave the queues and their history alone keep what is said of them.
LEMMA QueuesUnchanged ==
  ASSUME QueueTypes, NeverBothWait, MatchedInArrivalOrder, UNCHANGED <<waiting, arrived, matches>>
  PROVE  QueueTypes' /\ NeverBothWait' /\ MatchedInArrivalOrder'
BY DEF QueueTypes, NeverBothWait, MatchedInArrivalOrder

\* nccl_grouped_p2p numbers the endpoints of a group and sorts them by stream.
LEMMA GroupCallTypes ==
  ASSUME CallTypes, NEW r \in Ranks, NEW calls \in Batches, GroupCall(r, calls)
  PROVE  CallTypes'
<1> DEFINE KeyOf(i)      == p2p_key(calls[i].kind, r, calls[i].peer)
           OfKey(k, key) == {i \in 1 .. Len(calls) : calls[i].kind = k /\ KeyOf(i) = key}
           Number(i)     == made[calls[i].kind][KeyOf(i)]
                              + Cardinality({j \in OfKey(calls[i].kind, KeyOf(i)) : j <= i})
           eps  == [i \in 1 .. Len(calls) |-> Endpoint(calls[i].kind, KeyOf(i), Number(i))]
           left == [s \in Streams |-> OfStream(calls, s)]
<1>1. calls \in Seq(CallInfo) /\ Len(calls) \in Nat
  BY BatchesAssumption
<1>2. ASSUME NEW i \in 1 .. Len(calls)
      PROVE  calls[i].kind \in P2PCallKind /\ KeyOf(i) \in Keys
  <2>1. calls[i] \in CallInfo
    BY <1>1
  <2>2. QED
    BY <2>1, KeyType DEF CallInfo
<1>3. ASSUME NEW i \in 1 .. Len(calls)
      PROVE  Number(i) \in Nat
  <2>1. Cardinality({j \in OfKey(calls[i].kind, KeyOf(i)) : j <= i}) \in Nat
    BY <1>1, CountType
  <2>2. made[calls[i].kind][KeyOf(i)] \in Nat
    BY <1>2 DEF CallTypes
  <2>3. QED
    BY <2>1, <2>2
<1>4. eps \in Seq(Endpoints) /\ Len(eps) = Len(calls)
  <2>1. ASSUME NEW i \in 1 .. Len(calls)
        PROVE  Endpoint(calls[i].kind, KeyOf(i), Number(i)) \in Endpoints
    BY <1>2, <1>3 DEF Endpoint, Endpoints
  <2>2. QED
    BY <1>1, <2>1
<1>5. left \in [Streams -> SUBSET Nat] /\ \A s \in Streams : left[s] \subseteq 1 .. Len(calls)
  BY <1>1 DEF OfStream
<1>6. batch' = [rank |-> r, eps |-> eps, left |-> left]
  BY DEF GroupCall
<1>7. made' \in [P2PCallKind -> [Keys -> Nat]]
  <2>1. made' = [k \in P2PCallKind |-> [key \in Keys |->
                   made[k][key] + Cardinality(OfKey(k, key))]]
    BY DEF GroupCall
  <2>2. ASSUME NEW k \in P2PCallKind, NEW key \in Keys
        PROVE  made[k][key] + Cardinality(OfKey(k, key)) \in Nat
    <3>1. made[k][key] \in Nat
      BY DEF CallTypes
    <3>2. Cardinality(OfKey(k, key)) \in Nat
      BY <1>1, CountType
    <3>3. QED
      BY <3>1, <3>2
  <2>3. QED
    BY <2>1, <2>2
<1>8. groups' \in [Ranks -> Nat] /\ cur' = {} /\ todo' = todo /\ batch.eps = << >>
  BY NoBatchType DEF GroupCall, Idle, CallTypes
<1>9. todo' = {}
  BY <1>8 DEF CallTypes
<1> HIDE DEF eps, left
<1>10. QED
  BY <1>4, <1>5, <1>6, <1>7, <1>8, <1>9 DEF CallTypes

\* Before any call the invariant holds.
LEMMA InitInv == Init => MatchInv
<1> SUFFICES ASSUME Init PROVE MatchInv
  OBVIOUS
<1>1. QueueTypes
  BY DEF Init, QueueTypes
<1>2. CallTypes
  BY NoBatchType DEF Init, CallTypes
<1>3. NeverBothWait
  BY DEF Init, NeverBothWait, P2PCallKind
<1>4. MatchedInArrivalOrder
  BY DEF Init, MatchedInArrivalOrder, P2PCallKind, Behind, Paired
<1>5. QED
  BY <1>1, <1>2, <1>3, <1>4, TypeParts DEF MatchInv

\* Every handler keeps the invariant.  Only the matching of an endpoint touches
\* the queues; the other steps have only types to keep.
LEMMA StepInv == MatchInv /\ [Next]_vars => MatchInv'
<1> SUFFICES ASSUME MatchInv, [Next]_vars PROVE MatchInv'
  OBVIOUS
<1>0. QueueTypes /\ CallTypes /\ NeverBothWait /\ MatchedInArrivalOrder
  BY TypeParts DEF MatchInv
<1> SUFFICES QueueTypes' /\ CallTypes' /\ NeverBothWait' /\ MatchedInArrivalOrder'
  BY TypeParts, PTL DEF MatchInv
<1>1. ASSUME NEW r \in Ranks, NEW peer \in Ranks, NEW kind \in P2PCallKind, NEW s \in Streams,
             UngroupedP2P(r, kind, peer, s)
      PROVE  QueueTypes' /\ CallTypes' /\ NeverBothWait' /\ MatchedInArrivalOrder'
  <2> DEFINE key == p2p_key(kind, r, peer)
             ep  == Endpoint(kind, key, made[kind][key] + 1)
             graph == UngroupedGraph(ep, r, s)
  <2>1. key \in Keys
    BY KeyType
  <2>2. made[kind][key] + 1 \in Nat
    BY <1>0, <2>1 DEF CallTypes
  <2>3. ep \in Endpoints
    BY <2>1, <2>2 DEF Endpoint, Endpoints
  <2>4. MatchOrEnqueue(ep, graph) /\ made' = [made EXCEPT ![kind][key] = @ + 1]
        /\ UNCHANGED <<groups, batch, cur, todo>>
    BY <1>1 DEF UngroupedP2P, handlerVars
  <2>5. made' \in [P2PCallKind -> [Keys -> Nat]]
    BY <1>0, <2>1, <2>2, <2>4 DEF CallTypes
  <2>6. CallTypes'
    BY <1>0, <2>4, <2>5 DEF CallTypes
  <2> HIDE DEF ep, graph
  <2>7. QED
    BY <1>0, <2>3, <2>4, <2>6, MatchTypes, MatchKeeps
<1>2. ASSUME NEW r \in Ranks, NEW calls \in Batches, GroupCall(r, calls)
      PROVE  QueueTypes' /\ CallTypes' /\ NeverBothWait' /\ MatchedInArrivalOrder'
  <2>1. UNCHANGED <<waiting, arrived, matches>>
    BY <1>2 DEF GroupCall
  <2>2. QED
    BY <1>0, <1>2, <2>1, GroupCallTypes, QueuesUnchanged
<1>3. ASSUME NEW s \in Streams, GroupSetup(s)
      PROVE  QueueTypes' /\ CallTypes' /\ NeverBothWait' /\ MatchedInArrivalOrder'
  <2>1. UNCHANGED <<waiting, arrived, matches, made, groups>>
        /\ cur' = {s} /\ todo' = batch.left[s] /\ batch' = [batch EXCEPT !.left[s] = {}]
    BY <1>3 DEF GroupSetup
  <2>2. CallTypes'
    BY <1>0, <2>1 DEF CallTypes
  <2>3. QED
    BY <1>0, <2>1, <2>2, QueuesUnchanged
<1>4. ASSUME GroupMatch
      PROVE  QueueTypes' /\ CallTypes' /\ NeverBothWait' /\ MatchedInArrivalOrder'
  <2>1. PICK i \in todo : /\ MatchOrEnqueue(batch.eps[i], deps)
                          /\ todo' = todo \ {i}
                          /\ UNCHANGED <<groups, batch, cur, made>>
    BY <1>4 DEF GroupMatch
  <2>2. batch.eps[i] \in Endpoints
    BY <1>0 DEF CallTypes
  <2>3. CallTypes'
    BY <1>0, <2>1 DEF CallTypes
  <2>4. QED
    BY <1>0, <2>1, <2>2, <2>3, MatchTypes, MatchKeeps
<1>5. ASSUME GroupRelease
      PROVE  QueueTypes' /\ CallTypes' /\ NeverBothWait' /\ MatchedInArrivalOrder'
  <2>1. /\ UNCHANGED <<waiting, arrived, matches, made, groups>>
        /\ todo = {} /\ todo' = {} /\ cur' = {}
        /\ batch' = NoBatch \/ batch' = batch
    BY <1>5 DEF GroupRelease
  <2>2. CallTypes'
    BY <1>0, <2>1, NoBatchType DEF CallTypes
  <2>3. QED
    BY <1>0, <2>1, <2>2, QueuesUnchanged
<1>6. ASSUME Execute \/ UNCHANGED vars
      PROVE  QueueTypes' /\ CallTypes' /\ NeverBothWait' /\ MatchedInArrivalOrder'
  <2>1. UNCHANGED <<waiting, arrived, matches, made, groups, batch, cur, todo>>
    BY <1>6 DEF Execute, vars, p2pVars, handlerVars
  <2>2. CallTypes'
    BY <1>0, <2>1 DEF CallTypes
  <2>3. QED
    BY <1>0, <2>1, <2>2, QueuesUnchanged
<1>7. QED
  BY <1>1, <1>2, <1>3, <1>4, <1>5, <1>6 DEF Next, GroupHandler

\* Whatever the ranks, streams and groups: the simulator matches the sends and
\* receives of every pair of ranks first come first served, each call once.
THEOREM Matching == Spec => []MatchedInArrivalOrder
<1>1. MatchInv => MatchedInArrivalOrder
  BY DEF MatchInv
<1>2. QED
  BY <1>1, InitInv, StepInv, PTL DEF Spec

\* For every pair of ranks, calls wait on one side only.
THEOREM OneSideWaits == Spec => []NeverBothWait
<1>1. MatchInv => NeverBothWait
  BY DEF MatchInv
<1>2. QED
  BY <1>1, InitInv, StepInv, PTL DEF Spec

\* The state keeps the shapes the structs declare.
THEOREM TypeCorrect == Spec => []TypeOK
<1>1. MatchInv => TypeOK
  BY DEF MatchInv
<1>2. QED
  BY <1>1, InitInv, StepInv, PTL DEF Spec

-----------------------------------------------------------------------------
(***************************************************************************)
(* The graph of point-to-point calls.  An endpoint that has been set up and*)
(* not been matched hangs on its own barrier, so none of its events can    *)
(* have ended; matching finds two such endpoints, and puts the flow between*)
(* their starts and their ends.  The operators below speak of any graph g, *)
(* since a handler passes through graphs that are no state of its own.     *)
(***************************************************************************)

\* The events of ep hang on its barrier, and it has no flow.
HeldIn(g, ep) ==
  /\ FlowEnd(ep) \in DOMAIN g /\ FlowEvent(ep) \notin DOMAIN g
  /\ NoneDep \in g[UnmatchedBarrier(ep)]
  /\ UnmatchedBarrier(ep) \in g[FlowStart(ep)]
  /\ FlowStart(ep) \in g[FlowEnd(ep)]

\* The flow lies between the starts and the ends of the matched pair.
WiredIn(g, send, recv) ==
  /\ FlowEvent(send) \in DOMAIN g
  /\ \A ep \in {send, recv} : /\ FlowEnd(ep) \in DOMAIN g
                              /\ FlowStart(ep) \in g[FlowEvent(send)]
                              /\ FlowEvent(send) \in g[FlowEnd(ep)]

\* An event that ended had everything it was ever made to depend on end first.
ClosedIn(g) ==
  /\ over \subseteq DOMAIN g /\ DOMAIN g \subseteq EventNames
  /\ \A e \in over : g[e] \subseteq over

\* The events of an endpoint are added together, its flow not before them.
WholeIn(g) ==
  \A ep \in Endpoints :
    /\ UnmatchedBarrier(ep) \in DOMAIN g <=> FlowEnd(ep) \in DOMAIN g
    /\ FlowStart(ep) \in DOMAIN g <=> FlowEnd(ep) \in DOMAIN g
    /\ FlowEvent(ep) \in DOMAIN g => FlowEnd(ep) \in DOMAIN g

GoodGraph(g) == ClosedIn(g) /\ WholeIn(g)

\* The events of endpoints and groups are told apart by kind of event, and
\* those of endpoints by endpoint.
LEMMA EventFields ==
  /\ \A x : /\ UnmatchedBarrier(x)[1] = "unmatched_barrier" /\ UnmatchedBarrier(x)[2] = x
            /\ FlowStart(x)[1] = "flow_start" /\ FlowStart(x)[2] = x
            /\ FlowEnd(x)[1] = "flow_end" /\ FlowEnd(x)[2] = x
            /\ FlowEvent(x)[1] = "flow" /\ FlowEvent(x)[2] = x
  /\ \A r, g, s : /\ GroupBarrier(r, g, s)[1] = "group_barrier"
                  /\ GroupStart(r, g, s)[1] = "group_start"
                  /\ GroupEnd(r, g, s)[1] = "group_end"
BY DEF UnmatchedBarrier, FlowStart, FlowEnd, FlowEvent, GroupBarrier, GroupStart, GroupEnd

\* The names of the events are names.
LEMMA NamesAreNames ==
  /\ \A ep \in Endpoints : /\ EndpointEvents(ep) \subseteq EventNames
                           /\ FlowEvent(ep) \in EventNames
  /\ \A r \in Ranks, g \in Nat, s \in Streams : GroupEvents(r, g, s) \subseteq EventNames
  /\ \A e \in EventNames : e[1] = "flow_end" => e[2] \in Endpoints /\ e = FlowEnd(e[2])
<1>1. \A ep \in Endpoints : EndpointEvents(ep) \subseteq EventNames /\ FlowEvent(ep) \in EventNames
  BY DEF EventNames, EndpointEvents, UnmatchedBarrier, FlowStart, FlowEnd, FlowEvent
<1>2. \A r \in Ranks, g \in Nat, s \in Streams : GroupEvents(r, g, s) \subseteq EventNames
  BY DEF EventNames, GroupEvents, GroupBarrier, GroupStart, GroupEnd
<1>3. ASSUME NEW e \in EventNames, e[1] = "flow_end"
      PROVE  e[2] \in Endpoints /\ e = FlowEnd(e[2])
  BY <1>3 DEF EventNames, FlowEnd
<1>4. QED
  BY <1>1, <1>2, <1>3

\* None of the events of an endpoint that is held has ended.
LEMMA HeldNotOver ==
  ASSUME NEW g, ClosedIn(g), NEW ep, HeldIn(g, ep)
  PROVE  over \cap {UnmatchedBarrier(ep), FlowStart(ep), FlowEnd(ep)} = {}
<1>1. NoneDep \notin over
  BY NoneAssumption DEF ClosedIn
<1>2. UnmatchedBarrier(ep) \notin over
  BY <1>1 DEF ClosedIn, HeldIn
<1>3. FlowStart(ep) \notin over
  BY <1>2 DEF ClosedIn, HeldIn
<1>4. FlowEnd(ep) \notin over
  BY <1>3 DEF ClosedIn, HeldIn
<1>5. QED
  BY <1>2, <1>3, <1>4

\* h has the events of g as they are, and besides the events of the endpoints
\* in N, held, and others that belong to no endpoint and no flow.
Extends(h, g, N) ==
  /\ DOMAIN g \subseteq DOMAIN h /\ DOMAIN h \subseteq EventNames
  /\ \A e \in DOMAIN g : h[e] = g[e]
  /\ \A ep \in N : EndpointEvents(ep) \subseteq DOMAIN h
  /\ \A ep \in Endpoints \ N : EndpointEvents(ep) \cap DOMAIN h \subseteq DOMAIN g
  /\ \A ep \in Endpoints : FlowEvent(ep) \in DOMAIN h => FlowEvent(ep) \in DOMAIN g
  /\ \A ep \in N : /\ NoneDep \in h[UnmatchedBarrier(ep)]
                   /\ UnmatchedBarrier(ep) \in h[FlowStart(ep)]
                   /\ FlowStart(ep) \in h[FlowEnd(ep)]

\* What setting endpoints up does to a graph.
LEMMA ExtendKeeps ==
  ASSUME NEW g, NEW h, NEW N \in SUBSET Endpoints, GoodGraph(g), Extends(h, g, N),
         \A ep \in N : FlowEnd(ep) \notin DOMAIN g
  PROVE  /\ GoodGraph(h)
         /\ \A ep \in N : HeldIn(h, ep)
         /\ \A ep \in Endpoints : HeldIn(g, ep) => HeldIn(h, ep)
         /\ \A a, b \in Endpoints : WiredIn(g, a, b) => WiredIn(h, a, b)
         /\ \A ep \in Endpoints : FlowEnd(ep) \in DOMAIN h <=> FlowEnd(ep) \in DOMAIN g \/ ep \in N
<1>1. ClosedIn(h)
  BY DEF GoodGraph, ClosedIn, Extends
<1>2. \A ep \in Endpoints : FlowEnd(ep) \in DOMAIN h <=> FlowEnd(ep) \in DOMAIN g \/ ep \in N
  BY DEF Extends, EndpointEvents
<1>3. WholeIn(h)
  <2> SUFFICES ASSUME NEW ep \in Endpoints
               PROVE  /\ UnmatchedBarrier(ep) \in DOMAIN h <=> FlowEnd(ep) \in DOMAIN h
                      /\ FlowStart(ep) \in DOMAIN h <=> FlowEnd(ep) \in DOMAIN h
                      /\ FlowEvent(ep) \in DOMAIN h => FlowEnd(ep) \in DOMAIN h
    BY DEF WholeIn
  <2>1. CASE ep \in N
    BY <2>1 DEF Extends, EndpointEvents
  <2>2. CASE ep \notin N
    BY <2>2 DEF Extends, EndpointEvents, GoodGraph, WholeIn
  <2>3. QED
    BY <2>1, <2>2
<1>4. \A ep \in N : HeldIn(h, ep)
  BY DEF GoodGraph, WholeIn, HeldIn, Extends, EndpointEvents
<1>5. ASSUME NEW ep \in Endpoints, HeldIn(g, ep)
      PROVE  HeldIn(h, ep)
  BY <1>5 DEF GoodGraph, WholeIn, HeldIn, Extends
<1>6. ASSUME NEW a \in Endpoints, NEW b \in Endpoints, WiredIn(g, a, b)
      PROVE  WiredIn(h, a, b)
  BY <1>6 DEF WiredIn, Extends
<1>7. QED
  BY <1>1, <1>2, <1>3, <1>4, <1>5, <1>6 DEF GoodGraph

\* h is g after schedule_p2p_flow, event by event.
IsScheduled(h, g, a, b) ==
  /\ DOMAIN h = DOMAIN g \cup {FlowEvent(a)}
  /\ h[FlowEvent(a)] = {FlowStart(a), FlowStart(b)}
  /\ \A ep \in {a, b} :
       /\ h[FlowEnd(ep)] = g[FlowEnd(ep)] \cup {FlowEvent(a)}
       /\ h[UnmatchedBarrier(ep)] = g[UnmatchedBarrier(ep)] \ {NoneDep}
  /\ \A e \in DOMAIN g \ {FlowEnd(a), FlowEnd(b), UnmatchedBarrier(a), UnmatchedBarrier(b)} :
       h[e] = g[e]

\* schedule_p2p_flow changes these events and no other.
LEMMA ScheduleFields ==
  ASSUME NEW g, NEW a \in Endpoints, NEW b \in Endpoints, a # b, WholeIn(g),
         FlowEnd(a) \in DOMAIN g, FlowEnd(b) \in DOMAIN g, FlowEvent(a) \notin DOMAIN g
  PROVE  IsScheduled(ScheduleFlow(g, a, b), g, a, b)
<1> DEFINE w == WithFlow(g, a, b)
           fa == FlowEnd(a)  fb == FlowEnd(b)
           ua == UnmatchedBarrier(a)  ub == UnmatchedBarrier(b)
           f == FlowEvent(a)
           h == ScheduleFlow(g, a, b)
<1>1. fa # fb /\ fa # ua /\ fa # ub /\ fb # ua /\ fb # ub /\ ua # ub
      /\ f # fa /\ f # fb /\ f # ua /\ f # ub
  BY EventFields
<1>2. /\ w = [e \in DOMAIN w |-> w[e]] /\ DOMAIN w = DOMAIN g \cup {f}
      /\ w[f] = {FlowStart(a), FlowStart(b)}
      /\ \A e \in DOMAIN g : w[e] = g[e]
  BY DEF WithFlow
<1>3. fa \in DOMAIN g /\ fb \in DOMAIN g /\ ua \in DOMAIN g /\ ub \in DOMAIN g
  BY DEF WholeIn
<1>4. h = [w EXCEPT ![fa] = @ \cup {f}, ![fb] = @ \cup {f},
                    ![ua] = @ \ {NoneDep}, ![ub] = @ \ {NoneDep}]
  BY DEF ScheduleFlow
<1> HIDE DEF w, fa, fb, ua, ub, f, h
<1>5. /\ DOMAIN h = DOMAIN w
      /\ h[fa] = w[fa] \cup {f} /\ h[fb] = w[fb] \cup {f}
      /\ h[ua] = w[ua] \ {NoneDep} /\ h[ub] = w[ub] \ {NoneDep}
      /\ \A e \in DOMAIN w \ {fa, fb, ua, ub} : h[e] = w[e]
  BY <1>1, <1>2, <1>3, <1>4
<1>6. /\ DOMAIN h = DOMAIN g \cup {f}
      /\ h[f] = {FlowStart(a), FlowStart(b)}
      /\ h[fa] = g[fa] \cup {f} /\ h[fb] = g[fb] \cup {f}
      /\ h[ua] = g[ua] \ {NoneDep} /\ h[ub] = g[ub] \ {NoneDep}
      /\ \A e \in DOMAIN g \ {fa, fb, ua, ub} : h[e] = g[e]
  BY <1>1, <1>2, <1>3, <1>5
<1>7. QED
  BY <1>6 DEF fa, fb, ua, ub, f, h, IsScheduled

\* What schedule_p2p_flow does to a graph in which both endpoints are held.
LEMMA ScheduleKeeps ==
  ASSUME NEW g, NEW a \in Endpoints, NEW b \in Endpoints, a # b, GoodGraph(g),
         HeldIn(g, a), HeldIn(g, b)
  PROVE  LET h == ScheduleFlow(g, a, b) IN
         /\ GoodGraph(h)
         /\ WiredIn(h, a, b)
         /\ \A ep \in Endpoints \ {a, b} : HeldIn(g, ep) => HeldIn(h, ep)
         /\ \A x, y \in Endpoints : WiredIn(g, x, y) => WiredIn(h, x, y)
         /\ \A ep \in Endpoints : FlowEnd(ep) \in DOMAIN h <=> FlowEnd(ep) \in DOMAIN g
<1> DEFINE h == ScheduleFlow(g, a, b)
<1>1. IsScheduled(h, g, a, b)
  <2>1. /\ WholeIn(g) /\ FlowEvent(a) \notin DOMAIN g
        /\ FlowEnd(a) \in DOMAIN g /\ FlowEnd(b) \in DOMAIN g
    BY DEF HeldIn, GoodGraph
  <2>2. QED
    BY <2>1, ScheduleFields
<1>2. WholeIn(g) /\ ClosedIn(g) /\ {FlowEnd(a), FlowEnd(b)} \subseteq DOMAIN g
  BY DEF GoodGraph, HeldIn
<1>3. over \cap {FlowEnd(a), FlowEnd(b), UnmatchedBarrier(a), UnmatchedBarrier(b)} = {}
  BY <1>2, HeldNotOver
<1> HIDE DEF h
<1> USE DEF IsScheduled
<1>4. ClosedIn(h)
  <2>1. over \subseteq DOMAIN h /\ DOMAIN h \subseteq EventNames
    BY <1>1, <1>2, NamesAreNames DEF ClosedIn
  <2>2. \A e \in over : h[e] = g[e]
    BY <1>1, <1>2, <1>3 DEF ClosedIn
  <2>3. QED
    BY <2>1, <2>2, <1>2 DEF ClosedIn
<1>5. \A ep \in Endpoints :
        /\ FlowEnd(ep) \in DOMAIN h <=> FlowEnd(ep) \in DOMAIN g
        /\ FlowStart(ep) \in DOMAIN h <=> FlowStart(ep) \in DOMAIN g
        /\ UnmatchedBarrier(ep) \in DOMAIN h <=> UnmatchedBarrier(ep) \in DOMAIN g
        /\ FlowEvent(ep) \in DOMAIN h <=> FlowEvent(ep) \in DOMAIN g \/ ep = a
  BY <1>1, EventFields
<1>6. WholeIn(h)
  BY <1>2, <1>5 DEF WholeIn
<1>7. WiredIn(h, a, b)
  BY <1>1, <1>2 DEF WiredIn
<1>8. ASSUME NEW ep \in Endpoints \ {a, b}, HeldIn(g, ep)
      PROVE  HeldIn(h, ep)
  <2>1. FlowEnd(ep) \in DOMAIN h /\ FlowEvent(ep) \notin DOMAIN h
    BY <1>5, <1>8 DEF HeldIn
  <2>2. {UnmatchedBarrier(ep), FlowStart(ep), FlowEnd(ep)} \subseteq DOMAIN g
    BY <1>2, <1>8 DEF HeldIn, WholeIn
  <2>3. {UnmatchedBarrier(ep), FlowStart(ep), FlowEnd(ep)}
          \cap {FlowEnd(a), FlowEnd(b), UnmatchedBarrier(a), UnmatchedBarrier(b)} = {}
    BY <1>8, EventFields
  <2>4. /\ h[UnmatchedBarrier(ep)] = g[UnmatchedBarrier(ep)]
        /\ h[FlowStart(ep)] = g[FlowStart(ep)] /\ h[FlowEnd(ep)] = g[FlowEnd(ep)]
    BY <1>1, <2>2, <2>3
  <2>5. QED
    BY <1>8, <2>1, <2>4 DEF HeldIn
<1>9. ASSUME NEW x \in Endpoints, NEW y \in Endpoints, WiredIn(g, x, y)
      PROVE  WiredIn(h, x, y)
  <2>1. FlowEvent(x) \in DOMAIN h /\ h[FlowEvent(x)] = g[FlowEvent(x)]
    BY <1>1, <1>9, EventFields DEF WiredIn
  <2>2. \A ep \in {x, y} : g[FlowEnd(ep)] \subseteq h[FlowEnd(ep)] /\ FlowEnd(ep) \in DOMAIN h
    <3> SUFFICES ASSUME NEW ep \in {x, y}
                 PROVE  g[FlowEnd(ep)] \subseteq h[FlowEnd(ep)] /\ FlowEnd(ep) \in DOMAIN h
      OBVIOUS
    <3>1. FlowEnd(ep) \in DOMAIN g /\ ep \in Endpoints
      BY <1>9 DEF WiredIn
    <3>2. CASE ep \in {a, b}
      BY <1>1, <3>1, <3>2
    <3>3. CASE ep \notin {a, b}
      <4>1. FlowEnd(ep) \notin {FlowEnd(a), FlowEnd(b), UnmatchedBarrier(a), UnmatchedBarrier(b)}
        BY <3>3, EventFields
      <4>2. QED
        BY <1>1, <3>1, <4>1
    <3>4. QED
      BY <3>2, <3>3
  <2>3. QED
    BY <1>9, <2>1, <2>2 DEF WiredIn
<1>10. QED
  BY <1>4, <1>5, <1>6, <1>7, <1>8, <1>9 DEF GoodGraph, h

-----------------------------------------------------------------------------

\* ep waits for its peer in the queue of its kind and key.
Waits(ep) ==
  \E i \in 1 .. Len(waiting[ep.kind][ep.key]) : waiting[ep.kind][ep.key][i] = ep

\* The group in progress has set ep up and not looked for its peer yet.
Pending(ep) == \E i \in todo : batch.eps[i] = ep

Matched(ep) ==
  \E i \in 1 .. Len(matches[ep.key]) :
    matches[ep.key][i][1] = ep \/ matches[ep.key][i][2] = ep

\* The send and the receive were matched.
Joined(send, recv) ==
  \E key \in Keys : \E i \in 1 .. Len(matches[key]) : matches[key][i] = <<send, recv>>

\* An endpoint waits in the queue of its kind and key, and once.
QueueOwn ==
  \A kind \in P2PCallKind, key \in Keys : \A i \in 1 .. Len(waiting[kind][key]) :
    waiting[kind][key][i].kind = kind /\ waiting[kind][key][i].key = key

QueueOnce ==
  \A kind \in P2PCallKind, key \in Keys : \A i, j \in 1 .. Len(waiting[kind][key]) :
    i # j => waiting[kind][key][i] # waiting[kind][key][j]

QueuesInv == QueueTypes /\ QueueOwn /\ QueueOnce

\* The two outcomes of match_or_enqueue_p2p_endpoint: ep waits, or the oldest
\* waiting peer p leaves its queue and the two are matched.
IsWait(ep, graph) ==
  /\ deps' = graph /\ matches' = matches
  /\ \A x \in Endpoints : Waits(x)' <=> Waits(x) \/ x = ep

IsMatch(ep, p, graph) ==
  /\ Waits(p) /\ p # ep
  /\ \A x \in Endpoints : Waits(x)' <=> Waits(x) /\ x # p
  /\ \E a, b \in Endpoints :
       /\ {a, b} = {ep, p}
       /\ deps' = ScheduleFlow(graph, a, b)
       /\ \A x, y \in Endpoints : Joined(x, y)' => Joined(x, y) \/ (x = a /\ y = b)
       /\ \A x \in Endpoints : Matched(x)' <=> Matched(x) \/ x \in {a, b}

\* A call with no peer waiting goes to the back of its queue.
LEMMA WaitEffect ==
  ASSUME QueuesInv, NEW ep \in Endpoints, ~ Waits(ep), NEW graph, MatchOrEnqueue(ep, graph),
         waiting[Peer(ep.kind)][ep.key] = << >>
  PROVE  QueueOwn' /\ QueueOnce' /\ IsWait(ep, graph)
<1> DEFINE k == ep.kind  key == ep.key  w == waiting[k][key]
<1>1. k \in P2PCallKind /\ key \in Keys
  BY DEF Endpoints
<1>2. waiting \in [P2PCallKind -> [Keys -> Seq(Endpoints)]] /\ w \in Seq(Endpoints)
  BY <1>1 DEF QueuesInv, QueueTypes
<1>3. deps' = graph /\ matches' = matches /\ waiting' = [waiting EXCEPT ![k][key] = Append(@, ep)]
  BY DEF MatchOrEnqueue, Enqueue
<1>4. /\ waiting'[k][key] = Append(w, ep)
      /\ \A kind \in P2PCallKind, x \in Keys :
           kind # k \/ x # key => waiting'[kind][x] = waiting[kind][x]
  BY <1>1, <1>2, <1>3
<1>5. /\ Len(w) \in Nat /\ Len(Append(w, ep)) = Len(w) + 1
      /\ \A i \in 1 .. Len(w) : Append(w, ep)[i] = w[i]
      /\ Append(w, ep)[Len(w) + 1] = ep
  BY <1>2
<1>6. /\ \A i \in 1 .. Len(w) : w[i] # ep /\ w[i].kind = k /\ w[i].key = key
      /\ \A i, j \in 1 .. Len(w) : i # j => w[i] # w[j]
  BY <1>1 DEF Waits, QueuesInv, QueueOwn, QueueOnce
<1>7. \A i \in 1 .. Len(w) + 1 : i \in 1 .. Len(w) \/ i = Len(w) + 1
  BY <1>5
<1>8. QueueOwn'
  <2> SUFFICES ASSUME NEW kind \in P2PCallKind, NEW x \in Keys, NEW i \in 1 .. Len(waiting'[kind][x])
               PROVE  waiting'[kind][x][i].kind = kind /\ waiting'[kind][x][i].key = x
    BY DEF QueueOwn
  <2>1. CASE kind = k /\ x = key
    BY <2>1, <1>4, <1>5, <1>6, <1>7
  <2>2. CASE kind # k \/ x # key
    BY <2>2, <1>4 DEF QueuesInv, QueueOwn
  <2>3. QED
    BY <2>1, <2>2
<1>9. QueueOnce'
  <2> SUFFICES ASSUME NEW kind \in P2PCallKind, NEW x \in Keys,
                      NEW i \in 1 .. Len(waiting'[kind][x]), NEW j \in 1 .. Len(waiting'[kind][x]),
                      i # j
               PROVE  waiting'[kind][x][i] # waiting'[kind][x][j]
    BY DEF QueueOnce
  <2>1. CASE kind = k /\ x = key
    BY <2>1, <1>4, <1>5, <1>6, <1>7
  <2>2. CASE kind # k \/ x # key
    BY <2>2, <1>4 DEF QueuesInv, QueueOnce
  <2>3. QED
    BY <2>1, <2>2
<1>10. ASSUME NEW x \in Endpoints
       PROVE  Waits(x)' <=> Waits(x) \/ x = ep
  <2>1. Waits(x)' <=> \E i \in 1 .. Len(waiting'[x.kind][x.key]) : waiting'[x.kind][x.key][i] = x
    BY DEF Waits
  <2>2. x.kind \in P2PCallKind /\ x.key \in Keys
    BY DEF Endpoints
  <2>3. CASE x.kind = k /\ x.key = key
    <3>1. (\E i \in 1 .. Len(w) + 1 : Append(w, ep)[i] = x) <=> Waits(x) \/ x = ep
      <4>1. 1 .. Len(w) \subseteq 1 .. Len(w) + 1 /\ Len(w) + 1 \in 1 .. Len(w) + 1
        BY <1>5
      <4>2. Waits(x) <=> \E i \in 1 .. Len(w) : w[i] = x
        BY <2>3 DEF Waits
      <4> HIDE DEF w
      <4>3. QED
        BY <1>5, <1>7, <4>1, <4>2
    <3>2. QED
      BY <1>4, <1>5, <2>1, <2>3, <3>1
  <2>4. CASE x.kind # k \/ x.key # key
    BY <1>4, <2>1, <2>2, <2>4 DEF Waits
  <2>5. QED
    BY <2>3, <2>4
<1>11. QED
  BY <1>3, <1>8, <1>9, <1>10 DEF IsWait

\* A call that finds its peer waiting takes it from the front of the queue.
LEMMA PairEffect ==
  ASSUME QueuesInv, NEW ep \in Endpoints, ~ Waits(ep), NEW graph, MatchOrEnqueue(ep, graph),
         waiting[Peer(ep.kind)][ep.key] # << >>
  PROVE  QueueOwn' /\ QueueOnce' /\ \E p \in Endpoints : IsMatch(ep, p, graph)
<1> DEFINE k == ep.kind  o == Peer(ep.kind)  key == ep.key  q == waiting[o][key]  p == Head(q)
           a == IF ep.kind = "send" THEN ep ELSE p
           b == IF ep.kind = "send" THEN p ELSE ep
<1>1. k \in P2PCallKind /\ o \in P2PCallKind /\ key \in Keys /\ k # o
  BY PeerKind DEF Endpoints
<1>2. /\ waiting \in [P2PCallKind -> [Keys -> Seq(Endpoints)]] /\ q \in Seq(Endpoints) /\ q # << >>
      /\ matches \in [Keys -> Seq(Endpoints \X Endpoints)]
  BY <1>1 DEF QueuesInv, QueueTypes
<1>3. /\ waiting' = [waiting EXCEPT ![o][key] = Tail(@)]
      /\ matches' = [matches EXCEPT ![key] = Append(@, <<a, b>>)]
      /\ deps' = ScheduleFlow(graph, a, b)
  BY DEF MatchOrEnqueue
<1>4. /\ waiting'[o][key] = Tail(q)
      /\ \A kind \in P2PCallKind, x \in Keys :
           kind # o \/ x # key => waiting'[kind][x] = waiting[kind][x]
  BY <1>1, <1>2, <1>3
<1>5. /\ Len(q) \in Nat /\ Len(q) > 0 /\ p = q[1] /\ p \in Endpoints
      /\ Len(Tail(q)) = Len(q) - 1
      /\ \A i \in 1 .. Len(q) - 1 : Tail(q)[i] = q[i + 1]
  BY <1>2
<1>6. /\ \A i \in 1 .. Len(q) : q[i].kind = o /\ q[i].key = key
      /\ \A i, j \in 1 .. Len(q) : i # j => q[i] # q[j]
  BY <1>1 DEF QueuesInv, QueueOwn, QueueOnce
<1>7. /\ \A i \in 1 .. Len(q) - 1 : i + 1 \in 1 .. Len(q) /\ i + 1 # 1
      /\ \A i \in 1 .. Len(q) : i = 1 \/ (i - 1 \in 1 .. Len(q) - 1 /\ (i - 1) + 1 = i)
      /\ 1 \in 1 .. Len(q)
      /\ \A i, j \in 1 .. Len(q) - 1 : i # j => i + 1 # j + 1
  BY <1>5
<1>8. p.kind = o /\ p.key = key /\ p # ep
  BY <1>1, <1>5, <1>6, <1>7
<1>9. QueueOwn'
  <2> SUFFICES ASSUME NEW kind \in P2PCallKind, NEW x \in Keys, NEW i \in 1 .. Len(waiting'[kind][x])
               PROVE  waiting'[kind][x][i].kind = kind /\ waiting'[kind][x][i].key = x
    BY DEF QueueOwn
  <2>1. CASE kind = o /\ x = key
    BY <2>1, <1>4, <1>5, <1>6, <1>7
  <2>2. CASE kind # o \/ x # key
    BY <2>2, <1>4 DEF QueuesInv, QueueOwn
  <2>3. QED
    BY <2>1, <2>2
<1>10. QueueOnce'
  <2> SUFFICES ASSUME NEW kind \in P2PCallKind, NEW x \in Keys,
                      NEW i \in 1 .. Len(waiting'[kind][x]), NEW j \in 1 .. Len(waiting'[kind][x]),
                      i # j
               PROVE  waiting'[kind][x][i] # waiting'[kind][x][j]
    BY DEF QueueOnce
  <2>1. CASE kind = o /\ x = key
    <3>1. i \in 1 .. Len(q) - 1 /\ j \in 1 .. Len(q) - 1
      BY <2>1, <1>4, <1>5
    <3>2. i + 1 \in 1 .. Len(q) /\ j + 1 \in 1 .. Len(q) /\ i + 1 # j + 1
      BY <1>7, <3>1
    <3>3. q[i + 1] # q[j + 1]
      BY <1>6, <3>2
    <3>4. QED
      BY <2>1, <1>4, <1>5, <3>1, <3>3
  <2>2. CASE kind # o \/ x # key
    BY <2>2, <1>4 DEF QueuesInv, QueueOnce
  <2>3. QED
    BY <2>1, <2>2
<1>11. Waits(p)
  BY <1>5, <1>7, <1>8 DEF Waits
<1>12. ASSUME NEW x \in Endpoints
       PROVE  Waits(x)' <=> Waits(x) /\ x # p
  <2>1. Waits(x)' <=> \E i \in 1 .. Len(waiting'[x.kind][x.key]) : waiting'[x.kind][x.key][i] = x
    BY DEF Waits
  <2>2. x.kind \in P2PCallKind /\ x.key \in Keys
    BY DEF Endpoints
  <2>3. CASE x.kind = o /\ x.key = key
    <3>1. Waits(x) <=> \E i \in 1 .. Len(q) : q[i] = x
      BY <2>3 DEF Waits
    <3>2. Waits(x)' <=> \E i \in 1 .. Len(q) - 1 : q[i + 1] = x
      <4>1. waiting'[x.kind][x.key] = Tail(q)
        BY <1>4, <2>3
      <4> HIDE DEF q
      <4>2. Waits(x)' <=> \E i \in 1 .. Len(q) - 1 : Tail(q)[i] = x
        BY <1>5, <2>1, <4>1
      <4>3. QED
        BY <1>5, <4>2
    <3> HIDE DEF q, p
    <3>3. (\E i \in 1 .. Len(q) - 1 : q[i + 1] = x) => Waits(x) /\ x # p
      BY <1>5, <1>6, <1>7, <3>1
    <3>4. Waits(x) /\ x # p => \E i \in 1 .. Len(q) - 1 : q[i + 1] = x
      <4> SUFFICES ASSUME Waits(x), x # p PROVE \E i \in 1 .. Len(q) - 1 : q[i + 1] = x
        OBVIOUS
      <4>1. PICK i \in 1 .. Len(q) : q[i] = x
        BY <3>1
      <4>2. i # 1
        BY <1>5, <4>1
      <4>3. i - 1 \in 1 .. Len(q) - 1 /\ (i - 1) + 1 = i
        BY <1>7, <4>2
      <4>4. QED
        BY <4>1, <4>3
    <3>5. QED
      BY <3>2, <3>3, <3>4
  <2>4. CASE x.kind # o \/ x.key # key
    BY <1>4, <1>8, <2>1, <2>2, <2>4 DEF Waits
  <2>5. QED
    BY <2>3, <2>4
<1>13. a \in Endpoints /\ b \in Endpoints /\ {a, b} = {ep, p} /\ a.key = key /\ b.key = key
  BY <1>5, <1>8
<1>14. /\ matches'[key] = Append(matches[key], <<a, b>>)
       /\ \A x \in Keys \ {key} : matches'[x] = matches[x]
  BY <1>1, <1>2, <1>3
<1> DEFINE m == matches[key]
<1>15. /\ Len(m) \in Nat /\ Len(Append(m, <<a, b>>)) = Len(m) + 1
       /\ \A i \in 1 .. Len(m) : Append(m, <<a, b>>)[i] = m[i] /\ i \in 1 .. Len(m) + 1
       /\ Append(m, <<a, b>>)[Len(m) + 1] = <<a, b>>
       /\ \A i \in 1 .. Len(m) + 1 : i \in 1 .. Len(m) \/ i = Len(m) + 1
       /\ Len(m) + 1 \in 1 .. Len(m) + 1
  <2>1. m \in Seq(Endpoints \X Endpoints) /\ <<a, b>> \in Endpoints \X Endpoints
    BY <1>1, <1>2, <1>13
  <2> HIDE DEF m, a, b
  <2>2. QED
    BY <2>1
<1>16. ASSUME NEW x \in Endpoints
       PROVE  Matched(x)' <=> Matched(x) \/ x \in {a, b}
  <2>1. Matched(x)' <=> \E i \in 1 .. Len(matches'[x.key]) :
                          matches'[x.key][i][1] = x \/ matches'[x.key][i][2] = x
    BY DEF Matched
  <2>2. x.key \in Keys
    BY DEF Endpoints
  <2> HIDE DEF a, b
  <2>3. CASE x.key = key
    <3>1. Matched(x) <=> \E i \in 1 .. Len(m) : m[i][1] = x \/ m[i][2] = x
      BY <2>3 DEF Matched
    <3>2. Matched(x)' <=> \E i \in 1 .. Len(m) + 1 :
                            \/ Append(m, <<a, b>>)[i][1] = x
                            \/ Append(m, <<a, b>>)[i][2] = x
      BY <1>14, <1>15, <2>1, <2>3
    <3> HIDE DEF m
    <3>3. QED
      BY <1>15, <3>1, <3>2
  <2>4. CASE x.key # key
    BY <1>13, <1>14, <2>1, <2>2, <2>4 DEF Matched
  <2>5. QED
    BY <2>3, <2>4
<1>17. ASSUME NEW x \in Endpoints, NEW y \in Endpoints, Joined(x, y)'
       PROVE  Joined(x, y) \/ (x = a /\ y = b)
  <2>1. PICK z \in Keys : \E i \in 1 .. Len(matches'[z]) : matches'[z][i] = <<x, y>>
    BY <1>17 DEF Joined
  <2> HIDE DEF a, b
  <2>2. CASE z = key
    <3>1. PICK i \in 1 .. Len(m) + 1 : Append(m, <<a, b>>)[i] = <<x, y>>
      BY <1>14, <1>15, <2>1, <2>2
    <3>2. CASE i \in 1 .. Len(m)
      BY <1>1, <1>15, <3>1, <3>2 DEF Joined
    <3>3. CASE i = Len(m) + 1
      BY <1>15, <3>1, <3>3
    <3>4. QED
      BY <1>15, <3>2, <3>3
  <2>3. CASE z # key
    BY <1>14, <2>1, <2>3 DEF Joined
  <2>4. QED
    BY <2>2, <2>3
<1>18. IsMatch(ep, p, graph)
  <2> HIDE DEF a, b, p
  <2>1. QED
    BY <1>3, <1>8, <1>11, <1>12, <1>13, <1>16, <1>17 DEF IsMatch
<1>19. QED
  BY <1>5, <1>9, <1>10, <1>18

-----------------------------------------------------------------------------

\* An endpoint the group has set up and not matched yet waits nowhere.
PendingApart == \A ep \in Endpoints : ~ (Waits(ep) /\ Pending(ep))

\* Whoever waits, or is about to look for its peer, is held.
AllHeld == \A ep \in Endpoints : Waits(ep) \/ Pending(ep) => HeldIn(deps, ep)

\* Every pair that was matched is wired.
AllWired == \A send, recv \in Endpoints : Joined(send, recv) => WiredIn(deps, send, recv)

\* Events in the graph belong to calls that were made, and such a call waits, is
\* about to look for its peer, or was matched.
Accounted ==
  \A ep \in Endpoints : FlowEnd(ep) \in Added =>
    ep.call <= made[ep.kind][ep.key] /\ (Waits(ep) \/ Pending(ep) \/ Matched(ep))

\* The endpoints of the group in progress are distinct; each is yet to be set
\* up, yet to be matched or enqueued, or neither.
BatchSplit ==
  /\ \A i, j \in 1 .. Len(batch.eps) : i # j => batch.eps[i] # batch.eps[j]
  /\ \A s \in Streams : \A i \in batch.left[s] :
       /\ i \notin todo
       /\ \A x \in Streams \ {s} : i \notin batch.left[x]
       /\ FlowEnd(batch.eps[i]) \notin Added
       /\ batch.eps[i].call <= made[batch.eps[i].kind][batch.eps[i].key]
  /\ cur = {} => todo = {}

EventInv ==
  /\ GoodGraph(deps)
  /\ QueueOwn /\ QueueOnce /\ PendingApart
  /\ AllHeld /\ AllWired /\ Accounted /\ BatchSplit

PInv == MatchInv /\ EventInv

\* What holds of the graph g on which the peer of ep is looked for, when the
\* endpoints in R are set up and still to be matched.
Poised(g, ep, R) ==
  /\ GoodGraph(g)
  /\ HeldIn(g, ep) /\ \A x \in Endpoints : Waits(x) \/ x \in R => HeldIn(g, x)
  /\ \A a, b \in Endpoints : Joined(a, b) => WiredIn(g, a, b)
  /\ \A x \in Endpoints : FlowEnd(x) \in DOMAIN g => x = ep \/ x \in R \/ Waits(x) \/ Matched(x)
  /\ ~ Waits(ep) /\ ep \notin R
  /\ \A x \in R : ~ Waits(x)

\* What holds after ep has been matched or enqueued.
Settled(g, R) ==
  /\ GoodGraph(deps')
  /\ \A x \in Endpoints : Waits(x)' \/ x \in R => HeldIn(deps', x)
  /\ \A a, b \in Endpoints : Joined(a, b)' => WiredIn(deps', a, b)
  /\ \A x \in Endpoints : FlowEnd(x) \in DOMAIN deps' => x \in R \/ Waits(x)' \/ Matched(x)'
  /\ \A x \in Endpoints : FlowEnd(x) \in DOMAIN deps' <=> FlowEnd(x) \in DOMAIN g
  /\ \A x \in R : ~ Waits(x)'

\* match_or_enqueue_p2p_endpoint: whoever still waits is held, and a new pair is
\* wired.
LEMMA MatchSettles ==
  ASSUME QueuesInv, NEW ep \in Endpoints, NEW g, NEW R \in SUBSET Endpoints,
         Poised(g, ep, R), MatchOrEnqueue(ep, g)
  PROVE  QueueOwn' /\ QueueOnce' /\ Settled(g, R)
<1>1. CASE waiting[Peer(ep.kind)][ep.key] = << >>
  <2>1. QueueOwn' /\ QueueOnce' /\ IsWait(ep, g)
    BY <1>1, WaitEffect DEF Poised
  <2>2. \A x, y \in Endpoints : Joined(x, y)' <=> Joined(x, y)
    BY <2>1 DEF IsWait, Joined
  <2>3. \A x \in Endpoints : Matched(x)' <=> Matched(x)
    BY <2>1 DEF IsWait, Matched
  <2>4. Settled(g, R)
    BY <2>1, <2>2, <2>3 DEF IsWait, Poised, Settled
  <2>5. QED
    BY <2>1, <2>4
<1>2. CASE waiting[Peer(ep.kind)][ep.key] # << >>
  <2>1. QueueOwn' /\ QueueOnce' /\ \E p \in Endpoints : IsMatch(ep, p, g)
    BY <1>2, PairEffect DEF Poised
  <2>2. PICK p \in Endpoints : IsMatch(ep, p, g)
    BY <2>1
  <2>3. PICK a \in Endpoints, b \in Endpoints :
          /\ {a, b} = {ep, p}
          /\ deps' = ScheduleFlow(g, a, b)
          /\ \A x, y \in Endpoints : Joined(x, y)' => Joined(x, y) \/ (x = a /\ y = b)
          /\ \A x \in Endpoints : Matched(x)' <=> Matched(x) \/ x \in {a, b}
    BY <2>2 DEF IsMatch
  <2>4. a # b /\ HeldIn(g, a) /\ HeldIn(g, b) /\ GoodGraph(g)
    BY <2>2, <2>3 DEF IsMatch, Poised
  <2>5. /\ GoodGraph(deps')
        /\ WiredIn(deps', a, b)
        /\ \A x \in Endpoints \ {a, b} : HeldIn(g, x) => HeldIn(deps', x)
        /\ \A x, y \in Endpoints : WiredIn(g, x, y) => WiredIn(deps', x, y)
        /\ \A x \in Endpoints : FlowEnd(x) \in DOMAIN deps' <=> FlowEnd(x) \in DOMAIN g
    BY <2>3, <2>4, ScheduleKeeps
  <2>6. \A x \in Endpoints : Waits(x)' <=> Waits(x) /\ x # p
    BY <2>2 DEF IsMatch
  <2>7. \A x \in Endpoints : Waits(x)' \/ x \in R => x \notin {a, b}
    BY <2>2, <2>3, <2>6 DEF IsMatch, Poised
  <2>8. Settled(g, R)
    BY <2>3, <2>5, <2>6, <2>7 DEF Poised, Settled
  <2>9. QED
    BY <2>1, <2>8
<1>3. QED
  BY <1>1, <1>2

\* Setting up the endpoints in N, whose events are new, leaves a graph on which
\* all that was held and wired still is.
LEMMA Extended ==
  ASSUME EventInv, NEW h, NEW N \in SUBSET Endpoints, Extends(h, deps, N),
         \A ep \in N : FlowEnd(ep) \notin Added
  PROVE  /\ GoodGraph(h)
         /\ \A ep \in N : HeldIn(h, ep)
         /\ \A ep \in Endpoints : Waits(ep) \/ Pending(ep) => HeldIn(h, ep)
         /\ \A a, b \in Endpoints : Joined(a, b) => WiredIn(h, a, b)
         /\ \A ep \in Endpoints : FlowEnd(ep) \in DOMAIN h <=> FlowEnd(ep) \in Added \/ ep \in N
<1>1. GoodGraph(deps) /\ Added = DOMAIN deps
  BY DEF EventInv, Added
<1>2. /\ GoodGraph(h)
      /\ \A ep \in N : HeldIn(h, ep)
      /\ \A ep \in Endpoints : HeldIn(deps, ep) => HeldIn(h, ep)
      /\ \A a, b \in Endpoints : WiredIn(deps, a, b) => WiredIn(h, a, b)
      /\ \A ep \in Endpoints : FlowEnd(ep) \in DOMAIN h <=> FlowEnd(ep) \in Added \/ ep \in N
  BY <1>1, ExtendKeeps
<1>3. QED
  BY <1>2 DEF EventInv, AllHeld, AllWired

\* nccl_ungrouped_p2p adds one endpoint to the graph.
LEMMA UngroupedExtends ==
  ASSUME GoodGraph(deps), NEW ep \in Endpoints, NEW r, NEW s, FlowEnd(ep) \notin Added
  PROVE  Extends(UngroupedGraph(ep, r, s), deps, {ep})
<1> DEFINE h == UngroupedGraph(ep, r, s)
           u == UnmatchedBarrier(ep)  fs == FlowStart(ep)  fe == FlowEnd(ep)
<1>1. /\ DOMAIN h = Added \cup EndpointEvents(ep)
      /\ \A e \in Added : h[e] = deps[e]
      /\ \A e \in EndpointEvents(ep) \ Added : h[e] = EndpointDeps(e, tail[r][s])
  BY DEF UngroupedGraph
<1>2. EndpointEvents(ep) \cap Added = {}
  BY DEF GoodGraph, WholeIn, EndpointEvents, Added
<1>3. EndpointEvents(ep) = {u, fs, fe}
  BY DEF EndpointEvents
<1>4. /\ EndpointDeps(u, tail[r][s]) = {NoneDep}
      /\ EndpointDeps(fs, tail[r][s]) = tail[r][s] \cup {UnmatchedBarrier(ep)}
      /\ EndpointDeps(fe, tail[r][s]) = {FlowStart(ep)}
  BY EventFields DEF EndpointDeps
<1> HIDE DEF h
<1>5. /\ NoneDep \in h[UnmatchedBarrier(ep)]
      /\ UnmatchedBarrier(ep) \in h[FlowStart(ep)]
      /\ FlowStart(ep) \in h[FlowEnd(ep)]
  BY <1>1, <1>2, <1>3, <1>4
<1>6. Added \subseteq DOMAIN h /\ DOMAIN h \subseteq EventNames
  BY <1>1, NamesAreNames DEF GoodGraph, ClosedIn, Added
<1>7. \A x \in Endpoints \ {ep} : EndpointEvents(x) \cap EndpointEvents(ep) = {}
  BY EventFields DEF EndpointEvents
<1>8. \A x \in Endpoints : FlowEvent(x) \notin EndpointEvents(ep)
  BY EventFields DEF EndpointEvents
<1>9. Extends(h, deps, {ep})
  BY <1>1, <1>5, <1>6, <1>7, <1>8 DEF Extends, Added
<1>10. QED
  BY <1>9 DEF h

\* nccl_grouped_p2p adds the endpoints of a stream, and the shell of the group.
LEMMA GroupExtends ==
  ASSUME GoodGraph(deps), NEW eps \in SUBSET Endpoints,
         NEW r \in Ranks, NEW g \in Nat, NEW s \in Streams,
         \A ep \in eps : FlowEnd(ep) \notin Added
  PROVE  Extends(GroupGraph(eps, r, g, s), deps, eps)
<1> DEFINE h == GroupGraph(eps, r, g, s)
           before == {GroupStart(r, g, s)}
           new == BatchEvents(eps, r, g, s)
<1>1. /\ DOMAIN h = Added \cup new
      /\ \A e \in Added : h[e] = deps[e]
      /\ \A e \in DOMAIN h \ Added : h[e] = GroupDeps(e, eps, r, g, s)
  BY DEF GroupGraph
<1>0. \A e : e \in new <=> (\E ep \in eps : e \in EndpointEvents(ep)) \/ e \in GroupEvents(r, g, s)
  BY DEF BatchEvents, EndpointEvents
<1>2. \A ep \in eps : EndpointEvents(ep) \cap Added = {}
  BY DEF GoodGraph, WholeIn, EndpointEvents, Added
<1>3. \A ep \in Endpoints : EndpointEvents(ep) \cap GroupEvents(r, g, s) = {}
  BY EventFields DEF EndpointEvents, GroupEvents
<1>4. ASSUME NEW ep \in eps, NEW e \in EndpointEvents(ep)
      PROVE  h[e] = EndpointDeps(e, before)
  <2>1. e \in DOMAIN h /\ e \notin Added /\ e \notin GroupEvents(r, g, s)
    BY <1>0, <1>1, <1>2, <1>3
  <2>2. e # GroupBarrier(r, g, s) /\ e # GroupStart(r, g, s) /\ e # GroupEnd(r, g, s)
    BY <2>1 DEF GroupEvents
  <2>3. QED
    BY <1>1, <2>1, <2>2 DEF GroupDeps
<1>5. \A ep : /\ EndpointDeps(UnmatchedBarrier(ep), before) = {NoneDep}
              /\ EndpointDeps(FlowStart(ep), before) = before \cup {UnmatchedBarrier(ep)}
              /\ EndpointDeps(FlowEnd(ep), before) = {FlowStart(ep)}
  BY EventFields DEF EndpointDeps
<1> HIDE DEF h, before
<1>6. ASSUME NEW ep \in eps
      PROVE  /\ EndpointEvents(ep) \subseteq DOMAIN h
             /\ NoneDep \in h[UnmatchedBarrier(ep)]
             /\ UnmatchedBarrier(ep) \in h[FlowStart(ep)]
             /\ FlowStart(ep) \in h[FlowEnd(ep)]
  <2>1. EndpointEvents(ep) = {UnmatchedBarrier(ep), FlowStart(ep), FlowEnd(ep)}
    BY DEF EndpointEvents
  <2>2. QED
    BY <1>0, <1>1, <1>4, <1>5, <2>1
<1>7. Added \subseteq DOMAIN h /\ DOMAIN h \subseteq EventNames
  <2>1. new \subseteq EventNames
    BY <1>0, NamesAreNames
  <2>2. QED
    BY <1>0, <1>1, <2>1 DEF GoodGraph, ClosedIn, Added
<1>8. \A x \in Endpoints \ eps : EndpointEvents(x) \cap new = {}
  <2>1. \A x \in Endpoints, ep \in Endpoints : x # ep => EndpointEvents(x) \cap EndpointEvents(ep) = {}
    BY EventFields DEF EndpointEvents
  <2> HIDE DEF new
  <2>2. QED
    BY <1>0, <1>3, <2>1
<1>9. \A x \in Endpoints : FlowEvent(x) \notin new
  <2> HIDE DEF new
  <2>1. QED
    BY <1>0, EventFields DEF EndpointEvents, GroupEvents
<1>10. Extends(h, deps, eps)
  <2> HIDE DEF new
  <2>1. QED
    <3>1. DOMAIN deps \subseteq DOMAIN h /\ DOMAIN h \subseteq EventNames
          /\ \A e \in DOMAIN deps : h[e] = deps[e]
      BY <1>1, <1>7 DEF Added
    <3>2. \A ep \in Endpoints \ eps : EndpointEvents(ep) \cap DOMAIN h \subseteq DOMAIN deps
      BY <1>1, <1>8 DEF Added
    <3>3. \A ep \in Endpoints : FlowEvent(ep) \in DOMAIN h => FlowEvent(ep) \in DOMAIN deps
      BY <1>1, <1>9 DEF Added
    <3>4. QED
      BY <1>6, <3>1, <3>2, <3>3 DEF Extends
<1>11. QED
  BY <1>10 DEF h

-----------------------------------------------------------------------------

\* Counting the members of T up to i numbers them from one on, in order.
LEMMA CountsApart ==
  ASSUME NEW n \in Nat, NEW T \in SUBSET (1 .. n), NEW i \in T
  PROVE  /\ Cardinality({x \in T : x <= i}) \in Nat
         /\ 1 <= Cardinality({x \in T : x <= i})
         /\ Cardinality({x \in T : x <= i}) <= Cardinality(T)
         /\ Cardinality(T) \in Nat
         /\ \A j \in T : i < j =>
              Cardinality({x \in T : x <= i}) # Cardinality({x \in T : x <= j})
<1> DEFINE upto(k) == {x \in T : x <= k}
<1>1. IsFiniteSet(T) /\ Cardinality(T) \in Nat
  <2>1. IsFiniteSet(1 .. n)
    BY FS_Interval
  <2>2. QED
    BY <2>1, FS_Subset, FS_CardinalityType
<1>2. \A k : upto(k) \in SUBSET T
  OBVIOUS
<1>3. \A k : IsFiniteSet(upto(k)) /\ Cardinality(upto(k)) <= Cardinality(T)
  <2> HIDE DEF upto
  <2>1. QED
    BY <1>1, <1>2, FS_Subset
<1>4. \A k : Cardinality(upto(k)) \in Nat
  BY <1>3, FS_CardinalityType
<1>5. i \in upto(i)
  OBVIOUS
<1>6. Cardinality(upto(i)) # 0
  <2> HIDE DEF upto
  <2>1. QED
    BY <1>3, <1>5, FS_EmptySet
<1>7. ASSUME NEW j \in T, i < j
      PROVE  Cardinality(upto(i)) # Cardinality(upto(j))
  <2>1. \A x \in T : x \in Nat
    OBVIOUS
  <2>2. j \in upto(j) /\ j \notin upto(i)
    BY <1>7, <2>1
  <2>3. \A x \in T : x <= i => x <= j
    BY <1>7, <2>1
  <2>4. upto(i) \in SUBSET upto(j)
    BY <2>3
  <2> HIDE DEF upto
  <2>5. QED
    BY <1>3, <2>2, <2>4, FS_Subset
<1>8. 1 <= Cardinality(upto(i))
  <2> HIDE DEF upto
  <2>1. Cardinality(upto(i)) \in Nat
    BY <1>4
  <2>2. QED
    BY <1>6, <2>1
<1>9. QED
  BY <1>1, <1>3, <1>4, <1>7, <1>8

\* What nccl_grouped_p2p makes of the calls: distinct endpoints, numbered after
\* the calls made before, sorted by stream.
IsNumbered ==
  /\ \A i \in 1 .. Len(batch'.eps) :
       LET ep == batch'.eps[i] IN
       /\ made[ep.kind][ep.key] < ep.call /\ ep.call <= made'[ep.kind][ep.key]
       /\ \A j \in 1 .. Len(batch'.eps) : i # j => batch'.eps[j] # ep
  /\ \A k \in P2PCallKind, key \in Keys : made[k][key] <= made'[k][key]
  /\ \A s \in Streams : \A x \in Streams \ {s} : batch'.left[s] \cap batch'.left[x] = {}

\* Closing a group numbers its calls.
LEMMA GroupNumbers ==
  ASSUME CallTypes, NEW r \in Ranks, NEW calls \in Batches, GroupCall(r, calls)
  PROVE  IsNumbered
<1> DEFINE n == Len(calls)
           KeyOf(i)      == p2p_key(calls[i].kind, r, calls[i].peer)
           OfKey(k, key) == {i \in 1 .. Len(calls) : calls[i].kind = k /\ KeyOf(i) = key}
           upto(i)       == {j \in OfKey(calls[i].kind, KeyOf(i)) : j <= i}
           Number(i)     == made[calls[i].kind][KeyOf(i)] + Cardinality(upto(i))
           eps == [i \in 1 .. n |-> Endpoint(calls[i].kind, KeyOf(i), Number(i))]
<1>1. calls \in Seq(CallInfo) /\ n \in Nat
  BY BatchesAssumption
<1>2. \A i \in 1 .. n : calls[i].kind \in P2PCallKind /\ KeyOf(i) \in Keys
  <2>1. \A i \in 1 .. n : calls[i] \in CallInfo
    BY <1>1
  <2>2. QED
    BY <2>1, KeyType DEF CallInfo
<1>3. /\ batch'.eps = eps
      /\ batch'.left = [s \in Streams |-> OfStream(calls, s)]
      /\ made' = [k \in P2PCallKind |-> [key \in Keys |-> made[k][key] + Cardinality(OfKey(k, key))]]
  BY DEF GroupCall
<1>4. Len(eps) = n /\ \A i \in 1 .. n : eps[i] = Endpoint(calls[i].kind, KeyOf(i), Number(i))
  BY <1>1
<1>5. \A k \in P2PCallKind, key \in Keys : made[k][key] \in Nat
  BY DEF CallTypes
<1>6. \A k, key : OfKey(k, key) \in SUBSET (1 .. n)
  OBVIOUS
<1>7. \A k, key : Cardinality(OfKey(k, key)) \in Nat
  BY <1>1, <1>6, CountType
<1>8. ASSUME NEW k \in P2PCallKind, NEW key \in Keys
      PROVE  /\ made'[k][key] = made[k][key] + Cardinality(OfKey(k, key))
             /\ made[k][key] <= made'[k][key]
  <2>1. made'[k][key] = made[k][key] + Cardinality(OfKey(k, key))
    BY <1>3
  <2>2. made[k][key] \in Nat /\ Cardinality(OfKey(k, key)) \in Nat
    BY <1>5, <1>7
  <2> HIDE DEF OfKey
  <2>3. QED
    BY <2>1, <2>2
<1>9. ASSUME NEW i \in 1 .. n
      PROVE  /\ eps[i].kind = calls[i].kind /\ eps[i].key = KeyOf(i) /\ eps[i].call = Number(i)
             /\ made[calls[i].kind][KeyOf(i)] < Number(i)
             /\ Number(i) <= made'[calls[i].kind][KeyOf(i)]
             /\ \A j \in 1 .. n : i < j => eps[i] # eps[j]
  <2>1. eps[i].kind = calls[i].kind /\ eps[i].key = KeyOf(i) /\ eps[i].call = Number(i)
    BY <1>4 DEF Endpoint
  <2> DEFINE k == calls[i].kind  key == KeyOf(i)  T == OfKey(k, key)
             c == Cardinality(upto(i))
  <2>2. i \in T /\ T \in SUBSET (1 .. n)
    OBVIOUS
  <2>3. upto(i) = {x \in T : x <= i}
    OBVIOUS
  <2>4. /\ c \in Nat /\ 1 <= c /\ c <= Cardinality(T) /\ Cardinality(T) \in Nat
        /\ \A j \in T : i < j => c # Cardinality({x \in T : x <= j})
    <3> HIDE DEF T, n, upto
    <3>1. QED
      BY <1>1, <2>2, <2>3, CountsApart
  <2>5. k \in P2PCallKind /\ key \in Keys /\ made[k][key] \in Nat
    BY <1>2, <1>5
  <2>6. Number(i) = made[k][key] + c /\ made'[k][key] = made[k][key] + Cardinality(T)
    BY <1>8, <2>5
  <2>7. made[k][key] < Number(i) /\ Number(i) <= made'[k][key]
    <3> HIDE DEF c, T, k, key, Number
    <3>1. QED
      BY <2>4, <2>5, <2>6
  <2>8. ASSUME NEW j \in 1 .. n, i < j
        PROVE  eps[i] # eps[j]
    <3>1. eps[j].kind = calls[j].kind /\ eps[j].key = KeyOf(j) /\ eps[j].call = Number(j)
      BY <1>4 DEF Endpoint
    <3>2. CASE calls[j].kind = k /\ KeyOf(j) = key
      <4>1. j \in T
        BY <3>2
      <4>2. upto(j) = {x \in T : x <= j}
        BY <3>2
      <4>3. Number(j) = made[k][key] + Cardinality({x \in T : x <= j})
        BY <3>2, <4>2
      <4>4. Cardinality({x \in T : x <= j}) \in Nat /\ c # Cardinality({x \in T : x <= j})
        <5> HIDE DEF T, n, upto
        <5>1. QED
          BY <1>1, <2>2, <2>4, <2>8, <4>1, CountsApart
      <4>5. Number(i) # Number(j)
        <5> DEFINE d == Cardinality({x \in T : x <= j})
        <5>1. d \in Nat /\ c # d /\ Number(j) = made[k][key] + d
          BY <4>3, <4>4
        <5> HIDE DEF c, d, T, k, key, Number
        <5>2. QED
          BY <2>4, <2>5, <2>6, <5>1
      <4>6. QED
        BY <2>1, <3>1, <4>5
    <3>3. CASE calls[j].kind # k \/ KeyOf(j) # key
      BY <2>1, <3>1, <3>3
    <3>4. QED
      BY <3>2, <3>3
  <2>9. QED
    BY <2>1, <2>7, <2>8
<1>10. \A i, j \in 1 .. n : i # j => eps[i] # eps[j]
  <2> HIDE DEF eps
  <2>1. \A i, j \in 1 .. n : i # j => i < j \/ j < i
    BY <1>1
  <2>2. QED
    BY <1>9, <2>1
<1>11. \A s \in Streams : \A x \in Streams \ {s} : batch'.left[s] \cap batch'.left[x] = {}
  BY <1>3 DEF OfStream
<1>12. \A i \in 1 .. n :
         /\ made[eps[i].kind][eps[i].key] < eps[i].call
         /\ eps[i].call <= made'[eps[i].kind][eps[i].key]
  <2> HIDE DEF eps, Number, KeyOf
  <2>1. QED
    BY <1>9
<1>13. QED
  <2> HIDE DEF eps, n
  <2>1. QED
    BY <1>3, <1>4, <1>8, <1>10, <1>11, <1>12 DEF IsNumbered

\* Steps that leave queues and matches alone change nobody's standing in them.
LEMMA SameQueues ==
  ASSUME UNCHANGED <<waiting, matches>>
  PROVE  /\ QueueOwn' <=> QueueOwn
         /\ QueueOnce' <=> QueueOnce
         /\ \A x : (Waits(x)' <=> Waits(x)) /\ (Matched(x)' <=> Matched(x))
         /\ \A x, y : Joined(x, y)' <=> Joined(x, y)
BY DEF QueueOwn, QueueOnce, Waits, Matched, Joined

\* A graph that is good stays so while no event ends.
LEMMA GoodPrimed ==
  ASSUME NEW g, GoodGraph(g), deps' = g, over' = over
  PROVE  GoodGraph(deps)'
BY DEF GoodGraph, ClosedIn, WholeIn

-----------------------------------------------------------------------------

\* Between groups nothing is set up and unmatched, and no group has endpoints.
LEMMA IdleEmpty ==
  ASSUME CallTypes, BatchSplit, Idle
  PROVE  /\ cur = {} /\ todo = {} /\ batch.eps = << >>
         /\ \A s \in Streams : batch.left[s] = {}
         /\ \A x : ~ Pending(x)
BY NoBatchType DEF BatchSplit, Idle, Pending

\* An endpoint whose events are not in the graph waits nowhere.
LEMMA NewDoesNotWait ==
  ASSUME EventInv, NEW ep \in Endpoints, FlowEnd(ep) \notin Added
  PROVE  ~ Waits(ep) /\ ~ Pending(ep)
BY DEF EventInv, AllHeld, HeldIn, Added

\* nccl_ungrouped_p2p.
LEMMA UngroupedKeeps ==
  ASSUME PInv, NEW r \in Ranks, NEW kind \in P2PCallKind, NEW peer \in Ranks, NEW s \in Streams,
         UngroupedP2P(r, kind, peer, s)
  PROVE  EventInv'
<1> DEFINE key == p2p_key(kind, r, peer)
           ep  == Endpoint(kind, key, made[kind][key] + 1)
           g   == UngroupedGraph(ep, r, s)
<1>1. EventInv /\ QueuesInv /\ CallTypes
  BY TypeParts DEF PInv, EventInv, QueuesInv, MatchInv
<1>2. /\ Idle /\ made' = [made EXCEPT ![kind][key] = @ + 1]
      /\ MatchOrEnqueue(ep, g)
      /\ UNCHANGED <<over, groups, batch, cur, todo>>
  BY DEF UngroupedP2P, handlerVars
<1>3. key \in Keys /\ made[kind][key] \in Nat /\ made \in [P2PCallKind -> [Keys -> Nat]]
  BY <1>1, KeyType DEF CallTypes
<1>4. ep \in Endpoints /\ ep.kind = kind /\ ep.key = key /\ ep.call = made[kind][key] + 1
  BY <1>3 DEF Endpoint, Endpoints
<1>5. FlowEnd(ep) \notin Added
  <2>1. ~ (ep.call <= made[ep.kind][ep.key])
    BY <1>3, <1>4
  <2>2. QED
    BY <1>1, <1>4, <2>1 DEF EventInv, Accounted
<1>6. /\ cur = {} /\ todo = {} /\ batch.eps = << >>
      /\ \A x \in Streams : batch.left[x] = {}
      /\ \A x : ~ Pending(x)
  BY <1>1, <1>2, IdleEmpty DEF EventInv
<1>7. /\ made'[kind][key] = made[kind][key] + 1
      /\ \A k \in P2PCallKind, x \in Keys : made[k][x] <= made'[k][x]
      /\ \A k \in P2PCallKind, x \in Keys : made[k][x] \in Nat /\ made'[k][x] \in Nat
  BY <1>2, <1>3
<1> HIDE DEF ep, g, key
<1>8. /\ GoodGraph(g)
      /\ HeldIn(g, ep)
      /\ \A x \in Endpoints : Waits(x) \/ Pending(x) => HeldIn(g, x)
      /\ \A a, b \in Endpoints : Joined(a, b) => WiredIn(g, a, b)
      /\ \A x \in Endpoints : FlowEnd(x) \in DOMAIN g <=> FlowEnd(x) \in Added \/ x = ep
  <2>1. GoodGraph(deps)
    BY <1>1 DEF EventInv
  <2>2. Extends(g, deps, {ep})
    BY <1>4, <1>5, <2>1, UngroupedExtends DEF g
  <2>3. {ep} \in SUBSET Endpoints /\ \A x \in {ep} : FlowEnd(x) \notin Added
    BY <1>4, <1>5
  <2>4. QED
    BY <1>1, <2>2, <2>3, Extended
<1>9. Poised(g, ep, {})
  <2>1. \A x \in Endpoints : FlowEnd(x) \in DOMAIN g => x = ep \/ Waits(x) \/ Matched(x)
    BY <1>1, <1>6, <1>8 DEF EventInv, Accounted
  <2>2. ~ Waits(ep)
    BY <1>1, <1>4, <1>5, NewDoesNotWait
  <2>3. QED
    BY <1>8, <2>1, <2>2 DEF Poised
<1>10. QueueOwn' /\ QueueOnce' /\ Settled(g, {})
  BY <1>1, <1>2, <1>4, <1>9, MatchSettles
<1>11. GoodGraph(deps)'
  BY <1>2, <1>10, GoodPrimed DEF Settled
<1>12. todo' = {} /\ \A x : ~ Pending(x)'
  BY <1>2, <1>6 DEF Pending
<1>13. PendingApart' /\ AllHeld' /\ AllWired'
  BY <1>10, <1>12 DEF Settled, PendingApart, AllHeld, AllWired
<1>14. Accounted'
  <2> SUFFICES ASSUME NEW x \in Endpoints, FlowEnd(x) \in DOMAIN deps'
               PROVE  x.call <= made'[x.kind][x.key] /\ (Waits(x)' \/ Pending(x)' \/ Matched(x)')
    BY DEF Accounted, Added
  <2>1. Waits(x)' \/ Matched(x)'
    BY <1>10 DEF Settled
  <2>2. x.kind \in P2PCallKind /\ x.key \in Keys /\ x.call \in Nat
    BY DEF Endpoints
  <2>3. FlowEnd(x) \in Added \/ x = ep
    BY <1>8, <1>10 DEF Settled
  <2>4. CASE FlowEnd(x) \in Added
    <3>1. x.call <= made[x.kind][x.key]
      BY <1>1, <2>4 DEF EventInv, Accounted
    <3>2. made[x.kind][x.key] <= made'[x.kind][x.key]
          /\ made[x.kind][x.key] \in Nat /\ made'[x.kind][x.key] \in Nat
      BY <1>7, <2>2
    <3>3. QED
      BY <2>1, <2>2, <3>1, <3>2
  <2>5. CASE x = ep
    BY <1>3, <1>4, <1>7, <2>1, <2>5
  <2>6. QED
    BY <2>3, <2>4, <2>5
<1>15. BatchSplit'
  BY <1>2, <1>6 DEF BatchSplit
<1>16. QED
  BY <1>10, <1>11, <1>13, <1>14, <1>15 DEF EventInv

\* nccl_grouped_p2p, first part: the calls are numbered, and nothing else changes.
LEMMA GroupCallKeeps ==
  ASSUME PInv, NEW r \in Ranks, NEW calls \in Batches, GroupCall(r, calls)
  PROVE  EventInv'
<1>1. EventInv /\ CallTypes
  BY TypeParts DEF PInv, EventInv, MatchInv
<1>2. /\ Idle /\ UNCHANGED <<deps, over, waiting, cur, todo, matches>>
  BY DEF GroupCall, graphVars
<1>3. cur = {} /\ todo = {} /\ \A x : ~ Pending(x)
  BY <1>1, <1>2, IdleEmpty DEF EventInv
<1>4. /\ QueueOwn' /\ QueueOnce'
      /\ \A x : (Waits(x)' <=> Waits(x)) /\ (Matched(x)' <=> Matched(x))
      /\ \A x, y : Joined(x, y)' <=> Joined(x, y)
  BY <1>1, <1>2, SameQueues DEF EventInv
<1>5. \A x : ~ Pending(x)'
  BY <1>2, <1>3 DEF Pending
<1>6. GoodGraph(deps)'
  BY <1>1, <1>2, GoodPrimed DEF EventInv
<1>7. PendingApart' /\ AllHeld' /\ AllWired'
  <2>1. \A x \in Endpoints : HeldIn(deps, x)' <=> HeldIn(deps, x)
    BY <1>2
  <2>2. \A x, y \in Endpoints : WiredIn(deps, x, y)' <=> WiredIn(deps, x, y)
    BY <1>2
  <2>3. QED
    BY <1>1, <1>2, <1>3, <1>4, <1>5, <2>1, <2>2 DEF EventInv, PendingApart, AllHeld, AllWired
<1>8. IsNumbered /\ CallTypes'
  BY <1>1, GroupNumbers, GroupCallTypes
<1>9. \A x \in Endpoints : x.kind \in P2PCallKind /\ x.key \in Keys /\ x.call \in Nat
  BY DEF Endpoints
<1>10. \A k \in P2PCallKind, x \in Keys :
         made[k][x] \in Nat /\ made'[k][x] \in Nat /\ made[k][x] <= made'[k][x]
  BY <1>1, <1>8 DEF CallTypes, IsNumbered
<1>11. Accounted'
  <2> SUFFICES ASSUME NEW x \in Endpoints, FlowEnd(x) \in DOMAIN deps'
               PROVE  x.call <= made'[x.kind][x.key] /\ (Waits(x)' \/ Pending(x)' \/ Matched(x)')
    BY DEF Accounted, Added
  <2>1. x.call <= made[x.kind][x.key] /\ (Waits(x) \/ Matched(x))
    BY <1>1, <1>2, <1>3 DEF EventInv, Accounted, Added
  <2>2. x.call <= made'[x.kind][x.key]
    BY <1>9, <1>10, <2>1
  <2>3. QED
    BY <1>4, <2>1, <2>2
<1>12. \A i \in 1 .. Len(batch'.eps) : batch'.eps[i] \in Endpoints
  BY <1>8 DEF CallTypes
<1>13. ASSUME NEW i \in 1 .. Len(batch'.eps)
       PROVE  FlowEnd(batch'.eps[i]) \notin Added'
  <2> DEFINE ep == batch'.eps[i]
  <2>1. made[ep.kind][ep.key] < ep.call /\ ep \in Endpoints
    BY <1>8, <1>12 DEF IsNumbered
  <2>2. ~ (ep.call <= made[ep.kind][ep.key])
    BY <1>9, <1>10, <2>1
  <2>3. FlowEnd(ep) \notin Added
    BY <1>1, <2>1, <2>2 DEF EventInv, Accounted
  <2>4. QED
    BY <1>2, <2>3 DEF Added
<1>14. BatchSplit'
  <2>1. \A i, j \in 1 .. Len(batch'.eps) : i # j => batch'.eps[i] # batch'.eps[j]
    BY <1>8 DEF IsNumbered
  <2>2. ASSUME NEW s \in Streams, NEW i \in batch'.left[s]
        PROVE  /\ i \notin todo'
               /\ \A x \in Streams \ {s} : i \notin batch'.left[x]
               /\ FlowEnd(batch'.eps[i]) \notin Added'
               /\ batch'.eps[i].call <= made'[batch'.eps[i].kind][batch'.eps[i].key]
    <3>1. i \in 1 .. Len(batch'.eps)
      BY <1>8 DEF CallTypes
    <3>2. i \notin todo'
      BY <1>2, <1>3
    <3>3. \A x \in Streams \ {s} : i \notin batch'.left[x]
      BY <1>8 DEF IsNumbered
    <3>4. batch'.eps[i].call <= made'[batch'.eps[i].kind][batch'.eps[i].key]
      BY <1>8, <3>1 DEF IsNumbered
    <3>5. QED
      BY <1>13, <3>1, <3>2, <3>3, <3>4
  <2>3. cur' = {} => todo' = {}
    BY <1>2, <1>3
  <2>4. QED
    BY <2>1, <2>2, <2>3 DEF BatchSplit
<1>15. QED
  BY <1>4, <1>6, <1>7, <1>11, <1>14 DEF EventInv

\* nccl_grouped_p2p, one stream: its endpoints are set up, held by their barriers.
LEMMA GroupSetupKeeps ==
  ASSUME PInv, NEW s \in Streams, GroupSetup(s)
  PROVE  EventInv'
<1> DEFINE r == batch.rank
           n == groups[batch.rank]
           N == {batch.eps[i] : i \in batch.left[s]}
           g == GroupGraph(N, r, n, s)
<1>1. EventInv /\ CallTypes
  BY TypeParts DEF PInv, EventInv, MatchInv
<1>2. /\ cur = {} /\ cur' = {s} /\ todo' = batch.left[s]
      /\ batch' = [batch EXCEPT !.left[s] = {}]
      /\ deps' = g
      /\ UNCHANGED <<over, waiting, made, matches>>
  BY DEF GroupSetup
<1>3. todo = {} /\ \A x : ~ Pending(x)
  BY <1>1, <1>2 DEF EventInv, BatchSplit, Pending
<1>4. /\ \A i \in 1 .. Len(batch.eps) : batch.eps[i] \in Endpoints
      /\ \A x \in Streams : batch.left[x] \subseteq 1 .. Len(batch.eps)
      /\ r \in Ranks /\ n \in Nat
  BY <1>1 DEF CallTypes
<1>5. N \in SUBSET Endpoints
  BY <1>4
<1>6. \A ep \in N : FlowEnd(ep) \notin Added
  BY <1>1 DEF EventInv, BatchSplit
<1> HIDE DEF g, r, n
<1>7. /\ GoodGraph(g)
      /\ \A ep \in N : HeldIn(g, ep)
      /\ \A ep \in Endpoints : Waits(ep) \/ Pending(ep) => HeldIn(g, ep)
      /\ \A a, b \in Endpoints : Joined(a, b) => WiredIn(g, a, b)
      /\ \A ep \in Endpoints : FlowEnd(ep) \in DOMAIN g <=> FlowEnd(ep) \in Added \/ ep \in N
  <2> HIDE DEF N
  <2>1. GoodGraph(deps)
    BY <1>1 DEF EventInv
  <2>2. Extends(g, deps, N)
    BY <1>4, <1>5, <1>6, <2>1, GroupExtends DEF g
  <2>3. QED
    BY <1>1, <1>5, <1>6, <2>2, Extended
<1>8. /\ QueueOwn' /\ QueueOnce'
      /\ \A x : (Waits(x)' <=> Waits(x)) /\ (Matched(x)' <=> Matched(x))
      /\ \A x, y : Joined(x, y)' <=> Joined(x, y)
  BY <1>1, <1>2, SameQueues DEF EventInv
<1>9. /\ batch'.eps = batch.eps /\ batch'.left[s] = {}
      /\ \A x \in Streams \ {s} : batch'.left[x] = batch.left[x]
  BY <1>1, <1>2 DEF CallTypes
<1>10. \A x : Pending(x)' <=> x \in N
  BY <1>2, <1>9 DEF Pending
<1>11. GoodGraph(deps)'
  BY <1>2, <1>7, GoodPrimed
<1>12. \A ep \in N : ~ Waits(ep)
  BY <1>1, <1>5, <1>6, NewDoesNotWait
<1>13. PendingApart'
  <2> HIDE DEF N
  <2>1. QED
    BY <1>8, <1>10, <1>12 DEF PendingApart
<1>14. AllHeld' /\ AllWired'
  <2>1. \A x \in Endpoints : Waits(x)' \/ Pending(x)' => HeldIn(g, x)
    BY <1>7, <1>8, <1>10
  <2>2. \A x, y \in Endpoints : Joined(x, y)' => WiredIn(g, x, y)
    BY <1>7, <1>8
  <2>3. QED
    BY <1>2, <2>1, <2>2 DEF AllHeld, AllWired
<1>15. Accounted'
  <2> SUFFICES ASSUME NEW x \in Endpoints, FlowEnd(x) \in DOMAIN deps'
               PROVE  x.call <= made'[x.kind][x.key] /\ (Waits(x)' \/ Pending(x)' \/ Matched(x)')
    BY DEF Accounted, Added
  <2>1. FlowEnd(x) \in Added \/ x \in N
    BY <1>2, <1>7
  <2>2. CASE FlowEnd(x) \in Added
    BY <1>1, <1>2, <1>3, <1>8, <2>2 DEF EventInv, Accounted
  <2>3. CASE x \in N
    <3>1. x.call <= made[x.kind][x.key]
      BY <1>1, <2>3 DEF EventInv, BatchSplit
    <3>2. QED
      BY <1>2, <1>10, <2>3, <3>1
  <2>4. QED
    BY <2>1, <2>2, <2>3
<1>16. BatchSplit'
  <2>1. \A i, j \in 1 .. Len(batch'.eps) : i # j => batch'.eps[i] # batch'.eps[j]
    BY <1>1, <1>9 DEF EventInv, BatchSplit
  <2>2. ASSUME NEW x \in Streams, NEW i \in batch'.left[x]
        PROVE  /\ i \notin todo'
               /\ \A y \in Streams \ {x} : i \notin batch'.left[y]
               /\ FlowEnd(batch'.eps[i]) \notin Added'
               /\ batch'.eps[i].call <= made'[batch'.eps[i].kind][batch'.eps[i].key]
    <3>1. x # s /\ i \in batch.left[x]
      BY <1>9, <2>2
    <3>2. /\ \A y \in Streams \ {x} : i \notin batch.left[y]
          /\ FlowEnd(batch.eps[i]) \notin Added
          /\ batch.eps[i].call <= made[batch.eps[i].kind][batch.eps[i].key]
      BY <1>1, <3>1 DEF EventInv, BatchSplit
    <3>3. i \notin todo'
      BY <1>2, <3>1, <3>2
    <3>4. \A y \in Streams \ {x} : i \notin batch'.left[y]
      BY <1>9, <3>2
    <3>5. batch.eps[i] \in Endpoints /\ batch.eps[i] \notin N
      <4>1. i \in 1 .. Len(batch.eps)
        BY <1>4, <3>1
      <4>2. \A j \in batch.left[s] : j \in 1 .. Len(batch.eps) /\ j # i
        BY <1>4, <3>1, <3>2
      <4>3. \A j \in batch.left[s] : batch.eps[j] # batch.eps[i]
        BY <1>1, <4>1, <4>2 DEF EventInv, BatchSplit
      <4>4. QED
        BY <1>4, <4>1, <4>3
    <3>6. FlowEnd(batch'.eps[i]) \notin Added'
      BY <1>2, <1>7, <1>9, <3>2, <3>5 DEF Added
    <3>7. QED
      BY <1>2, <1>9, <3>2, <3>3, <3>4, <3>6
  <2>3. cur' = {} => todo' = {}
    BY <1>2
  <2>4. QED
    BY <2>1, <2>2, <2>3 DEF BatchSplit
<1>17. QED
  BY <1>8, <1>11, <1>13, <1>14, <1>15, <1>16 DEF EventInv

\* nccl_grouped_p2p: the next endpoint of the stream is matched or enqueued.
LEMMA GroupMatchKeeps ==
  ASSUME PInv, GroupMatch
  PROVE  EventInv'
<1>1. EventInv /\ QueuesInv /\ CallTypes
  BY TypeParts DEF PInv, EventInv, QueuesInv, MatchInv
<1>2. PICK i \in todo : /\ MatchOrEnqueue(batch.eps[i], deps)
                        /\ todo' = todo \ {i}
                        /\ UNCHANGED <<over, groups, batch, cur, made>>
  BY DEF GroupMatch
<1> DEFINE ep == batch.eps[i]
           R  == {batch.eps[j] : j \in todo \ {i}}
<1>3. \A j \in todo : j \in 1 .. Len(batch.eps) /\ batch.eps[j] \in Endpoints
  BY <1>1 DEF CallTypes
<1>4. ep \in Endpoints /\ R \in SUBSET Endpoints
  BY <1>3
<1>5. ep \notin R
  BY <1>1, <1>3 DEF EventInv, BatchSplit
<1>6. \A x : Pending(x) <=> x = ep \/ x \in R
  BY DEF Pending
<1>7. \A x : Pending(x)' <=> x \in R
  BY <1>2 DEF Pending
<1> HIDE DEF ep, R
<1>8. ~ Waits(ep) /\ \A x \in R : ~ Waits(x)
  BY <1>1, <1>4, <1>6 DEF EventInv, PendingApart
<1>9. Poised(deps, ep, R)
  BY <1>1, <1>4, <1>5, <1>6, <1>8 DEF EventInv, AllHeld, AllWired, Accounted, Added, Poised
<1>10. QueueOwn' /\ QueueOnce' /\ Settled(deps, R)
  BY <1>1, <1>2, <1>4, <1>9, MatchSettles DEF ep
<1>11. GoodGraph(deps)'
  BY <1>2, <1>10, GoodPrimed DEF Settled
<1>12. PendingApart'
  BY <1>7, <1>10 DEF Settled, PendingApart
<1>13. AllHeld' /\ AllWired'
  BY <1>7, <1>10 DEF Settled, AllHeld, AllWired
<1>14. \A x \in Endpoints : FlowEnd(x) \in Added' <=> FlowEnd(x) \in Added
  BY <1>10 DEF Settled, Added
<1>15. Accounted'
  <2>1. \A x \in Endpoints : FlowEnd(x) \in Added => x.call <= made[x.kind][x.key]
    BY <1>1 DEF EventInv, Accounted
  <2>2. \A x \in Endpoints : FlowEnd(x) \in Added' => Waits(x)' \/ Pending(x)' \/ Matched(x)'
    BY <1>7, <1>10 DEF Settled, Added
  <2>3. QED
    BY <1>2, <1>14, <2>1, <2>2 DEF Accounted
<1>16. BatchSplit'
  <2>1. \A j, k \in 1 .. Len(batch'.eps) : j # k => batch'.eps[j] # batch'.eps[k]
    BY <1>1, <1>2 DEF EventInv, BatchSplit
  <2>2. ASSUME NEW s \in Streams, NEW j \in batch'.left[s]
        PROVE  /\ j \notin todo'
               /\ \A x \in Streams \ {s} : j \notin batch'.left[x]
               /\ FlowEnd(batch'.eps[j]) \notin Added'
               /\ batch'.eps[j].call <= made'[batch'.eps[j].kind][batch'.eps[j].key]
    <3>1. j \in batch.left[s]
      BY <1>2
    <3>2. /\ j \notin todo
          /\ \A x \in Streams \ {s} : j \notin batch.left[x]
          /\ FlowEnd(batch.eps[j]) \notin Added
          /\ batch.eps[j].call <= made[batch.eps[j].kind][batch.eps[j].key]
      BY <1>1, <3>1 DEF EventInv, BatchSplit
    <3>3. batch.eps[j] \in Endpoints
      BY <1>1, <3>1 DEF CallTypes
    <3>4. FlowEnd(batch'.eps[j]) \notin Added'
      BY <1>2, <1>14, <3>2, <3>3
    <3>5. QED
      BY <1>2, <3>2, <3>4
  <2>3. cur' = {} => todo' = {}
    BY <1>1, <1>2 DEF EventInv, BatchSplit
  <2>4. QED
    BY <2>1, <2>2, <2>3 DEF BatchSplit
<1>17. QED
  BY <1>10, <1>11, <1>12, <1>13, <1>15, <1>16 DEF EventInv

\* nccl_grouped_p2p, end of a stream: the shell's barrier is released, and no
\* endpoint hangs on that one.
LEMMA GroupReleaseKeeps ==
  ASSUME PInv, GroupRelease
  PROVE  EventInv'
<1>1. EventInv /\ CallTypes
  BY TypeParts DEF PInv, EventInv, MatchInv
<1>2. PICK s \in cur :
        LET b == GroupBarrier(batch.rank, groups[batch.rank], s) IN
        /\ todo = {} /\ todo' = {} /\ cur' = {}
        /\ deps' = [deps EXCEPT ![b] = @ \ {NoneDep}]
        /\ batch' = NoBatch \/ batch' = batch
        /\ UNCHANGED <<over, waiting, made, matches>>
  BY DEF GroupRelease
<1> DEFINE b == GroupBarrier(batch.rank, groups[batch.rank], s)
<1>3. /\ DOMAIN deps' = DOMAIN deps
      /\ \A e \in DOMAIN deps : deps'[e] \subseteq deps[e]
      /\ \A e \in DOMAIN deps : e # b => deps'[e] = deps[e]
  BY <1>2
<1>4. \A x : /\ UnmatchedBarrier(x) # b /\ FlowStart(x) # b
             /\ FlowEnd(x) # b /\ FlowEvent(x) # b
  BY EventFields
<1> HIDE DEF b
<1>5. GoodGraph(deps)'
  <2>1. GoodGraph(deps) /\ over' = over
    BY <1>1, <1>2 DEF EventInv
  <2>2. ClosedIn(deps)'
    BY <1>3, <2>1 DEF GoodGraph, ClosedIn
  <2>3. WholeIn(deps)'
    BY <1>3, <2>1 DEF GoodGraph, WholeIn
  <2>4. QED
    BY <2>2, <2>3 DEF GoodGraph
<1>6. ASSUME NEW x \in Endpoints, HeldIn(deps, x)
      PROVE  HeldIn(deps, x)'
  <2>1. {UnmatchedBarrier(x), FlowStart(x), FlowEnd(x)} \subseteq DOMAIN deps
    BY <1>1, <1>6 DEF EventInv, GoodGraph, WholeIn, HeldIn
  <2>2. QED
    BY <1>3, <1>4, <1>6, <2>1 DEF HeldIn
<1>7. ASSUME NEW x \in Endpoints, NEW y \in Endpoints, WiredIn(deps, x, y)
      PROVE  WiredIn(deps, x, y)'
  BY <1>3, <1>4, <1>7 DEF WiredIn
<1>8. /\ QueueOwn' /\ QueueOnce'
      /\ \A x : (Waits(x)' <=> Waits(x)) /\ (Matched(x)' <=> Matched(x))
      /\ \A x, y : Joined(x, y)' <=> Joined(x, y)
  BY <1>1, <1>2, SameQueues DEF EventInv
<1>9. \A x : ~ Pending(x) /\ ~ Pending(x)'
  BY <1>2 DEF Pending
<1>10. PendingApart' /\ AllHeld' /\ AllWired'
  BY <1>1, <1>2, <1>6, <1>7, <1>8, <1>9 DEF EventInv, PendingApart, AllHeld, AllWired
<1>11. Accounted'
  BY <1>1, <1>2, <1>3, <1>8, <1>9 DEF EventInv, Accounted, Added
<1>12. BatchSplit'
  <2>1. CASE batch' = NoBatch
    BY <1>2, <2>1, NoBatchType DEF BatchSplit
  <2>2. CASE batch' = batch
    BY <1>1, <1>2, <1>3, <2>2 DEF EventInv, BatchSplit, Added
  <2>3. QED
    BY <1>2, <2>1, <2>2
<1>13. QED
  BY <1>5, <1>8, <1>10, <1>11, <1>12 DEF EventInv

\* The event queue ends an event whose dependencies have ended.
LEMMA ExecuteKeeps ==
  ASSUME PInv, Execute \/ UNCHANGED vars
  PROVE  EventInv'
<1>1. EventInv
  BY DEF PInv
<1>2. UNCHANGED <<deps, waiting, batch, cur, todo, made, matches>>
  BY DEF Execute, EndOf, vars, graphVars, p2pVars, handlerVars
<1>3. over' = over \/ \E e \in Added : deps[e] \subseteq over /\ over' = over \cup {e}
  BY DEF Execute, EndOf, Ready, vars, graphVars
<1>4. GoodGraph(deps)'
  BY <1>1, <1>2, <1>3 DEF EventInv, GoodGraph, ClosedIn, WholeIn, Added
<1>5. QueueOwn' /\ QueueOnce' /\ PendingApart' /\ AllHeld' /\ AllWired' /\ Accounted' /\ BatchSplit'
  <2>1. QueueOwn' /\ QueueOnce' /\ PendingApart'
    BY <1>1, <1>2 DEF EventInv, QueueOwn, QueueOnce, PendingApart, Waits, Pending
  <2>2. AllHeld' /\ AllWired'
    BY <1>1, <1>2 DEF EventInv, AllHeld, AllWired, HeldIn, WiredIn, Waits, Pending, Joined
  <2>3. Accounted' /\ BatchSplit'
    BY <1>1, <1>2 DEF EventInv, Accounted, BatchSplit, Waits, Pending, Matched, Added
  <2>4. QED
    BY <2>1, <2>2, <2>3
<1>6. QED
  BY <1>4, <1>5 DEF EventInv

\* Before any call there is no event, and nobody waits.
LEMMA InitEvents == Init => EventInv
<1> SUFFICES ASSUME Init PROVE EventInv
  OBVIOUS
<1>1. /\ deps = << >> /\ DOMAIN deps = {} /\ over = {} /\ todo = {} /\ cur = {} /\ batch = NoBatch
      /\ \A kind \in P2PCallKind, key \in Keys : waiting[kind][key] = << >>
      /\ \A key \in Keys : matches[key] = << >>
  BY DEF Init, GraphInit
<1>2. GoodGraph(deps)
  BY <1>1 DEF GoodGraph, ClosedIn, WholeIn
<1>3. \A x \in Endpoints : ~ Waits(x) /\ ~ Pending(x)
  BY <1>1 DEF Waits, Pending, Endpoints
<1>4. QueueOwn /\ QueueOnce /\ PendingApart
  BY <1>1, <1>3 DEF QueueOwn, QueueOnce, PendingApart
<1>5. \A x, y \in Endpoints : ~ Joined(x, y)
  BY <1>1 DEF Joined
<1>6. AllHeld /\ AllWired
  BY <1>3, <1>5 DEF AllHeld, AllWired
<1>7. Accounted
  BY <1>1 DEF Accounted, Added
<1>8. BatchSplit
  BY <1>1, NoBatchType DEF BatchSplit
<1>9. QED
  BY <1>2, <1>4, <1>6, <1>7, <1>8 DEF EventInv

\* Every handler keeps the graph part of the invariant.
LEMMA StepEvents == PInv /\ [Next]_vars => EventInv'
<1> SUFFICES ASSUME PInv, [Next]_vars PROVE EventInv'
  OBVIOUS
<1>1. ASSUME NEW r \in Ranks, NEW peer \in Ranks, NEW kind \in P2PCallKind, NEW s \in Streams,
             UngroupedP2P(r, kind, peer, s)
      PROVE  EventInv'
  BY <1>1, UngroupedKeeps
<1>2. ASSUME NEW r \in Ranks, NEW calls \in Batches, GroupCall(r, calls)
      PROVE  EventInv'
  BY <1>2, GroupCallKeeps
<1>3. ASSUME NEW s \in Streams, GroupSetup(s)
      PROVE  EventInv'
  BY <1>3, GroupSetupKeeps
<1>4. CASE GroupMatch
  BY <1>4, GroupMatchKeeps
<1>5. CASE GroupRelease
  BY <1>5, GroupReleaseKeeps
<1>6. CASE Execute \/ UNCHANGED vars
  BY <1>6, ExecuteKeeps
<1>7. QED
  BY <1>1, <1>2, <1>3, <1>4, <1>5, <1>6 DEF Next, GroupHandler

\* The whole inductive invariant: endpoints that are not matched hang on their
\* barriers, and a matched pair has its flow between its starts and its ends.
THEOREM PointToPointInvariant == Spec => []PInv
<1>1. Init => PInv
  BY InitInv, InitEvents DEF PInv
<1>2. PInv /\ [Next]_vars => PInv'
  BY StepInv, StepEvents DEF PInv
<1>3. QED
  BY <1>1, <1>2, PTL DEF Spec

\* When the peer of a waiting call comes, the waiting call's events are pending
\* still: add_dependency in schedule_p2p_flow never meets an event that ended.
THEOREM UnmatchedHeld == Spec => []UnmatchedIsHeld
<1>1. PInv => UnmatchedIsHeld
  <2> SUFFICES ASSUME PInv, NEW kind \in P2PCallKind, NEW key \in Keys,
                      NEW i \in 1 .. Len(waiting[kind][key])
               PROVE  LET ep == waiting[kind][key][i]
                      IN  over \cap {UnmatchedBarrier(ep), FlowStart(ep), FlowEnd(ep)} = {}
    BY DEF UnmatchedIsHeld
  <2> DEFINE ep == waiting[kind][key][i]
  <2>1. EventInv /\ QueueTypes
    BY TypeParts DEF PInv, MatchInv
  <2>2. ep \in Endpoints /\ ep.kind = kind /\ ep.key = key
    BY <2>1 DEF QueueTypes, EventInv, QueueOwn
  <2>3. Waits(ep)
    BY <2>2 DEF Waits
  <2>4. HeldIn(deps, ep) /\ ClosedIn(deps)
    BY <2>1, <2>2, <2>3 DEF EventInv, AllHeld, GoodGraph
  <2> HIDE DEF ep
  <2>5. over \cap {UnmatchedBarrier(ep), FlowStart(ep), FlowEnd(ep)} = {}
    BY <2>4, HeldNotOver
  <2>6. QED
    BY <2>5 DEF ep
<1>2. QED
  BY <1>1, PointToPointInvariant, PTL

\* A transfer starts after both streams have reached it and neither stream passes
\* it before its end; a group passes after all its transfers.
THEOREM TransfersOccupy == Spec => []TransferOccupiesStreams
<1>1. ASSUME PInv PROVE TransferOccupiesStreams
  <2>1. EventInv /\ QueueTypes
    BY <1>1, TypeParts DEF PInv, MatchInv
  <2>2. GoodGraph(deps) /\ \A e \in over : deps[e] \subseteq over /\ e \in EventNames
    BY <2>1 DEF EventInv, GoodGraph, ClosedIn
  <2>3. ASSUME NEW key \in Keys, NEW i \in 1 .. Len(matches[key])
        PROVE  /\ matches[key][i] \in Endpoints \X Endpoints
               /\ WiredIn(deps, matches[key][i][1], matches[key][i][2])
               /\ Elements(matches[key][i]) = {matches[key][i][1], matches[key][i][2]}
    <3>1. matches[key][i] \in Endpoints \X Endpoints
      BY <2>1 DEF QueueTypes
    <3>2. PICK a \in Endpoints, b \in Endpoints : matches[key][i] = <<a, b>>
      BY <3>1
    <3>3. Joined(a, b)
      BY <3>2 DEF Joined
    <3>4. WiredIn(deps, a, b)
      BY <2>1, <3>3 DEF EventInv, AllWired
    <3>5. Elements(<<a, b>>) = {a, b}
      BY DEF Elements
    <3>6. QED
      BY <3>1, <3>2, <3>4, <3>5
  <2>4. ASSUME NEW key \in Keys, NEW i \in 1 .. Len(matches[key])
        PROVE  LET flow == FlowEvent(matches[key][i][1])
                   eps  == Elements(matches[key][i])
               IN  /\ flow \in over => \A ep \in eps : FlowStart(ep) \in over
                   /\ (\E ep \in eps : FlowEnd(ep) \in over) => flow \in over
    <3> DEFINE a == matches[key][i][1]  b == matches[key][i][2]
    <3>1. Elements(matches[key][i]) = {a, b} /\ WiredIn(deps, a, b)
      BY <2>3
    <3> HIDE DEF a, b
    <3>2. /\ FlowEvent(a) \in over => \A ep \in {a, b} : FlowStart(ep) \in over
          /\ (\E ep \in {a, b} : FlowEnd(ep) \in over) => FlowEvent(a) \in over
      BY <2>2, <3>1 DEF WiredIn
    <3>3. QED
      BY <3>1, <3>2 DEF a
  <2>5. ASSUME NEW e \in over, NEW d \in deps[e], d[1] = "flow_end"
        PROVE  \E p \in Elements(matches[d[2].key]) :
                 d[2] \in Elements(p) /\ FlowEvent(p[1]) \in over
    <3> DEFINE ep == d[2]
    <3>1. d \in over /\ d \in EventNames
      BY <2>2
    <3>2. ep \in Endpoints /\ d = FlowEnd(ep)
      BY <2>5, <3>1, NamesAreNames
    <3> HIDE DEF ep
    <3>3. FlowEnd(ep) \in Added
      BY <2>2, <3>1, <3>2 DEF GoodGraph, ClosedIn, Added
    <3>4. ~ HeldIn(deps, ep)
      BY <2>2, <3>1, <3>2, HeldNotOver DEF GoodGraph
    <3>5. Matched(ep)
      BY <2>1, <3>2, <3>3, <3>4 DEF EventInv, AllHeld, Accounted
    <3>6. PICK i \in 1 .. Len(matches[ep.key]) :
            matches[ep.key][i][1] = ep \/ matches[ep.key][i][2] = ep
      BY <3>5 DEF Matched
    <3>7. ep.key \in Keys
      BY <3>2 DEF Endpoints
    <3>8. ep \in Elements(matches[ep.key][i]) /\ matches[ep.key][i] \in Elements(matches[ep.key])
      BY <2>3, <3>6, <3>7 DEF Elements
    <3>9. FlowEvent(matches[ep.key][i][1]) \in over
      BY <2>4, <3>1, <3>2, <3>7, <3>8
    <3>10. QED
      BY <3>8, <3>9 DEF ep
  <2>6. QED
    BY <2>4, <2>5 DEF TransferOccupiesStreams
<1>2. PInv => TransferOccupiesStreams
  BY <1>1
<1>3. QED
  BY <1>2, PointToPointInvariant, PTL
====

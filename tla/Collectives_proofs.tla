------------------------ MODULE Collectives_proofs ------------------------
(***************************************************************************)
(* For any number of ranks, kinds, streams and calls: the m-th collective  *)
(* of a kind to complete consists of the m-th call of every rank, and it   *)
(* completes when the last rank makes that call; until then its ranks'     *)
(* streams wait, and its flows lie between what the streams held before    *)
(* and after.                                                              *)
(*                                                                         *)
(* The argument is about one kind at a time.  If D collectives of the kind *)
(* have completed, the ranks that joined the i-th waiting one are exactly  *)
(* those that have made at least D + i calls, so a rank's next call always *)
(* joins the collective of its own number, and only the first one can lack *)
(* a single rank.  Which events exist, and what they depend on, is then a  *)
(* function of the calls made, opened and completed (CollInv).             *)
(***************************************************************************)
EXTENDS Collectives, TLAPS

CCWaiting == [n : Nat, joined : SUBSET Ranks, waiting : SUBSET Ranks,
              nth : UNION {[S -> Nat] : S \in SUBSET Ranks}]

\* W, c and done are the waiting queue, the calls and the completed collectives
\* of one kind.
KindInv(W, c, done) ==
  /\ W \in Seq(CCWaiting)
  /\ c \in [Ranks -> Nat]
  /\ done \in Seq([Ranks -> Nat])
  /\ \A r \in Ranks : Len(done) <= c[r] /\ c[r] <= Len(done) + Len(W)
  /\ \A i \in 1 .. Len(W) :
       /\ W[i].joined = {r \in Ranks : c[r] >= Len(done) + i}
       /\ W[i].waiting = Ranks \ W[i].joined
       /\ W[i].waiting # {}
       /\ W[i].nth = [r \in W[i].joined |-> Len(done) + i]
  /\ \A m \in 1 .. Len(done) : done[m] = [r \in Ranks |-> m]

CallInv ==
  /\ waitings \in [Kinds -> Seq(CCWaiting)]
  /\ created \in [Kinds -> Nat]
  /\ calls \in [Kinds -> [Ranks -> Nat]]
  /\ completed \in [Kinds -> Seq([Ranks -> Nat])]
  /\ \A k \in Kinds : KindInv(waitings[k], calls[k], completed[k])

\* Two bounds that meet leave one number.
LEMMA Pinch ==
  ASSUME NEW a \in Nat, NEW b \in Nat, NEW l \in Nat, a >= b + l, a <= b + l
  PROVE  a = b + l
OBVIOUS

\* Below b + i and at least b + i - 1: the number before b + i.
LEMMA Squeeze ==
  ASSUME NEW a \in Nat, NEW b \in Nat, NEW i \in Nat, NEW j \in Nat,
         a < b + i, a >= b + j, j = i - 1
  PROVE  a + 1 = b + i
OBVIOUS

\* A record of the shape new_cc_waiting makes.
LEMMA WaitingType ==
  ASSUME NEW n \in Nat, NEW J \in SUBSET Ranks, NEW R \in SUBSET Ranks, NEW f \in [J -> Nat]
  PROVE  [n |-> n, joined |-> J, waiting |-> R, nth |-> f] \in CCWaiting
<1>1. f \in UNION {[S -> Nat] : S \in SUBSET Ranks}
  OBVIOUS
<1>2. QED
  BY <1>1 DEF CCWaiting

\* A rank that has joined every waiting collective has made one call for each
\* that completed or waits.
LEMMA OpenCount ==
  ASSUME NEW W, NEW c, NEW done, KindInv(W, c, done),
         NEW r \in Ranks, \A i \in 1 .. Len(W) : r \in W[i].joined
  PROVE  c[r] = Len(done) + Len(W)
<1> DEFINE D == Len(done)
<1>1. W \in Seq(CCWaiting) /\ c \in [Ranks -> Nat] /\ done \in Seq([Ranks -> Nat])
      /\ D \in Nat /\ Len(W) \in Nat
  BY DEF KindInv
<1>2. D <= c[r] /\ c[r] <= D + Len(W) /\ c[r] \in Nat
  BY <1>1 DEF KindInv
<1>3. CASE Len(W) = 0
  BY <1>1, <1>2, <1>3
<1>4. CASE Len(W) # 0
  <2>1. PICK l \in 1 .. Len(W) : l = Len(W)
    BY <1>1, <1>4
  <2>2. r \in W[l].joined
    BY <2>1
  <2>3. W[l].joined = {x \in Ranks : c[x] >= D + l}
    BY <2>1, Zenon DEF KindInv
  <2>4. c[r] >= D + l
    BY <2>2, <2>3
  <2>5. c[r] >= D + Len(W)
    BY <2>1, <2>4
  <2>6. QED
    BY <1>1, <1>2, <2>5, Pinch
<1>5. QED
  BY <1>3, <1>4

\* A rank that has joined every waiting collective opens the next one.
LEMMA OpenKeeps ==
  ASSUME NEW W, NEW c, NEW done, KindInv(W, c, done),
         NEW r \in Ranks, NEW n \in Nat,
         \A i \in 1 .. Len(W) : r \in W[i].joined
  PROVE  KindInv(Append(W, [n |-> n, joined |-> {r}, waiting |-> Ranks \ {r},
                            nth |-> [x \in {r} |-> c[r] + 1]]),
                 [c EXCEPT ![r] = @ + 1], done)
<1> DEFINE w  == [n |-> n, joined |-> {r}, waiting |-> Ranks \ {r},
                  nth |-> [x \in {r} |-> c[r] + 1]]
           W2 == Append(W, w)
           c2 == [c EXCEPT ![r] = @ + 1]
           D  == Len(done)
<1>1. W \in Seq(CCWaiting) /\ c \in [Ranks -> Nat] /\ done \in Seq([Ranks -> Nat])
      /\ D \in Nat /\ Len(W) \in Nat
  BY DEF KindInv
<1>2. c[r] = D + Len(W)
  BY OpenCount
<1>3. w \in CCWaiting
  <2>1. [x \in {r} |-> c[r] + 1] \in [{r} -> Nat]
    BY <1>1
  <2>2. QED
    BY <2>1, WaitingType
<1>4. /\ W2 \in Seq(CCWaiting) /\ Len(W2) = Len(W) + 1
      /\ \A i \in 1 .. Len(W) : W2[i] = W[i]
      /\ W2[Len(W) + 1] = w
  BY <1>1, <1>3
<1>5. c2 \in [Ranks -> Nat] /\ c2[r] = c[r] + 1 /\ \A x \in Ranks \ {r} : c2[x] = c[x]
  BY <1>1
<1>6. \A x \in Ranks : D <= c[x] /\ c[x] <= D + Len(W) /\ c[x] \in Nat
  BY <1>1 DEF KindInv
<1>7. ASSUME NEW x \in Ranks
      PROVE  D <= c2[x] /\ c2[x] <= D + Len(W2)
  BY <1>1, <1>2, <1>4, <1>5, <1>6
<1>8. ASSUME NEW i \in 1 .. Len(W2)
      PROVE  /\ W2[i].joined = {x \in Ranks : c2[x] >= D + i}
             /\ W2[i].waiting = Ranks \ W2[i].joined
             /\ W2[i].waiting # {}
             /\ W2[i].nth = [x \in W2[i].joined |-> D + i]
  <2>1. CASE i \in 1 .. Len(W)
    <3>1. /\ W[i].joined = {x \in Ranks : c[x] >= D + i}
          /\ W[i].waiting = Ranks \ W[i].joined
          /\ W[i].waiting # {}
          /\ W[i].nth = [x \in W[i].joined |-> D + i]
      BY <2>1 DEF KindInv
    <3>2. \A x \in Ranks : c2[x] >= D + i <=> c[x] >= D + i
      BY <1>1, <1>2, <1>5, <1>6, <2>1
    <3>3. {x \in Ranks : c2[x] >= D + i} = {x \in Ranks : c[x] >= D + i}
      BY <3>2
    <3>4. QED
      BY <1>4, <2>1, <3>1, <3>3
  <2>2. CASE i = Len(W) + 1
    <3>1. W2[i] = w /\ D + i = c[r] + 1
      BY <1>1, <1>2, <1>4, <2>2
    <3>2. \A x \in Ranks : c2[x] >= D + i <=> x = r
      BY <1>1, <1>2, <1>5, <1>6, <3>1
    <3>3. {x \in Ranks : c2[x] >= D + i} = {r}
      BY <3>2
    <3>4. Ranks \ {r} # {}
      BY RanksAssumption
    <3>5. w.joined = {r} /\ w.waiting = Ranks \ {r} /\ w.nth = [x \in {r} |-> D + i]
      BY <3>1
    <3>6. QED
      BY <3>1, <3>3, <3>4, <3>5
  <2>3. QED
    BY <1>1, <1>4, <2>1, <2>2
<1>9. \A m \in 1 .. D : done[m] = [x \in Ranks |-> m]
  BY DEF KindInv
<1> HIDE DEF w, W2, c2
<1>10. KindInv(W2, c2, done)
  BY <1>1, <1>4, <1>5, <1>7, <1>8, <1>9 DEF KindInv
<1>11. QED
  BY <1>10 DEF w, W2, c2

\* Leaving out the first element of a sequence.
LEMMA RemoveFirst ==
  ASSUME NEW S, NEW W \in Seq(S), Len(W) > 0
  PROVE  /\ RemoveIndex(W, 1) \in Seq(S)
         /\ Len(RemoveIndex(W, 1)) = Len(W) - 1
         /\ \A j \in 1 .. Len(W) - 1 : RemoveIndex(W, 1)[j] = W[j + 1]
<1>1. Len(W) - 1 \in Nat /\ \A j \in 1 .. Len(W) - 1 : W[j + 1] \in S /\ ~ (j < 1)
  OBVIOUS
<1>2. RemoveIndex(W, 1) = [j \in 1 .. Len(W) - 1 |-> W[j + 1]]
  BY <1>1 DEF RemoveIndex
<1>3. QED
  BY <1>1, <1>2

\* The ranks' counts when rank r joins the i-th waiting collective, the first it
\* has not joined: it is one call short of it.
LEMMA JoinCount ==
  ASSUME NEW W, NEW c, NEW done, KindInv(W, c, done),
         NEW r \in Ranks, NEW i \in 1 .. Len(W),
         r \notin W[i].joined, \A j \in 1 .. i - 1 : r \in W[j].joined
  PROVE  c[r] + 1 = Len(done) + i
<1> DEFINE D == Len(done)
<1>1. D \in Nat /\ Len(W) \in Nat /\ c[r] \in Nat /\ D <= c[r]
  BY DEF KindInv
<1>2. c[r] < D + i
  <2>1. W[i].joined = {x \in Ranks : c[x] >= D + i}
    BY Zenon DEF KindInv
  <2>2. QED
    BY <1>1, <2>1
<1>3. CASE i = 1
  BY <1>1, <1>2, <1>3
<1>4. CASE i # 1
  <2>1. PICK j \in 1 .. Len(W) : j = i - 1 /\ j \in 1 .. i - 1
    BY <1>1, <1>4
  <2>2. r \in W[j].joined
    BY <2>1
  <2>3. W[j].joined = {x \in Ranks : c[x] >= D + j}
    BY <2>1, Zenon DEF KindInv
  <2>4. c[r] >= D + j
    BY <2>2, <2>3
  <2>5. i \in Nat /\ j \in Nat /\ j = i - 1
    BY <1>1, <2>1
  <2>6. QED
    BY <1>1, <1>2, <2>4, <2>5, Squeeze
<1>5. QED
  BY <1>3, <1>4

\* The record of the i-th waiting collective after rank r has joined it.
Joined(w, r, call) ==
  [w EXCEPT !.joined = @ \cup {r}, !.waiting = @ \ {r},
            !.nth = [x \in w.joined \cup {r} |-> IF x = r THEN call ELSE w.nth[x]]]

\* Its fields, which are those the invariant asks for one call later.
LEMMA JoinedFields ==
  ASSUME NEW W, NEW c, NEW done, KindInv(W, c, done),
         NEW r \in Ranks, NEW i \in 1 .. Len(W),
         r \notin W[i].joined, \A j \in 1 .. i - 1 : r \in W[j].joined,
         NEW w2, w2 = Joined(W[i], r, c[r] + 1)
  PROVE  /\ w2 \in CCWaiting
         /\ w2.joined = W[i].joined \cup {r}
         /\ w2.waiting = Ranks \ w2.joined
         /\ w2.nth = [x \in w2.joined |-> Len(done) + i]
<1> DEFINE D == Len(done)  w == W[i]
<1>1. D \in Nat /\ Len(W) \in Nat /\ c \in [Ranks -> Nat] /\ w \in CCWaiting
  BY DEF KindInv
<1>2. c[r] + 1 = D + i
  BY JoinCount
<1>3. /\ w.joined = {x \in Ranks : c[x] >= D + i}
      /\ w.waiting = Ranks \ w.joined
      /\ w.nth = [x \in w.joined |-> D + i]
  BY Zenon DEF KindInv
<1>4. /\ w.n \in Nat /\ w.joined \in SUBSET Ranks
      /\ w = [n |-> w.n, joined |-> w.joined, waiting |-> w.waiting, nth |-> w.nth]
  BY <1>1 DEF CCWaiting
<1>5. w2 = [n |-> w.n, joined |-> w.joined \cup {r}, waiting |-> w.waiting \ {r},
            nth |-> [x \in w.joined \cup {r} |-> IF x = r THEN c[r] + 1 ELSE w.nth[x]]]
  BY <1>4 DEF Joined
<1>6. [x \in w.joined \cup {r} |-> IF x = r THEN c[r] + 1 ELSE w.nth[x]]
        = [x \in w.joined \cup {r} |-> D + i]
  BY <1>2, <1>3
<1>7. w2 \in CCWaiting
  <2>1. [x \in w.joined \cup {r} |-> D + i] \in [w.joined \cup {r} -> Nat]
    BY <1>1
  <2>2. w.joined \cup {r} \in SUBSET Ranks /\ w.waiting \ {r} \in SUBSET Ranks
    BY <1>3, <1>4
  <2> DEFINE J == w.joined \cup {r}  R == w.waiting \ {r}  f == [x \in J |-> D + i]
  <2>3. w2 = [n |-> w.n, joined |-> J, waiting |-> R, nth |-> f]
    BY <1>5, <1>6
  <2>4. J \in SUBSET Ranks /\ R \in SUBSET Ranks /\ f \in [J -> Nat] /\ w.n \in Nat
    BY <1>4, <2>1, <2>2
  <2> HIDE DEF J, R, f, w
  <2>5. QED
    BY <2>3, <2>4, WaitingType
<1>8. w2.joined = w.joined \cup {r} /\ w2.waiting = w.waiting \ {r}
       /\ w2.nth = [x \in w.joined \cup {r} |-> D + i]
  BY <1>5, <1>6
<1>9. w.waiting \ {r} = Ranks \ (w.joined \cup {r})
  BY <1>3
<1>10. QED
  BY <1>7, <1>8, <1>9

\* A rank joins a collective that still waits for others.
LEMMA JoinKeeps ==
  ASSUME NEW W, NEW c, NEW done, KindInv(W, c, done),
         NEW r \in Ranks, NEW i \in 1 .. Len(W),
         r \notin W[i].joined, \A j \in 1 .. i - 1 : r \in W[j].joined,
         NEW w2, w2 = Joined(W[i], r, c[r] + 1), w2.waiting # {}
  PROVE  KindInv([W EXCEPT ![i] = w2], [c EXCEPT ![r] = @ + 1], done)
<1> DEFINE W2 == [W EXCEPT ![i] = w2]
           c2 == [c EXCEPT ![r] = @ + 1]
           D  == Len(done)
<1>1. W \in Seq(CCWaiting) /\ c \in [Ranks -> Nat] /\ done \in Seq([Ranks -> Nat])
      /\ D \in Nat /\ Len(W) \in Nat
  BY DEF KindInv
<1>2. c[r] + 1 = D + i
  BY JoinCount
<1>3. /\ w2 \in CCWaiting
      /\ w2.joined = {x \in Ranks : c2[x] >= D + i}
      /\ w2.waiting = Ranks \ w2.joined
      /\ w2.nth = [x \in w2.joined |-> D + i]
  <2>1. /\ w2 \in CCWaiting
        /\ w2.joined = W[i].joined \cup {r}
        /\ w2.waiting = Ranks \ w2.joined
        /\ w2.nth = [x \in w2.joined |-> D + i]
    BY JoinedFields
  <2>2. c2[r] = D + i /\ \A x \in Ranks \ {r} : c2[x] = c[x]
    BY <1>1, <1>2
  <2>3. W[i].joined = {x \in Ranks : c[x] >= D + i}
    BY Zenon DEF KindInv
  <2>4. D + i \in Nat
    BY <1>1
  <2>5. {x \in Ranks : c2[x] >= D + i} = W[i].joined \cup {r}
    BY <2>2, <2>3, <2>4
  <2>6. QED
    BY <2>1, <2>5
<1>4. W2 \in Seq(CCWaiting) /\ Len(W2) = Len(W) /\ W2[i] = w2
      /\ \A j \in 1 .. Len(W) : j # i => W2[j] = W[j]
  BY <1>1, <1>3
<1>5. c2 \in [Ranks -> Nat] /\ c2[r] = c[r] + 1 /\ \A x \in Ranks \ {r} : c2[x] = c[x]
  BY <1>1
<1>6. \A x \in Ranks : D <= c[x] /\ c[x] <= D + Len(W) /\ c[x] \in Nat
  BY <1>1 DEF KindInv
<1>7. ASSUME NEW x \in Ranks
      PROVE  D <= c2[x] /\ c2[x] <= D + Len(W2)
  BY <1>1, <1>2, <1>4, <1>5, <1>6
<1>8. ASSUME NEW j \in 1 .. Len(W2)
      PROVE  /\ W2[j].joined = {x \in Ranks : c2[x] >= D + j}
             /\ W2[j].waiting = Ranks \ W2[j].joined
             /\ W2[j].waiting # {}
             /\ W2[j].nth = [x \in W2[j].joined |-> D + j]
  <2>1. CASE j = i
    BY <1>3, <1>4, <2>1
  <2>2. CASE j # i
    <3>1. j \in 1 .. Len(W)
      BY <1>4
    <3>2. /\ W[j].joined = {x \in Ranks : c[x] >= D + j}
          /\ W[j].waiting = Ranks \ W[j].joined
          /\ W[j].waiting # {}
          /\ W[j].nth = [x \in W[j].joined |-> D + j]
      BY <3>1 DEF KindInv
    <3>3. \A x \in Ranks : c2[x] >= D + j <=> c[x] >= D + j
      BY <1>1, <1>2, <1>5, <1>6, <2>2
    <3>4. {x \in Ranks : c2[x] >= D + j} = {x \in Ranks : c[x] >= D + j}
      BY <3>3
    <3>5. QED
      BY <1>4, <2>2, <3>1, <3>2, <3>4
  <2>3. QED
    BY <2>1, <2>2
<1>9. \A m \in 1 .. D : done[m] = [x \in Ranks |-> m]
  BY DEF KindInv
<1> HIDE DEF W2, c2
<1>10. KindInv(W2, c2, done)
  BY <1>1, <1>4, <1>5, <1>7, <1>8, <1>9 DEF KindInv
<1>11. QED
  BY <1>10 DEF W2, c2

\* The last rank to join a collective joins the first one that waits, since some
\* rank is still missing in that one.
LEMMA CompleteFirst ==
  ASSUME NEW W, NEW c, NEW done, KindInv(W, c, done),
         NEW r \in Ranks, NEW i \in 1 .. Len(W),
         r \notin W[i].joined, \A j \in 1 .. i - 1 : r \in W[j].joined,
         NEW w2, w2 = Joined(W[i], r, c[r] + 1), w2.waiting = {}
  PROVE  i = 1 /\ w2.joined = Ranks
<1> DEFINE D == Len(done)
<1>1. W \in Seq(CCWaiting) /\ c \in [Ranks -> Nat] /\ done \in Seq([Ranks -> Nat])
      /\ D \in Nat /\ Len(W) \in Nat /\ Len(W) > 0
  BY DEF KindInv
<1>2. c[r] + 1 = D + i
  BY JoinCount
<1>3. w2.joined = W[i].joined \cup {r} /\ w2.waiting = Ranks \ w2.joined
      /\ w2.nth = [x \in w2.joined |-> D + i]
  BY JoinedFields
<1>4. W[i].joined = {x \in Ranks : c[x] >= D + i}
  BY Zenon DEF KindInv
<1>5. w2.joined = Ranks /\ w2.nth = [x \in Ranks |-> D + i]
  BY <1>3, <1>4
<1>6. \A x \in Ranks \ {r} : c[x] >= D + i
  BY <1>3, <1>4, <1>5
<1>7. i = 1
  <2>1. PICK l \in 1 .. Len(W) : l = 1
    BY <1>1
  <2>2. W[l].joined = {x \in Ranks : c[x] >= D + l} /\ W[l].waiting = Ranks \ W[l].joined
        /\ W[l].waiting # {}
    BY <2>1, Zenon DEF KindInv
  <2>3. PICK x \in Ranks : ~ (c[x] >= D + l)
    BY <2>2
  <2>4. c[x] \in Nat /\ c[x] < D + 1 /\ D + 1 <= D + i
    BY <1>1, <2>1, <2>3
  <2>5. x = r
    BY <1>1, <1>6, <2>4
  <2>6. D + i < D + 1 + 1
    BY <1>1, <1>2, <2>4, <2>5
  <2>7. QED
    BY <1>1, <2>6
<1>8. QED
  BY <1>5, <1>7

\* The last rank joins: this can only happen to the first waiting collective,
\* since some rank is still missing in that one.
LEMMA CompleteKeeps ==
  ASSUME NEW W, NEW c, NEW done, KindInv(W, c, done),
         NEW r \in Ranks, NEW i \in 1 .. Len(W),
         r \notin W[i].joined, \A j \in 1 .. i - 1 : r \in W[j].joined,
         NEW w2, w2 = Joined(W[i], r, c[r] + 1), w2.waiting = {}
  PROVE  KindInv(RemoveIndex(W, i), [c EXCEPT ![r] = @ + 1], Append(done, w2.nth))
<1> DEFINE W2 == RemoveIndex(W, 1)
           c2 == [c EXCEPT ![r] = @ + 1]
           D  == Len(done)
           d2 == Append(done, w2.nth)
<1>1. W \in Seq(CCWaiting) /\ c \in [Ranks -> Nat] /\ done \in Seq([Ranks -> Nat])
      /\ D \in Nat /\ Len(W) \in Nat /\ Len(W) > 0
  BY DEF KindInv
<1>2. c[r] + 1 = D + i
  BY JoinCount
<1>3. /\ w2.joined = W[i].joined \cup {r}
      /\ w2.nth = [x \in w2.joined |-> D + i]
  BY JoinedFields
<1>4. i = 1 /\ w2.joined = Ranks
  BY CompleteFirst
<1>5. w2.joined = Ranks /\ w2.nth = [x \in Ranks |-> D + i]
  BY <1>3, <1>4
<1>6. \A x \in Ranks \ {r} : c[x] >= D + i
  <2>1. W[i].joined = {x \in Ranks : c[x] >= D + i}
    BY Zenon DEF KindInv
  <2>2. QED
    BY <1>3, <1>4, <2>1
<1>7. /\ W2 \in Seq(CCWaiting) /\ Len(W2) = Len(W) - 1
      /\ \A j \in 1 .. Len(W) - 1 : W2[j] = W[j + 1]
  BY <1>1, RemoveFirst
<1>8. w2.nth = [x \in Ranks |-> D + 1] /\ w2.nth \in [Ranks -> Nat]
  BY <1>1, <1>5, <1>4
<1>9. /\ d2 \in Seq([Ranks -> Nat]) /\ Len(d2) = D + 1
       /\ \A m \in 1 .. D : d2[m] = done[m]
       /\ d2[D + 1] = w2.nth
  BY <1>1, <1>8
<1>10. c2 \in [Ranks -> Nat] /\ c2[r] = D + 1 /\ \A x \in Ranks \ {r} : c2[x] = c[x]
  BY <1>1, <1>2, <1>4
<1>11. \A x \in Ranks : c[x] <= D + Len(W) /\ c[x] \in Nat
  BY <1>1 DEF KindInv
<1>12. ASSUME NEW x \in Ranks
       PROVE  D + 1 <= c2[x] /\ c2[x] <= D + 1 + (Len(W) - 1)
  BY <1>1, <1>6, <1>4, <1>10, <1>11
<1>13. ASSUME NEW j \in 1 .. Len(W) - 1
       PROVE  /\ W2[j].joined = {x \in Ranks : c2[x] >= D + 1 + j}
              /\ W2[j].waiting = Ranks \ W2[j].joined
              /\ W2[j].waiting # {}
              /\ W2[j].nth = [x \in W2[j].joined |-> D + 1 + j]
  <2>1. PICK l \in 1 .. Len(W) : l = j + 1 /\ D + l = D + 1 + j
    BY <1>1
  <2>2. /\ W[l].joined = {x \in Ranks : c[x] >= D + l}
        /\ W[l].waiting = Ranks \ W[l].joined
        /\ W[l].waiting # {}
        /\ W[l].nth = [x \in W[l].joined |-> D + l]
    BY <2>1, Zenon DEF KindInv
  <2>3. c[r] < D + l /\ c2[r] < D + l
    BY <1>1, <1>2, <1>4, <1>10, <2>1
  <2>4. {x \in Ranks : c2[x] >= D + l} = {x \in Ranks : c[x] >= D + l}
    <3>1. \A x \in Ranks : c2[x] >= D + l <=> c[x] >= D + l
      BY <1>1, <1>10, <1>11, <2>1, <2>3
    <3>2. QED
      BY <3>1
  <2>5. W2[j] = W[l]
    BY <1>7, <2>1
  <2>6. QED
    BY <2>1, <2>2, <2>4, <2>5
<1>14. ASSUME NEW m \in 1 .. D + 1
       PROVE  d2[m] = [x \in Ranks |-> m]
  <2>1. CASE m = D + 1
    BY <1>8, <1>9, <2>1
  <2>2. CASE m \in 1 .. D
    <3>1. done[m] = [x \in Ranks |-> m]
      BY <2>2, Zenon DEF KindInv
    <3>2. QED
      BY <1>9, <2>2, <3>1
  <2>3. QED
    BY <1>1, <2>1, <2>2
<1> HIDE DEF W2, c2, d2
<1>15. KindInv(W2, c2, d2)
  BY <1>7, <1>9, <1>10, <1>12, <1>13, <1>14 DEF KindInv
<1>16. QED
  BY <1>4, <1>15 DEF W2, c2, d2

-----------------------------------------------------------------------------

\* Before any call the invariant holds.
LEMMA InitInv == Init => CallInv
<1> SUFFICES ASSUME Init PROVE CallInv
  OBVIOUS
<1>1. /\ waitings \in [Kinds -> Seq(CCWaiting)] /\ created \in [Kinds -> Nat]
      /\ calls \in [Kinds -> [Ranks -> Nat]] /\ completed \in [Kinds -> Seq([Ranks -> Nat])]
  BY DEF Init
<1>2. ASSUME NEW k \in Kinds
      PROVE  KindInv(waitings[k], calls[k], completed[k])
  <2>1. waitings[k] = << >> /\ calls[k] = [r \in Ranks |-> 0] /\ completed[k] = << >>
    BY DEF Init
  <2>2. QED
    BY <2>1 DEF KindInv
<1>3. QED
  BY <1>1, <1>2 DEF CallInv

\* A call keeps the invariant of its own kind, and touches no other.
LEMMA CallKeeps ==
  ASSUME CallInv, NEW r \in Ranks, NEW k \in Kinds, NEW s \in Streams, NcclCall(r, k, s)
  PROVE  CallInv'
<1> DEFINE W == waitings[k]  c == calls[k]  done == completed[k]
<1>1. KindInv(W, c, done)
  BY DEF CallInv
<1>2. calls' = [calls EXCEPT ![k] = [c EXCEPT ![r] = @ + 1]]
  BY DEF NcclCall
<1>3. ASSUME NEW W2, NEW d2, waitings' = [waitings EXCEPT ![k] = W2],
             completed' = [completed EXCEPT ![k] = d2],
             created' \in [Kinds -> Nat],
             KindInv(W2, [c EXCEPT ![r] = @ + 1], d2)
      PROVE  CallInv'
  <2> DEFINE c2 == [c EXCEPT ![r] = @ + 1]
  <2>1. W2 \in Seq(CCWaiting) /\ c2 \in [Ranks -> Nat] /\ d2 \in Seq([Ranks -> Nat])
    BY <1>3 DEF KindInv
  <2> HIDE DEF c2
  <2>2. calls' = [calls EXCEPT ![k] = c2]
    BY <1>2 DEF c2
  <2>3. /\ waitings' \in [Kinds -> Seq(CCWaiting)]
        /\ calls' \in [Kinds -> [Ranks -> Nat]]
        /\ completed' \in [Kinds -> Seq([Ranks -> Nat])]
    BY <1>3, <2>1, <2>2 DEF CallInv
  <2>4. ASSUME NEW x \in Kinds
        PROVE  KindInv(waitings'[x], calls'[x], completed'[x])
    <3>1. CASE x = k
      <4>1. waitings'[x] = W2 /\ calls'[x] = c2 /\ completed'[x] = d2
        BY <1>3, <2>2, <3>1 DEF CallInv
      <4>2. QED
        BY <1>3, <4>1 DEF c2
    <3>2. CASE x # k
      <4>1. waitings'[x] = waitings[x] /\ calls'[x] = calls[x] /\ completed'[x] = completed[x]
        BY <1>3, <2>2, <3>2 DEF CallInv
      <4>2. QED
        BY <4>1 DEF CallInv
    <3>3. QED
      BY <3>1, <3>2
  <2>5. QED
    BY <1>3, <2>3, <2>4 DEF CallInv
<1>4. CASE Open(r, k, s)
  <2> DEFINE n  == created[k] + 1
             W2 == Append(W, [n |-> n, joined |-> {r}, waiting |-> Ranks \ {r},
                              nth |-> [x \in {r} |-> c[r] + 1]])
  <2>1. /\ \A i \in 1 .. Len(W) : r \in W[i].joined
        /\ created' = [created EXCEPT ![k] = n]
        /\ waitings' = [waitings EXCEPT ![k] = W2]
        /\ completed' = completed
    BY <1>4 DEF Open, HasJoinedAll
  <2>2. n \in Nat /\ created' \in [Kinds -> Nat]
    BY <2>1 DEF CallInv
  <2>3. completed' = [completed EXCEPT ![k] = done]
    BY <2>1 DEF CallInv
  <2>4. KindInv(W2, [c EXCEPT ![r] = @ + 1], done)
    <3> HIDE DEF W, c, done, n
    <3>1. QED
      BY <1>1, <2>1, <2>2, OpenKeeps
  <2> HIDE DEF W2
  <2>5. QED
    BY <1>3, <2>1, <2>2, <2>3, <2>4
<1>5. ASSUME NEW i \in 1 .. Len(W), Join(r, k, s, i)
      PROVE  CallInv'
  <2> DEFINE w2 == Joined(W[i], r, c[r] + 1)
  <2>1. r \notin W[i].joined /\ \A j \in 1 .. i - 1 : r \in W[j].joined
    BY <1>5 DEF Join, IsFirstMissing
  <2>2. created' \in [Kinds -> Nat]
    BY <1>5 DEF Join, CallInv
  <2>3. CASE w2.waiting = {}
    <3>1. /\ waitings' = [waitings EXCEPT ![k] = RemoveIndex(W, i)]
          /\ completed' = [completed EXCEPT ![k] = Append(done, w2.nth)]
      BY <1>5, <2>3 DEF Join, Joined, Complete
    <3>2. KindInv(RemoveIndex(W, i), [c EXCEPT ![r] = @ + 1], Append(done, w2.nth))
      <4>1. PICK v : v = w2
        OBVIOUS
      <4> HIDE DEF W, c, done, w2
      <4>2. v = Joined(W[i], r, c[r] + 1) /\ v.waiting = {}
        BY <2>3, <4>1 DEF w2
      <4>3. QED
        BY <1>1, <2>1, <4>1, <4>2, CompleteKeeps
    <3>3. QED
      BY <1>3, <2>2, <3>1, <3>2
  <2>4. CASE w2.waiting # {}
    <3>1. /\ waitings' = [waitings EXCEPT ![k] = [W EXCEPT ![i] = w2]]
          /\ completed' = completed
      BY <1>5, <2>4 DEF Join, Joined, Complete
    <3>2. completed' = [completed EXCEPT ![k] = done]
      BY <3>1 DEF CallInv
    <3>3. KindInv([W EXCEPT ![i] = w2], [c EXCEPT ![r] = @ + 1], done)
      <4>1. PICK v : v = w2
        OBVIOUS
      <4> HIDE DEF W, c, done, w2
      <4>2. v = Joined(W[i], r, c[r] + 1) /\ v.waiting # {}
        BY <2>4, <4>1 DEF w2
      <4>3. QED
        BY <1>1, <2>1, <4>1, <4>2, JoinKeeps
    <3>4. QED
      BY <1>3, <2>2, <3>1, <3>2, <3>3
  <2>5. QED
    BY <2>3, <2>4
<1>6. QED
  BY <1>4, <1>5 DEF NcclCall

\* Every step keeps the invariant.
LEMMA StepInv == CallInv /\ [Next]_vars => CallInv'
<1> SUFFICES ASSUME CallInv, [Next]_vars PROVE CallInv'
  OBVIOUS
<1>1. ASSUME NEW r \in Ranks, NEW k \in Kinds, NEW s \in Streams, NcclCall(r, k, s)
      PROVE  CallInv'
  BY <1>1, CallKeeps
<1>2. ASSUME Execute \/ UNCHANGED vars
      PROVE  CallInv'
  <2>1. UNCHANGED <<waitings, created, calls, completed>>
    BY <1>2 DEF Execute, vars, ccVars
  <2>2. QED
    BY <2>1 DEF CallInv
<1>3. QED
  BY <1>1, <1>2 DEF Next

\* The state keeps the shapes the structs declare.
THEOREM TypeCorrect == Spec => []TypeOK
<1>1. CallInv => TypeOK
  <2> SUFFICES ASSUME CallInv PROVE TypeOK
    OBVIOUS
  <2>1. ASSUME NEW k \in Kinds, NEW i \in 1 .. Len(waitings[k])
        PROVE  /\ waitings[k][i].n \in Nat
               /\ waitings[k][i].joined \subseteq Ranks /\ waitings[k][i].waiting \subseteq Ranks
               /\ waitings[k][i].nth \in [waitings[k][i].joined -> Nat]
    <3> DEFINE W == waitings[k]  c == calls[k]  done == completed[k]
    <3>1. KindInv(W, c, done)
      BY DEF CallInv
    <3> HIDE DEF W, c, done
    <3>2. i \in 1 .. Len(W)
      BY DEF W
    <3>3. W[i] \in CCWaiting /\ Len(done) + i \in Nat
      BY <3>1, <3>2 DEF KindInv
    <3>4. W[i].nth = [r \in W[i].joined |-> Len(done) + i]
      BY <3>1, <3>2, Zenon DEF KindInv
    <3>5. W[i].nth \in [W[i].joined -> Nat]
      BY <3>3, <3>4
    <3>6. QED
      BY <3>3, <3>5 DEF CCWaiting, W
  <2>2. QED
    BY <2>1 DEF CallInv, TypeOK
<1>2. QED
  BY <1>1, InitInv, StepInv, PTL DEF Spec

\* Whatever the interleaving of the ranks' calls, a collective never mixes
\* calls of different numbers.
THEOREM MatchedByNumber == Spec => []SameNthCall
<1>1. CallInv => SameNthCall
  BY DEF CallInv, KindInv, SameNthCall
<1>2. QED
  BY <1>1, InitInv, StepInv, PTL DEF Spec

\* A collective is scheduled by the call of its last rank and by no other.
THEOREM CompletesOnLastCall == Spec => []NeitherEarlyNorLate
<1>1. CallInv => NeitherEarlyNorLate
  <2> SUFFICES ASSUME CallInv, NEW k \in Kinds
               PROVE  /\ \A r \in Ranks : calls[k][r] >= Len(completed[k])
                      /\ \E r \in Ranks : calls[k][r] = Len(completed[k])
    BY DEF NeitherEarlyNorLate
  <2> DEFINE W == waitings[k]  c == calls[k]  D == Len(completed[k])
  <2>1. KindInv(W, c, completed[k])
    BY DEF CallInv
  <2>2. D \in Nat /\ Len(W) \in Nat
        /\ \A r \in Ranks : c[r] \in Nat /\ D <= c[r] /\ c[r] <= D + Len(W)
    <3> DEFINE done == completed[k]
    <3>1. KindInv(W, c, done)
      BY <2>1
    <3> HIDE DEF W, c, done
    <3>2. /\ W \in Seq(CCWaiting) /\ c \in [Ranks -> Nat] /\ done \in Seq([Ranks -> Nat])
          /\ \A r \in Ranks : Len(done) <= c[r] /\ c[r] <= Len(done) + Len(W)
      BY <3>1 DEF KindInv
    <3>3. /\ Len(done) \in Nat /\ Len(W) \in Nat
          /\ \A r \in Ranks : c[r] \in Nat /\ Len(done) <= c[r] /\ c[r] <= Len(done) + Len(W)
      BY <3>2
    <3>4. QED
      BY <3>3 DEF done
  <2>3. CASE Len(W) = 0
    <3>1. PICK x \in Ranks : TRUE
      BY RanksAssumption
    <3>2. c[x] \in Nat /\ D <= c[x] /\ c[x] <= D + 0
      BY <2>2, <2>3
    <3> HIDE DEF c, D
    <3>3. c[x] = D
      BY <2>2, <3>2
    <3>4. QED
      BY <2>2, <3>3 DEF c, D
  <2>4. CASE Len(W) # 0
    <3>1. PICK l \in 1 .. Len(W) : l = 1
      BY <2>2, <2>4
    <3>2. W[l].joined = {x \in Ranks : c[x] >= D + l} /\ W[l].waiting = Ranks \ W[l].joined
          /\ W[l].waiting # {}
      BY <2>1, <3>1, Zenon DEF KindInv
    <3>3. PICK x \in Ranks : ~ (c[x] >= D + l)
      BY <3>2
    <3> HIDE DEF c, D, W
    <3>4. c[x] \in Nat /\ D <= c[x] /\ ~ (c[x] >= D + 1) /\ D \in Nat
      BY <2>2, <3>1, <3>3
    <3>5. c[x] = D
      BY <3>4
    <3>6. QED
      BY <2>2, <3>5 DEF c, D
  <2>5. QED
    BY <2>3, <2>4
<1>2. QED
  BY <1>1, InitInv, StepInv, PTL DEF Spec
-----------------------------------------------------------------------------
(***************************************************************************)
(* The graph of a collective.  Since collectives complete in the order they *)
(* were opened, the n-th of a kind is the one every rank joins with its     *)
(* n-th call: what the graph holds of it follows from the ranks' calls, the *)
(* number opened and the number completed.                                 *)
(***************************************************************************)

\* The waiting collectives carry the numbers after the completed ones.
Numbered ==
  \A k \in Kinds :
    /\ created[k] = Len(completed[k]) + Len(waitings[k])
    /\ \A i \in 1 .. Len(waitings[k]) : waitings[k][i].n = Len(completed[k]) + i

\* An event that ended had everything it was ever made to depend on end first.
Closed ==
  /\ over \subseteq Added /\ Added \subseteq EventIds
  /\ \A e \in over : deps[e] \subseteq over

\* The events of the n-th collective of kind k that have been added.
Present(k, n) ==
  /\ n <= created[k] <=> Barrier(k, n) \in Added
  /\ n <= created[k] <=> StartMeta(k, n) \in Added
  /\ n <= created[k] <=> EndMeta(k, n) \in Added
  /\ \A r \in Ranks : /\ n <= calls[k][r] <=> StreamStart(k, n, r) \in Added
                      /\ n <= calls[k][r] <=> StreamEnd(k, n, r) \in Added
  /\ \A f \in Flows : n <= Len(completed[k]) <=> FlowEvent(k, n, f) \in Added

\* What they depend on.
Wired(k, n) ==
  /\ \A r \in Ranks : n <= calls[k][r] =>
       /\ Barrier(k, n) \in deps[StreamStart(k, n, r)]
       /\ StreamStart(k, n, r) \in deps[StartMeta(k, n)]
       /\ {StreamStart(k, n, r), EndMeta(k, n)} \subseteq deps[StreamEnd(k, n, r)]
  /\ n <= created[k] =>
       /\ \E r \in Ranks : n <= calls[k][r]
       /\ StartMeta(k, n) \in deps[EndMeta(k, n)]
       /\ n > Len(completed[k]) => NoneDep \in deps[Barrier(k, n)]
  /\ n <= Len(completed[k]) => \A f \in Flows :
       /\ StartMeta(k, n) \in deps[FlowEvent(k, n, f)]
       /\ FlowEvent(k, n, f) \in deps[EndMeta(k, n)]

CollInv ==
  /\ CallInv
  /\ Numbered
  /\ \A k \in Kinds : created[k] <= MaxCalls
  /\ Closed
  /\ \A k \in Kinds, n \in 1 .. MaxCalls : Present(k, n) /\ Wired(k, n)

\* The events of collectives are told apart by kind of event, kind of
\* collective, number, and rank or flow.
LEMMA EventFields ==
  \A k, n, x :
    /\ Barrier(k, n)[1] = "comm_barrier" /\ Barrier(k, n)[2] = k /\ Barrier(k, n)[3] = n
    /\ StartMeta(k, n)[1] = "comm_start_meta" /\ StartMeta(k, n)[2] = k /\ StartMeta(k, n)[3] = n
    /\ EndMeta(k, n)[1] = "comm_end_meta" /\ EndMeta(k, n)[2] = k /\ EndMeta(k, n)[3] = n
    /\ StreamStart(k, n, x)[1] = "stream_start" /\ StreamStart(k, n, x)[2] = k
    /\ StreamStart(k, n, x)[3] = n /\ StreamStart(k, n, x)[4] = x
    /\ StreamEnd(k, n, x)[1] = "stream_end" /\ StreamEnd(k, n, x)[2] = k
    /\ StreamEnd(k, n, x)[3] = n /\ StreamEnd(k, n, x)[4] = x
    /\ FlowEvent(k, n, x)[1] = "flow" /\ FlowEvent(k, n, x)[2] = k
    /\ FlowEvent(k, n, x)[3] = n /\ FlowEvent(k, n, x)[4] = x
BY DEF Barrier, StartMeta, EndMeta, StreamStart, StreamEnd, FlowEvent

\* d is the graph with the events in new added, with the dependencies rank r's
\* call gives them.
IsExtension(d, new, r, k, n, s) ==
  /\ DOMAIN d = Added \cup new
  /\ \A e \in Added : d[e] = deps[e]
  /\ Barrier(k, n) \in new => d[Barrier(k, n)] = {NoneDep}
  /\ StreamStart(k, n, r) \in new =>
       d[StreamStart(k, n, r)] = tail[r][s] \cup {Barrier(k, n)}
  /\ StartMeta(k, n) \in new => d[StartMeta(k, n)] = {StreamStart(k, n, r)}
  /\ EndMeta(k, n) \in new => d[EndMeta(k, n)] = {StartMeta(k, n)}
  /\ \A f \in Flows : FlowEvent(k, n, f) \in new =>
       d[FlowEvent(k, n, f)] = {StartMeta(k, n)}
  /\ StreamEnd(k, n, r) \in new =>
       d[StreamEnd(k, n, r)] = {StreamStart(k, n, r), EndMeta(k, n)}

\* The graph with new events added, when none of them was there before.
LEMMA Extended ==
  ASSUME NEW new, NEW r, NEW k, NEW n, NEW s, new \cap Added = {},
         NEW d, d = WithEvents(new, r, k, n, s)
  PROVE  IsExtension(d, new, r, k, n, s)
<1>1. d = [e \in Added \cup new |->
             IF e \in Added THEN deps[e]
             ELSE CASE e = Barrier(k, n) -> {NoneDep}
                    [] e = StreamStart(k, n, r) -> tail[r][s] \cup {Barrier(k, n)}
                    [] e = StartMeta(k, n) -> {StreamStart(k, n, r)}
                    [] e \in FlowEvents(k, n) \cup {EndMeta(k, n)} -> {StartMeta(k, n)}
                    [] e = StreamEnd(k, n, r) -> {StreamStart(k, n, r), EndMeta(k, n)}]
  BY DEF WithEvents
<1>2. DOMAIN d = Added \cup new
  BY <1>1
<1>3. \A e \in Added : d[e] = deps[e]
  BY <1>1
<1>4. ASSUME NEW e \in new
      PROVE  d[e] = CASE e = Barrier(k, n) -> {NoneDep}
                    [] e = StreamStart(k, n, r) -> tail[r][s] \cup {Barrier(k, n)}
                    [] e = StartMeta(k, n) -> {StreamStart(k, n, r)}
                    [] e \in FlowEvents(k, n) \cup {EndMeta(k, n)} -> {StartMeta(k, n)}
                    [] e = StreamEnd(k, n, r) -> {StreamStart(k, n, r), EndMeta(k, n)}
  <2>1. e \notin Added
    BY <1>4
  <2>2. QED
    BY <1>1, <1>4, <2>1
<1>5. /\ Barrier(k, n) # StreamStart(k, n, r) /\ Barrier(k, n) # StartMeta(k, n)
      /\ Barrier(k, n) # EndMeta(k, n) /\ Barrier(k, n) # StreamEnd(k, n, r)
      /\ StreamStart(k, n, r) # StartMeta(k, n) /\ StreamStart(k, n, r) # EndMeta(k, n)
      /\ StreamStart(k, n, r) # StreamEnd(k, n, r)
      /\ StartMeta(k, n) # EndMeta(k, n) /\ StartMeta(k, n) # StreamEnd(k, n, r)
      /\ EndMeta(k, n) # StreamEnd(k, n, r)
  BY EventFields
<1>6. \A f \in Flows :
        /\ FlowEvent(k, n, f) # Barrier(k, n) /\ FlowEvent(k, n, f) # StreamStart(k, n, r)
        /\ FlowEvent(k, n, f) # StartMeta(k, n) /\ FlowEvent(k, n, f) # EndMeta(k, n)
        /\ FlowEvent(k, n, f) # StreamEnd(k, n, r)
  BY EventFields
<1>7. Barrier(k, n) \in new => d[Barrier(k, n)] = {NoneDep}
  BY <1>4, <1>5, <1>6 DEF FlowEvents
<1>8. StreamStart(k, n, r) \in new =>
        d[StreamStart(k, n, r)] = tail[r][s] \cup {Barrier(k, n)}
  BY <1>4, <1>5, <1>6 DEF FlowEvents
<1>9. StartMeta(k, n) \in new => d[StartMeta(k, n)] = {StreamStart(k, n, r)}
  BY <1>4, <1>5, <1>6 DEF FlowEvents
<1>10. EndMeta(k, n) \in new => d[EndMeta(k, n)] = {StartMeta(k, n)}
  BY <1>4, <1>5, <1>6 DEF FlowEvents
<1>11. \A f \in Flows : FlowEvent(k, n, f) \in new =>
         d[FlowEvent(k, n, f)] = {StartMeta(k, n)}
  BY <1>4, <1>5, <1>6 DEF FlowEvents
<1>12. StreamEnd(k, n, r) \in new =>
         d[StreamEnd(k, n, r)] = {StreamStart(k, n, r), EndMeta(k, n)}
  BY <1>4, <1>5, <1>6 DEF FlowEvents
<1>13. QED
  BY <1>2, <1>3, <1>7, <1>8, <1>9, <1>10, <1>11, <1>12
     DEF IsExtension

\* The three things rank r's m-th call can do, by what it does to the numbers
\* and to the graph.
OpensNth(r, k, m, s) ==
  /\ m = created[k] + 1 /\ created'[k] = m
  /\ Len(completed'[k]) = Len(completed[k])
  /\ deps' = OpenGraph(r, k, m, s)

JoinsNth(r, k, m, s) ==
  /\ m > Len(completed[k]) /\ m <= created[k] /\ created'[k] = created[k]
  /\ Len(completed'[k]) = Len(completed[k])
  /\ deps' = JoinGraph(r, k, m, s)

CompletesNth(r, k, m, s) ==
  /\ m = Len(completed[k]) + 1 /\ m <= created[k] /\ created'[k] = created[k]
  /\ Len(completed'[k]) = m
  /\ \A x \in Ranks : m <= calls'[k][x]
  /\ deps' = CompleteGraph(r, k, m, s)

\* The numbers of kind k, for reasoning about their order.
LEMMA Counts ==
  ASSUME CallInv, NEW k \in Kinds
  PROVE  /\ created[k] \in Nat /\ Len(completed[k]) \in Nat /\ Len(waitings[k]) \in Nat
         /\ \A r \in Ranks : /\ calls[k][r] \in Nat
                             /\ Len(completed[k]) <= calls[k][r]
                             /\ calls[k][r] <= Len(completed[k]) + Len(waitings[k])
<1> DEFINE W == waitings[k]  c == calls[k]  done == completed[k]
<1>1. KindInv(W, c, done) /\ created[k] \in Nat
  BY DEF CallInv
<1> HIDE DEF W, c, done
<1>2. /\ W \in Seq(CCWaiting) /\ c \in [Ranks -> Nat] /\ done \in Seq([Ranks -> Nat])
      /\ \A r \in Ranks : Len(done) <= c[r] /\ c[r] <= Len(done) + Len(W)
  BY <1>1 DEF KindInv
<1>3. /\ Len(done) \in Nat /\ Len(W) \in Nat
      /\ \A r \in Ranks : /\ c[r] \in Nat /\ Len(done) <= c[r]
                          /\ c[r] <= Len(done) + Len(W)
  BY <1>2
<1>4. QED
  BY <1>1, <1>3 DEF W, c, done

\* The m-th call of a rank opens, joins or completes the m-th collective of the
\* kind, and the waiting collectives stay numbered in order.
LEMMA CallCases ==
  ASSUME CallInv, Numbered, NEW r \in Ranks, NEW k \in Kinds, NEW s \in Streams,
         NcclCall(r, k, s), NEW m, m = calls[k][r] + 1
  PROVE  /\ m \in 1 .. MaxCalls
         /\ calls'[k][r] = m /\ \A x \in Ranks \ {r} : calls'[k][x] = calls[k][x]
         /\ \A k2 \in Kinds \ {k} : /\ calls'[k2] = calls[k2] /\ created'[k2] = created[k2]
                                    /\ completed'[k2] = completed[k2]
         /\ Numbered'
         /\ OpensNth(r, k, m, s) \/ JoinsNth(r, k, m, s) \/ CompletesNth(r, k, m, s)
<1> DEFINE W == waitings[k]  c == calls[k]  done == completed[k]  D == Len(done)
<1>1. /\ KindInv(W, c, done) /\ waitings \in [Kinds -> Seq(CCWaiting)]
      /\ created \in [Kinds -> Nat] /\ calls \in [Kinds -> [Ranks -> Nat]]
      /\ completed \in [Kinds -> Seq([Ranks -> Nat])] /\ MaxCalls \in Nat
  BY RanksAssumption DEF CallInv
<1>2. /\ D \in Nat /\ Len(W) \in Nat /\ created[k] \in Nat /\ c[r] \in Nat
      /\ W \in Seq(CCWaiting) /\ done \in Seq([Ranks -> Nat])
      /\ \A x \in Ranks : c[x] \in Nat /\ c[x] <= D + Len(W)
  BY <1>1, Counts
<1>10. D \in Nat /\ Len(W) \in Nat /\ created[k] \in Nat /\ c[r] \in Nat
  BY <1>2
<1>3. /\ created[k] = D + Len(W)
      /\ \A i \in 1 .. Len(W) : W[i].n = D + i
  BY DEF Numbered
<1>4. /\ calls' = [calls EXCEPT ![k][r] = @ + 1] /\ c[r] < MaxCalls
      /\ Open(r, k, s) \/ \E i \in 1 .. Len(W) : Join(r, k, s, i)
  BY DEF NcclCall
<1>5. /\ calls'[k][r] = m /\ \A x \in Ranks \ {r} : calls'[k][x] = calls[k][x]
      /\ \A k2 \in Kinds \ {k} : calls'[k2] = calls[k2]
      /\ m \in 1 .. MaxCalls
  BY <1>1, <1>2, <1>4
<1>6. ASSUME NEW W2, NEW d2, NEW cr,
             waitings' = [waitings EXCEPT ![k] = W2], completed' = [completed EXCEPT ![k] = d2],
             created' = [created EXCEPT ![k] = cr], cr = Len(d2) + Len(W2),
             \A i \in 1 .. Len(W2) : W2[i].n = Len(d2) + i
      PROVE  /\ Numbered'
             /\ \A k2 \in Kinds \ {k} : created'[k2] = created[k2] /\ completed'[k2] = completed[k2]
  <2>1. waitings'[k] = W2 /\ completed'[k] = d2 /\ created'[k] = cr
    BY <1>1, <1>6
  <2>2. \A k2 \in Kinds \ {k} : /\ created'[k2] = created[k2] /\ completed'[k2] = completed[k2]
                                /\ waitings'[k2] = waitings[k2]
    BY <1>1, <1>6
  <2>3. ASSUME NEW k2 \in Kinds
        PROVE  /\ created'[k2] = Len(completed'[k2]) + Len(waitings'[k2])
               /\ \A i \in 1 .. Len(waitings'[k2]) : waitings'[k2][i].n = Len(completed'[k2]) + i
    <3>1. CASE k2 = k
      BY <1>6, <2>1, <3>1
    <3>2. CASE k2 # k
      BY <2>2, <3>2 DEF Numbered
    <3>3. QED
      BY <3>1, <3>2
  <2>4. QED
    BY <2>2, <2>3 DEF Numbered
<1>7. CASE Open(r, k, s)
  <2> DEFINE n  == created[k] + 1
             w  == [n |-> n, joined |-> {r}, waiting |-> Ranks \ {r},
                    nth |-> [x \in {r} |-> c[r] + 1]]
             W2 == Append(W, w)
  <2>1. /\ \A i \in 1 .. Len(W) : r \in W[i].joined
        /\ created' = [created EXCEPT ![k] = n]
        /\ waitings' = [waitings EXCEPT ![k] = W2]
        /\ completed' = completed
        /\ deps' = OpenGraph(r, k, n, s)
    BY <1>7 DEF Open, HasJoinedAll
  <2>2. c[r] = D + Len(W)
    <3> HIDE DEF W, c, done
    <3>1. QED
      BY <1>1, <2>1, OpenCount
  <2>3. n = m
    BY <1>3, <2>2
  <2>4. /\ Len(W2) = Len(W) + 1 /\ \A i \in 1 .. Len(W) : W2[i] = W[i]
        /\ W2[Len(W) + 1] = w /\ w.n = n
    BY <1>2
  <2>5. n = D + Len(W2) /\ \A i \in 1 .. Len(W2) : W2[i].n = D + i
    <3>1. created[k] = D + Len(W)
      BY <1>3
    <3> HIDE DEF W2, w, W, D
    <3>2. n = D + Len(W2) /\ n = D + (Len(W) + 1)
      BY <1>10, <2>4, <3>1
    <3>3. \A i \in 1 .. Len(W2) : i \in 1 .. Len(W) \/ i = Len(W) + 1
      BY <1>10, <2>4
    <3> HIDE DEF n
    <3>4. ASSUME NEW i \in 1 .. Len(W2)
          PROVE  W2[i].n = D + i
      <4>1. CASE i \in 1 .. Len(W)
        <5>1. W[i].n = D + i /\ W2[i] = W[i]
          BY <1>3, <2>4, <4>1
        <5>2. QED
          BY <5>1
      <4>2. CASE i = Len(W) + 1
        <5>1. W2[i] = w /\ w.n = n /\ n = D + i
          BY <2>4, <3>2, <4>2
        <5>2. QED
          BY <5>1
      <4>3. QED
        BY <3>3, <4>1, <4>2
    <3>5. QED
      BY <3>2, <3>4
  <2>6. completed' = [completed EXCEPT ![k] = done]
    BY <1>1, <2>1
  <2>7. /\ Numbered'
        /\ \A k2 \in Kinds \ {k} : created'[k2] = created[k2] /\ completed'[k2] = completed[k2]
    <3> HIDE DEF W2, n, done
    <3>1. QED
      BY <1>6, <2>1, <2>5, <2>6
  <2>8. created'[k] = m /\ completed'[k] = done
    BY <1>1, <2>1, <2>3
  <2>9. OpensNth(r, k, m, s)
    BY <2>1, <2>3, <2>8 DEF OpensNth
  <2>10. QED
    BY <1>5, <2>7, <2>9
<1>8. ASSUME NEW i \in 1 .. Len(W), Join(r, k, s, i)
      PROVE  /\ Numbered'
             /\ \A k2 \in Kinds \ {k} : created'[k2] = created[k2] /\ completed'[k2] = completed[k2]
             /\ JoinsNth(r, k, m, s) \/ CompletesNth(r, k, m, s)
  <2> DEFINE w2 == Joined(W[i], r, c[r] + 1)
  <2>1. r \notin W[i].joined /\ \A j \in 1 .. i - 1 : r \in W[j].joined
    BY <1>8 DEF Join, IsFirstMissing
  <2>2. created' = created /\ created' = [created EXCEPT ![k] = created[k]]
    BY <1>1, <1>8 DEF Join
  <2>3. m = D + i
    <3>1. c[r] + 1 = Len(done) + i
      <4> HIDE DEF W, c, done
      <4>1. QED
        BY <1>1, <2>1, JoinCount
    <3>2. QED
      BY <3>1
  <2>4. W[i].n = m /\ m > D /\ m <= created[k]
    <3>1. W[i].n = D + i /\ created[k] = D + Len(W)
      BY <1>3
    <3> HIDE DEF W, D
    <3>2. QED
      BY <1>10, <2>3, <3>1
  <2>5. w2.n = W[i].n
    <3>1. W[i] \in CCWaiting
      BY <1>2
    <3>2. QED
      BY <3>1 DEF Joined, CCWaiting
  <2>6. CASE w2.waiting = {}
    <3>1. /\ waitings' = [waitings EXCEPT ![k] = RemoveIndex(W, i)]
          /\ completed' = [completed EXCEPT ![k] = Append(done, w2.nth)]
          /\ deps' = CompleteGraph(r, k, W[i].n, s)
      BY <1>8, <2>6 DEF Join, Joined, Complete
    <3>2. i = 1 /\ w2.joined = Ranks
      <4>1. PICK v : v = w2
        OBVIOUS
      <4> HIDE DEF W, c, done, w2
      <4>2. v = Joined(W[i], r, c[r] + 1) /\ v.waiting = {}
        BY <2>6, <4>1 DEF w2
      <4>5. KindInv(W, c, done)
        BY <1>1
      <4>3. i = 1 /\ v.joined = Ranks
        BY <2>1, <4>2, <4>5, CompleteFirst
      <4>4. QED
        BY <4>1, <4>3
    <3> DEFINE W2 == RemoveIndex(W, 1)  d2 == Append(done, w2.nth)
    <3>3. Len(W2) = Len(W) - 1 /\ \A j \in 1 .. Len(W) - 1 : W2[j] = W[j + 1]
      BY <1>2, RemoveFirst
    <3>4. Len(d2) = D + 1
      BY <1>2
    <3>11. created[k] = D + Len(W) /\ Len(W) > 0
      <4> HIDE DEF W, D
      <4>1. QED
        BY <1>3, <1>10
    <3>5. \A j \in 1 .. Len(W2) : W2[j].n = Len(d2) + j
      <4> HIDE DEF W, D, W2, d2
      <4>1. \A j \in 1 .. Len(W2) : /\ j \in Nat /\ j \in 1 .. Len(W) - 1
                                    /\ j + 1 \in 1 .. Len(W)
        BY <1>10, <3>3
      <4>2. \A j \in 1 .. Len(W2) : W2[j].n = D + (j + 1)
        BY <1>3, <3>3, <4>1
      <4>3. QED
        BY <1>10, <3>4, <4>1, <4>2
    <3>6. created[k] = Len(d2) + Len(W2)
      <4> HIDE DEF W, D, W2, d2
      <4>1. QED
        BY <1>10, <3>3, <3>4, <3>11
    <3>7. /\ Numbered'
          /\ \A k2 \in Kinds \ {k} : created'[k2] = created[k2] /\ completed'[k2] = completed[k2]
      <4> HIDE DEF W, W2, d2
      <4>1. QED
        BY <1>6, <2>2, <3>1, <3>2, <3>5, <3>6 DEF W2, d2
    <3>8. Len(completed'[k]) = m /\ m = D + 1
      <4>1. completed'[k] = d2
        BY <1>1, <3>1
      <4>2. QED
        BY <1>2, <2>3, <3>2, <3>4, <4>1
    <3>9. \A x \in Ranks : m <= calls'[k][x]
      <4>1. W[i].joined = {x \in Ranks : c[x] >= D + i}
        BY <1>1, Zenon DEF KindInv
      <4>2. w2.joined = W[i].joined \cup {r}
        <5>1. W[i] \in CCWaiting
          BY <1>2
        <5>2. QED
          BY <5>1 DEF Joined, CCWaiting
      <4>3. \A x \in Ranks \ {r} : c[x] >= m
        BY <2>3, <3>2, <4>1, <4>2
      <4>4. QED
        BY <1>2, <1>5, <4>3
    <3>10. QED
      BY <2>2, <2>4, <3>1, <3>7, <3>8, <3>9 DEF CompletesNth
  <2>7. CASE w2.waiting # {}
    <3> DEFINE W2 == [W EXCEPT ![i] = w2]
    <3>1. /\ waitings' = [waitings EXCEPT ![k] = W2]
          /\ completed' = completed
          /\ deps' = JoinGraph(r, k, W[i].n, s)
      BY <1>8, <2>7 DEF Join, Joined, Complete
    <3>2. completed' = [completed EXCEPT ![k] = done]
      BY <1>1, <3>1
    <3>3. Len(W2) = Len(W) /\ \A j \in 1 .. Len(W) : W2[j].n = W[j].n
      <4> HIDE DEF w2
      <4>1. Len(W2) = Len(W) /\ W2[i] = w2 /\ \A j \in 1 .. Len(W) : j # i => W2[j] = W[j]
        BY <1>2
      <4>2. QED
        BY <2>5, <4>1
    <3>4. /\ Numbered'
          /\ \A k2 \in Kinds \ {k} : created'[k2] = created[k2] /\ completed'[k2] = completed[k2]
      <4> HIDE DEF W2, done
      <4>1. QED
        BY <1>3, <1>6, <2>2, <3>1, <3>2, <3>3
    <3>5. QED
      BY <2>2, <2>4, <3>1, <3>4 DEF JoinsNth
  <2>8. QED
    BY <2>6, <2>7
<1>9. QED
  BY <1>4, <1>5, <1>7, <1>8

\* d is the graph with what opening the n-th collective adds.
IsOpened(d, r, k, n, s) ==
  /\ DOMAIN d = Added \cup OwnEvents(k, n) \cup StreamEvents(k, n, r)
  /\ \A e \in Added : d[e] = deps[e]
  /\ d[Barrier(k, n)] = {NoneDep}
  /\ d[StartMeta(k, n)] = {StreamStart(k, n, r)}
  /\ d[EndMeta(k, n)] = {StartMeta(k, n)}
  /\ d[StreamStart(k, n, r)] = tail[r][s] \cup {Barrier(k, n)}
  /\ d[StreamEnd(k, n, r)] = {StreamStart(k, n, r), EndMeta(k, n)}

\* The graph after a rank has opened the n-th collective.
LEMMA OpenedGraph ==
  ASSUME NEW r \in Ranks, NEW k, NEW n, NEW s, NEW d, d = OpenGraph(r, k, n, s),
         (OwnEvents(k, n) \cup StreamEvents(k, n, r)) \cap Added = {}
  PROVE  IsOpened(d, r, k, n, s)
<1> DEFINE new == OwnEvents(k, n) \cup StreamEvents(k, n, r)
<1>1. d = WithEvents(new, r, k, n, s) /\ new \cap Added = {}
  BY DEF OpenGraph
<1>2. /\ Barrier(k, n) \in new /\ StartMeta(k, n) \in new /\ EndMeta(k, n) \in new
      /\ StreamStart(k, n, r) \in new /\ StreamEnd(k, n, r) \in new
  BY DEF OwnEvents, StreamEvents
<1> HIDE DEF new
<1>3. /\ DOMAIN d = Added \cup new
      /\ \A e \in Added : d[e] = deps[e]
      /\ d[Barrier(k, n)] = {NoneDep}
      /\ d[StartMeta(k, n)] = {StreamStart(k, n, r)}
      /\ d[EndMeta(k, n)] = {StartMeta(k, n)}
      /\ d[StreamStart(k, n, r)] = tail[r][s] \cup {Barrier(k, n)}
      /\ d[StreamEnd(k, n, r)] = {StreamStart(k, n, r), EndMeta(k, n)}
  <2>1. IsExtension(d, new, r, k, n, s)
    BY <1>1, Extended
  <2>2. QED
    BY <1>2, <2>1 DEF IsExtension
<1>4. DOMAIN d = Added \cup OwnEvents(k, n) \cup StreamEvents(k, n, r)
  BY <1>3 DEF new
<1>5. QED
  BY <1>3, <1>4 DEF IsOpened

\* d is the graph with what joining the n-th collective adds.
IsJoined(d, r, k, n, s) ==
  /\ DOMAIN d = Added \cup StreamEvents(k, n, r)
  /\ \A e \in Added \ {StartMeta(k, n)} : d[e] = deps[e]
  /\ d[StartMeta(k, n)] = deps[StartMeta(k, n)] \cup {StreamStart(k, n, r)}
  /\ d[StreamStart(k, n, r)] = tail[r][s] \cup {Barrier(k, n)}
  /\ d[StreamEnd(k, n, r)] = {StreamStart(k, n, r), EndMeta(k, n)}

\* The graph after a rank has joined the n-th collective.
LEMMA JoinedGraph ==
  ASSUME NEW r \in Ranks, NEW k, NEW n, NEW s, NEW d, d = JoinGraph(r, k, n, s),
         StreamEvents(k, n, r) \cap Added = {}, StartMeta(k, n) \in Added
  PROVE  IsJoined(d, r, k, n, s)
<1>1. PICK b : b = WithEvents(StreamEvents(k, n, r), r, k, n, s)
  OBVIOUS
<1>2. StreamStart(k, n, r) \in StreamEvents(k, n, r) /\ StreamEnd(k, n, r) \in StreamEvents(k, n, r)
  BY DEF StreamEvents
<1>3. /\ DOMAIN b = Added \cup StreamEvents(k, n, r)
      /\ \A e \in Added : b[e] = deps[e]
      /\ b[StreamStart(k, n, r)] = tail[r][s] \cup {Barrier(k, n)}
      /\ b[StreamEnd(k, n, r)] = {StreamStart(k, n, r), EndMeta(k, n)}
  <2>1. IsExtension(b, StreamEvents(k, n, r), r, k, n, s)
    BY <1>1, Extended
  <2>2. QED
    BY <1>2, <2>1 DEF IsExtension
<1>4. d = [b EXCEPT ![StartMeta(k, n)] = @ \cup {StreamStart(k, n, r)}]
  BY <1>1 DEF JoinGraph
<1>5. StreamStart(k, n, r) # StartMeta(k, n) /\ StreamEnd(k, n, r) # StartMeta(k, n)
  BY EventFields
<1>6. /\ DOMAIN d = DOMAIN b
      /\ \A e \in DOMAIN b \ {StartMeta(k, n)} : d[e] = b[e]
      /\ d[StartMeta(k, n)] = b[StartMeta(k, n)] \cup {StreamStart(k, n, r)}
  BY <1>3, <1>4
<1>7. QED
  BY <1>2, <1>3, <1>5, <1>6 DEF IsJoined

\* d is the graph with what completing the n-th collective adds.
IsCompleted(d, r, k, n, s) ==
  /\ DOMAIN d = Added \cup StreamEvents(k, n, r) \cup FlowEvents(k, n)
  /\ \A e \in Added \ OwnEvents(k, n) : d[e] = deps[e]
  /\ d[StartMeta(k, n)] = deps[StartMeta(k, n)] \cup {StreamStart(k, n, r)}
  /\ d[EndMeta(k, n)] = deps[EndMeta(k, n)] \cup FlowEvents(k, n)
  /\ d[Barrier(k, n)] = deps[Barrier(k, n)] \ {NoneDep}
  /\ d[StreamStart(k, n, r)] = tail[r][s] \cup {Barrier(k, n)}
  /\ d[StreamEnd(k, n, r)] = {StreamStart(k, n, r), EndMeta(k, n)}
  /\ \A f \in Flows : d[FlowEvent(k, n, f)] = {StartMeta(k, n)}

\* The graph after the last rank has joined the n-th collective.
LEMMA CompletedGraph ==
  ASSUME NEW r \in Ranks, NEW k, NEW n, NEW s, NEW d, d = CompleteGraph(r, k, n, s),
         (StreamEvents(k, n, r) \cup FlowEvents(k, n)) \cap Added = {},
         OwnEvents(k, n) \subseteq Added
  PROVE  IsCompleted(d, r, k, n, s)
<1> DEFINE new == StreamEvents(k, n, r) \cup FlowEvents(k, n)
<1>1. PICK b : b = WithEvents(new, r, k, n, s)
  OBVIOUS
<1>2. /\ StreamStart(k, n, r) \in new /\ StreamEnd(k, n, r) \in new /\ new \cap Added = {}
      /\ \A f \in Flows : FlowEvent(k, n, f) \in new
  BY DEF StreamEvents, FlowEvents
<1>3. d = [b EXCEPT ![StartMeta(k, n)] = @ \cup {StreamStart(k, n, r)},
                    ![EndMeta(k, n)] = @ \cup FlowEvents(k, n),
                    ![Barrier(k, n)] = @ \ {NoneDep}]
  BY <1>1 DEF CompleteGraph
<1>4. Barrier(k, n) \in Added /\ StartMeta(k, n) \in Added /\ EndMeta(k, n) \in Added
  BY DEF OwnEvents
<1>5. /\ Barrier(k, n) # StartMeta(k, n) /\ Barrier(k, n) # EndMeta(k, n)
      /\ StartMeta(k, n) # EndMeta(k, n)
  BY EventFields
<1> HIDE DEF new
<1>6. /\ DOMAIN b = Added \cup new
      /\ \A e \in Added : b[e] = deps[e]
      /\ b[StreamStart(k, n, r)] = tail[r][s] \cup {Barrier(k, n)}
      /\ b[StreamEnd(k, n, r)] = {StreamStart(k, n, r), EndMeta(k, n)}
      /\ \A f \in Flows : b[FlowEvent(k, n, f)] = {StartMeta(k, n)}
  <2>1. IsExtension(b, new, r, k, n, s)
    BY <1>1, <1>2, Extended
  <2>2. QED
    BY <1>2, <2>1 DEF IsExtension
<1>7. /\ DOMAIN d = DOMAIN b
      /\ \A e \in DOMAIN b \ {Barrier(k, n), StartMeta(k, n), EndMeta(k, n)} : d[e] = b[e]
      /\ d[StartMeta(k, n)] = b[StartMeta(k, n)] \cup {StreamStart(k, n, r)}
      /\ d[EndMeta(k, n)] = b[EndMeta(k, n)] \cup FlowEvents(k, n)
      /\ d[Barrier(k, n)] = b[Barrier(k, n)] \ {NoneDep}
  BY <1>3, <1>4, <1>5, <1>6
<1>8. \A e \in new : e \in DOMAIN b \ {Barrier(k, n), StartMeta(k, n), EndMeta(k, n)}
  BY <1>2, <1>4, <1>6
<1>9. DOMAIN d = Added \cup StreamEvents(k, n, r) \cup FlowEvents(k, n)
  BY <1>6, <1>7 DEF new
<1>10. \A e \in Added \ OwnEvents(k, n) : d[e] = deps[e]
  BY <1>6, <1>7 DEF OwnEvents
<1>11. QED
  BY <1>2, <1>4, <1>6, <1>7, <1>8, <1>9, <1>10 DEF IsCompleted

\* Nothing of a collective that waits has ended.
LEMMA NothingEnded ==
  ASSUME Closed, NEW k \in Kinds, NEW n \in 1 .. MaxCalls, Present(k, n), Wired(k, n),
         n <= created[k], n > Len(completed[k]), Len(completed[k]) \in Nat
  PROVE  over \cap CollectiveEvents(k, n) = {}
<1>1. NoneDep \notin over
  BY EventsAssumption DEF Closed
<1>2. \A e \in over : e \in Added /\ deps[e] \subseteq over
  BY DEF Closed
<1>3. Barrier(k, n) \notin over
  BY <1>1, <1>2 DEF Wired
<1>4. \A r \in Ranks : StreamStart(k, n, r) \notin over
  BY <1>2, <1>3 DEF Wired, Present
<1>5. StartMeta(k, n) \notin over
  BY <1>2, <1>4 DEF Wired
<1>6. EndMeta(k, n) \notin over
  BY <1>2, <1>5 DEF Wired
<1>7. \A r \in Ranks : StreamEnd(k, n, r) \notin over
  BY <1>2, <1>6 DEF Wired, Present
<1>8. \A f \in Flows : FlowEvent(k, n, f) \notin over
  BY <1>2 DEF Present
<1>9. ASSUME NEW e \in CollectiveEvents(k, n), e \in over
      PROVE  FALSE
  <2>1. CASE e \in OwnEvents(k, n)
    BY <1>3, <1>5, <1>6, <1>9, <2>1 DEF OwnEvents
  <2>2. CASE \E r \in Ranks : e = StreamStart(k, n, r) \/ e = StreamEnd(k, n, r)
    BY <1>4, <1>7, <1>9, <2>2
  <2>3. CASE e \in FlowEvents(k, n)
    BY <1>8, <1>9, <2>3 DEF FlowEvents
  <2>4. QED
    BY <1>9, <2>1, <2>2, <2>3 DEF CollectiveEvents
<1>10. QED
  BY <1>9

\* Every event of a collective carries its kind and number.
LEMMA OwnKindAndNumber ==
  ASSUME NEW k, NEW n, NEW e \in CollectiveEvents(k, n)
  PROVE  e[2] = k /\ e[3] = n
BY EventFields DEF CollectiveEvents, OwnEvents, FlowEvents

\* The graph changes only in the events of the collective that the call is for,
\* and no dependency is recorded on an event that has ended.
GraphFrame(k, n) ==
  /\ \A e : e \notin CollectiveEvents(k, n) =>
       /\ e \in Added' <=> e \in Added
       /\ e \in Added => deps'[e] = deps[e]
  /\ Added \subseteq Added'
  /\ Added' \subseteq Added \cup CollectiveEvents(k, n)
  /\ \A e \in over : deps'[e] = deps[e]

\* A sum is at least its first part.
LEMMA PartOfSum ==
  ASSUME NEW a \in Nat, NEW b \in Nat, NEW c \in Nat, c = a + b
  PROVE  a <= c
OBVIOUS

\* Of each kind, collectives complete after they are opened, and every call is
\* for one that has been opened.
LEMMA NumbersInOrder ==
  ASSUME CallInv, Numbered, NEW k \in Kinds, NEW n \in 1 .. MaxCalls
  PROVE  /\ n <= Len(completed[k]) => n <= created[k]
         /\ \A r \in Ranks : n <= calls[k][r] => n <= created[k]
<1> DEFINE D == Len(completed[k])  T == created[k]  L == Len(waitings[k])
<1>1. /\ D \in Nat /\ T \in Nat /\ L \in Nat /\ T = D + L
      /\ \A r \in Ranks : calls[k][r] \in Nat /\ calls[k][r] <= D + L
  BY Counts DEF Numbered
<1> HIDE DEF D, T, L
<1>2. D <= T /\ \A r \in Ranks : calls[k][r] <= T
  BY <1>1, PartOfSum
<1>3. n \in Nat
  BY RanksAssumption
<1>4. /\ n <= D => n <= T
      /\ \A r \in Ranks : n <= calls[k][r] => n <= T
  BY <1>1, <1>2, <1>3
<1>5. QED
  BY <1>4 DEF D, T

\* The other collectives keep what the invariant says of them.
LEMMA OthersKeep ==
  ASSUME CallInv, Numbered,
         NEW k \in Kinds, NEW n \in 1 .. MaxCalls, GraphFrame(k, n),
         NEW k2 \in Kinds, NEW n2 \in 1 .. MaxCalls, k2 # k \/ n2 # n,
         Present(k2, n2), Wired(k2, n2),
         \A r \in Ranks : n2 <= calls'[k2][r] <=> n2 <= calls[k2][r],
         n2 <= created'[k2] <=> n2 <= created[k2],
         n2 <= Len(completed'[k2]) <=> n2 <= Len(completed[k2]),
         n2 > Len(completed'[k2]) <=> n2 > Len(completed[k2])
  PROVE  Present(k2, n2)' /\ Wired(k2, n2)'
<1>1. \A e \in CollectiveEvents(k2, n2) : e \notin CollectiveEvents(k, n)
  BY OwnKindAndNumber
<1>2. \A e \in CollectiveEvents(k2, n2) : /\ e \in Added' <=> e \in Added
                                          /\ e \in Added => deps'[e] = deps[e]
  BY <1>1 DEF GraphFrame
<1>3. /\ Barrier(k2, n2) \in CollectiveEvents(k2, n2)
      /\ StartMeta(k2, n2) \in CollectiveEvents(k2, n2)
      /\ EndMeta(k2, n2) \in CollectiveEvents(k2, n2)
      /\ \A r \in Ranks : /\ StreamStart(k2, n2, r) \in CollectiveEvents(k2, n2)
                          /\ StreamEnd(k2, n2, r) \in CollectiveEvents(k2, n2)
      /\ \A f \in Flows : FlowEvent(k2, n2, f) \in CollectiveEvents(k2, n2)
  BY DEF CollectiveEvents, OwnEvents, FlowEvents
<1>4. Present(k2, n2)'
  BY <1>2, <1>3 DEF Present
<1>5. /\ n2 <= created[k2] =>
           deps'[StartMeta(k2, n2)] = deps[StartMeta(k2, n2)]
           /\ deps'[EndMeta(k2, n2)] = deps[EndMeta(k2, n2)]
           /\ deps'[Barrier(k2, n2)] = deps[Barrier(k2, n2)]
      /\ \A r \in Ranks : n2 <= calls[k2][r] =>
           /\ deps'[StreamStart(k2, n2, r)] = deps[StreamStart(k2, n2, r)]
           /\ deps'[StreamEnd(k2, n2, r)] = deps[StreamEnd(k2, n2, r)]
      /\ \A f \in Flows : n2 <= Len(completed[k2]) =>
           deps'[FlowEvent(k2, n2, f)] = deps[FlowEvent(k2, n2, f)]
  BY <1>2, <1>3 DEF Present
<1>6. n2 <= Len(completed[k2]) => n2 <= created[k2]
  BY NumbersInOrder
<1>7. \A r \in Ranks : n2 <= calls[k2][r] => n2 <= created[k2]
  BY NumbersInOrder
<1>8. Wired(k2, n2)'
  <2>1. ASSUME NEW r \in Ranks, n2 <= calls'[k2][r]
        PROVE  /\ Barrier(k2, n2) \in deps'[StreamStart(k2, n2, r)]
               /\ StreamStart(k2, n2, r) \in deps'[StartMeta(k2, n2)]
               /\ {StreamStart(k2, n2, r), EndMeta(k2, n2)} \subseteq deps'[StreamEnd(k2, n2, r)]
    BY <1>5, <1>7, <2>1 DEF Wired
  <2>2. ASSUME n2 <= created'[k2]
        PROVE  /\ \E r \in Ranks : n2 <= calls'[k2][r]
               /\ StartMeta(k2, n2) \in deps'[EndMeta(k2, n2)]
               /\ n2 > Len(completed'[k2]) => NoneDep \in deps'[Barrier(k2, n2)]
    BY <1>5, <2>2 DEF Wired
  <2>3. ASSUME NEW f \in Flows, n2 <= Len(completed'[k2])
        PROVE  /\ StartMeta(k2, n2) \in deps'[FlowEvent(k2, n2, f)]
               /\ FlowEvent(k2, n2, f) \in deps'[EndMeta(k2, n2)]
    BY <1>5, <1>6, <2>3 DEF Wired
  <2>4. QED
    BY <2>1, <2>2, <2>3 DEF Wired
<1>9. QED
  BY <1>4, <1>8

\* The numbers around rank r's m-th call.
LEMMA CallNumbers ==
  ASSUME CallInv, Numbered, NEW k \in Kinds, NEW r \in Ranks,
         NEW m \in 1 .. MaxCalls, m = calls[k][r] + 1, calls'[k][r] = m
  PROVE  /\ m \in Nat /\ Len(completed[k]) \in Nat /\ created[k] \in Nat
         /\ m <= calls'[k][r] /\ ~ (m <= calls[k][r])
         /\ \A x \in Ranks : calls[k][x] \in Nat
<1>1. MaxCalls \in Nat
  BY RanksAssumption
<1>2. /\ created[k] \in Nat /\ Len(completed[k]) \in Nat
      /\ \A x \in Ranks : calls[k][x] \in Nat
  BY Counts
<1>3. m \in Nat
  BY <1>1
<1>4. calls[k][r] \in Nat
  BY <1>2
<1>5. m <= calls'[k][r] /\ ~ (m <= calls[k][r])
  BY <1>3, <1>4
<1>6. QED
  BY <1>2, <1>3, <1>5

\* Opening the m-th collective.
LEMMA OpenKeepsGraph ==
  ASSUME CollInv, NEW r \in Ranks, NEW k \in Kinds, NEW s \in Streams,
         NEW m \in 1 .. MaxCalls, m = calls[k][r] + 1, calls'[k][r] = m,
         \A x \in Ranks \ {r} : calls'[k][x] = calls[k][x],
         OpensNth(r, k, m, s)
  PROVE  GraphFrame(k, m) /\ Present(k, m)' /\ Wired(k, m)'
<1>1. /\ m \in Nat /\ Len(completed[k]) \in Nat /\ created[k] \in Nat
      /\ m <= calls'[k][r] /\ ~ (m <= calls[k][r])
  BY CallNumbers DEF CollInv
<1>2. /\ m = created[k] + 1 /\ created'[k] = m /\ Len(completed'[k]) = Len(completed[k])
      /\ deps' = OpenGraph(r, k, m, s)
  BY DEF OpensNth
<1>3. ~ (m <= created[k])
  BY <1>1, <1>2
<1>4. /\ ~ (m <= Len(completed[k])) /\ \A x \in Ranks : ~ (m <= calls[k][x])
  BY <1>3, NumbersInOrder DEF CollInv
<1>5. Present(k, m) /\ Closed
  BY DEF CollInv
<1>6. /\ \A e \in OwnEvents(k, m) : e \notin Added
      /\ \A x \in Ranks : StreamStart(k, m, x) \notin Added /\ StreamEnd(k, m, x) \notin Added
      /\ \A f \in Flows : FlowEvent(k, m, f) \notin Added
  BY <1>3, <1>4, <1>5 DEF Present, OwnEvents
<1>7. (OwnEvents(k, m) \cup StreamEvents(k, m, r)) \cap Added = {}
  BY <1>6 DEF StreamEvents
<1>8. /\ Added' = Added \cup OwnEvents(k, m) \cup StreamEvents(k, m, r)
      /\ \A e \in Added : deps'[e] = deps[e]
      /\ deps'[Barrier(k, m)] = {NoneDep}
      /\ deps'[StartMeta(k, m)] = {StreamStart(k, m, r)}
      /\ deps'[EndMeta(k, m)] = {StartMeta(k, m)}
      /\ deps'[StreamStart(k, m, r)] = tail[r][s] \cup {Barrier(k, m)}
      /\ deps'[StreamEnd(k, m, r)] = {StreamStart(k, m, r), EndMeta(k, m)}
  <2>1. IsOpened(deps', r, k, m, s)
    BY <1>2, <1>7, OpenedGraph
  <2>2. QED
    BY <2>1 DEF IsOpened, Added
<1>9. GraphFrame(k, m)
  <2>1. OwnEvents(k, m) \cup StreamEvents(k, m, r) \subseteq CollectiveEvents(k, m)
    BY DEF CollectiveEvents, StreamEvents
  <2>2. over \subseteq Added
    BY <1>5 DEF Closed
  <2>3. QED
    BY <1>8, <2>1, <2>2 DEF GraphFrame
<1>10. \A x \in Ranks \ {r} : /\ StreamStart(k, m, x) \notin Added'
                              /\ StreamEnd(k, m, x) \notin Added'
  <2>1. \A x \in Ranks \ {r} :
          /\ StreamStart(k, m, x) \notin OwnEvents(k, m) \cup StreamEvents(k, m, r)
          /\ StreamEnd(k, m, x) \notin OwnEvents(k, m) \cup StreamEvents(k, m, r)
    BY EventFields DEF OwnEvents, StreamEvents
  <2>2. QED
    BY <1>6, <1>8, <2>1
<1>11. \A f \in Flows : FlowEvent(k, m, f) \notin Added'
  <2>1. \A f \in Flows : FlowEvent(k, m, f) \notin OwnEvents(k, m) \cup StreamEvents(k, m, r)
    BY EventFields DEF OwnEvents, StreamEvents
  <2>2. QED
    BY <1>6, <1>8, <2>1
<1>12. \A x \in Ranks \ {r} : ~ (m <= calls'[k][x])
  BY <1>4
<1>13. /\ Barrier(k, m) \in Added' /\ StartMeta(k, m) \in Added' /\ EndMeta(k, m) \in Added'
       /\ StreamStart(k, m, r) \in Added' /\ StreamEnd(k, m, r) \in Added'
  BY <1>8 DEF OwnEvents, StreamEvents
<1>14. m <= created'[k] /\ ~ (m <= Len(completed'[k]))
  BY <1>1, <1>2, <1>4
<1>15. Present(k, m)'
  BY <1>1, <1>10, <1>11, <1>12, <1>13, <1>14 DEF Present
<1>16. Wired(k, m)'
  <2>1. ASSUME NEW x \in Ranks, m <= calls'[k][x]
        PROVE  /\ Barrier(k, m) \in deps'[StreamStart(k, m, x)]
               /\ StreamStart(k, m, x) \in deps'[StartMeta(k, m)]
               /\ {StreamStart(k, m, x), EndMeta(k, m)} \subseteq deps'[StreamEnd(k, m, x)]
    <3>1. x = r
      BY <1>12, <2>1
    <3>2. QED
      BY <1>8, <3>1
  <2>2. /\ \E x \in Ranks : m <= calls'[k][x]
        /\ StartMeta(k, m) \in deps'[EndMeta(k, m)]
        /\ NoneDep \in deps'[Barrier(k, m)]
    BY <1>1, <1>8
  <2>3. QED
    BY <1>14, <2>1, <2>2 DEF Wired
<1>17. QED
  BY <1>9, <1>15, <1>16

\* Joining the m-th collective while other ranks are missing.
LEMMA JoinKeepsGraph ==
  ASSUME CollInv, NEW r \in Ranks, NEW k \in Kinds, NEW s \in Streams,
         NEW m \in 1 .. MaxCalls, m = calls[k][r] + 1, calls'[k][r] = m,
         \A x \in Ranks \ {r} : calls'[k][x] = calls[k][x],
         JoinsNth(r, k, m, s)
  PROVE  GraphFrame(k, m) /\ Present(k, m)' /\ Wired(k, m)'
<1>1. /\ m \in Nat /\ Len(completed[k]) \in Nat /\ created[k] \in Nat
      /\ m <= calls'[k][r] /\ ~ (m <= calls[k][r])
  BY CallNumbers DEF CollInv
<1>2. /\ m > Len(completed[k]) /\ m <= created[k] /\ created'[k] = created[k]
      /\ Len(completed'[k]) = Len(completed[k])
      /\ deps' = JoinGraph(r, k, m, s)
  BY DEF JoinsNth
<1>3. /\ ~ (m <= Len(completed[k])) /\ ~ (m <= Len(completed'[k]))
      /\ m > Len(completed'[k]) /\ m <= created'[k]
  BY <1>1, <1>2
<1>4. Present(k, m) /\ Wired(k, m) /\ Closed
  BY DEF CollInv
<1>5. /\ Barrier(k, m) \in Added /\ StartMeta(k, m) \in Added /\ EndMeta(k, m) \in Added
      /\ StreamStart(k, m, r) \notin Added /\ StreamEnd(k, m, r) \notin Added
      /\ \A f \in Flows : FlowEvent(k, m, f) \notin Added
      /\ \A x \in Ranks : /\ m <= calls[k][x] <=> StreamStart(k, m, x) \in Added
                          /\ m <= calls[k][x] <=> StreamEnd(k, m, x) \in Added
  BY <1>1, <1>2, <1>3, <1>4 DEF Present
<1>6. /\ Added' = Added \cup StreamEvents(k, m, r)
      /\ \A e \in Added \ {StartMeta(k, m)} : deps'[e] = deps[e]
      /\ deps'[StartMeta(k, m)] = deps[StartMeta(k, m)] \cup {StreamStart(k, m, r)}
      /\ deps'[StreamStart(k, m, r)] = tail[r][s] \cup {Barrier(k, m)}
      /\ deps'[StreamEnd(k, m, r)] = {StreamStart(k, m, r), EndMeta(k, m)}
  <2>1. StreamEvents(k, m, r) \cap Added = {}
    BY <1>5 DEF StreamEvents
  <2>2. IsJoined(deps', r, k, m, s)
    BY <1>2, <1>5, <2>1, JoinedGraph
  <2>3. QED
    BY <2>2 DEF IsJoined, Added
<1>7. StartMeta(k, m) \notin over
  <2>1. over \cap CollectiveEvents(k, m) = {}
    BY <1>1, <1>2, <1>4, NothingEnded
  <2>2. QED
    BY <2>1 DEF CollectiveEvents, OwnEvents
<1>8. GraphFrame(k, m)
  <2>1. /\ StreamEvents(k, m, r) \subseteq CollectiveEvents(k, m)
        /\ StartMeta(k, m) \in CollectiveEvents(k, m)
    BY DEF CollectiveEvents, OwnEvents, StreamEvents
  <2>2. over \subseteq Added
    BY <1>4 DEF Closed
  <2>3. QED
    BY <1>6, <1>7, <2>1, <2>2 DEF GraphFrame
<1>9. \A x \in Ranks \ {r} : /\ StreamStart(k, m, x) \in Added' <=> StreamStart(k, m, x) \in Added
                             /\ StreamEnd(k, m, x) \in Added' <=> StreamEnd(k, m, x) \in Added
  <2>1. \A x \in Ranks \ {r} : /\ StreamStart(k, m, x) \notin StreamEvents(k, m, r)
                               /\ StreamEnd(k, m, x) \notin StreamEvents(k, m, r)
    BY EventFields DEF StreamEvents
  <2>2. QED
    BY <1>6, <2>1
<1>10. \A f \in Flows : FlowEvent(k, m, f) \notin Added'
  <2>1. \A f \in Flows : FlowEvent(k, m, f) \notin StreamEvents(k, m, r)
    BY EventFields DEF StreamEvents
  <2>2. QED
    BY <1>5, <1>6, <2>1
<1>11. StreamStart(k, m, r) \in Added' /\ StreamEnd(k, m, r) \in Added'
  BY <1>6 DEF StreamEvents
<1>12. \A x \in Ranks : /\ m <= calls'[k][x] <=> StreamStart(k, m, x) \in Added'
                        /\ m <= calls'[k][x] <=> StreamEnd(k, m, x) \in Added'
  <2>1. ASSUME NEW x \in Ranks
        PROVE  /\ m <= calls'[k][x] <=> StreamStart(k, m, x) \in Added'
               /\ m <= calls'[k][x] <=> StreamEnd(k, m, x) \in Added'
    <3>1. CASE x = r
      BY <1>1, <1>11, <3>1
    <3>2. CASE x # r
      BY <1>5, <1>9, <3>2
    <3>3. QED
      BY <3>1, <3>2
  <2>2. QED
    BY <2>1
<1>13. Present(k, m)'
  BY <1>2, <1>3, <1>5, <1>6, <1>10, <1>12 DEF Present
<1>14. /\ deps'[EndMeta(k, m)] = deps[EndMeta(k, m)]
       /\ deps'[Barrier(k, m)] = deps[Barrier(k, m)]
       /\ \A x \in Ranks : m <= calls[k][x] =>
            /\ deps'[StreamStart(k, m, x)] = deps[StreamStart(k, m, x)]
            /\ deps'[StreamEnd(k, m, x)] = deps[StreamEnd(k, m, x)]
  BY <1>5, <1>6, EventFields
<1>15. Wired(k, m)'
  <2>1. ASSUME NEW x \in Ranks, m <= calls'[k][x]
        PROVE  /\ Barrier(k, m) \in deps'[StreamStart(k, m, x)]
               /\ StreamStart(k, m, x) \in deps'[StartMeta(k, m)]
               /\ {StreamStart(k, m, x), EndMeta(k, m)} \subseteq deps'[StreamEnd(k, m, x)]
    <3>1. CASE x = r
      BY <1>6, <3>1
    <3>2. CASE x # r
      <4>1. m <= calls[k][x]
        BY <2>1, <3>2
      <4>2. QED
        BY <1>4, <1>6, <1>14, <4>1 DEF Wired
    <3>3. QED
      BY <3>1, <3>2
  <2>2. /\ \E x \in Ranks : m <= calls'[k][x]
        /\ StartMeta(k, m) \in deps'[EndMeta(k, m)]
        /\ NoneDep \in deps'[Barrier(k, m)]
    BY <1>1, <1>2, <1>4, <1>14 DEF Wired
  <2>3. QED
    BY <1>3, <2>1, <2>2 DEF Wired
<1>16. QED
  BY <1>8, <1>13, <1>15

\* Joining the m-th collective as the last rank.
LEMMA CompleteKeepsGraph ==
  ASSUME CollInv, NEW r \in Ranks, NEW k \in Kinds, NEW s \in Streams,
         NEW m \in 1 .. MaxCalls, m = calls[k][r] + 1, calls'[k][r] = m,
         \A x \in Ranks \ {r} : calls'[k][x] = calls[k][x],
         CompletesNth(r, k, m, s)
  PROVE  GraphFrame(k, m) /\ Present(k, m)' /\ Wired(k, m)'
<1>1. /\ m \in Nat /\ Len(completed[k]) \in Nat /\ created[k] \in Nat
      /\ m <= calls'[k][r] /\ ~ (m <= calls[k][r])
  BY CallNumbers DEF CollInv
<1>2. /\ m = Len(completed[k]) + 1 /\ m <= created[k] /\ created'[k] = created[k]
      /\ Len(completed'[k]) = m
      /\ \A x \in Ranks : m <= calls'[k][x]
      /\ deps' = CompleteGraph(r, k, m, s)
  BY DEF CompletesNth
<1>3. /\ ~ (m <= Len(completed[k])) /\ m > Len(completed[k])
      /\ m <= Len(completed'[k]) /\ ~ (m > Len(completed'[k])) /\ m <= created'[k]
  BY <1>1, <1>2
<1>4. Present(k, m) /\ Wired(k, m) /\ Closed
  BY DEF CollInv
<1>5. /\ Barrier(k, m) \in Added /\ StartMeta(k, m) \in Added /\ EndMeta(k, m) \in Added
      /\ StreamStart(k, m, r) \notin Added /\ StreamEnd(k, m, r) \notin Added
      /\ \A f \in Flows : FlowEvent(k, m, f) \notin Added
      /\ \A x \in Ranks : /\ m <= calls[k][x] <=> StreamStart(k, m, x) \in Added
                          /\ m <= calls[k][x] <=> StreamEnd(k, m, x) \in Added
  BY <1>1, <1>2, <1>3, <1>4 DEF Present
<1>6. /\ Added' = Added \cup StreamEvents(k, m, r) \cup FlowEvents(k, m)
      /\ \A e \in Added \ OwnEvents(k, m) : deps'[e] = deps[e]
      /\ deps'[StartMeta(k, m)] = deps[StartMeta(k, m)] \cup {StreamStart(k, m, r)}
      /\ deps'[EndMeta(k, m)] = deps[EndMeta(k, m)] \cup FlowEvents(k, m)
      /\ deps'[StreamStart(k, m, r)] = tail[r][s] \cup {Barrier(k, m)}
      /\ deps'[StreamEnd(k, m, r)] = {StreamStart(k, m, r), EndMeta(k, m)}
      /\ \A f \in Flows : deps'[FlowEvent(k, m, f)] = {StartMeta(k, m)}
  <2>1. (StreamEvents(k, m, r) \cup FlowEvents(k, m)) \cap Added = {}
    BY <1>5 DEF StreamEvents, FlowEvents
  <2>2. OwnEvents(k, m) \subseteq Added
    BY <1>5 DEF OwnEvents
  <2>3. IsCompleted(deps', r, k, m, s)
    BY <1>2, <2>1, <2>2, CompletedGraph
  <2>4. QED
    BY <2>3 DEF IsCompleted, Added
<1>7. \A e \in OwnEvents(k, m) : e \notin over
  <2>1. over \cap CollectiveEvents(k, m) = {}
    BY <1>1, <1>2, <1>3, <1>4, NothingEnded
  <2>2. QED
    BY <2>1 DEF CollectiveEvents
<1>8. GraphFrame(k, m)
  <2>1. /\ StreamEvents(k, m, r) \cup FlowEvents(k, m) \subseteq CollectiveEvents(k, m)
        /\ OwnEvents(k, m) \subseteq CollectiveEvents(k, m)
    BY DEF CollectiveEvents, StreamEvents
  <2>2. over \subseteq Added
    BY <1>4 DEF Closed
  <2>3. QED
    BY <1>6, <1>7, <2>1, <2>2 DEF GraphFrame
<1>9. \A x \in Ranks : StreamStart(k, m, x) \in Added' /\ StreamEnd(k, m, x) \in Added'
  <2>1. StreamStart(k, m, r) \in Added' /\ StreamEnd(k, m, r) \in Added'
    BY <1>6 DEF StreamEvents
  <2>2. \A x \in Ranks \ {r} : StreamStart(k, m, x) \in Added /\ StreamEnd(k, m, x) \in Added
    BY <1>2, <1>5
  <2>3. QED
    BY <1>6, <2>1, <2>2
<1>10. \A f \in Flows : FlowEvent(k, m, f) \in Added'
  BY <1>6 DEF FlowEvents
<1>11. Present(k, m)'
  BY <1>2, <1>3, <1>5, <1>6, <1>9, <1>10 DEF Present
<1>12. \A x \in Ranks \ {r} :
         /\ deps'[StreamStart(k, m, x)] = deps[StreamStart(k, m, x)]
         /\ deps'[StreamEnd(k, m, x)] = deps[StreamEnd(k, m, x)]
  <2>1. \A x \in Ranks : /\ StreamStart(k, m, x) \notin OwnEvents(k, m)
                         /\ StreamEnd(k, m, x) \notin OwnEvents(k, m)
    BY EventFields DEF OwnEvents
  <2>2. \A x \in Ranks \ {r} : StreamStart(k, m, x) \in Added /\ StreamEnd(k, m, x) \in Added
    BY <1>2, <1>5
  <2>3. QED
    BY <1>6, <2>1, <2>2
<1>13. Wired(k, m)'
  <2>1. ASSUME NEW x \in Ranks
        PROVE  /\ Barrier(k, m) \in deps'[StreamStart(k, m, x)]
               /\ StreamStart(k, m, x) \in deps'[StartMeta(k, m)]
               /\ {StreamStart(k, m, x), EndMeta(k, m)} \subseteq deps'[StreamEnd(k, m, x)]
    <3>1. CASE x = r
      BY <1>6, <3>1
    <3>2. CASE x # r
      <4>1. m <= calls[k][x]
        BY <1>2, <3>2
      <4>2. QED
        BY <1>4, <1>6, <1>12, <3>2, <4>1 DEF Wired
    <3>3. QED
      BY <3>1, <3>2
  <2>2. /\ \E x \in Ranks : m <= calls'[k][x]
        /\ StartMeta(k, m) \in deps'[EndMeta(k, m)]
    BY <1>1, <1>2, <1>4, <1>6 DEF Wired
  <2>3. \A f \in Flows : /\ StartMeta(k, m) \in deps'[FlowEvent(k, m, f)]
                         /\ FlowEvent(k, m, f) \in deps'[EndMeta(k, m)]
    BY <1>6 DEF FlowEvents
  <2>4. QED
    BY <1>3, <2>1, <2>2, <2>3 DEF Wired
<1>14. QED
  BY <1>8, <1>11, <1>13

\* A call keeps the invariant.
LEMMA CallKeepsCollInv ==
  ASSUME CollInv, NEW r \in Ranks, NEW k \in Kinds, NEW s \in Streams, NcclCall(r, k, s)
  PROVE  CollInv'
<1>1. PICK m : m = calls[k][r] + 1
  OBVIOUS
<1>2. CallInv /\ Numbered /\ Closed
  BY DEF CollInv
<1>3. /\ m \in 1 .. MaxCalls
      /\ calls'[k][r] = m /\ \A x \in Ranks \ {r} : calls'[k][x] = calls[k][x]
      /\ \A k2 \in Kinds \ {k} : /\ calls'[k2] = calls[k2] /\ created'[k2] = created[k2]
                                 /\ completed'[k2] = completed[k2]
      /\ Numbered'
      /\ OpensNth(r, k, m, s) \/ JoinsNth(r, k, m, s) \/ CompletesNth(r, k, m, s)
  BY <1>1, <1>2, CallCases
<1>4. CallInv'
  BY <1>2, CallKeeps
<1>5. GraphFrame(k, m) /\ Present(k, m)' /\ Wired(k, m)'
  <2>1. CASE OpensNth(r, k, m, s)
    BY <1>1, <1>3, <2>1, OpenKeepsGraph
  <2>2. CASE JoinsNth(r, k, m, s)
    BY <1>1, <1>3, <2>2, JoinKeepsGraph
  <2>3. CASE CompletesNth(r, k, m, s)
    BY <1>1, <1>3, <2>3, CompleteKeepsGraph
  <2>4. QED
    BY <1>3, <2>1, <2>2, <2>3
<1>6. over' = over
  BY DEF NcclCall
<1>7. Closed'
  <2>1. CollectiveEvents(k, m) \subseteq EventIds
    BY <1>3, EventsAssumption
  <2>2. QED
    BY <1>2, <1>5, <1>6, <2>1 DEF Closed, GraphFrame
<1>8. /\ m \in Nat /\ Len(completed[k]) \in Nat /\ created[k] \in Nat /\ calls[k][r] \in Nat
      /\ MaxCalls \in Nat
  BY <1>1, <1>2, <1>3, CallNumbers, RanksAssumption
<1>9. \/ created'[k] = created[k]
      \/ created'[k] = m /\ m = created[k] + 1
  BY <1>3 DEF OpensNth, JoinsNth, CompletesNth
<1>10. \/ Len(completed'[k]) = Len(completed[k])
       \/ Len(completed'[k]) = m /\ m = Len(completed[k]) + 1
  BY <1>3 DEF OpensNth, JoinsNth, CompletesNth
<1>11. \A k2 \in Kinds : created'[k2] <= MaxCalls
  <2>1. created'[k] <= MaxCalls
    BY <1>3, <1>8, <1>9 DEF CollInv
  <2>2. QED
    BY <1>3, <2>1 DEF CollInv
<1>12. ASSUME NEW k2 \in Kinds, NEW n2 \in 1 .. MaxCalls
       PROVE  Present(k2, n2)' /\ Wired(k2, n2)'
  <2>1. CASE k2 = k /\ n2 = m
    BY <1>5, <2>1
  <2>2. CASE k2 # k \/ n2 # m
    <3>1. /\ \A x \in Ranks : n2 <= calls'[k2][x] <=> n2 <= calls[k2][x]
          /\ n2 <= created'[k2] <=> n2 <= created[k2]
          /\ n2 <= Len(completed'[k2]) <=> n2 <= Len(completed[k2])
          /\ n2 > Len(completed'[k2]) <=> n2 > Len(completed[k2])
      <4>1. CASE k2 # k
        BY <1>3, <4>1
      <4>2. CASE k2 = k
        <5>1. n2 \in Nat /\ n2 # m
          BY <1>8, <2>2, <4>2
        <5>2. n2 <= calls'[k][r] <=> n2 <= calls[k][r]
          BY <1>1, <1>3, <1>8, <5>1
        <5>3. n2 <= created'[k] <=> n2 <= created[k]
          BY <1>8, <1>9, <5>1
        <5>4. /\ n2 <= Len(completed'[k]) <=> n2 <= Len(completed[k])
              /\ n2 > Len(completed'[k]) <=> n2 > Len(completed[k])
          <6> DEFINE D == Len(completed[k])  D2 == Len(completed'[k])
          <6>1. D \in Nat /\ (D2 = D \/ (D2 = m /\ m = D + 1))
            BY <1>8, <1>10
          <6> HIDE DEF D, D2
          <6>2. (n2 <= D2 <=> n2 <= D) /\ (n2 > D2 <=> n2 > D)
            BY <1>8, <5>1, <6>1
          <6>3. QED
            BY <6>2 DEF D, D2
        <5>5. QED
          BY <1>3, <4>2, <5>2, <5>3, <5>4
      <4>3. QED
        BY <4>1, <4>2
    <3>2. Present(k2, n2) /\ Wired(k2, n2)
      BY DEF CollInv
    <3>3. QED
      BY <1>2, <1>3, <1>5, <2>2, <3>1, <3>2, OthersKeep
  <2>3. QED
    BY <2>1, <2>2
<1>13. QED
  BY <1>3, <1>4, <1>7, <1>11, <1>12 DEF CollInv

\* Ending an event keeps the invariant: it can end only when everything it
\* depends on has.
LEMMA ExecuteKeepsCollInv == CollInv /\ Execute => CollInv'
<1> SUFFICES ASSUME CollInv, Execute PROVE CollInv'
  OBVIOUS
<1>1. PICK e \in Added : EndOf(e) /\ UNCHANGED ccVars
  BY DEF Execute
<1>2. /\ deps' = deps /\ over' = over \cup {e} /\ deps[e] \subseteq over
      /\ UNCHANGED <<waitings, created, tail, calls, completed>>
  BY <1>1 DEF EndOf, Ready, ccVars
<1>3. CallInv'
  BY <1>2, StepInv DEF CollInv, Next, Execute
<1>4. Closed'
  BY <1>1, <1>2 DEF CollInv, Closed, Added
<1>5. Numbered' /\ \A k \in Kinds : created'[k] <= MaxCalls
  BY <1>2 DEF CollInv, Numbered
<1>6. \A k \in Kinds, n \in 1 .. MaxCalls : Present(k, n)' /\ Wired(k, n)'
  BY <1>2 DEF CollInv, Present, Wired, Added
<1>7. QED
  BY <1>3, <1>4, <1>5, <1>6 DEF CollInv

\* What is known of the calls and of the graph holds in every state.
THEOREM CollectiveInvariant == Spec => []CollInv
<1>1. Init => CollInv
  <2> SUFFICES ASSUME Init PROVE CollInv
    OBVIOUS
  <2>1. CallInv
    BY InitInv
  <2>2. /\ deps = << >> /\ over = {} /\ Added = {}
        /\ \A k \in Kinds : /\ waitings[k] = << >> /\ created[k] = 0 /\ completed[k] = << >>
                            /\ \A r \in Ranks : calls[k][r] = 0
    BY DEF Init, GraphInit, Added
  <2>3. /\ Numbered /\ \A k \in Kinds : created[k] <= MaxCalls
    <3>1. ASSUME NEW k \in Kinds
          PROVE  /\ created[k] = Len(completed[k]) + Len(waitings[k])
                 /\ \A i \in 1 .. Len(waitings[k]) :
                      waitings[k][i].n = Len(completed[k]) + i
                 /\ created[k] <= MaxCalls
      <4>1. Len(waitings[k]) = 0 /\ Len(completed[k]) = 0 /\ created[k] = 0
        BY <2>2
      <4>2. QED
        BY <4>1, RanksAssumption
    <3>2. QED
      BY <3>1 DEF Numbered
  <2>4. Closed
    BY <2>2 DEF Closed
  <2>5. ASSUME NEW k \in Kinds, NEW n \in 1 .. MaxCalls
        PROVE  Present(k, n) /\ Wired(k, n)
    <3>1. /\ ~ (n <= created[k]) /\ ~ (n <= Len(completed[k]))
          /\ \A r \in Ranks : ~ (n <= calls[k][r])
      BY <2>2
    <3>2. QED
      BY <2>2, <3>1 DEF Present, Wired
  <2>6. QED
    BY <2>1, <2>3, <2>4, <2>5 DEF CollInv
<1>2. CollInv /\ [Next]_vars => CollInv'
  <2> SUFFICES ASSUME CollInv, [Next]_vars PROVE CollInv'
    OBVIOUS
  <2>1. ASSUME NEW r \in Ranks, NEW k \in Kinds, NEW s \in Streams, NcclCall(r, k, s)
        PROVE  CollInv'
    BY <2>1, CallKeepsCollInv
  <2>2. CASE Execute
    BY <2>2, ExecuteKeepsCollInv
  <2>3. CASE UNCHANGED vars
    <3>1. UNCHANGED <<deps, over, waitings, created, tail, calls, completed>>
      BY <2>3 DEF vars, graphVars, ccVars
    <3>2. CallInv'
      BY <2>3, StepInv DEF CollInv
    <3>3. Closed'
      BY <3>1 DEF CollInv, Closed, Added
    <3>4. Numbered' /\ \A k \in Kinds : created'[k] <= MaxCalls
      BY <3>1 DEF CollInv, Numbered
    <3>5. \A k \in Kinds, n \in 1 .. MaxCalls : Present(k, n)' /\ Wired(k, n)'
      BY <3>1 DEF CollInv, Present, Wired, Added
    <3>6. QED
      BY <3>2, <3>3, <3>4, <3>5 DEF CollInv
  <2>4. QED
    BY <2>1, <2>2, <2>3 DEF Next
<1>3. QED
  BY <1>1, <1>2, PTL DEF Spec

\* Whatever the interleaving of calls and of execution, no event of a collective
\* ends before its last rank has joined, so that joining finds the two meta
\* points and the barrier still pending.
THEOREM WaitingHeld == Spec => []WaitingIsHeld
<1>1. CollInv => WaitingIsHeld
  <2> SUFFICES ASSUME CollInv, NEW k \in Kinds, NEW i \in 1 .. Len(waitings[k])
               PROVE  over \cap ({Barrier(k, waitings[k][i].n), StartMeta(k, waitings[k][i].n),
                                  EndMeta(k, waitings[k][i].n)}
                        \cup {StreamStart(k, waitings[k][i].n, r) : r \in Ranks}
                        \cup {StreamEnd(k, waitings[k][i].n, r) : r \in Ranks}) = {}
    BY DEF WaitingIsHeld
  <2>1. PICK n : n = waitings[k][i].n
    OBVIOUS
  <2> DEFINE D == Len(completed[k])  L == Len(waitings[k])
  <2>2. n = D + i /\ created[k] = D + L /\ created[k] <= MaxCalls
    BY <2>1 DEF CollInv, Numbered
  <2>3. D \in Nat /\ L \in Nat /\ created[k] \in Nat /\ MaxCalls \in Nat
    BY Counts, RanksAssumption DEF CollInv
  <2>4. n \in 1 .. MaxCalls /\ n <= created[k] /\ n > D
    <3>1. i \in 1 .. L
      OBVIOUS
    <3> HIDE DEF D, L
    <3>2. QED
      BY <2>2, <2>3, <3>1
  <2>5. Present(k, n) /\ Wired(k, n) /\ Closed
    BY <2>4 DEF CollInv
  <2>6. over \cap CollectiveEvents(k, n) = {}
    BY <2>3, <2>4, <2>5, NothingEnded
  <2>7. QED
    BY <2>1, <2>6 DEF CollectiveEvents, OwnEvents
<1>2. QED
  BY <1>1, CollectiveInvariant, PTL

\* A collective's flows lie between every rank's arrival at the call and every
\* rank's departure from it.
THEOREM FlowsBetween == Spec => []FlowsBetweenStreams
<1>1. CollInv => FlowsBetweenStreams
  <2> SUFFICES ASSUME CollInv, NEW k \in Kinds, NEW n \in 1 .. created[k]
               PROVE  /\ \A f \in Flows : FlowEvent(k, n, f) \in over =>
                           \A r \in Ranks : StreamStart(k, n, r) \in over
                      /\ \A r \in Ranks : StreamEnd(k, n, r) \in over =>
                           \A f \in Flows : FlowEvent(k, n, f) \in over
    BY DEF FlowsBetweenStreams
  <2> DEFINE D == Len(completed[k])
  <2>1. /\ D \in Nat /\ created[k] \in Nat /\ MaxCalls \in Nat /\ created[k] <= MaxCalls
        /\ \A r \in Ranks : calls[k][r] \in Nat /\ D <= calls[k][r]
    BY Counts, RanksAssumption DEF CollInv
  <2>2. n \in 1 .. MaxCalls /\ n \in Nat /\ n <= created[k]
    BY <2>1
  <2>3. Present(k, n) /\ Wired(k, n)
    BY <2>2 DEF CollInv
  <2>4. \A e \in over : e \in Added /\ deps[e] \subseteq over
    BY DEF CollInv, Closed
  <2>5. CASE n <= D
    <3>1. \A r \in Ranks : n <= calls[k][r]
      <4> HIDE DEF D
      <4>1. QED
        BY <2>1, <2>2, <2>5
    <3>2. ASSUME NEW f \in Flows, FlowEvent(k, n, f) \in over, NEW r \in Ranks
          PROVE  StreamStart(k, n, r) \in over
      <4>1. StartMeta(k, n) \in over
        BY <2>3, <2>4, <2>5, <3>2 DEF Wired
      <4>2. QED
        BY <2>3, <2>4, <3>1, <4>1 DEF Wired
    <3>3. ASSUME NEW r \in Ranks, StreamEnd(k, n, r) \in over, NEW f \in Flows
          PROVE  FlowEvent(k, n, f) \in over
      <4>1. EndMeta(k, n) \in over
        BY <2>3, <2>4, <3>1, <3>3 DEF Wired
      <4>2. QED
        BY <2>3, <2>4, <2>5, <4>1 DEF Wired
    <3>4. QED
      BY <3>2, <3>3
  <2>6. CASE n > D
    <3>1. over \cap CollectiveEvents(k, n) = {}
      <4>1. Closed
        BY DEF CollInv
      <4>2. QED
        BY <2>1, <2>2, <2>3, <2>6, <4>1, NothingEnded
    <3>2. QED
      BY <3>1 DEF CollectiveEvents, FlowEvents
  <2>7. QED
    BY <2>1, <2>2, <2>5, <2>6
<1>2. QED
  BY <1>1, CollectiveInvariant, PTL
====

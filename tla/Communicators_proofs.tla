------------------------ MODULE Communicators_proofs ------------------------
(***************************************************************************)
(* For any hosts, any number and width of the digits of an id, any         *)
(* colours, keys and bounds, and however calls are grouped: ids do not     *)
(* repeat until all have been used, and what the hosts are told of their   *)
(* communicators is what the simulator knows, while ids do not repeat.     *)
(*                                                                         *)
(* An id is followed by its successor.  So the first id that comes again   *)
(* closes a set of ids that has every successor, and the zero id: that is  *)
(* all of them, since the digits of an id outside it could be counted down *)
(* to zero.                                                                *)
(*                                                                         *)
(* A host takes replies without knowing their calls.  That it knows no     *)
(* more than the simulator once it has taken all rests on their number: it *)
(* awaits no fewer replies than there are calls of its on the way, replies *)
(* on the way, and half-formed communicators it has joined.                *)
(***************************************************************************)
EXTENDS Communicators, FiniteSetTheorems, TLAPS

-----------------------------------------------------------------------------
(***************************************************************************)
(* Ids                                                                     *)
(***************************************************************************)

\* A nonempty set of natural numbers has a least element.
LEMMA LeastNumber ==
  ASSUME NEW T \in SUBSET Nat, T # {}
  PROVE  \E m \in T : \A n \in T : m <= n
<1>1. PICK m \in T : \A n \in T : ~ (<<n, m>> \in OpToRel(<, Nat))
  BY NatLessThanWellFounded, WFMin
<1>2. \A n \in T : n < m => <<n, m>> \in OpToRel(<, Nat)
  BY DEF OpToRel
<1>3. \A n \in T : n \in Nat /\ m \in Nat /\ ~ (n < m)
  BY <1>1, <1>2
<1>4. \A n \in T : m <= n
  BY <1>3
<1>5. QED
  BY <1>4

\* The successor of an id is an id, and the zero id is one.
LEMMA IncrType ==
  /\ ZeroId \in IdSpace
  /\ \A id \in IdSpace : Incr(id) \in IdSpace
<1>1. Base \in Nat /\ Base > 1 /\ Digits \in Nat
  BY CommunicatorsAssumption
<1>2. ZeroId \in IdSpace
  BY <1>1 DEF ZeroId, IdSpace
<1>3. ASSUME NEW id \in IdSpace
      PROVE  Incr(id) \in IdSpace
  <2> DEFINE full(i) == \A j \in 1 .. i : id[j] = Base - 1
             next(i) == IF full(i) THEN 0 ELSE IF full(i - 1) THEN id[i] + 1 ELSE id[i]
  <2>1. \A i \in 1 .. Digits : id[i] \in 0 .. Base - 1
    BY DEF IdSpace
  <2>2. ASSUME NEW i \in 1 .. Digits
        PROVE  next(i) \in 0 .. Base - 1
    <3>1. CASE full(i)
      BY <1>1, <3>1
    <3>2. CASE ~ full(i) /\ full(i - 1)
      <4>1. PICK j \in 1 .. i : id[j] # Base - 1
        BY <3>2
      <4>2. j \notin 1 .. i - 1
        BY <3>2, <4>1
      <4>3. j = i
        BY <4>1, <4>2
      <4>4. id[i] # Base - 1
        BY <4>1, <4>3
      <4>5. id[i] + 1 \in 0 .. Base - 1
        BY <1>1, <2>1, <4>4
      <4>6. QED
        BY <3>2, <4>5
    <3>3. CASE ~ full(i) /\ ~ full(i - 1)
      BY <2>1, <3>3
    <3>4. QED
      BY <3>1, <3>2, <3>3
  <2>3. Incr(id) = [i \in 1 .. Digits |-> next(i)]
    BY DEF Incr
  <2>4. QED
    BY <2>2, <2>3 DEF IdSpace
<1>4. QED
  BY <1>2, <1>3

\* The id before one whose first digit that is not zero is digit k.
LEMMA IdBefore ==
  ASSUME NEW id \in IdSpace, NEW k \in 1 .. Digits, id[k] # 0,
         \A j \in 1 .. k - 1 : id[j] = 0
  PROVE  \E pre \in IdSpace : /\ Incr(pre) = id /\ pre[k] = id[k] - 1
                              /\ \A j \in k + 1 .. Digits : pre[j] = id[j]
<1>1. Base \in Nat /\ Base > 1 /\ Digits \in Nat
  BY CommunicatorsAssumption
<1>2. PICK pre : pre = [j \in 1 .. Digits |-> IF j < k THEN Base - 1
                                              ELSE IF j = k THEN id[k] - 1 ELSE id[j]]
  OBVIOUS
<1>3. \A j \in 1 .. Digits : id[j] \in 0 .. Base - 1
  BY DEF IdSpace
<1>4. id[k] - 1 \in 0 .. Base - 2
  BY <1>1, <1>3
<1>5. pre \in IdSpace
  BY <1>1, <1>2, <1>3, <1>4 DEF IdSpace
<1> DEFINE full(i) == \A j \in 1 .. i : pre[j] = Base - 1
<1>6. \A i \in 1 .. Digits : full(i) <=> i < k
  <2>1. ASSUME NEW i \in 1 .. Digits, i < k
        PROVE  full(i)
    <3>1. ASSUME NEW j \in 1 .. i
          PROVE  pre[j] = Base - 1
      <4>1. j \in 1 .. Digits /\ j < k
        BY <1>1, <2>1
      <4>2. QED
        BY <1>2, <4>1
    <3>2. QED
      BY <3>1
  <2>2. ASSUME NEW i \in 1 .. Digits, ~ (i < k)
        PROVE  ~ full(i)
    <3>1. k \in 1 .. i
      BY <2>2
    <3>2. pre[k] # Base - 1
      BY <1>1, <1>2, <1>4
    <3>3. QED
      BY <3>1, <3>2
  <2>3. QED
    BY <2>1, <2>2
<1>7. ASSUME NEW i \in 1 .. Digits
      PROVE  (IF full(i) THEN 0 ELSE IF full(i - 1) THEN pre[i] + 1 ELSE pre[i]) = id[i]
  <2>1. CASE i < k
    BY <1>6, <2>1
  <2>2. CASE i = k
    <3>1. ~ full(i)
      BY <1>6, <2>2
    <3>2. full(i - 1)
      <4>1. ASSUME NEW j \in 1 .. i - 1
            PROVE  pre[j] = Base - 1
        <5>1. j \in 1 .. Digits /\ j < k
          BY <1>1, <2>2
        <5>2. QED
          BY <1>2, <5>1
      <4>2. QED
        BY <4>1
    <3>3. pre[i] + 1 = id[i]
      BY <1>1, <1>2, <1>4, <2>2, <1>3
    <3>4. QED
      BY <3>1, <3>2, <3>3
  <2>3. CASE i > k
    <3>1. ~ full(i)
      BY <1>6, <2>3
    <3>2. ~ full(i - 1)
      <4>1. i - 1 \in 1 .. Digits /\ ~ (i - 1 < k)
        BY <1>1, <2>3
      <4>2. QED
        BY <1>6, <4>1
    <3>3. pre[i] = id[i]
      BY <1>2, <2>3
    <3>4. QED
      BY <3>1, <3>2, <3>3
  <2>4. QED
    BY <2>1, <2>2, <2>3
<1>8. Incr(pre) = [i \in 1 .. Digits |->
                     IF full(i) THEN 0 ELSE IF full(i - 1) THEN pre[i] + 1 ELSE pre[i]]
  BY DEF Incr
<1>9. Incr(pre) = id
  BY <1>7, <1>8 DEF IdSpace
<1>10. pre[k] = id[k] - 1 /\ \A j \in k + 1 .. Digits : pre[j] = id[j]
  BY <1>1, <1>2
<1>11. QED
  BY <1>5, <1>9, <1>10

\* In the set T, the first k digits of an id can be counted down to zero.
CountsDown(T, k) ==
  \A id \in T : \E x \in T : /\ \A j \in 1 .. k : x[j] = 0
                             /\ \A j \in k + 1 .. Digits : x[j] = id[j]

\* If T holds the id before every id in it, one digit more can be counted down.
LEMMA CountsDownMore ==
  ASSUME NEW T \in SUBSET IdSpace, NEW k \in Nat, k < Digits, CountsDown(T, k),
         \A pre \in IdSpace : Incr(pre) \in T => pre \in T
  PROVE  CountsDown(T, k + 1)
<1>1. Base \in Nat /\ Digits \in Nat /\ k + 1 \in 1 .. Digits
  BY CommunicatorsAssumption
<1>2. ASSUME NEW id \in T
      PROVE  \E x \in T : /\ \A j \in 1 .. k + 1 : x[j] = 0
                          /\ \A j \in k + 1 + 1 .. Digits : x[j] = id[j]
  <2> DEFINE Alike == {x \in T : \A j \in k + 1 + 1 .. Digits : x[j] = id[j]}
             D     == {x[k + 1] : x \in Alike}
  <2>1. D \in SUBSET Nat /\ D # {}
    <3>1. \A x \in T : x[k + 1] \in Nat
      BY <1>1 DEF IdSpace
    <3>2. id \in Alike
      OBVIOUS
    <3>3. QED
      BY <3>1, <3>2
  <2>2. PICK m \in D : m \in Nat /\ \A n \in D : m <= n
    BY <2>1, LeastNumber
  <2>3. PICK x \in Alike : x[k + 1] = m
    OBVIOUS
  <2>4. PICK y \in T : /\ \A j \in 1 .. k : y[j] = 0
                       /\ \A j \in k + 1 .. Digits : y[j] = x[j]
    BY <2>3 DEF CountsDown
  <2>5. y[k + 1] = m
    BY <1>1, <2>3, <2>4
  <2>6. \A j \in k + 1 + 1 .. Digits : y[j] = id[j]
    BY <1>1, <2>3, <2>4
  <2>7. y[k + 1] = 0
    <3> SUFFICES ASSUME y[k + 1] # 0 PROVE FALSE
      OBVIOUS
    <3>1. \A j \in 1 .. (k + 1) - 1 : y[j] = 0
      BY <2>4
    <3>2. PICK pre \in IdSpace : /\ Incr(pre) = y /\ pre[k + 1] = y[k + 1] - 1
                                 /\ \A j \in (k + 1) + 1 .. Digits : pre[j] = y[j]
      BY <1>1, <3>1, IdBefore
    <3>3. pre \in T
      BY <3>2
    <3>4. pre \in Alike
      BY <2>6, <3>2, <3>3
    <3>5. pre[k + 1] \in D
      BY <3>4
    <3>6. m <= m - 1
      BY <2>2, <2>5, <3>2, <3>5
    <3>7. QED
      BY <2>2, <3>6
  <2>8. \A j \in 1 .. k + 1 : y[j] = 0
    BY <2>4, <2>7
  <2>9. QED
    BY <2>6, <2>8
<1>3. QED
  BY <1>2 DEF CountsDown

\* A set that holds the zero id and the successor of every id in it holds all ids.
LEMMA IncrReachesAll ==
  ASSUME NEW S, ZeroId \in S, \A id \in IdSpace : id \in S => Incr(id) \in S
  PROVE  IdSpace \subseteq S
<1>1. Digits \in Nat
  BY CommunicatorsAssumption
<1>2. PICK T : T = IdSpace \ S
  OBVIOUS
<1>3. T \in SUBSET IdSpace /\ \A pre \in IdSpace : Incr(pre) \in T => pre \in T
  BY <1>2
<1> DEFINE Bad == {k \in Nat : k <= Digits /\ ~ CountsDown(T, k)}
<1>4. Bad = {}
  <2> SUFFICES ASSUME Bad # {} PROVE FALSE
    OBVIOUS
  <2>1. PICK k \in Bad : \A n \in Bad : k <= n
    BY LeastNumber
  <2>2. CountsDown(T, 0)
    BY <1>1, <1>3 DEF CountsDown
  <2>3. k # 0 /\ k \in Nat /\ k <= Digits
    BY <2>2
  <2>4. k - 1 \in Nat /\ k - 1 < Digits
    BY <1>1, <2>3
  <2>5. CountsDown(T, k - 1)
    BY <1>1, <2>1, <2>3, <2>4
  <2>6. CountsDown(T, (k - 1) + 1)
    BY <1>3, <2>4, <2>5, CountsDownMore
  <2>7. QED
    BY <2>3, <2>6
<1>5. CountsDown(T, Digits)
  BY <1>1, <1>4
<1>6. ASSUME NEW id \in T
      PROVE  FALSE
  <2>1. PICK x \in T : \A j \in 1 .. Digits : x[j] = 0
    BY <1>5, <1>6 DEF CountsDown
  <2>2. x = ZeroId
    BY <1>3, <2>1 DEF IdSpace, ZeroId
  <2>3. QED
    BY <1>2, <2>1, <2>2
<1>7. QED
  BY <1>2, <1>6

-----------------------------------------------------------------------------
(***************************************************************************)
(* What is handed out                                                      *)
(***************************************************************************)

\* g is what n steps from the id uid lead through.
AfterTo(g, n) == \A k \in 0 .. n : g[k] = IF k = 0 THEN uid ELSE Incr(g[k - 1])

AfterAll(g, n) == g = [k \in 0 .. n |-> IF k = 0 THEN uid ELSE Incr(g[k - 1])]

\* The function that Later is defined by exists.
LEMMA LaterExists ==
  ASSUME NEW n \in Nat
  PROVE  \E g : AfterAll(g, n)
<1> DEFINE Good(k) == \E g : AfterTo(g, k)
           Bad     == {k \in Nat : ~ Good(k)}
<1>1. Good(0)
  <2>1. AfterTo([k \in 0 .. 0 |-> uid], 0)
    BY DEF AfterTo
  <2>2. QED
    BY <2>1
<1>2. ASSUME NEW k \in Nat, Good(k) PROVE Good(k + 1)
  <2>1. PICK g : AfterTo(g, k)
    BY <1>2
  <2>2. PICK f : f = [i \in 0 .. k + 1 |-> IF i = 0 THEN uid ELSE Incr(g[i - 1])]
    OBVIOUS
  <2>3. \A i \in 0 .. k : f[i] = g[i]
    BY <2>1, <2>2 DEF AfterTo
  <2>4. ASSUME NEW i \in 0 .. k + 1
        PROVE  f[i] = IF i = 0 THEN uid ELSE Incr(f[i - 1])
    <3>1. CASE i = 0
      BY <2>2, <3>1
    <3>2. CASE i # 0
      <4>1. i - 1 \in 0 .. k
        BY <3>2
      <4>2. f[i - 1] = g[i - 1]
        BY <2>3, <4>1
      <4>3. QED
        BY <2>2, <3>2, <4>2
    <3>3. QED
      BY <3>1, <3>2
  <2>5. AfterTo(f, k + 1)
    BY <2>4 DEF AfterTo
  <2>6. QED
    BY <2>5
<1> HIDE DEF Good
<1>3. Bad = {}
  <2> SUFFICES ASSUME Bad # {} PROVE FALSE
    OBVIOUS
  <2>1. PICK m \in Bad : \A k \in Bad : m <= k
    BY LeastNumber
  <2>2. m # 0 /\ m \in Nat
    BY <1>1
  <2>3. m - 1 \in Nat /\ ~ Good(m)
    BY <2>2
  <2>4. Good(m - 1)
    BY <2>1, <2>3
  <2>5. Good((m - 1) + 1)
    BY <1>2, <2>3, <2>4
  <2>6. QED
    BY <2>2, <2>3, <2>5
<1>4. PICK g : AfterTo(g, n)
  BY <1>3 DEF Good
<1>5. PICK f : f = [k \in 0 .. n |-> g[k]]
  OBVIOUS
<1>6. \A k \in 0 .. n : f[k] = IF k = 0 THEN uid ELSE Incr(f[k - 1])
  <2>1. \A k \in 0 .. n : k # 0 => k - 1 \in 0 .. n
    OBVIOUS
  <2>2. \A k \in 0 .. n : k # 0 => f[k - 1] = g[k - 1]
    BY <1>5, <2>1
  <2>3. QED
    BY <1>4, <1>5, <2>2 DEF AfterTo
<1>7. AfterAll(f, n)
  BY <1>5, <1>6 DEF AfterAll
<1>8. QED
  BY <1>7

\* Later is what one such function ends with.
LEMMA LaterIs ==
  ASSUME NEW n \in Nat
  PROVE  \E g : AfterTo(g, n) /\ Later(n) = g[n]
<1>1. PICK g : g = CHOOSE f : AfterAll(f, n)
  OBVIOUS
<1>2. AfterAll(g, n)
  BY <1>1, LaterExists
<1>3. AfterTo(g, n)
  BY <1>2 DEF AfterAll, AfterTo
<1>4. Later(n) = g[n]
  BY <1>1 DEF Later, AfterAll
<1>5. QED
  BY <1>3, <1>4

\* There is only one.
LEMMA AfterSame ==
  ASSUME NEW n \in Nat, NEW m \in Nat, n <= m, NEW f, NEW g, AfterTo(f, n), AfterTo(g, m)
  PROVE  f[n] = g[n]
<1> DEFINE Bad == {k \in Nat : k <= n /\ f[k] # g[k]}
<1>1. Bad = {}
  <2> SUFFICES ASSUME Bad # {} PROVE FALSE
    OBVIOUS
  <2>1. PICK k \in Bad : k \in Nat /\ k <= n /\ f[k] # g[k] /\ \A i \in Bad : k <= i
    BY LeastNumber
  <2>2. k \in 0 .. n /\ k \in 0 .. m
    BY <2>1
  <2>3. k # 0
    BY <2>1, <2>2 DEF AfterTo
  <2>4. k - 1 \in Nat /\ k - 1 <= n /\ ~ (k <= k - 1)
    BY <2>1, <2>3
  <2>5. f[k - 1] = g[k - 1]
    BY <2>1, <2>4
  <2>6. f[k] = Incr(f[k - 1]) /\ g[k] = Incr(g[k - 1])
    BY <2>2, <2>3 DEF AfterTo
  <2>7. QED
    BY <2>1, <2>5, <2>6
<1>2. QED
  BY <1>1

\* Each of the ids to come is the successor of the one before.
LEMMA LaterSteps ==
  ASSUME uid \in IdSpace
  PROVE  /\ Later(0) = uid
         /\ \A n \in Nat : Later(n + 1) = Incr(Later(n))
         /\ \A n \in Nat : Later(n) \in IdSpace
<1>1. Later(0) = uid
  <2>1. PICK g : AfterTo(g, 0) /\ Later(0) = g[0]
    BY LaterIs
  <2>2. QED
    BY <2>1 DEF AfterTo
<1>2. ASSUME NEW n \in Nat
      PROVE  Later(n + 1) = Incr(Later(n))
  <2>1. PICK f : AfterTo(f, n) /\ Later(n) = f[n]
    BY LaterIs
  <2>2. PICK m \in Nat : m = n + 1
    OBVIOUS
  <2>3. PICK g : AfterTo(g, m) /\ Later(m) = g[m]
    BY LaterIs
  <2>4. f[n] = g[n]
    BY <2>1, <2>2, <2>3, AfterSame
  <2>5. m \in 0 .. m /\ m # 0 /\ m - 1 = n
    BY <2>2
  <2>6. g[m] = Incr(g[n])
    BY <2>3, <2>5 DEF AfterTo
  <2>7. QED
    BY <2>1, <2>2, <2>3, <2>4, <2>6
<1> DEFINE Bad == {n \in Nat : Later(n) \notin IdSpace}
<1>3. Bad = {}
  <2> SUFFICES ASSUME Bad # {} PROVE FALSE
    OBVIOUS
  <2>1. PICK n \in Bad : n \in Nat /\ Later(n) \notin IdSpace /\ \A i \in Bad : n <= i
    BY LeastNumber
  <2>2. n # 0
    BY <1>1, <2>1
  <2>3. PICK m \in Nat : m + 1 = n
    <3>1. n - 1 \in Nat /\ (n - 1) + 1 = n
      BY <2>1, <2>2
    <3>2. QED
      BY <3>1
  <2>4. Later(m) \in IdSpace
    BY <2>1, <2>3
  <2>5. Later(n) = Incr(Later(m))
    BY <1>2, <2>3
  <2>6. QED
    BY <2>1, <2>4, <2>5, IncrType
<1>4. QED
  BY <1>1, <1>2, <1>3

\* The ids handed out, and the one to come, follow one another from the zero id.
Nth(i) == IF i <= Len(issued) THEN issued[i] ELSE uid

IssuedInv ==
  /\ issued \in Seq(IdSpace) /\ uid \in IdSpace
  /\ Nth(1) = ZeroId
  /\ \A i \in 1 .. Len(issued) : Nth(i + 1) = Incr(issued[i])

\* p is handed out in one go, and v is the id to come.
IssuedOn(p, v) ==
  /\ p \in Seq(IdSpace) /\ v \in IdSpace
  /\ (IF 1 <= Len(p) THEN p[1] ELSE v) = uid
  /\ \A i \in 1 .. Len(p) : (IF i + 1 <= Len(p) THEN p[i + 1] ELSE v) = Incr(p[i])

LEMMA IssueKeeps ==
  ASSUME IssuedInv, NEW p, NEW v, IssuedOn(p, v), issued' = issued \o p, uid' = v
  PROVE  IssuedInv'
<1>1. PICK n \in Nat : n = Len(issued)
  BY DEF IssuedInv
<1>2. PICK k \in Nat : k = Len(p)
  BY DEF IssuedOn
<1>3. PICK s : s = issued \o p
  OBVIOUS
<1>4. /\ s \in Seq(IdSpace) /\ Len(s) = n + k
      /\ \A i \in 1 .. n : s[i] = issued[i]
      /\ \A i \in 1 .. k : s[n + i] = p[i]
  <2>1. s \in Seq(IdSpace) /\ Len(s) = n + k
    BY <1>1, <1>2, <1>3 DEF IssuedInv, IssuedOn
  <2>2. \A i \in 1 .. n + k : s[i] = IF i <= n THEN issued[i] ELSE p[i - n]
    BY <1>1, <1>2, <1>3 DEF IssuedInv, IssuedOn
  <2>3. \A i \in 1 .. k : n + i \in 1 .. n + k /\ ~ (n + i <= n) /\ (n + i) - n = i
    BY <1>1, <1>2
  <2>4. QED
    BY <2>1, <2>2, <2>3
<1> DEFINE at(i) == IF i <= n + k THEN s[i] ELSE v
<1>5. at(n + 1) = uid
  <2>1. CASE k = 0
    BY <1>2, <2>1 DEF IssuedOn
  <2>2. CASE k # 0
    <3>1. 1 \in 1 .. k /\ n + 1 <= n + k /\ 1 <= k
      BY <2>2
    <3>2. at(n + 1) = p[1]
      BY <1>4, <3>1
    <3>3. QED
      BY <1>2, <3>1, <3>2 DEF IssuedOn
  <2>3. QED
    BY <2>1, <2>2
<1>6. at(1) = ZeroId
  <2>1. CASE n = 0
    <3>1. ZeroId = uid
      BY <1>1, <2>1 DEF IssuedInv, Nth
    <3>2. QED
      BY <1>5, <2>1, <3>1
  <2>2. CASE n # 0
    <3>1. 1 <= n + k /\ 1 \in 1 .. n /\ 1 <= n
      BY <2>2
    <3>2. QED
      BY <1>1, <1>4, <3>1 DEF IssuedInv, Nth
  <2>3. QED
    BY <2>1, <2>2
<1>7. ASSUME NEW i \in 1 .. n + k
      PROVE  at(i + 1) = Incr(s[i])
  <2>1. CASE i < n
    <3>1. i \in 1 .. n /\ i + 1 \in 1 .. n /\ i + 1 <= n + k /\ i + 1 <= n
      BY <2>1
    <3>2. at(i + 1) = issued[i + 1] /\ s[i] = issued[i]
      BY <1>4, <3>1
    <3>3. QED
      BY <1>1, <3>1, <3>2 DEF IssuedInv, Nth
  <2>2. CASE i = n
    <3>1. i \in 1 .. n /\ ~ (i + 1 <= n)
      BY <2>2
    <3>2. s[i] = issued[i] /\ Incr(issued[i]) = uid
      BY <1>1, <1>4, <3>1 DEF IssuedInv, Nth
    <3>3. QED
      BY <1>5, <2>2, <3>2
  <2>3. CASE i > n
    <3>1. PICK j \in 1 .. k : i = n + j
      <4>1. i - n \in 1 .. k /\ i = n + (i - n)
        BY <2>3
      <4>2. QED
        BY <4>1
    <3>2. s[i] = p[j]
      BY <1>4, <3>1
    <3>3. (i + 1 <= n + k <=> j + 1 <= k) /\ i + 1 = n + (j + 1)
      BY <3>1
    <3>4. at(i + 1) = IF j + 1 <= k THEN p[j + 1] ELSE v
      <4>1. CASE j + 1 <= k
        <5>1. j + 1 \in 1 .. k
          BY <4>1
        <5>2. s[n + (j + 1)] = p[j + 1]
          BY <1>4, <5>1
        <5>3. QED
          BY <3>3, <4>1, <5>2
      <4>2. CASE ~ (j + 1 <= k)
        BY <3>3, <4>2
      <4>3. QED
        BY <4>1, <4>2
    <3>5. QED
      BY <1>2, <3>1, <3>2, <3>4 DEF IssuedOn
  <2>4. QED
    BY <2>1, <2>2, <2>3
<1>8. issued' = s /\ uid' = v /\ Len(issued') = n + k
  BY <1>3, <1>4
<1>9. Nth(1)' = ZeroId
  BY <1>6, <1>8 DEF Nth
<1>10. ASSUME NEW i \in 1 .. n + k
       PROVE  Nth(i + 1)' = Incr(s[i])
  BY <1>7, <1>8, <1>10 DEF Nth
<1>11. QED
  BY <1>4, <1>8, <1>9, <1>10 DEF IssuedInv, IssuedOn

\* One id is handed out.
LEMMA IssueOne ==
  ASSUME IssuedInv, issued' = Append(issued, uid), uid' = Incr(uid)
  PROVE  IssuedInv'
<1>1. PICK p, v : p = <<uid>> /\ v = Incr(uid)
  OBVIOUS
<1>2. uid \in IdSpace /\ issued \in Seq(IdSpace)
  BY DEF IssuedInv
<1>3. IssuedOn(p, v)
  BY <1>1, <1>2, IncrType DEF IssuedOn
<1>4. issued' = issued \o p /\ uid' = v
  BY <1>1, <1>2
<1>5. QED
  BY <1>3, <1>4, IssueKeeps

\* k ids are handed out.
LEMMA IssueMany ==
  ASSUME IssuedInv, NEW k \in Nat,
         issued' = issued \o [i \in 1 .. k |-> Later(i - 1)], uid' = Later(k)
  PROVE  IssuedInv'
<1>1. PICK p, v : p = [i \in 1 .. k |-> Later(i - 1)] /\ v = Later(k)
  OBVIOUS
<1>2. /\ Later(0) = uid
      /\ \A n \in Nat : Later(n + 1) = Incr(Later(n))
      /\ \A n \in Nat : Later(n) \in IdSpace
  BY LaterSteps DEF IssuedInv
<1>3. \A i \in 1 .. k : i - 1 \in Nat /\ (i - 1) + 1 = i /\ i \in Nat
  OBVIOUS
<1>4. p \in Seq(IdSpace) /\ Len(p) = k
  BY <1>1, <1>2, <1>3
<1>5. \A i \in 1 .. k : Later(i) = Incr(p[i])
  BY <1>1, <1>2, <1>3
<1>6. ASSUME NEW i \in 1 .. k
      PROVE  (IF i + 1 <= k THEN p[i + 1] ELSE v) = Later(i)
  <2>1. CASE i + 1 <= k
    <3>1. i + 1 \in 1 .. k /\ (i + 1) - 1 = i
      BY <2>1
    <3>2. QED
      BY <1>1, <2>1, <3>1
  <2>2. CASE ~ (i + 1 <= k)
    <3>1. i = k
      BY <2>2
    <3>2. QED
      BY <1>1, <2>2, <3>1
  <2>3. QED
    BY <2>1, <2>2
<1>7. (IF 1 <= k THEN p[1] ELSE v) = uid
  <2>1. CASE k = 0
    BY <1>1, <1>2, <2>1
  <2>2. CASE k # 0
    <3>1. 1 \in 1 .. k /\ 1 <= k /\ 1 - 1 = 0
      BY <2>2
    <3>2. QED
      BY <1>1, <1>2, <3>1
  <2>3. QED
    BY <2>1, <2>2
<1>8. IssuedOn(p, v)
  BY <1>1, <1>2, <1>4, <1>5, <1>6, <1>7 DEF IssuedOn
<1>9. QED
  BY <1>1, <1>8, IssueKeeps

\* So the first id that comes again closes a set of all ids.
LEMMA IssuedFresh ==
  ASSUME IssuedInv
  PROVE  IdsFresh
<1>1. PICK n \in Nat : n = Len(issued) /\ DOMAIN issued = 1 .. n
  BY DEF IssuedInv
<1>2. ASSUME NEW i \in 1 .. n, NEW j \in 1 .. n, i < j, issued[i] = issued[j]
      PROVE  IdSpace \subseteq {issued[l] : l \in DOMAIN issued}
  <2>1. PICK S : S = {issued[l] : l \in 1 .. j - 1}
    OBVIOUS
  <2>2. ZeroId \in S
    <3>1. 1 \in 1 .. j - 1 /\ 1 <= n
      BY <1>2
    <3>2. issued[1] = ZeroId
      BY <1>1, <3>1 DEF IssuedInv, Nth
    <3>3. QED
      BY <2>1, <3>1, <3>2
  <2>3. ASSUME NEW l \in 1 .. j - 1
        PROVE  Incr(issued[l]) \in S
    <3>1. l \in 1 .. n /\ l + 1 <= n
      BY <1>2
    <3>2. Incr(issued[l]) = issued[l + 1]
      BY <1>1, <3>1 DEF IssuedInv, Nth
    <3>3. CASE l + 1 <= j - 1
      <4>1. l + 1 \in 1 .. j - 1
        BY <1>2, <3>3
      <4>2. QED
        BY <2>1, <3>2, <4>1
    <3>4. CASE ~ (l + 1 <= j - 1)
      <4>1. l + 1 = j /\ i \in 1 .. j - 1
        BY <1>2, <3>4
      <4>2. issued[l + 1] = issued[i]
        BY <1>2, <4>1
      <4>3. QED
        BY <2>1, <3>2, <4>1, <4>2
    <3>5. QED
      BY <3>3, <3>4
  <2>4. \A id \in IdSpace : id \in S => Incr(id) \in S
    BY <2>1, <2>3
  <2>5. IdSpace \subseteq S
    BY <2>2, <2>4, IncrReachesAll
  <2>6. S \subseteq {issued[l] : l \in DOMAIN issued}
    <3>1. 1 .. j - 1 \subseteq 1 .. n
      BY <1>2
    <3>2. QED
      BY <1>1, <2>1, <3>1
  <2>7. QED
    BY <2>5, <2>6
<1>3. ASSUME NEW i \in DOMAIN issued, NEW j \in DOMAIN issued, i # j, issued[i] = issued[j]
      PROVE  IdSpace \subseteq {issued[l] : l \in DOMAIN issued}
  <2>1. i \in 1 .. n /\ j \in 1 .. n /\ (i < j \/ j < i)
    BY <1>1, <1>3
  <2>2. QED
    BY <1>2, <1>3, <2>1
<1>4. QED
  BY <1>3 DEF IdsFresh

-----------------------------------------------------------------------------
(***************************************************************************)
(* The invariants                                                          *)
(***************************************************************************)
IsSeq(s) == \E S : s \in Seq(S)
Elems(s) == {s[i] : i \in DOMAIN s}

CommTypes ==
  /\ DOMAIN expect = Hosts /\ DOMAIN outbox = Hosts /\ DOMAIN inbox = Hosts
  /\ DOMAIN grouped = Hosts /\ DOMAIN comms = Hosts
  /\ \A h \in Hosts : IsSeq(expect[h]) /\ IsSeq(outbox[h]) /\ IsSeq(inbox[h]) /\ IsSeq(grouped[h])
  /\ IsFiniteSet(DOMAIN initWaiting) /\ IsFiniteSet(DOMAIN splitWaiting)
  /\ \A id \in DOMAIN splitWaiting : IsFiniteSet(DOMAIN splitWaiting[id].joined)

\* A host awaits no fewer replies than are due to it.
CountInv ==
  \A h \in Hosts : Len(outbox[h]) + Len(inbox[h]) + Cardinality(Joined(h)) <= Len(expect[h])

\* What has an id has one that was handed out.
IdsKnown == DOMAIN members \subseteq Elems(issued) /\ DOMAIN groups \subseteq Elems(issued)

\* No id has been handed out twice.
IdsDistinct == \A i, j \in DOMAIN issued : issued[i] = issued[j] => i = j

\* Call c, an init, is h's own.
MeantFor(h, c) ==
  /\ c.id \in DOMAIN members /\ c.rank \in DOMAIN members[c.id]
  /\ members[c.id][c.rank] = h /\ c.n = Cardinality(DOMAIN members[c.id])

\* It has joined, or all have.
IsIn(c) ==
  \/ c.id \in DOMAIN initWaiting /\ c.rank \notin initWaiting[c.id].missing
  \/ c.id \in DOMAIN groups

\* It is on its way, or served.
Settled(h, c) == c \in Elems(outbox[h]) \/ IsIn(c)

\* What m, a reply or a communicator, says is what the simulator knows.
Told(h, m) ==
  \/ m.n = 0
  \/ /\ m.id \in DOMAIN groups /\ DOMAIN groups[m.id] = 0 .. m.n - 1
     /\ m.rank \in DOMAIN groups[m.id] /\ groups[m.id][m.rank] = h

MembersShape == \A id \in DOMAIN members : \E n \in Nat : members[id] \in [0 .. n - 1 -> Hosts]

\* w is what waits for the ranks missing from communicator id.
IsHalf(id, w) ==
  /\ id \in DOMAIN members
  /\ w.missing \subseteq DOMAIN members[id] /\ DOMAIN w.joined = DOMAIN members[id] \ w.missing
  /\ \A r \in DOMAIN w.joined : w.joined[r] = members[id][r]

HalfFormed == \A id \in DOMAIN initWaiting : IsHalf(id, initWaiting[id])

\* The group of an id the program was given is the one it meant.
InitGroups == \A id \in DOMAIN groups : id \in DOMAIN members => groups[id] = members[id]

CallsMeant ==
  \A h \in Hosts : \A c \in Elems(grouped[h]) \cup Elems(outbox[h]) \cup Elems(expect[h]) :
    c.op \in {"init", "split"} /\ (c.op = "init" => MeantFor(h, c))

AwaitedSettled ==
  \A h \in Hosts : \A c \in Elems(expect[h]) : c.op = "init" => Settled(h, c)

RepliesTold ==
  \A h \in Hosts : \A m \in Elems(inbox[h]) : m.op = "split" => Told(h, m)

\* What host h has as communicator c.
GoodComm(h, c) ==
  \/ /\ c.of.op = "init" /\ c = InitComm(c.of) /\ MeantFor(h, c.of)
     /\ c.n > 1 => Settled(h, c.of)
  \/ c.of.op = "split" /\ Told(h, c)

CommsGood == \A h \in Hosts : \A c \in comms[h] : GoodComm(h, c)

ProgramInv == IdsKnown /\ MembersShape /\ HalfFormed /\ InitGroups /\ CallsMeant /\ AwaitedSettled

AgreeInv == ProgramInv /\ RepliesTold /\ CommsGood

CommInv ==
  /\ CommTypes /\ CountInv /\ IssuedInv
  /\ IdsDistinct => AgreeInv

-----------------------------------------------------------------------------
(***************************************************************************)
(* Sequences                                                               *)
(***************************************************************************)
LEMMA EmptySeq == IsSeq(<< >>) /\ Len(<< >>) = 0 /\ Elems(<< >>) = {}
<1>1. << >> \in Seq({})
  OBVIOUS
<1>2. DOMAIN << >> = {}
  OBVIOUS
<1>3. QED
  BY <1>1, <1>2 DEF IsSeq, Elems

LEMMA OneSeq ==
  ASSUME NEW c
  PROVE  IsSeq(<<c>>) /\ Len(<<c>>) = 1 /\ Elems(<<c>>) = {c}
<1>1. <<c>> \in Seq({c}) /\ Len(<<c>>) = 1
  OBVIOUS
<1>2. PICK s : s = <<c>>
  OBVIOUS
<1>3. DOMAIN s = 1 .. 1 /\ \A i \in 1 .. 1 : s[i] = c
  BY <1>2
<1>4. 1 \in 1 .. 1
  OBVIOUS
<1>5. Elems(s) = {c}
  BY <1>3, <1>4 DEF Elems
<1>6. QED
  BY <1>1, <1>2, <1>5 DEF IsSeq

LEMMA AppendSeq ==
  ASSUME NEW s, IsSeq(s), NEW x
  PROVE  /\ IsSeq(Append(s, x)) /\ Len(s) \in Nat /\ Len(Append(s, x)) = Len(s) + 1
         /\ Elems(Append(s, x)) = Elems(s) \cup {x}
<1>1. PICK S : s \in Seq(S)
  BY DEF IsSeq
<1>2. PICK T : T = S \cup {x}
  OBVIOUS
<1>3. s \in Seq(T) /\ x \in T
  BY <1>1, <1>2
<1>4. PICK t, n : t = Append(s, x) /\ n = Len(s)
  OBVIOUS
<1>5. t \in Seq(T) /\ n \in Nat /\ Len(t) = n + 1
  BY <1>3, <1>4
<1>6. DOMAIN t = 1 .. n + 1 /\ DOMAIN s = 1 .. n
  BY <1>3, <1>4, <1>5
<1>7. (\A i \in 1 .. n : t[i] = s[i]) /\ t[n + 1] = x
  BY <1>3, <1>4
<1>8. Elems(t) = Elems(s) \cup {x}
  BY <1>5, <1>6, <1>7 DEF Elems
<1>9. QED
  BY <1>4, <1>5, <1>8 DEF IsSeq

LEMMA TailSeq ==
  ASSUME NEW s, IsSeq(s), s # << >>
  PROVE  /\ IsSeq(Tail(s)) /\ Len(s) \in Nat /\ Len(Tail(s)) \in Nat /\ Len(Tail(s)) + 1 = Len(s)
         /\ Head(s) \in Elems(s) /\ Elems(s) = Elems(Tail(s)) \cup {Head(s)}
<1>1. PICK S : s \in Seq(S)
  BY DEF IsSeq
<1>2. PICK t, x, n : t = Tail(s) /\ x = Head(s) /\ n = Len(t)
  OBVIOUS
<1>3. t \in Seq(S) /\ n \in Nat /\ Len(s) = n + 1
  BY <1>1, <1>2
<1>4. DOMAIN s = 1 .. n + 1 /\ DOMAIN t = 1 .. n
  BY <1>1, <1>2, <1>3
<1>5. x = s[1] /\ \A i \in 1 .. n : t[i] = s[i + 1]
  BY <1>1, <1>2, <1>3
<1>6. \A i \in 1 .. n + 1 : i = 1 \/ \E j \in 1 .. n : i = j + 1
  <2>1. ASSUME NEW i \in 1 .. n + 1, i # 1
        PROVE  \E j \in 1 .. n : i = j + 1
    <3>1. i - 1 \in 1 .. n /\ i = (i - 1) + 1
      BY <1>3, <2>1
    <3>2. QED
      BY <3>1
  <2>2. QED
    BY <2>1
<1>7. 1 \in DOMAIN s /\ \A j \in 1 .. n : j + 1 \in DOMAIN s
  BY <1>3, <1>4
<1>8. Elems(s) = Elems(t) \cup {x}
  <2>1. ASSUME NEW y \in Elems(s)
        PROVE  y \in Elems(t) \cup {x}
    BY <1>4, <1>5, <1>6, <2>1 DEF Elems
  <2>2. ASSUME NEW y \in Elems(t)
        PROVE  y \in Elems(s)
    BY <1>4, <1>5, <1>7, <2>2 DEF Elems
  <2>3. x \in Elems(s)
    BY <1>5, <1>7 DEF Elems
  <2>4. QED
    BY <2>1, <2>2, <2>3
<1>9. QED
  BY <1>2, <1>3, <1>8 DEF IsSeq

\* g keeps what is sent of the first i elements of s, for every i up to n.
SentTo(s, g, n) ==
  \A i \in 0 .. Len(s) : i <= n =>
    g[i] = IF i = 0 THEN << >> ELSE IF IsSent(s[i]) THEN Append(g[i - 1], s[i]) ELSE g[i - 1]

SentAll(s, g) ==
  g = [i \in 0 .. Len(s) |->
         IF i = 0 THEN << >> ELSE IF IsSent(s[i]) THEN Append(g[i - 1], s[i]) ELSE g[i - 1]]

\* The function ToSend is defined by exists.
LEMMA ToSendExists ==
  ASSUME NEW s, Len(s) \in Nat
  PROVE  \E g : SentAll(s, g)
<1> DEFINE Good(n) == \E g : SentTo(s, g, n)
           Bad     == {n \in Nat : ~ Good(n)}
<1>1. Good(0)
  <2>1. SentTo(s, [i \in 0 .. Len(s) |-> << >>], 0)
    BY DEF SentTo
  <2>2. QED
    BY <2>1
<1>2. ASSUME NEW n \in Nat, Good(n) PROVE Good(n + 1)
  <2>1. PICK g : SentTo(s, g, n)
    BY <1>2
  <2>2. PICK k : k = [i \in 0 .. Len(s) |->
                        IF i = 0 THEN << >>
                        ELSE IF IsSent(s[i]) THEN Append(g[i - 1], s[i]) ELSE g[i - 1]]
    OBVIOUS
  <2>3. \A i \in 0 .. Len(s) : i <= n => k[i] = g[i]
    BY <2>1, <2>2 DEF SentTo
  <2>4. ASSUME NEW i \in 0 .. Len(s), i <= n + 1
        PROVE  k[i] = IF i = 0 THEN << >>
                      ELSE IF IsSent(s[i]) THEN Append(k[i - 1], s[i]) ELSE k[i - 1]
    <3>1. CASE i = 0
      BY <2>2, <3>1
    <3>2. CASE i # 0
      <4>1. i - 1 \in 0 .. Len(s) /\ i - 1 <= n
        BY <2>4, <3>2
      <4>2. k[i - 1] = g[i - 1]
        BY <2>3, <4>1
      <4>3. QED
        BY <2>2, <3>2, <4>2
    <3>3. QED
      BY <3>1, <3>2
  <2>5. SentTo(s, k, n + 1)
    BY <2>4 DEF SentTo
  <2>6. QED
    BY <2>5
<1> HIDE DEF Good
<1>3. Bad = {}
  <2> SUFFICES ASSUME Bad # {} PROVE FALSE
    OBVIOUS
  <2>1. PICK m \in Bad : \A n \in Bad : m <= n
    BY LeastNumber
  <2>2. m # 0 /\ m \in Nat
    BY <1>1
  <2>3. m - 1 \in Nat /\ ~ Good(m)
    BY <2>2
  <2>4. Good(m - 1)
    BY <2>1, <2>3
  <2>5. Good((m - 1) + 1)
    BY <1>2, <2>3, <2>4
  <2>6. QED
    BY <2>2, <2>3, <2>5
<1>4. PICK g : SentTo(s, g, Len(s))
  BY <1>3 DEF Good
<1>5. PICK k : k = [i \in 0 .. Len(s) |-> g[i]]
  OBVIOUS
<1>6. \A i \in 0 .. Len(s) : k[i] = IF i = 0 THEN << >>
                                    ELSE IF IsSent(s[i]) THEN Append(k[i - 1], s[i]) ELSE k[i - 1]
  <2>1. \A i \in 0 .. Len(s) : i # 0 => i - 1 \in 0 .. Len(s)
    OBVIOUS
  <2>2. \A i \in 0 .. Len(s) : i # 0 => k[i - 1] = g[i - 1]
    BY <1>5, <2>1
  <2>3. QED
    BY <1>4, <1>5, <2>2 DEF SentTo
<1>7. SentAll(s, k)
  BY <1>5, <1>6 DEF SentAll
<1>8. QED
  BY <1>7

\* What a group sends is of its calls.
LEMMA ToSendIs ==
  ASSUME NEW s, IsSeq(s)
  PROVE  IsSeq(ToSend(s)) /\ \A c \in Elems(ToSend(s)) : c \in Elems(s)
<1>1. Len(s) \in Nat /\ DOMAIN s = 1 .. Len(s)
  BY DEF IsSeq
<1>2. PICK g : g = CHOOSE f : SentAll(s, f)
  OBVIOUS
<1>3. SentAll(s, g)
  BY <1>1, <1>2, ToSendExists
<1>4. ToSend(s) = g[Len(s)]
  BY <1>2 DEF ToSend, SentAll
<1> DEFINE Good(i) == g[i] \in Seq(Elems(s))
           Bad     == {i \in Nat : i <= Len(s) /\ ~ Good(i)}
<1>5. Good(0)
  BY <1>1, <1>3 DEF SentAll
<1>6. ASSUME NEW i \in 1 .. Len(s), Good(i - 1)
      PROVE  Good(i)
  <2>1. s[i] \in Elems(s)
    BY <1>1 DEF Elems
  <2>2. i \in 0 .. Len(s) /\ i # 0
    BY <1>1
  <2>3. g[i] = IF IsSent(s[i]) THEN Append(g[i - 1], s[i]) ELSE g[i - 1]
    BY <1>3, <2>2 DEF SentAll
  <2>4. QED
    BY <1>6, <2>1, <2>3
<1> HIDE DEF Good
<1>7. Bad = {}
  <2> SUFFICES ASSUME Bad # {} PROVE FALSE
    OBVIOUS
  <2>1. PICK m \in Bad : \A n \in Bad : m <= n
    BY LeastNumber
  <2>2. m # 0 /\ m \in Nat /\ m <= Len(s) /\ ~ Good(m)
    BY <1>5
  <2>3. m - 1 \in Nat /\ m - 1 <= Len(s) /\ ~ (m <= m - 1) /\ m \in 1 .. Len(s)
    BY <1>1, <2>2
  <2>4. Good(m - 1)
    BY <2>1, <2>3
  <2>5. QED
    BY <1>6, <2>2, <2>3, <2>4
<1>8. ToSend(s) \in Seq(Elems(s))
  BY <1>1, <1>4, <1>7 DEF Good
<1>9. \A i \in DOMAIN ToSend(s) : ToSend(s)[i] \in Elems(s)
  BY <1>8
<1>10. QED
  BY <1>8, <1>9 DEF IsSeq, Elems

-----------------------------------------------------------------------------
(***************************************************************************)
(* Replies that are due                                                    *)
(***************************************************************************)

\* What a host has joined can be counted.
LEMMA JoinedFinite ==
  ASSUME CommTypes, NEW h
  PROVE  IsFiniteSet(Joined(h)) /\ Cardinality(Joined(h)) \in Nat
<1>1. PICK I, J : I = {"init"} \X DOMAIN initWaiting /\ J = {"split"} \X DOMAIN splitWaiting
  OBVIOUS
<1>2. IsFiniteSet(I) /\ IsFiniteSet(J)
  BY <1>1, FS_Singleton, FS_Product DEF CommTypes
<1>3. IsFiniteSet(I \cup J)
  BY <1>2, FS_Union
<1>4. Joined(h) \subseteq I \cup J
  BY <1>1 DEF Joined
<1>5. QED
  BY <1>3, <1>4, FS_Subset, FS_CardinalityType

\* Cardinalities of a set and of a later one that lacks or has one element more.
LEMMA CountLater ==
  ASSUME NEW J, IsFiniteSet(J), NEW K
  PROVE  /\ K \subseteq J => Cardinality(K) \in Nat /\ Cardinality(K) <= Cardinality(J)
         /\ \A x : K \subseteq J \cup {x} => Cardinality(K) \in Nat /\ Cardinality(K) <= Cardinality(J) + 1
         /\ \A x \in J : K \subseteq J /\ x \notin K =>
              Cardinality(K) \in Nat /\ Cardinality(K) + 1 <= Cardinality(J)
<1>1. Cardinality(J) \in Nat
  BY FS_CardinalityType
<1>2. ASSUME K \subseteq J
      PROVE  Cardinality(K) \in Nat /\ Cardinality(K) <= Cardinality(J)
  BY <1>2, FS_Subset, FS_CardinalityType
<1>3. ASSUME NEW x, K \subseteq J \cup {x}
      PROVE  Cardinality(K) \in Nat /\ Cardinality(K) <= Cardinality(J) + 1
  <2>1. PICK L : L = J \cup {x}
    OBVIOUS
  <2>2. IsFiniteSet(L) /\ (Cardinality(L) = Cardinality(J) \/ Cardinality(L) = Cardinality(J) + 1)
    BY <2>1, FS_AddElement
  <2>3. Cardinality(K) \in Nat /\ Cardinality(K) <= Cardinality(L)
    BY <1>3, <2>1, <2>2, FS_Subset, FS_CardinalityType
  <2>4. QED
    BY <1>1, <2>2, <2>3
<1>4. ASSUME NEW x \in J, K \subseteq J, x \notin K
      PROVE  Cardinality(K) \in Nat /\ Cardinality(K) + 1 <= Cardinality(J)
  <2>1. PICK L : L = J \ {x}
    OBVIOUS
  <2>2. IsFiniteSet(L) /\ Cardinality(L) = Cardinality(J) - 1
    BY <2>1, FS_RemoveElement
  <2>3. K \subseteq L
    BY <1>4, <2>1
  <2>4. Cardinality(K) \in Nat /\ Cardinality(K) <= Cardinality(L)
    BY <2>2, <2>3, FS_Subset, FS_CardinalityType
  <2>5. QED
    BY <1>1, <2>2, <2>4
<1>5. QED
  BY <1>2, <1>3, <1>4

\* What the simulator owes host g after it has served h: of h's call it sends the
\* reply, or has noted that one is due; of others it sends replies that were due.
Owed(g, h) ==
  \/ /\ Len(inbox'[g]) = Len(inbox[g])
     /\ Joined(g)' \subseteq Joined(g) \/ (g = h /\ \E x : Joined(g)' \subseteq Joined(g) \cup {x})
  \/ /\ Len(inbox'[g]) = Len(inbox[g]) + 1
     /\ Joined(g)' \subseteq Joined(g)
     /\ g = h \/ \E x \in Joined(g) : x \notin Joined(g)'

LEMMA ServeCount ==
  ASSUME CommTypes, CountInv, NEW h \in Hosts, outbox[h] # << >>,
         outbox' = [outbox EXCEPT ![h] = Tail(outbox[h])], UNCHANGED expect,
         \A g \in Hosts : Owed(g, h)
  PROVE  CountInv'
<1>1. ASSUME NEW g \in Hosts
      PROVE  Len(outbox'[g]) + Len(inbox'[g]) + Cardinality(Joined(g)') <= Len(expect'[g])
  <2>1. PICK o, i, e, q \in Nat : /\ o = Len(outbox[g]) /\ i = Len(inbox[g]) /\ e = Len(expect[g])
                                  /\ q = Cardinality(Joined(g))
    <3>1. Len(outbox[g]) \in Nat /\ Len(inbox[g]) \in Nat /\ Len(expect[g]) \in Nat
      BY DEF CommTypes, IsSeq
    <3>2. QED
      BY <3>1, JoinedFinite
  <2>2. o + i + q <= e /\ Len(expect'[g]) = e
    BY <2>1 DEF CountInv
  <2>3. PICK J, K : J = Joined(g) /\ K = Joined(g)'
    OBVIOUS
  <2>4. IsFiniteSet(J)
    BY <2>3, JoinedFinite
  <2>5. CASE g = h
    <3>1. Len(outbox'[g]) \in Nat /\ Len(outbox'[g]) + 1 = o
      BY <2>1, <2>5, TailSeq DEF CommTypes
    <3>2. CASE Len(inbox'[g]) = i /\ (K \subseteq J \/ \E x : K \subseteq J \cup {x})
      <4>1. Cardinality(K) \in Nat /\ Cardinality(K) <= q + 1
        BY <2>1, <2>3, <2>4, <3>2, CountLater
      <4>2. QED
        BY <2>2, <2>3, <3>1, <3>2, <4>1
    <3>3. CASE Len(inbox'[g]) = i + 1 /\ K \subseteq J
      <4>1. Cardinality(K) \in Nat /\ Cardinality(K) <= q
        BY <2>1, <2>3, <2>4, <3>3, CountLater
      <4>2. PICK l, c \in Nat : l = Len(outbox'[g]) /\ c = Cardinality(K)
        BY <3>1, <4>1
      <4>3. l + (i + 1) + c <= e
        <5>1. l + 1 = o /\ c <= q
          BY <3>1, <4>1, <4>2
        <5>2. QED
          BY <2>2, <5>1
      <4>4. QED
        BY <2>2, <2>3, <3>3, <4>2, <4>3
    <3>4. QED
      BY <2>1, <2>3, <3>2, <3>3 DEF Owed
  <2>6. CASE g # h
    <3>1. Len(outbox'[g]) = o
      BY <2>1, <2>6 DEF CommTypes
    <3>2. CASE Len(inbox'[g]) = i /\ K \subseteq J
      <4>1. Cardinality(K) \in Nat /\ Cardinality(K) <= q
        BY <2>1, <2>3, <2>4, <3>2, CountLater
      <4>2. QED
        BY <2>2, <2>3, <3>1, <3>2, <4>1
    <3>3. CASE Len(inbox'[g]) = i + 1 /\ K \subseteq J /\ \E x \in J : x \notin K
      <4>1. Cardinality(K) \in Nat /\ Cardinality(K) + 1 <= q
        BY <2>1, <2>3, <2>4, <3>3, CountLater
      <4>2. PICK c \in Nat : c = Cardinality(K)
        BY <4>1
      <4>3. o + (i + 1) + c <= e
        BY <2>2, <4>1, <4>2
      <4>4. QED
        BY <2>2, <2>3, <3>1, <3>3, <4>2, <4>3
    <3>4. QED
      BY <2>1, <2>3, <2>6, <3>2, <3>3 DEF Owed
  <2>7. QED
    BY <2>5, <2>6
<1>2. QED
  BY <1>1 DEF CountInv

-----------------------------------------------------------------------------
(***************************************************************************)
(* What is known stays known.                                              *)
(***************************************************************************)

\* f has become g, and what was in its domain is as it was.
Extended(f, g) == \A x \in DOMAIN f : x \in DOMAIN g /\ g[x] = f[x]

LEMMA MeantStays ==
  ASSUME Extended(members, members'), NEW h, NEW c, MeantFor(h, c)
  PROVE  MeantFor(h, c)'
BY DEF Extended, MeantFor

LEMMA ToldStays ==
  ASSUME Extended(groups, groups'), NEW h, NEW m, Told(h, m)
  PROVE  Told(h, m)'
BY DEF Extended, Told

\* The ids of p are handed out now.
LEMMA FreshIds ==
  ASSUME IssuedInv, NEW p, IsSeq(p), issued' = issued \o p
  PROVE  /\ Elems(issued') = Elems(issued) \cup Elems(p)
         /\ IdsDistinct' => /\ IdsDistinct
                            /\ \A i \in DOMAIN p : p[i] \notin Elems(issued)
                            /\ \A i, j \in DOMAIN p : p[i] = p[j] => i = j
<1>1. PICK S : issued \in Seq(S) /\ p \in Seq(S)
  <2>1. PICK T : p \in Seq(T)
    BY DEF IsSeq
  <2>2. PICK S : S = T \cup IdSpace
    OBVIOUS
  <2>3. issued \in Seq(S) /\ p \in Seq(S)
    BY <2>1, <2>2 DEF IssuedInv
  <2>4. QED
    BY <2>3
<1>2. PICK n, k \in Nat : n = Len(issued) /\ k = Len(p)
  BY <1>1
<1>3. PICK s : s = issued \o p
  OBVIOUS
<1>4. DOMAIN issued = 1 .. n /\ DOMAIN p = 1 .. k /\ DOMAIN s = 1 .. n + k
  BY <1>1, <1>2, <1>3
<1>5. \A i \in 1 .. n + k : s[i] = IF i <= n THEN issued[i] ELSE p[i - n]
  BY <1>1, <1>2, <1>3
<1>6. \A i \in 1 .. n : i \in 1 .. n + k /\ s[i] = issued[i]
  BY <1>5
<1>7. \A i \in 1 .. k : n + i \in 1 .. n + k /\ s[n + i] = p[i]
  <2>1. \A i \in 1 .. k : n + i \in 1 .. n + k /\ ~ (n + i <= n) /\ (n + i) - n = i
    BY <1>2
  <2>2. QED
    BY <1>5, <2>1
<1>8. \A i \in 1 .. n + k : i \in 1 .. n \/ \E j \in 1 .. k : i = n + j
  <2>1. ASSUME NEW i \in 1 .. n + k, i \notin 1 .. n
        PROVE  \E j \in 1 .. k : i = n + j
    <3>1. i - n \in 1 .. k /\ i = n + (i - n)
      BY <1>2, <2>1
    <3>2. QED
      BY <3>1
  <2>2. QED
    BY <2>1
<1>9. Elems(s) = Elems(issued) \cup Elems(p)
  <2>1. ASSUME NEW y \in Elems(s)
        PROVE  y \in Elems(issued) \cup Elems(p)
    <3>1. PICK i \in 1 .. n + k : y = s[i]
      BY <1>4, <2>1 DEF Elems
    <3>2. CASE i \in 1 .. n
      BY <1>4, <1>6, <3>1, <3>2 DEF Elems
    <3>3. CASE \E j \in 1 .. k : i = n + j
      BY <1>4, <1>7, <3>1, <3>3 DEF Elems
    <3>4. QED
      BY <1>8, <3>2, <3>3
  <2>2. ASSUME NEW y \in Elems(issued) \cup Elems(p)
        PROVE  y \in Elems(s)
    BY <1>4, <1>6, <1>7, <2>2 DEF Elems
  <2>3. QED
    BY <2>1, <2>2
<1>10. issued' = s
  BY <1>3
<1>11. ASSUME IdsDistinct'
       PROVE  /\ IdsDistinct
              /\ \A i \in DOMAIN p : p[i] \notin Elems(issued)
              /\ \A i, j \in DOMAIN p : p[i] = p[j] => i = j
  <2>1. \A i, j \in 1 .. n + k : s[i] = s[j] => i = j
    BY <1>4, <1>10, <1>11 DEF IdsDistinct
  <2>2. IdsDistinct
    BY <1>4, <1>6, <2>1 DEF IdsDistinct
  <2>3. ASSUME NEW i \in 1 .. k, p[i] \in Elems(issued)
        PROVE  FALSE
    <3>1. PICK j \in 1 .. n : p[i] = issued[j]
      BY <1>4, <2>3 DEF Elems
    <3>2. n + i = j
      BY <1>6, <1>7, <2>1, <3>1
    <3>3. QED
      BY <1>2, <3>2
  <2>4. ASSUME NEW i \in 1 .. k, NEW j \in 1 .. k, p[i] = p[j]
        PROVE  i = j
    <3>1. n + i = n + j
      BY <1>7, <2>1, <2>4
    <3>2. QED
      BY <1>2, <3>1
  <2>5. QED
    BY <1>4, <2>2, <2>3, <2>4
<1>12. QED
  BY <1>9, <1>10, <1>11 DEF Elems

-----------------------------------------------------------------------------
(***************************************************************************)
(* The simulator serves a call.                                            *)
(***************************************************************************)

\* What Reply does to the hosts' inboxes.
LEMMA ReplyIs ==
  ASSUME CommTypes, NEW msgs, Reply(msgs)
  PROVE  /\ DOMAIN inbox' = Hosts /\ \A g \in Hosts : IsSeq(inbox'[g])
         /\ \A g \in Hosts : g \in DOMAIN msgs =>
              Len(inbox'[g]) = Len(inbox[g]) + 1 /\ Elems(inbox'[g]) = Elems(inbox[g]) \cup {msgs[g]}
         /\ \A g \in Hosts : g \notin DOMAIN msgs => inbox'[g] = inbox[g]
<1>1. DOMAIN inbox' = Hosts
  BY DEF Reply
<1>2. \A g \in Hosts : g \in DOMAIN msgs => inbox'[g] = Append(inbox[g], msgs[g])
  BY DEF Reply
<1>3. \A g \in Hosts : g \notin DOMAIN msgs => inbox'[g] = inbox[g]
  BY DEF Reply
<1>4. \A g \in Hosts : IsSeq(inbox[g])
  BY DEF CommTypes
<1>5. ASSUME NEW g \in Hosts, g \in DOMAIN msgs
      PROVE  /\ IsSeq(inbox'[g]) /\ Len(inbox'[g]) = Len(inbox[g]) + 1
             /\ Elems(inbox'[g]) = Elems(inbox[g]) \cup {msgs[g]}
  <2>1. PICK s, x, t : s = inbox[g] /\ x = msgs[g] /\ t = Append(s, x)
    OBVIOUS
  <2>2. IsSeq(t) /\ Len(t) = Len(s) + 1 /\ Elems(t) = Elems(s) \cup {x}
    BY <1>4, <2>1, AppendSeq
  <2>3. inbox'[g] = t
    BY <1>2, <1>5, <2>1
  <2>4. QED
    BY <2>1, <2>2, <2>3
<1>6. QED
  BY <1>1, <1>3, <1>4, <1>5

\* What the simulator does to the rest while it serves call c of host h.
Served(h, c) ==
  /\ outbox[h] # << >> /\ c = Head(outbox[h])
  /\ outbox' = [outbox EXCEPT ![h] = Tail(outbox[h])]
  /\ UNCHANGED <<grouped, expect, comms, members>>

LEMMA ServeOutbox ==
  ASSUME CommTypes, NEW h \in Hosts, NEW c, Served(h, c)
  PROVE  /\ c \in Elems(outbox[h])
         /\ DOMAIN outbox' = Hosts /\ \A g \in Hosts : IsSeq(outbox'[g])
         /\ \A g \in Hosts : Elems(outbox'[g]) \subseteq Elems(outbox[g])
         /\ \A g \in Hosts : \A x \in Elems(outbox[g]) : x = c \/ x \in Elems(outbox'[g])
<1>1. /\ IsSeq(Tail(outbox[h])) /\ c \in Elems(outbox[h])
      /\ Elems(outbox[h]) = Elems(Tail(outbox[h])) \cup {c}
  BY TailSeq DEF Served, CommTypes
<1>2. outbox'[h] = Tail(outbox[h]) /\ \A g \in Hosts \ {h} : outbox'[g] = outbox[g]
  BY DEF Served, CommTypes
<1>3. DOMAIN outbox' = Hosts
  BY DEF Served, CommTypes
<1>4. QED
  BY <1>1, <1>2, <1>3 DEF CommTypes

\* Serving a call keeps hosts and simulator in agreement if it forgets nobody who
\* has joined and tells the truth.
LEMMA ServeAgrees ==
  ASSUME CommTypes, AgreeInv, NEW h \in Hosts, NEW c, Served(h, c),
         Extended(groups, groups'), IdsKnown', HalfFormed', InitGroups',
         \A x : IsIn(x) => IsIn(x)', c.op = "init" => IsIn(c)',
         \A g \in Hosts : \A m \in Elems(inbox'[g]) :
           m \in Elems(inbox[g]) \/ (m.op = "split" => Told(g, m)')
  PROVE  AgreeInv'
<1>1. ProgramInv /\ RepliesTold /\ CommsGood
  BY DEF AgreeInv
<1>2. UNCHANGED <<grouped, expect, comms, members>>
  BY DEF Served
<1>3. MembersShape'
  BY <1>1, <1>2 DEF MembersShape, ProgramInv
<1>4. Extended(members, members')
  BY <1>2 DEF Extended
<1>5. CallsMeant'
  <2>1. ASSUME NEW g \in Hosts, NEW x \in Elems(grouped'[g]) \cup Elems(outbox'[g]) \cup Elems(expect'[g])
        PROVE  x.op \in {"init", "split"} /\ (x.op = "init" => MeantFor(g, x)')
    <3>1. x \in Elems(grouped[g]) \cup Elems(outbox[g]) \cup Elems(expect[g])
      BY <1>2, <2>1, ServeOutbox
    <3>2. x.op \in {"init", "split"} /\ (x.op = "init" => MeantFor(g, x))
      BY <1>1, <3>1 DEF ProgramInv, CallsMeant
    <3>3. QED
      BY <1>4, <3>2, MeantStays
  <2>2. QED
    BY <2>1 DEF CallsMeant
<1>6. ASSUME NEW g \in Hosts, NEW x, x.op = "init", Settled(g, x)
      PROVE  Settled(g, x)'
  <2>1. CASE IsIn(x)
    BY <2>1 DEF Settled
  <2>2. CASE x \in Elems(outbox[g])
    <3>1. x = c \/ x \in Elems(outbox'[g])
      BY <2>2, ServeOutbox
    <3>2. QED
      BY <1>6, <3>1 DEF Settled
  <2>3. QED
    BY <1>6, <2>1, <2>2 DEF Settled
<1>7. AwaitedSettled'
  BY <1>1, <1>2, <1>6 DEF ProgramInv, AwaitedSettled
<1>8. RepliesTold'
  <2>1. ASSUME NEW g \in Hosts, NEW m \in Elems(inbox'[g]), m.op = "split"
        PROVE  Told(g, m)'
    <3>1. CASE m \in Elems(inbox[g])
      <4>1. Told(g, m)
        BY <1>1, <2>1, <3>1 DEF RepliesTold
      <4>2. QED
        BY <4>1, ToldStays
    <3>2. CASE m \notin Elems(inbox[g])
      BY <2>1, <3>2
    <3>3. QED
      BY <3>1, <3>2
  <2>2. QED
    BY <2>1 DEF RepliesTold
<1>9. CommsGood'
  <2>1. ASSUME NEW g \in Hosts, NEW x \in comms[g]
        PROVE  GoodComm(g, x)'
    <3>1. CASE /\ x.of.op = "init" /\ x = InitComm(x.of) /\ MeantFor(g, x.of)
               /\ x.n > 1 => Settled(g, x.of)
      <4>1. PICK y : y = x.of
        OBVIOUS
      <4>2. MeantFor(g, y)' /\ (x.n > 1 => Settled(g, y)')
        BY <1>4, <1>6, <3>1, <4>1, MeantStays
      <4>3. QED
        BY <3>1, <4>1, <4>2 DEF GoodComm
    <3>2. CASE x.of.op = "split" /\ Told(g, x)
      BY <3>2, ToldStays DEF GoodComm
    <3>3. QED
      BY <1>1, <3>1, <3>2 DEF CommsGood, GoodComm
  <2>2. QED
    BY <1>2, <2>1 DEF CommsGood
<1>10. QED
  BY <1>3, <1>5, <1>7, <1>8, <1>9 DEF AgreeInv, ProgramInv

\* A rank of an id is one of 0 .. n - 1, and n is the number of them.
LEMMA MemberRanks ==
  ASSUME MembersShape, NEW id \in DOMAIN members
  PROVE  \E n \in Nat : /\ members[id] \in [0 .. n - 1 -> Hosts]
                        /\ DOMAIN members[id] = 0 .. n - 1 /\ Cardinality(DOMAIN members[id]) = n
<1>1. PICK n \in Nat : members[id] \in [0 .. n - 1 -> Hosts]
  BY DEF MembersShape
<1>2. DOMAIN members[id] = 0 .. n - 1
  BY <1>1
<1>3. Cardinality(0 .. n - 1) = n
  <2>1. n - 1 \in Int /\ 0 \in Int /\ (0 > n - 1 => n = 0) /\ (n - 1) - 0 + 1 = n
    OBVIOUS
  <2>2. PICK m : m = n - 1
    OBVIOUS
  <2>3. Cardinality(0 .. m) = IF 0 > m THEN 0 ELSE m - 0 + 1
    BY <2>1, <2>2, FS_Interval
  <2>4. QED
    BY <2>1, <2>2, <2>3
<1>4. QED
  BY <1>1, <1>2, <1>3

\* What waits for communicator c.id once h has joined it.
WithRank(h, c) ==
  [joined  |-> IF c.id \notin DOMAIN initWaiting THEN [r \in {c.rank} |-> h]
               ELSE Put(initWaiting[c.id].joined, c.rank, h),
   missing |-> (IF c.id \notin DOMAIN initWaiting THEN 0 .. c.n - 1 ELSE initWaiting[c.id].missing)
                 \ {c.rank}]

\* nccl_comm_init_rank
InitWaits(h, c) ==
  /\ initWaiting' = Put(initWaiting, c.id, WithRank(h, c))
  /\ UNCHANGED <<groups, inbox>>

InitDone(h, c) ==
  LET joined == WithRank(h, c).joined IN
  /\ c.id \in DOMAIN initWaiting /\ WithRank(h, c).missing = {}
  /\ initWaiting' = Without(initWaiting, c.id)
  /\ groups' = Put(groups, c.id, joined)
  /\ Reply([x \in {joined[r] : r \in DOMAIN joined} |-> [op |-> "init", id |-> c.id]])

LEMMA ServeInitIs ==
  ASSUME NEW h, NEW c, ServeInit(h, c)
  PROVE  (InitWaits(h, c) \/ InitDone(h, c)) /\ UNCHANGED <<uid, splitWaiting, issued>>
BY DEF ServeInit, InitWaits, InitDone, WithRank, AllJoined

\* The new rank is in, and the others stay.
LEMMA InitHalf ==
  ASSUME ProgramInv, NEW h \in Hosts, NEW c, MeantFor(h, c)
  PROVE  /\ IsHalf(c.id, WithRank(h, c)) /\ c.rank \notin WithRank(h, c).missing
         /\ c.id \in DOMAIN initWaiting =>
              WithRank(h, c).missing \subseteq initWaiting[c.id].missing
         /\ WithRank(h, c).missing = {} => WithRank(h, c).joined = members[c.id]
<1>1. PICK w : w = WithRank(h, c)
  OBVIOUS
<1>2. PICK M, id, k : M = members[c.id] /\ id = c.id /\ k = c.rank
  OBVIOUS
<1>3. id \in DOMAIN members /\ k \in DOMAIN M /\ M[k] = h
  BY <1>2 DEF MeantFor
<1>4. PICK n \in Nat : /\ M \in [0 .. n - 1 -> Hosts] /\ DOMAIN M = 0 .. n - 1
                       /\ Cardinality(DOMAIN M) = n
  BY <1>2, <1>3, MemberRanks DEF ProgramInv
<1>5. c.n = n
  BY <1>2, <1>4 DEF MeantFor
<1>6. IsHalf(id, w) /\ k \notin w.missing
  <2>1. CASE id \notin DOMAIN initWaiting
    <3>1. w.joined = [r \in {k} |-> h] /\ w.missing = (0 .. n - 1) \ {k}
      BY <1>1, <1>2, <1>5, <2>1 DEF WithRank
    <3>2. DOMAIN w.joined = DOMAIN M \ w.missing
      BY <1>3, <1>4, <3>1
    <3>3. \A r \in DOMAIN w.joined : w.joined[r] = M[r]
      BY <1>3, <3>1
    <3>4. QED
      BY <1>2, <1>3, <1>4, <3>1, <3>2, <3>3 DEF IsHalf
  <2>2. CASE id \in DOMAIN initWaiting
    <3>1. PICK v : v = initWaiting[id]
      OBVIOUS
    <3>2. /\ v.missing \subseteq DOMAIN M /\ DOMAIN v.joined = DOMAIN M \ v.missing
          /\ \A r \in DOMAIN v.joined : v.joined[r] = M[r]
      BY <1>2, <2>2, <3>1 DEF ProgramInv, HalfFormed, IsHalf
    <3>3. w.joined = Put(v.joined, k, h) /\ w.missing = v.missing \ {k}
      BY <1>1, <1>2, <2>2, <3>1 DEF WithRank
    <3>4. DOMAIN w.joined = DOMAIN v.joined \cup {k}
      BY <3>3 DEF Put
    <3>5. \A r \in DOMAIN w.joined : w.joined[r] = M[r]
      BY <1>3, <3>2, <3>3, <3>4 DEF Put
    <3>6. DOMAIN w.joined = DOMAIN M \ w.missing
      BY <1>3, <3>2, <3>3, <3>4
    <3>7. QED
      BY <1>2, <1>3, <3>2, <3>3, <3>5, <3>6 DEF IsHalf
  <2>3. QED
    BY <2>1, <2>2
<1>7. ASSUME id \in DOMAIN initWaiting
      PROVE  w.missing \subseteq initWaiting[id].missing
  BY <1>1, <1>2, <1>7 DEF WithRank
<1>8. ASSUME w.missing = {}
      PROVE  w.joined = M
  <2>1. DOMAIN w.joined = DOMAIN M /\ \A r \in DOMAIN M : w.joined[r] = M[r]
    BY <1>2, <1>6, <1>8 DEF IsHalf
  <2>2. w.joined = [r \in DOMAIN w.joined |-> w.joined[r]]
    BY <1>1 DEF WithRank, Put
  <2>3. M = [r \in DOMAIN M |-> M[r]]
    BY <1>4
  <2>4. QED
    BY <2>1, <2>2, <2>3
<1>9. QED
  BY <1>1, <1>2, <1>6, <1>7, <1>8

\* The communicators and the splits that wait and that host g has joined.
HasJoined(g, w) == \E r \in DOMAIN w.joined : w.joined[r] = g
InitBy(g)  == {i \in DOMAIN initWaiting : HasJoined(g, initWaiting[i])}
SplitBy(g) == {i \in DOMAIN splitWaiting :
                 \E r \in DOMAIN splitWaiting[i].joined : splitWaiting[i].joined[r].host = g}

LEMMA JoinedIs ==
  ASSUME NEW g
  PROVE  /\ Joined(g) = {<<"init", i>> : i \in InitBy(g)} \cup {<<"split", i>> : i \in SplitBy(g)}
         /\ Joined(g)' = {<<"init", i>> : i \in InitBy(g)'} \cup {<<"split", i>> : i \in SplitBy(g)'}
BY DEF Joined, InitBy, SplitBy, HasJoined

LEMMA JoinedLater ==
  ASSUME NEW g, NEW id
  PROVE  /\ InitBy(g)' \subseteq InitBy(g) /\ SplitBy(g)' \subseteq SplitBy(g) =>
              Joined(g)' \subseteq Joined(g)
         /\ InitBy(g)' \subseteq InitBy(g) \cup {id} /\ SplitBy(g)' \subseteq SplitBy(g) =>
              \E x : Joined(g)' \subseteq Joined(g) \cup {x}
         /\ InitBy(g)' \subseteq InitBy(g) /\ SplitBy(g)' \subseteq SplitBy(g) \cup {id} =>
              \E x : Joined(g)' \subseteq Joined(g) \cup {x}
         /\ id \in InitBy(g) /\ id \notin InitBy(g)' => \E x \in Joined(g) : x \notin Joined(g)'
         /\ id \in SplitBy(g) /\ id \notin SplitBy(g)' => \E x \in Joined(g) : x \notin Joined(g)'
<1>1. PICK J, K, A, B, C, D :
        /\ J = Joined(g) /\ K = Joined(g)' /\ A = InitBy(g) /\ B = InitBy(g)'
        /\ C = SplitBy(g) /\ D = SplitBy(g)'
  OBVIOUS
<1>2. J = {<<"init", i>> : i \in A} \cup {<<"split", i>> : i \in C}
  BY <1>1, JoinedIs
<1>3. K = {<<"init", i>> : i \in B} \cup {<<"split", i>> : i \in D}
  BY <1>1, JoinedIs
<1>4. ASSUME B \subseteq A, D \subseteq C
      PROVE  K \subseteq J
  BY <1>2, <1>3, <1>4
<1>5. ASSUME B \subseteq A \cup {id}, D \subseteq C
      PROVE  K \subseteq J \cup {<<"init", id>>}
  BY <1>2, <1>3, <1>5
<1>6. ASSUME B \subseteq A, D \subseteq C \cup {id}
      PROVE  K \subseteq J \cup {<<"split", id>>}
  BY <1>2, <1>3, <1>6
<1>7. ASSUME id \in A, id \notin B
      PROVE  <<"init", id>> \in J /\ <<"init", id>> \notin K
  BY <1>2, <1>3, <1>7
<1>8. ASSUME id \in C, id \notin D
      PROVE  <<"split", id>> \in J /\ <<"split", id>> \notin K
  BY <1>2, <1>3, <1>8
<1>9. QED
  BY <1>1, <1>4, <1>5, <1>6, <1>7, <1>8

\* Everyone in a communicator that h has just joined is h or had joined it.
LEMMA WithRankHosts ==
  ASSUME NEW h, NEW c, NEW g, g # h, HasJoined(g, WithRank(h, c))
  PROVE  c.id \in InitBy(g)
<1>1. PICK r : r \in DOMAIN WithRank(h, c).joined /\ WithRank(h, c).joined[r] = g
  BY DEF HasJoined
<1>2. CASE c.id \notin DOMAIN initWaiting
  BY <1>1, <1>2 DEF WithRank
<1>3. CASE c.id \in DOMAIN initWaiting
  <2>1. PICK f : f = initWaiting[c.id].joined
    OBVIOUS
  <2>2. WithRank(h, c).joined = Put(f, c.rank, h)
    BY <1>3, <2>1 DEF WithRank
  <2>3. r \in DOMAIN f /\ f[r] = g
    BY <1>1, <2>2 DEF Put
  <2>4. QED
    BY <1>3, <2>1, <2>3 DEF InitBy, HasJoined
<1>4. QED
  BY <1>2, <1>3

\* A call that only joins owes its host the reply.
LEMMA InitWaitsOwed ==
  ASSUME NEW h, NEW c, InitWaits(h, c), UNCHANGED splitWaiting, NEW g
  PROVE  Owed(g, h)
<1>1. DOMAIN initWaiting' = DOMAIN initWaiting \cup {c.id}
  BY DEF InitWaits, Put
<1>2. initWaiting'[c.id] = WithRank(h, c)
  BY DEF InitWaits, Put
<1>3. \A i \in DOMAIN initWaiting : i # c.id => initWaiting'[i] = initWaiting[i]
  BY DEF InitWaits, Put
<1>4. InitBy(g)' \subseteq InitBy(g) \cup {c.id}
  BY <1>1, <1>3 DEF InitBy, HasJoined
<1>5. ASSUME g # h
      PROVE  InitBy(g)' \subseteq InitBy(g)
  <2>1. c.id \in InitBy(g)' => HasJoined(g, WithRank(h, c))
    BY <1>2 DEF InitBy, HasJoined
  <2>2. QED
    BY <1>4, <1>5, <2>1, WithRankHosts
<1>6. SplitBy(g)' \subseteq SplitBy(g)
  BY DEF SplitBy
<1>7. Len(inbox'[g]) = Len(inbox[g])
  BY DEF InitWaits
<1>8. QED
  BY <1>4, <1>5, <1>6, <1>7, JoinedLater DEF Owed

\* The last call to join has everyone answered who was owed a reply.
LEMMA InitDoneOwed ==
  ASSUME CommTypes, NEW h, NEW c, InitDone(h, c), UNCHANGED splitWaiting, NEW g \in Hosts
  PROVE  Owed(g, h)
<1>1. PICK f : f = WithRank(h, c).joined
  OBVIOUS
<1>2. PICK msgs : msgs = [x \in {f[r] : r \in DOMAIN f} |-> [op |-> "init", id |-> c.id]]
  OBVIOUS
<1>3. Reply(msgs) /\ initWaiting' = Without(initWaiting, c.id) /\ c.id \in DOMAIN initWaiting
  BY <1>1, <1>2 DEF InitDone
<1>4. InitBy(g)' \subseteq InitBy(g) /\ c.id \notin InitBy(g)'
  BY <1>3 DEF InitBy, HasJoined, Without
<1>5. SplitBy(g)' \subseteq SplitBy(g)
  BY DEF SplitBy
<1>6. Joined(g)' \subseteq Joined(g)
  BY <1>4, <1>5, JoinedLater
<1>7. CASE g \in DOMAIN msgs
  <2>1. Len(inbox'[g]) = Len(inbox[g]) + 1
    BY <1>3, <1>7, ReplyIs
  <2>2. HasJoined(g, WithRank(h, c))
    BY <1>1, <1>2, <1>7 DEF HasJoined
  <2>3. g = h \/ \E x \in Joined(g) : x \notin Joined(g)'
    BY <1>4, <2>2, WithRankHosts, JoinedLater
  <2>4. QED
    BY <1>6, <2>1, <2>3 DEF Owed
<1>8. CASE g \notin DOMAIN msgs
  <2>1. inbox'[g] = inbox[g]
    BY <1>3, <1>8, ReplyIs
  <2>2. QED
    BY <1>6, <2>1 DEF Owed
<1>9. QED
  BY <1>7, <1>8

\* Serving an init keeps the types and the count.
LEMMA ServeInitTypes ==
  ASSUME CommTypes, CountInv, NEW h \in Hosts, NEW c, Served(h, c), ServeInit(h, c)
  PROVE  CommTypes' /\ CountInv'
<1>1. (InitWaits(h, c) \/ InitDone(h, c)) /\ UNCHANGED <<uid, splitWaiting, issued>>
  BY ServeInitIs
<1>2. DOMAIN inbox' = Hosts /\ \A g \in Hosts : IsSeq(inbox'[g])
  <2>1. CASE InitWaits(h, c)
    BY <2>1 DEF InitWaits, CommTypes
  <2>2. CASE InitDone(h, c)
    <3>1. \E msgs : Reply(msgs)
      BY <2>2 DEF InitDone
    <3>2. QED
      BY <3>1, ReplyIs
  <2>3. QED
    BY <1>1, <2>1, <2>2
<1>3. IsFiniteSet(DOMAIN initWaiting')
  <2>1. IsFiniteSet(DOMAIN initWaiting \cup {c.id})
    BY FS_Singleton, FS_Union DEF CommTypes
  <2>2. DOMAIN initWaiting' \subseteq DOMAIN initWaiting \cup {c.id}
    BY <1>1 DEF InitWaits, InitDone, Put, Without
  <2>3. QED
    BY <2>1, <2>2, FS_Subset
<1>4. CommTypes'
  BY <1>1, <1>2, <1>3, ServeOutbox DEF CommTypes, Served
<1>5. \A g \in Hosts : Owed(g, h)
  BY <1>1, InitWaitsOwed, InitDoneOwed
<1>6. CountInv'
  BY <1>5, ServeCount DEF Served
<1>7. QED
  BY <1>4, <1>6

\* Who has joined an id stays in it.
LEMMA InitJoins ==
  ASSUME ProgramInv, NEW h \in Hosts, NEW c, MeantFor(h, c), UNCHANGED <<members, issued>>,
         InitWaits(h, c)
  PROVE  /\ IdsKnown' /\ HalfFormed' /\ InitGroups' /\ Extended(groups, groups')
         /\ (\A x : IsIn(x) => IsIn(x)') /\ IsIn(c)'
<1>1. PICK w, id : w = WithRank(h, c) /\ id = c.id
  OBVIOUS
<1>2. /\ IsHalf(id, w) /\ c.rank \notin w.missing
      /\ id \in DOMAIN initWaiting => w.missing \subseteq initWaiting[id].missing
  BY <1>1, InitHalf
<1>3. /\ DOMAIN initWaiting' = DOMAIN initWaiting \cup {id} /\ initWaiting'[id] = w
      /\ \A i \in DOMAIN initWaiting : i # id => initWaiting'[i] = initWaiting[i]
  BY <1>1 DEF InitWaits, Put
<1>4. UNCHANGED groups
  BY DEF InitWaits
<1>5. \A i, v : IsHalf(i, v) => IsHalf(i, v)'
  BY DEF IsHalf
<1>6. HalfFormed'
  BY <1>2, <1>3, <1>5 DEF ProgramInv, HalfFormed
<1>7. IdsKnown' /\ InitGroups' /\ Extended(groups, groups')
  BY <1>4 DEF ProgramInv, IdsKnown, InitGroups, Extended, Elems
<1>8. ASSUME NEW x, IsIn(x)
      PROVE  IsIn(x)'
  BY <1>2, <1>3, <1>4, <1>8 DEF IsIn
<1>9. IsIn(c)'
  BY <1>1, <1>2, <1>3 DEF IsIn
<1>10. QED
  BY <1>6, <1>7, <1>8, <1>9

\* The group made known is the one the program meant.
LEMMA InitCompletes ==
  ASSUME ProgramInv, NEW h \in Hosts, NEW c, MeantFor(h, c), UNCHANGED <<members, issued>>,
         InitDone(h, c)
  PROVE  /\ IdsKnown' /\ HalfFormed' /\ InitGroups' /\ Extended(groups, groups')
         /\ (\A x : IsIn(x) => IsIn(x)') /\ IsIn(c)'
<1>1. PICK id : id = c.id
  OBVIOUS
<1>2. groups' = Put(groups, id, members[id])
  <2>1. WithRank(h, c).joined = members[c.id]
    BY InitHalf DEF InitDone
  <2>2. QED
    BY <1>1, <2>1 DEF InitDone
<1>3. id \in DOMAIN members
  BY <1>1 DEF MeantFor
<1>4. /\ DOMAIN groups' = DOMAIN groups \cup {id} /\ groups'[id] = members[id]
      /\ \A i \in DOMAIN groups : i # id => groups'[i] = groups[i]
  BY <1>2 DEF Put
<1>5. DOMAIN initWaiting' = DOMAIN initWaiting \ {id}
      /\ \A i \in DOMAIN initWaiting' : initWaiting'[i] = initWaiting[i]
  BY <1>1 DEF InitDone, Without
<1>6. \A i, v : IsHalf(i, v) => IsHalf(i, v)'
  BY DEF IsHalf
<1>7. HalfFormed'
  BY <1>5, <1>6 DEF ProgramInv, HalfFormed
<1>8. InitGroups' /\ Extended(groups, groups')
  BY <1>3, <1>4 DEF ProgramInv, InitGroups, Extended
<1>9. IdsKnown'
  BY <1>3, <1>4 DEF ProgramInv, IdsKnown, Elems
<1>10. ASSUME NEW x, IsIn(x)
       PROVE  IsIn(x)'
  BY <1>4, <1>5, <1>10 DEF IsIn
<1>11. IsIn(c)'
  BY <1>1, <1>4 DEF IsIn
<1>12. QED
  BY <1>7, <1>8, <1>9, <1>10, <1>11

LEMMA ServeInitKeeps ==
  ASSUME CommInv, NEW h \in Hosts, NEW c, Served(h, c), ServeInit(h, c), c.op = "init"
  PROVE  CommInv'
<1>1. (InitWaits(h, c) \/ InitDone(h, c)) /\ UNCHANGED <<uid, splitWaiting, issued>>
  BY ServeInitIs
<1>2. CommTypes' /\ CountInv'
  BY ServeInitTypes DEF CommInv
<1>3. IssuedInv'
  BY <1>1 DEF CommInv, IssuedInv, Nth
<1>4. ASSUME IdsDistinct'
      PROVE  AgreeInv'
  <2>1. CommTypes /\ AgreeInv
    BY <1>1, <1>4 DEF CommInv, IdsDistinct
  <2>2. MeantFor(h, c)
    BY <2>1, ServeOutbox DEF AgreeInv, ProgramInv, CallsMeant
  <2>3. UNCHANGED members
    BY DEF Served
  <2>4. /\ IdsKnown' /\ HalfFormed' /\ InitGroups' /\ Extended(groups, groups')
        /\ (\A x : IsIn(x) => IsIn(x)') /\ IsIn(c)'
    BY <1>1, <2>1, <2>2, <2>3, InitJoins, InitCompletes DEF AgreeInv
  <2>5. ASSUME NEW g \in Hosts, NEW m \in Elems(inbox'[g])
        PROVE  m \in Elems(inbox[g]) \/ m.op # "split"
    <3>1. CASE InitWaits(h, c)
      BY <2>5, <3>1 DEF InitWaits
    <3>2. CASE InitDone(h, c)
      <4>1. PICK f : f = WithRank(h, c).joined
        OBVIOUS
      <4>2. PICK msgs : msgs = [x \in {f[r] : r \in DOMAIN f} |-> [op |-> "init", id |-> c.id]]
        OBVIOUS
      <4>3. Reply(msgs)
        BY <3>2, <4>1, <4>2 DEF InitDone
      <4>4. CASE g \in DOMAIN msgs
        <5>1. Elems(inbox'[g]) = Elems(inbox[g]) \cup {msgs[g]} /\ msgs[g].op = "init"
          BY <2>1, <4>2, <4>3, <4>4, ReplyIs
        <5>2. QED
          BY <2>5, <5>1
      <4>5. CASE g \notin DOMAIN msgs
        BY <2>1, <2>5, <4>3, <4>5, ReplyIs
      <4>6. QED
        BY <4>4, <4>5
    <3>3. QED
      BY <1>1, <3>1, <3>2
  <2>6. QED
    BY <2>1, <2>4, <2>5, ServeAgrees
<1>5. QED
  BY <1>2, <1>3, <1>4 DEF CommInv

-----------------------------------------------------------------------------
(***************************************************************************)
(* Splits                                                                  *)
(***************************************************************************)
Colours(joined) == {joined[r].color : r \in DOMAIN joined} \ {NoColor}

\* The new group of the ranks in order o, and the reply that tells r of it.
Grouping(joined, o) == [i \in DOMAIN o |-> joined[o[i]].host]
Body(id, o, r) ==
  [op |-> "split", id |-> id, n |-> Cardinality(DOMAIN o), rank |-> CHOOSE i \in DOMAIN o : o[i] = r]

RankOf(joined, h) == CHOOSE r \in DOMAIN joined : joined[r].host = h

SplitMsgs(joined, turn, order) ==
  [h \in {joined[r].host : r \in Declined(joined) \cup
                                  {r \in DOMAIN joined : joined[r].color \in Colours(joined)}} |->
     LET r == RankOf(joined, h) IN
     IF joined[r].color = NoColor THEN [op |-> "declined"]
     ELSE Body(Later(turn[joined[r].color]), order[joined[r].color], r)]

NewIds(joined, turn) == {Later(turn[c]) : c \in Colours(joined)}

SplitGroups(joined, turn, order) ==
  [id \in DOMAIN groups \cup NewIds(joined, turn) |->
     IF \E c \in Colours(joined) : Later(turn[c]) = id
     THEN Grouping(joined, order[CHOOSE c \in Colours(joined) : Later(turn[c]) = id])
     ELSE groups[id]]

\* The split of joined in which colour c has its turn, and its ranks an order.
SplitAs(joined, turn, order) ==
  LET k == Cardinality(Colours(joined)) IN
  /\ turn \in [Colours(joined) -> 0 .. k - 1]
  /\ \A c, d \in Colours(joined) : turn[c] = turn[d] => c = d
  /\ \A c \in Colours(joined) : order[c] \in SortedBy(joined, c)
  /\ Reply(SplitMsgs(joined, turn, order)) /\ groups' = SplitGroups(joined, turn, order)
  /\ uid' = Later(k) /\ issued' = issued \o [i \in 1 .. k |-> Later(i - 1)]

LEMMA CompleteSplitIs ==
  ASSUME NEW joined, CompleteSplit(joined)
  PROVE  \E turn, order : SplitAs(joined, turn, order)
BY DEF CompleteSplit, SplitAs, SplitMsgs, SplitGroups, NewIds, Grouping, Body, RankOf, Colours

\* 0 .. n - 1 has n elements.
LEMMA RanksCount ==
  ASSUME NEW n \in Nat
  PROVE  Cardinality(0 .. n - 1) = n /\ IsFiniteSet(0 .. n - 1)
<1>1. n - 1 \in Int /\ 0 \in Int /\ (0 > n - 1 => n = 0) /\ (n - 1) - 0 + 1 = n
  OBVIOUS
<1>2. PICK m : m = n - 1
  OBVIOUS
<1>3. Cardinality(0 .. m) = (IF 0 > m THEN 0 ELSE m - 0 + 1) /\ IsFiniteSet(0 .. m)
  BY <1>1, <1>2, FS_Interval
<1>4. QED
  BY <1>1, <1>2, <1>3

\* There are finitely many colours.
LEMMA ColoursFinite ==
  ASSUME NEW joined, IsFiniteSet(DOMAIN joined)
  PROVE  Cardinality(Colours(joined)) \in Nat
<1>1. PICK T : T = {joined[r].color : r \in DOMAIN joined}
  OBVIOUS
<1>2. PICK f : f = [r \in DOMAIN joined |-> joined[r].color]
  OBVIOUS
<1>3. f \in Surjection(DOMAIN joined, T)
  BY <1>1, <1>2 DEF Surjection
<1>4. IsFiniteSet(T)
  BY <1>3, FS_Surjection
<1>5. Colours(joined) \subseteq T
  BY <1>1 DEF Colours
<1>6. QED
  BY <1>4, <1>5, FS_Subset, FS_CardinalityType

\* An order of the ranks of a colour has each of them.
LEMMA OrderHasAll ==
  ASSUME NEW joined, IsFiniteSet(DOMAIN joined), NEW c, NEW o \in SortedBy(joined, c)
  PROVE  /\ Cardinality(DOMAIN o) \in Nat /\ DOMAIN o = 0 .. Cardinality(DOMAIN o) - 1
         /\ \A r \in DOMAIN joined : joined[r].color = c => \E i \in DOMAIN o : o[i] = r
<1>1. PICK S : S = {r \in DOMAIN joined : joined[r].color = c}
  OBVIOUS
<1>2. IsFiniteSet(S) /\ Cardinality(S) \in Nat
  BY <1>1, FS_Subset, FS_CardinalityType
<1>3. PICK n \in Nat : n = Cardinality(S)
  BY <1>2
<1>4. o \in [0 .. n - 1 -> S] /\ \A i, j \in 0 .. n - 1 : o[i] = o[j] => i = j
  BY <1>1, <1>3 DEF SortedBy
<1>5. PICK R : R = 0 .. n - 1
  OBVIOUS
<1>6. DOMAIN o = R /\ Cardinality(R) = n
  BY <1>4, <1>5, RanksCount
<1>7. o \in Injection(R, S)
  BY <1>4, <1>5 DEF Injection, IsInjective
<1>8. o \in Surjection(R, S)
  BY <1>2, <1>3, <1>6, <1>7, FS_Injection
<1>9. \A r \in S : \E i \in R : o[i] = r
  BY <1>8 DEF Surjection
<1>10. QED
  BY <1>1, <1>3, <1>5, <1>6, <1>9

\* The ids of a split are handed out in one go.
LEMMA SplitIds ==
  ASSUME IssuedInv, NEW joined, IsFiniteSet(DOMAIN joined), NEW turn, NEW order,
         SplitAs(joined, turn, order)
  PROVE  /\ IssuedInv' /\ Elems(issued) \subseteq Elems(issued')
         /\ NewIds(joined, turn) \subseteq Elems(issued')
         /\ IdsDistinct' =>
              /\ IdsDistinct
              /\ \A id \in NewIds(joined, turn) : id \notin Elems(issued)
              /\ \A c, d \in Colours(joined) : Later(turn[c]) = Later(turn[d]) => c = d
<1>1. PICK C, k : C = Colours(joined) /\ k = Cardinality(C)
  OBVIOUS
<1>2. k \in Nat
  BY <1>1, ColoursFinite
<1>3. PICK p : p = [i \in 1 .. k |-> Later(i - 1)]
  OBVIOUS
<1>4. issued' = issued \o p /\ uid' = Later(k)
  BY <1>1, <1>3 DEF SplitAs
<1>5. /\ \A c \in C : turn[c] \in 0 .. k - 1
      /\ \A c, d \in C : turn[c] = turn[d] => c = d
  BY <1>1 DEF SplitAs
<1>6. IssuedInv'
  BY <1>2, <1>3, <1>4, IssueMany
<1>7. IsSeq(p) /\ DOMAIN p = 1 .. k
  <2>1. PICK S : S = {p[i] : i \in 1 .. k}
    OBVIOUS
  <2>2. p \in [1 .. k -> S]
    BY <1>3, <2>1
  <2>3. p \in Seq(S)
    BY <1>2, <2>2
  <2>4. QED
    BY <1>3, <2>3 DEF IsSeq
<1>8. ASSUME NEW c \in C
      PROVE  turn[c] + 1 \in DOMAIN p /\ p[turn[c] + 1] = Later(turn[c])
  <2>1. PICK t \in 0 .. k - 1 : t = turn[c]
    BY <1>5, <1>8
  <2>2. t + 1 \in 1 .. k /\ (t + 1) - 1 = t
    BY <1>2
  <2>3. p[t + 1] = Later(t)
    BY <1>3, <2>2
  <2>4. QED
    BY <1>7, <2>1, <2>2, <2>3
<1>9. /\ Elems(issued') = Elems(issued) \cup Elems(p)
      /\ IdsDistinct' => /\ IdsDistinct
                         /\ \A i \in DOMAIN p : p[i] \notin Elems(issued)
                         /\ \A i, j \in DOMAIN p : p[i] = p[j] => i = j
  BY <1>4, <1>7, FreshIds
<1>10. \A c \in C : Later(turn[c]) \in Elems(p)
  BY <1>8 DEF Elems
<1>11. NewIds(joined, turn) \subseteq Elems(p)
  BY <1>1, <1>10 DEF NewIds
<1>12. ASSUME IdsDistinct', NEW c \in C, NEW d \in C, Later(turn[c]) = Later(turn[d])
       PROVE  c = d
  <2>1. turn[c] + 1 = turn[d] + 1
    BY <1>8, <1>9, <1>12
  <2>2. turn[c] \in Nat /\ turn[d] \in Nat
    BY <1>2, <1>5
  <2>3. turn[c] = turn[d]
    BY <2>1, <2>2
  <2>4. QED
    BY <1>5, <2>3
<1>13. ASSUME IdsDistinct', NEW c \in C
       PROVE  Later(turn[c]) \notin Elems(issued)
  BY <1>8, <1>9, <1>13
<1>14. QED
  BY <1>1, <1>6, <1>9, <1>11, <1>12, <1>13 DEF NewIds

\* What a split tells a host is what it makes known.
LEMMA SplitTells ==
  ASSUME NEW joined, IsFiniteSet(DOMAIN joined), NEW turn, NEW order,
         SplitAs(joined, turn, order),
         \A c, d \in Colours(joined) : Later(turn[c]) = Later(turn[d]) => c = d,
         NEW g \in DOMAIN SplitMsgs(joined, turn, order),
         NEW m, m = SplitMsgs(joined, turn, order)[g], m.op = "split"
  PROVE  Told(g, m)'
<1>1. PICK r, c, id, o : /\ r = RankOf(joined, g) /\ c = joined[r].color
                         /\ id = Later(turn[c]) /\ o = order[c]
  OBVIOUS
<1>3. r \in DOMAIN joined /\ joined[r].host = g
  <2>1. \E q \in DOMAIN joined : joined[q].host = g
    BY DEF SplitMsgs, Declined
  <2>2. QED
    BY <1>1, <2>1 DEF RankOf
<1>4. m = IF c = NoColor THEN [op |-> "declined"] ELSE Body(id, o, r)
  BY <1>1 DEF SplitMsgs
<1>5. c # NoColor /\ m = Body(id, o, r)
  BY <1>4
<1>6. c \in Colours(joined)
  BY <1>1, <1>3, <1>5 DEF Colours
<1>7. o \in SortedBy(joined, c)
  BY <1>1, <1>6 DEF SplitAs
<1>8. PICK n : n = Cardinality(DOMAIN o)
  OBVIOUS
<1>9. n \in Nat /\ DOMAIN o = 0 .. n - 1 /\ \E i \in DOMAIN o : o[i] = r
  BY <1>1, <1>3, <1>7, <1>8, OrderHasAll
<1>10. m.id = id /\ m.n = n /\ m.rank \in DOMAIN o /\ o[m.rank] = r
  BY <1>5, <1>8, <1>9 DEF Body
<1>11. groups' = SplitGroups(joined, turn, order)
  BY DEF SplitAs
<1>12. id \in NewIds(joined, turn)
  BY <1>1, <1>6 DEF NewIds
<1>13. (CHOOSE d \in Colours(joined) : Later(turn[d]) = id) = c
  BY <1>1, <1>6
<1>14. id \in DOMAIN groups' /\ groups'[id] = Grouping(joined, o)
  BY <1>1, <1>6, <1>11, <1>12, <1>13 DEF SplitGroups
<1>15. DOMAIN groups'[id] = 0 .. n - 1 /\ groups'[id][m.rank] = g
  BY <1>3, <1>9, <1>10, <1>14 DEF Grouping
<1>16. Told(g, m)'
  BY <1>9, <1>10, <1>14, <1>15 DEF Told
<1>17. QED
  BY <1>16

\* A split leaves the groups there are as they are.
LEMMA SplitKeepsGroups ==
  ASSUME ProgramInv, NEW joined, NEW turn, NEW order, SplitAs(joined, turn, order),
         \A id \in NewIds(joined, turn) : id \notin Elems(issued),
         NewIds(joined, turn) \subseteq Elems(issued'), Elems(issued) \subseteq Elems(issued'),
         UNCHANGED members
  PROVE  Extended(groups, groups') /\ InitGroups' /\ IdsKnown'
<1>1. PICK N : N = NewIds(joined, turn)
  OBVIOUS
<1>2. DOMAIN groups' = DOMAIN groups \cup N
  BY <1>1 DEF SplitAs, SplitGroups
<1>3. \A id \in DOMAIN groups : id \notin N => groups'[id] = groups[id]
  BY <1>1 DEF SplitAs, SplitGroups, NewIds
<1>4. \A id \in DOMAIN groups \cup DOMAIN members : id \notin N
  BY <1>1 DEF ProgramInv, IdsKnown
<1>5. Extended(groups, groups')
  BY <1>2, <1>3, <1>4 DEF Extended
<1>6. InitGroups'
  BY <1>2, <1>3, <1>4 DEF ProgramInv, InitGroups
<1>7. IdsKnown'
  BY <1>1, <1>2 DEF ProgramInv, IdsKnown
<1>8. QED
  BY <1>5, <1>6, <1>7

\* What waits for the split of communicator c.id once h has joined it.
WithSplit(h, c) ==
  LET info == [host |-> h, color |-> c.color, key |-> c.key] IN
  IF c.id \notin DOMAIN splitWaiting THEN [r \in {c.rank} |-> info]
  ELSE Put(splitWaiting[c.id].joined, c.rank, info)

\* nccl_comm_split
SplitUnknown(h) ==
  /\ Reply([x \in {h} |-> [op |-> "split", id |-> BadId, n |-> 0, rank |-> 0]])
  /\ UNCHANGED <<uid, groups, issued, splitWaiting>>

SplitWaits(h, c) ==
  /\ \E v : splitWaiting' = Put(splitWaiting, c.id, [joined |-> WithSplit(h, c), missing |-> v])
  /\ UNCHANGED <<uid, groups, issued, inbox>>

SplitDone(h, c) ==
  /\ c.id \in DOMAIN splitWaiting
  /\ CompleteSplit(WithSplit(h, c)) /\ splitWaiting' = Without(splitWaiting, c.id)

LEMMA ServeSplitIs ==
  ASSUME NEW h, NEW c, ServeSplit(h, c)
  PROVE  (SplitUnknown(h) \/ SplitWaits(h, c) \/ SplitDone(h, c)) /\ UNCHANGED initWaiting
<1>1. PICK first, joined, missing :
        /\ first <=> c.id \notin DOMAIN splitWaiting
        /\ joined = WithSplit(h, c)
        /\ missing = (IF first THEN DOMAIN groups[c.id] ELSE splitWaiting[c.id].missing) \ {c.rank}
  OBVIOUS
<1>2. /\ UNCHANGED initWaiting
      /\ \/ SplitUnknown(h)
         \/ c.id \in DOMAIN splitWaiting /\ CompleteSplit(joined)
              /\ splitWaiting' = Without(splitWaiting, c.id)
         \/ splitWaiting' = Put(splitWaiting, c.id, [joined |-> joined, missing |-> missing])
              /\ UNCHANGED <<uid, groups, issued, inbox>>
  BY <1>1 DEF ServeSplit, WithSplit, SplitUnknown
<1>3. QED
  BY <1>1, <1>2 DEF SplitWaits, SplitDone

\* Finitely many ranks join, each of h or joined before.
LEMMA WithSplitHosts ==
  ASSUME CommTypes, NEW h, NEW c
  PROVE  /\ IsFiniteSet(DOMAIN WithSplit(h, c))
         /\ \A r \in DOMAIN WithSplit(h, c) :
              WithSplit(h, c)[r].host = h \/ c.id \in SplitBy(WithSplit(h, c)[r].host)
<1>1. PICK info : info = [host |-> h, color |-> c.color, key |-> c.key]
  OBVIOUS
<1>2. info.host = h
  BY <1>1
<1>3. CASE c.id \notin DOMAIN splitWaiting
  <2>1. WithSplit(h, c) = [r \in {c.rank} |-> info]
    BY <1>1, <1>3 DEF WithSplit
  <2>2. QED
    BY <1>2, <2>1, FS_Singleton
<1>4. CASE c.id \in DOMAIN splitWaiting
  <2>1. PICK f, g : f = splitWaiting[c.id].joined /\ g = WithSplit(h, c)
    OBVIOUS
  <2>2. g = Put(f, c.rank, info)
    BY <1>1, <1>4, <2>1 DEF WithSplit
  <2>3. DOMAIN g = DOMAIN f \cup {c.rank} /\ \A r \in DOMAIN g : g[r] = info \/ (r \in DOMAIN f /\ g[r] = f[r])
    BY <2>2 DEF Put
  <2>4. IsFiniteSet(DOMAIN f)
    BY <1>4, <2>1 DEF CommTypes
  <2>5. IsFiniteSet(DOMAIN g)
    BY <2>3, <2>4, FS_AddElement
  <2>6. \A r \in DOMAIN f : c.id \in SplitBy(f[r].host)
    BY <1>4, <2>1 DEF SplitBy
  <2>7. QED
    BY <1>2, <2>1, <2>3, <2>5, <2>6
<1>5. QED
  BY <1>3, <1>4

\* A split that fails is answered at once, and one that only joins is owed.
LEMMA SplitJoinsOwed ==
  ASSUME CommTypes, NEW h \in Hosts, NEW c, SplitUnknown(h) \/ SplitWaits(h, c),
         UNCHANGED initWaiting, NEW g \in Hosts
  PROVE  Owed(g, h)
<1>1. InitBy(g)' \subseteq InitBy(g)
  BY DEF InitBy, HasJoined
<1>2. CASE SplitUnknown(h)
  <2>1. SplitBy(g)' \subseteq SplitBy(g)
    BY <1>2 DEF SplitUnknown, SplitBy
  <2>2. PICK msgs : /\ msgs = [x \in {h} |-> [op |-> "split", id |-> BadId, n |-> 0, rank |-> 0]]
                    /\ Reply(msgs)
    BY <1>2 DEF SplitUnknown
  <2>3. IF g = h THEN Len(inbox'[g]) = Len(inbox[g]) + 1 ELSE inbox'[g] = inbox[g]
    BY <2>2, ReplyIs
  <2>4. QED
    BY <1>1, <2>1, <2>3, JoinedLater DEF Owed
<1>3. CASE SplitWaits(h, c)
  <2>1. PICK f, v : f = WithSplit(h, c) /\ splitWaiting' = Put(splitWaiting, c.id, [joined |-> f, missing |-> v])
    BY <1>3 DEF SplitWaits
  <2>2. /\ DOMAIN splitWaiting' = DOMAIN splitWaiting \cup {c.id} /\ splitWaiting'[c.id].joined = f
        /\ \A i \in DOMAIN splitWaiting : i # c.id => splitWaiting'[i] = splitWaiting[i]
    BY <2>1 DEF Put
  <2>3. SplitBy(g)' \subseteq SplitBy(g) \cup {c.id}
    BY <2>2 DEF SplitBy
  <2>4. ASSUME g # h
        PROVE  SplitBy(g)' \subseteq SplitBy(g)
    <3>1. c.id \in SplitBy(g)' => \E r \in DOMAIN f : f[r].host = g
      BY <2>2 DEF SplitBy
    <3>2. QED
      BY <2>1, <2>3, <2>4, <3>1, WithSplitHosts
  <2>5. Len(inbox'[g]) = Len(inbox[g])
    BY <1>3 DEF SplitWaits
  <2>6. QED
    BY <1>1, <2>3, <2>4, <2>5, JoinedLater DEF Owed
<1>4. QED
  BY <1>2, <1>3

\* The last call of a split has everyone answered who was owed a reply.
LEMMA SplitDoneOwed ==
  ASSUME CommTypes, NEW h, NEW c, SplitDone(h, c), UNCHANGED initWaiting, NEW g \in Hosts
  PROVE  Owed(g, h)
<1>1. PICK f, turn, order : f = WithSplit(h, c) /\ SplitAs(f, turn, order)
  BY CompleteSplitIs DEF SplitDone
<1>2. PICK msgs : msgs = SplitMsgs(f, turn, order)
  OBVIOUS
<1>3. Reply(msgs)
  BY <1>1, <1>2 DEF SplitAs
<1>4. InitBy(g)' \subseteq InitBy(g)
  BY DEF InitBy, HasJoined
<1>5. SplitBy(g)' \subseteq SplitBy(g) /\ c.id \notin SplitBy(g)'
  BY DEF SplitDone, SplitBy, Without
<1>6. Joined(g)' \subseteq Joined(g)
  BY <1>4, <1>5, JoinedLater
<1>7. CASE g \in DOMAIN msgs
  <2>1. Len(inbox'[g]) = Len(inbox[g]) + 1
    BY <1>3, <1>7, ReplyIs
  <2>2. \E r \in DOMAIN f : f[r].host = g
    BY <1>2, <1>7 DEF SplitMsgs, Declined
  <2>3. g = h \/ c.id \in SplitBy(g)
    BY <1>1, <2>2, WithSplitHosts
  <2>4. g = h \/ \E x \in Joined(g) : x \notin Joined(g)'
    BY <1>5, <2>3, JoinedLater
  <2>5. QED
    BY <1>6, <2>1, <2>4 DEF Owed
<1>8. CASE g \notin DOMAIN msgs
  <2>1. inbox'[g] = inbox[g]
    BY <1>3, <1>8, ReplyIs
  <2>2. QED
    BY <1>6, <2>1 DEF Owed
<1>9. QED
  BY <1>7, <1>8

\* Serving a split keeps the types and the count.
LEMMA ServeSplitTypes ==
  ASSUME CommTypes, CountInv, NEW h \in Hosts, NEW c, Served(h, c), ServeSplit(h, c)
  PROVE  CommTypes' /\ CountInv'
<1>1. (SplitUnknown(h) \/ SplitWaits(h, c) \/ SplitDone(h, c)) /\ UNCHANGED initWaiting
  BY ServeSplitIs
<1>2. DOMAIN inbox' = Hosts /\ \A g \in Hosts : IsSeq(inbox'[g])
  <2>1. CASE SplitWaits(h, c)
    BY <2>1 DEF SplitWaits, CommTypes
  <2>2. CASE SplitUnknown(h) \/ SplitDone(h, c)
    <3>1. \E msgs : Reply(msgs)
      BY <2>2, CompleteSplitIs DEF SplitUnknown, SplitDone, SplitAs
    <3>2. QED
      BY <3>1, ReplyIs
  <2>3. QED
    BY <1>1, <2>1, <2>2
<1>3. /\ IsFiniteSet(DOMAIN splitWaiting')
      /\ \A id \in DOMAIN splitWaiting' : IsFiniteSet(DOMAIN splitWaiting'[id].joined)
  <2>1. CASE SplitUnknown(h)
    BY <2>1 DEF SplitUnknown, CommTypes
  <2>2. CASE SplitWaits(h, c)
    <3>1. PICK f, v : f = WithSplit(h, c) /\ splitWaiting' = Put(splitWaiting, c.id, [joined |-> f, missing |-> v])
      BY <2>2 DEF SplitWaits
    <3>2. /\ DOMAIN splitWaiting' = DOMAIN splitWaiting \cup {c.id} /\ splitWaiting'[c.id].joined = f
          /\ \A i \in DOMAIN splitWaiting : i # c.id => splitWaiting'[i] = splitWaiting[i]
      BY <3>1 DEF Put
    <3>3. IsFiniteSet(DOMAIN splitWaiting')
      BY <3>2, FS_AddElement DEF CommTypes
    <3>4. IsFiniteSet(DOMAIN f)
      BY <3>1, WithSplitHosts
    <3>5. QED
      BY <3>2, <3>3, <3>4 DEF CommTypes
  <2>3. CASE SplitDone(h, c)
    <3>1. /\ DOMAIN splitWaiting' \subseteq DOMAIN splitWaiting
          /\ \A i \in DOMAIN splitWaiting' : splitWaiting'[i] = splitWaiting[i]
      BY <2>3 DEF SplitDone, Without
    <3>2. IsFiniteSet(DOMAIN splitWaiting')
      BY <3>1, FS_Subset DEF CommTypes
    <3>3. QED
      BY <3>1, <3>2 DEF CommTypes
  <2>4. QED
    BY <1>1, <2>1, <2>2, <2>3
<1>4. CommTypes'
  BY <1>1, <1>2, <1>3, ServeOutbox DEF CommTypes, Served
<1>5. \A g \in Hosts : Owed(g, h)
  BY <1>1, SplitJoinsOwed, SplitDoneOwed
<1>6. CountInv'
  BY <1>5, ServeCount DEF Served
<1>7. QED
  BY <1>4, <1>6

\* What holds for a split that completes.
LEMMA SplitDoneAgrees ==
  ASSUME CommTypes, IssuedInv, AgreeInv, NEW h \in Hosts, NEW c, UNCHANGED members,
         SplitDone(h, c), IdsDistinct'
  PROVE  /\ Extended(groups, groups') /\ InitGroups' /\ IdsKnown'
         /\ \A g \in Hosts : \A m \in Elems(inbox'[g]) :
              m \in Elems(inbox[g]) \/ (m.op = "split" => Told(g, m)')
<1>1. PICK f, turn, order : f = WithSplit(h, c) /\ SplitAs(f, turn, order)
  BY CompleteSplitIs DEF SplitDone
<1>2. IsFiniteSet(DOMAIN f)
  BY <1>1, WithSplitHosts
<1>3. /\ Elems(issued) \subseteq Elems(issued') /\ NewIds(f, turn) \subseteq Elems(issued')
      /\ \A id \in NewIds(f, turn) : id \notin Elems(issued)
      /\ \A x, y \in Colours(f) : Later(turn[x]) = Later(turn[y]) => x = y
  BY <1>1, <1>2, SplitIds
<1>4. Extended(groups, groups') /\ InitGroups' /\ IdsKnown'
  BY <1>1, <1>3, SplitKeepsGroups DEF AgreeInv
<1>5. PICK msgs : msgs = SplitMsgs(f, turn, order)
  OBVIOUS
<1>6. Reply(msgs)
  BY <1>1, <1>5 DEF SplitAs
<1>7. ASSUME NEW g \in Hosts, NEW m \in Elems(inbox'[g]), m \notin Elems(inbox[g]), m.op = "split"
      PROVE  Told(g, m)'
  <2>1. g \in DOMAIN msgs /\ m = msgs[g]
    BY <1>6, <1>7, ReplyIs
  <2>2. QED
    BY <1>1, <1>2, <1>3, <1>5, <1>7, <2>1, SplitTells
<1>8. QED
  BY <1>4, <1>7

LEMMA ServeSplitKeeps ==
  ASSUME CommInv, NEW h \in Hosts, NEW c, Served(h, c), ServeSplit(h, c), c.op = "split"
  PROVE  CommInv'
<1>1. (SplitUnknown(h) \/ SplitWaits(h, c) \/ SplitDone(h, c)) /\ UNCHANGED initWaiting
  BY ServeSplitIs
<1>2. CommTypes /\ CommTypes' /\ CountInv' /\ IssuedInv /\ UNCHANGED members
  BY ServeSplitTypes DEF CommInv, Served
<1>3. IssuedInv' /\ (IdsDistinct' => IdsDistinct)
  <2>1. CASE SplitUnknown(h) \/ SplitWaits(h, c)
    <3>1. UNCHANGED <<uid, issued>>
      BY <2>1 DEF SplitUnknown, SplitWaits
    <3>2. QED
      BY <1>2, <3>1 DEF IssuedInv, Nth, IdsDistinct
  <2>2. CASE SplitDone(h, c)
    <3>1. PICK f, turn, order : f = WithSplit(h, c) /\ SplitAs(f, turn, order)
      BY <2>2, CompleteSplitIs DEF SplitDone
    <3>2. IsFiniteSet(DOMAIN f)
      BY <1>2, <3>1, WithSplitHosts
    <3>3. QED
      BY <1>2, <3>1, <3>2, SplitIds
  <2>3. QED
    BY <1>1, <2>1, <2>2
<1>4. ASSUME IdsDistinct'
      PROVE  AgreeInv'
  <2>1. AgreeInv
    BY <1>3, <1>4 DEF CommInv
  <2>2. /\ Extended(groups, groups') /\ InitGroups' /\ IdsKnown'
        /\ \A g \in Hosts : \A m \in Elems(inbox'[g]) :
             m \in Elems(inbox[g]) \/ (m.op = "split" => Told(g, m)')
    <3>1. CASE SplitUnknown(h) \/ SplitWaits(h, c)
      <4>1. UNCHANGED <<groups, issued>>
        BY <3>1 DEF SplitUnknown, SplitWaits
      <4>2. Extended(groups, groups') /\ InitGroups' /\ IdsKnown'
        BY <1>2, <2>1, <4>1 DEF AgreeInv, ProgramInv, InitGroups, IdsKnown, Extended, Elems
      <4>3. ASSUME NEW g \in Hosts, NEW m \in Elems(inbox'[g]), m \notin Elems(inbox[g])
            PROVE  Told(g, m)'
        <5>1. PICK msgs : /\ msgs = [x \in {h} |-> [op |-> "split", id |-> BadId, n |-> 0, rank |-> 0]]
                          /\ Reply(msgs)
          BY <3>1, <4>3 DEF SplitUnknown, SplitWaits
        <5>2. g \in DOMAIN msgs /\ m = msgs[g]
          BY <1>2, <4>3, <5>1, ReplyIs
        <5>3. m.n = 0
          BY <5>1, <5>2
        <5>4. QED
          BY <5>3 DEF Told
      <4>4. QED
        BY <4>2, <4>3
    <3>2. CASE SplitDone(h, c)
      BY <1>2, <1>4, <2>1, <3>2, SplitDoneAgrees
    <3>3. QED
      BY <1>1, <3>1, <3>2
  <2>3. HalfFormed'
    BY <1>1, <1>2, <2>1 DEF AgreeInv, ProgramInv, HalfFormed, IsHalf
  <2>4. \A x : IsIn(x) => IsIn(x)'
    BY <1>1, <2>2 DEF IsIn, Extended
  <2>5. QED
    BY <1>2, <2>1, <2>2, <2>3, <2>4, ServeAgrees
<1>5. QED
  BY <1>2, <1>3, <1>4 DEF CommInv

-----------------------------------------------------------------------------
(***************************************************************************)
(* The hosts                                                               *)
(***************************************************************************)

\* A host that awaits nothing is owed nothing.
LEMMA IdleHost ==
  ASSUME CommTypes, CountInv, NEW h \in Hosts, expect[h] = << >>
  PROVE  /\ Elems(outbox[h]) = {} /\ Len(outbox[h]) = 0
         /\ Elems(inbox[h]) = {} /\ Len(inbox[h]) = 0
         /\ Joined(h) = {} /\ Cardinality(Joined(h)) = 0
<1>1. PICK o, i, q \in Nat : o = Len(outbox[h]) /\ i = Len(inbox[h]) /\ q = Cardinality(Joined(h))
  <2>1. Len(outbox[h]) \in Nat /\ Len(inbox[h]) \in Nat
    BY DEF CommTypes, IsSeq
  <2>2. QED
    BY <2>1, JoinedFinite
<1>2. o + i + q <= 0
  BY <1>1, EmptySeq DEF CountInv
<1>3. o = 0 /\ i = 0 /\ q = 0
  BY <1>2
<1>4. DOMAIN outbox[h] = {} /\ DOMAIN inbox[h] = {}
  <2>1. DOMAIN outbox[h] = 1 .. Len(outbox[h]) /\ DOMAIN inbox[h] = 1 .. Len(inbox[h])
    BY DEF CommTypes, IsSeq
  <2>2. Len(outbox[h]) = 0 /\ Len(inbox[h]) = 0
    BY <1>1, <1>3
  <2>3. 1 .. 0 = {}
    OBVIOUS
  <2>4. QED
    BY <2>1, <2>2, <2>3, Zenon
<1>5. Joined(h) = {}
  BY <1>1, <1>3, JoinedFinite, FS_EmptySet
<1>6. QED
  BY <1>1, <1>3, <1>4, <1>5 DEF Elems

\* Nothing but host h has done something.
HostOnly(h) ==
  /\ UNCHANGED <<simVars, members>>
  /\ DOMAIN expect' = Hosts /\ DOMAIN outbox' = Hosts /\ DOMAIN inbox' = Hosts
  /\ DOMAIN grouped' = Hosts /\ DOMAIN comms' = Hosts
  /\ \A g \in Hosts : g # h =>
       /\ expect'[g] = expect[g] /\ outbox'[g] = outbox[g] /\ inbox'[g] = inbox[g]
       /\ grouped'[g] = grouped[g] /\ comms'[g] = comms[g]
  /\ IsSeq(expect'[h]) /\ IsSeq(outbox'[h]) /\ IsSeq(inbox'[h]) /\ IsSeq(grouped'[h])
  /\ Len(outbox'[h]) + Len(inbox'[h]) + Cardinality(Joined(h)) <= Len(expect'[h])

\* What h has then agrees with the program and the simulator.
HostAgrees(h) ==
  /\ \A c \in Elems(grouped'[h]) \cup Elems(outbox'[h]) \cup Elems(expect'[h]) :
       c.op \in {"init", "split"} /\ (c.op = "init" => MeantFor(h, c))
  /\ \A c \in Elems(expect'[h]) : c.op = "init" => c \in Elems(outbox'[h]) \/ IsIn(c)
  /\ \A m \in Elems(inbox'[h]) : m.op = "split" => Told(h, m)
  /\ \A c \in comms'[h] :
       \/ /\ c.of.op = "init" /\ c = InitComm(c.of) /\ MeantFor(h, c.of)
          /\ c.n > 1 => c.of \in Elems(outbox'[h]) \/ IsIn(c.of)
       \/ c.of.op = "split" /\ Told(h, c)

LEMMA HostKeeps ==
  ASSUME CommInv, NEW h \in Hosts, HostOnly(h), AgreeInv => HostAgrees(h)
  PROVE  CommInv'
<1>1. CommTypes /\ CountInv /\ IssuedInv
  BY DEF CommInv
<1>2. UNCHANGED <<uid, initWaiting, splitWaiting, groups, issued, members>>
  BY DEF HostOnly, simVars
<1>3. CommTypes'
  BY <1>1, <1>2 DEF CommTypes, HostOnly
<1>4. \A g : Joined(g)' = Joined(g)
  BY <1>2 DEF Joined
<1>5. CountInv'
  BY <1>1, <1>4 DEF CountInv, HostOnly
<1>6. IssuedInv'
  BY <1>1, <1>2 DEF IssuedInv, Nth
<1>7. \A g, x : (MeantFor(g, x)' <=> MeantFor(g, x)) /\ (Told(g, x)' <=> Told(g, x)) /\ (IsIn(x)' <=> IsIn(x))
  BY <1>2 DEF MeantFor, Told, IsIn
<1>8. ASSUME IdsDistinct'
      PROVE  AgreeInv'
  <2>1. AgreeInv /\ HostAgrees(h)
    BY <1>2, <1>8 DEF CommInv, IdsDistinct
  <2>2. IdsKnown' /\ MembersShape' /\ HalfFormed' /\ InitGroups'
    BY <1>2, <2>1 DEF AgreeInv, ProgramInv, IdsKnown, MembersShape, HalfFormed, IsHalf, InitGroups, Elems
  <2>3. CallsMeant'
    BY <1>7, <2>1 DEF AgreeInv, ProgramInv, CallsMeant, HostOnly, HostAgrees
  <2>4. AwaitedSettled'
    BY <1>7, <2>1 DEF AgreeInv, ProgramInv, AwaitedSettled, Settled, HostOnly, HostAgrees
  <2>5. RepliesTold'
    BY <1>7, <2>1 DEF AgreeInv, RepliesTold, HostOnly, HostAgrees
  <2>6. CommsGood'
    BY <1>7, <2>1 DEF AgreeInv, CommsGood, GoodComm, Settled, HostOnly, HostAgrees
  <2>7. QED
    BY <2>2, <2>3, <2>4, <2>5, <2>6 DEF AgreeInv, ProgramInv
<1>9. QED
  BY <1>3, <1>5, <1>6, <1>8 DEF CommInv

\* A call of h's own keeps the invariant.
LEMMA CallKeeps ==
  ASSUME CommInv, NEW h \in Hosts, NEW c, Call(h, c), c.op \in {"init", "split"},
         c.op = "init" => MeantFor(h, c)
  PROVE  CommInv'
<1>1. CommTypes /\ CountInv
  BY DEF CommInv
<1>2. /\ Elems(outbox[h]) = {} /\ Len(outbox[h]) = 0 /\ Elems(inbox[h]) = {} /\ Len(inbox[h]) = 0
      /\ Cardinality(Joined(h)) = 0 /\ Elems(expect[h]) = {} /\ Len(expect[h]) = 0
  BY <1>1, IdleHost, EmptySeq DEF Call, Free
<1>3. UNCHANGED <<simVars, members, inbox>>
  BY DEF Call
<1>4. \A x \in comms[h] : AgreeInv =>
        \/ x.of.op = "init" /\ x = InitComm(x.of) /\ MeantFor(h, x.of) /\ (x.n > 1 => IsIn(x.of))
        \/ x.of.op = "split" /\ Told(h, x)
  BY <1>2 DEF AgreeInv, CommsGood, GoodComm, Settled
<1>5. CASE depth[h] > 0
  <2>1. grouped' = [grouped EXCEPT ![h] = Append(grouped[h], c)] /\ UNCHANGED <<outbox, expect, comms>>
    BY <1>5 DEF Call
  <2>2. PICK s, t : s = grouped[h] /\ t = Append(s, c)
    OBVIOUS
  <2>3. IsSeq(t) /\ Elems(t) = Elems(s) \cup {c} /\ grouped'[h] = t
    BY <1>1, <2>1, <2>2, AppendSeq DEF CommTypes
  <2>4. Len(outbox'[h]) + Len(inbox'[h]) + Cardinality(Joined(h)) <= Len(expect'[h])
    <3>1. outbox' = outbox /\ inbox' = inbox /\ expect' = expect
      BY <1>3, <2>1
    <3>2. Len(outbox'[h]) = 0 /\ Len(inbox'[h]) = 0 /\ Len(expect'[h]) = 0
      BY <1>2, <3>1, Zenon
    <3>3. QED
      BY <1>2, <3>2
  <2>5. DOMAIN grouped' = Hosts /\ \A g \in Hosts : g # h => grouped'[g] = grouped[g]
    BY <1>1, <2>1 DEF CommTypes
  <2>6. HostOnly(h)
    BY <1>1, <1>3, <2>1, <2>3, <2>4, <2>5 DEF HostOnly, CommTypes
  <2>7. AgreeInv => HostAgrees(h)
    BY <1>2, <1>3, <1>4, <2>1, <2>2, <2>3 DEF HostAgrees, AgreeInv, ProgramInv, CallsMeant
  <2>8. QED
    BY <2>6, <2>7, HostKeeps
<1>6. CASE ~ (depth[h] > 0) /\ IsSent(c)
  <2>1. /\ outbox' = [outbox EXCEPT ![h] = <<c>>] /\ expect' = [expect EXCEPT ![h] = <<c>>]
        /\ UNCHANGED <<grouped, comms>>
    BY <1>6 DEF Call
  <2>2. outbox'[h] = <<c>> /\ expect'[h] = <<c>>
    BY <1>1, <2>1 DEF CommTypes
  <2>3. IsSeq(<<c>>) /\ Len(<<c>>) = 1 /\ Elems(<<c>>) = {c}
    BY OneSeq
  <2>4. Len(outbox'[h]) + Len(inbox'[h]) + Cardinality(Joined(h)) <= Len(expect'[h])
    BY <1>2, <1>3, <2>2, <2>3
  <2>5. HostOnly(h)
    BY <1>1, <1>3, <2>1, <2>2, <2>3, <2>4 DEF HostOnly, CommTypes
  <2>6. AgreeInv => HostAgrees(h)
    BY <1>2, <1>3, <1>4, <2>1, <2>2, <2>3 DEF HostAgrees, AgreeInv, ProgramInv, CallsMeant
  <2>7. QED
    BY <2>5, <2>6, HostKeeps
<1>7. CASE ~ (depth[h] > 0) /\ ~ IsSent(c)
  <2>1. /\ comms' = [comms EXCEPT ![h] = comms[h] \cup {InitComm(c)}]
        /\ UNCHANGED <<grouped, outbox, expect>>
    BY <1>7 DEF Call
  <2>2. comms'[h] = comms[h] \cup {InitComm(c)}
    BY <1>1, <2>1 DEF CommTypes
  <2>3. c.op = "init" /\ ~ (c.n > 1)
    BY <1>7 DEF IsSent
  <2>4. PICK x : x = InitComm(c)
    OBVIOUS
  <2>5. x.of = c /\ x.n = c.n
    BY <2>4 DEF InitComm
  <2>6. HostOnly(h)
    BY <1>1, <1>2, <1>3, <2>1 DEF HostOnly, CommTypes
  <2>7. AgreeInv => HostAgrees(h)
    BY <1>2, <1>3, <1>4, <2>1, <2>2, <2>3, <2>4, <2>5 DEF HostAgrees, AgreeInv, ProgramInv, CallsMeant
  <2>8. QED
    BY <2>6, <2>7, HostKeeps
<1>8. QED
  BY <1>5, <1>6, <1>7

LEMMA CallsKeep ==
  ASSUME CommInv, NEW h \in Hosts,
         \/ \E id \in DOMAIN members : CommInitRank(h, id)
         \/ \E comm \in comms[h], color \in Colors \cup {NoColor}, key \in Keys :
              CommSplit(h, comm, color, key)
  PROVE  CommInv'
<1>1. CASE \E id \in DOMAIN members : CommInitRank(h, id)
  <2>1. PICK id \in DOMAIN members : CommInitRank(h, id)
    BY <1>1
  <2>2. PICK r, c : /\ r \in DOMAIN members[id]
                    /\ c = [op |-> "init", id |-> id, rank |-> r, n |-> Cardinality(DOMAIN members[id])]
                    /\ members[id][r] = h /\ Call(h, c)
    BY <2>1 DEF CommInitRank
  <2>3. c.op = "init" /\ MeantFor(h, c)
    BY <2>1, <2>2 DEF MeantFor
  <2>4. QED
    BY <2>2, <2>3, CallKeeps
<1>2. CASE \E comm \in comms[h], color \in Colors \cup {NoColor}, key \in Keys :
             CommSplit(h, comm, color, key)
  <2>1. PICK c : c.op = "split" /\ Call(h, c)
    BY <1>2 DEF CommSplit
  <2>2. QED
    BY <2>1, CallKeeps
<1>3. QED
  BY <1>1, <1>2

LEMMA GroupStartKeeps ==
  ASSUME CommInv, NEW h \in Hosts, GroupStart(h)
  PROVE  CommInv'
<1>1. CommTypes /\ CountInv
  BY DEF CommInv
<1>2. UNCHANGED <<simVars, members, grouped, outbox, expect, inbox, comms>>
  BY DEF GroupStart
<1>3. HostOnly(h)
  BY <1>1, <1>2 DEF HostOnly, CommTypes, CountInv
<1>4. AgreeInv => HostAgrees(h)
  BY <1>2 DEF HostAgrees, AgreeInv, ProgramInv, CallsMeant, AwaitedSettled, Settled, RepliesTold,
              CommsGood, GoodComm
<1>5. QED
  BY <1>3, <1>4, HostKeeps

\* What a group has kept back is sent and awaited.
LEMMA GroupEndKeeps ==
  ASSUME CommInv, NEW h \in Hosts, GroupEnd(h)
  PROVE  CommInv'
<1>1. CommTypes /\ CountInv
  BY DEF CommInv
<1>2. /\ Elems(outbox[h]) = {} /\ Len(outbox[h]) = 0 /\ Elems(inbox[h]) = {} /\ Len(inbox[h]) = 0
      /\ Cardinality(Joined(h)) = 0
  BY <1>1, IdleHost DEF GroupEnd, Free
<1>3. UNCHANGED <<simVars, members, inbox>>
  BY DEF GroupEnd
<1>4. CASE UNCHANGED <<grouped, outbox, expect, comms>>
  <2>1. HostOnly(h)
    BY <1>1, <1>3, <1>4 DEF HostOnly, CommTypes, CountInv
  <2>2. AgreeInv => HostAgrees(h)
    BY <1>3, <1>4 DEF HostAgrees, AgreeInv, ProgramInv, CallsMeant, AwaitedSettled, Settled,
                      RepliesTold, CommsGood, GoodComm
  <2>3. QED
    BY <2>1, <2>2, HostKeeps
<1>5. CASE ~ UNCHANGED <<grouped, outbox, expect, comms>>
  <2>1. PICK s, sent, own :
          /\ s = grouped[h] /\ sent = ToSend(s)
          /\ own = {InitComm(s[i]) : i \in {j \in DOMAIN s : ~ IsSent(s[j])}}
    OBVIOUS
  <2>2. /\ grouped' = [grouped EXCEPT ![h] = << >>] /\ outbox' = [outbox EXCEPT ![h] = sent]
        /\ expect' = [expect EXCEPT ![h] = sent] /\ comms' = [comms EXCEPT ![h] = comms[h] \cup own]
    BY <1>5, <2>1 DEF GroupEnd
  <2>3. grouped'[h] = << >> /\ outbox'[h] = sent /\ expect'[h] = sent /\ comms'[h] = comms[h] \cup own
    BY <1>1, <2>2 DEF CommTypes
  <2>4. IsSeq(sent) /\ \A c \in Elems(sent) : c \in Elems(s)
    BY <1>1, <2>1, ToSendIs DEF CommTypes
  <2>5. IsSeq(<< >>) /\ Elems(<< >>) = {}
    BY EmptySeq
  <2>6. Len(outbox'[h]) + Len(inbox'[h]) + Cardinality(Joined(h)) <= Len(expect'[h])
    <3>1. Len(sent) \in Nat /\ Len(inbox'[h]) = 0
      BY <1>2, <1>3, <2>4 DEF IsSeq
    <3>2. PICK n \in Nat : n = Len(sent)
      BY <3>1
    <3>3. Len(outbox'[h]) = n /\ Len(expect'[h]) = n
      BY <2>3, <3>2, Zenon
    <3>4. QED
      BY <1>2, <3>1, <3>3
  <2>7. HostOnly(h)
    BY <1>1, <1>3, <2>2, <2>3, <2>4, <2>5, <2>6 DEF HostOnly, CommTypes
  <2>8. ASSUME AgreeInv
        PROVE  HostAgrees(h)
    <3>1. \A c \in Elems(s) : c.op \in {"init", "split"} /\ (c.op = "init" => MeantFor(h, c))
      BY <2>1, <2>8 DEF AgreeInv, ProgramInv, CallsMeant
    <3>2. \A c \in Elems(grouped'[h]) \cup Elems(outbox'[h]) \cup Elems(expect'[h]) :
            c.op \in {"init", "split"} /\ (c.op = "init" => MeantFor(h, c))
      BY <2>3, <2>4, <2>5, <3>1
    <3>3. \A c \in Elems(expect'[h]) : c \in Elems(outbox'[h])
      BY <2>3
    <3>4. \A m \in Elems(inbox'[h]) : m.op = "split" => Told(h, m)
      BY <1>2, <1>3
    <3>5. ASSUME NEW x \in comms'[h]
          PROVE  \/ /\ x.of.op = "init" /\ x = InitComm(x.of) /\ MeantFor(h, x.of)
                    /\ x.n > 1 => x.of \in Elems(outbox'[h]) \/ IsIn(x.of)
                 \/ x.of.op = "split" /\ Told(h, x)
      <4>1. CASE x \in comms[h]
        BY <1>2, <2>8, <4>1 DEF AgreeInv, CommsGood, GoodComm, Settled
      <4>2. CASE x \in own
        <5>1. PICK c \in Elems(s) : x = InitComm(c) /\ ~ IsSent(c)
          BY <2>1, <4>2 DEF Elems
        <5>2. c.op = "init" /\ ~ (c.n > 1) /\ MeantFor(h, c)
          BY <3>1, <5>1 DEF IsSent
        <5>3. x.of = c /\ x.n = c.n
          BY <5>1 DEF InitComm
        <5>4. QED
          BY <5>1, <5>2, <5>3
      <4>3. QED
        BY <2>3, <3>5, <4>1, <4>2
    <3>6. QED
      BY <3>2, <3>3, <3>4, <3>5 DEF HostAgrees
  <2>9. QED
    BY <2>7, <2>8, HostKeeps
<1>6. QED
  BY <1>4, <1>5

\* A reply taken makes a communicator of the oldest call that waits for one.
LEMMA TakeReplyKeeps ==
  ASSUME CommInv, NEW h \in Hosts, TakeReply(h)
  PROVE  CommInv'
<1>1. CommTypes /\ CountInv
  BY DEF CommInv
<1>2. UNCHANGED <<simVars, members, grouped, outbox>>
  BY DEF TakeReply
<1>3. PICK c, m, e, i, f, j : /\ e = expect[h] /\ i = inbox[h] /\ c = Head(e) /\ m = Head(i)
                              /\ f = Tail(e) /\ j = Tail(i)
  OBVIOUS
<1>4. e # << >> /\ i # << >> /\ IsSeq(e) /\ IsSeq(i)
  BY <1>1, <1>3 DEF TakeReply, CommTypes
<1>5. /\ IsSeq(f) /\ Len(e) \in Nat /\ Len(f) \in Nat /\ Len(f) + 1 = Len(e)
      /\ c \in Elems(e) /\ Elems(f) \subseteq Elems(e)
  BY <1>3, <1>4, TailSeq
<1>6. /\ IsSeq(j) /\ Len(i) \in Nat /\ Len(j) \in Nat /\ Len(j) + 1 = Len(i)
      /\ m \in Elems(i) /\ Elems(j) \subseteq Elems(i)
  BY <1>3, <1>4, TailSeq
<1>7. expect' = [expect EXCEPT ![h] = f] /\ inbox' = [inbox EXCEPT ![h] = j]
  BY <1>3 DEF TakeReply
<1>8. expect'[h] = f /\ inbox'[h] = j
  BY <1>1, <1>7 DEF CommTypes
<1>9. /\ DOMAIN comms' = Hosts /\ \A g \in Hosts : g # h => comms'[g] = comms[g]
      /\ \A x \in comms'[h] :
           \/ x \in comms[h]
           \/ c.op = "init" /\ x = InitComm(c)
           \/ c.op = "split" /\ m.op = "split" /\ x = SplitComm(c, m)
  <2>1. PICK got : /\ got = IF c.op = "init" THEN {InitComm(c)}
                            ELSE IF ReadsBody(c) THEN {SplitComm(c, m)} ELSE {}
                   /\ UNCHANGED comms
                        \/ /\ comms' = [comms EXCEPT ![h] = comms[h] \cup got]
                           /\ Accepts(c, m)
    BY <1>3 DEF TakeReply
  <2>2. CASE UNCHANGED comms
    BY <1>1, <2>2 DEF CommTypes
  <2>3. CASE /\ comms' = [comms EXCEPT ![h] = comms[h] \cup got]
             /\ Accepts(c, m)
    BY <1>1, <2>1, <2>3 DEF CommTypes, ReadsBody, Accepts
  <2>4. QED
    BY <2>1, <2>2, <2>3
<1>10. Len(outbox'[h]) + Len(inbox'[h]) + Cardinality(Joined(h)) <= Len(expect'[h])
  <2>1. PICK o, q \in Nat : o = Len(outbox[h]) /\ q = Cardinality(Joined(h))
    <3>1. Len(outbox[h]) \in Nat
      BY <1>1 DEF CommTypes, IsSeq
    <3>2. QED
      BY <1>1, <3>1, JoinedFinite
  <2>2. o + Len(i) + q <= Len(e)
    BY <1>1, <1>3, <2>1 DEF CountInv
  <2>3. o + Len(j) + q <= Len(f)
    BY <1>5, <1>6, <2>2
  <2>4. Len(outbox'[h]) = o
    BY <1>2, <2>1
  <2>5. QED
    BY <1>8, <2>1, <2>3, <2>4, Zenon
<1>11. HostOnly(h)
  BY <1>1, <1>2, <1>5, <1>6, <1>7, <1>8, <1>9, <1>10 DEF HostOnly, CommTypes
<1>12. ASSUME AgreeInv
       PROVE  HostAgrees(h)
  <2>1. /\ c.op \in {"init", "split"} /\ (c.op = "init" => MeantFor(h, c) /\ Settled(h, c))
        /\ m.op = "split" => Told(h, m)
    BY <1>3, <1>5, <1>6, <1>12 DEF AgreeInv, ProgramInv, CallsMeant, AwaitedSettled, RepliesTold
  <2>2. \A x \in Elems(grouped'[h]) \cup Elems(outbox'[h]) \cup Elems(expect'[h]) :
          x.op \in {"init", "split"} /\ (x.op = "init" => MeantFor(h, x))
    BY <1>2, <1>3, <1>5, <1>8, <1>12 DEF AgreeInv, ProgramInv, CallsMeant
  <2>3. \A x \in Elems(expect'[h]) : x.op = "init" => x \in Elems(outbox'[h]) \/ IsIn(x)
    BY <1>2, <1>3, <1>5, <1>8, <1>12 DEF AgreeInv, ProgramInv, AwaitedSettled, Settled
  <2>4. \A x \in Elems(inbox'[h]) : x.op = "split" => Told(h, x)
    BY <1>3, <1>6, <1>8, <1>12 DEF AgreeInv, RepliesTold
  <2>5. ASSUME NEW x \in comms'[h]
        PROVE  \/ /\ x.of.op = "init" /\ x = InitComm(x.of) /\ MeantFor(h, x.of)
                  /\ x.n > 1 => x.of \in Elems(outbox'[h]) \/ IsIn(x.of)
               \/ x.of.op = "split" /\ Told(h, x)
    <3>1. CASE x \in comms[h]
      BY <1>2, <1>12, <3>1 DEF AgreeInv, CommsGood, GoodComm, Settled
    <3>2. CASE c.op = "init" /\ x = InitComm(c)
      <4>1. x.of = c
        BY <3>2 DEF InitComm
      <4>2. QED
        BY <1>2, <2>1, <3>2, <4>1 DEF Settled
    <3>3. CASE c.op = "split" /\ m.op = "split" /\ x = SplitComm(c, m)
      <4>1. x.of = c /\ x.id = m.id /\ x.rank = m.rank /\ x.n = m.n
        BY <3>3 DEF SplitComm
      <4>2. Told(h, x)
        BY <2>1, <3>3, <4>1 DEF Told
      <4>3. QED
        BY <3>3, <4>1, <4>2
    <3>4. QED
      BY <1>9, <2>5, <3>1, <3>2, <3>3
  <2>6. QED
    BY <2>2, <2>3, <2>4, <2>5 DEF HostAgrees
<1>13. QED
  BY <1>11, <1>12, HostKeeps

\* The program gets an id for hosts in an order.
LEMMA GetUniqueIdKeeps ==
  ASSUME CommInv, NEW order \in Orders, GetUniqueId(order)
  PROVE  CommInv'
<1>1. CommTypes /\ CountInv /\ IssuedInv
  BY DEF CommInv
<1>2. UNCHANGED <<initWaiting, splitWaiting, groups, depth, grouped, outbox, expect, inbox, comms>>
  BY DEF GetUniqueId, callerVars
<1>3. issued' = Append(issued, uid) /\ uid' = Incr(uid) /\ members' = Put(members, uid, order)
  BY DEF GetUniqueId
<1>4. CommTypes'
  BY <1>1, <1>2 DEF CommTypes
<1>5. \A g : Joined(g)' = Joined(g)
  BY <1>2 DEF Joined
<1>6. CountInv'
  BY <1>1, <1>2, <1>5 DEF CountInv
<1>7. IssuedInv'
  BY <1>1, <1>3, IssueOne
<1>8. PICK id, p : id = uid /\ p = <<id>>
  OBVIOUS
<1>9. /\ Elems(issued') = Elems(issued) \cup {id}
      /\ IdsDistinct' => IdsDistinct /\ id \notin Elems(issued)
  <2>1. IsSeq(p) /\ Elems(p) = {id}
    BY <1>8, OneSeq
  <2>2. issued' = issued \o p
    BY <1>1, <1>3, <1>8 DEF IssuedInv
  <2>3. 1 \in DOMAIN p /\ p[1] = id
    BY <1>8
  <2>4. QED
    BY <1>1, <2>1, <2>2, <2>3, FreshIds
<1>10. ASSUME IdsDistinct'
       PROVE  AgreeInv'
  <2>1. AgreeInv
    BY <1>9, <1>10 DEF CommInv
  <2>2. id \notin DOMAIN members /\ id \notin DOMAIN groups
    BY <1>9, <1>10, <2>1 DEF AgreeInv, ProgramInv, IdsKnown
  <2>3. /\ DOMAIN members' = DOMAIN members \cup {id} /\ members'[id] = order
        /\ \A x \in DOMAIN members : members'[x] = members[x]
    BY <1>3, <1>8, <2>2 DEF Put
  <2>4. Extended(members, members')
    BY <2>3 DEF Extended
  <2>5. IdsKnown'
    BY <1>2, <1>9, <2>1, <2>3 DEF AgreeInv, ProgramInv, IdsKnown
  <2>6. MembersShape'
    <3>1. PICK n \in 1 .. Cardinality(Hosts) : order \in [0 .. n - 1 -> Hosts]
      BY DEF Orders
    <3>2. Cardinality(Hosts) \in Nat
      BY CommunicatorsAssumption, FS_CardinalityType
    <3>3. n \in Nat
      BY <3>2
    <3>4. QED
      BY <2>1, <2>3, <3>1, <3>3 DEF AgreeInv, ProgramInv, MembersShape
  <2>7. HalfFormed' /\ InitGroups'
    BY <1>2, <2>1, <2>2, <2>3 DEF AgreeInv, ProgramInv, HalfFormed, IsHalf, InitGroups
  <2>8. \A g, x : /\ MeantFor(g, x) => MeantFor(g, x)'
                  /\ Settled(g, x) => Settled(g, x)'
                  /\ Told(g, x) => Told(g, x)'
    BY <1>2, <2>4, MeantStays DEF Settled, IsIn, Told
  <2>9. CallsMeant' /\ AwaitedSettled'
    BY <1>2, <2>1, <2>8 DEF AgreeInv, ProgramInv, CallsMeant, AwaitedSettled
  <2>10. RepliesTold' /\ CommsGood'
    BY <1>2, <2>1, <2>8 DEF AgreeInv, RepliesTold, CommsGood, GoodComm
  <2>11. QED
    BY <2>5, <2>6, <2>7, <2>9, <2>10 DEF AgreeInv, ProgramInv
<1>11. QED
  BY <1>4, <1>6, <1>7, <1>10 DEF CommInv

-----------------------------------------------------------------------------
(***************************************************************************)
(* The theorems                                                            *)
(***************************************************************************)

LEMMA InitComms ==
  ASSUME Init
  PROVE  CommInv
<1>1. IsSeq(<< >>) /\ Len(<< >>) = 0 /\ Elems(<< >>) = {}
  BY EmptySeq
<1>2. DOMAIN << >> = {}
  OBVIOUS
<1>3. \A h \in Hosts : expect[h] = << >> /\ outbox[h] = << >> /\ inbox[h] = << >> /\ grouped[h] = << >>
                       /\ comms[h] = {}
  BY DEF Init
<1>4. initWaiting = << >> /\ splitWaiting = << >> /\ groups = << >> /\ members = << >> /\ issued = << >>
      /\ uid = ZeroId
  BY DEF Init
<1>5. IsFiniteSet({}) /\ Cardinality({}) = 0
  BY FS_EmptySet
<1>6. CommTypes
  BY <1>1, <1>2, <1>3, <1>4, <1>5 DEF CommTypes, Init
<1>7. \A h \in Hosts : Joined(h) = {}
  BY <1>2, <1>4 DEF Joined
<1>8. CountInv
  <2>1. ASSUME NEW h \in Hosts
        PROVE  /\ Len(outbox[h]) = 0 /\ Len(inbox[h]) = 0 /\ Len(expect[h]) = 0
               /\ Cardinality(Joined(h)) = 0
    BY <1>1, <1>3, <1>5, <1>7, <2>1, Zenon
  <2>2. ASSUME NEW h \in Hosts
        PROVE  Len(outbox[h]) + Len(inbox[h]) + Cardinality(Joined(h)) <= Len(expect[h])
    <3>1. PICK o, i, q, e : /\ o = Len(outbox[h]) /\ i = Len(inbox[h])
                            /\ q = Cardinality(Joined(h)) /\ e = Len(expect[h])
      OBVIOUS
    <3>2. o = 0 /\ i = 0 /\ q = 0 /\ e = 0
      BY <2>1, <2>2, <3>1, Zenon
    <3>3. o + i + q <= e
      BY <3>2
    <3>4. QED
      BY <3>1, <3>3, Zenon
  <2>3. QED
    BY <2>2 DEF CountInv
<1>9. IssuedInv
  BY <1>1, <1>4, IncrType DEF IssuedInv, Nth
<1>10. ProgramInv
  BY <1>1, <1>2, <1>3, <1>4 DEF ProgramInv, IdsKnown, MembersShape, HalfFormed, InitGroups, CallsMeant,
                                 AwaitedSettled
<1>11. RepliesTold /\ CommsGood
  BY <1>1, <1>3 DEF RepliesTold, CommsGood
<1>12. QED
  BY <1>6, <1>8, <1>9, <1>10, <1>11 DEF CommInv, AgreeInv

LEMMA NextComms ==
  ASSUME CommInv, [Next]_vars
  PROVE  CommInv'
<1>1. CASE \E o \in Orders : GetUniqueId(o)
  BY <1>1, GetUniqueIdKeeps
<1>2. ASSUME NEW h \in Hosts, HostStep(h)
      PROVE  CommInv'
  BY <1>2, CallsKeep, GroupStartKeeps, GroupEndKeeps DEF HostStep
<1>3. ASSUME NEW h \in Hosts, Serve(h)
      PROVE  CommInv'
  <2>1. PICK c : c = Head(outbox[h])
    OBVIOUS
  <2>2. Served(h, c)
    BY <1>3, <2>1 DEF Serve, Served
  <2>3. (c.op = "init" /\ ServeInit(h, c)) \/ (c.op = "split" /\ ServeSplit(h, c))
    BY <1>3, <2>1 DEF Serve
  <2>4. QED
    BY <2>2, <2>3, ServeInitKeeps, ServeSplitKeeps
<1>4. CASE \E h \in Hosts : TakeReply(h)
  BY <1>4, TakeReplyKeeps
<1>5. CASE UNCHANGED vars
  <2>1. UNCHANGED <<uid, initWaiting, splitWaiting, groups, issued, grouped, outbox, expect, inbox,
                    comms, members>>
    BY <1>5 DEF vars, simVars, callerVars
  <2>2. CommTypes' /\ IssuedInv'
    BY <2>1 DEF CommInv, CommTypes, IssuedInv, Nth
  <2>3. \A h : Joined(h)' = Joined(h)
    BY <2>1 DEF Joined
  <2>4. CountInv'
    BY <2>1, <2>3 DEF CommInv, CountInv
  <2>5. AgreeInv' <=> AgreeInv
    BY <2>1 DEF AgreeInv, ProgramInv, RepliesTold, CommsGood, IdsKnown, MembersShape, HalfFormed, IsHalf,
                InitGroups, CallsMeant, AwaitedSettled, GoodComm, Settled, MeantFor, IsIn, Told, Elems
  <2>6. QED
    BY <2>1, <2>2, <2>4, <2>5 DEF CommInv, IdsDistinct
<1>6. QED
  BY <1>1, <1>2, <1>3, <1>4, <1>5 DEF Next

\* An id is followed by its successor, a host awaits at least the replies that are
\* due to it, and, while no id has been handed out twice, calls, half-formed
\* communicators, replies and the hosts' communicators agree with comm_groups and
\* with the program.
THEOREM CommsInvariant == Spec => []CommInv
<1>1. Init => CommInv
  BY InitComms
<1>2. CommInv /\ [Next]_vars => CommInv'
  BY NextComms
<1>3. QED
  BY <1>1, <1>2, PTL DEF Spec

\* incr_nccl_id hands no id out a second time before it has handed out all.
THEOREM IdsAreFresh == Spec => []IdsFresh
<1>1. CommInv => IdsFresh
  BY IssuedFresh DEF CommInv
<1>2. QED
  BY <1>1, CommsInvariant, PTL

\* While no id has been handed out twice, a host whose calls have returned knows of
\* its communicators what the simulator has in comm_groups.
THEOREM CommsKnow == Spec => [](IdsDistinct => CommsAgree)
<1>1. ASSUME CommInv, IdsDistinct, NEW h \in Hosts, expect[h] = << >>, NEW c \in comms[h],
             c.n > 1 \/ (c.n = 1 /\ c.of.op = "split")
      PROVE  /\ c.id \in DOMAIN groups /\ DOMAIN groups[c.id] = 0 .. c.n - 1
             /\ c.rank \in DOMAIN groups[c.id] /\ groups[c.id][c.rank] = h
  <2>1. AgreeInv /\ CommTypes /\ CountInv
    BY <1>1 DEF CommInv
  <2>2. Elems(outbox[h]) = {} /\ Joined(h) = {}
    BY <1>1, <2>1, IdleHost
  <2>3. GoodComm(h, c)
    BY <2>1 DEF AgreeInv, CommsGood
  <2>4. CASE c.of.op = "split" /\ Told(h, c)
    BY <1>1, <2>4 DEF Told
  <2>5. CASE c.of.op = "init" /\ c = InitComm(c.of) /\ MeantFor(h, c.of) /\ (c.n > 1 => Settled(h, c.of))
    <3>1. PICK d, id : d = c.of /\ id = d.id
      OBVIOUS
    <3>2. c.n > 1 /\ c.id = id /\ c.rank = d.rank /\ c.n = d.n
      <4>1. c.of.op # "split"
        BY <2>5
      <4>2. c.n > 1
        BY <1>1, <4>1
      <4>3. c = InitComm(d)
        BY <2>5, <3>1
      <4>4. QED
        BY <3>1, <4>2, <4>3 DEF InitComm
    <3>3. IsIn(d) /\ MeantFor(h, d)
      BY <2>2, <2>5, <3>1, <3>2 DEF Settled
    <3>4. id \in DOMAIN members /\ d.rank \in DOMAIN members[id] /\ members[id][d.rank] = h
          /\ d.n = Cardinality(DOMAIN members[id])
      BY <3>1, <3>3 DEF MeantFor
    <3>5. DOMAIN members[id] = 0 .. d.n - 1
      BY <2>1, <3>4, MemberRanks DEF AgreeInv, ProgramInv
    <3>6. id \in DOMAIN groups
      <4>1. ASSUME id \in DOMAIN initWaiting, d.rank \notin initWaiting[id].missing
            PROVE  FALSE
        <5>1. IsHalf(id, initWaiting[id])
          BY <2>1, <4>1 DEF AgreeInv, ProgramInv, HalfFormed
        <5>2. d.rank \in DOMAIN initWaiting[id].joined /\ initWaiting[id].joined[d.rank] = h
          BY <3>4, <4>1, <5>1 DEF IsHalf
        <5>3. id \in InitBy(h)
          BY <4>1, <5>2 DEF InitBy, HasJoined
        <5>4. <<"init", id>> \in Joined(h)
          BY <5>3, JoinedIs
        <5>5. QED
          BY <2>2, <5>4, Zenon
      <4>2. QED
        BY <3>1, <3>3, <4>1 DEF IsIn
    <3>7. groups[id] = members[id]
      BY <2>1, <3>4, <3>6 DEF AgreeInv, ProgramInv, InitGroups
    <3>8. QED
      BY <3>2, <3>4, <3>5, <3>6, <3>7
  <2>6. QED
    BY <2>3, <2>4, <2>5 DEF GoodComm
<1>2. CommInv => (IdsDistinct => CommsAgree)
  BY <1>1 DEF CommsAgree
<1>3. QED
  BY <1>2, CommsInvariant, PTL
====

--------------------------- MODULE Communicators ---------------------------
(***************************************************************************)
(* How communicators come about: nccl_get_unique_id, nccl_comm_init_rank   *)
(* and nccl_comm_split of phantora/phantora/src/simulator.rs, and the      *)
(* hosts' side of them, NcclCaller of cuda_call/src/capi.rs, which holds   *)
(* back the calls of a group, sends them when it ends and then takes the   *)
(* replies one by one.                                                     *)
(*                                                                         *)
(* Times are left to module Hosts.  A rank is a host; how hosts learn an   *)
(* id and their ranks is up to the program, here the choice of GetUniqueId.*)
(***************************************************************************)
EXTENDS Integers, Sequences, FiniteSets

CONSTANTS
  Hosts,      \* the host processes, one rank each
  Base,       \* values of a byte (256 in the code)
  Digits,     \* bytes of an id (128 in the code)
  Colors,     \* the colours of a split, NoColor apart
  Keys,       \* the keys of a split
  NoColor,    \* NCCL_SPLIT_NOCOLOR
  MaxIds,     \* bound on the ids the program asks for
  MaxCalls,   \* bound on the calls of a host
  MaxDepth    \* bound on the nesting of groups

ASSUME CommunicatorsAssumption ==
  /\ IsFiniteSet(Hosts)
  /\ Base \in Nat \ {0, 1} /\ Digits \in Nat \ {0}
  /\ Keys \subseteq Int
  /\ NoColor \notin Colors
  /\ MaxIds \in Nat /\ MaxCalls \in Nat /\ MaxDepth \in Nat

VARIABLES
  uid,          \* nccl_unique_id
  initWaiting,  \* id -> the host of each rank that has joined; the ranks missing
  splitWaiting, \* id -> the request of each rank that has joined; the ranks missing
  groups,       \* comm_groups: id -> the hosts by rank
  depth,        \* host -> group_counter
  grouped,      \* host -> grouped_calls
  outbox,       \* host -> calls it is about to send
  expect,       \* host -> calls it will take replies for, in order
  inbox,        \* host -> replies it has not taken
  comms,        \* host -> the communicators it has
  members,      \* the program: id -> the hosts it is meant for, by rank
  made,         \* host -> the calls it has made
  issued,       \* history: the ids handed out
  panicked      \* hosts whose unwrap of a reply has failed

simVars    == <<uid, initWaiting, splitWaiting, groups, issued>>
callerVars == <<depth, grouped, outbox, expect>>
vars       == <<simVars, callerVars, inbox, comms, members, made, panicked>>

Put(f, x, v)  == [y \in DOMAIN f \cup {x} |-> IF y = x THEN v ELSE f[y]]
Without(f, x) == [y \in DOMAIN f \ {x} |-> f[y]]

IdSpace == [1 .. Digits -> 0 .. Base - 1]
ZeroId == [i \in 1 .. Digits |-> 0]
BadId  == << >>   \* [128u8; 128]: the id in the reply about an unknown communicator

Init ==
  /\ uid = ZeroId
  /\ initWaiting = << >> /\ splitWaiting = << >> /\ groups = << >>
  /\ depth = [h \in Hosts |-> 0]
  /\ grouped = [h \in Hosts |-> << >>]
  /\ outbox = [h \in Hosts |-> << >>]
  /\ expect = [h \in Hosts |-> << >>]
  /\ inbox = [h \in Hosts |-> << >>]
  /\ comms = [h \in Hosts |-> {}]
  /\ members = << >>
  /\ made = [h \in Hosts |-> << >>]
  /\ issued = << >> /\ panicked = {}

-----------------------------------------------------------------------------
(***************************************************************************)
(* The simulator                                                           *)
(***************************************************************************)

\* Mutant: Incr, but the carry is lost.
IncrNoCarry(id) == [id EXCEPT ![1] = (@ + 1) % Base]

\* incr_nccl_id: add one to a little-endian number, with wrap-around.
Incr(id) ==
  LET full(i) == \A j \in 1 .. i : id[j] = Base - 1 IN
  [i \in 1 .. Digits |-> IF full(i) THEN 0
                         ELSE IF full(i - 1) THEN id[i] + 1 ELSE id[i]]

\* The id that n further calls of incr_nccl_id lead to.
Later(n) ==
  LET after[k \in 0 .. n] == IF k = 0 THEN uid ELSE Incr(after[k - 1]) IN after[n]

\* Send msgs[h] to every host h in the domain of msgs.
Reply(msgs) ==
  inbox' = [h \in Hosts |-> IF h \in DOMAIN msgs THEN Append(inbox[h], msgs[h]) ELSE inbox[h]]

Free(h) == expect[h] = << >> /\ h \notin panicked

\* nccl_get_unique_id, called by the first rank of a communicator that is to
\* have the hosts in order.
GetUniqueId(order) ==
  /\ Free(order[0])
  /\ Cardinality(DOMAIN members) < MaxIds
  /\ members' = Put(members, uid, order)
  /\ issued' = Append(issued, uid)
  /\ uid' = Incr(uid)
  /\ UNCHANGED <<initWaiting, splitWaiting, groups, callerVars, inbox, comms, made, panicked>>

\* Mutant: AllJoined, one rank early.
AllJoinedBut1(missing) == Cardinality(missing) <= 1

AllJoined(missing) == missing = {}

\* nccl_comm_init_rank: the last rank to join has all answered and makes the
\* group known.
ServeInit(h, c) ==
  LET first  == c.id \notin DOMAIN initWaiting
      joined == IF first THEN [r \in {c.rank} |-> h]
                ELSE Put(initWaiting[c.id].joined, c.rank, h)
      missing == (IF first THEN 0 .. c.n - 1 ELSE initWaiting[c.id].missing) \ {c.rank}
  IN  /\ IF ~ first /\ AllJoined(missing)
         THEN /\ initWaiting' = Without(initWaiting, c.id)
              /\ groups' = Put(groups, c.id, joined)
              /\ Reply([x \in {joined[r] : r \in DOMAIN joined} |-> [op |-> "init", id |-> c.id]])
         ELSE /\ initWaiting' = Put(initWaiting, c.id, [joined |-> joined, missing |-> missing])
              /\ UNCHANGED <<groups, inbox>>
      /\ UNCHANGED <<uid, splitWaiting, issued>>

\* Mutant: SortedBy, in any order.
SortedByNothing(joined, color) ==
  LET S == {r \in DOMAIN joined : joined[r].color = color}
      n == Cardinality(S)
  IN  {o \in [0 .. n - 1 -> S] : \A i, j \in 0 .. n - 1 : o[i] = o[j] => i = j}

\* The orders the ranks of one colour may get their new ranks in: by key, and
\* ranks with the same key in the order of a HashMap.
SortedBy(joined, color) ==
  LET S == {r \in DOMAIN joined : joined[r].color = color}
      n == Cardinality(S)
  IN  {o \in [0 .. n - 1 -> S] :
         /\ \A i, j \in 0 .. n - 1 : o[i] = o[j] => i = j
         /\ \A i, j \in 0 .. n - 1 : i < j => joined[o[i]].key <= joined[o[j]].key}

\* Mutant: Declined, but nobody is answered.
DeclinedSilently(joined) == {}

\* The ranks that take part without a colour; they are answered all the same.
Declined(joined) == {r \in DOMAIN joined : joined[r].color = NoColor}

\* nccl_comm_split: the last rank to join has the ranks of each colour, the
\* colours in the order of a HashMap, made a group with an id of its own.
CompleteSplit(joined) ==
  LET colors == {joined[r].color : r \in DOMAIN joined} \ {NoColor}
      k == Cardinality(colors)
  IN  \E turn \in [colors -> 0 .. k - 1],
         order \in [colors -> UNION {SortedBy(joined, c) : c \in colors}] :
        /\ \A c, d \in colors : turn[c] = turn[d] => c = d
        /\ \A c \in colors : order[c] \in SortedBy(joined, c)
        /\ LET newId(c)  == Later(turn[c])
               at(h)     == CHOOSE r \in DOMAIN joined : joined[r].host = h
               body(c, r) ==
                 [op |-> "split", id |-> newId(c), n |-> Cardinality(DOMAIN order[c]),
                  rank |-> CHOOSE i \in DOMAIN order[c] : order[c][i] = r]
               grouping(c) == [i \in DOMAIN order[c] |-> joined[order[c][i]].host]
               answered == Declined(joined) \cup {r \in DOMAIN joined : joined[r].color \in colors}
           IN  /\ Reply([h \in {joined[r].host : r \in answered} |->
                          LET r == at(h) IN
                          IF joined[r].color = NoColor THEN [op |-> "declined"]
                          ELSE body(joined[r].color, r)])
               /\ groups' = [id \in DOMAIN groups \cup {newId(c) : c \in colors} |->
                               IF \E c \in colors : newId(c) = id
                               THEN grouping(CHOOSE c \in colors : newId(c) = id)
                               ELSE groups[id]]
               /\ uid' = Later(k)
               /\ issued' = issued \o [i \in 1 .. k |-> Later(i - 1)]

\* nccl_comm_split: the completion is only looked for when a rank joins others.
ServeSplit(h, c) ==
  LET first   == c.id \notin DOMAIN splitWaiting
      info    == [host |-> h, color |-> c.color, key |-> c.key]
      joined  == IF first THEN [r \in {c.rank} |-> info]
                 ELSE Put(splitWaiting[c.id].joined, c.rank, info)
      missing == (IF first THEN DOMAIN groups[c.id] ELSE splitWaiting[c.id].missing) \ {c.rank}
  IN  /\ UNCHANGED initWaiting
      /\ \/ /\ c.id \notin DOMAIN groups
            /\ Reply([x \in {h} |-> [op |-> "split", id |-> BadId, n |-> 0, rank |-> 0]])
            /\ UNCHANGED <<uid, groups, issued, splitWaiting>>
         \/ /\ c.id \in DOMAIN groups
            /\ ~ first /\ AllJoined(missing)
            /\ CompleteSplit(joined)
            /\ splitWaiting' = Without(splitWaiting, c.id)
         \/ /\ c.id \in DOMAIN groups
            /\ first \/ ~ AllJoined(missing)
            /\ splitWaiting' = Put(splitWaiting, c.id, [joined |-> joined, missing |-> missing])
            /\ UNCHANGED <<uid, groups, issued, inbox>>

\* The simulator takes the oldest call a host has sent it.
Serve(h) ==
  /\ outbox[h] # << >>
  /\ LET c == Head(outbox[h]) IN
     \/ c.op = "init"  /\ ServeInit(h, c)
     \/ c.op = "split" /\ ServeSplit(h, c)
  /\ outbox' = [outbox EXCEPT ![h] = Tail(@)]
  /\ UNCHANGED <<depth, grouped, expect, comms, members, made, panicked>>

-----------------------------------------------------------------------------
(***************************************************************************)
(* The hosts: NcclCaller and the communicators of stub/nccl.c              *)
(***************************************************************************)

\* ncclCommInitRank of one rank sends nothing.
IsSent(c) == c.op = "split" \/ c.n > 1

\* The calls of s that are sent, in order.
ToSend(s) ==
  LET sent[i \in 0 .. Len(s)] ==
        IF i = 0 THEN << >>
        ELSE IF IsSent(s[i]) THEN Append(sent[i - 1], s[i]) ELSE sent[i - 1]
  IN  sent[Len(s)]

\* The communicator that call c leaves h with, once a reply has been taken.
InitComm(c)     == [id |-> c.id, rank |-> c.rank, n |-> c.n, of |-> c]
SplitComm(c, m) == [id |-> m.id, rank |-> m.rank, n |-> m.n, of |-> c]

\* NcclCaller::call: inside a group the call is kept, outside it is sent and
\* its reply awaited.
Call(h, c) ==
  /\ Free(h) /\ Len(made[h]) < MaxCalls
  /\ made' = [made EXCEPT ![h] = Append(@, c)]
  /\ IF depth[h] > 0
     THEN grouped' = [grouped EXCEPT ![h] = Append(@, c)] /\ UNCHANGED <<outbox, expect, comms>>
     ELSE /\ UNCHANGED grouped
          /\ IF IsSent(c)
             THEN /\ outbox' = [outbox EXCEPT ![h] = <<c>>]
                  /\ expect' = [expect EXCEPT ![h] = <<c>>]
                  /\ UNCHANGED comms
             ELSE /\ comms' = [comms EXCEPT ![h] = @ \cup {InitComm(c)}]
                  /\ UNCHANGED <<outbox, expect>>
  /\ UNCHANGED <<simVars, depth, inbox, members, panicked>>

\* ncclCommInitRank with an id the program has passed round, once per id.
CommInitRank(h, id) ==
  \E r \in DOMAIN members[id] :
    LET c == [op |-> "init", id |-> id, rank |-> r, n |-> Cardinality(DOMAIN members[id])] IN
    /\ members[id][r] = h
    /\ \A i \in DOMAIN made[h] : made[h][i] # c
    /\ Call(h, c)

\* How often h has split a communicator.
Splits(h, id) == Cardinality({i \in DOMAIN made[h] : made[h][i].op = "split" /\ made[h][i].id = id})

\* ncclCommSplit of a communicator h has.
CommSplit(h, comm, color, key) ==
  Call(h, [op |-> "split", id |-> comm.id, rank |-> comm.rank, color |-> color, key |-> key,
           nth |-> Splits(h, comm.id)])

\* NcclCaller::group_start.
GroupStart(h) ==
  /\ Free(h) /\ depth[h] < MaxDepth
  /\ depth' = [depth EXCEPT ![h] = @ + 1]
  /\ UNCHANGED <<simVars, grouped, outbox, expect, inbox, comms, members, made, panicked>>

\* NcclCaller::group_end: the end of the outermost group sends the calls.
GroupEnd(h) ==
  LET d    == IF depth[h] > 0 THEN depth[h] - 1 ELSE 0
      sent == ToSend(grouped[h])
  IN  /\ Free(h)
      /\ depth' = [depth EXCEPT ![h] = d]
      /\ IF d = 0
         THEN /\ grouped' = [grouped EXCEPT ![h] = << >>]
              /\ outbox' = [outbox EXCEPT ![h] = sent]
              /\ expect' = [expect EXCEPT ![h] = sent]
              /\ comms' = [comms EXCEPT ![h] = @ \cup
                             {InitComm(grouped[h][i]) :
                                i \in {j \in DOMAIN grouped[h] : ~ IsSent(grouped[h][j])}}]
         ELSE UNCHANGED <<grouped, outbox, expect, comms>>
      /\ UNCHANGED <<simVars, inbox, members, made, panicked>>

\* Mutant: ReadsBody, for every split.
ReadsBodyAlways(c) == c.op = "split"

\* A split without a colour only waits for its reply.
ReadsBody(c) == c.op = "split" /\ c.color # NoColor

\* The unwraps of the bytes taken as the reply to call c.  An init takes the first
\* eight as its time, which a SplitResponse has too (handle_sync_response) and
\* the reply to a split without a colour, of one byte, has not; a split with a
\* colour takes a SplitResponse only.
Accepts(c, m) ==
  \/ c.op = "init" /\ m.op # "declined"
  \/ c.op = "split" /\ (ReadsBody(c) => m.op = "split")

\* recv_from_simulator, for the oldest call that waits for a reply.  The replies
\* do not say which call they belong to.
TakeReply(h) ==
  /\ expect[h] # << >> /\ outbox[h] = << >> /\ inbox[h] # << >> /\ h \notin panicked
  /\ LET c == Head(expect[h])
         m == Head(inbox[h])
         got == IF c.op = "init" THEN {InitComm(c)}
                ELSE IF ReadsBody(c) THEN {SplitComm(c, m)} ELSE {}
     IN  IF Accepts(c, m)
         THEN comms' = [comms EXCEPT ![h] = @ \cup got] /\ UNCHANGED panicked
         ELSE panicked' = panicked \cup {h} /\ UNCHANGED comms
  /\ expect' = [expect EXCEPT ![h] = Tail(@)]
  /\ inbox' = [inbox EXCEPT ![h] = Tail(@)]
  /\ UNCHANGED <<simVars, depth, grouped, outbox, members, made>>

Orders == {o \in UNION {[0 .. n - 1 -> Hosts] : n \in 1 .. Cardinality(Hosts)} :
             \A i, j \in DOMAIN o : o[i] = o[j] => i = j}

HostStep(h) ==
  \/ \E id \in DOMAIN members : CommInitRank(h, id)
  \/ \E comm \in comms[h], color \in Colors \cup {NoColor}, key \in Keys :
       CommSplit(h, comm, color, key)
  \/ GroupStart(h) \/ GroupEnd(h)

Next ==
  \/ \E o \in Orders : GetUniqueId(o)
  \/ \E h \in Hosts : HostStep(h) \/ Serve(h) \/ TakeReply(h)

Spec == Init /\ [][Next]_vars

-----------------------------------------------------------------------------
(***************************************************************************)
(* Properties                                                              *)
(***************************************************************************)

\* Once a host's call has returned, or its group has ended, what it was told of
\* its communicators is what the simulator has in comm_groups, which the
\* collectives are matched with: its size, and the host at its own rank.  (A communicator of one rank made by ncclCommInitRank is
\* unknown to the simulator, and the error reply has size 0.)
CommsAgree ==
  \A h \in Hosts : expect[h] = << >> => \A c \in comms[h] :
    (c.n > 1 \/ (c.n = 1 /\ c.of.op = "split")) =>
      /\ c.id \in DOMAIN groups
      /\ DOMAIN groups[c.id] = 0 .. c.n - 1
      /\ c.rank \in DOMAIN groups[c.id]
      /\ groups[c.id][c.rank] = h

\* c and d come of the n-th splits of the same communicator.
SameSplit(c, d) == c.of.op = "split" /\ d.of.op = "split" /\ c.of.id = d.of.id /\ c.of.nth = d.of.nth

\* What the splits behind c and d asked for is what c and d are.
Consistent(c, d) ==
  /\ c.id = d.id <=> c.of.color = d.of.color
  /\ (c.of.color = d.of.color /\ c.of.key < d.of.key) => c.rank < d.rank

\* Hosts whose n-th splits of one communicator have the same colour get the same
\* new communicator, others get different ones, and a smaller key means a
\* smaller rank (nccl_comm_split; new_groups, sort_by_key).
SplitAgree ==
  \A g, h \in Hosts : \A c \in comms[g], d \in comms[h] : SameSplit(c, d) => Consistent(c, d)

\* No id is handed out a second time, to the program or to the group of a split,
\* until all of them have been handed out (incr_nccl_id).
IdsFresh ==
  (\E i, j \in DOMAIN issued : i # j /\ issued[i] = issued[j]) =>
    IdSpace \subseteq {issued[i] : i \in DOMAIN issued}

\* The half-formed communicators and splits that h has joined.
Joined(h) ==
  {<<"init", id>> : id \in {i \in DOMAIN initWaiting :
     \E r \in DOMAIN initWaiting[i].joined : initWaiting[i].joined[r] = h}}
    \cup {<<"split", id>> : id \in {i \in DOMAIN splitWaiting :
     \E r \in DOMAIN splitWaiting[i].joined : splitWaiting[i].joined[r].host = h}}
====

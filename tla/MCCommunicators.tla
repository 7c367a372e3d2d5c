-------------------------- MODULE MCCommunicators --------------------------
(***************************************************************************)
(* Communicators for TLC, with the calls of one of three programs, chosen  *)
(* at the start: "apart", in which every host makes any two calls, no      *)
(* groups; "again", in which the hosts of one communicator make three      *)
(* calls, so that the result of a split is split again, and one            *)
(* communicator twice in a group; and "groups", in which the hosts of two  *)
(* communicators of two ranks initialize and split them, in groups of any  *)
(* mix of these calls.  Each is a restriction of Next.                     *)
(***************************************************************************)
EXTENDS Communicators, TLC

VARIABLES
  program,
  batches   \* history: host -> the calls it has sent, by group

\* For Keys and for the symmetry of the hosts and the colours.
TwoKeys  == {0, 1}
Symmetry == Permutations(Hosts) \cup Permutations(Colors)

\* All the splits that have been called.
SplitCalls == UNION {{c \in {made[h][i] : i \in DOMAIN made[h]} : c.op = "split"} : h \in Hosts}

ApartNext ==
  /\ program = "apart" /\ Next
  /\ \A h \in Hosts : depth'[h] = 0 /\ Len(made'[h]) <= 2

AgainNext ==
  /\ program = "again" /\ Next
  /\ Cardinality(DOMAIN members') <= 1
  /\ \A id \in DOMAIN members' : Cardinality(DOMAIN members'[id]) <= 2
  /\ \A h \in Hosts : Len(made'[h]) <= 3
  /\ \A c \in SplitCalls' : c.key = 0

\* The communicators of h that it has not split.
Ids(h)     == {id \in DOMAIN members : \E r \in DOMAIN members[id] : members[id][r] = h}
ToSplit(h) == {c \in comms[h] : c.of.op = "init" /\ Splits(h, c.id) = 0}

AllMade(h) == Len(made[h]) = 2 * Cardinality(Ids(h))

GroupsCall(h) ==
  \/ \E id \in Ids(h) : CommInitRank(h, id)
  \/ \E comm \in ToSplit(h), color \in Colors \cup {NoColor} : CommSplit(h, comm, color, 0)
  \/ ~ AllMade(h) /\ GroupStart(h)
  \/ grouped[h] # << >> /\ GroupEnd(h)

PairIds == \E o \in Orders : DOMAIN o = {0, 1} /\ (\A h \in Hosts : made[h] = << >>) /\ GetUniqueId(o)
AllIds  == Cardinality(DOMAIN members) = MaxIds

OneColor == Cardinality({c.color : c \in SplitCalls} \ {NoColor}) <= 1

GroupsNext ==
  /\ program = "groups"
  /\ PairIds \/ (AllIds /\ \E h \in Hosts : GroupsCall(h) \/ Serve(h) \/ TakeReply(h))
  /\ OneColor'

\* The calls sent together are those the host then awaits replies to.
Record ==
  batches' = [h \in Hosts |-> IF expect[h] = << >> /\ expect'[h] # << >>
                              THEN Append(batches[h], expect'[h]) ELSE batches[h]]

MCInit == Init /\ program \in {"apart", "again", "groups"} /\ batches = [h \in Hosts |-> << >>]
MCNext == (ApartNext \/ AgainNext \/ GroupsNext) /\ Record /\ UNCHANGED program
MCSpec == MCInit /\ [][MCNext]_<<vars, program, batches>>

\* The same with all splits of one colour, and none without.
ColoredNext == GroupsNext /\ NoColor \notin {c.color : c \in SplitCalls}' /\ Record /\ UNCHANGED program
GroupedSpec == MCInit /\ program = "groups" /\ [][ColoredNext]_<<vars, program, batches>>

-----------------------------------------------------------------------------
(***************************************************************************)
(* Properties of what hosts do in groups                                   *)
(***************************************************************************)

What(c) == <<c.op, c.id>>

\* The hosts that make call c, one each.
Callers(c) ==
  LET of == IF c.op = "init" THEN members ELSE groups
  IN  IF c.id \in DOMAIN of THEN {of[c.id][r] : r \in DOMAIN of[c.id]} ELSE {}

\* The calls like c or d that h has made, in order.
Order(h, c, d) ==
  SelectSeq([i \in DOMAIN made[h] |-> What(made[h][i])], LAMBDA w : w \in {What(c), What(d)})

\* c and d have the same callers, who all call in the same order.
InStep(c, d) ==
  /\ What(c) # What(d)
  /\ Callers(c) = Callers(d)
  /\ \A g, h \in Callers(c) : LET s == Order(g, c, d)
                                  t == Order(h, c, d)
                              IN  \A i \in DOMAIN s \cap DOMAIN t : s[i] = t[i]

\* What h sends together with call c is called by the same hosts in the same order.
Safe(h, c) ==
  \A i \in DOMAIN batches[h] : \A j, k \in DOMAIN batches[h][i] :
    (batches[h][i][j] = c /\ k # j) => InStep(c, batches[h][i][k])

\* A host only dies of a reply that is not what its call expects if some host
\* makes two calls of the group in another order, or only one of the two: then
\* the reply to the later can come first (group_end, capi.rs:776-798).  A group
\* that mixes inits and splits with and without a colour is safe when all hosts
\* of its communicators make its calls in the same order.
PanicOnlyOvertaken ==
  \A h \in panicked : \E i \in DOMAIN batches[h] : \E j \in DOMAIN batches[h][i] :
    ~ Safe(h, batches[h][i][j])

\* SplitAgree holds of the results of splits that no reply to another call of the
\* group can overtake: those made by themselves, and those in groups whose calls all
\* their hosts make in the same order.
SplitsInStepAgree ==
  \A g, h \in Hosts : \A c \in comms[g], d \in comms[h] :
    (SameSplit(c, d) /\ Safe(g, c.of) /\ Safe(h, d.of)) => Consistent(c, d)

\* Two splits of one communicator in the group h has sent last: the second takes the
\* place of the first in joined_ranks.
SplitsTwice(h) ==
  batches[h] # << >> /\
  LET b == batches[h][Len(batches[h])]
  IN  \E i, j \in DOMAIN b : i # j /\ b[i].op = "split" /\ What(b[i]) = What(b[j])

\* A host waits for ever only for ranks that have not made their call, but for two
\* cases: the split of a communicator of one rank, which is not looked at
\* when its only rank has joined (simulator.rs:956, 992), and a group that
\* splits one communicator twice.  Each reply a host awaits is on its way, or its
\* call is, or it is due when the missing ranks have joined.
NoReplyLost ==
  /\ \A id \in DOMAIN initWaiting :
       initWaiting[id].missing # {} /\ initWaiting[id].missing \cap DOMAIN initWaiting[id].joined = {}
  /\ \A id \in DOMAIN splitWaiting :
       LET w == splitWaiting[id] IN
       /\ w.missing # {} \/ Cardinality(DOMAIN groups[id]) = 1
       /\ w.missing \cup DOMAIN w.joined = DOMAIN groups[id]
       /\ w.missing \cap DOMAIN w.joined = {}
  /\ \A h \in Hosts \ panicked :
       ~ SplitsTwice(h) => Len(expect[h]) = Len(outbox[h]) + Len(inbox[h]) + Cardinality(Joined(h))
====

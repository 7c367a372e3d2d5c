------------------------------ MODULE NetApps ------------------------------
(***************************************************************************)
(* The network simulator run with applications                             *)
(* (phantora/netsim/src/app.rs, background_flow.rs, run_with_application   *)
(* in simulator.rs): an AppGroup starts its applications by timers at      *)
(* their offsets, marks their flows with the application's number, and     *)
(* restores tokens and relative times when the flows come back.            *)
(*                                                                         *)
(* A record of a flow is [ts, bytes, src, dst, virt, tok]; recs maps flows *)
(* to records.  An application answers every event by at most one of       *)
(* FlowArrive and AppFinish: none of the repository registers a timer of   *)
(* its own.  Flow ids are <<application, number>>: FLOW_ID makes them      *)
(* unique.  The outcome of an application is a set, one member for every   *)
(* shuffle of the random generator.                                        *)
(***************************************************************************)
EXTENDS NetSim

CONSTANT NoToken

VARIABLES
  apps,      \* application -> its offset and state
  output,    \* the applications that have finished
  flowTok,   \* stored_flow_token: flow -> the application's own token
  timerTok,  \* stored_timer_token: the timers the adapter registered
  events,    \* the events run_with_application has to handle
  finished   \* it has handled AppFinish

appVars == <<apps, output, flowTok, timerTok, events, finished>>

Nothing == << >>
Outcome(app, recs, fin) == [app |-> app, recs |-> recs, finish |-> fin]

AppsInit(group) ==
  /\ apps = group
  /\ output = {} /\ flowTok = << >> /\ timerTok = {} /\ events = << >> /\ finished = FALSE

-----------------------------------------------------------------------------

\* Replayer: all flows at once, and the end when all have come back.
ReplayerStart(s) == Outcome(s, s.trace, FALSE)
ReplayerComplete(s, recs) ==
  LET all == [f \in DOMAIN s.completed \cup DOMAIN recs |->
                IF f \in DOMAIN recs THEN recs[f] ELSE s.completed[f]]
  IN  Outcome([s EXCEPT !.completed = all], Nothing,
              Cardinality(DOMAIN all) = Cardinality(DOMAIN s.trace))

\* BackgroundFlowApp: the records of new flows from host pairs[i][1] to
\* pairs[i][2], and the state in which they are the remaining ones.
Make(a, s, pairs, now) ==
  [f \in {<<a, s.made + i>> : i \in DOMAIN pairs} |->
     [ts |-> now, bytes |-> s.size, virt |-> FALSE, tok |-> NoToken,
      src |-> pairs[f[2] - s.made][1], dst |-> pairs[f[2] - s.made][2]]]
Started(a, s, pairs, left, now) ==
  Outcome([s EXCEPT !.made = @ + Len(pairs), !.remaining = left + Len(pairs)],
          Make(a, s, pairs, now), FALSE)

AllPairs(n) == SetToSeq({<<Host(i), Host(j)>> : <<i, j>> \in
                           {p \in (0 .. n - 1) \X (0 .. n - 1) : p[1] # p[2]}})

\* plink_probe_round: the hosts in any order, two by two; with an odd number the
\* last one probes itself.
ProbeRounds(n) ==
  {[k \in 1 .. (n + 1) \div 2 |->
      <<Host(s[2 * k - 1]), Host(IF 2 * k > n THEN s[n] ELSE s[2 * k])>>] :
     s \in {s \in [1 .. n -> 0 .. n - 1] : IsInjective(s)}}

Rounds(s) == IF s.pattern = "alltoall" THEN {AllPairs(s.nhosts)} ELSE ProbeRounds(s.nhosts)

BackgroundStart(a, s) == {Started(a, s, pairs, 0, 0) : pairs \in Rounds(s)}

\* From its end on the application waits for the flows that remain.
Ending(s, left) == Outcome([s EXCEPT !.remaining = left], Nothing, left = 0)

\* Mutant: AlltoallComplete that counts the flows it starts anew twice.
AlltoallCompleteTwice(a, s, recs, now) ==
  LET left == s.remaining
      ids  == SetToSeq(DOMAIN recs)
      same == [i \in DOMAIN ids |-> <<recs[ids[i]].src, recs[ids[i]].dst>>]
  IN  IF now >= s.dur THEN Ending(s, left) ELSE Started(a, s, same, left, now)

\* Until its time is over every flow that completes is replaced by one like it.
AlltoallComplete(a, s, recs, now) ==
  LET left == s.remaining - Cardinality(DOMAIN recs)
      ids  == SetToSeq(DOMAIN recs)
      same == [i \in DOMAIN ids |-> <<recs[ids[i]].src, recs[ids[i]].dst>>]
  IN  IF now >= s.dur THEN Ending(s, left) ELSE Started(a, s, same, left, now)

\* Until its time is over the last flow of a round starts the next round.
PlinkComplete(a, s, recs, now) ==
  LET left == s.remaining - Cardinality(DOMAIN recs)
  IN  IF now >= s.dur THEN {Ending(s, left)}
      ELSE IF left = 0 THEN {Started(a, s, pairs, 0, now) : pairs \in ProbeRounds(s.nhosts)}
      ELSE {Outcome([s EXCEPT !.remaining = left], Nothing, FALSE)}

BackgroundComplete(a, s, recs, now) ==
  IF s.pattern = "alltoall" THEN {AlltoallComplete(a, s, recs, now)}
  ELSE PlinkComplete(a, s, recs, now)

\* Application::on_event of application a, at its own time.
OnStart(a) ==
  IF apps[a].kind = "replay" THEN {ReplayerStart(apps[a])} ELSE BackgroundStart(a, apps[a])
OnComplete(a, recs, now) ==
  IF apps[a].kind = "replay" THEN {ReplayerComplete(apps[a], recs)}
  ELSE BackgroundComplete(a, apps[a], recs, now)

-----------------------------------------------------------------------------

\* forward: what the applications in hit answered is taken over, with the start
\* times of their flows moved to the group's time and their tokens stored; the
\* tokens of the flows in gone have been restored.
Forward(hit, answer, gone) ==
  LET off(a)   == apps[a].off
      mark(a)  == [f \in DOMAIN answer[a].recs |->
                     [answer[a].recs[f] EXCEPT !.ts = @ + off(a), !.tok = a]]
      some     == {a \in hit : answer[a].recs # Nothing}
      order    == SetToSortSeq(some, <)
      new      == UNION {DOMAIN answer[a].recs : a \in hit}
  IN  /\ apps' = [a \in DOMAIN apps |-> IF a \in hit THEN answer[a].app ELSE apps[a]]
      /\ output' = output \cup {a \in hit : answer[a].finish}
      /\ flowTok' = [f \in (DOMAIN flowTok \ gone) \cup new |->
                       IF f \in new THEN answer[f[1]].recs[f].tok ELSE flowTok[f]]
      /\ events' = IF output' = DOMAIN apps THEN <<[kind |-> "finish"]>>
                   ELSE [i \in DOMAIN order |-> [kind |-> "arrive", recs |-> mark(order[i])]]

\* AppGroup::on_event(AppStart): one timer for every application.
GroupStart ==
  /\ event.kind = "start"
  /\ LET order == SetToSortSeq(DOMAIN apps, <)
     IN  events' = [i \in DOMAIN order |->
                      [kind |-> "timer", after |-> apps[order[i]].off, id |-> order[i]]]
  /\ timerTok' = DOMAIN apps
  /\ UNCHANGED <<apps, output, flowTok>>

\* AdapterNotification: the application the timer stands for starts.
GroupNotify ==
  /\ event.kind = "adapter"
  /\ event.id \in timerTok
  /\ \E o \in OnStart(event.tok) : Forward({event.tok}, [a \in {event.tok} |-> o], {})
  /\ UNCHANGED timerTok

\* Mutant: Own that does not restore the application's token.
OwnMarked(a) ==
  [f \in {f \in event.flows : fs[f].tok = a} |->
     [ts |-> fs[f].ts - apps[a].off, bytes |-> fs[f].bytes, src |-> fs[f].src,
      dst |-> fs[f].dst, virt |-> fs[f].virt, tok |-> fs[f].tok]]

\* The completed flows of application a, as it knows them.
Own(a) ==
  [f \in {f \in event.flows : fs[f].tok = a} |->
     [ts |-> fs[f].ts - apps[a].off, bytes |-> fs[f].bytes, src |-> fs[f].src,
      dst |-> fs[f].dst, virt |-> fs[f].virt, tok |-> flowTok[f]]]

\* FlowComplete: the flows are dispatched by their tokens.
GroupComplete ==
  /\ event.kind = "flows"
  /\ LET hit == {a \in DOMAIN apps : Own(a) # Nothing}
         outcomes == [a \in hit |-> OnComplete(a, Own(a), ts - apps[a].off)]
     IN  \E answer \in [hit -> UNION Range(outcomes)] :
           /\ \A a \in hit : answer[a] \in outcomes[a]
           /\ Forward(hit, answer, event.flows)
  /\ UNCHANGED timerTok

-----------------------------------------------------------------------------
(***************************************************************************)
(* run_with_application.                                                   *)
(***************************************************************************)

\* The next of the events the application answered is handled by on_event.
HandleArrive ==
  /\ Head(events).kind = "arrive"
  /\ OnFlowArrive(Head(events).recs)
  /\ UNCHANGED <<timers, finished>>
HandleTimer ==
  /\ Head(events).kind = "timer"
  /\ OnRegisterTimer(Head(events).after, Head(events).id, Head(events).id)
  /\ UNCHANGED finished
HandleFinish ==
  /\ Head(events).kind = "finish"
  /\ finished' = TRUE
  /\ UNCHANGED <<ts, netState, timers>>
Handle ==
  /\ events # << >>
  /\ HandleArrive \/ HandleTimer \/ HandleFinish
  /\ events' = Tail(events)
  /\ UNCHANGED <<call, from, event, apps, output, flowTok, timerTok>>

\* With no event left the simulator runs to the next completion or timer ...
Run ==
  /\ events = << >> /\ ~finished /\ event = NoEvent
  /\ StartStep
  /\ UNCHANGED <<ts, netState, timers, appVars>>

\* ... of which the group is told, unless all of its applications have finished.
Notify ==
  /\ call = "idle" /\ events = << >> /\ ~finished /\ event # NoEvent
  /\ IF output = DOMAIN apps
     THEN events' = <<[kind |-> "finish"]>> /\ UNCHANGED <<apps, output, flowTok, timerTok>>
     ELSE GroupStart \/ GroupNotify \/ GroupComplete
  /\ event' = NoEvent
  /\ UNCHANGED <<ts, netState, timers, call, from, finished>>

AppsNext == Handle \/ Run \/ Notify \/ (Iterate /\ UNCHANGED appVars)

-----------------------------------------------------------------------------

\* The flows of application a that it has not heard of yet: in the network,
\* on their way to it, or on their way back.
Owes(a) ==
  {f \in buf \cup running : f[1] = a}
    \cup UNION {DOMAIN events[i].recs :
                  i \in {i \in DOMAIN events :
                           events[i].kind = "arrive" /\ \E f \in DOMAIN events[i].recs : f[1] = a}}
    \cup (IF event # NoEvent /\ event.kind = "flows"
          THEN {f \in event.flows : f[1] = a} ELSE {})

\* An application group gives every application back exactly the flows it
\* started, each once, at its own time and with its own token, whatever flows of
\* other applications complete in the same step; a background application
\* counts its remaining flows exactly, and the group holds one token for each.
AppsGetOwnFlows ==
  \A a \in DOMAIN apps :
    /\ apps[a].kind = "replay" =>
         \A f \in DOMAIN apps[a].completed :
           f \in DOMAIN apps[a].trace /\ apps[a].completed[f] = apps[a].trace[f]
    /\ apps[a].kind = "background" /\ ~finished => apps[a].remaining = Cardinality(Owes(a))
    /\ ~finished => {f \in DOMAIN flowTok : f[1] = a} = Owes(a)
====

---------------------------- MODULE Client_proofs ----------------------------
(***************************************************************************)
(* Proofs about Client, for any threads, devices, sizes, answers and       *)
(* bounds.  The clock, the device memory and the pinned memory are apart:  *)
(* each has an invariant of its own, kept by every step of the others.     *)
(***************************************************************************)
EXTENDS Client, FiniteSetTheorems, TLAPS

\* Each thread has a place of its own: what Goto leaves alone and sets.
ThreadsHave == pc = [t \in Threads |-> pc[t]]

-----------------------------------------------------------------------------
(***************************************************************************)
(* The clock                                                               *)
(***************************************************************************)

\* The places of a thread in a call that touches the clock.
ClockPlaces == {"sent", "answered", "read", "launch", "nested", "launched"}
InClock(t)  == pc[t].at \in ClockPlaces

\* The times are numbers, and so are those a thread has noted.
ClockType ==
  /\ cpu \in Int /\ offset \in Int /\ base \in Int /\ app \in Int /\ twice \in Int
  /\ \A t \in Threads :
       /\ At(t, "sent") => pc[t].start \in Int /\ pc[t].time \in Int
       /\ At(t, "answered") => pc[t].end \in Int
       /\ At(t, "read") => pc[t].end \in Int /\ pc[t].curr \in Int
       /\ pc[t].at \in {"launch", "nested", "launched"} => pc[t].outer \in Int
       /\ At(t, "nested") => pc[t].start \in Int

\* What the clock should show.
Due == base + (IF ignore THEN 0 ELSE app - twice)

\* What the clock would show if the library's time since the instant from had
\* been taken out.
ShownSince(from) == IF ignore THEN offset ELSE from + offset

\* How far the clock is from what it should show, at each place of a call.
InCallExact(t) ==
  /\ At(t, "sent") => ShownSince(pc[t].start) = Due
  /\ pc[t].at \in {"launch", "nested", "launched"} => ShownSince(pc[t].outer) = Due
  /\ At(t, "read") => base = pc[t].end /\ Clock = pc[t].curr + (Due - base)

ClockHeld ==
  alone =>
    /\ \A t, u \in Threads : InClock(t) /\ InClock(u) => t = u
    /\ (\A t \in Threads : ~ InClock(t)) => Clock = Due
    /\ \A t \in Threads : InCallExact(t)

ClockInv == ThreadsHave /\ ClockType /\ ClockHeld

LEMMA ClockInit == Init => ClockInv
<1> SUFFICES ASSUME Init PROVE ClockInv
  OBVIOUS
<1>1. \A t \in Threads : pc[t] = Idle /\ pc[t].at = "idle"
  BY DEF Init, Idle
<1>2. ThreadsHave
  BY DEF Init, ThreadsHave
<1>3. ClockType
  BY <1>1 DEF Init, ClockType, At
<1>4. Clock = Due
  BY DEF Init, Clock, Due
<1>5. \A t \in Threads : ~ InClock(t) /\ InCallExact(t)
  BY <1>1 DEF InClock, ClockPlaces, InCallExact, At
<1>6. QED
  BY <1>2, <1>3, <1>4, <1>5 DEF ClockInv, ClockHeld

\* What the step of a thread leaves of the places of the others.
LEMMA GotoEffect ==
  ASSUME ThreadsHave, NEW t \in Threads, NEW r, Goto(t, r)
  PROVE  /\ ThreadsHave' /\ pc'[t] = r
         /\ \A u \in Threads : u # t => pc'[u] = pc[u]
BY DEF ThreadsHave, Goto

\* No step that leaves the clock alone and moves no thread in or out of a call
\* that touches it.
LEMMA ClockApart ==
  ASSUME ClockInv, UNCHANGED clockVars, ThreadsHave',
         \A t \in Threads : pc'[t] = pc[t] \/ (~ InClock(t) /\ ~ InClock(t)')
  PROVE  ClockInv'
<1>1. /\ cpu' = cpu /\ offset' = offset /\ ignore' = ignore
      /\ base' = base /\ app' = app /\ twice' = twice /\ alone' = alone
  BY DEF clockVars
<1>2. \A t \in Threads : InClock(t)' <=> InClock(t)
  BY DEF InClock
<1>3. \A t \in Threads : InClock(t)' => pc'[t] = pc[t]
  OBVIOUS
<1>4. ClockType'
  BY <1>1, <1>3 DEF ClockInv, ClockType, InClock, ClockPlaces, At
<1>5. \A t \in Threads : InCallExact(t) => InCallExact(t)'
  BY <1>1, <1>3 DEF InCallExact, InClock, ClockPlaces, At, ShownSince, Due, Clock
<1>6. Clock' = Clock /\ Due' = Due
  BY <1>1 DEF Clock, Due
<1>7. QED
  BY <1>1, <1>2, <1>4, <1>5, <1>6 DEF ClockInv, ClockHeld

\* Who else is in a call while thread t is, or when it begins one.
LEMMA AloneInCall ==
  ASSUME ClockInv, NEW t \in Threads, alone,
         InClock(t) \/ \A u \in Threads \ {t} : At(u, "idle")
  PROVE  \A u \in Threads : u # t => ~ InClock(u)
BY DEF ClockInv, ClockHeld, InClock, ClockPlaces, At

\* A step of thread t, when no other thread is in a call.
LEMMA ClockMoves ==
  ASSUME ThreadsHave', ClockType', NEW t \in Threads,
         \A u \in Threads : u # t => pc'[u] = pc[u],
         alone' => \A u \in Threads : u # t => ~ InClock(u),
         alone' /\ InClock(t)' => InCallExact(t)',
         alone' /\ ~ InClock(t)' => Clock' = Due'
  PROVE  ClockInv'
<1> SUFFICES ASSUME alone'
             PROVE  /\ \A u, v \in Threads : InClock(u)' /\ InClock(v)' => u = v
                    /\ (\A u \in Threads : ~ InClock(u)') => Clock' = Due'
                    /\ \A u \in Threads : InCallExact(u)'
  BY DEF ClockInv, ClockHeld
<1>1. \A u \in Threads : u # t => ~ InClock(u)'
  BY DEF InClock
<1>2. \A u \in Threads : ~ InClock(u)' => InCallExact(u)'
  BY DEF InCallExact, InClock, ClockPlaces, At
<1>3. QED
  BY <1>1, <1>2

LEMMA ClockStepKeeps ==
  ASSUME ClientAssumption, ClockInv, NEW t \in Threads, ClockStep(t)
  PROVE  ClockInv'
<1> USE DEF ClockInv
<1>0. ThreadsHave /\ ClockType
  OBVIOUS
<1>1. alone => InCallExact(t)
  BY DEF ClockHeld
<1>2. alone /\ (\A u \in Threads : ~ InClock(u)) => Clock = Due
  BY DEF ClockHeld
<1>3. CASE Compute(t)
  <2>1. /\ cpu' = cpu + 1 /\ app' = IF Measured(t) THEN app ELSE app + 1
        /\ alone' = (alone /\ \A u \in Threads \ {t} : At(u, "idle"))
        /\ pc' = pc /\ offset' = offset /\ ignore' = ignore /\ base' = base /\ twice' = twice
    BY <1>3 DEF Compute
  <2>2. ThreadsHave'
    BY <1>0, <2>1 DEF ThreadsHave
  <2>3. ClockType'
    BY <1>0, <2>1 DEF ClockType, At
  <2>4. alone' => alone /\ \A u \in Threads : u # t => ~ InClock(u)
    <3>1. alone' => alone /\ \A u \in Threads \ {t} : pc[u].at = "idle"
      BY <2>1 DEF At
    <3>2. QED
      BY <3>1 DEF InClock, ClockPlaces
  <2>5. ASSUME alone', InClock(t)' PROVE InCallExact(t)'
    BY <1>0, <1>1, <2>1, <2>4, <2>5
       DEF ClockType, InCallExact, InClock, ClockPlaces, At, ShownSince, Due, Clock, Measured
  <2>6. ASSUME alone', ~ InClock(t)' PROVE Clock' = Due'
    BY <1>0, <1>2, <2>1, <2>4, <2>6 DEF ClockType, InClock, ClockPlaces, Due, Clock, Measured
  <2>7. QED
    BY <2>1, <2>2, <2>3, <2>4, <2>5, <2>6, ClockMoves
<1>4. ASSUME NEW kind \in {"async", "sync", "query"}, Send(t, kind) PROVE ClockInv'
  <2> DEFINE r == [at |-> "sent", kind |-> kind, start |-> cpu, time |-> Clock]
  <2>1. /\ alone' = (alone /\ \A u \in Threads : At(u, "idle"))
        /\ cpu' = cpu /\ offset' = offset /\ ignore' = ignore /\ base' = base
        /\ app' = app /\ twice' = twice
    BY <1>4 DEF Send
  <2>2. ThreadsHave' /\ pc'[t] = r /\ \A u \in Threads : u # t => pc'[u] = pc[u]
    BY <1>0, <1>4, GotoEffect DEF Send
  <2>3. ClockType'
    BY <1>0, <2>1, <2>2 DEF ClockType, At, Clock
  <2>4. alone' => alone /\ \A u \in Threads : ~ InClock(u)
    BY <2>1 DEF InClock, ClockPlaces, At
  <2>5. ASSUME alone' PROVE InClock(t)' /\ InCallExact(t)'
    BY <1>0, <1>2, <2>1, <2>2, <2>4, <2>5
       DEF ClockType, InCallExact, InClock, ClockPlaces, At, ShownSince, Due, Clock
  <2>6. QED
    BY <2>2, <2>3, <2>4, <2>5, ClockMoves
<1>5. CASE Sent(t)
  <2>1. /\ At(t, "sent") /\ offset' = Subtracted(cpu - pc[t].start)
        /\ cpu' = cpu /\ ignore' = ignore /\ base' = base
        /\ app' = app /\ twice' = twice /\ alone' = alone
    BY <1>5 DEF Sent
  <2>2. ThreadsHave' /\ pc'[t] = Idle /\ \A u \in Threads : u # t => pc'[u] = pc[u]
    BY <1>0, <1>5, GotoEffect DEF Sent
  <2>3. ClockType'
    BY <1>0, <2>1, <2>2 DEF ClockType, At, Idle, Subtracted
  <2>4. alone' => \A u \in Threads : u # t => ~ InClock(u)
    BY <2>1, AloneInCall DEF InClock, ClockPlaces, At
  <2>5. ASSUME alone' PROVE ~ InClock(t)' /\ Clock' = Due'
    BY <1>0, <1>1, <2>1, <2>2, <2>5
       DEF ClockType, InCallExact, InClock, ClockPlaces, At, Idle, ShownSince, Due, Clock, Subtracted
  <2>6. QED
    BY <2>2, <2>3, <2>4, <2>5, ClockMoves
<1>6. CASE Answered(t)
  <2>1. /\ At(t, "sent") /\ offset' = Subtracted(cpu - pc[t].start)
        /\ cpu' = cpu /\ ignore' = ignore /\ base' = base
        /\ app' = app /\ twice' = twice /\ alone' = alone
    BY <1>6 DEF Answered
  <2>2. PICK d \in Answers : Goto(t, [at |-> "answered", end |-> pc[t].time + d])
    BY <1>6 DEF Answered
  <2>3. /\ ThreadsHave' /\ pc'[t] = [at |-> "answered", end |-> pc[t].time + d]
        /\ \A u \in Threads : u # t => pc'[u] = pc[u]
    BY <1>0, <2>2, GotoEffect
  <2>4. d \in Int
    BY DEF ClientAssumption
  <2>5. ClockType'
    BY <1>0, <2>1, <2>3, <2>4 DEF ClockType, At, Subtracted
  <2>6. alone' => \A u \in Threads : u # t => ~ InClock(u)
    BY <2>1, AloneInCall DEF InClock, ClockPlaces, At
  <2>7. InClock(t)' /\ InCallExact(t)'
    BY <2>3 DEF InCallExact, InClock, ClockPlaces, At
  <2>8. QED
    BY <2>3, <2>5, <2>6, <2>7, ClockMoves
<1>7. CASE SyncRead(t)
  <2>1. /\ At(t, "answered") /\ base' = pc[t].end /\ app' = 0 /\ twice' = 0
        /\ cpu' = cpu /\ offset' = offset /\ ignore' = ignore /\ alone' = alone
    BY <1>7 DEF SyncRead
  <2>2. /\ ThreadsHave' /\ pc'[t] = [at |-> "read", end |-> pc[t].end, curr |-> Clock]
        /\ \A u \in Threads : u # t => pc'[u] = pc[u]
    BY <1>0, <1>7, GotoEffect DEF SyncRead
  <2>3. ClockType'
    BY <1>0, <2>1, <2>2 DEF ClockType, At, Clock
  <2>4. alone' => \A u \in Threads : u # t => ~ InClock(u)
    BY <2>1, AloneInCall DEF InClock, ClockPlaces, At
  <2>5. InClock(t)' /\ InCallExact(t)'
    BY <1>0, <2>1, <2>2 DEF ClockType, InCallExact, InClock, ClockPlaces, At, Due, Clock
  <2>6. QED
    BY <2>2, <2>3, <2>4, <2>5, ClockMoves
<1>8. CASE SyncAdd(t)
  <2>1. /\ At(t, "read") /\ offset' = offset + pc[t].end - pc[t].curr
        /\ cpu' = cpu /\ ignore' = ignore /\ base' = base
        /\ app' = app /\ twice' = twice /\ alone' = alone
    BY <1>8 DEF SyncAdd
  <2>2. ThreadsHave' /\ pc'[t] = Idle /\ \A u \in Threads : u # t => pc'[u] = pc[u]
    BY <1>0, <1>8, GotoEffect DEF SyncAdd
  <2>3. ClockType'
    BY <1>0, <2>1, <2>2 DEF ClockType, At, Idle
  <2>4. alone' => \A u \in Threads : u # t => ~ InClock(u)
    BY <2>1, AloneInCall DEF InClock, ClockPlaces, At
  <2>5. ASSUME alone' PROVE ~ InClock(t)' /\ Clock' = Due'
    BY <1>0, <1>1, <2>1, <2>2, <2>5
       DEF ClockType, InCallExact, InClock, ClockPlaces, At, Idle, Due, Clock
  <2>6. QED
    BY <2>2, <2>3, <2>4, <2>5, ClockMoves
<1>9. CASE Polled(t)
  <2>1. /\ At(t, "sent") /\ cpu' = cpu /\ ignore' = ignore
        /\ app' = app /\ twice' = twice /\ alone' = alone
    BY <1>9 DEF Polled
  <2>2. PICK charge \in Nat : /\ offset' = Subtracted(cpu - pc[t].start) + charge
                              /\ base' = base + charge
    <3>1. PICK ready \in BOOLEAN :
            LET charge == IF ignore /\ ~ready THEN PollCost ELSE 0
            IN  offset' = Subtracted(cpu - pc[t].start) + charge /\ base' = base + charge
      BY <1>9 DEF Polled
    <3>2. PollCost \in Nat
      BY DEF ClientAssumption
    <3>3. QED
      BY <3>1, <3>2
  <2>3. ThreadsHave' /\ pc'[t] = Idle /\ \A u \in Threads : u # t => pc'[u] = pc[u]
    BY <1>0, <1>9, GotoEffect DEF Polled
  <2>4. ClockType'
    BY <1>0, <2>1, <2>2, <2>3 DEF ClockType, At, Idle, Subtracted
  <2>5. alone' => \A u \in Threads : u # t => ~ InClock(u)
    BY <2>1, AloneInCall DEF InClock, ClockPlaces, At
  <2>6. ASSUME alone' PROVE ~ InClock(t)' /\ Clock' = Due'
    BY <1>0, <1>1, <2>1, <2>2, <2>3, <2>6
       DEF ClockType, InCallExact, InClock, ClockPlaces, At, Idle, ShownSince, Due, Clock, Subtracted
  <2>7. QED
    BY <2>3, <2>4, <2>5, <2>6, ClockMoves
<1>10. CASE Launch(t)
  <2>1. /\ alone' = (alone /\ \A u \in Threads : At(u, "idle"))
        /\ cpu' = cpu /\ offset' = offset /\ ignore' = ignore /\ base' = base
        /\ app' = app /\ twice' = twice
    BY <1>10 DEF Launch
  <2>2. /\ ThreadsHave' /\ pc'[t] = [at |-> "launch", outer |-> cpu]
        /\ \A u \in Threads : u # t => pc'[u] = pc[u]
    BY <1>0, <1>10, GotoEffect DEF Launch
  <2>3. ClockType'
    BY <1>0, <2>1, <2>2 DEF ClockType, At
  <2>4. alone' => alone /\ \A u \in Threads : ~ InClock(u)
    BY <2>1 DEF InClock, ClockPlaces, At
  <2>5. ASSUME alone' PROVE InClock(t)' /\ InCallExact(t)'
    BY <1>0, <1>2, <2>1, <2>2, <2>4, <2>5
       DEF ClockType, InCallExact, InClock, ClockPlaces, At, ShownSince, Due, Clock
  <2>6. QED
    BY <2>2, <2>3, <2>4, <2>5, ClockMoves
<1>11. CASE LaunchUnknown(t)
  <2>1. /\ At(t, "launch") /\ app' = app + cpu - pc[t].outer
        /\ cpu' = cpu /\ offset' = offset /\ ignore' = ignore /\ base' = base
        /\ twice' = twice /\ alone' = alone
    BY <1>11 DEF LaunchUnknown
  <2>2. ThreadsHave' /\ pc'[t] = Idle /\ \A u \in Threads : u # t => pc'[u] = pc[u]
    BY <1>0, <1>11, GotoEffect DEF LaunchUnknown
  <2>3. ClockType'
    BY <1>0, <2>1, <2>2 DEF ClockType, At, Idle
  <2>4. alone' => \A u \in Threads : u # t => ~ InClock(u)
    BY <2>1, AloneInCall DEF InClock, ClockPlaces, At
  <2>5. ASSUME alone' PROVE ~ InClock(t)' /\ Clock' = Due'
    BY <1>0, <1>1, <2>1, <2>2, <2>5
       DEF ClockType, InCallExact, InClock, ClockPlaces, At, Idle, ShownSince, Due, Clock
  <2>6. QED
    BY <2>2, <2>3, <2>4, <2>5, ClockMoves
<1>12. CASE LaunchFlash(t)
  <2>1. /\ At(t, "launch")
        /\ cpu' = cpu /\ offset' = offset /\ ignore' = ignore /\ base' = base
        /\ app' = app /\ twice' = twice /\ alone' = alone
    BY <1>12 DEF LaunchFlash, clockVars
  <2>2. /\ ThreadsHave' /\ pc'[t] = [at |-> "nested", outer |-> pc[t].outer, start |-> cpu]
        /\ \A u \in Threads : u # t => pc'[u] = pc[u]
    BY <1>0, <1>12, GotoEffect DEF LaunchFlash
  <2>3. ClockType'
    BY <1>0, <2>1, <2>2 DEF ClockType, At
  <2>4. alone' => \A u \in Threads : u # t => ~ InClock(u)
    BY <2>1, AloneInCall DEF InClock, ClockPlaces, At
  <2>5. ASSUME alone' PROVE InClock(t)' /\ InCallExact(t)'
    BY <1>0, <1>1, <2>1, <2>2, <2>5
       DEF ClockType, InCallExact, InClock, ClockPlaces, At, ShownSince, Due
  <2>6. QED
    BY <2>2, <2>3, <2>4, <2>5, ClockMoves
<1>13. CASE NestedSent(t)
  <2>1. /\ At(t, "nested") /\ offset' = Subtracted(cpu - pc[t].start)
        /\ twice' = twice + cpu - pc[t].start
        /\ cpu' = cpu /\ ignore' = ignore /\ base' = base
        /\ app' = app /\ alone' = alone
    BY <1>13 DEF NestedSent
  <2>2. /\ ThreadsHave' /\ pc'[t] = [at |-> "launched", outer |-> pc[t].outer]
        /\ \A u \in Threads : u # t => pc'[u] = pc[u]
    BY <1>0, <1>13, GotoEffect DEF NestedSent
  <2>3. ClockType'
    BY <1>0, <2>1, <2>2 DEF ClockType, At, Subtracted
  <2>4. alone' => \A u \in Threads : u # t => ~ InClock(u)
    BY <2>1, AloneInCall DEF InClock, ClockPlaces, At
  <2>5. ASSUME alone' PROVE InClock(t)' /\ InCallExact(t)'
    BY <1>0, <1>1, <2>1, <2>2, <2>5
       DEF ClockType, InCallExact, InClock, ClockPlaces, At, ShownSince, Due, Subtracted
  <2>6. QED
    BY <2>2, <2>3, <2>4, <2>5, ClockMoves
<1>14. CASE Launched(t)
  <2>1. /\ pc[t].at \in {"launch", "launched"} /\ offset' = Subtracted(cpu - pc[t].outer)
        /\ cpu' = cpu /\ ignore' = ignore /\ base' = base
        /\ app' = app /\ twice' = twice /\ alone' = alone
    BY <1>14 DEF Launched
  <2>2. ThreadsHave' /\ pc'[t] = Idle /\ \A u \in Threads : u # t => pc'[u] = pc[u]
    BY <1>0, <1>14, GotoEffect DEF Launched
  <2>3. ClockType'
    BY <1>0, <2>1, <2>2 DEF ClockType, At, Idle, Subtracted
  <2>4. alone' => \A u \in Threads : u # t => ~ InClock(u)
    BY <2>1, AloneInCall DEF InClock, ClockPlaces, At
  <2>5. ASSUME alone' PROVE ~ InClock(t)' /\ Clock' = Due'
    BY <1>0, <1>1, <2>1, <2>2, <2>5
       DEF ClockType, InCallExact, InClock, ClockPlaces, At, Idle, ShownSince, Due, Clock, Subtracted
  <2>6. QED
    BY <2>2, <2>3, <2>4, <2>5, ClockMoves
<1>15. QED
  BY <1>3, <1>4, <1>5, <1>6, <1>7, <1>8, <1>9, <1>10, <1>11, <1>12, <1>13, <1>14 DEF ClockStep

-----------------------------------------------------------------------------
(***************************************************************************)
(* What the three uses leave alone of each other                           *)
(***************************************************************************)

MallocPlaces == {"register", "return", "bump"}
InMalloc(t)  == pc[t].at \in MallocPlaces
Pinning(t)   == At(t, "pin")

\* Steps that move threads only between places of S.
MovesWithin(S) ==
  \A u \in Threads : pc'[u] = pc[u] \/ (pc[u].at \in S /\ pc'[u].at \in S)

LEMMA GotoMoves ==
  ASSUME ThreadsHave, NEW t \in Threads, NEW r, Goto(t, r), NEW S, pc[t].at \in S, r.at \in S
  PROVE  ThreadsHave' /\ MovesWithin(S)
BY GotoEffect DEF MovesWithin

LEMMA ClockStepMoves ==
  ASSUME ThreadsHave, NEW t \in Threads, ClockStep(t)
  PROVE  /\ ThreadsHave' /\ MovesWithin(ClockPlaces \cup {"idle"})
         /\ UNCHANGED <<memVars, hostVars>>
<1> DEFINE S == ClockPlaces \cup {"idle"}
<1>1. CASE Compute(t)
  BY <1>1 DEF Compute, ThreadsHave, MovesWithin
<1>2. ASSUME NEW kind \in {"async", "sync", "query"}, Send(t, kind)
      PROVE  ThreadsHave' /\ MovesWithin(S) /\ UNCHANGED <<memVars, hostVars>>
  <2>1. pc[t].at \in S /\ Goto(t, [at |-> "sent", kind |-> kind, start |-> cpu, time |-> Clock])
    BY <1>2 DEF Send, At
  <2>2. [at |-> "sent", kind |-> kind, start |-> cpu, time |-> Clock].at \in S
    BY DEF ClockPlaces
  <2>3. QED
    BY <1>2, <2>1, <2>2, GotoMoves DEF Send
<1>3. CASE Answered(t)
  <2>1. PICK d \in Answers : Goto(t, [at |-> "answered", end |-> pc[t].time + d])
    BY <1>3 DEF Answered
  <2>2. pc[t].at \in S /\ [at |-> "answered", end |-> pc[t].time + d].at \in S
    BY <1>3 DEF Answered, At, ClockPlaces
  <2>3. QED
    BY <1>3, <2>1, <2>2, GotoMoves DEF Answered
<1>4. CASE SyncRead(t)
  <2>1. pc[t].at \in S /\ [at |-> "read", end |-> pc[t].end, curr |-> Clock].at \in S
    BY <1>4 DEF SyncRead, At, ClockPlaces
  <2>2. QED
    BY <1>4, <2>1, GotoMoves DEF SyncRead
<1>5. CASE Launch(t)
  <2>1. pc[t].at \in S /\ [at |-> "launch", outer |-> cpu].at \in S
    BY <1>5 DEF Launch, At, ClockPlaces
  <2>2. QED
    BY <1>5, <2>1, GotoMoves DEF Launch
<1>6. CASE LaunchFlash(t)
  <2>1. pc[t].at \in S /\ [at |-> "nested", outer |-> pc[t].outer, start |-> cpu].at \in S
    BY <1>6 DEF LaunchFlash, At, ClockPlaces
  <2>2. QED
    BY <1>6, <2>1, GotoMoves DEF LaunchFlash
<1>7. CASE NestedSent(t)
  <2>1. pc[t].at \in S /\ [at |-> "launched", outer |-> pc[t].outer].at \in S
    BY <1>7 DEF NestedSent, At, ClockPlaces
  <2>2. QED
    BY <1>7, <2>1, GotoMoves DEF NestedSent
<1>8. CASE Sent(t) \/ SyncAdd(t) \/ Polled(t) \/ LaunchUnknown(t) \/ Launched(t)
  <2>1. pc[t].at \in S /\ Goto(t, Idle) /\ UNCHANGED <<memVars, hostVars>>
    BY <1>8 DEF Sent, SyncAdd, Polled, LaunchUnknown, Launched, At, ClockPlaces
  <2>2. Idle.at \in S
    BY DEF Idle
  <2>3. QED
    BY <2>1, <2>2, GotoMoves
<1>9. QED
  BY <1>1, <1>2, <1>3, <1>4, <1>5, <1>6, <1>7, <1>8 DEF ClockStep

LEMMA MemStepMoves ==
  ASSUME ThreadsHave, NEW t \in Threads, MemStep(t)
  PROVE  /\ ThreadsHave' /\ MovesWithin(MallocPlaces \cup {"idle"})
         /\ UNCHANGED <<clockVars, hostVars>>
<1> DEFINE S == MallocPlaces \cup {"idle"}
<1>1. ASSUME NEW d \in Devices, NEW size \in Sizes, MallocRead(t, d, size)
      PROVE  ThreadsHave' /\ MovesWithin(S) /\ UNCHANGED <<clockVars, hostVars>>
  <2>1. pc[t].at \in S /\ [at |-> "register", dev |-> d, size |-> size, ptr |-> limit].at \in S
    BY <1>1 DEF MallocRead, At, MallocPlaces
  <2>2. QED
    BY <1>1, <2>1, GotoMoves DEF MallocRead
<1>2. CASE MallocRegister(t)
  <2>1. \/ Goto(t, [at |-> "return", dev |-> pc[t].dev, size |-> pc[t].size])
        \/ Goto(t, Idle)
    BY <1>2 DEF MallocRegister
  <2>2. /\ pc[t].at \in S /\ [at |-> "return", dev |-> pc[t].dev, size |-> pc[t].size].at \in S
        /\ Idle.at \in S
    BY <1>2 DEF MallocRegister, At, MallocPlaces, Idle
  <2>3. QED
    BY <1>2, <2>1, <2>2, GotoMoves DEF MallocRegister
<1>3. CASE MallocReturn(t)
  <2>1. /\ pc[t].at \in S
        /\ [at |-> "bump", dev |-> pc[t].dev, size |-> pc[t].size, ptr |-> limit].at \in S
    BY <1>3 DEF MallocReturn, At, MallocPlaces
  <2>2. QED
    BY <1>3, <2>1, GotoMoves DEF MallocReturn
<1>4. CASE MallocBump(t)
  <2>1. pc[t].at \in S /\ Idle.at \in S
    BY <1>4 DEF MallocBump, At, MallocPlaces, Idle
  <2>2. QED
    BY <1>4, <2>1, GotoMoves DEF MallocBump
<1>5. ASSUME UNCHANGED <<pc, clockVars, hostVars>>
      PROVE  ThreadsHave' /\ MovesWithin(S) /\ UNCHANGED <<clockVars, hostVars>>
  BY <1>5 DEF ThreadsHave, MovesWithin
<1>6. ASSUME NEW b \in live, NEW d \in Devices, Free(t, b, d)
      PROVE  UNCHANGED <<pc, clockVars, hostVars>>
  BY <1>6 DEF Free
<1>7. ASSUME NEW d \in Devices, MemGetInfo(t, d) \/ DeviceReset(t, d)
      PROVE  UNCHANGED <<pc, clockVars, hostVars>>
  BY <1>7 DEF MemGetInfo, DeviceReset
<1>8. QED
  BY <1>1, <1>2, <1>3, <1>4, <1>5, <1>6, <1>7 DEF MemStep

LEMMA HostStepMoves ==
  ASSUME ThreadsHave, NEW t \in Threads, HostStep(t)
  PROVE  /\ ThreadsHave' /\ MovesWithin({"idle", "pin"})
         /\ UNCHANGED <<clockVars, memVars>>
<1>1. ASSUME NEW size \in Sizes, HostAlloc(t, size)
      PROVE  ThreadsHave' /\ MovesWithin({"idle", "pin"}) /\ UNCHANGED <<clockVars, memVars>>
  <2>1. pc[t].at \in {"idle", "pin"} /\ [at |-> "pin", ptr |-> heap, size |-> size].at \in {"idle", "pin"}
    BY <1>1 DEF HostAlloc, At
  <2>2. QED
    BY <1>1, <2>1, GotoMoves DEF HostAlloc
<1>2. CASE HostRegister(t)
  <2>1. pc[t].at \in {"idle", "pin"} /\ Idle.at \in {"idle", "pin"}
    BY <1>2 DEF HostRegister, At, Idle
  <2>2. QED
    BY <1>2, <2>1, GotoMoves DEF HostRegister
<1>3. ASSUME NEW p \in DOMAIN pinned, HostUnregister(t, p)
      PROVE  ThreadsHave' /\ MovesWithin({"idle", "pin"}) /\ UNCHANGED <<clockVars, memVars>>
  BY <1>3 DEF HostUnregister, ThreadsHave, MovesWithin
<1>4. QED
  BY <1>1, <1>2, <1>3 DEF HostStep

\* The clock's invariant, through every step.
LEMMA ClockNext ==
  ASSUME ClientAssumption, ClockInv, [Next]_vars
  PROVE  ClockInv'
<1>1. ThreadsHave
  BY DEF ClockInv
<1>2. ASSUME NEW S, S \cap ClockPlaces = {}, MovesWithin(S), ThreadsHave', UNCHANGED clockVars
      PROVE  ClockInv'
  <2>1. \A u \in Threads : pc'[u] = pc[u] \/ (~ InClock(u) /\ ~ InClock(u)')
    BY <1>2 DEF MovesWithin, InClock
  <2>2. QED
    BY <1>2, <2>1, ClockApart
<1>3. ASSUME NEW t \in Threads, MemStep(t) PROVE ClockInv'
  <2>1. (MallocPlaces \cup {"idle"}) \cap ClockPlaces = {}
    BY DEF MallocPlaces, ClockPlaces
  <2>2. QED
    BY <1>1, <1>2, <1>3, <2>1, MemStepMoves
<1>4. ASSUME NEW t \in Threads, HostStep(t) PROVE ClockInv'
  <2>1. {"idle", "pin"} \cap ClockPlaces = {}
    BY DEF ClockPlaces
  <2>2. QED
    BY <1>1, <1>2, <1>4, <2>1, HostStepMoves
<1>5. CASE UNCHANGED vars
  <2>1. UNCHANGED clockVars /\ pc' = pc
    BY <1>5 DEF vars
  <2>2. ThreadsHave'
    BY <1>1, <2>1 DEF ThreadsHave
  <2>3. QED
    BY <2>1, <2>2, ClockApart
<1>6. QED
  BY <1>3, <1>4, <1>5, ClockStepKeeps DEF Next

\* Spec implies that the clock is kept.
THEOREM ClockInvariant == Spec => []ClockInv
<1>1. ClockInv /\ [Next]_vars => ClockInv'
  BY ClientAssumption, ClockNext
<1>2. QED
  BY <1>1, ClockInit, PTL DEF Spec

\* The clock of the client library: as long as no thread runs while another is
\* in a call, the time spent in the library is taken out exactly once
\* (subtract_cpu_time, handle_sync_response), a flash-attention launch excepted.
THEOREM ClockIsExact == Spec => []ClockExact
<1>1. ClockInv => ClockExact
  <2> SUFFICES ASSUME ClockInv, alone, \A t \in Threads : At(t, "idle")
               PROVE  Clock = base + (IF ignore THEN 0 ELSE app - twice)
    BY DEF ClockExact
  <2>1. \A t \in Threads : ~ InClock(t)
    BY DEF InClock, ClockPlaces, At
  <2>2. QED
    BY <2>1 DEF ClockInv, ClockHeld, Due
<1>2. QED
  BY <1>1, ClockInvariant, PTL

-----------------------------------------------------------------------------
(***************************************************************************)
(* Sums.  Allocated is a fold of the community modules: a recursive        *)
(* function over the subsets of a set.  Without induction theorems, the    *)
(* facts about it are proved by taking a least counterexample.             *)
(***************************************************************************)

\* A nonempty set of natural numbers has a least element.
LEMMA LeastNumber ==
  ASSUME NEW T \in SUBSET Nat, T # {}
  PROVE  \E m \in T : \A n \in T : m <= n
<1>1. PICK m \in T : \A n \in T : ~ (<<n, m>> \in OpToRel(<, Nat))
  BY NatLessThanWellFounded, WFMin
<1>2. \A n \in T : n < m => <<n, m>> \in OpToRel(<, Nat)
  BY DEF OpToRel
<1>3. \A n \in T : n \in Nat /\ m \in Nat /\ ~ (n < m)
  BY <1>1, <1>2
<1>4. \A n \in T : m <= n
  BY <1>3
<1>5. QED
  BY <1>4

SumOf(f, S) == MapThenSumSet(LAMBDA p : f[p], S)

\* The element the fold takes from s, and one turn of the fold.
Taken(s)      == CHOOSE x \in s : TRUE
Turn(f, g, s) == IF s = {} THEN 0 ELSE f[Taken(s)] + g[s \ {Taken(s)}]

\* g folds f over the subsets of S, or those of fewer than n elements.
IsFold(f, S, g)      == \A s \in SUBSET S : g[s] = Turn(f, g, s)
IsFoldTo(f, S, g, n) == \A s \in SUBSET S : Cardinality(s) < n => g[s] = Turn(f, g, s)

\* A turn that reaches all sets of up to n + 1 elements from those of n.
LEMMA FoldGrows ==
  ASSUME NEW f, NEW S, IsFiniteSet(S), NEW n \in Nat, NEW g,
         IsFoldTo(f, S, g, n), NEW h, h = [s \in SUBSET S |-> Turn(f, g, s)]
  PROVE  IsFoldTo(f, S, h, n + 1)
<1> SUFFICES ASSUME NEW s \in SUBSET S, Cardinality(s) < n + 1, s # {}
             PROVE  h[s] = Turn(f, h, s)
  BY DEF Turn, IsFoldTo
<1> DEFINE r == s \ {Taken(s)}
<1>1. Taken(s) \in s
  BY DEF Taken
<1>2. IsFiniteSet(s) /\ Cardinality(s) \in Nat
  BY FS_Subset, FS_CardinalityType
<1>3. Cardinality(r) = Cardinality(s) - 1
  BY <1>1, <1>2, FS_RemoveElement
<1>4. r \in SUBSET S /\ Cardinality(r) < n
  BY <1>2, <1>3
<1>5. h[r] = g[r]
  BY <1>4 DEF IsFoldTo
<1>6. QED
  BY <1>5 DEF Turn

\* The function the fold is defined by exists.
LEMMA FoldExists ==
  ASSUME NEW f, NEW S, IsFiniteSet(S)
  PROVE  \E g : g = [s \in SUBSET S |-> Turn(f, g, s)]
<1> DEFINE Good(n) == \E g : IsFoldTo(f, S, g, n)
           Bad     == {n \in Nat : ~ Good(n)}
<1>1. Good(0)
  <2>1. \A s \in SUBSET S : Cardinality(s) \in Nat
    BY FS_Subset, FS_CardinalityType
  <2>2. QED
    BY <2>1 DEF IsFoldTo
<1>2. ASSUME NEW n \in Nat, Good(n) PROVE Good(n + 1)
  <2>1. PICK g : IsFoldTo(f, S, g, n)
    BY <1>2
  <2> DEFINE h == [s \in SUBSET S |-> Turn(f, g, s)]
  <2> HIDE DEF h
  <2>2. h = [s \in SUBSET S |-> Turn(f, g, s)]
    BY DEF h
  <2>3. IsFoldTo(f, S, h, n + 1)
    BY <2>1, <2>2, FoldGrows
  <2>4. QED
    BY <2>3
<1> HIDE DEF Good
<1>3. Bad = {}
  <2> SUFFICES ASSUME Bad # {} PROVE FALSE
    OBVIOUS
  <2>1. PICK m \in Bad : \A n \in Bad : m <= n
    BY LeastNumber
  <2>2. m # 0 /\ m \in Nat
    BY <1>1
  <2>3. m - 1 \in Nat /\ ~ Good(m)
    BY <2>2
  <2>4. Good(m - 1)
    BY <2>1, <2>3
  <2>5. Good((m - 1) + 1)
    BY <1>2, <2>3, <2>4
  <2>6. QED
    BY <2>2, <2>3, <2>5
<1>4. Cardinality(S) + 1 \in Nat
  BY FS_CardinalityType
<1>5. Good(Cardinality(S) + 1)
  BY <1>3, <1>4
<1>6. PICK g : IsFoldTo(f, S, g, Cardinality(S) + 1)
  BY <1>5 DEF Good
<1>7. \A s \in SUBSET S : Cardinality(s) < Cardinality(S) + 1
  BY FS_Subset, FS_CardinalityType
<1>8. \A s \in SUBSET S : g[s] = Turn(f, g, s)
  BY <1>6, <1>7 DEF IsFoldTo
<1> DEFINE h == [s \in SUBSET S |-> g[s]]
<1> HIDE DEF h
<1>9. \A s \in SUBSET S : h[s] = Turn(f, h, s)
  <2> SUFFICES ASSUME NEW s \in SUBSET S PROVE h[s] = Turn(f, h, s)
    OBVIOUS
  <2>1. h[s] = g[s] /\ h[s \ {Taken(s)}] = g[s \ {Taken(s)}]
    BY DEF h
  <2>2. QED
    BY <1>8, <2>1 DEF Turn
<1>10. h = [s \in SUBSET S |-> Turn(f, h, s)]
  BY <1>9 DEF h
<1>11. QED
  BY <1>10

\* Two folds of one function agree where both are defined.
LEMMA FoldsAgree ==
  ASSUME NEW f, NEW A, NEW B, IsFiniteSet(A),
         NEW g, IsFold(f, A, g), NEW h, IsFold(f, B, h)
  PROVE  \A s \in SUBSET A : s \subseteq B => g[s] = h[s]
<1> DEFINE Bad == {n \in Nat : \E s \in SUBSET A : s \subseteq B /\ Cardinality(s) = n /\ g[s] # h[s]}
<1>1. Bad = {}
  <2> SUFFICES ASSUME Bad # {} PROVE FALSE
    OBVIOUS
  <2>1. PICK m \in Bad : \A n \in Bad : m <= n
    BY LeastNumber
  <2>2. PICK s \in SUBSET A : s \subseteq B /\ Cardinality(s) = m /\ g[s] # h[s]
    BY <2>1
  <2>3. s # {}
    BY <2>2 DEF Turn, IsFold
  <2>4. Taken(s) \in s
    BY <2>3 DEF Taken
  <2>5. IsFiniteSet(s)
    BY FS_Subset
  <2> DEFINE r == s \ {Taken(s)}
  <2>6. Cardinality(r) = m - 1 /\ Cardinality(r) \in Nat
    BY <2>2, <2>4, <2>5, FS_RemoveElement, FS_CardinalityType
  <2>7. g[r] = h[r]
    <3>1. \A n \in Bad : m <= n /\ n \in Nat /\ m \in Nat
      BY <2>1
    <3>2. Cardinality(r) \notin Bad
      <4> HIDE DEF Bad
      <4>1. QED
        BY <2>6, <3>1
    <3>3. QED
      BY <2>2, <2>6, <3>2
  <2>8. QED
    BY <2>2, <2>3, <2>7 DEF Turn, IsFold
<1>2. \A s \in SUBSET A : Cardinality(s) \in Nat
  BY FS_Subset, FS_CardinalityType
<1>3. QED
  BY <1>1, <1>2

\* The sum over a set is the value of any fold over a larger one.
LEMMA SumIsFold ==
  ASSUME NEW f, NEW S, IsFiniteSet(S)
  PROVE  \E g : IsFold(f, S, g) /\ \A s \in SUBSET S : SumOf(f, s) = g[s]
<1>1. \A s : SumOf(f, s) = (CHOOSE g : g = [r \in SUBSET s |-> Turn(f, g, r)])[s]
  BY Zenon DEF SumOf, MapThenSumSet, MapThenFoldSet, Turn, Taken
<1> DEFINE fold(s) == CHOOSE g : g = [r \in SUBSET s |-> Turn(f, g, r)]
<1>2. \A s \in SUBSET S : fold(s) = [r \in SUBSET s |-> Turn(f, fold(s), r)]
  <2> SUFFICES ASSUME NEW s \in SUBSET S PROVE fold(s) = [r \in SUBSET s |-> Turn(f, fold(s), r)]
    OBVIOUS
  <2>1. \E g : g = [r \in SUBSET s |-> Turn(f, g, r)]
    BY FS_Subset, FoldExists
  <2>2. QED
    BY <2>1
<1>3. \A s \in SUBSET S : SumOf(f, s) = fold(s)[s]
  BY <1>1
<1> HIDE DEF fold
<1>4. \A s \in SUBSET S : IsFold(f, s, fold(s))
  BY <1>2 DEF IsFold
<1>5. \A s \in SUBSET S : fold(s)[s] = fold(S)[s]
  <2> SUFFICES ASSUME NEW s \in SUBSET S PROVE fold(s)[s] = fold(S)[s]
    OBVIOUS
  <2>1. IsFold(f, s, fold(s))
    BY <1>4
  <2>2. IsFold(f, S, fold(S))
    BY <1>4
  <2>3. IsFiniteSet(s)
    BY FS_Subset
  <2>4. \A r \in SUBSET s : r \subseteq S => fold(s)[r] = fold(S)[r]
    BY <2>1, <2>2, <2>3, FoldsAgree
  <2>5. QED
    BY <2>4
<1>6. QED
  BY <1>3, <1>4, <1>5

LEMMA SumStep ==
  ASSUME NEW f, NEW S, IsFiniteSet(S)
  PROVE  /\ SumOf(f, {}) = 0
         /\ S # {} => SumOf(f, S) = f[Taken(S)] + SumOf(f, S \ {Taken(S)})
<1>1. PICK g : IsFold(f, S, g) /\ \A s \in SUBSET S : SumOf(f, s) = g[s]
  BY SumIsFold
<1>2. S \in SUBSET S /\ {} \in SUBSET S /\ S \ {Taken(S)} \in SUBSET S
  OBVIOUS
<1>3. QED
  BY <1>1, <1>2 DEF Turn, IsFold

\* A sum over a finite set of natural numbers: its type, that any element may
\* be taken first, and that only the values over the set matter.
LEMMA SumFacts ==
  ASSUME NEW f, NEW S, IsFiniteSet(S), \A x \in S : f[x] \in Nat
  PROVE  /\ SumOf(f, S) \in Nat
         /\ \A x \in S : SumOf(f, S) = f[x] + SumOf(f, S \ {x})
<1> DEFINE Right(s) == /\ SumOf(f, s) \in Nat
                       /\ \A x \in s : SumOf(f, s) = f[x] + SumOf(f, s \ {x})
           Bad      == {n \in Nat : \E s \in SUBSET S : Cardinality(s) = n /\ ~ Right(s)}
<1>1. ASSUME NEW s \in SUBSET S,
             \A r \in SUBSET S : Cardinality(r) < Cardinality(s) => Right(r)
      PROVE  Right(s)
  <2>1. IsFiniteSet(s) /\ Cardinality(s) \in Nat
    BY FS_Subset, FS_CardinalityType
  <2>2. CASE s = {}
    <3>1. SumOf(f, s) = 0
      BY <2>1, <2>2, SumStep
    <3>2. QED
      BY <2>2, <3>1
  <2>3. CASE s # {}
    <3> DEFINE c == Taken(s)
    <3>1. c \in s /\ SumOf(f, s) = f[c] + SumOf(f, s \ {c})
      BY <2>1, <2>3, SumStep DEF Taken
    <3>2. ASSUME NEW x \in s
          PROVE  IsFiniteSet(s \ {x}) /\ Right(s \ {x})
      <4>1. IsFiniteSet(s \ {x}) /\ Cardinality(s \ {x}) = Cardinality(s) - 1
        BY <2>1, FS_RemoveElement
      <4>2. Cardinality(s \ {x}) < Cardinality(s) /\ s \ {x} \in SUBSET S
        BY <2>1, <4>1
      <4>3. QED
        BY <1>1, <4>1, <4>2
    <3> HIDE DEF c
    <3>3. SumOf(f, s) \in Nat
      BY <3>1, <3>2
    <3>4. ASSUME NEW x \in s PROVE SumOf(f, s) = f[x] + SumOf(f, s \ {x})
      <4>1. CASE x = c
        BY <3>1, <4>1
      <4>2. CASE x # c
        <5> DEFINE r == (s \ {c}) \ {x}
        <5>1. x \in s \ {c} /\ c \in s \ {x} /\ r = (s \ {x}) \ {c}
          BY <3>1, <4>2
        <5>2. SumOf(f, s \ {c}) = f[x] + SumOf(f, r)
          BY <3>1, <3>2, <5>1
        <5>3. SumOf(f, s \ {x}) = f[c] + SumOf(f, r)
          BY <3>2, <5>1
        <5>4. Right(r)
          <6>1. Cardinality(s \ {c}) = Cardinality(s) - 1 /\ IsFiniteSet(s \ {c})
            BY <2>1, <3>1, FS_RemoveElement
          <6>2. Cardinality(r) = Cardinality(s \ {c}) - 1
            BY <5>1, <6>1, FS_RemoveElement
          <6>3. Cardinality(r) < Cardinality(s) /\ r \in SUBSET S
            BY <2>1, <6>1, <6>2
          <6>4. QED
            BY <1>1, <6>3
        <5>5. SumOf(f, r) \in Nat /\ f[x] \in Nat /\ f[c] \in Nat
          BY <3>1, <5>4
        <5> HIDE DEF r
        <5>6. QED
          BY <3>1, <5>2, <5>3, <5>5
      <4>3. QED
        BY <4>1, <4>2
    <3>5. QED
      BY <3>3, <3>4
  <2>4. QED
    BY <2>2, <2>3
<1>2. \A s \in SUBSET S : Cardinality(s) \in Nat
  BY FS_Subset, FS_CardinalityType
<1> HIDE DEF Right
<1>3. Bad = {}
  <2> SUFFICES ASSUME Bad # {} PROVE FALSE
    OBVIOUS
  <2>1. PICK m \in Bad : \A n \in Bad : m <= n
    BY LeastNumber
  <2>2. PICK s \in SUBSET S : Cardinality(s) = m /\ ~ Right(s)
    BY <2>1
  <2>3. \A r \in SUBSET S : Cardinality(r) < m => Right(r)
    <3> SUFFICES ASSUME NEW r \in SUBSET S, Cardinality(r) < m PROVE Right(r)
      OBVIOUS
    <3>1. Cardinality(r) \in Nat /\ m \in Nat
      BY <1>2
    <3>2. Cardinality(r) \notin Bad
      BY <2>1, <3>1
    <3>3. QED
      BY <3>1, <3>2
  <2>4. QED
    BY <1>1, <2>2, <2>3
<1>4. Right(S)
  BY <1>2, <1>3
<1>5. QED
  BY <1>4 DEF Right

\* Only the values over the set matter.
LEMMA SumAgrees ==
  ASSUME NEW f, NEW g, NEW S, IsFiniteSet(S), \A x \in S : f[x] = g[x]
  PROVE  SumOf(f, S) = SumOf(g, S)
<1>1. PICK p : IsFold(f, S, p) /\ \A s \in SUBSET S : SumOf(f, s) = p[s]
  BY SumIsFold
<1>2. PICK q : IsFold(g, S, q) /\ \A s \in SUBSET S : SumOf(g, s) = q[s]
  BY SumIsFold
<1>3. IsFold(f, S, q)
  <2> SUFFICES ASSUME NEW s \in SUBSET S PROVE q[s] = Turn(f, q, s)
    BY DEF IsFold
  <2>1. s # {} => Taken(s) \in S
    BY DEF Taken
  <2>2. QED
    BY <1>2, <2>1 DEF Turn, IsFold
<1>4. \A s \in SUBSET S : s \subseteq S => p[s] = q[s]
  BY <1>1, <1>3, FoldsAgree
<1>5. QED
  BY <1>1, <1>2, <1>4

-----------------------------------------------------------------------------
(***************************************************************************)
(* Pinned memory                                                           *)
(***************************************************************************)

\* Two blocks of m and n units, at p and at q, that do not overlap, and one that
\* ends by end.
Apart(p, m, q, n) == p + m <= q \/ q + n <= p

IsBlock(p, m, end) == p \in Int /\ m \in Int /\ m > 0 /\ p + m <= end

\* The blocks registered, and those on their way, are below the end of what has
\* been handed out, and apart.
PinnedInv ==
  /\ heap \in Int
  /\ \A p \in DOMAIN pinned : IsBlock(p, pinned[p], heap)
  /\ \A p, q \in DOMAIN pinned : p # q => Apart(p, pinned[p], q, pinned[q])
  /\ \A t \in Threads : Pinning(t) =>
       /\ IsBlock(pc[t].ptr, pc[t].size, heap)
       /\ \A p \in DOMAIN pinned : Apart(p, pinned[p], pc[t].ptr, pc[t].size)
  /\ \A t, u \in Threads : Pinning(t) /\ Pinning(u) /\ t # u =>
       Apart(pc[t].ptr, pc[t].size, pc[u].ptr, pc[u].size)

LEMMA PinnedInit == Init => PinnedInv
<1> SUFFICES ASSUME Init PROVE PinnedInv
  OBVIOUS
<1>1. DOMAIN pinned = {} /\ heap = 1
  BY DEF Init
<1>2. \A t \in Threads : pc[t] = Idle /\ pc[t].at # "pin"
  BY DEF Init, Idle
<1>3. QED
  BY <1>1, <1>2 DEF PinnedInv, Pinning, At

\* Steps that leave the pinned memory and the threads that pin alone.
LEMMA PinnedApart ==
  ASSUME PinnedInv, UNCHANGED hostVars,
         \A t \in Threads : pc'[t] = pc[t] \/ (~ Pinning(t) /\ ~ Pinning(t)')
  PROVE  PinnedInv'
<1>1. pinned' = pinned /\ heap' = heap
  BY DEF hostVars
<1>2. \A t \in Threads : Pinning(t)' => Pinning(t) /\ pc'[t] = pc[t]
  BY DEF Pinning, At
<1>3. QED
  BY <1>1, <1>2 DEF PinnedInv, IsBlock, Apart

LEMMA HostStepKeeps ==
  ASSUME ClientAssumption, ThreadsHave, PinnedInv, NEW t \in Threads, HostStep(t)
  PROVE  PinnedInv'
<1>1. ASSUME NEW size \in Sizes, HostAlloc(t, size) PROVE PinnedInv'
  <2>1. /\ pc'[t] = [at |-> "pin", ptr |-> heap, size |-> size]
        /\ \A u \in Threads : u # t => pc'[u] = pc[u]
    BY <1>1, GotoEffect DEF HostAlloc
  <2>2. size \in Int /\ size > 0 /\ heap \in Int
    BY DEF ClientAssumption, PinnedInv
  <2>3. heap' = heap + size /\ pinned' = pinned
    BY <1>1 DEF HostAlloc
  <2>4. \A p, m : IsBlock(p, m, heap) => IsBlock(p, m, heap') /\ Apart(p, m, heap, size) /\ Apart(heap, size, p, m)
    BY <2>2, <2>3 DEF IsBlock, Apart
  <2>5. IsBlock(heap, size, heap')
    BY <2>2, <2>3 DEF IsBlock
  <2>6. \A u \in Threads : u # t => (Pinning(u)' <=> Pinning(u))
    BY <2>1 DEF Pinning, At
  <2>7. \A u \in Threads : u # t /\ Pinning(u)' =>
          /\ IsBlock(pc'[u].ptr, pc'[u].size, heap')
          /\ \A p \in DOMAIN pinned' : Apart(p, pinned'[p], pc'[u].ptr, pc'[u].size)
          /\ Apart(pc'[u].ptr, pc'[u].size, pc'[t].ptr, pc'[t].size)
          /\ Apart(pc'[t].ptr, pc'[t].size, pc'[u].ptr, pc'[u].size)
    BY <2>1, <2>3, <2>4, <2>6 DEF PinnedInv
  <2>8. \A u, v \in Threads : u # t /\ v # t /\ u # v /\ Pinning(u)' /\ Pinning(v)' =>
          Apart(pc'[u].ptr, pc'[u].size, pc'[v].ptr, pc'[v].size)
    BY <2>1, <2>6 DEF PinnedInv
  <2>9. /\ IsBlock(pc'[t].ptr, pc'[t].size, heap')
        /\ \A p \in DOMAIN pinned' : Apart(p, pinned'[p], pc'[t].ptr, pc'[t].size)
    BY <2>1, <2>3, <2>4, <2>5 DEF PinnedInv
  <2>10. /\ heap' \in Int
         /\ \A p \in DOMAIN pinned' : IsBlock(p, pinned'[p], heap')
         /\ \A p, q \in DOMAIN pinned' : p # q => Apart(p, pinned'[p], q, pinned'[q])
    BY <2>2, <2>3, <2>4 DEF PinnedInv
  <2>11. QED
    BY <2>7, <2>8, <2>9, <2>10 DEF PinnedInv, Apart
<1>2. CASE HostRegister(t)
  <2> DEFINE q == pc[t].ptr
             n == pc[t].size
  <2>1. /\ pc'[t] = Idle /\ \A u \in Threads : u # t => pc'[u] = pc[u]
        /\ Pinning(t)
    BY <1>2, GotoEffect DEF HostRegister, Pinning
  <2>2. heap' = heap /\ pinned' = With(pinned, q, n)
    BY <1>2 DEF HostRegister
  <2>3. IsBlock(q, n, heap) /\ \A p \in DOMAIN pinned : Apart(p, pinned[p], q, n)
    BY <2>1 DEF PinnedInv
  <2>4. \A u \in Threads : Pinning(u)' => u # t /\ Pinning(u) /\ pc'[u] = pc[u]
    BY <2>1 DEF Pinning, At, Idle
  <2>5. \A u \in Threads : Pinning(u)' => Apart(q, n, pc'[u].ptr, pc'[u].size)
    BY <2>1, <2>4 DEF PinnedInv
  <2> HIDE DEF q, n
  <2>6. /\ DOMAIN pinned' = DOMAIN pinned \cup {q} /\ pinned'[q] = n
        /\ \A p \in DOMAIN pinned : p # q => pinned'[p] = pinned[p]
    BY <2>2 DEF With
  <2>7. heap' \in Int /\ \A p \in DOMAIN pinned' : IsBlock(p, pinned'[p], heap')
    BY <2>2, <2>3, <2>6 DEF PinnedInv
  <2>8. \A p, r \in DOMAIN pinned' : p # r => Apart(p, pinned'[p], r, pinned'[r])
    BY <2>3, <2>6 DEF PinnedInv, Apart
  <2>9. \A u \in Threads : Pinning(u)' =>
           /\ IsBlock(pc'[u].ptr, pc'[u].size, heap')
           /\ \A p \in DOMAIN pinned' : Apart(p, pinned'[p], pc'[u].ptr, pc'[u].size)
    BY <2>2, <2>4, <2>5, <2>6 DEF PinnedInv
  <2>10. \A u, v \in Threads : Pinning(u)' /\ Pinning(v)' /\ u # v =>
           Apart(pc'[u].ptr, pc'[u].size, pc'[v].ptr, pc'[v].size)
    BY <2>4 DEF PinnedInv
  <2>11. QED
    BY <2>7, <2>8, <2>9, <2>10 DEF PinnedInv, Apart
<1>3. ASSUME NEW r \in DOMAIN pinned, HostUnregister(t, r) PROVE PinnedInv'
  <2>1. pc' = pc /\ heap' = heap /\ pinned' = Less(pinned, r)
    BY <1>3 DEF HostUnregister
  <2>2. DOMAIN pinned' \subseteq DOMAIN pinned /\ \A p \in DOMAIN pinned' : pinned'[p] = pinned[p]
    BY <2>1 DEF Less
  <2>3. QED
    BY <2>1, <2>2 DEF PinnedInv, Pinning, At, IsBlock, Apart
<1>4. QED
  BY <1>1, <1>2, <1>3 DEF HostStep

LEMMA PinnedNext ==
  ASSUME ClientAssumption, ThreadsHave, PinnedInv, [Next]_vars
  PROVE  PinnedInv'
<1>1. ASSUME NEW S, "pin" \notin S, MovesWithin(S), UNCHANGED hostVars PROVE PinnedInv'
  <2>1. \A u \in Threads : pc'[u] = pc[u] \/ (~ Pinning(u) /\ ~ Pinning(u)')
    BY <1>1 DEF MovesWithin, Pinning, At
  <2>2. QED
    BY <1>1, <2>1, PinnedApart
<1>2. ASSUME NEW t \in Threads, ClockStep(t) PROVE PinnedInv'
  <2>1. "pin" \notin ClockPlaces \cup {"idle"}
    BY DEF ClockPlaces
  <2>2. QED
    BY <1>1, <1>2, <2>1, ClockStepMoves
<1>3. ASSUME NEW t \in Threads, MemStep(t) PROVE PinnedInv'
  <2>1. "pin" \notin MallocPlaces \cup {"idle"}
    BY DEF MallocPlaces
  <2>2. QED
    BY <1>1, <1>3, <2>1, MemStepMoves
<1>4. CASE UNCHANGED vars
  BY <1>4, PinnedApart DEF vars
<1>5. QED
  BY <1>2, <1>3, <1>4, HostStepKeeps DEF Next

THEOREM PinnedInvariant == Spec => []PinnedInv
<1>1. ThreadsHave /\ PinnedInv /\ [Next]_vars => PinnedInv'
  BY ClientAssumption, PinnedNext
<1>2. ClockInv => ThreadsHave
  BY DEF ClockInv
<1>3. QED
  BY <1>1, <1>2, PinnedInit, ClockInvariant, PTL DEF Spec

\* A set of integers with an upper bound has a greatest element, which is its Max.
LEMMA MaxIsGreatest ==
  ASSUME NEW S \in SUBSET Int, S # {}, NEW b \in Int, \A x \in S : x <= b
  PROVE  Max(S) \in S /\ \A x \in S : Max(S) >= x
<1> DEFINE T == {b - x : x \in S}
<1>1. T \in SUBSET Nat
  OBVIOUS
<1>2. T # {}
  <2>1. PICK x \in S : TRUE
    OBVIOUS
  <2>2. b - x \in T
    OBVIOUS
  <2>3. QED
    BY <2>2
<1>3. PICK m \in T : \A n \in T : m <= n
  BY <1>1, <1>2, LeastNumber
<1>4. PICK y \in S : m = b - y
  BY <1>3
<1>5. \A x \in S : y >= x
  BY <1>3, <1>4
<1>6. QED
  BY <1>4, <1>5 DEF Max

\* is_pinned, which only looks at the last block before the copy, finds the block
\* the copy lies in, unless the copy begins where the block does, whatever blocks
\* have been registered and unregistered (cuda_memcpy_async).
THEOREM PinnedIsExact == Spec => []PinnedExact
<1>1. PinnedInv => PinnedExact
  <2> SUFFICES ASSUME PinnedInv, NEW loc \in 1 .. MaxHeap, NEW size \in 1 .. MaxHeap
               PROVE  IsPinned(loc, size) <=>
                        \E p \in DOMAIN pinned : p < loc /\ loc + size <= p + pinned[p]
    BY DEF PinnedExact
  <2> DEFINE before == {p \in DOMAIN pinned : p < loc}
  <2>1. loc \in Int /\ size \in Int /\ size > 0
    BY DEF ClientAssumption
  <2>2. before \in SUBSET Int /\ \A p \in before : p <= loc
    BY <2>1 DEF PinnedInv, IsBlock
  <2>3. before # {} => Max(before) \in before /\ \A p \in before : Max(before) >= p
    BY <2>1, <2>2, MaxIsGreatest
  <2>4. ASSUME IsPinned(loc, size)
        PROVE  \E p \in DOMAIN pinned : p < loc /\ loc + size <= p + pinned[p]
    <3>1. before # {} /\ Max(before) + pinned[Max(before)] >= loc + size
      BY <2>4 DEF IsPinned
    <3>2. Max(before) \in DOMAIN pinned /\ Max(before) < loc
      BY <2>3, <3>1
    <3> DEFINE m == Max(before)
    <3>3. m \in Int /\ pinned[m] \in Int
      BY <3>2 DEF PinnedInv, IsBlock
    <3> HIDE DEF m
    <3>4. m < loc /\ loc + size <= m + pinned[m] /\ m \in DOMAIN pinned
      BY <2>1, <3>1, <3>2, <3>3 DEF m
    <3>5. QED
      BY <3>4
  <2>5. ASSUME NEW p \in DOMAIN pinned, p < loc, loc + size <= p + pinned[p]
        PROVE  IsPinned(loc, size)
    <3>1. IsBlock(p, pinned[p], heap)
      BY DEF PinnedInv
    <3>2. p \in before
      BY <2>1, <2>5, <3>1 DEF IsBlock
    <3> DEFINE m == Max(before)
    <3>3. m \in before /\ m >= p /\ IsBlock(m, pinned[m], heap)
      BY <2>3, <3>2 DEF PinnedInv
    <3>4. m # p => Apart(m, pinned[m], p, pinned[p])
      BY <3>3 DEF PinnedInv
    <3>5. m < loc
      BY <3>3
    <3>6. before # {} /\ (m + pinned[m] >= loc + size => IsPinned(loc, size))
      BY <3>2 DEF IsPinned
    <3> HIDE DEF m, before
    <3>7. m = p
      BY <2>1, <2>5, <3>1, <3>3, <3>4, <3>5 DEF IsBlock, Apart
    <3>8. m + pinned[m] >= loc + size
      BY <2>1, <2>5, <3>1, <3>7 DEF IsBlock
    <3>9. QED
      BY <3>6, <3>8
  <2>6. QED
    BY <2>4, <2>5
<1>2. QED
  BY <1>1, PinnedInvariant, PTL

-----------------------------------------------------------------------------
(***************************************************************************)
(* Device memory                                                           *)
(***************************************************************************)

Sum(m) == SumOf(m.blocks, DOMAIN m.blocks)

\* What a device counts as allocated covers its blocks and fits the device.
Covered(m) ==
  /\ m.size \in Int /\ m.size <= Total
  /\ IsFiniteSet(DOMAIN m.blocks) /\ \A p \in DOMAIN m.blocks : m.blocks[p] \in Nat
  /\ Sum(m) <= m.size

NoMem == [size |-> 0, blocks |-> << >>]
Added(m, ptr, n) == [size |-> m.size + n, blocks |-> With(m.blocks, ptr, n)]
Dropped(m, ptr)  == [size |-> m.size - m.blocks[ptr], blocks |-> Less(m.blocks, ptr)]

LEMMA NoMemCovered ==
  ASSUME ClientAssumption
  PROVE  Covered(NoMem) /\ Sum(NoMem) = 0 /\ DOMAIN NoMem.blocks = {}
<1>1. DOMAIN NoMem.blocks = {} /\ NoMem.size = 0
  BY DEF NoMem
<1>2. IsFiniteSet({}) /\ SumOf(NoMem.blocks, {}) = 0
  BY FS_EmptySet, SumStep
<1>3. QED
  BY <1>1, <1>2 DEF Covered, Sum, ClientAssumption

\* A block is registered, at an address that is new or taken: then the size of
\* the old block stays counted.
LEMMA AddCovered ==
  ASSUME NEW m, Covered(m), NEW ptr, NEW n \in Nat, m.size + n <= Total
  PROVE  /\ Covered(Added(m, ptr, n))
         /\ ptr \notin DOMAIN m.blocks /\ Sum(m) = m.size =>
              Sum(Added(m, ptr, n)) = Added(m, ptr, n).size
<1> DEFINE f == m.blocks
           D == DOMAIN m.blocks
           g == Added(m, ptr, n).blocks
           r == D \ {ptr}
<1>1. /\ DOMAIN g = D \cup {ptr} /\ g[ptr] = n /\ \A p \in r : g[p] = f[p]
      /\ Added(m, ptr, n).size = m.size + n
  BY DEF Added, With
<1>2. IsFiniteSet(D) /\ (\A p \in D : f[p] \in Nat) /\ m.size \in Int /\ SumOf(f, D) <= m.size
  BY DEF Covered, Sum
<1>3. IsFiniteSet(D \cup {ptr}) /\ IsFiniteSet(r) /\ (D \cup {ptr}) \ {ptr} = r
  BY <1>2, FS_AddElement, FS_RemoveElement
<1>4. \A p \in D \cup {ptr} : g[p] \in Nat
  BY <1>1, <1>2
<1> HIDE DEF f, D, g
<1>5. SumOf(g, D \cup {ptr}) = g[ptr] + SumOf(g, (D \cup {ptr}) \ {ptr})
  BY <1>3, <1>4, SumFacts
<1>6. SumOf(g, r) = SumOf(f, r)
  BY <1>1, <1>3, SumAgrees
<1>7. SumOf(g, D \cup {ptr}) = n + SumOf(f, r)
  BY <1>1, <1>3, <1>5, <1>6
<1>8. SumOf(f, D) \in Nat /\ SumOf(f, r) \in Nat
  BY <1>2, <1>3, SumFacts
<1>9. ptr \in D => SumOf(f, D) = f[ptr] + SumOf(f, r) /\ f[ptr] \in Nat
  BY <1>2, SumFacts
<1>10. ptr \notin D => r = D
  OBVIOUS
<1> HIDE DEF r
<1>11. SumOf(f, r) <= SumOf(f, D)
  BY <1>8, <1>9, <1>10
<1>12. SumOf(g, D \cup {ptr}) <= m.size + n
  BY <1>2, <1>7, <1>8, <1>11
<1>13. ptr \notin D /\ SumOf(f, D) = m.size => SumOf(g, D \cup {ptr}) = m.size + n
  BY <1>2, <1>7, <1>8, <1>10
<1>14. /\ Sum(m) = SumOf(f, D)
       /\ Sum(Added(m, ptr, n)) = SumOf(g, D \cup {ptr})
       /\ DOMAIN Added(m, ptr, n).blocks = D \cup {ptr}
       /\ \A p \in D \cup {ptr} : Added(m, ptr, n).blocks[p] = g[p]
       /\ D = DOMAIN m.blocks
  BY <1>1 DEF Sum, f, D, g
<1>15. Added(m, ptr, n).size \in Int /\ Added(m, ptr, n).size <= Total
  BY <1>1, <1>2
<1>16. QED
  BY <1>1, <1>3, <1>4, <1>12, <1>13, <1>14, <1>15 DEF Covered

LEMMA DropCovered ==
  ASSUME NEW m, Covered(m), NEW ptr \in DOMAIN m.blocks, Total \in Nat
  PROVE  /\ Covered(Dropped(m, ptr))
         /\ Sum(m) = m.size => Sum(Dropped(m, ptr)) = Dropped(m, ptr).size
<1> DEFINE f == m.blocks
           D == DOMAIN m.blocks
           r == D \ {ptr}
           g == Dropped(m, ptr).blocks
<1>1. /\ DOMAIN g = r /\ \A p \in r : g[p] = f[p]
      /\ Dropped(m, ptr).size = m.size - f[ptr]
  BY DEF Dropped, Less
<1>2. /\ IsFiniteSet(D) /\ (\A p \in D : f[p] \in Nat) /\ m.size \in Int /\ m.size <= Total
      /\ SumOf(f, D) <= m.size
  BY DEF Covered, Sum
<1>3. IsFiniteSet(r)
  BY <1>2, FS_RemoveElement
<1>4. f[ptr] \in Nat /\ ptr \in D
  BY <1>2
<1> HIDE DEF f, D, g
<1>5. SumOf(f, D) = f[ptr] + SumOf(f, r) /\ SumOf(f, D) \in Nat
  BY <1>2, <1>4, SumFacts
<1>6. SumOf(g, r) = SumOf(f, r) /\ SumOf(f, r) \in Nat
  BY <1>1, <1>2, <1>3, SumAgrees, SumFacts
<1>7. \A p \in r : g[p] \in Nat
  BY <1>1, <1>2
<1> HIDE DEF r
<1>8. SumOf(g, r) <= m.size - f[ptr] /\ m.size - f[ptr] \in Int /\ m.size - f[ptr] <= Total
  BY <1>2, <1>4, <1>5, <1>6
<1>9. SumOf(f, D) = m.size => SumOf(g, r) = m.size - f[ptr]
  BY <1>2, <1>4, <1>5, <1>6
<1>10. /\ Sum(m) = SumOf(f, D) /\ Sum(Dropped(m, ptr)) = SumOf(g, r)
       /\ Dropped(m, ptr).blocks = g
  BY <1>1 DEF Sum, f, D, g
<1>11. QED
  BY <1>1, <1>3, <1>7, <1>8, <1>9, <1>10 DEF Covered

\* Every device's memory is covered, whatever calls overlap.
MemSound ==
  /\ limit \in Int
  /\ \A d : Covered(Mem(d))
  /\ \A t \in Threads : InMalloc(t) => pc[t].size \in Nat /\ pc[t].size > 0

Returning(t) == pc[t].at \in {"return", "bump"}
Reserved(t)  == pc[t].at \in {"register", "bump"}

IsHeld(b) ==
  /\ b.ptr \in DOMAIN Mem(b.dev).blocks /\ Mem(b.dev).blocks[b.ptr] = b.size
  /\ IsBlock(b.ptr, b.size, limit)

\* As long as no mallocs overlap and blocks are freed and devices reset on their
\* own: the blocks registered lie below the next address, but for that of the
\* one thread about to return it.
MemClean ==
  clean =>
    /\ ~ panicked
    /\ \A d : Sum(Mem(d)) = Mem(d).size
    /\ \A t, u \in Threads : InMalloc(t) /\ InMalloc(u) => t = u
    /\ \A t \in Threads : Reserved(t) => pc[t].ptr = limit
    /\ \A t \in Threads : \A d : Returning(t) /\ pc[t].dev = d =>
         limit \in DOMAIN Mem(d).blocks /\ Mem(d).blocks[limit] = pc[t].size
    /\ \A d : \A p \in DOMAIN Mem(d).blocks :
         p \in Int /\ (p < limit \/ (p = limit /\ \E t \in Threads : Returning(t)))
    /\ \A b \in live : IsHeld(b)
    /\ \A b, c \in live : b # c => Apart(b.ptr, b.size, c.ptr, c.size)

MemInv == MemSound /\ MemClean

LEMMA MemInit == ClientAssumption /\ Init => MemInv
<1> SUFFICES ASSUME ClientAssumption, Init PROVE MemInv
  OBVIOUS
<1>1. \A t \in Threads : pc[t] = Idle /\ pc[t].at = "idle"
  BY DEF Init, Idle
<1>2. \A d : Mem(d) = NoMem
  BY DEF Init, Mem, NoMem
<1>3. MemSound
  BY <1>1, <1>2, NoMemCovered DEF Init, MemSound, InMalloc, MallocPlaces
<1>4. NoMem.size = 0
  BY DEF NoMem
<1>5. live = {} /\ ~ panicked
  BY DEF Init
<1>6. MemClean
  BY <1>1, <1>2, <1>4, <1>5, NoMemCovered DEF MemClean, InMalloc, MallocPlaces, Reserved, Returning
<1>7. QED
  BY <1>3, <1>6 DEF MemInv

\* Steps that leave the memory and the threads that allocate alone.
LEMMA MemApart ==
  ASSUME MemInv, UNCHANGED memVars,
         \A t \in Threads : pc'[t] = pc[t] \/ (~ InMalloc(t) /\ ~ InMalloc(t)')
  PROVE  MemInv'
<1>1. /\ gpu' = gpu /\ limit' = limit /\ live' = live /\ clean' = clean /\ panicked' = panicked
  BY DEF memVars
<1>2. /\ \A t \in Threads : InMalloc(t)' => InMalloc(t) /\ pc'[t] = pc[t]
      /\ \A t \in Threads : InMalloc(t) => InMalloc(t)' /\ pc'[t] = pc[t]
  BY DEF InMalloc
<1>3. \A t \in Threads : Returning(t) \/ Reserved(t) => InMalloc(t)
  BY DEF Returning, Reserved, InMalloc, MallocPlaces
<1>4. \A t \in Threads : (Returning(t) \/ Reserved(t))' => InMalloc(t)'
  BY DEF Returning, Reserved, InMalloc, MallocPlaces
<1>5. \A t \in Threads : (Returning(t)' <=> Returning(t)) /\ (Reserved(t)' <=> Reserved(t))
  BY <1>2, <1>3, <1>4 DEF Returning, Reserved
<1>6. \A d : Mem(d)' = Mem(d)
  BY <1>1 DEF Mem
<1>7. MemSound'
  BY <1>1, <1>2, <1>6 DEF MemInv, MemSound
<1>8. \A b : IsHeld(b)' <=> IsHeld(b)
  BY <1>1, <1>6 DEF IsHeld
<1>9. MemClean'
  <2> SUFFICES ASSUME clean' PROVE MemClean'
    BY DEF MemClean
  <2>1. clean
    BY <1>1
  <2>2. \A t \in Threads : Reserved(t)' => pc'[t].ptr = limit'
    BY <1>1, <1>2, <1>3, <1>5, <2>1 DEF MemInv, MemClean
  <2>3. \A t \in Threads : \A d : Returning(t)' /\ pc'[t].dev = d =>
          limit' \in DOMAIN Mem(d)'.blocks /\ Mem(d)'.blocks[limit'] = pc'[t].size
    BY <1>1, <1>2, <1>3, <1>5, <1>6, <2>1 DEF MemInv, MemClean
  <2>4. QED
    BY <1>1, <1>2, <1>5, <1>6, <1>8, <2>1, <2>2, <2>3 DEF MemInv, MemClean
<1>10. QED
  BY <1>7, <1>9 DEF MemInv

LEMMA SetMemEffect ==
  ASSUME NEW d, NEW m, SetMem(d, m)
  PROVE  Mem(d)' = m /\ \A e : e # d => Mem(e)' = Mem(e)
BY DEF SetMem, Mem

\* The places of a thread that moves from r to s, and of the others.
LEMMA Places ==
  ASSUME ThreadsHave, NEW t \in Threads, NEW r, Goto(t, r)
  PROVE  /\ pc'[t] = r
         /\ \A u \in Threads : u # t => pc'[u] = pc[u]
         /\ \A u \in Threads : u # t => /\ InMalloc(u)' <=> InMalloc(u)
                                        /\ Returning(u)' <=> Returning(u)
                                        /\ Reserved(u)' <=> Reserved(u)
         /\ InMalloc(t)' <=> r.at \in MallocPlaces
         /\ Returning(t)' <=> r.at \in {"return", "bump"}
         /\ Reserved(t)' <=> r.at \in {"register", "bump"}
BY GotoEffect DEF InMalloc, Returning, Reserved

LEMMA MallocReadKeeps ==
  ASSUME ClientAssumption, ThreadsHave, MemInv, NEW t \in Threads,
         NEW d \in Devices, NEW size \in Sizes, MallocRead(t, d, size)
  PROVE  MemInv'
<1> DEFINE r == [at |-> "register", dev |-> d, size |-> size, ptr |-> limit]
<1>1. /\ r.at = "register" /\ r.size = size /\ r.ptr = limit
      /\ Goto(t, r)
  BY DEF MallocRead
<1>2. /\ gpu' = gpu /\ limit' = limit /\ live' = live /\ panicked' = panicked
      /\ clean' = (clean /\ \A u \in Threads : pc[u].at \notin {"register", "return", "bump"})
  BY DEF MallocRead
<1> HIDE DEF r
<1>3. /\ pc'[t] = r /\ InMalloc(t)' /\ ~ Returning(t)' /\ Reserved(t)'
      /\ \A u \in Threads : u # t => pc'[u] = pc[u]
      /\ \A u \in Threads : u # t => /\ InMalloc(u)' <=> InMalloc(u)
                                     /\ Returning(u)' <=> Returning(u)
                                     /\ Reserved(u)' <=> Reserved(u)
  BY <1>1, Places DEF MallocPlaces
<1>4. size \in Nat /\ size > 0
  BY DEF ClientAssumption
<1>5. (\A e : Mem(e)' = Mem(e)) /\ \A b : IsHeld(b)' <=> IsHeld(b)
  BY <1>2 DEF Mem, IsHeld
<1>6. MemSound'
  BY <1>1, <1>2, <1>3, <1>4, <1>5 DEF MemInv, MemSound
<1>7. ASSUME clean' PROVE MemClean'
  <2>1. clean /\ \A u \in Threads : pc[u].at \notin {"register", "return", "bump"}
    BY <1>2, <1>7
  <2>2. \A u \in Threads : ~ InMalloc(u) /\ ~ Returning(u) /\ ~ Reserved(u)
    BY <2>1 DEF InMalloc, MallocPlaces, Returning, Reserved
  <2>3. \A u \in Threads : InMalloc(u)' => u = t
    BY <1>3, <2>2
  <2>4. \A u \in Threads : Reserved(u)' => pc'[u].ptr = limit'
    BY <1>1, <1>2, <1>3, <2>2
  <2>5. \A u \in Threads : ~ Returning(u)'
    BY <1>3, <2>2
  <2>6. QED
    BY <1>2, <1>5, <2>1, <2>2, <2>3, <2>4, <2>5 DEF MemInv, MemClean
<1>8. QED
  BY <1>6, <1>7 DEF MemInv, MemClean

LEMMA MallocRegisterKeeps ==
  ASSUME ClientAssumption, ThreadsHave, MemInv, NEW t \in Threads, MallocRegister(t)
  PROVE  MemInv'
<1>0. PICK d, m, n, ptr, r :
        /\ d = pc[t].dev /\ m = Mem(d) /\ n = pc[t].size /\ ptr = pc[t].ptr
        /\ r = [at |-> "return", dev |-> d, size |-> n]
  OBVIOUS
<1>1. /\ limit' = limit /\ live' = live /\ clean' = clean /\ panicked' = panicked
      /\ pc[t].at = "register"
      /\ \/ Fits(d, n) /\ SetMem(d, Added(m, ptr, n)) /\ Goto(t, r)
         \/ SetMem(d, m) /\ Goto(t, Idle)
  BY <1>0 DEF MallocRegister, Added, At
<1>2. InMalloc(t) /\ Reserved(t) /\ ~ Returning(t)
  BY <1>1 DEF InMalloc, MallocPlaces, Reserved, Returning
<1>3. n \in Nat /\ n > 0 /\ Covered(m)
  BY <1>0, <1>2 DEF MemInv, MemSound
<1>4. Idle.at = "idle" /\ r.at = "return" /\ r.size = n /\ r.dev = d
  BY <1>0 DEF Idle
<1>5. ASSUME clean
      PROVE  /\ ptr = limit /\ \A u \in Threads : InMalloc(u) => u = t
             /\ \A u \in Threads : u # t => ~ Returning(u) /\ ~ Reserved(u)
             /\ \A e : \A p \in DOMAIN Mem(e).blocks : p \in Int /\ p < limit
             /\ \A e : Sum(Mem(e)) = Mem(e).size
             /\ ~ panicked
             /\ \A b \in live : IsHeld(b)
             /\ \A b, c \in live : b # c => Apart(b.ptr, b.size, c.ptr, c.size)
  <2>1. \A u \in Threads : InMalloc(u) => u = t
    BY <1>2, <1>5 DEF MemInv, MemClean
  <2>2. \A u \in Threads : Returning(u) \/ Reserved(u) => InMalloc(u)
    BY DEF Returning, Reserved, InMalloc, MallocPlaces
  <2>3. QED
    BY <1>0, <1>2, <1>5, <2>1, <2>2 DEF MemInv, MemClean
<1>6. CASE Fits(d, n) /\ SetMem(d, Added(m, ptr, n)) /\ Goto(t, r)
  <2>1. Mem(d)' = Added(m, ptr, n) /\ \A e : e # d => Mem(e)' = Mem(e)
    BY <1>6, SetMemEffect
  <2>2. /\ pc'[t] = r /\ InMalloc(t)' /\ Returning(t)' /\ ~ Reserved(t)'
        /\ \A u \in Threads : u # t => pc'[u] = pc[u]
        /\ \A u \in Threads : u # t => /\ InMalloc(u)' <=> InMalloc(u)
                                       /\ Returning(u)' <=> Returning(u)
                                       /\ Reserved(u)' <=> Reserved(u)
    BY <1>4, <1>6, Places DEF MallocPlaces
  <2>3. m.size + n <= Total /\ m = Mem(d)
    BY <1>0, <1>6 DEF Fits
  <2>4. /\ Covered(Added(m, ptr, n))
        /\ ptr \notin DOMAIN m.blocks /\ Sum(m) = m.size => Sum(Added(m, ptr, n)) = Added(m, ptr, n).size
    BY <1>3, <2>3, AddCovered
  <2>5. MemSound'
    <3>1. \A e : Covered(Mem(e)')
      BY <2>1, <2>4 DEF MemInv, MemSound
    <3>2. \A u \in Threads : InMalloc(u)' => pc'[u].size \in Nat /\ pc'[u].size > 0
      BY <1>3, <1>4, <2>2 DEF MemInv, MemSound
    <3>3. QED
      BY <1>1, <3>1, <3>2 DEF MemInv, MemSound
  <2>6. ASSUME clean' PROVE MemClean'
    <3>1. clean
      BY <1>1, <2>6
    <3>2. limit \notin DOMAIN m.blocks /\ ptr = limit /\ limit \in Int
      BY <1>5, <2>3, <3>1 DEF MemInv, MemSound
    <3>3. /\ DOMAIN Added(m, ptr, n).blocks = DOMAIN m.blocks \cup {limit}
          /\ Added(m, ptr, n).blocks[limit] = n
          /\ \A p \in DOMAIN m.blocks : p # limit => Added(m, ptr, n).blocks[p] = m.blocks[p]
      BY <3>2 DEF Added, With
    <3>4. \A e : Sum(Mem(e)') = Mem(e)'.size
      BY <1>5, <2>1, <2>3, <2>4, <3>1, <3>2
    <3>5. \A e : \A p \in DOMAIN Mem(e)'.blocks : p \in Int /\ (p < limit \/ p = limit)
      BY <1>5, <2>1, <2>3, <3>1, <3>2, <3>3
    <3>6. \A b \in live : IsHeld(b)'
      <4> SUFFICES ASSUME NEW b \in live PROVE IsHeld(b)'
        OBVIOUS
      <4>1. /\ b.ptr \in DOMAIN Mem(b.dev).blocks /\ Mem(b.dev).blocks[b.ptr] = b.size
            /\ IsBlock(b.ptr, b.size, limit)
        BY <1>5, <3>1 DEF IsHeld
      <4>2. b.ptr # limit
        BY <1>5, <3>1, <4>1, <3>2
      <4>3. b.ptr \in DOMAIN Mem(b.dev)'.blocks /\ Mem(b.dev)'.blocks[b.ptr] = b.size
        BY <2>1, <2>3, <3>3, <4>1, <4>2
      <4>4. QED
        BY <1>1, <4>1, <4>3 DEF IsHeld
    <3>7. \A u \in Threads : InMalloc(u)' => u = t
      BY <1>5, <2>2, <3>1
    <3>8. \A u \in Threads : ~ Reserved(u)'
      BY <1>5, <2>2, <3>1
    <3>9. \A u \in Threads : \A e : Returning(u)' /\ pc'[u].dev = e =>
            limit \in DOMAIN Mem(e)'.blocks /\ Mem(e)'.blocks[limit] = pc'[u].size
      BY <1>4, <1>5, <2>1, <2>2, <3>1, <3>3
    <3>10. QED
      BY <1>1, <1>5, <2>2, <3>1, <3>4, <3>5, <3>6, <3>7, <3>8, <3>9 DEF MemClean
  <2>7. QED
    BY <2>5, <2>6 DEF MemInv, MemClean
<1>7. CASE SetMem(d, m) /\ Goto(t, Idle)
  <2>1. \A e : Mem(e)' = Mem(e)
    BY <1>0, <1>7, SetMemEffect
  <2>2. /\ ~ InMalloc(t)' /\ ~ Returning(t)' /\ ~ Reserved(t)'
        /\ \A u \in Threads : u # t => pc'[u] = pc[u]
        /\ \A u \in Threads : u # t => /\ InMalloc(u)' <=> InMalloc(u)
                                       /\ Returning(u)' <=> Returning(u)
                                       /\ Reserved(u)' <=> Reserved(u)
    BY <1>4, <1>7, Places DEF MallocPlaces
  <2>3. MemSound'
    BY <1>1, <2>1, <2>2 DEF MemInv, MemSound
  <2>4. ASSUME clean' PROVE MemClean'
    <3>1. clean
      BY <1>1, <2>4
    <3>2. \A b \in live : IsHeld(b)'
      BY <1>1, <1>5, <2>1, <3>1 DEF IsHeld
    <3>3. \A u \in Threads : ~ InMalloc(u)' /\ ~ Returning(u)' /\ ~ Reserved(u)'
      BY <1>5, <2>2, <3>1
    <3>4. QED
      BY <1>1, <1>5, <2>1, <3>1, <3>2, <3>3 DEF MemClean
  <2>5. QED
    BY <2>3, <2>4 DEF MemInv, MemClean
<1>8. QED
  BY <1>1, <1>6, <1>7

LEMMA MallocReturnKeeps ==
  ASSUME ClientAssumption, ThreadsHave, MemInv, NEW t \in Threads, MallocReturn(t)
  PROVE  MemInv'
<1>0. PICK r : r = [at |-> "bump", dev |-> pc[t].dev, size |-> pc[t].size, ptr |-> limit]
  OBVIOUS
<1>1. /\ gpu' = gpu /\ limit' = limit /\ live' = live /\ clean' = clean /\ panicked' = panicked
      /\ pc[t].at = "return" /\ Goto(t, r)
  BY <1>0 DEF MallocReturn, At, memVars
<1>2. InMalloc(t) /\ Returning(t) /\ ~ Reserved(t)
  BY <1>1 DEF InMalloc, MallocPlaces, Returning, Reserved
<1>3. /\ pc'[t] = r /\ InMalloc(t)' /\ Returning(t)' /\ Reserved(t)'
      /\ \A u \in Threads : u # t => pc'[u] = pc[u]
      /\ \A u \in Threads : /\ InMalloc(u)' <=> InMalloc(u)
                            /\ Returning(u)' <=> Returning(u)
      /\ \A u \in Threads : u # t => (Reserved(u)' <=> Reserved(u))
  BY <1>0, <1>1, <1>2, Places DEF MallocPlaces
<1>4. (\A e : Mem(e)' = Mem(e)) /\ \A b : IsHeld(b)' <=> IsHeld(b)
  BY <1>1 DEF Mem, IsHeld
<1>5. MemSound'
  BY <1>0, <1>1, <1>3, <1>4 DEF MemInv, MemSound
<1>6. ASSUME clean' PROVE MemClean'
  <2>1. clean
    BY <1>1, <1>6
  <2>2. \A u \in Threads : Reserved(u)' => pc'[u].ptr = limit'
    BY <1>0, <1>1, <1>3, <2>1 DEF MemInv, MemClean
  <2>3. \A u \in Threads : \A d : Returning(u)' /\ pc'[u].dev = d =>
          limit' \in DOMAIN Mem(d)'.blocks /\ Mem(d)'.blocks[limit'] = pc'[u].size
    BY <1>0, <1>1, <1>3, <1>4, <2>1 DEF MemInv, MemClean
  <2>4. QED
    BY <1>1, <1>3, <1>4, <2>1, <2>2, <2>3 DEF MemInv, MemClean
<1>7. QED
  BY <1>5, <1>6 DEF MemInv, MemClean

LEMMA MallocBumpKeeps ==
  ASSUME ClientAssumption, ThreadsHave, MemInv, NEW t \in Threads, MallocBump(t)
  PROVE  MemInv'
<1>0. PICK d, n, ptr, b :
        /\ d = pc[t].dev /\ n = pc[t].size /\ ptr = pc[t].ptr
        /\ b = [dev |-> d, ptr |-> ptr, size |-> n]
  OBVIOUS
<1>1. /\ gpu' = gpu /\ limit' = limit + n /\ live' = live \cup {b} /\ clean' = clean
      /\ panicked' = panicked /\ pc[t].at = "bump" /\ Goto(t, Idle)
  BY <1>0 DEF MallocBump, At
<1>2. InMalloc(t) /\ Returning(t) /\ Reserved(t)
  BY <1>1 DEF InMalloc, MallocPlaces, Returning, Reserved
<1>3. n \in Nat /\ n > 0 /\ limit \in Int
  BY <1>0, <1>2 DEF MemInv, MemSound
<1>4. /\ ~ InMalloc(t)' /\ ~ Returning(t)' /\ ~ Reserved(t)'
      /\ \A u \in Threads : u # t => pc'[u] = pc[u]
      /\ \A u \in Threads : u # t => /\ InMalloc(u)' <=> InMalloc(u)
                                     /\ Returning(u)' <=> Returning(u)
                                     /\ Reserved(u)' <=> Reserved(u)
  BY <1>1, Places DEF MallocPlaces, Idle
<1>5. \A e : Mem(e)' = Mem(e)
  BY <1>1 DEF Mem
<1>6. MemSound'
  BY <1>1, <1>3, <1>4, <1>5 DEF MemInv, MemSound
<1>7. ASSUME clean' PROVE MemClean'
  <2>1. clean
    BY <1>1, <1>7
  <2>2. \A u \in Threads : ~ InMalloc(u)' /\ ~ Returning(u)' /\ ~ Reserved(u)'
    <3>1. \A u \in Threads : InMalloc(u) => u = t
      BY <1>2, <2>1 DEF MemInv, MemClean
    <3>2. \A u \in Threads : Returning(u)' \/ Reserved(u)' => InMalloc(u)'
      BY DEF Returning, Reserved, InMalloc, MallocPlaces
    <3>3. QED
      BY <1>4, <3>1, <3>2
  <2>3. ptr = limit /\ limit \in DOMAIN Mem(d).blocks /\ Mem(d).blocks[limit] = n
    BY <1>0, <1>2, <2>1 DEF MemInv, MemClean
  <2>4. \A e : \A p \in DOMAIN Mem(e)'.blocks : p \in Int /\ p < limit'
    <3>1. \A e : \A p \in DOMAIN Mem(e).blocks : p \in Int /\ (p < limit \/ p = limit)
      BY <2>1 DEF MemInv, MemClean
    <3>2. QED
      BY <1>1, <1>3, <1>5, <3>1
  <2>5. \A p, m : IsBlock(p, m, limit) =>
          IsBlock(p, m, limit') /\ Apart(p, m, limit, n) /\ Apart(limit, n, p, m)
    BY <1>1, <1>3 DEF IsBlock, Apart
  <2>6. b.ptr = limit /\ b.size = n /\ b.dev = d
    BY <1>0, <2>3
  <2>7. \A c \in live : IsHeld(c) /\ IsBlock(c.ptr, c.size, limit)
    BY <2>1 DEF MemInv, MemClean, IsHeld
  <2>8. IsBlock(limit, n, limit')
    BY <1>1, <1>3 DEF IsBlock
  <2>9. \A c \in live' : IsHeld(c)'
    BY <1>1, <1>5, <2>3, <2>5, <2>6, <2>7, <2>8 DEF IsHeld
  <2>10. \A c, e \in live' : c # e => Apart(c.ptr, c.size, e.ptr, e.size)
    BY <1>1, <2>1, <2>5, <2>6, <2>7 DEF MemInv, MemClean
  <2>11. ~ panicked' /\ \A e : Sum(Mem(e)') = Mem(e)'.size
    BY <1>1, <1>5, <2>1 DEF MemInv, MemClean
  <2>12. QED
    BY <2>2, <2>4, <2>9, <2>10, <2>11 DEF MemClean
<1>8. QED
  BY <1>6, <1>7 DEF MemInv, MemClean

LEMMA FreeKeeps ==
  ASSUME ClientAssumption, ThreadsHave, MemInv, NEW t \in Threads,
         NEW b \in live, NEW d \in Devices, Free(t, b, d)
  PROVE  MemInv'
<1>0. PICK m : m = Mem(d)
  OBVIOUS
<1>1. /\ pc' = pc /\ limit' = limit /\ live' = live \ {b} /\ clean' = (clean /\ d = b.dev)
      /\ \/ b.ptr \in DOMAIN m.blocks /\ SetMem(d, Dropped(m, b.ptr)) /\ panicked' = panicked
         \/ b.ptr \notin DOMAIN m.blocks /\ panicked' = TRUE /\ gpu' = gpu
  BY <1>0 DEF Free, Dropped
<1>2. \A u \in Threads : /\ InMalloc(u)' <=> InMalloc(u)
                         /\ Returning(u)' <=> Returning(u)
                         /\ Reserved(u)' <=> Reserved(u)
  BY <1>1 DEF InMalloc, Returning, Reserved
<1>3. CASE b.ptr \in DOMAIN m.blocks /\ SetMem(d, Dropped(m, b.ptr)) /\ panicked' = panicked
  <2>1. Mem(d)' = Dropped(m, b.ptr) /\ \A e : e # d => Mem(e)' = Mem(e)
    BY <1>3, SetMemEffect
  <2>2. Covered(m) /\ Total \in Nat
    BY <1>0 DEF MemInv, MemSound, ClientAssumption
  <2>3. /\ Covered(Dropped(m, b.ptr))
        /\ Sum(m) = m.size => Sum(Dropped(m, b.ptr)) = Dropped(m, b.ptr).size
    BY <1>3, <2>2, DropCovered
  <2>4. MemSound'
    <3>1. \A e : Covered(Mem(e)')
      BY <2>1, <2>3 DEF MemInv, MemSound
    <3>2. QED
      BY <1>1, <1>2, <3>1 DEF MemInv, MemSound
  <2>5. ASSUME clean' PROVE MemClean'
    <3>1. clean /\ d = b.dev
      BY <1>1, <2>5
    <3>2. /\ DOMAIN Dropped(m, b.ptr).blocks = DOMAIN m.blocks \ {b.ptr}
          /\ \A p \in DOMAIN m.blocks : p # b.ptr => Dropped(m, b.ptr).blocks[p] = m.blocks[p]
      BY DEF Dropped, Less
    <3>3. \A e : /\ DOMAIN Mem(e)'.blocks \subseteq DOMAIN Mem(e).blocks
                 /\ \A p \in DOMAIN Mem(e).blocks : p # b.ptr =>
                      p \in DOMAIN Mem(e)'.blocks /\ Mem(e)'.blocks[p] = Mem(e).blocks[p]
      BY <1>0, <2>1, <3>2
    <3>4. \A e : Sum(Mem(e)') = Mem(e)'.size
      BY <1>0, <2>1, <2>3, <3>1 DEF MemInv, MemClean
    <3>5. IsBlock(b.ptr, b.size, limit) /\ limit \in Int
      BY <3>1 DEF MemInv, MemClean, MemSound, IsHeld
    <3>6. b.ptr # limit
      BY <3>5 DEF IsBlock
    <3>7. \A c \in live' : c \in live /\ IsHeld(c) /\ c.ptr # b.ptr
      <4> SUFFICES ASSUME NEW c \in live' PROVE c \in live /\ IsHeld(c) /\ c.ptr # b.ptr
        OBVIOUS
      <4>1. c \in live /\ IsHeld(c) /\ Apart(b.ptr, b.size, c.ptr, c.size)
        BY <1>1, <3>1 DEF MemInv, MemClean
      <4>2. IsBlock(c.ptr, c.size, limit)
        BY <4>1 DEF IsHeld
      <4>3. QED
        BY <3>5, <4>1, <4>2 DEF IsBlock, Apart
    <3>8. \A c \in live' : IsHeld(c)'
      BY <1>1, <3>3, <3>7 DEF IsHeld
    <3>9. \A u \in Threads : \A e : Returning(u)' /\ pc'[u].dev = e =>
            limit' \in DOMAIN Mem(e)'.blocks /\ Mem(e)'.blocks[limit'] = pc'[u].size
      BY <1>1, <1>2, <3>1, <3>3, <3>6 DEF MemInv, MemClean
    <3>10. \A e : \A p \in DOMAIN Mem(e)'.blocks :
             p \in Int /\ (p < limit' \/ (p = limit' /\ \E u \in Threads : Returning(u)'))
      BY <1>1, <1>2, <3>1, <3>3 DEF MemInv, MemClean
    <3>11. /\ ~ panicked'
           /\ \A u, v \in Threads : InMalloc(u)' /\ InMalloc(v)' => u = v
           /\ \A u \in Threads : Reserved(u)' => pc'[u].ptr = limit'
           /\ \A c, e \in live' : c # e => Apart(c.ptr, c.size, e.ptr, e.size)
      BY <1>1, <1>2, <1>3, <3>1 DEF MemInv, MemClean
    <3>12. QED
      BY <3>4, <3>8, <3>9, <3>10, <3>11 DEF MemClean
  <2>6. QED
    BY <2>4, <2>5 DEF MemInv, MemClean
<1>4. CASE b.ptr \notin DOMAIN m.blocks /\ panicked' = TRUE /\ gpu' = gpu
  <2>1. \A e : Mem(e)' = Mem(e)
    BY <1>4 DEF Mem
  <2>2. MemSound'
    BY <1>1, <1>2, <2>1 DEF MemInv, MemSound
  <2>3. ~ clean'
    <3> SUFFICES ASSUME clean' PROVE FALSE
      OBVIOUS
    <3>1. clean /\ d = b.dev
      BY <1>1
    <3>2. IsHeld(b)
      BY <3>1 DEF MemInv, MemClean
    <3>3. QED
      BY <1>0, <1>4, <3>1, <3>2 DEF IsHeld
  <2>4. QED
    BY <2>2, <2>3 DEF MemInv, MemClean
<1>5. QED
  BY <1>1, <1>3, <1>4

LEMMA ResetKeeps ==
  ASSUME ClientAssumption, ThreadsHave, MemInv, NEW t \in Threads,
         NEW d \in Devices, DeviceReset(t, d)
  PROVE  MemInv'
<1>1. /\ gpu' = << >> /\ live' \subseteq live /\ pc' = pc /\ limit' = limit /\ panicked' = panicked
      /\ clean' = (clean /\ live' = {} /\ \A u \in Threads : pc[u].at \notin {"return", "bump"})
  BY DEF DeviceReset
<1>2. \A u \in Threads : /\ InMalloc(u)' <=> InMalloc(u)
                         /\ Returning(u)' <=> Returning(u)
                         /\ Reserved(u)' <=> Reserved(u)
  BY <1>1 DEF InMalloc, Returning, Reserved
<1>3. \A e : Mem(e)' = NoMem
  BY <1>1 DEF Mem, NoMem
<1>4. MemSound'
  BY <1>1, <1>2, <1>3, NoMemCovered DEF MemInv, MemSound
<1>5. ASSUME clean' PROVE MemClean'
  <2>1. clean /\ live' = {} /\ \A u \in Threads : pc[u].at \notin {"return", "bump"}
    BY <1>1, <1>5
  <2>2. \A u \in Threads : ~ Returning(u)'
    BY <1>2, <2>1 DEF Returning
  <2>3. \A e : Sum(Mem(e)') = Mem(e)'.size /\ DOMAIN Mem(e)'.blocks = {}
    BY <1>3, NoMemCovered DEF NoMem
  <2>4. QED
    BY <1>1, <1>2, <2>1, <2>2, <2>3 DEF MemInv, MemClean
<1>6. QED
  BY <1>4, <1>5 DEF MemInv, MemClean

LEMMA GetInfoKeeps ==
  ASSUME MemInv, NEW t \in Threads, NEW d \in Devices, MemGetInfo(t, d)
  PROVE  MemInv'
<1>0. PICK m : m = Mem(d)
  OBVIOUS
<1>1. /\ SetMem(d, m)
      /\ pc' = pc /\ limit' = limit /\ live' = live /\ clean' = clean /\ panicked' = panicked
  BY <1>0 DEF MemGetInfo
<1>2. (\A e : Mem(e)' = Mem(e)) /\ \A b : IsHeld(b)' <=> IsHeld(b)
  <2>1. \A e : Mem(e)' = Mem(e)
    BY <1>0, <1>1, SetMemEffect
  <2>2. QED
    BY <1>1, <2>1 DEF IsHeld
<1>3. \A u \in Threads : /\ InMalloc(u)' <=> InMalloc(u)
                         /\ Returning(u)' <=> Returning(u)
                         /\ Reserved(u)' <=> Reserved(u)
  BY <1>1 DEF InMalloc, Returning, Reserved
<1>4. MemSound'
  BY <1>1, <1>2, <1>3 DEF MemInv, MemSound
<1>5. ASSUME clean' PROVE MemClean'
  <2>1. clean
    BY <1>1, <1>5
  <2>2. QED
    BY <1>1, <1>2, <1>3, <2>1 DEF MemInv, MemClean
<1>6. QED
  BY <1>4, <1>5 DEF MemInv, MemClean

LEMMA MemNext ==
  ASSUME ClientAssumption, ThreadsHave, MemInv, [Next]_vars
  PROVE  MemInv'
<1>1. ASSUME NEW S, S \cap MallocPlaces = {}, MovesWithin(S), UNCHANGED memVars PROVE MemInv'
  <2>1. \A u \in Threads : pc'[u] = pc[u] \/ (~ InMalloc(u) /\ ~ InMalloc(u)')
    BY <1>1 DEF MovesWithin, InMalloc
  <2>2. QED
    BY <1>1, <2>1, MemApart
<1>2. ASSUME NEW t \in Threads, ClockStep(t) PROVE MemInv'
  <2>1. (ClockPlaces \cup {"idle"}) \cap MallocPlaces = {}
    BY DEF ClockPlaces, MallocPlaces
  <2>2. QED
    BY <1>1, <1>2, <2>1, ClockStepMoves
<1>3. ASSUME NEW t \in Threads, HostStep(t) PROVE MemInv'
  <2>1. {"idle", "pin"} \cap MallocPlaces = {}
    BY DEF MallocPlaces
  <2>2. QED
    BY <1>1, <1>3, <2>1, HostStepMoves
<1>4. ASSUME NEW t \in Threads, MemStep(t) PROVE MemInv'
  BY <1>4, MallocReadKeeps, MallocRegisterKeeps, MallocReturnKeeps, MallocBumpKeeps,
     FreeKeeps, GetInfoKeeps, ResetKeeps DEF MemStep
<1>5. CASE UNCHANGED vars
  BY <1>5, MemApart DEF vars
<1>6. QED
  BY <1>2, <1>3, <1>4, <1>5 DEF Next

THEOREM MemInvariant == Spec => []MemInv
<1>1. ThreadsHave /\ MemInv /\ [Next]_vars => MemInv'
  BY ClientAssumption, MemNext
<1>2. ClockInv => ThreadsHave
  BY DEF ClockInv
<1>3. Init => MemInv
  BY ClientAssumption, MemInit
<1>4. QED
  BY <1>1, <1>2, <1>3, ClockInvariant, PTL DEF Spec

\* Device memory: whatever calls overlap, what a device counts as allocated covers
\* its blocks and fits it, so that neither a free nor cudaMemGetInfo underflows;
\* without overlapping mallocs and frees or resets of another device it is
\* exactly what the application holds, apart (GPU_MEM and MEM_LIMIT, capi.rs).
THEOREM MemoryIsAccounted == Spec => []MemoryAccounted
<1>1. MemInv => MemoryAccounted
  <2> SUFFICES ASSUME MemInv PROVE MemoryAccounted
    OBVIOUS
  <2>1. \A d : Allocated(d) = Sum(Mem(d))
    BY DEF Allocated, Sum, SumOf
  <2>2. \A d : Allocated(d) <= Mem(d).size /\ Mem(d).size <= Total
    BY <2>1 DEF MemInv, MemSound, Covered
  <2>3. ASSUME clean
        PROVE  /\ ~ panicked
               /\ \A d \in Devices : Allocated(d) = Mem(d).size
               /\ \A b \in live : b.ptr \in DOMAIN Mem(b.dev).blocks /\ Mem(b.dev).blocks[b.ptr] = b.size
               /\ \A b, c \in live : b # c => b.ptr + b.size <= c.ptr \/ c.ptr + c.size <= b.ptr
    BY <2>1, <2>3 DEF MemInv, MemClean, IsHeld, Apart
  <2>4. QED
    BY <2>2, <2>3 DEF MemoryAccounted
<1>2. QED
  BY <1>1, MemInvariant, PTL
====

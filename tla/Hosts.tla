------------------------------- MODULE Hosts -------------------------------
(***************************************************************************)
(* Hosts and the handlers of their calls (handle_cuda_call and             *)
(* handle_torch_call of phantora/phantora/src/simulator.rs, with the       *)
(* client's side in cuda_call/src/capi.rs).  A host keeps a simulated      *)
(* clock.  Its asynchronous calls (kernels, copies, event records and      *)
(* waits, collectives) put events on CUDA streams; its synchronizations    *)
(* and queries make the simulator execute the event queue, which may also  *)
(* answer other hosts.                                                     *)
(*                                                                         *)
(* The simulator handles one message at a time.  A handler is a list of    *)
(* queue operations, whose event ids are known beforehand, followed by a   *)
(* phase of execution; the queue itself is module EventQueue.  A host's    *)
(* message is handled when it is sent: the host's clock, which stamps it,  *)
(* does not move before the next reply.                                    *)
(*                                                                         *)
(* host_times and exited_hosts are records that no handler reads, and are  *)
(* left out.  Collectives are those of one communicator of all the hosts.  *)
(***************************************************************************)
EXTENDS EventQueue, SequencesExt

CONSTANTS
  Hosts,       \* the host processes
  Streams,     \* CUDA streams <<device, id>> of a host
  CudaEvents,  \* the CUDA events of a host
  MaxCalls,    \* bound on the calls of a host, event synchronizations and queries apart
  MaxTime,     \* the clocks stop here
  PollCost     \* QUERY_POLL_US when CPU time is ignored, otherwise 0

ASSUME HostsAssumption ==
  /\ Hosts # {} /\ IsFiniteSet(Hosts)
  /\ Streams # {} /\ IsFiniteSet(Streams)
  /\ MaxCalls \in Nat /\ MaxTime \in Nat /\ PollCost \in Nat

VARIABLES
  tail,       \* stream_info.events: host, stream -> the last event, as a set
  buffered,   \* stream_info.buffered: host, stream -> calls not yet in the queue
  idOf,       \* id_of_cuda: host -> CUDA event -> event
  syncing,    \* event -> the host that waits for it
  waitings,   \* the collectives that wait for hosts
  call,       \* the handler in progress
  clock,      \* the clients' simulated clocks
  hostState,  \* "run", "wait" for a reply, or "exit"
  calls,      \* how many calls of a host count against MaxCalls
  work,       \* history: host -> its kernels and collectives
  covers,     \* history: host, stream -> work the stream's next event comes after
  recorded,   \* history: host, CUDA event -> work its last record comes after
  ask,        \* history: host -> what its last synchronization or query is about
  reply       \* history: host -> the last reply

simVars  == <<tail, buffered, idOf, syncing, waitings, call>>
hostVars == <<clock, hostState, calls>>
history  == <<work, covers, recorded, ask, reply>>
allVars  == <<vars, simVars, hostVars, history>>

NoCall   == [phase |-> "none"]
NotYet   == -1     \* the event of buffered work
NoReply  == [kind |-> "none", id |-> -1, at |-> 0, time |-> 0, must |-> {}]
NotReady == -1     \* the time of a reply to a query that finds the event pending
None     == -1     \* a stream without events

HostsInit ==
  /\ Init
  /\ tail = [h \in Hosts |-> [s \in Streams |-> {}]]
  /\ buffered = [h \in Hosts |-> [s \in Streams |-> << >>]]
  /\ idOf = [h \in Hosts |-> << >>]
  /\ syncing = << >> /\ waitings = << >> /\ call = NoCall
  /\ clock = [h \in Hosts |-> 0]
  /\ hostState = [h \in Hosts |-> "run"]
  /\ calls = [h \in Hosts |-> 0]
  /\ work = [h \in Hosts |-> << >>]
  /\ covers = [h \in Hosts |-> [s \in Streams |-> {}]]
  /\ recorded = [h \in Hosts |-> << >>]
  /\ ask = [h \in Hosts |-> NoReply]
  /\ reply = [h \in Hosts |-> NoReply]

-----------------------------------------------------------------------------
(***************************************************************************)
(* What a handler does to the queue, as a list of operations.              *)
(***************************************************************************)

\* Add an event; it belongs to the host's work w, or to none if w = 0.
AddOp(deps, act, t, w) == [op |-> "add", deps |-> deps, act |-> act, t |-> t, w |-> w]
EdgeOp(id, dep)        == [op |-> "edge", id |-> id, dep |-> dep]
ReleaseOp(id)          == [op |-> "release", id |-> id]

\* clear_compute_buffer_on: the buffered calls of stream s, in order, as events
\* base, base + 1 ...
FlushOps(h, s, base) ==
  LET buf == buffered[h][s] IN
  [i \in 1 .. Len(buf) |->
     AddOp(IF i = 1 THEN tail[h][s] ELSE {base + i - 2}, Comp(buf[i].dur), buf[i].t, buf[i].w)]

\* Mutant: TailAfter, but the buffer is forgotten.
TailBefore(h, s, base) == tail[h][s]

\* The last event of the stream after that.
TailAfter(h, s, base) ==
  IF buffered[h][s] = << >> THEN tail[h][s] ELSE {base + Len(buffered[h][s]) - 1}

\* add_event: flush the stream and append an event that comes after on as well.
\* Its id is StreamId.
StreamOps(h, s, base, on, act, w) ==
  Append(FlushOps(h, s, base), AddOp(on \cup TailAfter(h, s, base), act, clock[h], w))

StreamId(h, s, base) == base + Len(buffered[h][s])

-----------------------------------------------------------------------------
(***************************************************************************)
(* The calls of a host.                                                    *)
(***************************************************************************)

Adds(prog) == Cardinality({i \in DOMAIN prog : prog[i].op = "add"})

\* Host h makes a call that is handled by the operations in prog and then by
\* phase next, about event id.
Call(h, prog, next, id) ==
  /\ call = NoCall /\ Idle
  /\ hostState[h] = "run"
  /\ cnt + Adds(prog) <= MaxEvents
  /\ IF next \in {"eventSync", "query"}
     THEN UNCHANGED calls
     ELSE calls[h] < MaxCalls /\ calls' = [calls EXCEPT ![h] = @ + 1]
  /\ call' = [phase |-> "build", host |-> h, prog |-> prog, next |-> next,
              id |-> id, until |-> clock[h]]
  /\ UNCHANGED vars

\* A call that returns at once.
Async(h, prog) ==
  /\ Call(h, prog, "return", None)
  /\ UNCHANGED <<clock, hostState, syncing, ask, reply>>

\* A call whose reply, of the given kind, is about the work in must.
Ask(h, prog, next, id, kind, must) ==
  /\ Call(h, prog, next, id)
  /\ hostState' = [hostState EXCEPT ![h] = "wait"]
  /\ ask' = [ask EXCEPT ![h] = [kind |-> kind, id |-> id, at |-> clock[h], time |-> 0,
                                 must |-> must]]
  /\ UNCHANGED <<clock, syncing, work, covers, recorded, reply>>

Flushed(h, S) ==
  buffered' = [buffered EXCEPT ![h] = [s \in Streams |-> IF s \in S THEN << >> ELSE @[s]]]
Advance(h, s, id) == tail' = [tail EXCEPT ![h][s] = {id}]

\* The next piece of h's work, on stream s.
NewWork(h, s) ==
  /\ work' = [work EXCEPT ![h] = Append(@, [first |-> NotYet, last |-> NotYet,
                                            after |-> covers[h][s]])]
  /\ covers' = [covers EXCEPT ![h][s] = @ \cup {Len(work[h]) + 1}]
  /\ UNCHANGED recorded

\* handle_torch_call: the kernel waits in the stream's buffer.
TorchCall(h, s, d) ==
  /\ Async(h, << >>)
  /\ buffered' = [buffered EXCEPT ![h][s] =
                    Append(@, [t |-> clock[h], dur |-> d, w |-> Len(work[h]) + 1])]
  /\ NewWork(h, s)
  /\ UNCHANGED <<tail, idOf, waitings>>

\* cuda_memcpy_async, cuda_add_latency and flash_attn_call.
MemcpyAsync(h, s, d) ==
  /\ Async(h, StreamOps(h, s, cnt, {}, Comp(d), Len(work[h]) + 1))
  /\ Flushed(h, {s}) /\ Advance(h, s, StreamId(h, s, cnt))
  /\ NewWork(h, s)
  /\ UNCHANGED <<idOf, waitings>>

\* cuda_event_record
EventRecord(h, s, c) ==
  /\ Async(h, StreamOps(h, s, cnt, {}, Point, 0))
  /\ Flushed(h, {s}) /\ Advance(h, s, StreamId(h, s, cnt))
  /\ idOf' = [idOf EXCEPT ![h] = Put(@, c, StreamId(h, s, cnt))]
  /\ recorded' = [recorded EXCEPT ![h] = Put(@, c, covers[h][s])]
  /\ UNCHANGED <<waitings, work, covers>>

\* Mutant: StreamWaitEvent, but the stream does not wait.
StreamWaitEventNot(h, s, c) ==
  /\ c \in DOMAIN idOf[h]
  /\ Async(h, StreamOps(h, s, cnt, {}, Point, 0))
  /\ Flushed(h, {s}) /\ Advance(h, s, StreamId(h, s, cnt))
  /\ covers' = [covers EXCEPT ![h][s] = @ \cup recorded[h][c]]
  /\ UNCHANGED <<idOf, waitings, work, recorded>>

\* cuda_stream_wait_event; indexing id_of_cuda fails for an unrecorded event.
StreamWaitEvent(h, s, c) ==
  /\ c \in DOMAIN idOf[h]
  /\ Async(h, StreamOps(h, s, cnt, {idOf[h][c]}, Point, 0))
  /\ Flushed(h, {s}) /\ Advance(h, s, StreamId(h, s, cnt))
  /\ covers' = [covers EXCEPT ![h][s] = @ \cup recorded[h][c]]
  /\ UNCHANGED <<idOf, waitings, work, recorded>>

\* cuda_stream_synchronize
StreamSynchronize(h, s) ==
  /\ Ask(h, StreamOps(h, s, cnt, {}, Point, 0), "sync", StreamId(h, s, cnt),
         "sync", covers[h][s])
  /\ Flushed(h, {s}) /\ Advance(h, s, StreamId(h, s, cnt))
  /\ UNCHANGED <<idOf, waitings>>

\* The operations that flush the first i of the streams in o.
DeviceOps(h, o) ==
  LET ops[i \in 0 .. Len(o)] ==
        IF i = 0 THEN << >> ELSE ops[i - 1] \o FlushOps(h, o[i], cnt + Len(ops[i - 1]))
  IN  ops

\* The streams of a device flushed in order o: the operations, and every
\* stream's last event.
FlushDevice(h, o) ==
  LET ops == DeviceOps(h, o) IN
  [ops  |-> ops[Len(o)],
   tail |-> [s \in Streams |->
               IF s \in Range(o)
               THEN TailAfter(h, s, cnt + Len(ops[(CHOOSE i \in DOMAIN o : o[i] = s) - 1]))
               ELSE tail[h][s]]]

\* Mutant: OfDevice, one stream at random.
OfDeviceOne(dev) == {CHOOSE s \in Streams : s[1] = dev}

OfDevice(dev) == {s \in Streams : s[1] = dev}

\* cuda_device_synchronize visits the device's streams in the order of a HashMap;
\* the event it waits for is on no stream.
DeviceSynchronize(h, dev) ==
  \E o \in SetToSeqs(OfDevice(dev)) :
    LET f    == FlushDevice(h, o)
        must == UNION {covers[h][s] : s \in {s \in Streams : s[1] = dev}}
    IN  /\ Ask(h, Append(f.ops, AddOp(UNION {f.tail[s] : s \in OfDevice(dev)}, Point, clock[h], 0)),
               "sync", cnt + Len(f.ops), "sync", must)
        /\ Flushed(h, OfDevice(dev))
        /\ tail' = [tail EXCEPT ![h] = f.tail]
        /\ UNCHANGED <<idOf, waitings>>

\* cuda_event_synchronize, cuda_event_query and cuda_stream_query first execute
\* the queue up to the host's clock.
EventSynchronize(h, c) ==
  /\ c \in DOMAIN idOf[h]
  /\ Ask(h, << >>, "eventSync", idOf[h][c], "eventSync", recorded[h][c])
  /\ UNCHANGED <<tail, buffered, idOf, waitings>>

EventQuery(h, c) ==
  /\ c \in DOMAIN idOf[h]
  /\ Ask(h, << >>, "query", idOf[h][c], "query", recorded[h][c])
  /\ UNCHANGED <<tail, buffered, idOf, waitings>>

StreamQuery(h, s) ==
  LET last == TailAfter(h, s, cnt) IN
  /\ Ask(h, FlushOps(h, s, cnt), "query",
         IF last = {} THEN None ELSE CHOOSE e \in last : TRUE, "query", covers[h][s])
  /\ Flushed(h, {s})
  /\ tail' = [tail EXCEPT ![h][s] = last]
  /\ UNCHANGED <<idOf, waitings>>

\* nccl_call by a host that has joined every waiting collective: the points of
\* a new one.  Its stream_start is event first.
NcclOpen(h, s) ==
  LET barrier == cnt
      first   == StreamId(h, s, cnt + 1)
      w       == Len(work[h]) + 1
  IN  /\ \A i \in DOMAIN waitings : h \in waitings[i].joined
      /\ Async(h, <<AddOp({NoneDep}, Point, clock[h], 0)>>
                    \o StreamOps(h, s, cnt + 1, {barrier}, Point, w)
                    \o <<AddOp({first}, Point, clock[h], 0),
                         AddOp({first + 1}, Point, clock[h], 0),
                         AddOp({first + 2, first}, Point, clock[h], w)>>)
      /\ waitings' = Append(waitings, [joined |-> {h}, barrier |-> barrier,
                                       startMeta |-> first + 1, endMeta |-> first + 2])
      /\ Advance(h, s, first + 3)

\* nccl_call by a host that joins collective i; the last one adds the flows of
\* the ring and releases the barrier.
NcclJoin(h, s, i) ==
  LET c     == waitings[i]
      first == StreamId(h, s, cnt)
      w     == Len(work[h]) + 1
      ring  == 1 .. Cardinality(Hosts)
      own   == StreamOps(h, s, cnt, {c.barrier}, Point, w)
                 \o <<EdgeOp(c.startMeta, first), AddOp({c.endMeta, first}, Point, clock[h], w)>>
  IN  /\ h \notin c.joined
      /\ \A j \in 1 .. i - 1 : h \in waitings[j].joined
      /\ IF c.joined \cup {h} = Hosts
         THEN /\ Async(h, own \o [f \in ring |-> AddOp({c.startMeta}, Comm, clock[h], 0)]
                            \o [f \in ring |-> EdgeOp(c.endMeta, first + 1 + f)]
                            \o <<ReleaseOp(c.barrier)>>)
              /\ waitings' = RemoveAt(waitings, i)
         ELSE /\ Async(h, own)
              /\ waitings' = [waitings EXCEPT ![i].joined = @ \cup {h}]
      /\ Advance(h, s, first + 1)

NcclCall(h, s) ==
  /\ NcclOpen(h, s) \/ \E i \in DOMAIN waitings : NcclJoin(h, s, i)
  /\ Flushed(h, {s})
  /\ NewWork(h, s)
  /\ UNCHANGED idOf

\* handle_exit; and the host's own computation between calls, which the clock
\* counts unless CPU time is ignored.
Exit(h) ==
  /\ call = NoCall
  /\ hostState[h] = "run"
  /\ hostState' = [hostState EXCEPT ![h] = "exit"]
  /\ UNCHANGED <<vars, simVars, clock, calls, history>>

CpuTime(h) ==
  /\ call = NoCall
  /\ hostState[h] = "run" /\ clock[h] < MaxTime
  /\ clock' = [clock EXCEPT ![h] = @ + 1]
  /\ UNCHANGED <<vars, simVars, hostState, calls, history>>

-----------------------------------------------------------------------------
(***************************************************************************)
(* The handler in progress.                                                *)
(***************************************************************************)
InPhase(p) == call.phase = p /\ Idle
Goto(p)    == call' = [call EXCEPT !.phase = p]
Return     == call' = NoCall

\* History: piece of work w once its next event, cnt, is in the queue.
InQueue(w) == [w EXCEPT !.first = IF @ = NotYet THEN cnt ELSE @, !.last = cnt]

RunOp ==
  /\ InPhase("build") /\ call.prog # << >>
  /\ LET o == Head(call.prog) IN
     \/ /\ o.op = "add"
        /\ AddActionOrPoint(o.deps, o.act, o.t)
        /\ work' = IF o.w = 0 THEN work
                   ELSE [work EXCEPT ![call.host][o.w] = InQueue(@)]
     \/ o.op = "edge" /\ AddDependency(o.id, o.dep) /\ UNCHANGED work
     \/ o.op = "release" /\ RemoveNoneDependency(o.id) /\ UNCHANGED work
  /\ call' = [call EXCEPT !.prog = Tail(@)]
  /\ UNCHANGED <<tail, buffered, idOf, syncing, waitings, hostVars, covers, recorded, ask, reply>>

\* Once the queue is built: return, register for the event, or execute first.
Built ==
  /\ InPhase("build") /\ call.prog = << >>
  /\ \/ call.next = "return" /\ Return /\ UNCHANGED syncing
     \/ /\ call.next = "sync"
        /\ syncing' = Put(syncing, call.id, call.host)
        /\ Goto("toEvent")
     \/ call.next \in {"eventSync", "query"} /\ Goto("toTime") /\ UNCHANGED syncing
  /\ UNCHANGED <<vars, tail, buffered, idOf, waitings, hostVars, history>>

Replied(h, t) == reply' = [reply EXCEPT ![h] = [ask[h] EXCEPT !.time = t]]
Wake(h)       == hostState' = [hostState EXCEPT ![h] = "run"]

\* send_sync_response_to, and handle_sync_response at the host: its clock is
\* set to the time of the reply.
SyncResponse(h, t) ==
  /\ Wake(h)
  /\ clock' = [clock EXCEPT ![h] = t]
  /\ Replied(h, t)
  /\ UNCHANGED <<calls, work, covers, recorded, ask>>

\* Mutant: ExecuteAnswering, but only the caller is answered.
ExecuteAnsweringCaller(e) ==
  /\ ExecuteEvent(e)
  /\ IF e[1] # "Start" /\ e[2] \in DOMAIN syncing /\ e[2] = call.id
     THEN /\ SyncResponse(syncing[e[2]], queue[e][1])
          /\ syncing' = Without(syncing, {e[2]})
     ELSE UNCHANGED <<hostVars, history, syncing>>
  /\ UNCHANGED <<tail, buffered, idOf, waitings>>

\* One execute of the loops below; a host that waits for what it ends is answered.
ExecuteAnswering(e) ==
  /\ ExecuteEvent(e)
  /\ IF e[1] # "Start" /\ e[2] \in DOMAIN syncing
     THEN /\ SyncResponse(syncing[e[2]], queue[e][1])
          /\ syncing' = Without(syncing, {e[2]})
     ELSE UNCHANGED <<hostVars, history, syncing>>
  /\ UNCHANGED <<tail, buffered, idOf, waitings>>

Empty   == DOMAIN queue = {} /\ DOMAIN flows = {}
Proceed == ProceedNetsim /\ UNCHANGED <<simVars, hostVars, history>>

\* Mutant: BeforeUntil, but the loop stops one microsecond early.
BeforeUntilShort(e) == queue[e][1] < call.until - 1

BeforeUntil(e) == queue[e][1] < call.until

\* execute_to_time
ExecuteToTime ==
  /\ InPhase("toTime")
  /\ \/ \E e \in DOMAIN queue : BeforeUntil(e) /\ ExecuteAnswering(e) /\ UNCHANGED call
     \/ Proceed
     \/ /\ Empty \/ \E e \in DOMAIN queue : IsNext(e) /\ ~ BeforeUntil(e)
        /\ Goto("reply")
        /\ UNCHANGED <<vars, tail, buffered, idOf, syncing, waitings, hostVars, history>>

\* execute_to_event
ExecuteToEvent ==
  /\ InPhase("toEvent")
  /\ \/ \E e \in DOMAIN queue :
          /\ ExecuteAnswering(e)
          /\ IF e[1] # "Start" /\ e[2] = call.id THEN Return ELSE UNCHANGED call
     \/ Proceed
     \/ /\ Empty /\ Return
        /\ UNCHANGED <<vars, tail, buffered, idOf, syncing, waitings, hostVars, history>>

\* The end of cuda_event_synchronize.
ReplyEventSync ==
  /\ InPhase("reply") /\ call.next = "eventSync"
  /\ IF call.id \in DOMAIN ended
     THEN /\ SyncResponse(call.host, ended[call.id][2])
          /\ Return
          /\ UNCHANGED syncing
     ELSE /\ syncing' = Put(syncing, call.id, call.host)
          /\ Goto("toEvent")
          /\ UNCHANGED <<hostVars, history>>
  /\ UNCHANGED <<vars, tail, buffered, idOf, waitings>>

\* Mutant: NotReadyClock, but the poll costs nothing.
NotReadyClockFree(h) == clock[h]

\* What a poll that finds the event not ready leaves of the host's clock.
NotReadyClock(h) == IF clock[h] < MaxTime THEN clock[h] + PollCost ELSE clock[h]

\* The end of cuda_event_query and cuda_stream_query, at both sides: a host that
\* finds the event ready keeps its clock.
ReplyQuery ==
  /\ InPhase("reply") /\ call.next = "query"
  /\ \/ call.id = None /\ Replied(call.host, call.until) /\ UNCHANGED clock
     \/ /\ call.id \in DOMAIN ended
        /\ Replied(call.host, ended[call.id][2])
        /\ UNCHANGED clock
     \/ /\ call.id # None /\ call.id \notin DOMAIN ended
        /\ Replied(call.host, NotReady)
        /\ clock' = [clock EXCEPT ![call.host] = NotReadyClock(call.host)]
  /\ Wake(call.host)
  /\ Return
  /\ UNCHANGED <<vars, tail, buffered, idOf, syncing, waitings, calls, work, covers, recorded, ask>>

QueueStep == Internal /\ UNCHANGED <<simVars, hostVars, history>>

Handler ==
  RunOp \/ Built \/ ExecuteToTime \/ ExecuteToEvent \/ ReplyEventSync \/ ReplyQuery \/ QueueStep

HostCall(h) ==
  \/ \E s \in Streams :
       \/ \E d \in Durations : TorchCall(h, s, d) \/ MemcpyAsync(h, s, d)
       \/ StreamSynchronize(h, s) \/ StreamQuery(h, s)
       \/ \E c \in CudaEvents : EventRecord(h, s, c) \/ StreamWaitEvent(h, s, c)
       \/ NcclCall(h, s)
  \/ \E c \in CudaEvents : EventSynchronize(h, c) \/ EventQuery(h, c)
  \/ \E dev \in {s[1] : s \in Streams} : DeviceSynchronize(h, dev)

HostsNext == Handler \/ \E h \in Hosts : HostCall(h) \/ CpuTime(h) \/ Exit(h)

HostsSpec == HostsInit /\ [][HostsNext]_allVars

-----------------------------------------------------------------------------
(***************************************************************************)
(* Properties                                                              *)
(***************************************************************************)

Answers == {"sync", "eventSync", "query"}

\* When a synchronization returns, or a query reports its event ready, all the
\* work that the stream, the device or the recorded event stood for has ended,
\* no later than the time in the reply, wherever the kernels were buffered and
\* whoever executed the queue.  A stream or device synchronization does not
\* return before it was called.
SyncMeansDone ==
  \A h \in Hosts : reply[h].kind \in Answers /\ reply[h].time # NotReady =>
    /\ reply[h].kind = "sync" => reply[h].time >= reply[h].at
    /\ \A w \in reply[h].must :
         LET last == work[h][w].last
         IN  last \in DOMAIN ended /\ ended[last][2] <= reply[h].time

\* Work starts only after the work before it in its stream, and after the work
\* of the events its stream was made to wait for, has ended.
StreamOrder ==
  \A h \in Hosts : \A w \in DOMAIN work[h] : \A v \in work[h][w].after :
    \A t \in StartTimes(work[h][w].first) :
      LET last == work[h][v].last
      IN  last \in DOMAIN ended /\ ended[last][2] <= t

\* Between calls, a host that waits is registered for an event that has not
\* ended: its reply cannot be lost.  It is registered once.
WaiterRegistered ==
  call = NoCall =>
    /\ \A e \in DOMAIN syncing : e \notin DOMAIN ended /\ hostState[syncing[e]] = "wait"
    /\ \A h \in Hosts : hostState[h] = "wait" =>
         \E e \in DOMAIN syncing : syncing[e] = h /\ \A g \in DOMAIN syncing : syncing[g] = h => g = e

\* A query that reports its event not ready is right: the event did not end
\* before the host's clock, whenever its end becomes known.  (Without flows: a
\* flow's end can become known late, see QueryIsPresent.)
NotReadyIsTrue ==
  \A h \in Hosts :
    reply[h].kind = "query" /\ reply[h].time = NotReady /\ reply[h].id \in DOMAIN ended
      => ended[reply[h].id][2] >= reply[h].at

\* A query reports an event ready only if it has ended by the host's clock, as
\* the comments at cuda_stream_query and cuda_event_query say.
QueryIsPresent ==
  \A h \in Hosts :
    reply[h].kind = "query" /\ reply[h].time # NotReady => reply[h].time <= reply[h].at
====

------------------------------- MODULE Client -------------------------------
(***************************************************************************)
(* What the threads of one process share in the client library             *)
(* (phantora/cuda_call/src/capi.rs, stub/cudart.c): the simulated clock,   *)
(* which follows the CPU time of the whole process less the time spent in  *)
(* the library, the memory of the devices, and the pinned memory.          *)
(*                                                                         *)
(* The clock is one word and one system call, the memory maps are locked   *)
(* one call at a time: between two such accesses any thread may run.       *)
(* Times start at 0; the unit of memory is MEM_ALIGNMENT_MASK + 1 bytes.   *)
(***************************************************************************)
EXTENDS Integers, FiniteSetsExt

CONSTANTS
  Threads, Devices,
  Total,      \* memory of a device
  Sizes,      \* sizes of the blocks asked for
  PollCost,   \* QUERY_POLL_US
  Answers,    \* how far an answer may be from the time of the question
  MaxCpu,     \* bound on the CPU time of the process
  MaxCalls,   \* bound on the calls of the clock
  MaxLimit,   \* bound on the addresses of device memory
  MaxHeap     \* bound on those of host memory

ASSUME ClientAssumption ==
  /\ Total \in Nat /\ Sizes \subseteq Nat \ {0} /\ PollCost \in Nat
  /\ Answers \subseteq Int /\ MaxCpu \in Nat /\ MaxCalls \in Nat
  /\ MaxLimit \in Nat /\ MaxHeap \in Nat

VARIABLES
  pc,        \* thread -> where it is in a call, with the call's local variables
  cpu,       \* CLOCK_PROCESS_CPUTIME_ID
  offset,    \* TIME_OFFSET
  ignore,    \* PHANTORA_IGNORE_CPU_TIME
  calls,     \* number of calls made
  base,      \* history: the last answer, and the polls charged since
  app,       \* history: CPU time of the application since then
  twice,     \* history: CPU time since then that a kernel launch subtracted twice
  alone,     \* history: no thread ran while another was in a call
  gpu,       \* GPU_MEM: device -> its allocated size and its blocks
  limit,     \* MEM_LIMIT: the next address of device memory
  live,      \* history: the blocks the application holds
  clean,     \* history: no two mallocs overlapped, no reset or free was for another device
  panicked,  \* a call panicked with GPU_MEM locked
  pinned,    \* PINNED_MEM: address -> size
  heap       \* the end of the host memory posix_memalign has handed out

clockVars == <<cpu, offset, ignore, calls, base, app, twice, alone>>
memVars   == <<gpu, limit, live, clean, panicked>>
hostVars  == <<pinned, heap>>
vars      == <<pc, clockVars, memVars, hostVars>>

Idle == [at |-> "idle"]

Init ==
  /\ pc = [t \in Threads |-> Idle]
  /\ cpu = 0 /\ offset = 0 /\ ignore \in BOOLEAN /\ calls = 0
  /\ base = 0 /\ app = 0 /\ twice = 0 /\ alone = TRUE
  /\ gpu = << >> /\ limit = 1 /\ live = {} /\ clean = TRUE /\ panicked = FALSE
  /\ pinned = << >> /\ heap = 1

At(t, where) == pc[t].at = where
Goto(t, r)   == pc' = [pc EXCEPT ![t] = r]

-----------------------------------------------------------------------------
(***************************************************************************)
(* The clock.                                                              *)
(***************************************************************************)

\* get_current_sim_time, as one step: between its two reads another thread may
\* change either, but ClockExact says nothing about that case.
Clock == IF ignore THEN offset ELSE cpu + offset

\* Mutant: Subtracted in the mode that ignores CPU time too.
SubtractedAlways(us) == offset - us

\* subtract_cpu_time.
Subtracted(us) == IF ignore THEN offset ELSE offset - us

\* Whether thread t is where the library measures its own CPU time.
Measured(t) == pc[t].at \in {"sent", "launch", "nested", "launched"}

\* Thread t runs for a while, in the application or in the library.
Compute(t) ==
  /\ cpu < MaxCpu
  /\ cpu' = cpu + 1
  /\ app' = IF Measured(t) THEN app ELSE app + 1
  /\ alone' = (alone /\ \A u \in Threads \ {t} : At(u, "idle"))
  /\ UNCHANGED <<pc, offset, ignore, calls, base, twice, memVars, hostVars>>

\* send_cuda_call and send_cuda_call_get_response: the time is noted and the
\* message sent; get_current_sim_time is its timestamp.
Send(t, kind) ==
  /\ At(t, "idle") /\ calls < MaxCalls
  /\ Goto(t, [at |-> "sent", kind |-> kind, start |-> cpu, time |-> Clock])
  /\ calls' = calls + 1
  /\ alone' = (alone /\ \A u \in Threads : At(u, "idle"))
  /\ UNCHANGED <<cpu, offset, ignore, base, app, twice, memVars, hostVars>>

\* send_cuda_call returns.
Sent(t) ==
  /\ At(t, "sent") /\ pc[t].kind = "async"
  /\ offset' = Subtracted(cpu - pc[t].start)
  /\ Goto(t, Idle)
  /\ UNCHANGED <<cpu, ignore, calls, base, app, twice, alone, memVars, hostVars>>

\* A synchronization is answered with the time end.
Answered(t) ==
  /\ At(t, "sent") /\ pc[t].kind = "sync"
  /\ offset' = Subtracted(cpu - pc[t].start)
  /\ \E d \in Answers : Goto(t, [at |-> "answered", end |-> pc[t].time + d])
  /\ UNCHANGED <<cpu, ignore, calls, base, app, twice, alone, memVars, hostVars>>

\* handle_sync_response reads the clock ...
SyncRead(t) ==
  /\ At(t, "answered")
  /\ Goto(t, [at |-> "read", end |-> pc[t].end, curr |-> Clock])
  /\ base' = pc[t].end /\ app' = 0 /\ twice' = 0
  /\ UNCHANGED <<cpu, offset, ignore, calls, alone, memVars, hostVars>>

\* ... and adds what is missing to the answer.
SyncAdd(t) ==
  /\ At(t, "read")
  /\ offset' = offset + pc[t].end - pc[t].curr
  /\ Goto(t, Idle)
  /\ UNCHANGED <<cpu, ignore, calls, base, app, twice, alone, memVars, hostVars>>

\* cuda_event_query and cuda_stream_query: a poll that finds the work not ready
\* is charged when CPU time is ignored.
Polled(t) ==
  /\ At(t, "sent") /\ pc[t].kind = "query"
  /\ Goto(t, Idle)
  /\ \E ready \in BOOLEAN :
       LET charge == IF ignore /\ ~ready THEN PollCost ELSE 0
       IN  offset' = Subtracted(cpu - pc[t].start) + charge /\ base' = base + charge
  /\ UNCHANGED <<cpu, ignore, calls, app, twice, alone, memVars, hostVars>>

\* cuda_launch_kernel: the time is noted before the kernel is looked up.
Launch(t) ==
  /\ At(t, "idle") /\ calls < MaxCalls
  /\ Goto(t, [at |-> "launch", outer |-> cpu])
  /\ calls' = calls + 1
  /\ alone' = (alone /\ \A u \in Threads : At(u, "idle"))
  /\ UNCHANGED <<cpu, offset, ignore, base, app, twice, memVars, hostVars>>

\* A function without a symbol: the call returns at once, its time is kept.
LaunchUnknown(t) ==
  /\ At(t, "launch")
  /\ Goto(t, Idle)
  /\ app' = app + cpu - pc[t].outer
  /\ UNCHANGED <<cpu, offset, ignore, calls, base, twice, alone, memVars, hostVars>>

\* A kernel of flash attention is sent by a call of its own, which subtracts its
\* time; the time of the launch, the call's included, is subtracted at the end.
LaunchFlash(t) ==
  /\ At(t, "launch")
  /\ Goto(t, [at |-> "nested", outer |-> pc[t].outer, start |-> cpu])
  /\ UNCHANGED <<clockVars, memVars, hostVars>>
NestedSent(t) ==
  /\ At(t, "nested")
  /\ offset' = Subtracted(cpu - pc[t].start)
  /\ twice' = twice + cpu - pc[t].start
  /\ Goto(t, [at |-> "launched", outer |-> pc[t].outer])
  /\ UNCHANGED <<cpu, ignore, calls, base, app, alone, memVars, hostVars>>
Launched(t) ==
  /\ pc[t].at \in {"launch", "launched"}
  /\ offset' = Subtracted(cpu - pc[t].outer)
  /\ Goto(t, Idle)
  /\ UNCHANGED <<cpu, ignore, calls, base, app, twice, alone, memVars, hostVars>>

ClockStep(t) ==
  \/ Compute(t) \/ \E kind \in {"async", "sync", "query"} : Send(t, kind)
  \/ Sent(t) \/ Answered(t) \/ SyncRead(t) \/ SyncAdd(t) \/ Polled(t)
  \/ Launch(t) \/ LaunchUnknown(t) \/ LaunchFlash(t) \/ NestedSent(t) \/ Launched(t)

\* As long as no thread runs while another is in a call, the clock shows the last
\* answer plus the CPU time of the application since: the time spent in the
\* library is taken out exactly once, except for the call nested in the launch of
\* a flash-attention kernel, whose time is taken out twice; without CPU time only
\* the polls that found nothing ready move the clock.
ClockExact ==
  (alone /\ \A t \in Threads : At(t, "idle")) =>
    Clock = base + (IF ignore THEN 0 ELSE app - twice)

-----------------------------------------------------------------------------
(***************************************************************************)
(* Device memory.                                                          *)
(***************************************************************************)

Mem(d) == IF d \in DOMAIN gpu THEN gpu[d] ELSE [size |-> 0, blocks |-> << >>]
SetMem(d, m) == gpu' = [e \in DOMAIN gpu \cup {d} |-> IF e = d THEN m ELSE gpu[e]]
With(f, x, v) == [y \in DOMAIN f \cup {x} |-> IF y = x THEN v ELSE f[y]]
Less(f, x) == [y \in DOMAIN f \ {x} |-> f[y]]
Allocated(d) == MapThenSumSet(LAMBDA p : Mem(d).blocks[p], DOMAIN Mem(d).blocks)

\* cudaMalloc reads MEM_LIMIT for the call that registers the block, ...
MallocRead(t, d, size) ==
  /\ At(t, "idle") /\ ~panicked /\ limit + size <= MaxLimit
  /\ Goto(t, [at |-> "register", dev |-> d, size |-> size, ptr |-> limit])
  /\ clean' = (clean /\ \A u \in Threads : pc[u].at \notin {"register", "return", "bump"})
  /\ UNCHANGED <<gpu, limit, live, panicked, clockVars, hostVars>>

\* Mutant: Fits without the block asked for.
FitsBefore(d, size) == Mem(d).size <= Total

\* ... which cuda_register_malloc does if the device has the memory, ...
Fits(d, size) == Mem(d).size + size <= Total
MallocRegister(t) ==
  /\ At(t, "register") /\ ~panicked
  /\ LET d == pc[t].dev
         m == Mem(d)
     IN  IF Fits(d, pc[t].size)
         THEN /\ SetMem(d, [size |-> m.size + pc[t].size,
                            blocks |-> With(m.blocks, pc[t].ptr, pc[t].size)])
              /\ Goto(t, [at |-> "return", dev |-> d, size |-> pc[t].size])
         ELSE SetMem(d, m) /\ Goto(t, Idle)
  /\ UNCHANGED <<limit, live, clean, panicked, clockVars, hostVars>>

\* ... reads it again for the pointer it returns, and then moves it on, each
\* access atomic by itself.
MallocReturn(t) ==
  /\ At(t, "return")
  /\ Goto(t, [at |-> "bump", dev |-> pc[t].dev, size |-> pc[t].size, ptr |-> limit])
  /\ UNCHANGED <<memVars, clockVars, hostVars>>
MallocBump(t) ==
  /\ At(t, "bump")
  /\ limit' = limit + pc[t].size
  /\ live' = live \cup {[dev |-> pc[t].dev, ptr |-> pc[t].ptr, size |-> pc[t].size]}
  /\ Goto(t, Idle)
  /\ UNCHANGED <<gpu, clean, panicked, clockVars, hostVars>>

\* cudaFree of a block the application holds, looked up on device d, the
\* current one of the thread.
Free(t, b, d) ==
  /\ At(t, "idle") /\ ~panicked
  /\ live' = live \ {b}
  /\ clean' = (clean /\ d = b.dev)
  /\ IF b.ptr \in DOMAIN Mem(d).blocks
     THEN /\ SetMem(d, [size |-> Mem(d).size - Mem(d).blocks[b.ptr],
                        blocks |-> Less(Mem(d).blocks, b.ptr)])
          /\ UNCHANGED panicked
     ELSE panicked' = TRUE /\ UNCHANGED gpu
  /\ UNCHANGED <<pc, limit, clockVars, hostVars>>

\* cuda_mem_get_sizeinfo makes an entry for the device.
MemGetInfo(t, d) ==
  /\ At(t, "idle") /\ ~panicked
  /\ SetMem(d, Mem(d))
  /\ UNCHANGED <<pc, limit, live, clean, panicked, clockVars, hostVars>>

\* cuda_device_reset on device d clears the memory of every device.
DeviceReset(t, d) ==
  /\ At(t, "idle") /\ ~panicked
  /\ gpu' = << >>
  /\ live' = {b \in live : b.dev # d}
  /\ clean' = (clean /\ live' = {} /\ \A u \in Threads : pc[u].at \notin {"return", "bump"})
  /\ UNCHANGED <<pc, limit, panicked, clockVars, hostVars>>

\* The memory a device counts as allocated is never less than that of its blocks,
\* whatever calls overlap, so that a free never takes it below zero, and never
\* more than the device has, so that cudaMemGetInfo does not underflow.  As long
\* as no two mallocs overlap, no reset hits another device and every block is freed
\* on its own, it is exactly the memory the application holds, in blocks that do
\* not overlap.
MemoryAccounted ==
  /\ \A d \in Devices : Allocated(d) <= Mem(d).size /\ Mem(d).size <= Total
  /\ clean =>
       /\ ~panicked
       /\ \A d \in Devices : Allocated(d) = Mem(d).size
       /\ \A b \in live : b.ptr \in DOMAIN Mem(b.dev).blocks /\ Mem(b.dev).blocks[b.ptr] = b.size
       /\ \A b, c \in live : b # c => b.ptr + b.size <= c.ptr \/ c.ptr + c.size <= b.ptr

-----------------------------------------------------------------------------
(***************************************************************************)
(* Pinned host memory.                                                     *)
(***************************************************************************)

\* cudaHostAlloc: memory from posix_memalign, then cuda_host_register.
HostAlloc(t, size) ==
  /\ At(t, "idle") /\ heap + size <= MaxHeap
  /\ Goto(t, [at |-> "pin", ptr |-> heap, size |-> size])
  /\ heap' = heap + size
  /\ UNCHANGED <<pinned, clockVars, memVars>>
HostRegister(t) ==
  /\ At(t, "pin")
  /\ pinned' = With(pinned, pc[t].ptr, pc[t].size)
  /\ Goto(t, Idle)
  /\ UNCHANGED <<heap, clockVars, memVars>>

\* cudaFreeHost only unregisters the memory; it is not given back.
HostUnregister(t, p) ==
  /\ At(t, "idle")
  /\ pinned' = Less(pinned, p)
  /\ UNCHANGED <<pc, heap, clockVars, memVars>>

\* Mutant: IsPinned that only looks at where the copy starts.
IsPinnedStart(loc, size) ==
  LET before == {p \in DOMAIN pinned : p < loc}
  IN  before # {} /\ Max(before) + pinned[Max(before)] >= loc

\* is_pinned of cuda_memcpy_async: the last block that begins before loc decides.
IsPinned(loc, size) ==
  LET before == {p \in DOMAIN pinned : p < loc}
  IN  before # {} /\ Max(before) + pinned[Max(before)] >= loc + size

\* A copy is classified as pinned if and only if it lies in one registered block
\* and does not begin where the block begins, whatever blocks have been registered
\* and unregistered around it.
PinnedExact ==
  \A loc \in 1 .. MaxHeap, size \in 1 .. MaxHeap :
    IsPinned(loc, size) <=>
      \E p \in DOMAIN pinned : p < loc /\ loc + size <= p + pinned[p]

-----------------------------------------------------------------------------

MemStep(t) ==
  \/ \E d \in Devices, size \in Sizes : MallocRead(t, d, size)
  \/ MallocRegister(t) \/ MallocReturn(t) \/ MallocBump(t)
  \/ \E b \in live, d \in Devices : Free(t, b, d)
  \/ \E d \in Devices : MemGetInfo(t, d) \/ DeviceReset(t, d)

HostStep(t) ==
  \/ \E size \in Sizes : HostAlloc(t, size)
  \/ HostRegister(t) \/ \E p \in DOMAIN pinned : HostUnregister(t, p)

Next == \E t \in Threads : ClockStep(t) \/ MemStep(t) \/ HostStep(t)
Spec == Init /\ [][Next]_vars
====

# A TLA+ model of the Phantora simulator

Phantora runs an unmodified distributed machine-learning program, one process
per GPU, with CUDA and NCCL replaced by stubs.  The stubs forward every call to
a simulator process, which keeps a graph of simulated events (kernels, copies,
collectives, transfers) and a flow-level network simulator, and answers each
host with the simulated time at which its call would have returned.  This
directory models the simulator, its network and what the client library shares
between threads, checks the model with TLC and proves part of it with TLAPS.

## The system

| component | source (under `src/phantora/`) | state | operations |
|---|---|---|---|
| event queue | `phantora/src/event_queue.rs` | events waiting for dependencies, a priority queue, started and ended events, reverse dependencies | add an event or a dependency, release a barrier, execute, look up |
| network simulator | `netsim/src/simulator.rs`, `app.rs`, `cluster.rs`, `timer.rs`, `background_flow.rs` | running, buffered and retired flows with their speed histories, the flows on each link, timers, the time they stand for; per application its flows | a flow arrives (possibly in the past: rollback), run to the next completion or timer, run a group of applications |
| collectives | `phantora/src/simulator.rs` (`nccl_call`) | per communicator and kind, the collectives some ranks have not joined | a rank calls a collective |
| point-to-point calls | `phantora/src/simulator.rs` (`nccl_ungrouped_send`, `nccl_ungrouped_recv`, `nccl_grouped_p2p`) | per communicator, pair and direction, the calls without a peer | send, receive, group of both |
| hosts, streams, synchronization | `phantora/src/simulator.rs` | per host: clock, streams (their last event), CUDA events; the hosts that wait for an event | kernel launch, record, wait, synchronize, query, exit |
| communicators | `phantora/src/simulator.rs` (`nccl_comm_init_rank`, `nccl_comm_split`) | unique ids, half-formed communicators, groups | get id, init, split |
| collective algorithms | `phantora/src/nccl_ops.rs` | none | the flows of a collective |
| estimators | `phantora/src/cuda_estimate.rs`, `torch_estimate.rs`, `torch_call.rs` | caches of measured times | time a kernel on a real GPU |
| server loop | `phantora/src/main.rs`, `args.rs` | sockets | receive, dispatch, answer |
| client library and stubs | `cuda_call/src/capi.rs`, `../stub/*.c` | per process: clock offset, allocations, pinned ranges; per thread: group depth | the CUDA and NCCL entry points |
| timeline, visualizer | `phantora/src/timeline.rs`, `visualizer/src/main.rs` | a trace | serialize and draw |

**How they interact.** The server loop receives one message at a time and calls
the simulator's handler, which runs to completion; there is no other thread
that touches the simulator's state.  What runs concurrently are the hosts: their
calls arrive in any order.  A handler adds events to the queue.  Handlers that
need an answer at a simulated time (synchronize, query) execute the queue,
event by event, until the answer is known; whatever that execution ends may
answer *other* hosts.  The queue gives a flow to the network when the flow's
dependencies have ended, and asks the network for completions when it has
nothing else to do, so the network may be ahead of a flow that arrives later:
it is then rolled back, and the flows it had completed since are run again.
The network simulator can also be driven by itself, by a group of applications
(a replayed trace, background traffic) whose events it handles in a loop.

**What is hard.**
* Rollback: state in three places (queue, network, the ends already copied into
  the start times of later events) must be brought back into agreement, in the
  middle of a recursive call, with two units of time.
* Events are added and linked while others execute: an edge to an event that
  has already ended, or that ends next, must neither lose a wake-up nor release
  something early.
* Collectives and transfers are matched by arrival, across hosts that run far
  ahead of each other and on several streams.
* A host that waits is only ever answered by the call of some host.
* Hosts have clocks of their own, and the queue is executed to the time of
  whichever host calls.
* Replies are matched with calls by their order alone.
* The network recomputes the rates of all flows whenever one starts or
  completes, and must be able to undo all of it.
* The threads of one process share a clock, which must leave out exactly the time
  spent in the library, and an allocator whose steps are atomic only one by one.

`PROJECT.json` lists these and the other hazards with their lines and with the
properties that cover them.

## Modules

### `DepGraph`: what the event queue promises
Events with dependencies; an event ends only after everything it depends on;
`NoneDep` is the dependency `None` of the code, a barrier that a later call
releases.  No times, no queue.  `EventQueue` implements it, `Collectives` and
`PointToPoint` use its actions.

### `NetContract`: what the network promises the event queue
`nts` is the time the network's state stands for, `flows` the unfinished flows,
`retired` the completed ones; it may complete any started flows at any later
instant (`NextCompletions`, `NetRun`), and on the arrival of a flow in its past
(`MustRollback`) revives the flows completed after that instant (`Revived`).
`EventQueue` extends it, `NetSim` implements it: together they say that the
queue's properties hold with the real network.

### `EventQueue`: event queue and network coupling
`pending`, `queue`, `notStarted`, `started`, `ended`, `rev`, `qcnt` and `cnt`
are the fields of `EventQueue` in `event_queue.rs`.  The network is its
contract, `NetContract`.  Queue times are microseconds, network times finer ticks, and the two roundings
of the code are kept.

`push_event`, `end_event` and the rollback loop call each other recursively.
`stack` is their call stack: frames `push` (events still to push), `loop` (the
rollback loop, with the flows it waits for) and `finish` (the flows one step of
the network completed).  The order within a frame is free, as it comes from hash
sets.  A new call begins only on an empty stack.

`AddActionOrPoint`, `AddDependency`, `RemoveNoneDependency`, `Execute` and
`ProceedNetsim` are the public operations.  The guards on the first three are
how `simulator.rs` calls them.

### `Collectives`: `nccl_call`
On one communicator, every kind of collective has a queue of collectives that
are not complete; a rank joins the oldest one it has not joined, or opens one;
the last rank adds the flows and releases the barrier.  Streams, the meta events
around a collective and the dependency edges are the code's; events end as
`DepGraph` allows.

### `PointToPoint`: sends, receives and groups
Per pair of ranks and direction, FIFO queues of unmatched calls; an ungrouped
call or a group matches what it can and leaves the rest waiting.  A group is
handled stream by stream, in the arbitrary order of the code's `HashMap`.

### `Hosts`: clocks, streams, CUDA events, synchronization
Extends `EventQueue`.  `tail` and `buffered` are the two fields of a stream's
`StreamInfo` (only the last event of a stream is ever read), `idOf` is
`id_of_cuda`, `syncing` the waiting hosts by event; `clock` is the simulated time
a client computes from `TIME_OFFSET` and its CPU time.  A call of a host
(`TorchCall`, `MemcpyAsync`, `EventRecord`, `StreamWaitEvent`, `NcclCall`, the three
synchronizations, the two queries) becomes a list of queue operations, in the
order of the handler; `RunOp` applies them to the real queue one by one, because
each can cause a rollback, and then `ExecuteToTime` and `ExecuteToEvent` are the
loops of `execute_to_time` and `execute_to_event`.  No other call is handled until
the handler has returned (`call`), but a host that the execution answers runs
on.  `work`, `covers`, `recorded`, `ask` and `reply` are history: which kernels and
collectives a stream, an event and a synchronization come after by the
rules of CUDA.  Collectives are those of one communicator of all the hosts;
their matching rules are the subject of `Collectives`.

### `Communicators`: unique ids, init, split, groups
The simulator's `init_waiting`, `split_waiting`, `comm_groups` and
`nccl_unique_id`, and `NcclCaller` at each host: outside a group a call is sent
and its reply awaited; inside it is kept (`grouped`) until the outermost group
ends, then all calls are sent (`ToSend`, `outbox`) and one reply is taken per call, in
order (`expect`, `inbox`).  `Serve` handles the oldest call a host has sent.  Ids
are little-endian numbers of `Digits` digits (128 bytes in the code).

### `Routing`: the cluster and its routes
Hosts, top-of-rack switches and spines as `cluster.rs` and `architecture.rs` build
them, with the links numbered in the order they are added (`Edge`, `Links`).
`ResolveRoute` is the route every flow takes; `ResolveRouteMultipath` is the set of
routes `resolve_route_multipath` has for all outcomes of the load balancer's
hashes.

### `NetSim`: the network simulator
`ts`, `buf` (`flow_bufs`), `running`, `linkFlows`, `retired`, `timers` are the
fields of `Simulator` and `NetState`, `fs` the states of the flows: start, bytes,
path, bytes sent, speed history.  `OnFlowArrive` is `on_event(FlowArrive)` with
`RollbackTo`; `StartStep` begins `max_min_fairness(None)`, of whose loop each turn
is an action: `Drained`, `FireTimer` or `Proceed` (rates from `Converge`, then
progress, retirement and the emission of buffered flows).  Other calls wait until
the step has returned (`call`).  Bytes are integers and rates bytes per tick: the
code's `f64` is taken to be exact, and `time_to_complete` rounds up as there.

### `NetApps`: applications on the network
`AppGroup` and `run_with_application`: `GroupStart`, `GroupNotify` and
`GroupComplete` are the cases of `AppGroup::on_event`, `Forward` its `forward`, the
actions `Handle...`, `Run` and `Notify` the loop.  The applications are the
replayer and the two background patterns; a shuffle may give any order.

### `NcclOps`: flows of a collective
The lists of flows that `SimpleRing` makes of each collective, as operators;
`MCNetSim` gives them to the network.

### `Client`: what threads of one process share
The clock (`cpu`, `offset`) with every call that changes it, device memory
(`gpu`, `limit`) and pinned memory (`pinned`).  A thread's `pc` holds where it is
in a call and the call's local variables; every access to a shared atomic or
under a lock is an action of its own (but for the two reads that make up one
reading of the clock), so threads interleave between them.
`base`, `app`, `twice`, `alone`, `live`, `clean` are history: what the clock should
show, which blocks the application holds, and whether calls have overlapped.

### Plan for what is left
1. Proofs about `NetSim` (`RoutesValid`, `HistoryExact`), and about groups of
   splits in `Communicators` (`SplitsInStepAgree`, `PanicOnlyOvertaken`, `NoReplyLost`).
2. Several threads per host in `Hosts`, with their waits on one event.

## Runs

| run | question | result |
|---|---|---|
| `eventqueue` | two flows behind barriers released in any order, with successors and every rollback; and every graph of three events built while it executes: is no wake-up lost, is the order of ends right, does every call return? | passes |
| `eventqueue_retime` | does an event never start before the *current* end of its dependency? | violated |
| `netsim` | flows of four collectives arrive one by one at any time, past or future, between any steps; and groups of two applications: are the rates fair, is a rollback exact, is the contract kept, does every application get its flows and end? | passes |
| `collectives` | three ranks make four calls of two kinds on two streams, each at its own pace: are they matched, scheduled and held right, and does everything end? | passes |
| `p2p` | two ranks, two streams, four calls, ungrouped and grouped; and three ranks' groups with calls that never find a peer: are calls matched in order, and do matched ones end? | passes |
| `p2p_order` | is FIFO order between peers kept within a group over two streams? | violated |
| `hosts_solo` | one host, any calls: does a synchronization that returns mean that the work is done, in stream order? | passes |
| `hosts_program` | two hosts, each with a kernel, a collective, perhaps a poll loop, a synchronization: does it mean that the work is done, is a waiting host always registered, and do both get to the end? | passes |
| `hosts_future` | is an event that a query reports ready one that has ended at the host's time? | violated |
| `comms` | three hosts, any two calls each; or three calls on one communicator, splits of splits among them; or groups of any mix of inits and splits of two: do hosts and simulator agree, which groups can go wrong, and is a reply lost? | passes |
| `comms_group` | do splits of two communicators in one group give each its own result? | violated |
| `client` | two threads that use the clock, or two devices' memory, or pinned memory: is library time taken out once by calls that do not overlap, and what holds of the memory counted under every interleaving? | passes |

**Bounds.** `eventqueue`: a rollback needs one flow that completes, one
that arrives earlier, and, to nest, a flow freed by the end of the second; the
plan has these three, an event after each, two host times and completions both
immediate and more than a microsecond away, so roundings matter (two ticks
per microsecond).  The freely built graphs have `GraphEvents` = 3 events, the
least in which an event has two dependencies, one of which ends before the edge
is added.  `netsim`: two racks of two hosts under two spines give routes
of every length and several uplinks; with bandwidths 7 and 5 shares do not
divide evenly and the bottleneck is at the access link or at the uplink; four
ticks are a microsecond, and `Starts` are whole microseconds, because the queue
adds flows there, before, during and after the flows' time in the network.
Flows that retire out of order within a microsecond and flows that first run
later than their start both occur.  `MaxSpan` only bounds the contract's choice of
instants and is larger than any wait.
`collectives`: four calls, three of them of one kind, let one
rank be three, two or one ahead of the others, and the two kinds and streams let
ranks wait for each other in different places.  `p2p`: four calls (`PairCalls`) let two calls of one side wait, and a
group match some, all or none; outside groups rank 1 uses one stream, as the two
are interchangeable there.  `hosts_solo`: kernels buffered on two streams of
one device, so that a device synchronization has several buffers to flush, and an event
recorded on one and waited for on the other.  `hosts_program`: a host that synchronizes
while the other is still polling or has not yet joined the collective.  `comms`: three hosts and two ids give
overlapping communicators; three digits of base two make the ids carry, and the five ids
that are handed out at most differ.  The program chosen at the start is a restriction of `Next`:
`apart`, two calls and no groups; `again`, one communicator of at most two hosts and
three calls, the least with which the result of a split is split again or a
communicator is split twice in a group; `groups`, two communicators of two
ranks and one split of each, with or without the one colour, in groups of any calls:
the same two hosts or three, in the same order or not.  The hosts and the colours are
interchangeable (`Symmetry`).  `MaxTime` caps the clocks.  `client`: three calls
let one thread be answered between two steps of the other's; device memory of
three units and blocks of one and two let an allocation fail, and `MaxLimit` and
`MaxHeap` let four blocks of a device and seven of the host be handed out in all.  Threads and devices are interchangeable, and the three uses touch
different variables.  The bounds `MaxEvents`, `MaxCalls`, `MaxGroups`, `MaxCpu`, `MaxLimit`,
`MaxHeap` and the sets of times are the only ones; they are guards of the
actions that make calls or add events.
Deadlock is not checked because a behaviour ends when the bounds are used up.

**Fairness.** `MCSpec` of `MCEventQueue` assumes that a call that has begun runs on
(`Internal`): the simulator is single-threaded and no step waits.  `Spec` of `MCNetSim`
assumes the same of `run_with_application` (`AppsNext`), a loop without waits.  `SpmdSpec` assumes that
each rank makes its next call, and that events that can end do: some host
keeps synchronizing, and each synchronization executes the queue.  `MCSpec` of
`MCPointToPoint` assumes that a group's handler finishes, and the same about events.
The `ProgramSpec` of `MCHostsProgram` assumes that a handler runs on, and that each
host's next call is taken: the simulator takes the messages of all hosts in turn, but
can do so only between handlers, hence strong fairness.  It also assumes that a
host that has finished goes on polling now and then.  That is not an idle
assumption: `execute_to_event` stops at the caller's own event and `handle_exit`
executes nothing, so if every other host has exited, a host that waits for a
later event is never answered.

**Mutants.** Each property has an operator in its module (`Mutant: ...`) that
stands for a plausible mistake in the code; with it in place of the definition
after it, TLC reports that property as violated.

## What the violated runs show

* `eventqueue_retime`.  The branch of `push_event` that would move the
  dependents of a flow whose end moved (`event_queue.rs:202`) asks whether the
  flow is in a set from which line 196 has just removed it.  It is never taken,
  so an event can start before the recorded end of its dependency.
  `DependencyOrder` is what does hold: the order of ends is right, and the times
  are right for flows no rollback revived after they had ended.
* `p2p_order`.  The calls of a group are handled in the order of a `HashMap` of
  streams; two sends to the same peer on different streams can be matched in
  the reverse of call order, against the comment at `simulator.rs:234`.  For
  ungrouped calls and groups on one stream the order is kept (`p2p`).
* `hosts_future`.  A query executes the queue up to the host's time and then
  reports any event ready that has an end, also one after that time which
  another host's synchronization has made known; `simulator.rs:757` says "report
  whether the event has completed at curr_time".  The other direction holds
  (`NotReadyIsTrue`, `hosts_solo`).
* `comms_group`.  Replies do not say which call they answer, and the simulator
  answers splits in the order in which they complete.  A host that splits two
  communicators in one group can store each result as the other's.  What does hold
  is `SplitsInStepAgree` (`comms`): splits whose group no reply can overtake,
  because all hosts of its calls make them in the same order, get their own results.

## Other observations

The following came up while modelling.  No run is about them, because no
document, comment or test of the repository says otherwise or because nothing
reaches them.

* A host can panic in a group.  If the reply to a split without a colour, one byte
  (`simulator.rs:996`), or that to an init comes before the reply to a split with a colour
  called earlier in the group, `capi.rs:791` unwraps it as a `SplitResponse`; an init that
  gets the one byte panics at `capi.rs:234`.  An init that gets a `SplitResponse` takes rank
  and size for the time.  States in which hosts have panicked are part of `comms`;
  `PanicOnlyOvertaken` says of all of them that the host had grouped calls which its
  peers make in another order, or not all of which they make.  The cause is that of `comms_group`.
* A communicator of one rank that a split has made can itself not be split:
  `nccl_comm_split` looks for completion only when a rank joins others
  (`simulator.rs:992`), so its host waits for ever.  Of two splits of one communicator in
  one group the second replaces the first in `joined_ranks` (`simulator.rs:983`), and the group
  never ends.  `NoReplyLost` names both as exceptions, and both occur in `comms`: without
  them TLC reports it violated.
* `cuda_event_synchronize` replies with the end of the event even if that is
  before the host's time, and the client sets its clock back to it.
* `netsim/src/simulator.rs:786` says that the completion times of `retired_flows`
  increase.  After a rollback to a time that is not past the end of a flow at
  microsecond granularity they need not, by less than a microsecond;
  `ImplementsNetContract` shows that the early exit at line 818 still revives the
  right flows.
* `resolve_route` takes the first uplink at every hop and is the only one called,
  so in a cluster of several spines all flows share spine 0.
  `TopoArgs::rack_bw` gives a fat tree the bandwidth of a host.
* `calc_delta_per_flow` takes the distance to `max_rate` of the flows that *have*
  converged (`netsim/src/simulator.rs:264`, under "some flows may reach its max_rate
  earlier").  `CalcDelta` keeps it; it has no effect as every flow's `max_rate` is
  the largest bandwidth there is.
* A `Sequence` of applications passes on the flows of the next one's start without
  moving them to the time it starts (`app.rs:139`), unlike its later flows.
* `run_with_application` goes on for ever if the network is empty and an
  application has not finished; `AppRunEnds` shows that the applications of the
  repository do.  The result of `on_event`, which tells what was rolled back, is
  not given to the applications.
* `cuda_launch_kernel` measures its CPU time around a call that has subtracted its
  own: the call's time is subtracted twice, and that of a kernel without a symbol
  never.  `ClockExact` says exactly this.
* Two threads answered at the same time each add the whole difference to
  `TIME_OFFSET` (`capi.rs:233`), and the CPU clock is that of the process: time other
  threads compute while one is in a call is subtracted as if it were the
  library's.  `ClockExact` is therefore about calls that do not overlap.
* Two `cudaMalloc` calls that overlap can return one address
  (`stub/cudart.c:213`); `cudaFree` looks a block up on the thread's current device
  and panics if it belongs to another; `cuda_device_reset` clears the memory of all
  devices (`capi.rs:349`, against the "on the current device" of its comment).  So the memory
  counted is not in general that of the application: `MemoryAccounted` is exact only when
  none of this happens, and otherwise says that a device counts no less than its blocks
  and no more than it has.
* A copy from the very start of a pinned block counts as not pinned
  (`capi.rs:314`, an exclusive bound; `PinnedExact` says so), and `cudaFreeHost` never frees.

## Proofs

Every theorem is about the module's own `Spec` and holds for all values of the
constants that satisfy the named assumption.  The assumptions say that bounds and
times are numbers, that sets whose elements are counted or visited one by one are
finite, that there are two ranks, that a digit has two values, and that event names differ.  None of them
limits how many hosts, events, calls or rollbacks there are.

**The event queue** (`ConstantsAssumption`).  Every safety invariant that
`eventqueue` checks is a theorem, and so is the refinement of `DepGraph`.  Two modules, the
second of which builds on the first:
* `EventQueue_proofs`: `TypeCorrect`, `WakeupsArrive`, `RollbacksDoNotNest`,
  `LoopCanProceed`.  `QueueInv` is `TypeOK`, `NoLostWakeup` and `PendingAdded`:
  `NoLostWakeup` relates both sides of an edge, and `add_dependency` keeps it only
  because the event it links to was added before.  `CallInv` adds the shape
  of the recursion: which frame may lie on which (`Shape`), that what is pushed
  within a rollback loop is not in the network's past (which is why no second
  rollback starts there), that no event is pushed twice, and that the flows a loop
  waits for are unfinished, so that `proceed_netsim` has something to return.
* `EventQueue_net_proofs`: `ImplementsGraph`, `UnwrapsSucceed`, `QueueAndNetAgree`,
  `EmptyQueueMeansBarrier`.  `GraphInv` adds `EdgesHeld`, an edge of
  `rev_dependencies` is remembered in `pending` until its dependency ends, and
  `Acyclic`; with them each step of the queue is a step of `DepGraph` or none.
  `NetInv` adds `StageInv`, one conjunct per place an event can be (to be
  pushed, Start, Point or End in the queue, running or retired in the network, in the
  hands of the rollback loop): in which of them one event can be at once, and when its times in
  the two must agree.  In the middle of a rollback they do not agree, so neither
  `QueueNetAgree` nor `UnwrapSafe` can be proved without saying which stage each
  flow is at.
  `StartsFollowEnds`, that is `DependencyOrder`, closes the module.  The start of an
  event is fixed when it is pushed and recorded much later; `TimesInv` bounds it
  at every place it passes through, by each dependency's end that no
  rollback has revived.

**Collectives** (`RanksAssumption`, `EventsAssumption`).  `MatchedByNumber`,
`CompletesOnLastCall`, `WaitingHeld`, `FlowsBetween`, `TypeCorrect`: every safety
invariant of `collectives`.  `CallInv` (per kind `KindInv`): if D
collectives of a kind are complete, the ranks that joined the i-th waiting one are
exactly the ranks with at least D+i calls.  The code only knows who has joined what;
that this determines the numbers is the invariant.  `CollInv` adds which events exist
and what they depend on, as a function of those numbers.

**Point-to-point calls** (`BatchesAssumption`, `NoneAssumption`).  `Matching`,
`OneSideWaits`, `TypeCorrect`: that the i-th matched call is the i-th call needs that
nobody waits when a peer arrives who could be matched, which needs that both sides
never wait at once; the three together are inductive (`MatchInv`).  `UnmatchedHeld`,
`TransfersOccupy`: `PInv` adds that every endpoint ever made either waits, is still to
be handled in its group or is matched, exactly one of the three, and what the graph
holds for it in each case.  `PeerOrder` has no theorem: it is false for groups
on several streams (`p2p_order`), and `p2p` checks it where it holds.

**The client library** (`ClientAssumption`), for any number of threads.
`ClockIsExact`: `ClockInv` says, for each place of a call, how far the clock is from
what it should show.  `MemoryIsAccounted`: `MemInv` relates the device's size to the
sum of its blocks, and says which blocks are between the stub's steps.
`PinnedIsExact`: `PinnedInv`, blocks of the host do not overlap.  A sum over blocks
is compared with another without induction over data: a least number of blocks
for which they differ leads to a smaller one.

**Hosts** (`HostsAssumption`, `ConstantsAssumption`), for any number of hosts and streams.
* `QueueUnderHosts`: the queue's `DependencyOrder`, `UnwrapSafe`, `QueueNetAgree` and `EmptyMeansBarrier` hold
  when handlers call it, with clocks that are set back by replies.  The step lemmas of the queue's modules are
  about calls with any time (`AnyNext`), so they are cited here; what has to be
  shown is that a handler only names events that exist, links only what keeps the graph
  acyclic, and releases a barrier once.
* `WaitersAreRegistered`: `WaiterRegistered`.
* `HostsInv` is the queue's `OrderInv` and, for the program the handler in progress has
  still to carry out, what it will add: `num[i]` is the id the queue will have reached
  before operation i, and `BuildInv` speaks of the graph with those operations applied.
  Without that, nothing could be said of a stream's last event or a collective's barrier
  while they are being added.  `AnswerInv` says who is registered in `syncing`, that a
  waiting host is either registered or the caller, and that a host waits only for events
  no rollback revives, which is why an end that has answered is not answered again.
* `StreamOrderHolds`: `StreamOrder`, and `SyncsMeanDone`: `SyncMeansDone`, in
  `Hosts_order_proofs`, both from one invariant, `HostsOrder`.  The two properties relate
  history (which work precedes which by the rules of CUDA) to ends and times.  The code
  keeps no such relation: a stream only knows its last event and its buffer.  The
  invariant finds the history again as paths in the graph made of the edges
  of `rev_dependencies` and of those the program in progress has still to add: work v
  is *covered* by an event if a path leads there from each of v's events.
  - `StreamsCovered`, `BuffersWait`: what precedes a stream's next event is in its buffer
    or covered by its last event; what precedes a buffered call is before it in the
    buffer or covered likewise.  `BuffersApart`: a call is in one buffer, once.
  - `WorkWaits`: each event of a piece of work has an edge from an event that covers the
    work before it.  A collective is two events, with all of its flows between
    them, so a piece of work is a set of events, not one.
  - `RecordsCovered`, `AskCovered`: the event a CUDA event names, and the one a host
    waits for, cover the work they stand for; `AskBounded`: that of a synchronization
    does not begin before the call.
  - `ReplyDone`: what a reply says is done has ended, all of it, in the graph.

  No path leads through a flow (`solid`): a rollback moves the end of a flow, so
  `DependencyOrder` bounds nothing by it, while an end that is no flow's
  stays (`EndsStay`).  Ends along a path are in order, by `DependencyOrder`
  (`WaitsDone`, `LastDone`), which turns covered into ended by that time.  The proof has a
  lemma per call (`TorchOrder` to `NcclCallOrder`), which says where the events of its
  program end up in that graph before the first of them has been added, one
  for carrying out an operation (`RunOpOrder`), and one for the loops that
  execute and answer (`HandlerOrder`).

**Communicators** (`CommunicatorsAssumption`), for any number of hosts, any width of an
id, and groups of any calls.
* `IdsAreFresh`: `IdsFresh`.  `IssuedInv` says that each id is the successor of the one
  before, also where a split takes several at once.  So the first id that comes again closes
  a set that contains the zero id and every successor, and that set has all ids: counting an
  id outside it down to zero would stay outside.  The number of ids is never
  mentioned; it would take an induction over the digits.
* `CommsKnow`: `CommsAgree`, while no id has been handed out twice (`IdsDistinct`), which by
  `IdsAreFresh` can only end when every id has been used.  A host takes replies without
  knowing which call they answer, so what it has been told can be judged only
  when it awaits nothing; `CountInv` then says that nothing is on its way and
  no communicator it has joined is half-formed.  `AgreeInv` relates calls, half-formed
  communicators, replies and the hosts' communicators to `comm_groups` and to what the
  program meant.  A split that completes tells each rank its place in an order of the
  ranks of its colour, and there is one for every rank because an injection between
  finite sets of one size is onto.

The three `TypeCorrect` theorems stand for the type invariants: no run checks
them again.

**Only model-checked.**
* Liveness, which is beyond the prover: `CallsReturn`, `AllCollectivesEnd`,
  `MatchedTransfersEnd`, `ProgramsEnd`, `AppRunEnds`.
* `PeerOrder`, as said above; and `SplitsInStepAgree`, `PanicOnlyOvertaken` and
  `NoReplyLost` of `MCCommunicators`: they speak of the calls sent together, a history
  that `Communicators` and its proofs do not have.  `SplitAgree` itself is false (`comms_group`).
* `NotReadyIsTrue` of `Hosts` holds without flows only, and so for the calls of
  `hosts_solo`.
* The properties of `NetSim`, `NetApps` and `Routing`, and `ImplementsNetContract`.

## Not modelled

The estimators (`torch_call.rs`, `torch_estimate.rs`, `cuda_estimate.rs`: they parse
operators, run them on a GPU and keep the time; the model takes any duration), the
sockets and the command line, the stubs that only forward, the timeline and
the visualizer.
Within `EventQueue`: `query`, a lookup, and the unreachable
`add_end_time_to`/`change_start_time_notless`.  Within `Hosts`: `host_times`,
`exited_hosts` and `read_timer`, which no handler's behaviour depends on, and several
threads of one process.  Within `Communicators`: the devices of ranks and the times
in replies, and the collectives a group may hold besides.  Within the network
simulator: fairness per pair of virtual machines and per tenant
(`SimulatorBuilder` never hands them to `NetState`), `Sequence`, timers an application registers,
`update_flow_start_ts` and a step with a deadline, which nothing in the
repository uses; and the error of `f64` arithmetic, which the code's assertions
bound by 1e-6.  Within `Client`: the interleaving of the two reads of
`get_current_sim_time`, and kernels' parameters.

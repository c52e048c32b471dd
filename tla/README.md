# Verification of the danbi runtime

danbi runs stream programs on multicore machines. A program is a graph of
*kernels* connected by bounded *queues*; the runtime schedules the kernels as
green threads on one native thread per hardware thread and lets a kernel run in
several threads at once. Almost everything that can go wrong in it is a matter
of interleaving: the queues, locks and tickets are lock-free or hand-made, the
scheduler is distributed, and a program ends by a protocol among threads that
come and go. The TLA+ modules here model that core, TLC checks it on small
instances, and TLAPS proves the safety properties for every size. Where the code can
go wrong by a step out of turn, the theorem does not assume that step away: it names
it, and says that the property holds until it is taken.

Paths below are relative to `src/`; `S/` stands for `include/Support/`.

## 1. Inventory

| component | state | operations | what must hold |
|---|---|---|---|
| ring index arithmetic (in every queue header) | none | room and data checks, advance, window | agrees with modular arithmetic, wraps and exact fits included |
| lock-free reserve/commit queue, `S/ConcurrentReserveCommitQueue.h` | four ring indices, two commit lists of `ReservationInfo` | reservePushN, commitPush, reservePeekPopN, commitPeekPop, drain | bounded FIFO, commits in reservation order, no slot used by two threads, no lost wake-up |
| blocking queue, `S/BlockingReserveCommitQueue.h` | the same indices, an RCLock per side | the same | the two locks in one list exclude; cancelled reservations keep their place |
| resizable queue, `S/ResizableReserveCommitQueue.h`, `S/ResizableBufferManager.h` | the same, plus the buffer and its size | the same, grow, compact, shrink | data survive a change of the layout, open windows stay where they are, the locks of the two sides never block each other |
| ordering tickets, `S/PerCPUOrderingTicket*.h`, `S/SingleOrderingTicket*.h` | issuer and server counters, one slot per core or one | issue, isMyTurn, consume | tickets follow the reservations; one turn at a time; none lost |
| FCFS and blocking tickets | counters | the same interface | first come first served |
| MCS lock, `S/MCSLock.h`; CLH locks | a list of QNodes on callers' stacks | lock, unlock | exclusion, FIFO, no write to a dead QNode |
| ready queue, `S/SuperScalableQueue.h` | linked list with sentinel, lock-free push, locked pop | push, pop | linearizable FIFO |
| alternative ready queues, `S/MSQueue.h`, `S/LSQueue.h`, `S/CuBoQueue.h` | linked lists | push, pop | the same |
| green threads, `S/GreenScheduler.h`, `S/GreenThread.h`, `lib/Support/ContextSwitch*` | stacks, saved stack pointers, ready queue, recycle bin | main, yield, start, terminate | one native thread per stack; only saved contexts are loaded |
| kernel scheduler, `*/Core/DistributedDynamicScheduler.*`, `lib/Core/CPUSchedulePolicyAdapter.cpp` | per kernel Terminated, Terminating, NumSpawnedThreads, SequentialKernelRunning, a ready queue; per native thread a `SystemContext` | schedule, trySchedule, selectNext, spawn, schedule out, deregister | a sequential kernel has one thread; counts are right; nobody is left behind |
| kernel termination, `*/Core/Kernel.*`, `lib/Core/CPUUberKernel.cpp` | Terminated, active inputs, deactivated queues | canTerminate, deactivateOutputQueues, the body loop | kernels end after their producers, once, with all data consumed; feedback queues do not keep a program alive |
| queue intrinsics, `lib/Core/IntrinsicsCPU.cpp` | locals of a call | reservePeekPop, reservePush, commits | retries, repeat counts, refusals and drain lose nothing |
| scheduling hints, `include/Core/SchedulingHint.h` | fill-level statistics | a decision to leave a kernel | any decision is safe |
| program construction, runtime, devices, partitioners | the program graph | sequential set-up and join | - |
| support utilities, event logger, visualizer, MapReduce, benchmarks, vendored tools | - | - | - |

How they interact: a native thread runs `GreenScheduler::main`, which asks
`CPUSchedulePolicyAdapter::selectNext` for a green thread. The adapter asks the
`DistributedDynamicScheduler` for a kernel, pops a thread from the kernel's
ready queue (`SuperScalableQueue`, which contains an `MCSLock`) or makes one. The
thread runs `CPUUberKernel::main`, a loop around the body of its kernel. The body
calls the intrinsics, which reserve and commit slots of the data queues, draw and
redeem tickets, and *yield* when a queue is empty or full; yield selects another
thread and switches to it. When the kernel's inputs have ended, the loop ends,
the thread deregisters itself, and the last one of a kernel deactivates the
queues behind it, from which the consumers learn that they may end in turn.

What is hard: several native threads in each of these structures; indices read
before a CAS and used after it; stack objects that other threads write to;
wake-ups that pass along a list whose order is not the order of the work; a
termination protocol made of five separate shared writes; native threads that
leave for good while others still work. There is no persistence and no network,
hence no recovery and no message loss. Every such place is a hazard of
`PROJECT.json`, at its line, with the properties that would notice it going wrong.

## 2. Modules

| module | models | lines of code |
|---|---|---|
| `RingIndex` | index helpers | `S/ConcurrentReserveCommitQueue.h` 64-119, 326-346 |
| `ReserveCommitSpec` | *abstract*: a bounded FIFO whose runs are reserved and then committed in the order of reservation | `S/AbstractReserveCommitQueue.h` |
| `ConcurrentRCQ` | the lock-free queue, one action per shared access | `S/ConcurrentReserveCommitQueue.h` |
| `RCLockSpec` | *abstract*: two locks in one line of threads | interface of `RCLock` |
| `BlockingRCQ` | the RCLock and the queue under it | `S/BlockingReserveCommitQueue.h` |
| `ResizableRCQ` | the queue that grows, compacts and shrinks | `S/ResizableReserveCommitQueue.h`, `S/ResizableBufferManager.h` |
| `OrderingTickets` | issuer and server between two queues | `S/PerCPUOrderingTicket{Issuer,Server}.h` |
| `MCSLock` | the queue lock | `S/MCSLock.h` |
| `FifoQueueSpec` | *abstract*: an atomic FIFO of distinct nodes | interface of `S/SuperScalableQueue.h` |
| `SuperScalableQueue` | the ready queue with its pop lock | `S/SuperScalableQueue.h` |
| `GreenThreads` | main, yield, start, context switch, recycling | `S/Green*.h`, `S/FIFOSchedulePolicy.h`, `lib/Support/ContextSwitch*` |
| `KernelScheduling` | scheduler, adapter, intrinsics, termination | `lib/Core/*.cpp`, `include/Core/{Kernel,DistributedDynamicScheduler}.h` |
| `*_proofs` | theorems and proofs about the module before the underscore | |
| `MC*` | instances for TLC | |

How they are put together:

* `ConcurrentRCQ`, `BlockingRCQ`, `ResizableRCQ`, `OrderingTickets` and `KernelScheduling`
  extend `RingIndex`, the one definition of the index arithmetic.
* `SuperScalableQueue` extends `MCSLock`: its pop makes the steps of `lock` and `unlock`,
  one by one, between its own.
* `ResizableRCQ` uses the actions of `RCLockSpec`; `BlockingRCQ` shows that the RCLock
  of the code, flag by flag, implements `RCLockSpec`. Checking the two apart is what
  makes a queue of this size checkable.
* The three data queues implement `ReserveCommitSpec`, and `SuperScalableQueue`
  implements `FifoQueueSpec`, by refinement mappings at the end of each module.
* `KernelScheduling` uses data queues, tickets and ready queues as what those
  refinements justify: atomic.

### Conventions

* Variables and actions have the names of the code. Where the name belongs to a
  module that is extended (`Head`, `Tail`, `Next`) it has a suffix. Each thread has
  a program counter (`pc` or `at`) whose values are explained where they are
  declared.
* One action is one access to shared memory, together with the local
  computation up to the next. Reads that are only used to decide whether to try are
  merged with what follows where the module's header says so.
* Memory is sequentially consistent. The target is x86: CAS and FAS are full
  barriers there, stores are seen in order, and no modelled protocol depends on a
  plain store being seen before a later load of the same thread.
* A stack object (`ReservationInfo`, `QNode`) has the name of its thread and is used
  again by that thread's next call, so a late write by another thread shows.
* History variables (`lag`, `line` of `MCSLock`, `claims`, `claim`, `lastPushed`,
  `slots`, `win`, `lost`) never influence a guard, except `lag` and `claims`, which
  are bounds, see below.
* `Slip: ...` marks a variant of the definition after it with one plausible
  mistake. No behaviour uses it; it is there so that every property can be shown to
  fail for some mistake in the code.

### Module by module

**ConcurrentRCQ.** A reserve call reads the reserved index, reads the opposite
limit and checks room, CASes the reserved index, FASes itself into the commit list
and links itself behind its predecessor. A commit waits for ReadyFlag, CASes the
committed index if its own turn by *index* has come, and otherwise passes the
flag to its successor in the *list* and waits again: list order and index order
differ because CAS and FAS are two steps. `RingOrder`, `NoSlotRace` and
`ImplementsReserveCommit` are the promise to kernels; `CommitsEventually` says that
the two orders together lose no wake-up. *Assumption*: the CAS compares only the
reserved index. A thread that sleeps between its read and its CAS while the index
makes a full round CASes on a stale check. `MaxLag` bounds the slots that others
may reserve meanwhile; all properties hold for `MaxLag < NumElm`, and with
`MaxLag = NumElm` TLC violates `RingOrder` within a few steps (two pushers, one
popper, three slots).

**BlockingRCQ.** One list of nodes carries two locks; the reserve lock is handed on
by a flag the successor consumes, the commit lock by a flag the predecessor sets.
`ImplementsRCLock` says that the whole dance of flags is a line of threads in order
of arrival: the line is read off the links and the `old` pointers.
`CancelWaits` chooses between the two versions of cancelReserveLock in the tree:
`S/ResizableReserveCommitQueue.h:202-207` takes the commit lock before it releases
it; `S/BlockingReserveCommitQueue.h:160-164` releases it without owning it.

**ResizableRCQ.** A pusher without room, under the lock of its side, makes the ring
larger if the data lie in one piece; if they wrap around it tries for the pop
lock, never waits for it, and moves the smaller block (CASE 1 to 3 of
compactQueue). A popper that finds the ring almost empty waits for the push lock and
makes the ring smaller. The random decisions of the code are nondeterministic. The
history variable `slots` follows where the elements are when blocks are copied;
`SlotsInOrder` compares it with what the indices say, `WindowsInPlace` with the
windows that threads hold; `LayoutAlone` says who may be active beside a change of the
layout. A pusher checks for room after a compaction with the
indices it read before (`:422`); with the runs' sizes that refuses
a push and does nothing worse. Two *assumptions* of TLC's run, which the code does not
guarantee and no theorem makes:

* `PromptSize`: nobody moves while a popper has read NumElm and not yet Tail
  (`reservePeekPopN`), nor between compactQueue's release of the pop lock and
  the store of NumElm (`:287`, `:309`). Without it, a popper computes with the size of
  one layout and the indices of the other, and TLC violates
  `ImplementsReserveCommit` and `SlotsInOrder`.
* `SkipExactFit`: no compaction whose data would end exactly at the last slot of the new
  ring. CASE 1 (`:244`) then sets Tail and ReservedTail to `numelm + move_num`,
  which is the new size and not an index; TLC violates `AssertionsHold` and
  `SlotsInOrder` without the assumption.

**OrderingTickets.** The k-th pop of the input gets the k-th ticket because issue
waits until the slot of its old index holds that index, which the previous pop
publishes after it drew its own ticket. The server hands the turn from slot to
slot. With `Cores = 1` the module is the Single variant. A pop must not go on before
the one ahead of it has published: `TakesOldIndex` of `OrderingTickets_proofs` is the
step that does, because its slot holds an equal index of an earlier round. With one
slot for all it never happens, whatever the sizes of the pops. With several it can if
pops differ in size, as those of `benchmark/MergeSort` do: TLC reaches it with two
threads, `PopNums <- OneOrTwo`, `NumElm = 6` and `Cores = 2`, and then violates
`TicketsFollowClaims`. *Assumption of the passing run*, therefore: pops are of one
element, and the ring has room for the pops that wait
(`RoomForSlots`): with `gap = Cores + NumElm % Cores`,
the number of threads and `gap` are together at most `NumElm + 1`, or `gap` is at
most two. Otherwise an index published in an earlier round of the ring can still be in
the array when it comes again, and two pops are then ordered the wrong way. The condition is
exact in all of some twenty instances tried with TLC: four threads, `NumElm = 5` and
`Cores = 2` violate `TicketsFollowClaims`, as do two threads with `NumElm = 5` and
`Cores = 3`; three threads with `NumElm = 5` and `Cores = 2`, the run's, do not.

**MCSLock** and **SuperScalableQueue** follow the code access by access. The
history variable `list` names the nodes between the two instants at which the code
takes them in and lets them go: from the FAS on `Tail` of their push to the CAS on
`Tail` or the store to the sentinel's link of the pop. `LinksIntoQueue` ties it to the
memory: each node of `list` is linked behind the one before it, or a pusher is about to
link it. A pop takes its node from the links, so that `ImplementsFifo`, where it must be
the first of `list`, compares the two.

**GreenThreads.** A native thread is on its own stack or on the stack of a green
thread; a green thread's context is fresh, saved, or loaded. `SchedulePolicy` is
fixed at the start: the FIFO policy with a full ready queue, or the adapter, which
makes threads from recycled ones. *Assumption* of TLC's run, not of the code or of a
theorem: with `PromptEnd` nobody moves while
a native thread is still on the stack of a thread it has put in the recycle bin.
Without it TLC violates `StackExclusive` and `TerminatedIsDone`:
`CPUSchedulePolicyAdapter.cpp:147` pushes the thread before its native thread has left
the stack, and another native thread may initialize and run on it.

**KernelScheduling.** The whole path of a native thread, in three groups of
actions: `select` (choice of kernel and thread), `runBody` (queue operations, retries,
drain, the test for termination) and `endBody` (repeat, leave on a hint, deregister,
terminate the kernel, deactivate its output queues one by one). A *program* is a
record: per kernel the operations of its body (`push` or `pop`, the queue, how many,
with or without a ticket), the start and the parallel kernels, and the ends of each
queue, feedback queues included; it is chosen in `Init`. schedule tries, as the code
does, the other end of the queue that stopped the thread, the walk along
`NextOnTheSameDevice`, and all kernels from a random start; a thread that waits for its
turn (`NotMyTurn`, of a push or of a pop) gives way only to a thread of its own kernel. A
push that was refused because the queue was full is given up when its consumer is
Terminated. A pop's number is the repeat count of the intrinsic, each element being
one (`PeekNum` and `PopNum` are 1): that is what a failed pop counts down and drain
discards; pops that look at more than they take are the business of `ConcurrentRCQ`. Green
threads have no identity: one is the record it resumes from. Random choices and
floating-point hints are nondeterministic. A body that is not at its end leaves a
parallel kernel for two reasons, each with a switch of its own in
`SchedulingHint.h`: `Speculation` for the hints (`:114`) and `RandomJumps` for the random
jumps (`:157`). *Assumption* of TLC's runs, not of the code or of a theorem: with
`PromptSpawn` nobody moves between isKernelTerminating and the count of the new thread
(`CPUSchedulePolicyAdapter.cpp:184-191, 319-334`). Without it TLC violates
`TerminatedIsOver` and `TerminatesAfterProducers` with the programs of `sched_safety`: a
thread spawned after its kernel was Terminated terminates it again, and its consumer
counts one active input too few.

## 3. Runs

| run | question | instance |
|---|---|---|
| `rcq` | Is the lock-free queue a FIFO with in-order commits, race-free slots and no lost wake-up? Is the invariant of the proofs true? | 4 slots, pushes of 1-2, pops of 1-2 that look at 2; crews of three pushers, of two pushers and a popper, of a pusher and two poppers; 0.37 M states |
| `rclock` | Is the RCLock the line of threads it is used as, and the queue under it a FIFO? Do calls return? | 2 pushers, 1 popper, 3 slots, runs of 1-2, cancels; 45 k |
| `resizable` | Do data and windows survive growing, compacting and shrinking, is whoever does it alone, and do calls return? | 2 pushers, 1 popper, 3 to 6 slots, pages of one element; 74 k |
| `tickets` | Does the output keep the order of the input, and is every ticket served? | 3 threads, 2 slots of tickets, 9 pops; 26 k |
| `ssq` | Is the ready queue an atomic FIFO whose pops return, and its lock a fair lock that never touches a dead QNode? | 3 threads, 2 nodes; 182 k |
| `sched_safety` | Are threads counted, sequential kernels alone, and do kernels end once, in order, with nothing lost? | 2 native threads; `Join`: two producers (one parallel), one parallel consumer with two inputs; `Ordered`: a parallel kernel with tickets and a feedback queue; `Zip`: a parallel kernel that pops two queues in step, the second on the ticket of the first; hints and random jumps on; 0.83 M |
| `sched_ends` | Does the program end, with every kernel Terminated? | 2 native threads; `Relay(2)`: three elements, popped in pairs, through 2 usable slots; `Reply`: a feedback queue that is never emptied; 158 k |
| `green` | One native thread per stack, no thread forgotten? | 3 native, 4 green threads, both policies; 2 k |
| `blocking_cancel` | *violation*: does the blocking queue keep the order of its indices if a reservation is cancelled? | 3 pushers, 1 popper |
| `sched_leave` | *violation*: does the last thread of a kernel terminate it? | `Pipeline`, parallel middle kernel, hints on |
| `sched_drain` | *violation*: does drain discard only what is too little for a pop? | `Relay(1)` |
| `sched_walk` | *violation*: does the walk along NextOnTheSameDevice end? | `MergeSort`: a cycle that the source is not on |

The bounds. Three slots give two usable ones: full, empty, wrapping runs and
exact fits all occur, and an index goes round the ring many times; the lock-free
queue has four so that a run of two can still be behind another one. Two threads on
a side make every pair of steps race; three pushers give a commit list that
disagrees with the index order in more than a swap (`rcq`), and three threads two
half-done pushes beside a pop (`ssq`), or on the pop lock a holder, a linked and a
linking one. A crew is fixed at the start of a behaviour; a thread outside it never
calls. From three to six slots the resizable queue grows and shrinks in every size
between, and compacts in all three cases. Two native threads suffice for every pair of
steps of the scheduler to race; the bodies make queues overfill (`Relay`, `Reply`) and
give a kernel two inputs whose ends come in any order (`Join`). `MaxClaims` only ends
the stream; nine claims are four laps of the ticket slots and almost two of the ring.
The liveness runs do without symmetry.

Fairness. All of it says that a native thread is not suspended for ever, which the
operating system guarantees: weak fairness of the steps of a call that has begun.
No call need be made. In `OrderingTickets` and the queues, "the caller calls again
until it succeeds" (loops of `IntrinsicsCPU.cpp`) belongs to it. `KernelScheduling` adds
strong fairness for picking a kernel: `scheduleByExhausitiveSearch` starts at a
random kernel each time, so one that can be picked again and again is picked. That
`Ordered` ends is not claimed: nothing in the code keeps a thread that waits for its
turn from trying again and again in lockstep with the one that would bring it.

What the violations show:

* `blocking_cancel`: a pusher that queued for the lock finds the ring full, and gives
  away a commit lock that its predecessor still holds; the next pusher commits first,
  the predecessor's commit then sets Tail back.
* `sched_leave`: one thread of a parallel kernel sets Terminating and goes while a second
  leaves on a scheduling hint; the second is the last, but only a thread that saw
  the termination terminates the kernel. No thread can be made afterwards, the
  kernel is never Terminated and its consumers never end.
* `sched_walk`: the last output queues of two kernels form a cycle that the source is
  not on, as in `benchmark/MergeSort/MergeSort.cpp:704-725`. A thread of the source starts the
  walk; if both kernels of the cycle are Terminated meanwhile, it goes round for ever.
* `sched_drain`: with a repeat count of one, a pop fails, the producer pushes and
  terminates, the pop sees the deactivation and drains the queue without trying again.

Also seen, each by changing the constants named above or checking the property
named here: `WakesOnlyWaiting` of `ConcurrentRCQ` (a committer out of order may set
the ReadyFlag of a call that has returned; harmless in the model, where the object
is that thread's next reservation and sets the flag anew, but a write to a dead
stack frame in C) and `LeavesNoneReady` of `KernelScheduling` (main returns although
threads are ready, against the comment at `S/GreenScheduler.h:77`). `EndsComplete`
and `LastThreadTerminates` do not hold with `Speculation`, nor with `RandomJumps`. Without
`PromptSize`, `SkipExactFit`, `PromptSpawn` and `PromptEnd` the resizable queue, the
scheduler and the green threads go wrong as described in section 2, and with pops of
several sizes so do the tickets; the theorems of section 4 say by which steps.

## 4. Proofs

All theorems are for every value of the constants under the assumptions named in
the modules; TLC evaluates those on every run.

Some properties are broken by steps the code can take, and TLC's runs keep clear of
these steps (section 2). The theorems cover the code with them. They have the form
`Spec => []P \/ <><<Fault>>_vars`, where `Fault` is an action that names the faulting
step: every run either has P throughout or takes that step. As `Spec` has no fairness,
a run may stop anywhere, so P holds until the first such step. Each fault is as narrow
as could be proved:

| fault | the step | hazard |
|---|---|---|
| `RecycledOnStack` | an adapter takes a green thread from the bin on whose stack a native thread still is | `lib/Core/CPUSchedulePolicyAdapter.cpp:147` |
| `GrantsByOtherSize` | a popper is granted elements, having computed with a NumElm that is not the ring's | `S/ResizableReserveCommitQueue.h:309` |
| `FillsExactly` | a compaction whose data end exactly at the last slot | `S/ResizableReserveCommitQueue.h:244` |
| `TakesOldIndex` | a pop goes on to draw while an earlier one has not published its index | `S/PerCPUOrderingTicketIssuer.h:48` |
| `LateSpawn` | a thread is counted for a kernel that is Terminated or is being terminated | `lib/Core/CPUSchedulePolicyAdapter.cpp:191` |
| `StaleDrain` | a pop of one element drains with a ReservedHead that has moved since | `S/ConcurrentReserveCommitQueue.h:480` |
| `EarlyDrain` | a pop of one element drains a queue that is not empty | `lib/Core/IntrinsicsCPU.cpp:91-105` |

For `RecycledOnStack`, `TakesOldIndex` and `LateSpawn` it is proved that the step
breaks the invariant every time, not only that no other step does; for `FillsExactly`, that it
breaks `SlotsInOrder` every time.

* `RingIndex_proofs`: with D the distance round the ring, `RoomIsDistance` and
  `DataIsDistance` say that the checks compare distances, `WindowIsDistance` that a
  window is exactly the slots nearer than its size. The proofs about the queue use
  these and lemmas on adding distances, never the case distinctions of the code.
* `ConcurrentRCQ_proofs`: `TypeCorrect`; `InvariantHolds` for `IndInv`; from it
  `RingOrderHolds` and `NoSlotRaceHolds`. `RingOrder` is not inductive: the CAS of a
  reserve call needs that a check made some steps ago still holds. `SnapshotsHold`
  supplies that: the reserved index is exactly `lag` slots ahead of the snapshot, so
  with `MaxLag < NumElm` the CAS can only succeed if the lag is zero, and then the
  other side can only have made more room or more data. `WindowsOrdered` says that
  the open windows of a side lie one behind the other between the committed and the
  reserved index; a commit at distance zero must then be the first of them, which
  keeps the order when the index moves. `ImplementsContract` maps every step to a step
  of `ReserveCommitSpec` or a stutter: the CAS of a call reserves at the end of the side's
  windows and the CAS of the commit index commits the first, all others change nothing the
  contract sees. The assumption `MaxLag < NumElm` is stated in
  each theorem but `TypeCorrect`; it is the no-full-lap condition above.
* `SuperScalableQueue_proofs` first treats the `MCSLock` it contains: `InvariantHolds` for
  the chain of QNodes: the threads inside form one
  line, each linked to its predecessor or holding the reference with which it will
  link, only the first unlocked. `MutualExclusion`, `ServesInOrder` and `NoDeadQNode`
  follow. The line is a sequence; arrivals append to it and only the first leaves.
  Every step of the queue is a step of its lock or leaves
  the lock alone (`UsesLock`), so the theorems about the lock hold inside the queue:
  mutual exclusion (`OnePopper`), order and live QNodes. `QueueInvHolds` then is about the list, and
  uses that one popper at a time is behind the lock. A node is in the list or with one
  thread (`Owned`); for each node of the list the link exists or one pusher is about to make
  it, never both, the last node has no link, and the sentinel's may only be stale
  while a popper is clearing it (`Linked`); what a popper
  saw stays true, since pushes add at the other end (`Popping`). `LinksIntoQueueHolds`
  follows, and `ImplementsFifoHolds`: any number of threads see a FIFO, a push
  taking effect at its FAS and a pop where it lets the node go.
* `GreenThreads_proofs`, for any number of native and green threads: `StackInvHolds` for an
  invariant in four parts. A green thread is in one place only: ready, in the recycle bin,
  chosen by a native thread or running on one (`Apart`); which of these a native
  thread is dealing with follows from where it is (`Pointers`); a thread that is ready or chosen
  has its context in memory (`Contexts`); with the FIFO policy, one that is nowhere has ended
  (`Accounted`). Only a thread that ends is in the bin and still on its stack, and a step
  loses the invariant exactly if it is `RecycledOnStack`. Until then
  (`StackInvUntil`) `StackExclusiveHolds`, `SwitchesToSavedHolds` and `TerminatedIsDoneHolds`;
  with the FIFO policy, which recycles nothing, the three hold always (`FifoIsSafe`). That
  nobody is forgotten needs none of this: `AllThreadsEndHolds`, with one native thread at least.
* `BlockingRCQ_proofs`: `TypeOKHolds` for either cancel. All else is for the cancel that waits
  (`CancelWaits`, the resizable queue's); for the other one it is false, as `blocking_cancel`
  shows. `NodeInvHolds` is about the flags and links of the nodes, for any number of
  threads. A node that waits has an `old` that stays until its reserve lock has been
  consumed (`Olds`); a Next is the node behind, and nobody else's (`Nexts`); RCLock is the
  last of its line (`Ends`); the commit lock is with a node that has nobody before it
  (`Flags`); and the line is an order in which nobody gets the reserve lock before those
  ahead have released it (`InOrder`). Who is ahead of a node is the *least* set that holds the
  node it is linked behind and is closed under that (`Closure`); stated like this, what a
  new link or a node that leaves does to it follows without induction along the list.
  Each step is then at most one move in one line, `Joins`, `Passes` or
  `Leaves` (`NodeStep`), and `RCLockImplemented` maps these to the actions of
  `RCLockSpec`: Enter is the swap of RCLock, Take the store of Consumed, and Leave the swap that
  empties the list or the store of Go to the next node. `LocksExcludeAlways` follows.
  Under the locks the windows of a side fill the space between its two indices
  in the order of the line (`Tiled`): a reservation adds one at the end because the
  holder of the reserve lock is behind all windows of its side (`HolderIsLast`), and the one
  that commits is the first because it has nobody ahead (`CommitsFirst`). That gives
  `RingOrderHolds` and `ImplementsContract`: a reservation and a commit are the steps
  of `ReserveCommitSpec`, everything the RCLock does is a stutter.
* `ResizableRCQ_proofs` begins with the line of `RCLockSpec` itself, for any threads.
  `LineHolds` is its invariant (of two threads in line one is before the other,
  and nobody holds the reserve lock before those ahead have released it); it gives
  `OneReserver`, `OneCommitter` and `ReservesInOrder`.
  `UsesLocks` maps every step of the queue to an action of
  `RCLockSpec` or to a stutter (`PlacesMatch`: the place of a thread says what it holds
  of the lock of its own side and of the other one), so these theorems hold inside
  the queue. `LayoutIsAlone` follows: whoever changes the layout holds the push
  lock, whoever moves data holds the pop lock too and has seen that no popper has a
  reservation open (`CompactionBegins`).
  `LayoutIsKept` then proves the invariant `LayoutInv` for any threads, sizes and requests, until
  a `LayoutFault`: `GrantsByOtherSize` or `FillsExactly`. In distances from Head, the
  order is Head, ReservedHead,
  Tail, ReservedTail; the windows of a side follow each other in the order of its lock
  without gaps (`Ordered`); the elements are where the indices say and each
  window where its thread was told (`Placed`). `SlotsInOrder` alone is not inductive:
  what a call read before it asked for a lock decides what it does with the ring later.
  `Remembers` says what is still true of it: a pusher that found its data in one piece has
  ReservedTail still, and Head can only have come nearer, so growing behind ReservedTail moves
  nothing; one that found them wrapped around finds no room again; a popper that shrinks has
  NumElm as it is. Head, Tail and the windows all
  change when data are moved; `Unmoved` says for such a step that every
  distance and every window's length are as before.
  `SlotsStayInOrder`, `WindowsStayInPlace` and `AssertionsAlwaysHold` follow, until a fault,
  and `ImplementsContract` of every run without one: to the kernels, growing, compacting and
  shrinking are stutters of a queue of the largest size, a reservation and a commit the
  steps of `ReserveCommitSpec`. A popper that reads one size and computes with the other
  does no harm as long as it is refused.
* `OrderingTickets_proofs`: for any number of slots, `OneTicketIsServed`: at any time there
  is one ticket t such that the slots of the server hold the last `Cores` numbers up to
  t, no ticket below t is held, and whoever has the turn has t. The hand-over adds `Cores`
  to a slot; that this serves t + 1 and no other ticket takes a few lemmas on `%`.
  `OneTurnHolds` follows. `TypeOKHolds` counts: the tickets issued are the pops so far less
  those that have not drawn. `OneDrawsAtATime` is the issuer's invariant, for pops of any sizes:
  the first n pops have published their index, pop n + 1 is the only one that may draw, and
  it draws ticket n. `place` says where in the stream each pop ends; every index in the array is
  that of the last of the n that wrote to its slot. A step loses the invariant exactly if it
  is `TakesOldIndex`. `TicketsFollowClaimsHolds` follows, until then, and, with the server's
  invariant, `OutputFollowsInputHolds`. `OrderIsKept` says when the step cannot happen and both
  hold always: with `Cores = 1`, for pops of any sizes, because the one slot is written by every
  pop; and with pops of one element under `RoomForSlots`. The heart of the second is
  `PreviousIsLast`: a pop that finds its old index in its slot finds what the pop before it wrote,
  since an equal index from an earlier round has been overwritten (`SlotAgain`: a slot is
  written again after at most `gap` pops; `FewWait`: there are no more waiting pops than
  threads).
* `KernelScheduling_proofs`: for any programs and any number of native threads,
  `TokensHold`: `SequentialKernelRunning` is a token. A native thread that has chosen a
  sequential kernel, runs its thread, or is switching away from it *holds* the kernel; the flag is
  set then, no other native thread holds it, and as long as a thread of the kernel is with the
  holder, its ready queue is empty. The code passes two tokens at once when it switches from one
  sequential kernel to another, which is why `Holds` looks at `OldKernel` as well.
  Every action of the scheduler is one lemma; `TokensKept` says what each must
  show. `SequentialAloneHolds` counts: ready, new and running threads are at most one.

  The other invariants build on each other. `TypesHold` adds to the types that whatever
  a native thread uses exists: its green thread when it dispatches, its operation when it
  runs a body, its queue when it drains. `ThreadsCountedHolds` counts, kernel by kernel, the green
  threads that are ready, chosen, running or being put away. `TerminatedIsOverHolds`
  (`EndInv`): who terminates a kernel has counted it down to zero, and no thread of it is left. A
  step loses that exactly if it is `LateSpawn` (`EndInvHolds`), and until then
  `TerminatedIsOver` holds. `LastThreadTerminatesHolds`, without `Speculation` and
  `RandomJumps`: a thread that leaves an ended kernel knows that it ended. `ActiveCounted` (`ActiveInv`): the
  count of active inputs is the number of those whose producer is not Terminated, or is and has
  not deactivated this one yet, so a kernel ends after all of its producers, until a `LateSpawn`
  makes one end twice.
  `InputsDeactivatedHolds` is the assertion of `lib/Core/Kernel.cpp:141-152`, from
  the order in which a queue is marked and then counted. `TerminatesAfterProducersHolds` and
  `NothingLostHolds` (`DrainInv`) follow what a failed pop knows: a thread asks for fewer
  elements only when its queue is deactivated (`ThreadsKnow`), and on the way to drain the queue is
  empty unless a single element was asked for (`Drains`), and stays so (`StaysEmpty`).
  Besides `LateSpawn` their faults are those of a pop of one element: `StaleDrain`, because drain
  stores a ReservedHead that another popper may have moved, and, for `NothingLost`,
  `EarlyDrain`, because such a pop is not tried again after the deactivation and discards what
  came before it (`sched_drain`). Pops of more elements, however many, discard nothing.

  `EndsCompleteHolds` (`CompleteInv`) says that no kernel is left behind when the native threads
  leave. None leaves while it has a green thread, for it looks for the next one first. So
  call a native thread *sure* while it has one or is about to begin a full search
  (`Sure`): as long as one is sure, nothing can be forgotten. When nobody is, each
  kernel that is not Terminated is still before somebody who searches (`SomebodyTries`), who
  will find a ready thread of it or make one, unless the kernel is sequential and taken. Then
  the token is with another native thread, which is sure, or the kernel is over (`FlagHeld`);
  and whoever ends the thread of a sequential kernel for good knows that (`EndsKnow`). The
  hypotheses are `~Speculation` and `~RandomJumps`, both switches of the build: a thread that
  leaves without having seen the end may leave a kernel with nobody to terminate it
  (`sched_leave`), and that there is a native thread.

Every invariant and every refinement that a passing run checks has its theorem. Left to TLC
is liveness, which the prover cannot treat: `CommitsEventually`, `CallsReturn` of both queues,
`TicketsServed`, `PopReturns` and `ProgramEnds`.

## 5. Not modelled

* drain and tickets of the resizable queue (its calls are those of the other queues);
  the buffer managers that never resize.
* FCFS and blocking tickets. The FCFS classes do nothing; the blocking issuer is an
  increment under the reserve lock, and the blocking server is the one of
  `OrderingTickets` with plain accesses.
* CLH locks, and the ready queues `MSQueue`, `LSQueue` and `CuBoQueue`: benchmarks and
  tests use them, the default build does not.
* Set-up code (program, queue and connectivity construction, runtime, devices):
  sequential. A program of `KernelScheduling` is what it leaves behind.
  `ConnectivityMatrix::getNext` and walks over several devices are part of it.
* The commit loops and element access of the intrinsics, and what a body does with a
  reservation that was refused; the options for eager destruction and
  visited kernels in the scheduler.
* drain with several poppers is in `KernelScheduling`, but no program of the passing runs
  reaches it with anything in the queue. It stores a ReservedHead that was read before, so
  that a popper in between would make consumed elements reappear; `sched_drain` has
  one popper.
* Probabilities of the hints and all performance counters: a property of the models
  holds for every outcome.
* Integer overflow of tickets (after 2^31 pops).
* Benchmarks, MapReduce, logging, visualizing and vendored code.

`doc/configuration.txt` calls the switch of the queue
`DANBI_DISABLE_BLOCKING_RESERVE_COMMIT_QUEUE`; the code tests
`DANBI_USE_BLOCKING_RESERVE_COMMIT_QUEUE`, so the lock-free queue is the default, as
assumed here.

## 6. Plan

1. *Done*: the modules above, their runs, the proofs of section 4.
2. Alternative ready queues (`MSQueue` with its tagged pointers, `LSQueue`,
   `CuBoQueue`) as further implementations of `FifoQueueSpec`; CLH locks as
   another implementation of the pop lock.
3. `ConnectivityMatrix::getNext` and `QueueFactory`'s choice of queue as pure operators
   against reference definitions; the commit of a refused reservation.

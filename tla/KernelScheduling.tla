-------------------------- MODULE KernelScheduling --------------------------
(***************************************************************************)
(* How kernels are scheduled on native threads and how a program ends.     *)
(*                                                                         *)
(* A native thread runs GreenScheduler::main.  It picks a kernel           *)
(* (DistributedDynamicScheduler), takes a green thread from the kernel's   *)
(* ready queue or spawns one (CPUSchedulePolicyAdapter) and runs it.  A    *)
(* green thread repeats the body of its kernel (CPUUberKernel::main); when *)
(* a queue is empty or full (IntrinsicsCPU.cpp) it yields to another one.  *)
(* A program ends from its start kernels on: when the last green thread of *)
(* a kernel is gone the kernel is Terminated and its output queues are     *)
(* deactivated; a kernel whose inputs are deactivated and empty may        *)
(* terminate (Kernel.h).                                                   *)
(*                                                                         *)
(* One action per access to shared state.  Green threads have no identity: *)
(* one is the state it resumes from.  A data queue is its two reservation  *)
(* indices, reserve and commit are one step (ConcurrentRCQ has the steps); *)
(* a ticket is drawn and served in one step (OrderingTickets has them); a  *)
(* ready queue is a sequence (SuperScalableQueue has the steps).           *)
(***************************************************************************)
EXTENDS RingIndex, Sequences, FiniteSets

CONSTANTS Programs,        \* the programs that may be run, see ProgramAssumption
          Workers,
          NumElm,          \* slots of every data queue
          Speculation,     \* FALSE: DANBI_DISABLE_SPECULATIVE_SCHEDULING
          RandomJumps,     \* FALSE: DANBI_DISABLE_RANDOM_SCHEDULING
          PromptSpawn,     \* scheduling assumption, see mayMove
          NULL

(* A program: per kernel the operations of its body, in order, the start   *)
(* kernels, the parallel ones, and producer and consumer of every queue.   *)
(* A pop asks for num elements at first (NumRepeat; PeekNum and PopNum are *)
(* 1) and may draw a ticket ("draw"); a later operation may wait for the   *)
(* turn of that ticket ("turn"), a push to reserve its num slots or a pop. *)
operation(o, q, n, t) == [op |-> o, queue |-> q, num |-> n, ticket |-> t]
connect(p, c, feedback) == [first |-> p, second |-> c, isFeedbackQueue |-> feedback]

uses(P, k, o, q) ==
  \E i \in DOMAIN P.Body[k] : P.Body[k][i].op = o /\ P.Body[k][i].queue = q

ASSUME SizeAssumption ==
  /\ NumElm \in Nat /\ NumElm >= 2
  /\ {Speculation, RandomJumps, PromptSpawn} \subseteq BOOLEAN
  /\ IsFiniteSet(Workers)
ASSUME ProgramAssumption ==
  \A P \in Programs :
    /\ P.Start \cup P.ParallelExec \subseteq DOMAIN P.Body
    /\ \A k \in DOMAIN P.Body :
         /\ Len(P.Body[k]) \in Nat /\ DOMAIN P.Body[k] = 1 .. Len(P.Body[k])
         /\ \A i \in DOMAIN P.Body[k] :
              /\ P.Body[k][i].num \in 1 .. (NumElm - 1)
              /\ P.Body[k][i].queue \in DOMAIN P.QueueInfoTable
    /\ DOMAIN P.QueueInfoTable \subseteq Nat /\ IsFiniteSet(DOMAIN P.QueueInfoTable)
    /\ \A q \in DOMAIN P.QueueInfoTable :
         /\ {P.QueueInfoTable[q].first, P.QueueInfoTable[q].second} \subseteq DOMAIN P.Body
         /\ \A k \in DOMAIN P.Body :
              /\ uses(P, k, "push", q) => k = P.QueueInfoTable[q].first
              /\ uses(P, k, "pop", q) => k = P.QueueInfoTable[q].second

VARIABLES
  program,
  ReservedHead, ReservedTail,                        \* the data queues
  IssuedTicket, ServingTicket,                       \* their tickets
  isDeactivated,
  Ended,                                             \* Kernel::Terminated
  ActiveNonFeedbackInputQueues,
  Terminated, Terminating,                           \* KernelStatus
  NumSpawnedThreads, SequentialKernelRunning,
  ReadyQueues,
  RunningKernel, OldKernel, Event, QueueIndex,       \* SystemContext
  thread,          \* the running green thread
  NewThread,       \* selected to run next, or the ReplacingThread
  plan,            \* groups of kernels that schedule still tries, in order
  NextKernel,      \* where the walk along NextOnTheSameDevice is
  candidate,       \* sequential kernel seen idle by trySchedule
  r_head,          \* local of drain
  left,            \* output queues still to be deactivated
  at,
  lost             \* history: drain has discarded data

tickets == <<IssuedTicket, ServingTicket>>
queues == <<ReservedHead, ReservedTail, tickets, lost>>
kernels == <<isDeactivated, Ended, ActiveNonFeedbackInputQueues>>
status == <<Terminated, Terminating, NumSpawnedThreads, SequentialKernelRunning>>
context == <<RunningKernel, OldKernel, Event, QueueIndex>>
search == <<plan, NextKernel, candidate>>
choice == <<NewThread, search>>
locals == <<r_head, left>>
vars == <<program, queues, kernels, status, ReadyQueues, context, thread, choice, locals, at>>

Body == program.Body
ParallelExec == program.ParallelExec
StartKernels == program.Start
Kernels == DOMAIN Body
Queues == DOMAIN program.QueueInfoTable
Producer(q) == program.QueueInfoTable[q].first
Consumer(q) == program.QueueInfoTable[q].second
isFeedbackQueue(q) == program.QueueInfoTable[q].isFeedbackQueue
Inputs(k) == { q \in Queues : Consumer(q) = k /\ ~isFeedbackQueue(q) }
OutQueueTable(k) == { q \in Queues : Producer(q) = k }

(* The first and the last queue of a set, by index: none or one.           *)
firstQueue(S) == { q \in S : \A r \in S : q <= r }
lastQueue(S) == { q \in S : \A r \in S : r <= q }

(* One successor of a kernel: the consumer of its last output queue.       *)
NextOnTheSameDevice(k) ==
  IF lastQueue(OutQueueTable(k)) = {} THEN NULL
  ELSE Consumer(CHOOSE q \in lastQueue(OutQueueTable(k)) : TRUE)

(* A green thread: its next operation, the repeat count of its pop once it *)
(* is reduced, its ticket, and ReadyQueueMayNotEmpty of its                *)
(* SchedulingHint, set when it is switched out and cleared when a body     *)
(* starts.                                                                 *)
NewGreenThread == [next |-> 1, repeat |-> 0, ticket |-> 0, mayReplace |-> FALSE]

Events == {"NumSchedulingEvent", "InputQueueIsEmpty", "OutputQueueIsFull",
           "KernelTerminated", "RandomJump", "NotMyTurn"}

(* Selection: "main", "search", "cas", "take", "check", "spawn", "none",   *)
(* "retry", "switch", "release"; the body: "resume", "run", "failed", "recount",    *)
(* "drain", "drained", "ask", "acknowledge", "yield"; its end: "end",      *)
(* "decide", "deregister", "terminate", "flag", "count", "leave".          *)
Places == {"main", "search", "cas", "take", "check", "spawn", "none", "retry",
           "switch", "release", "resume", "run", "failed", "recount", "drain", "drained",
           "ask", "acknowledge", "yield", "end", "decide", "deregister",
           "terminate", "flag", "count", "leave", "exited"}

Init ==
  /\ program \in Programs
  /\ ReservedHead = [q \in Queues |-> 0]
  /\ ReservedTail = [q \in Queues |-> 0]
  /\ IssuedTicket = [q \in Queues |-> 0]
  /\ ServingTicket = [o \in {"pop", "push"} |-> [q \in Queues |-> 0]]
  /\ isDeactivated = [q \in Queues |-> FALSE]
  /\ Ended = [k \in Kernels |-> FALSE]
  /\ ActiveNonFeedbackInputQueues = [k \in Kernels |-> Cardinality(Inputs(k))]
  /\ Terminated = [k \in Kernels |-> FALSE]
  /\ Terminating = [k \in Kernels |-> FALSE]
  /\ NumSpawnedThreads = [k \in Kernels |-> 0]
  /\ SequentialKernelRunning = [k \in Kernels |-> FALSE]
  /\ ReadyQueues = [k \in Kernels |-> <<>>]
  /\ RunningKernel = [w \in Workers |-> NULL]
  /\ OldKernel = [w \in Workers |-> NULL]
  /\ Event = [w \in Workers |-> "NumSchedulingEvent"]
  /\ QueueIndex = [w \in Workers |-> NULL]
  /\ thread = [w \in Workers |-> NULL]
  /\ NewThread = [w \in Workers |-> NULL]
  /\ plan = [w \in Workers |-> <<>>]
  /\ NextKernel = [w \in Workers |-> NULL]
  /\ candidate = [w \in Workers |-> NULL]
  /\ r_head = [w \in Workers |-> 0]
  /\ left = [w \in Workers |-> {}]
  /\ at = [w \in Workers |-> "main"]
  /\ lost = FALSE

(* With PromptSpawn nobody moves while a native thread is between          *)
(* isKernelTerminating and the count of its new thread.                    *)
mayMove(w) == PromptSpawn => \A v \in Workers \ {w} : at[v] # "spawn"

goto(w, from, to) == at[w] = from /\ mayMove(w) /\ at' = [at EXCEPT ![w] = to]

(* The switch-off of SequentialKernelRunning, for kernels that have it.    *)
releaseKernel(k) ==
  SequentialKernelRunning' =
    [SequentialKernelRunning EXCEPT ![k] = @ /\ k \in ParallelExec]

-----------------------------------------------------------------------------
(* Selection of a kernel and a green thread                                *)

(* selectNext and selectKernel up to the search.  start() tries the start  *)
(* kernels first, schedule() the other end of the queue that was full or   *)
(* empty, or the same kernel when a thread waits for its turn.  Unless     *)
(* skipped at random, the walk along NextOnTheSameDevice comes next        *)
(* (scheduleByQueueConnection).  Last every kernel is tried twice, in an   *)
(* order that starts at random (scheduleByExhausitiveSearch).              *)
exhaustiveSearch == <<Kernels, Kernels>>

starts(w) == Event[w] = "NumSchedulingEvent" /\ thread[w] = NULL

firstTry(w) ==
  IF at[w] = "retry" THEN <<>>
  ELSE CASE starts(w) -> <<StartKernels>>
         [] Event[w] = "InputQueueIsEmpty" -> <<{Producer(QueueIndex[w])}>>
         [] Event[w] = "OutputQueueIsFull" -> <<{Consumer(QueueIndex[w])}>>
         [] Event[w] = "NotMyTurn" -> <<{RunningKernel[w]}>>
         [] OTHER -> <<>>

walkStarts(w) ==
  IF at[w] = "retry" \/ starts(w) \/ Event[w] = "RandomJump" THEN {NULL}
  ELSE {NULL, RunningKernel[w]}

(* keepGoingWithThisThread: no other thread could bring its turn nearer.   *)
keepGoing(w) == Event[w] = "NotMyTurn" /\ ReadyQueues[RunningKernel[w]] = <<>>

(* selectNext returns NULL: main returns, yield goes on with its thread.   *)
selectNothing(w, from) ==
  goto(w, from, IF thread[w] = NULL THEN "exited" ELSE "resume")

selectNext(w) ==
  /\ at[w] \in {"main", "yield", "retry"}
  /\ OldKernel' = [OldKernel EXCEPT ![w] = RunningKernel[w]]
  /\ \/ /\ NewThread[w] # NULL                        \* the ReplacingThread
        /\ goto(w, at[w], "switch")
        /\ UNCHANGED search
     \/ /\ NewThread[w] = NULL /\ keepGoing(w)
        /\ selectNothing(w, at[w])
        /\ UNCHANGED search
     \/ /\ NewThread[w] = NULL /\ ~keepGoing(w)
        /\ goto(w, at[w], "search")
        /\ \E s \in walkStarts(w) :
             /\ NextKernel' = [NextKernel EXCEPT ![w] = s]
             /\ plan' = [plan EXCEPT ![w] =
                  firstTry(w) \o IF s = NULL THEN exhaustiveSearch ELSE <<>>]
        /\ UNCHANGED candidate
  /\ UNCHANGED <<queues, kernels, status, ReadyQueues, RunningKernel, Event,
                 QueueIndex, thread, NewThread, locals>>

(* The walk ends where it started or where there is no next kernel.        *)
walkOn(w) ==
  LET next == NextOnTheSameDevice(NextKernel[w]) IN
  /\ plan[w] = <<>> /\ NextKernel[w] # NULL
  /\ goto(w, "search", "search")
  /\ IF next \in {NULL, RunningKernel[w]}
     THEN /\ NextKernel' = [NextKernel EXCEPT ![w] = NULL]
          /\ plan' = [plan EXCEPT ![w] = exhaustiveSearch]
     ELSE /\ NextKernel' = [NextKernel EXCEPT ![w] = next]
          /\ plan' = [plan EXCEPT ![w] = <<{next}>>]
  /\ UNCHANGED <<queues, kernels, status, ReadyQueues, context, thread, NewThread,
                 candidate, locals>>

(* schedule is done: the rest of the plan is dropped.                      *)
chosen(w, k) ==
  /\ RunningKernel' = [RunningKernel EXCEPT ![w] = k]
  /\ plan' = [plan EXCEPT ![w] = <<>>]
  /\ NextKernel' = [NextKernel EXCEPT ![w] = NULL]

(* trySchedule: a Terminated kernel is not scheduled, a sequential one     *)
(* only by whoever turns SequentialKernelRunning on.                       *)
rest(w, k) == IF plan[w][1] = {k} THEN Tail(plan[w])
              ELSE [plan[w] EXCEPT ![1] = @ \ {k}]

passKernel(w, k) ==
  /\ Terminated[k] \/ (k \notin ParallelExec /\ SequentialKernelRunning[k])
  /\ goto(w, "search", "search")
  /\ plan' = [plan EXCEPT ![w] = rest(w, k)]
  /\ UNCHANGED <<RunningKernel, NextKernel, candidate>>

pickParallel(w, k) ==
  /\ ~Terminated[k] /\ k \in ParallelExec
  /\ goto(w, "search", "take")
  /\ chosen(w, k)
  /\ UNCHANGED candidate

pickSequential(w, k) ==
  /\ ~Terminated[k] /\ k \notin ParallelExec /\ ~SequentialKernelRunning[k]
  /\ goto(w, "search", "cas")
  /\ candidate' = [candidate EXCEPT ![w] = k]
  /\ plan' = [plan EXCEPT ![w] = rest(w, k)]
  /\ UNCHANGED <<RunningKernel, NextKernel>>

trySchedule(w, k) ==
  /\ plan[w] # <<>> /\ k \in plan[w][1]
  /\ passKernel(w, k) \/ pickParallel(w, k) \/ pickSequential(w, k)
  /\ UNCHANGED <<queues, kernels, status, ReadyQueues, OldKernel, Event,
                 QueueIndex, thread, NewThread, locals>>

(* Slip: the flag is set, not compared and swapped.                        *)
storeSequentialKernelRunning(w) ==
  /\ goto(w, "cas", "take")
  /\ chosen(w, candidate[w])
  /\ SequentialKernelRunning' = [SequentialKernelRunning EXCEPT ![candidate[w]] = TRUE]
  /\ candidate' = [candidate EXCEPT ![w] = NULL]
  /\ UNCHANGED <<queues, kernels, Terminated, Terminating, NumSpawnedThreads,
                 ReadyQueues, OldKernel, Event, QueueIndex, thread, NewThread, locals>>

(* casInt(&SequentialKernelRunning, 0, 1)                                  *)
casSequentialKernelRunning(w) ==
  /\ at[w] = "cas"
  /\ IF SequentialKernelRunning[candidate[w]]
     THEN /\ goto(w, "cas", "search")
          /\ UNCHANGED <<RunningKernel, plan, NextKernel>>
     ELSE /\ goto(w, "cas", "take")
          /\ chosen(w, candidate[w])
  /\ SequentialKernelRunning' = [SequentialKernelRunning EXCEPT ![candidate[w]] = TRUE]
  /\ candidate' = [candidate EXCEPT ![w] = NULL]
  /\ UNCHANGED <<queues, kernels, Terminated, Terminating, NumSpawnedThreads,
                 ReadyQueues, OldKernel, Event, QueueIndex, thread, NewThread, locals>>

noKernel(w) ==
  /\ plan[w] = <<>> /\ NextKernel[w] = NULL
  /\ selectNothing(w, "search")
  /\ UNCHANGED <<queues, kernels, status, ReadyQueues, context, thread, choice, locals>>

(* ReadyQueues[RunningKernelIndex].pop; no new thread for NotMyTurn.       *)
takeReady(w) ==
  LET ready == ReadyQueues[RunningKernel[w]] IN
  /\ at[w] = "take"
  /\ IF ready = <<>>
     THEN /\ goto(w, "take", IF Event[w] = "NotMyTurn" THEN "none" ELSE "check")
          /\ UNCHANGED <<ReadyQueues, NewThread>>
     ELSE /\ goto(w, "take", "switch")
          /\ NewThread' = [NewThread EXCEPT ![w] = Head(ready)]
          /\ ReadyQueues' = [ReadyQueues EXCEPT ![RunningKernel[w]] = Tail(ready)]
  /\ UNCHANGED <<queues, kernels, status, context, thread, search, locals>>

(* Slip: a thread is spawned for a Terminating kernel, too.                *)
spawnAlways(w) ==
  /\ goto(w, "check", "spawn")
  /\ UNCHANGED <<queues, kernels, status, ReadyQueues, context, thread, choice, locals>>

(* isKernelTerminating: may a thread be spawned?                           *)
checkTerminating(w) ==
  /\ goto(w, "check", IF Terminating[RunningKernel[w]] THEN "none" ELSE "spawn")
  /\ UNCHANGED <<queues, kernels, status, ReadyQueues, context, thread, choice, locals>>

(* Slip: the thread is not registered.                                     *)
spawnUncounted(w) ==
  /\ goto(w, "spawn", "switch")
  /\ NewThread' = [NewThread EXCEPT ![w] = NewGreenThread]
  /\ UNCHANGED <<queues, kernels, status, ReadyQueues, context, thread, search,
                 locals>>

(* newGreenThread                                                          *)
spawn(w) ==
  /\ goto(w, "spawn", "switch")
  /\ NumSpawnedThreads' = [NumSpawnedThreads EXCEPT ![RunningKernel[w]] = @ + 1]
  /\ NewThread' = [NewThread EXCEPT ![w] = NewGreenThread]
  /\ UNCHANGED <<queues, kernels, Terminated, Terminating, SequentialKernelRunning,
                 ReadyQueues, context, thread, search, locals>>

(* No thread for the kernel: retry with a random jump, unless the kernel   *)
(* is the old one.                                                         *)
noThread(w) ==
  /\ \/ /\ RunningKernel[w] = OldKernel[w] /\ Event[w] # "NotMyTurn"
        /\ selectNothing(w, "none")
        /\ UNCHANGED <<SequentialKernelRunning, RunningKernel>>
     \/ /\ RunningKernel[w] # OldKernel[w] \/ Event[w] = "NotMyTurn"
        /\ goto(w, "none", "retry")
        /\ releaseKernel(RunningKernel[w])
        /\ RunningKernel' = [RunningKernel EXCEPT ![w] = OldKernel[w]]
  /\ UNCHANGED <<queues, kernels, Terminated, Terminating, NumSpawnedThreads,
                 ReadyQueues, OldKernel, Event, QueueIndex, thread, choice, locals>>

enterThread(w, from) ==
  /\ goto(w, from, IF NewThread[w].mayReplace THEN "resume" ELSE "run")
  /\ thread' = [thread EXCEPT ![w] = NewThread[w]]
  /\ NewThread' = [NewThread EXCEPT ![w] = NULL]

(* The context switch; scheduleOutThread then pushes the old thread to the *)
(* ready queue of its kernel.                                              *)
switchThread(w) ==
  /\ \/ /\ thread[w] = NULL
        /\ enterThread(w, "switch")
        /\ UNCHANGED ReadyQueues
     \/ /\ thread[w] # NULL
        /\ goto(w, "switch", "release")
        /\ ReadyQueues' = [ReadyQueues EXCEPT ![OldKernel[w]] =
                             Append(@, [thread[w] EXCEPT !.mayReplace = TRUE])]
        /\ UNCHANGED <<thread, NewThread>>
  /\ UNCHANGED <<queues, kernels, status, context, search, locals>>

(* acknowledgeThreadScheduleOut                                            *)
scheduleOut(w) ==
  /\ enterThread(w, "release")
  /\ releaseKernel(OldKernel[w])
  /\ UNCHANGED <<queues, kernels, Terminated, Terminating, NumSpawnedThreads,
                 ReadyQueues, context, search, locals>>

select(w) ==
  \/ selectNext(w)
  \/ \E k \in Kernels : trySchedule(w, k)
  \/ casSequentialKernelRunning(w)
  \/ walkOn(w) \/ noKernel(w) \/ takeReady(w) \/ checkTerminating(w)
  \/ spawn(w) \/ noThread(w) \/ switchThread(w) \/ scheduleOut(w)
-----------------------------------------------------------------------------
(* The body of a kernel                                                    *)

operationOf(w) == Body[RunningKernel[w]][thread[w].next]
queueOf(w) == operationOf(w).queue

(* The next operation, with its own repeat count.                          *)
advanceThread(w, ticket) ==
  thread' = [thread EXCEPT ![w].next = @ + 1, ![w].repeat = 0, ![w].ticket = ticket]

NumRepeat(w) == IF thread[w].repeat = 0 THEN operationOf(w).num ELSE thread[w].repeat

(* A queue has a ticket server for its pops and one for its pushes.        *)
isMyTurn(w) ==
  operationOf(w).ticket = "turn" =>
    ServingTicket[operationOf(w).op][queueOf(w)] = thread[w].ticket

serveTurn(w) ==
  ServingTicket' = [ServingTicket EXCEPT ![operationOf(w).op][queueOf(w)] =
                      IF operationOf(w).ticket = "turn" THEN @ + 1 ELSE @]

numElement(q) == getNumFilledElements(NumElm, ReservedHead[q], ReservedTail[q])

(* Slip: a push into a full queue is tried again, whoever its consumer is. *)
resumeAlways(w) ==
  /\ goto(w, "resume", "run")
  /\ UNCHANGED <<queues, kernels, status, ReadyQueues, context, thread, choice, locals>>

(* After a yield: reservePush gives up if the consumer is Terminated.      *)
resume(w) ==
  /\ goto(w, "resume", "run")
  /\ IF operationOf(w).op = "push" /\ Terminated[Consumer(queueOf(w))]
     THEN advanceThread(w, thread[w].ticket) ELSE UNCHANGED thread
  /\ UNCHANGED <<queues, kernels, status, ReadyQueues, context, choice, locals>>

push(w) ==
  LET q == queueOf(w)
      n == operationOf(w).num
      room == haveEnoughRoom(NumElm, ReservedTail[q], ReservedHead[q], n)
  IN
  /\ operationOf(w).op = "push"
  /\ \/ /\ room /\ isMyTurn(w)
        /\ goto(w, "run", "run")
        /\ ReservedTail' = [ReservedTail EXCEPT ![q] = advance(NumElm, @, n)]
        /\ serveTurn(w)
        /\ advanceThread(w, thread[w].ticket)
        /\ UNCHANGED <<Event, QueueIndex>>
     \/ /\ ~room \/ ~isMyTurn(w)
        /\ goto(w, "run", "yield")
        /\ Event' = [Event EXCEPT ![w] = IF room THEN "NotMyTurn" ELSE "OutputQueueIsFull"]
        /\ QueueIndex' = [QueueIndex EXCEPT ![w] = q]
        /\ UNCHANGED <<ReservedTail, ServingTicket, thread>>
  /\ UNCHANGED <<ReservedHead, IssuedTicket, lost, kernels, status, ReadyQueues,
                 RunningKernel, OldKernel, choice, locals>>

pop(w) ==
  LET q == queueOf(w)
      n == NumRepeat(w)
      data == haveEnoughData(NumElm, ReservedHead[q], ReservedTail[q], n)
  IN
  /\ operationOf(w).op = "pop"
  /\ \/ /\ data /\ isMyTurn(w)
        /\ goto(w, "run", "run")
        /\ ReservedHead' = [ReservedHead EXCEPT ![q] = advance(NumElm, @, n)]
        /\ serveTurn(w)
        /\ IF operationOf(w).ticket = "draw"
           THEN /\ advanceThread(w, IssuedTicket[q])
                /\ IssuedTicket' = [IssuedTicket EXCEPT ![q] = @ + 1]
           ELSE advanceThread(w, thread[w].ticket) /\ UNCHANGED IssuedTicket
        /\ UNCHANGED <<Event, QueueIndex>>
     \/ /\ data /\ ~isMyTurn(w)
        /\ goto(w, "run", "yield")
        /\ Event' = [Event EXCEPT ![w] = "NotMyTurn"]
        /\ QueueIndex' = [QueueIndex EXCEPT ![w] = q]
        /\ UNCHANGED <<ReservedHead, tickets, thread>>
     \/ /\ ~data
        /\ goto(w, "run", "failed")
        /\ UNCHANGED <<ReservedHead, tickets, thread, Event, QueueIndex>>
  /\ UNCHANGED <<ReservedTail, lost, kernels, status, ReadyQueues, RunningKernel,
                 OldKernel, choice, locals>>

(* Slip: a deactivated queue is drained when a pop does not find enough.   *)
drainAtOnce(w) ==
  /\ goto(w, "failed", IF isDeactivated[queueOf(w)] THEN "drain" ELSE "ask")
  /\ UNCHANGED <<queues, kernels, status, ReadyQueues, context, thread, choice, locals>>

(* isInputQueueDeactivated                                                 *)
checkDeactivated(w) ==
  /\ goto(w, "failed", IF ~isDeactivated[queueOf(w)] THEN "ask"
                       ELSE IF NumRepeat(w) > 1 THEN "recount" ELSE "drain")
  /\ UNCHANGED <<queues, kernels, status, ReadyQueues, context, thread, choice, locals>>

(* NewRepeat: what is left of a deactivated queue is popped by and by.     *)
reduceRepeat(w) ==
  LET NewRepeat == numElement(queueOf(w)) IN
  /\ at[w] = "recount"
  /\ IF NewRepeat > 0
     THEN /\ goto(w, "recount", "run")
          /\ thread' = [thread EXCEPT ![w].repeat =
                          IF NewRepeat < NumRepeat(w) THEN NewRepeat ELSE NumRepeat(w)]
     ELSE goto(w, "recount", "drain") /\ UNCHANGED thread
  /\ UNCHANGED <<queues, kernels, status, ReadyQueues, context, choice, locals>>

(* drain reads ReservedHead, and then sets ReservedTail and Tail to it.    *)
readReservedHead(w) ==
  /\ goto(w, "drain", "drained")
  /\ r_head' = [r_head EXCEPT ![w] = ReservedHead[queueOf(w)]]
  /\ UNCHANGED <<queues, kernels, status, ReadyQueues, context, thread, choice, left>>

drain(w) ==
  /\ goto(w, "drained", "ask")
  /\ ReservedTail' = [ReservedTail EXCEPT ![queueOf(w)] = r_head[w]]
  /\ lost' = (lost \/ ReservedTail[queueOf(w)] # r_head[w])
  /\ r_head' = [r_head EXCEPT ![w] = 0]
  /\ UNCHANGED <<ReservedHead, tickets, kernels, status, ReadyQueues, context, thread,
                 choice, left>>

allInputsEmpty(k) == \A q \in Inputs(k) : ReservedTail[q] = ReservedHead[q]

(* Slip: inputs are not asked for being active.                            *)
canTerminateWhenEmpty(k, EndOfKernel) ==
  /\ k \in StartKernels => EndOfKernel
  /\ \/ Ended[k]
     \/ EndOfKernel = (k \in StartKernels) /\ allInputsEmpty(k)

(* Kernel::canTerminate.  Inputs that are no longer active only shrink, so *)
(* its reads are one step.                                                 *)
canTerminate(k, EndOfKernel) ==
  /\ k \in StartKernels => EndOfKernel
  /\ ActiveNonFeedbackInputQueues[k] <= 0
  /\ \/ Ended[k]
     \/ EndOfKernel = (k \in StartKernels) /\ allInputsEmpty(k)

(* checkTerminationCondition, unless the queue is a feedback queue;        *)
(* otherwise the thread yields.                                            *)
checkTermination(w) ==
  LET k == RunningKernel[w] IN
  /\ at[w] = "ask"
  /\ IF ~isFeedbackQueue(queueOf(w)) /\ canTerminate(k, FALSE)
     THEN /\ goto(w, "ask", "acknowledge")
          /\ Ended' = [Ended EXCEPT ![k] = TRUE]
          /\ UNCHANGED QueueIndex
     ELSE /\ goto(w, "ask", "yield")
          /\ QueueIndex' = [QueueIndex EXCEPT ![w] = queueOf(w)]
          /\ UNCHANGED Ended
  /\ Event' = [Event EXCEPT ![w] = "InputQueueIsEmpty"]
  /\ UNCHANGED <<queues, isDeactivated, ActiveNonFeedbackInputQueues, status,
                 ReadyQueues, RunningKernel, OldKernel, thread, choice, locals>>

(* acknowledgeKernelCanTerminate; -ECANCELED ends the body.                *)
acknowledgeCanTerminate(w) ==
  /\ goto(w, "acknowledge", "end")
  /\ Terminating' = [Terminating EXCEPT ![RunningKernel[w]] = TRUE]
  /\ UNCHANGED <<queues, kernels, Terminated, NumSpawnedThreads,
                 SequentialKernelRunning, ReadyQueues, context, thread, choice, locals>>

bodyEnds(w) ==
  /\ goto(w, "run", "end")
  /\ thread[w].next > Len(Body[RunningKernel[w]])
  /\ UNCHANGED <<queues, kernels, status, ReadyQueues, context, thread, choice, locals>>

runBody(w) ==
  \/ resume(w) \/ bodyEnds(w)
  \/ /\ at[w] = "run" /\ thread[w].next <= Len(Body[RunningKernel[w]])
     /\ push(w) \/ pop(w)
  \/ checkDeactivated(w) \/ reduceRepeat(w) \/ readReservedHead(w) \/ drain(w)
  \/ checkTermination(w) \/ acknowledgeCanTerminate(w)

-----------------------------------------------------------------------------
(* The end of a body                                                       *)

(* CPUSchedulePolicyAdapter::keepContinue: after a yield, a thread that is *)
(* ready replaces this one.  (selectNext also sets the hint of the last    *)
(* thread that ended on the native thread: left out.)                      *)
replaceThread(w) ==
  LET k == RunningKernel[w] IN
  /\ at[w] = "end"
  /\ IF thread[w].mayReplace /\ ReadyQueues[k] # <<>>
     THEN /\ goto(w, "end", "deregister")
          /\ NewThread' = [NewThread EXCEPT ![w] = Head(ReadyQueues[k])]
          /\ ReadyQueues' = [ReadyQueues EXCEPT ![k] = Tail(@)]
     ELSE goto(w, "end", "decide") /\ UNCHANGED <<NewThread, ReadyQueues>>
  /\ UNCHANGED <<queues, kernels, status, context, thread, search, locals>>

(* DistributedDynamicScheduler::keepContinue: the kernel ends ...          *)
endKernel(w) ==
  LET k == RunningKernel[w] IN
  /\ goto(w, "decide", "deregister")
  /\ canTerminate(k, TRUE)
  /\ Ended' = [Ended EXCEPT ![k] = TRUE]
  /\ Terminating' = [Terminating EXCEPT ![k] = TRUE]
  /\ Event' = [Event EXCEPT ![w] = "KernelTerminated"]
  /\ UNCHANGED <<queues, isDeactivated, ActiveNonFeedbackInputQueues, Terminated,
                 NumSpawnedThreads, SequentialKernelRunning, ReadyQueues, RunningKernel,
                 OldKernel, QueueIndex, thread, choice, locals>>

(* ... or the thread leaves a parallel kernel for one with more to do ...  *)
leaveKernel(w) ==
  LET k == RunningKernel[w] IN
  /\ goto(w, "decide", "deregister")
  /\ k \in ParallelExec /\ ~canTerminate(k, TRUE)
  /\ \/ /\ Speculation
        /\ \E i \in DOMAIN Body[k] :
             /\ QueueIndex' = [QueueIndex EXCEPT ![w] = Body[k][i].queue]
             /\ Event' = [Event EXCEPT ![w] = IF Body[k][i].op = "pop"
                            THEN "InputQueueIsEmpty" ELSE "OutputQueueIsFull"]
     \/ /\ RandomJumps
        /\ Event' = [Event EXCEPT ![w] = "RandomJump"]
        /\ QueueIndex' = [QueueIndex EXCEPT ![w] = NULL]   \* goes unread
  /\ UNCHANGED <<queues, kernels, status, ReadyQueues, RunningKernel, OldKernel, thread,
                 choice, locals>>

(* ... or runs the body again.                                             *)
repeatBody(w) ==
  /\ goto(w, "decide", "run")
  /\ ~canTerminate(RunningKernel[w], TRUE)
  /\ thread' = [thread EXCEPT ![w] = NewGreenThread]
  /\ UNCHANGED <<queues, kernels, status, ReadyQueues, context, choice, locals>>

kernelTermination(w) == Event[w] = "KernelTerminated"

(* Slip: a thread of an ended kernel counts only if it is the last.        *)
deregisterUncounted(w) ==
  LET k == RunningKernel[w] IN
  /\ goto(w, "deregister", IF kernelTermination(w) /\ NumSpawnedThreads[k] = 1
                           THEN "terminate" ELSE "leave")
  /\ NumSpawnedThreads' = [NumSpawnedThreads EXCEPT ![k] =
       IF kernelTermination(w) /\ @ > 1 THEN @ ELSE @ - 1]
  /\ UNCHANGED <<queues, kernels, Terminated, Terminating, SequentialKernelRunning,
                 ReadyQueues, context, thread, choice, locals>>

(* Slip: the count before the decrement is compared with 0.                *)
deregisterLate(w) ==
  LET k == RunningKernel[w] IN
  /\ goto(w, "deregister", IF kernelTermination(w) /\ NumSpawnedThreads[k] = 0
                           THEN "terminate" ELSE "leave")
  /\ NumSpawnedThreads' = [NumSpawnedThreads EXCEPT ![k] = @ - 1]
  /\ UNCHANGED <<queues, kernels, Terminated, Terminating, SequentialKernelRunning,
                 ReadyQueues, context, thread, choice, locals>>

(* acknowledgeThreadTermination: the last thread terminates the kernel.    *)
deregisterThread(w) ==
  LET k == RunningKernel[w] IN
  /\ goto(w, "deregister", IF kernelTermination(w) /\ NumSpawnedThreads[k] = 1
                           THEN "terminate" ELSE "leave")
  /\ NumSpawnedThreads' = [NumSpawnedThreads EXCEPT ![k] = @ - 1]
  /\ UNCHANGED <<queues, kernels, Terminated, Terminating, SequentialKernelRunning,
                 ReadyQueues, context, thread, choice, locals>>

(* acknowledgeKernelTermination                                            *)
terminateKernel(w) ==
  /\ goto(w, "terminate", "flag")
  /\ Terminated' = [Terminated EXCEPT ![RunningKernel[w]] = TRUE]
  /\ left' = [left EXCEPT ![w] = OutQueueTable(RunningKernel[w])]
  /\ UNCHANGED <<queues, kernels, Terminating, NumSpawnedThreads,
                 SequentialKernelRunning, ReadyQueues, context, thread, choice, r_head>>

(* deactivateOutputQueues: queue by queue, the mark and then the count.    *)
deactivateQueue(w) ==
  /\ goto(w, "flag", "count")
  /\ \E q \in firstQueue(left[w]) : isDeactivated' = [isDeactivated EXCEPT ![q] = TRUE]
  /\ UNCHANGED <<queues, Ended, ActiveNonFeedbackInputQueues, status, ReadyQueues,
                 context, thread, choice, locals>>

decrementActive(w) ==
  \E q \in firstQueue(left[w]) :
    /\ goto(w, "count", IF left[w] = {q} THEN "leave" ELSE "flag")
    /\ ActiveNonFeedbackInputQueues' =
         [ActiveNonFeedbackInputQueues EXCEPT ![Consumer(q)] =
            IF isFeedbackQueue(q) THEN @ ELSE @ - 1]
    /\ left' = [left EXCEPT ![w] = @ \ {q}]
    /\ UNCHANGED <<queues, isDeactivated, Ended, status, ReadyQueues, context, thread,
                   choice, r_head>>

(* The green thread is gone; main selects the next one.                    *)
leave(w) ==
  /\ \/ goto(w, "leave", "main")
     \/ left[w] = {} /\ goto(w, "flag", "main")
  /\ IF kernelTermination(w) THEN releaseKernel(RunningKernel[w])
                             ELSE UNCHANGED SequentialKernelRunning
  /\ thread' = [thread EXCEPT ![w] = NULL]
  /\ UNCHANGED <<queues, kernels, Terminated, Terminating, NumSpawnedThreads,
                 ReadyQueues, context, choice, locals>>

endBody(w) ==
  \/ replaceThread(w) \/ endKernel(w) \/ leaveKernel(w) \/ repeatBody(w)
  \/ deregisterThread(w) \/ terminateKernel(w) \/ deactivateQueue(w)
  \/ decrementActive(w) \/ leave(w)

-----------------------------------------------------------------------------
step(w) == (select(w) \/ runBody(w) \/ endBody(w)) /\ UNCHANGED program

(* The program is over when every native thread has left main.             *)
finished == (\A w \in Workers : at[w] = "exited") /\ UNCHANGED vars

Next == (\E w \in Workers : step(w)) \/ finished

Spec == Init /\ [][Next]_vars

(* Native threads run on.  The exhaustive search starts at random: a       *)
(* kernel that is there to be picked again and again is picked in the end. *)
KernelIndexes == UNION { DOMAIN P.Body : P \in Programs }

pick(w, k) == trySchedule(w, k) /\ at'[w] # "search" /\ UNCHANGED program

FairSpec ==
  /\ Spec
  /\ \A w \in Workers : WF_vars(step(w))
  /\ \A w \in Workers, k \in KernelIndexes : SF_vars(pick(w, k))

-----------------------------------------------------------------------------
(* Properties                                                              *)

GreenThreads ==
  [next : Nat \ {0}, repeat : 0 .. NumElm - 1, ticket : Nat, mayReplace : BOOLEAN]

ASSUME NullAssumption == NULL \notin GreenThreads

(* The variables have their types.                                         *)
TypeOK ==
  /\ program \in Programs
  /\ ReservedHead \in [Queues -> 0 .. NumElm - 1]
  /\ ReservedTail \in [Queues -> 0 .. NumElm - 1]
  /\ IssuedTicket \in [Queues -> Nat]
  /\ ServingTicket \in [{"pop", "push"} -> [Queues -> Nat]]
  /\ isDeactivated \in [Queues -> BOOLEAN]
  /\ {Ended, Terminated, Terminating, SequentialKernelRunning} \subseteq [Kernels -> BOOLEAN]
  /\ ActiveNonFeedbackInputQueues \in [Kernels -> Int]
  /\ NumSpawnedThreads \in [Kernels -> Nat]
  /\ \A k \in Kernels : \A i \in DOMAIN ReadyQueues[k] : ReadyQueues[k][i] \in GreenThreads
  /\ {RunningKernel, OldKernel, NextKernel, candidate} \subseteq [Workers -> Kernels \cup {NULL}]
  /\ Event \in [Workers -> Events] /\ QueueIndex \in [Workers -> Queues \cup {NULL}]
  /\ {thread, NewThread} \subseteq [Workers -> GreenThreads \cup {NULL}]
  /\ \A w \in Workers : \A i \in DOMAIN plan[w] : plan[w][i] \subseteq Kernels
  /\ r_head \in [Workers -> 0 .. NumElm - 1]
  /\ at \in [Workers -> Places] /\ lost \in BOOLEAN

(* The green threads of k: ready, about to run, or running.  While a       *)
(* native thread selects, its running thread is one of the old kernel's.   *)
selecting(w) == at[w] \in {"take", "check", "spawn", "none", "retry", "switch"}

runs(w, k) ==
  /\ thread[w] # NULL
  /\ at[w] \notin {"release", "terminate", "flag", "count", "leave"}
  /\ k = IF selecting(w) THEN OldKernel[w] ELSE RunningKernel[w]

threadsOf(k) ==
  Len(ReadyQueues[k])
  + Cardinality({ w \in Workers : runs(w, k) })
  + Cardinality({ w \in Workers : NewThread[w] # NULL /\ RunningKernel[w] = k })

(* NumSpawnedThreads counts the green threads, wherever they are.          *)
ThreadsCounted == \A k \in Kernels : NumSpawnedThreads[k] = threadsOf(k)

(* A sequential kernel never has two green threads.                        *)
SequentialAlone == \A k \in Kernels \ ParallelExec : threadsOf(k) <= 1

(* "Propagating termination from the starting kernels": a kernel decides   *)
(* to end only when its producers are Terminated and its inputs consumed.  *)
TerminatesAfterProducers ==
  \A q \in Queues : Ended[Consumer(q)] /\ ~isFeedbackQueue(q) =>
    /\ Terminated[Producer(q)]
    /\ ReservedTail[q] = ReservedHead[q]

(* A Terminated kernel is over: no thread of it is left or will come.      *)
TerminatedIsOver == \A k \in Kernels : Terminated[k] => NumSpawnedThreads[k] = 0

(* "When all spawned threads are terminated, we consider that a kernel is  *)
(* also terminated."                                                       *)
LastThreadTerminates ==
  \A k \in Kernels : Terminating[k] /\ NumSpawnedThreads[k] = 0 =>
    Terminated[k] \/ \E w \in Workers : at[w] = "terminate" /\ RunningKernel[w] = k

(* drain is for what is too little for a pop: nothing is discarded while   *)
(* one element is enough.                                                  *)
NothingLost == ~lost

(* "Keep launching green threads until there is no."  Does not hold: main  *)
(* returns when there is nothing to select at this moment.                 *)
LeavesNoneReady ==
  [][\A w \in Workers : at[w] # "exited" /\ at'[w] = "exited" =>
       \A k \in Kernels : ReadyQueues[k] = <<>>]_vars

(* "If there is no kerel on the same compute device, give up": the walk    *)
(* along NextOnTheSameDevice comes to an end.  Does not hold: it ends only *)
(* where it started, which need not be on the cycle it runs into.          *)
WalksEnd == \A w \in Workers : NextKernel[w] # NULL ~> NextKernel[w] = NULL

(* The program ends, and with every kernel Terminated.                     *)
ProgramEnds == <>(\A w \in Workers : at[w] = "exited")
EndsComplete ==
  (\A w \in Workers : at[w] = "exited") => \A k \in Kernels : Terminated[k]
=============================================================================

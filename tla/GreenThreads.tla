---------------------------- MODULE GreenThreads ----------------------------
(***************************************************************************)
(* Green threads on native threads: GreenScheduler, GreenThread and the    *)
(* context switch.  A native thread runs main on its own stack, starts a   *)
(* green thread and so runs on that thread's stack; yield switches from    *)
(* one green thread to another; the end of a green thread leads back to    *)
(* the native stack and to main.  The threads come from the policy:        *)
(*   - FIFOSchedulePolicy, one ready queue filled beforehand;              *)
(*   - CPUSchedulePolicyAdapter, seen from one kernel: a thread that is    *)
(*     ready or else a new one, made of a thread of the recycle bin.       *)
(* One action per access to shared state.  The two queues are sequences    *)
(* (SuperScalableQueue has their steps).                                   *)
(***************************************************************************)
EXTENDS Naturals, Sequences, FiniteSets, SequencesExt

CONSTANTS Workers, Threads,
          Policies,        \* "Fifo" (FIFOSchedulePolicy), "Adapter" or both
          PromptEnd,       \* scheduling assumption, see mayMove
          NULL

ASSUME PolicyAssumption ==
  /\ Policies \subseteq {"Fifo", "Adapter"}
  /\ PromptEnd \in BOOLEAN /\ NULL \notin Threads /\ IsFiniteSet(Threads)

VARIABLES
  SchedulePolicy,  \* the template argument of GreenScheduler, never changed
  ReadyQueue, RecycleBin,
  SP,              \* "none", "fresh" (InitGreenStack), "saved" or "loaded"
  Terminated,
  stack,           \* the green thread on whose stack a native thread runs
  Next_,           \* local Next of main and yield
  at

vars == <<SchedulePolicy, ReadyQueue, RecycleBin, SP, Terminated, stack, Next_, at>>

Recycling == SchedulePolicy = "Adapter"

Init ==
  /\ SchedulePolicy \in Policies
  /\ ReadyQueue \in IF Recycling THEN {<<>>} ELSE SetToSeqs(Threads)
  /\ RecycleBin = <<>>
  /\ SP = [t \in Threads |-> IF Recycling THEN "none" ELSE "fresh"]
  /\ Terminated = [t \in Threads |-> FALSE]
  /\ stack = [w \in Workers |-> NULL]
  /\ Next_ = [w \in Workers |-> NULL]
  /\ at = [w \in Workers |-> "main"]

(* With PromptEnd nobody moves while a native thread is still on the stack *)
(* of a thread that it has dropped in the recycle bin.                     *)
ending(w) == at[w] \in {"mark", "leave"}
mayMove(w) == PromptEnd /\ Recycling => \A v \in Workers \ {w} : ~ending(v)

goto(w, from, to) ==
  /\ at[w] = from /\ mayMove(w) /\ at' = [at EXCEPT ![w] = to]
  /\ UNCHANGED SchedulePolicy

-----------------------------------------------------------------------------
(* selectNext of the two policies, from main and from yield.               *)
selected(w, t) ==
  /\ Next_' = [Next_ EXCEPT ![w] = t]
  /\ \/ goto(w, "main", "start")
     \/ goto(w, "run", "switch")

popReady(w) ==
  /\ ReadyQueue # <<>>
  /\ selected(w, Head(ReadyQueue))
  /\ ReadyQueue' = Tail(ReadyQueue)
  /\ UNCHANGED <<RecycleBin, SP, Terminated, stack>>

(* newGreenThread: the recycle bin first, else an allocation.              *)
newGreenThread(w) ==
  /\ Recycling /\ ReadyQueue = <<>>
  /\ \E t \in Threads :
       /\ \/ RecycleBin # <<>> /\ t = Head(RecycleBin) /\ RecycleBin' = Tail(RecycleBin)
          \/ RecycleBin = <<>> /\ SP[t] = "none" /\ UNCHANGED RecycleBin
       /\ SP' = [SP EXCEPT ![t] = "fresh"]
       /\ selected(w, t)
  /\ UNCHANGED <<ReadyQueue, Terminated, stack>>

(* Nothing to select: main returns, yield goes on with its thread.         *)
selectNothing(w) ==
  /\ ReadyQueue = <<>>
  /\ goto(w, "main", "exited") \/ goto(w, "run", "run")
  /\ UNCHANGED <<ReadyQueue, RecycleBin, SP, Terminated, stack, Next_>>

-----------------------------------------------------------------------------
(* A thread that is switched to starts or goes on where it has yielded.    *)
enter(w, from) == goto(w, from, IF SP[Next_[w]] = "fresh" THEN "begin" ELSE "run")

load(w) ==
  /\ stack' = [stack EXCEPT ![w] = Next_[w]]
  /\ SP' = [SP EXCEPT ![Next_[w]] = "loaded"]

(* danbi_StartGreenThread                                                  *)
startThread(w) ==
  /\ enter(w, "start")
  /\ load(w)
  /\ Next_' = [Next_ EXCEPT ![w] = NULL]
  /\ UNCHANGED <<ReadyQueue, RecycleBin, Terminated>>

(* Slip: Terminated is not reset.                                          *)
beginStale(w) ==
  /\ goto(w, "begin", "run")
  /\ UNCHANGED <<ReadyQueue, RecycleBin, SP, Terminated, stack, Next_>>

(* GreenThread::start                                                      *)
begin(w) ==
  /\ goto(w, "begin", "run")
  /\ Terminated' = [Terminated EXCEPT ![stack[w]] = FALSE]
  /\ UNCHANGED <<ReadyQueue, RecycleBin, SP, stack, Next_>>

(* danbi_ContextSwitchWithCallback saves the stack pointer of the old      *)
(* thread, loads the new one and, on the new stack, calls                  *)
(* scheduleOutThread for the old one.  The load shows only with the push:  *)
(* they are one step.                                                      *)
saveContext(w) ==
  /\ goto(w, "switch", "callback")
  /\ SP' = [SP EXCEPT ![stack[w]] = "saved"]
  /\ UNCHANGED <<ReadyQueue, RecycleBin, Terminated, stack, Next_>>

switchTo(w, scheduledOut) ==
  /\ enter(w, "callback")
  /\ load(w)
  /\ ReadyQueue' = ReadyQueue \o scheduledOut
  /\ Next_' = [Next_ EXCEPT ![w] = NULL]
  /\ UNCHANGED <<RecycleBin, Terminated>>

(* Slips: the callback pushes the thread that runs now, a pointer that is  *)
(* gone, or nothing; the old thread is scheduled out before the switch.    *)
switchPushingNew(w) == saveContext(w) \/ switchTo(w, <<Next_[w]>>)
switchPushingNull(w) == saveContext(w) \/ switchTo(w, <<NULL>>)
switchForgetting(w) == saveContext(w) \/ switchTo(w, <<>>)

scheduleOutFirst(w) ==
  \/ /\ goto(w, "switch", "callback")
     /\ ReadyQueue' = Append(ReadyQueue, stack[w])
     /\ UNCHANGED <<RecycleBin, SP, Terminated, stack, Next_>>
  \/ switchTo(w, <<>>)

switchContext(w) == saveContext(w) \/ switchTo(w, <<stack[w]>>)

(* The body is done; deregisterThread, still on the stack of the thread,   *)
(* drops the thread in the recycle bin.                                    *)
deregisterThread(w) ==
  /\ goto(w, "run", "mark")
  /\ RecycleBin' = IF Recycling THEN Append(RecycleBin, stack[w]) ELSE RecycleBin
  /\ UNCHANGED <<ReadyQueue, SP, Terminated, stack, Next_>>

markTerminated(w) ==
  /\ goto(w, "mark", "leave")
  /\ Terminated' = [Terminated EXCEPT ![stack[w]] = TRUE]
  /\ UNCHANGED <<ReadyQueue, RecycleBin, SP, stack, Next_>>

(* danbi_TerminateHelper_: back to the native stack.                       *)
leaveStack(w) ==
  /\ goto(w, "leave", "main")
  /\ stack' = [stack EXCEPT ![w] = NULL]
  /\ UNCHANGED <<ReadyQueue, RecycleBin, SP, Terminated, Next_>>

-----------------------------------------------------------------------------
step(w) ==
  \/ popReady(w) \/ newGreenThread(w) \/ selectNothing(w)
  \/ startThread(w) \/ begin(w) \/ switchContext(w)
  \/ deregisterThread(w) \/ markTerminated(w) \/ leaveStack(w)

finished == (\A w \in Workers : at[w] = "exited") /\ UNCHANGED vars

Next == (\E w \in Workers : step(w)) \/ finished

Spec == Init /\ [][Next]_vars
-----------------------------------------------------------------------------
(* Properties                                                              *)

(* The variables have their types.                                         *)
TypeOK ==
  /\ SchedulePolicy \in Policies
  /\ ReadyQueue \in Seq(Threads) /\ RecycleBin \in Seq(Threads)
  /\ SP \in [Threads -> {"none", "fresh", "saved", "loaded"}]
  /\ Terminated \in [Threads -> BOOLEAN]
  /\ stack \in [Workers -> Threads \cup {NULL}]
  /\ Next_ \in [Workers -> Threads \cup {NULL}]
  /\ at \in [Workers -> {"main", "start", "begin", "run", "switch", "callback",
                         "mark", "leave", "exited"}]

(* Two native threads never run on one stack.                              *)
StackExclusive ==
  \A v, w \in Workers : v # w /\ stack[v] = stack[w] => stack[v] = NULL

(* A thread is switched to only when its context is in memory.             *)
SwitchesToSaved ==
  \A w \in Workers : Next_[w] # NULL =>
    /\ SP[Next_[w]] \in {"fresh", "saved"}
    /\ \A v \in Workers : stack[v] # Next_[w]

(* A thread that is marked Terminated runs no more: what is left of it is  *)
(* the return to the native stack, or its next start.                      *)
TerminatedIsDone ==
  \A w \in Workers : stack[w] # NULL /\ Terminated[stack[w]] =>
    at[w] \in {"begin", "leave"}

(* When the native threads have left main, every thread of the FIFO policy *)
(* has run to its end, and no thread is left ready.                        *)
AllThreadsEnd ==
  (\A w \in Workers : at[w] = "exited") =>
    /\ ReadyQueue = <<>>
    /\ ~Recycling => \A t \in Threads : Terminated[t]
=============================================================================

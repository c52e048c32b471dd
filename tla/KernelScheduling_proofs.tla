----------------------- MODULE KernelScheduling_proofs -----------------------
(***************************************************************************)
(* Kernel scheduling and termination, for any programs and any number of   *)
(* native threads, in the order of the sections:                           *)
(*  - SequentialKernelRunning is a token, so a sequential kernel has one   *)
(*    green thread;                                                        *)
(*  - the variables have their types, and what a native thread uses when   *)
(*    it gets there exists;                                                *)
(*  - NumSpawnedThreads counts the green threads, wherever they are;       *)
(*  - who counts a kernel down to zero terminates it, once;                *)
(*  - ActiveNonFeedbackInputQueues counts the producers that have not      *)
(*    ended and left;                                                      *)
(*  - a queue that lost its producer only shrinks, drain finds it empty,   *)
(*    and a kernel that has ended has nothing left to consume;             *)
(*  - a queue is deactivated before it is counted out;                     *)
(*  - while a kernel is not over, some native thread is still sure to      *)
(*    search through all kernels or is on its way to a green thread.       *)
(* PromptSpawn is not assumed.  From the fourth section on theorems name   *)
(* the steps that can break what they say, as LateSpawn: if the property   *)
(* is ever violated, then after such a step.                               *)
(***************************************************************************)
EXTENDS KernelScheduling, RingIndex_proofs, FiniteSetTheorems

Sequential == Kernels \ ParallelExec

(* Where a native thread is inside the body of RunningKernel, where the    *)
(* green thread is still counted, and where RunningKernel is newly chosen. *)
LivePlaces ==
  {"resume", "run", "failed", "recount", "drain", "drained", "ask", "acknowledge",
   "yield", "end", "decide", "deregister"}
GonePlaces == {"terminate", "flag", "count", "leave"}
ChosenPlaces == {"take", "check", "spawn", "none", "switch", "release"}

HoldsRunning(w) ==
  \/ at[w] \in LivePlaces \cup GonePlaces \cup ChosenPlaces
  \/ at[w] \in {"search", "cas", "retry"} /\ thread[w] # NULL
HoldsOld(w) ==
  at[w] = "release" \/ (at[w] \in ChosenPlaces /\ thread[w] # NULL)

(* The native thread w has the kernel k to itself.                         *)
Holds(w, k) ==
  \/ HoldsRunning(w) /\ RunningKernel[w] = k
  \/ HoldsOld(w) /\ OldKernel[w] = k

(* A green thread of k is with w, or w has seen that none is ready.        *)
Live(w, k) ==
  \/ /\ RunningKernel[w] = k
     /\ \/ at[w] \in LivePlaces \cup {"check", "spawn", "switch", "release"}
        \/ at[w] \in {"search", "cas", "retry"} /\ thread[w] # NULL
  \/ /\ OldKernel[w] = k /\ thread[w] # NULL
     /\ at[w] \in ChosenPlaces \ {"release"}

(* What one native thread knows of itself.                                 *)
Local(w) ==
  /\ at[w] \in Places
  /\ at[w] \in {"search", "cas", "retry"} => OldKernel[w] = RunningKernel[w]
  /\ HoldsOld(w) /\ RunningKernel[w] \in Sequential => OldKernel[w] # RunningKernel[w]
  /\ at[w] \in {"main", "exited"} => thread[w] = NULL
  /\ NewThread[w] # NULL =>
       \/ at[w] \in {"switch", "release"}
       \/ /\ at[w] \in GonePlaces \cup {"main", "deregister"}
          /\ RunningKernel[w] \notin Sequential

(* The variables are functions of native threads and of kernels.           *)
Shape ==
  /\ at = [w \in Workers |-> at[w]]
  /\ thread = [w \in Workers |-> thread[w]]
  /\ NewThread = [w \in Workers |-> NewThread[w]]
  /\ RunningKernel = [w \in Workers |-> RunningKernel[w]]
  /\ OldKernel = [w \in Workers |-> OldKernel[w]]
  /\ SequentialKernelRunning \in [Kernels -> BOOLEAN]
  /\ ReadyQueues = [k \in Kernels |-> ReadyQueues[k]]

Short(ready) == ready = <<>> \/ \E t : ready = <<t>>

TokenInv ==
  /\ Shape
  /\ \A w \in Workers : Local(w)
  /\ \A k \in Sequential :
       /\ Short(ReadyQueues[k])
       /\ \A w \in Workers : Holds(w, k) => SequentialKernelRunning[k]
       /\ \A v, w \in Workers : Holds(v, k) /\ Holds(w, k) => v = w
       /\ \A w \in Workers : Live(w, k) => ReadyQueues[k] = <<>>

(* In the beginning nobody has anything.                                   *)
LEMMA TokenBegins == Init => TokenInv
<1> SUFFICES ASSUME Init PROVE TokenInv
  OBVIOUS
<1>1. Shape
  BY DEF Init, Shape
<1>2. ASSUME NEW w \in Workers
      PROVE  /\ at[w] = "main" /\ thread[w] = NULL /\ NewThread[w] = NULL
             /\ ~HoldsRunning(w) /\ ~HoldsOld(w)
  BY DEF Init, HoldsRunning, HoldsOld, LivePlaces, GonePlaces, ChosenPlaces
<1>3. ASSUME NEW w \in Workers PROVE Local(w)
  BY <1>2 DEF Local, Places
<1>4. ASSUME NEW w \in Workers, NEW k PROVE ~Holds(w, k) /\ ~Live(w, k)
  BY <1>2 DEF Holds, Live, LivePlaces, ChosenPlaces
<1>5. \A k \in Sequential : Short(ReadyQueues[k])
  BY DEF Init, Short, Sequential
<1>6. QED
  BY <1>1, <1>3, <1>4, <1>5 DEF TokenInv

(* What a step of w must show to keep the tokens: it leaves alone what     *)
(* others hold, and takes only what nobody holds.                          *)
OthersStay(w) ==
  /\ program' = program
  /\ \A v \in Workers \ {w} :
       /\ at'[v] = at[v] /\ thread'[v] = thread[v] /\ NewThread'[v] = NewThread[v]
       /\ RunningKernel'[v] = RunningKernel[v] /\ OldKernel'[v] = OldKernel[v]

LEMMA TokensKept ==
  ASSUME TokenInv, Shape', NEW w \in Workers, OthersStay(w), Local(w)',
         \A k \in Sequential :
           /\ \A v \in Workers \ {w} : Holds(v, k) =>
                /\ SequentialKernelRunning'[k] = SequentialKernelRunning[k]
                /\ ReadyQueues'[k] = ReadyQueues[k]
           /\ Holds(w, k)' => /\ SequentialKernelRunning'[k]
                              /\ Holds(w, k) \/ ~SequentialKernelRunning[k]
           /\ Live(w, k)' => ReadyQueues'[k] = <<>>
           /\ Short(ReadyQueues'[k])
  PROVE  TokenInv'
<1>1. Sequential' = Sequential
  BY DEF OthersStay, Sequential, Kernels, ParallelExec, Body
<1>2. ASSUME NEW v \in Workers \ {w}, NEW k
      PROVE  /\ Local(v)' <=> Local(v)
             /\ Holds(v, k)' <=> Holds(v, k)
             /\ Live(v, k)' <=> Live(v, k)
             /\ Live(v, k) => Holds(v, k)
  BY <1>1 DEF OthersStay, Local, Holds, Live, HoldsRunning, HoldsOld, LivePlaces, ChosenPlaces
<1>3. \A v \in Workers : Local(v)'
  BY <1>2 DEF TokenInv
<1>4. ASSUME NEW k \in Sequential
      PROVE  /\ Short(ReadyQueues'[k])
             /\ \A v \in Workers : Holds(v, k)' => SequentialKernelRunning'[k]
             /\ \A u, v \in Workers : Holds(u, k)' /\ Holds(v, k)' => u = v
             /\ \A v \in Workers : Live(v, k)' => ReadyQueues'[k] = <<>>
  <2>1. \A v \in Workers : Holds(v, k)' => SequentialKernelRunning'[k]
    BY <1>2 DEF TokenInv
  <2>2. \A v \in Workers \ {w} : ~(Holds(v, k)' /\ Holds(w, k)')
    BY <1>2 DEF TokenInv
  <2>3. \A u, v \in Workers : Holds(u, k)' /\ Holds(v, k)' => u = v
    BY <1>2, <2>2 DEF TokenInv
  <2>4. \A v \in Workers : Live(v, k)' => ReadyQueues'[k] = <<>>
    BY <1>2 DEF TokenInv
  <2>5. QED
    BY <2>1, <2>3, <2>4
<1>5. QED
  BY <1>1, <1>3, <1>4 DEF TokenInv

-----------------------------------------------------------------------------
(* The body of a kernel                                                    *)

ThreadOnly(w) ==
  /\ thread' = [v \in Workers |-> thread'[v]]
  /\ \A v \in Workers \ {w} : thread'[v] = thread[v]

LEMMA AdvanceIsLocal ==
  ASSUME Shape, NEW w \in Workers, NEW t, advanceThread(w, t)
  PROVE  ThreadOnly(w)
BY DEF Shape, advanceThread, ThreadOnly

(* From place to place in the body: everything is kept.                    *)
InBody(w, from, to) ==
  /\ goto(w, from, to)
  /\ from \in LivePlaces \cup GonePlaces
  /\ to \in GonePlaces \/ (to \in LivePlaces /\ from \in LivePlaces \ {"deregister"})
  /\ ThreadOnly(w)
  /\ UNCHANGED <<NewThread, RunningKernel, OldKernel, SequentialKernelRunning, ReadyQueues>>

LEMMA InBodyKeeps ==
  ASSUME TokenInv, NEW w \in Workers, NEW from, NEW to, InBody(w, from, to),
         program' = program
  PROVE  TokenInv'
<1> USE DEF LivePlaces, GonePlaces, ChosenPlaces
<1>1. Shape /\ Local(w)
  BY DEF TokenInv
<1>2. at' = [v \in Workers |-> IF v = w THEN to ELSE at[v]] /\ at[w] = from
  BY <1>1 DEF InBody, goto, Shape
<1>3. Shape'
  BY <1>1, <1>2 DEF InBody, ThreadOnly, Shape, Kernels, Body
<1>4. OthersStay(w)
  BY <1>2 DEF InBody, ThreadOnly, OthersStay
<1>5. Local(w)'
  BY <1>1, <1>2 DEF InBody, Local, HoldsOld, Places, Sequential, Kernels, Body, ParallelExec
<1>6. \A k \in Sequential : (Holds(w, k)' => Holds(w, k)) /\ (Live(w, k)' => Live(w, k))
  BY <1>2 DEF InBody, Holds, Live, HoldsRunning, HoldsOld
<1>7. QED
  BY <1>3, <1>4, <1>5, <1>6, TokensKept DEF TokenInv, InBody

LEMMA BodySteps ==
  ASSUME TokenInv, NEW w \in Workers, program' = program, runBody(w)
  PROVE  TokenInv'
<1> USE DEF LivePlaces, GonePlaces, status, choice, locals, context
<1>0. Shape
  BY DEF TokenInv
<1>1. UNCHANGED thread => ThreadOnly(w)
  BY <1>0 DEF Shape, ThreadOnly
<1>2. CASE resume(w)
  <2>1. InBody(w, "resume", "run")
    BY <1>0, <1>1, <1>2, AdvanceIsLocal DEF resume, InBody
  <2>2. QED
    BY <2>1, InBodyKeeps
<1>3. CASE bodyEnds(w)
  <2>1. InBody(w, "run", "end")
    BY <1>1, <1>3 DEF bodyEnds, InBody
  <2>2. QED
    BY <2>1, InBodyKeeps
<1>4. CASE push(w)
  <2>1. InBody(w, "run", "run") \/ InBody(w, "run", "yield")
    BY <1>0, <1>1, <1>4, AdvanceIsLocal DEF push, InBody
  <2>2. QED
    BY <2>1, InBodyKeeps
<1>5. CASE pop(w)
  <2>1. \E to \in {"run", "yield", "failed"} : InBody(w, "run", to)
    BY <1>0, <1>1, <1>5, AdvanceIsLocal DEF pop, InBody
  <2>2. QED
    BY <2>1, InBodyKeeps
<1>6. CASE checkDeactivated(w)
  <2>1. \E to \in {"ask", "recount", "drain"} : InBody(w, "failed", to)
    BY <1>1, <1>6 DEF checkDeactivated, InBody
  <2>2. QED
    BY <2>1, InBodyKeeps
<1>7. CASE reduceRepeat(w)
  <2>1. InBody(w, "recount", "run") \/ InBody(w, "recount", "drain")
    BY <1>0, <1>1, <1>7 DEF reduceRepeat, InBody, Shape, ThreadOnly
  <2>2. QED
    BY <2>1, InBodyKeeps
<1>8. CASE readReservedHead(w)
  <2>1. InBody(w, "drain", "drained")
    BY <1>1, <1>8 DEF readReservedHead, InBody
  <2>2. QED
    BY <2>1, InBodyKeeps
<1>9. CASE drain(w)
  <2>1. InBody(w, "drained", "ask")
    BY <1>1, <1>9 DEF drain, InBody
  <2>2. QED
    BY <2>1, InBodyKeeps
<1>10. CASE checkTermination(w)
  <2>1. InBody(w, "ask", "acknowledge") \/ InBody(w, "ask", "yield")
    BY <1>1, <1>10 DEF checkTermination, InBody
  <2>2. QED
    BY <2>1, InBodyKeeps
<1>11. CASE acknowledgeCanTerminate(w)
  <2>1. InBody(w, "acknowledge", "end")
    BY <1>1, <1>11 DEF acknowledgeCanTerminate, InBody
  <2>2. QED
    BY <2>1, InBodyKeeps
<1>12. QED
  BY <1>2, <1>3, <1>4, <1>5, <1>6, <1>7, <1>8, <1>9, <1>10, <1>11 DEF runBody

-----------------------------------------------------------------------------
(* The end of a body                                                       *)

(* A thread is replaced in a parallel kernel only: in a sequential one     *)
(* none is ready beside it.                                                *)
LEMMA ReplaceKeeps ==
  ASSUME TokenInv, NEW w \in Workers, program' = program, replaceThread(w)
  PROVE  TokenInv'
<1> USE DEF LivePlaces, GonePlaces, ChosenPlaces
<1>1. Shape /\ Local(w) /\ at[w] = "end"
  BY DEF TokenInv, replaceThread
<1>2. CASE goto(w, "end", "decide") /\ UNCHANGED <<NewThread, ReadyQueues>>
  <2>1. InBody(w, "end", "decide")
    BY <1>1, <1>2 DEF replaceThread, InBody, Shape, ThreadOnly, status, context
  <2>2. QED
    BY <2>1, InBodyKeeps
<1>3. CASE ~(goto(w, "end", "decide") /\ UNCHANGED <<NewThread, ReadyQueues>>)
  <2> DEFINE k0 == RunningKernel[w]
  <2>1. /\ ReadyQueues[k0] # <<>> /\ goto(w, "end", "deregister")
        /\ NewThread' = [NewThread EXCEPT ![w] = Head(ReadyQueues[k0])]
        /\ ReadyQueues' = [ReadyQueues EXCEPT ![k0] = Tail(@)]
        /\ UNCHANGED <<thread, RunningKernel, OldKernel, SequentialKernelRunning>>
    BY <1>3 DEF replaceThread, status, context
  <2>2. k0 \notin Sequential
    BY <1>1, <2>1 DEF TokenInv, Live
  <2>3. at' = [v \in Workers |-> IF v = w THEN "deregister" ELSE at[v]]
    BY <1>1, <2>1 DEF goto, Shape
  <2>4. Shape' /\ OthersStay(w)
    BY <1>1, <2>1, <2>3 DEF Shape, OthersStay, Kernels, Body
  <2>5. Local(w)'
    BY <1>1, <2>1, <2>2, <2>3 DEF Local, HoldsOld, Places, Sequential, Kernels, Body,
                                  ParallelExec
  <2>6. \A k \in Sequential :
          /\ (Holds(w, k)' => Holds(w, k)) /\ (Live(w, k)' => Live(w, k))
          /\ ReadyQueues'[k] = ReadyQueues[k]
    BY <1>1, <2>1, <2>2, <2>3 DEF Holds, Live, HoldsRunning, HoldsOld, Shape, Sequential
  <2>7. QED
    BY <2>1, <2>4, <2>5, <2>6, TokensKept DEF TokenInv
<1>4. QED
  BY <1>2, <1>3

(* The thread is gone and lets its kernel go.                              *)
LEMMA LeaveKeeps ==
  ASSUME TokenInv, NEW w \in Workers, program' = program, leave(w)
  PROVE  TokenInv'
<1> USE DEF LivePlaces, GonePlaces, ChosenPlaces
<1> DEFINE k0 == RunningKernel[w]
<1>1. Shape /\ Local(w) /\ at[w] \in {"leave", "flag"}
  BY DEF TokenInv, leave, goto
<1>2. /\ at' = [v \in Workers |-> IF v = w THEN "main" ELSE at[v]]
      /\ thread' = [v \in Workers |-> IF v = w THEN NULL ELSE thread[v]]
      /\ UNCHANGED <<NewThread, RunningKernel, OldKernel, ReadyQueues>>
  BY <1>1 DEF leave, goto, Shape, choice, context
<1>3. /\ SequentialKernelRunning' \in [Kernels -> BOOLEAN]
      /\ \A k \in Kernels \ {k0} : SequentialKernelRunning'[k] = SequentialKernelRunning[k]
  BY <1>1 DEF leave, releaseKernel, Shape
<1>4. Shape' /\ OthersStay(w)
  BY <1>1, <1>2, <1>3 DEF Shape, OthersStay, Kernels, Body
<1>5. Local(w)'
  BY <1>1, <1>2 DEF Local, HoldsOld, Places, Sequential, Kernels, Body, ParallelExec
<1>6. \A k : ~Holds(w, k)' /\ ~Live(w, k)'
  BY <1>2 DEF Holds, Live, HoldsRunning, HoldsOld
<1>7. Holds(w, k0)
  BY <1>1 DEF Holds, HoldsRunning
<1>8. \A k \in Sequential : \A v \in Workers \ {w} : Holds(v, k) =>
        SequentialKernelRunning'[k] = SequentialKernelRunning[k]
  BY <1>3, <1>7 DEF TokenInv, Sequential
<1>9. QED
  BY <1>2, <1>4, <1>5, <1>6, <1>8, TokensKept DEF TokenInv

LEMMA EndSteps ==
  ASSUME TokenInv, NEW w \in Workers, program' = program, endBody(w)
  PROVE  TokenInv'
<1> USE DEF LivePlaces, GonePlaces, status, choice, locals, context
<1>0. Shape
  BY DEF TokenInv
<1>1. UNCHANGED thread => ThreadOnly(w)
  BY <1>0 DEF Shape, ThreadOnly
<1>2. CASE endKernel(w)
  <2>1. InBody(w, "decide", "deregister")
    BY <1>1, <1>2 DEF endKernel, InBody
  <2>2. QED
    BY <2>1, InBodyKeeps
<1>3. CASE leaveKernel(w)
  <2>1. InBody(w, "decide", "deregister")
    BY <1>1, <1>3 DEF leaveKernel, InBody
  <2>2. QED
    BY <2>1, InBodyKeeps
<1>4. CASE repeatBody(w)
  <2>1. InBody(w, "decide", "run")
    BY <1>0, <1>4 DEF repeatBody, InBody, Shape, ThreadOnly
  <2>2. QED
    BY <2>1, InBodyKeeps
<1>5. CASE deregisterThread(w)
  <2>1. InBody(w, "deregister", "terminate") \/ InBody(w, "deregister", "leave")
    BY <1>1, <1>5 DEF deregisterThread, InBody
  <2>2. QED
    BY <2>1, InBodyKeeps
<1>6. CASE terminateKernel(w)
  <2>1. InBody(w, "terminate", "flag")
    BY <1>1, <1>6 DEF terminateKernel, InBody
  <2>2. QED
    BY <2>1, InBodyKeeps
<1>7. CASE deactivateQueue(w)
  <2>1. InBody(w, "flag", "count")
    BY <1>1, <1>7 DEF deactivateQueue, InBody
  <2>2. QED
    BY <2>1, InBodyKeeps
<1>8. CASE decrementActive(w)
  <2>1. InBody(w, "count", "flag") \/ InBody(w, "count", "leave")
    BY <1>1, <1>8 DEF decrementActive, InBody
  <2>2. QED
    BY <2>1, InBodyKeeps
<1>9. QED
  BY <1>2, <1>3, <1>4, <1>5, <1>6, <1>7, <1>8, ReplaceKeeps, LeaveKeeps DEF endBody

-----------------------------------------------------------------------------
(* Selection                                                               *)

(* From place to place without a change of tokens, queues or threads.      *)
Moves(w, to) ==
  /\ goto(w, at[w], to)
  /\ UNCHANGED <<program, thread, NewThread, SequentialKernelRunning, ReadyQueues>>
  /\ \/ UNCHANGED <<RunningKernel, OldKernel>>
     \/ UNCHANGED RunningKernel /\ OldKernel' = [OldKernel EXCEPT ![w] = RunningKernel[w]]
     \/ /\ UNCHANGED OldKernel
        /\ \E k \in ParallelExec : RunningKernel' = [RunningKernel EXCEPT ![w] = k]

LEMMA MovesKeep ==
  ASSUME TokenInv, NEW w \in Workers, NEW to \in Places, Moves(w, to), Local(w)',
         \A k \in Sequential :
           (Holds(w, k)' => Holds(w, k)) /\ (Live(w, k)' => Live(w, k) \/ ReadyQueues[k] = <<>>)
  PROVE  TokenInv'
<1>1. Shape'
  BY DEF TokenInv, Shape, Moves, goto, Kernels, Body
<1>2. OthersStay(w)
  BY DEF TokenInv, Shape, Moves, goto, OthersStay
<1>3. QED
  BY <1>1, <1>2, TokensKept DEF TokenInv, Moves

LEMMA SelectNextKeeps ==
  ASSUME TokenInv, NEW w \in Workers, program' = program, selectNext(w)
  PROVE  TokenInv'
<1> USE DEF LivePlaces, GonePlaces, ChosenPlaces
<1>1. Shape /\ Local(w) /\ at[w] \in {"main", "yield", "retry"}
  BY DEF TokenInv, selectNext
<1>2. /\ OldKernel' = [OldKernel EXCEPT ![w] = RunningKernel[w]]
      /\ UNCHANGED <<program, thread, NewThread, RunningKernel, SequentialKernelRunning,
                     ReadyQueues>>
  BY DEF selectNext, status
<1>3. OldKernel'[w] = RunningKernel[w] /\ Sequential' = Sequential
  BY <1>1, <1>2 DEF Shape, Sequential, Kernels, Body, ParallelExec
<1>4. CASE NewThread[w] # NULL
  <2>1. at[w] = "main" /\ RunningKernel[w] \notin Sequential /\ thread[w] = NULL
    BY <1>1, <1>4 DEF Local
  <2>2. goto(w, at[w], "switch") /\ at'[w] = "switch"
    BY <1>1, <1>4 DEF selectNext, goto, Shape
  <2>3. Moves(w, "switch") /\ Local(w)'
    BY <1>2, <1>3, <1>4, <2>1, <2>2 DEF Moves, Local, HoldsOld, Places
  <2>4. \A k \in Sequential : ~Holds(w, k)' /\ ~Live(w, k)'
    BY <1>2, <2>1, <2>2 DEF Holds, Live, HoldsRunning, HoldsOld
  <2>5. QED
    BY <2>3, <2>4, MovesKeep DEF Places
<1>5. CASE NewThread[w] = NULL /\ keepGoing(w)
  <2>1. PICK to \in {"exited", "resume"} :
          /\ goto(w, at[w], to) /\ at'[w] = to
          /\ to = IF thread[w] = NULL THEN "exited" ELSE "resume"
    BY <1>1, <1>5 DEF selectNext, selectNothing, goto, Shape
  <2>2. Moves(w, to) /\ Local(w)'
    BY <1>2, <1>3, <1>5, <2>1 DEF Moves, Local, HoldsOld, Places
  <2>3. \A k \in Sequential : (Holds(w, k)' => Holds(w, k)) /\ (Live(w, k)' => Live(w, k))
    BY <1>1, <1>2, <2>1 DEF Holds, Live, HoldsRunning, HoldsOld, Local
  <2>4. QED
    BY <2>2, <2>3, MovesKeep DEF Places
<1>6. CASE NewThread[w] = NULL /\ ~keepGoing(w)
  <2>1. goto(w, at[w], "search") /\ at'[w] = "search"
    BY <1>1, <1>6 DEF selectNext, goto, Shape
  <2>2. Moves(w, "search") /\ Local(w)'
    BY <1>2, <1>3, <1>6, <2>1 DEF Moves, Local, HoldsOld, Places
  <2>3. \A k \in Sequential : (Holds(w, k)' => Holds(w, k)) /\ (Live(w, k)' => Live(w, k))
    BY <1>1, <1>2, <2>1 DEF Holds, Live, HoldsRunning, HoldsOld, Local
  <2>4. QED
    BY <2>2, <2>3, MovesKeep DEF Places
<1>7. QED
  BY <1>4, <1>5, <1>6

(* The search goes on, or ends without a kernel.                           *)
LEMMA SearchKeeps ==
  ASSUME TokenInv, NEW w \in Workers, program' = program,
         \/ walkOn(w) \/ noKernel(w)
         \/ \E k \in Kernels : trySchedule(w, k)
  PROVE  TokenInv'
<1> USE DEF LivePlaces, GonePlaces, ChosenPlaces, status, context, choice, chosen
<1>1. Shape /\ Local(w) /\ at[w] = "search"
  BY DEF TokenInv, walkOn, noKernel, selectNothing, trySchedule, passKernel, pickParallel,
         pickSequential, goto
<1>2. UNCHANGED <<program, thread, NewThread, OldKernel, SequentialKernelRunning,
                  ReadyQueues>> /\ Sequential' = Sequential
  BY DEF walkOn, noKernel, trySchedule, passKernel, pickParallel, pickSequential,
         Sequential, Kernels, Body, ParallelExec
<1>3. CASE \/ walkOn(w) \/ noKernel(w)
           \/ \E k \in Kernels : passKernel(w, k) \/ pickSequential(w, k)
  <2>1. /\ UNCHANGED RunningKernel
        /\ \/ goto(w, "search", "search") \/ goto(w, "search", "cas")
           \/ thread[w] = NULL /\ goto(w, "search", "exited")
           \/ thread[w] # NULL /\ goto(w, "search", "resume")
    BY <1>3 DEF walkOn, noKernel, selectNothing, passKernel, pickSequential
  <2>2. PICK to \in {"search", "cas", "exited", "resume"} :
          /\ goto(w, at[w], to) /\ at'[w] = to
          /\ to = "exited" => thread[w] = NULL
          /\ to = "resume" => thread[w] # NULL
    BY <1>1, <2>1 DEF goto, Shape
  <2>3. Moves(w, to) /\ Local(w)'
    BY <1>1, <1>2, <2>1, <2>2 DEF Moves, Local, HoldsOld, Places
  <2>4. \A k \in Sequential : (Holds(w, k)' => Holds(w, k)) /\ (Live(w, k)' => Live(w, k))
    BY <1>1, <1>2, <2>1, <2>2 DEF Holds, Live, HoldsRunning, HoldsOld, Local
  <2>5. QED
    BY <2>2, <2>3, <2>4, MovesKeep DEF Places
<1>4. CASE \E k \in Kernels : pickParallel(w, k)
  <2>1. PICK k0 \in ParallelExec :
          goto(w, at[w], "take") /\ RunningKernel' = [RunningKernel EXCEPT ![w] = k0]
    BY <1>1, <1>4 DEF pickParallel
  <2>2. at'[w] = "take" /\ RunningKernel'[w] = k0 /\ k0 \notin Sequential
    BY <1>1, <2>1 DEF goto, Shape, Sequential
  <2>3. Moves(w, "take")
    BY <1>2, <2>1 DEF Moves
  <2>4. NewThread[w] = NULL
    BY <1>1 DEF Local
  <2>5. Local(w)'
    BY <1>2, <2>2, <2>4 DEF Local, Places
  <2>6. \A k \in Sequential : (Holds(w, k)' => Holds(w, k)) /\ (Live(w, k)' => Live(w, k))
    BY <1>1, <1>2, <2>2 DEF Holds, Live, HoldsRunning, HoldsOld, Local
  <2>7. QED
    BY <2>3, <2>5, <2>6, MovesKeep DEF Places
<1>5. QED
  BY <1>3, <1>4 DEF trySchedule

(* The compare-and-swap takes the token only if nobody has it.             *)
LEMMA CasKeeps ==
  ASSUME TokenInv, NEW w \in Workers, program' = program, casSequentialKernelRunning(w)
  PROVE  TokenInv'
<1> USE DEF LivePlaces, GonePlaces, ChosenPlaces, chosen
<1> DEFINE k0 == candidate[w]
<1>1. Shape /\ Local(w) /\ at[w] = "cas" /\ Sequential' = Sequential
  BY DEF TokenInv, casSequentialKernelRunning, Sequential, Kernels, Body, ParallelExec
<1>2. /\ UNCHANGED <<program, thread, NewThread, OldKernel, ReadyQueues>>
      /\ SequentialKernelRunning' = [SequentialKernelRunning EXCEPT ![k0] = TRUE]
  BY DEF casSequentialKernelRunning
<1>3. /\ Sequential \subseteq Kernels
      /\ SequentialKernelRunning' \in [Kernels -> BOOLEAN]
      /\ \A k \in Kernels : SequentialKernelRunning'[k] = (k = k0 \/ SequentialKernelRunning[k])
  BY <1>1, <1>2 DEF Shape, Sequential
<1>4. CASE SequentialKernelRunning[k0]
  <2>1. goto(w, "cas", "search") /\ UNCHANGED RunningKernel
    BY <1>4 DEF casSequentialKernelRunning
  <2>2. SequentialKernelRunning' = SequentialKernelRunning
    BY <1>1, <1>2, <1>3, <1>4 DEF Shape
  <2>3. at'[w] = "search"
    BY <1>1, <2>1 DEF goto, Shape
  <2>4. Moves(w, "search") /\ Local(w)'
    BY <1>1, <1>2, <2>1, <2>2, <2>3 DEF Moves, Local, HoldsOld, Places
  <2>5. \A k \in Sequential : (Holds(w, k)' => Holds(w, k)) /\ (Live(w, k)' => Live(w, k))
    BY <1>1, <1>2, <2>1, <2>3 DEF Holds, Live, HoldsRunning, HoldsOld
  <2>6. QED
    BY <2>4, <2>5, MovesKeep DEF Places
<1>5. CASE ~SequentialKernelRunning[k0]
  <2>1. /\ at' = [v \in Workers |-> IF v = w THEN "take" ELSE at[v]]
        /\ RunningKernel' = [v \in Workers |-> IF v = w THEN k0 ELSE RunningKernel[v]]
    BY <1>1, <1>5 DEF casSequentialKernelRunning, goto, Shape
  <2>2. Shape' /\ OthersStay(w)
    BY <1>1, <1>2, <1>3, <2>1 DEF Shape, OthersStay, Kernels, Body
  <2>3. thread[w] # NULL /\ OldKernel[w] \in Sequential => Holds(w, OldKernel[w])
    BY <1>1 DEF Holds, HoldsRunning, Local
  <2>4. thread[w] # NULL /\ k0 \in Sequential => OldKernel[w] # k0
    BY <1>5, <2>3 DEF TokenInv
  <2>5. Local(w)'
    BY <1>1, <1>2, <2>1, <2>4 DEF Local, HoldsOld, Places
  <2>6. ASSUME NEW k \in Sequential
        PROVE  /\ \A v \in Workers \ {w} : Holds(v, k) =>
                    SequentialKernelRunning'[k] = SequentialKernelRunning[k]
               /\ Holds(w, k)' => /\ SequentialKernelRunning'[k]
                                  /\ Holds(w, k) \/ ~SequentialKernelRunning[k]
               /\ Live(w, k)' => Live(w, k)
    <3>1. \A v \in Workers : Holds(v, k) => SequentialKernelRunning[k] /\ k # k0
      BY <1>5 DEF TokenInv
    <3>2. Holds(w, k)' => k = k0 \/ Holds(w, k)
      BY <1>1, <1>2, <2>1 DEF Holds, HoldsRunning, HoldsOld, Local
    <3>3. Live(w, k)' => Live(w, k)
      BY <1>1, <1>2, <2>1 DEF Live, Local
    <3>4. QED
      BY <1>3, <1>5, <3>1, <3>2, <3>3
  <2>7. QED
    BY <1>2, <2>2, <2>5, <2>6, TokensKept DEF TokenInv
<1>6. QED
  BY <1>4, <1>5

(* A thread is taken from the ready queue, or there is none.               *)
LEMMA TakeKeeps ==
  ASSUME TokenInv, NEW w \in Workers, program' = program, takeReady(w)
  PROVE  TokenInv'
<1> USE DEF LivePlaces, GonePlaces, ChosenPlaces
<1> DEFINE k0 == RunningKernel[w]
<1>1. Shape /\ Local(w) /\ at[w] = "take" /\ Sequential' = Sequential
  BY DEF TokenInv, takeReady, Sequential, Kernels, Body, ParallelExec
<1>2. UNCHANGED <<program, thread, RunningKernel, OldKernel, SequentialKernelRunning>>
  BY DEF takeReady, status, context
<1>3. NewThread[w] = NULL
  BY <1>1 DEF Local
<1>4. \A k \in Sequential : Holds(w, k) <=>
        k0 = k \/ (thread[w] # NULL /\ OldKernel[w] = k)
  BY <1>1 DEF Holds, HoldsRunning, HoldsOld
<1>5. CASE ReadyQueues[k0] = <<>>
  <2>1. PICK to \in {"none", "check"} : goto(w, at[w], to) /\ at'[w] = to
    BY <1>1, <1>5 DEF takeReady, goto, Shape
  <2>2. UNCHANGED <<ReadyQueues, NewThread>>
    BY <1>5 DEF takeReady
  <2>3. Moves(w, to)
    BY <1>2, <2>1, <2>2 DEF Moves
  <2>4. Local(w)'
    BY <1>1, <1>2, <1>3, <2>1, <2>2 DEF Local, HoldsOld, Places
  <2>5. \A k \in Sequential :
          (Holds(w, k)' => Holds(w, k)) /\ (Live(w, k)' => Live(w, k) \/ ReadyQueues[k] = <<>>)
    BY <1>1, <1>2, <1>5, <2>1 DEF Holds, Live, HoldsRunning, HoldsOld
  <2>6. QED
    BY <2>1, <2>3, <2>4, <2>5, MovesKeep DEF Places
<1>6. CASE ReadyQueues[k0] # <<>>
  <2>1. /\ at' = [v \in Workers |-> IF v = w THEN "switch" ELSE at[v]]
        /\ \A v \in Workers \ {w} : NewThread'[v] = NewThread[v]
        /\ NewThread' = [v \in Workers |-> NewThread'[v]]
        /\ ReadyQueues' = [k \in Kernels |->
                              IF k = k0 THEN Tail(ReadyQueues[k0]) ELSE ReadyQueues[k]]
    BY <1>1, <1>6 DEF takeReady, goto, Shape
  <2>2. Shape' /\ OthersStay(w)
    BY <1>1, <1>2, <2>1 DEF Shape, OthersStay, Kernels, Body
  <2>3. Local(w)'
    BY <1>1, <1>2, <2>1 DEF Local, HoldsOld, Places
  <2>4. ASSUME NEW k \in Sequential
        PROVE  /\ \A v \in Workers \ {w} : Holds(v, k) => ReadyQueues'[k] = ReadyQueues[k]
               /\ Holds(w, k)' => Holds(w, k)
               /\ Live(w, k)' => ReadyQueues'[k] = <<>>
               /\ Short(ReadyQueues'[k])
    <3>1. k \in Kernels
      BY DEF Sequential
    <3>2. Holds(w, k)' => Holds(w, k)
      BY <1>1, <1>2, <1>4, <2>1 DEF Holds, HoldsRunning, HoldsOld
    <3>3. k = k0 => ReadyQueues'[k] = <<>>
      <4> SUFFICES ASSUME k = k0 PROVE Tail(ReadyQueues[k]) = <<>>
        BY <2>1, <3>1
      <4>1. PICK t : ReadyQueues[k] = <<t>>
        BY <1>6 DEF TokenInv, Short
      <4>2. QED
        BY <4>1
    <3>4. k # k0 => ReadyQueues'[k] = ReadyQueues[k]
      BY <2>1, <3>1
    <3>5. k # k0 /\ Live(w, k)' => Live(w, k)
      BY <1>1, <1>2, <2>1 DEF Live
    <3>6. \A v \in Workers \ {w} : Holds(v, k) => k # k0
      BY <1>4 DEF TokenInv
    <3>7. QED
      BY <3>2, <3>3, <3>4, <3>5, <3>6 DEF TokenInv, Short
  <2>5. QED
    BY <1>2, <2>2, <2>3, <2>4, TokensKept DEF TokenInv
<1>7. QED
  BY <1>5, <1>6

(* A thread is spawned for a kernel that has no other.                     *)
LEMMA SpawnKeeps ==
  ASSUME TokenInv, NEW w \in Workers, program' = program, checkTerminating(w) \/ spawn(w)
  PROVE  TokenInv'
<1> USE DEF LivePlaces, GonePlaces, ChosenPlaces
<1>1. Shape /\ Local(w) /\ Sequential' = Sequential
  BY DEF TokenInv, Sequential, Kernels, Body, ParallelExec
<1>2. UNCHANGED <<program, thread, RunningKernel, OldKernel, SequentialKernelRunning,
                  ReadyQueues>>
  BY DEF checkTerminating, spawn, status, context
<1>3. PICK from \in {"check", "spawn"}, to \in {"none", "spawn", "switch"} :
        /\ at[w] = from /\ at' = [v \in Workers |-> IF v = w THEN to ELSE at[v]]
        /\ NewThread' = NewThread \/ to = "switch"
        /\ \A v \in Workers \ {w} : NewThread'[v] = NewThread[v]
        /\ NewThread' = [v \in Workers |-> NewThread'[v]]
  BY <1>1 DEF checkTerminating, spawn, choice, goto, Shape
<1>4. Shape' /\ OthersStay(w)
  BY <1>1, <1>2, <1>3 DEF Shape, OthersStay, Kernels, Body
<1>5. NewThread[w] = NULL
  BY <1>1, <1>3 DEF Local
<1>6. Local(w)'
  BY <1>1, <1>2, <1>3, <1>5 DEF Local, HoldsOld, Places
<1>7. \A k \in Sequential : (Holds(w, k)' => Holds(w, k)) /\ (Live(w, k)' => Live(w, k))
  BY <1>2, <1>3 DEF Holds, Live, HoldsRunning, HoldsOld
<1>8. QED
  BY <1>2, <1>4, <1>6, <1>7, TokensKept DEF TokenInv

(* No thread: the chosen kernel is let go, unless it is the old one.       *)
LEMMA NoThreadKeeps ==
  ASSUME TokenInv, NEW w \in Workers, program' = program, noThread(w)
  PROVE  TokenInv'
<1> USE DEF LivePlaces, GonePlaces, ChosenPlaces
<1> DEFINE k0 == RunningKernel[w]
<1>1. Shape /\ Local(w) /\ at[w] = "none" /\ Sequential' = Sequential
  BY DEF TokenInv, noThread, selectNothing, goto, Sequential, Kernels, Body, ParallelExec
<1>2. UNCHANGED <<program, thread, NewThread, OldKernel, ReadyQueues>>
  BY DEF noThread, choice
<1>3. NewThread[w] = NULL
  BY <1>1 DEF Local
<1>4. CASE /\ RunningKernel[w] = OldKernel[w] /\ selectNothing(w, "none")
           /\ UNCHANGED <<SequentialKernelRunning, RunningKernel>>
  <2>1. PICK to \in {"exited", "resume"} :
          /\ goto(w, at[w], to) /\ at'[w] = to
          /\ to = IF thread[w] = NULL THEN "exited" ELSE "resume"
    BY <1>1, <1>4 DEF selectNothing, goto, Shape
  <2>2. Moves(w, to)
    BY <1>2, <1>4, <2>1 DEF Moves
  <2>3. Local(w)'
    BY <1>1, <1>2, <1>3, <2>1 DEF Local, HoldsOld, Places
  <2>4. \A k \in Sequential : (Holds(w, k)' => Holds(w, k)) /\ (Live(w, k)' => Live(w, k))
    BY <1>1, <1>2, <1>4, <2>1 DEF Holds, Live, HoldsRunning, HoldsOld
  <2>5. QED
    BY <2>1, <2>2, <2>3, <2>4, MovesKeep DEF Places
<1>5. CASE /\ goto(w, "none", "retry") /\ releaseKernel(RunningKernel[w])
           /\ RunningKernel' = [RunningKernel EXCEPT ![w] = OldKernel[w]]
  <2>1. /\ at' = [v \in Workers |-> IF v = w THEN "retry" ELSE at[v]]
        /\ RunningKernel' = [v \in Workers |-> IF v = w THEN OldKernel[v] ELSE RunningKernel[v]]
    BY <1>1, <1>5 DEF goto, Shape
  <2>2. /\ SequentialKernelRunning' \in [Kernels -> BOOLEAN]
        /\ \A k \in Kernels \ {k0} : SequentialKernelRunning'[k] = SequentialKernelRunning[k]
    BY <1>1, <1>5 DEF releaseKernel, Shape
  <2>3. Shape' /\ OthersStay(w)
    BY <1>1, <1>2, <2>1, <2>2 DEF Shape, OthersStay, Kernels, Body
  <2>4. Local(w)'
    BY <1>1, <1>2, <1>3, <2>1 DEF Local, HoldsOld, Places
  <2>5. \A k \in Sequential : Holds(w, k)' \/ Live(w, k)' => thread[w] # NULL /\ k = OldKernel[w]
    BY <1>1, <1>2, <2>1 DEF Holds, Live, HoldsRunning, HoldsOld
  <2>6. \A k \in Sequential : thread[w] # NULL /\ k = OldKernel[w] =>
          k # k0 /\ Holds(w, k) /\ Live(w, k)
    BY <1>1 DEF Holds, Live, HoldsOld, Local
  <2>7. \A k \in Sequential : \A v \in Workers \ {w} : Holds(v, k) => k # k0
    BY <1>1 DEF TokenInv, Holds, HoldsRunning
  <2>8. \A k \in Sequential \ {k0} : SequentialKernelRunning'[k] = SequentialKernelRunning[k]
    BY <2>2 DEF Sequential
  <2>9. QED
    BY <1>2, <2>3, <2>4, <2>5, <2>6, <2>7, <2>8, TokensKept DEF TokenInv
<1>6. QED
  BY <1>4, <1>5 DEF noThread


(* The new thread runs on.                                                 *)
LEMMA EnterIsRunning ==
  ASSUME Shape, NEW w \in Workers, NEW from, enterThread(w, from)
  PROVE  /\ \E to \in {"resume", "run"} : at' = [v \in Workers |-> IF v = w THEN to ELSE at[v]]
         /\ thread' = [v \in Workers |-> IF v = w THEN NewThread[w] ELSE thread[v]]
         /\ NewThread' = [v \in Workers |-> IF v = w THEN NULL ELSE NewThread[v]]
BY DEF Shape, enterThread, goto

(* The context switch: the old thread is ready, the only one of its kernel.*)
LEMMA SwitchKeeps ==
  ASSUME TokenInv, NEW w \in Workers, program' = program, switchThread(w)
  PROVE  TokenInv'
<1> USE DEF LivePlaces, GonePlaces, ChosenPlaces
<1> DEFINE k0 == OldKernel[w]
<1>1. Shape /\ Local(w) /\ at[w] = "switch" /\ Sequential' = Sequential
  BY DEF TokenInv, switchThread, enterThread, goto, Sequential, Kernels, Body, ParallelExec
<1>2. UNCHANGED <<program, RunningKernel, OldKernel, SequentialKernelRunning>>
  BY DEF switchThread, status, context
<1>3. CASE thread[w] = NULL
  <2>1. enterThread(w, "switch") /\ UNCHANGED ReadyQueues
    BY <1>3 DEF switchThread
  <2>2. PICK to \in {"resume", "run"} : at' = [v \in Workers |-> IF v = w THEN to ELSE at[v]]
    BY <1>1, <1>2, <2>1, EnterIsRunning
  <2>3. /\ thread' = [v \in Workers |-> IF v = w THEN NewThread[w] ELSE thread[v]]
        /\ NewThread' = [v \in Workers |-> IF v = w THEN NULL ELSE NewThread[v]]
    BY <1>1, <1>2, <2>1, EnterIsRunning
  <2>4. Shape' /\ OthersStay(w)
    BY <1>1, <1>2, <2>1, <2>2, <2>3 DEF Shape, OthersStay, Kernels, Body
  <2>5. Local(w)'
    BY <1>1, <1>2, <2>2, <2>3 DEF Local, HoldsOld, Places
  <2>6. \A k \in Sequential : (Holds(w, k)' => Holds(w, k)) /\ (Live(w, k)' => Live(w, k))
    BY <1>1, <1>2, <2>2 DEF Holds, Live, HoldsRunning, HoldsOld
  <2>7. QED
    BY <1>2, <2>1, <2>4, <2>5, <2>6, TokensKept DEF TokenInv
<1>4. CASE thread[w] # NULL
  <2>1. PICK t : ReadyQueues' = [ReadyQueues EXCEPT ![k0] = Append(@, t)]
    BY <1>4 DEF switchThread
  <2>2. /\ at' = [v \in Workers |-> IF v = w THEN "release" ELSE at[v]]
        /\ ReadyQueues' = [k \in Kernels |->
                              IF k = k0 THEN Append(ReadyQueues[k], t) ELSE ReadyQueues[k]]
        /\ UNCHANGED <<thread, NewThread>>
    BY <1>1, <1>4, <2>1 DEF switchThread, goto, Shape
  <2>3. Shape' /\ OthersStay(w)
    BY <1>1, <1>2, <2>2 DEF Shape, OthersStay, Kernels, Body
  <2>4. RunningKernel[w] \in Sequential => RunningKernel[w] # k0
    BY <1>1, <1>4 DEF Local, HoldsOld
  <2>5. Local(w)'
    BY <1>1, <1>2, <2>2, <2>4 DEF Local, HoldsOld, Places
  <2>6. Holds(w, k0) /\ Live(w, k0)
    BY <1>1, <1>4 DEF Holds, Live, HoldsOld
  <2>7. ASSUME NEW k \in Sequential
        PROVE  /\ \A v \in Workers \ {w} : Holds(v, k) => ReadyQueues'[k] = ReadyQueues[k]
               /\ Holds(w, k)' => Holds(w, k)
               /\ Live(w, k)' => ReadyQueues'[k] = <<>>
               /\ Short(ReadyQueues'[k])
    <3>1. k \in Kernels
      BY DEF Sequential
    <3>2. k = k0 => ReadyQueues'[k] = <<t>>
      <4>1. k = k0 => ReadyQueues[k] = <<>>
        BY <2>6 DEF TokenInv
      <4>2. Append(<<>>, t) = <<t>>
        OBVIOUS
      <4>3. QED
        BY <2>2, <3>1, <4>1, <4>2
    <3>3. k # k0 => ReadyQueues'[k] = ReadyQueues[k]
      BY <2>2, <3>1
    <3>4. Holds(w, k)' => Holds(w, k)
      BY <1>1, <1>2, <1>4, <2>2 DEF Holds, HoldsRunning, HoldsOld
    <3>5. Live(w, k)' => k # k0 /\ Live(w, k)
      BY <1>1, <1>2, <2>2, <2>4 DEF Live
    <3>6. \A v \in Workers \ {w} : Holds(v, k) => k # k0
      BY <2>6 DEF TokenInv
    <3>7. QED
      BY <3>2, <3>3, <3>4, <3>5, <3>6 DEF TokenInv, Short
  <2>8. QED
    BY <1>2, <2>3, <2>5, <2>7, TokensKept DEF TokenInv
<1>5. QED
  BY <1>3, <1>4

(* ... and its kernel is let go.                                           *)
LEMMA ScheduleOutKeeps ==
  ASSUME TokenInv, NEW w \in Workers, program' = program, scheduleOut(w)
  PROVE  TokenInv'
<1> USE DEF LivePlaces, GonePlaces, ChosenPlaces
<1> DEFINE k0 == OldKernel[w]
<1>1. Shape /\ Local(w) /\ at[w] = "release" /\ Sequential' = Sequential
  BY DEF TokenInv, scheduleOut, enterThread, goto, Sequential, Kernels, Body, ParallelExec
<1>2. UNCHANGED <<program, RunningKernel, OldKernel, ReadyQueues>>
  BY DEF scheduleOut, context
<1>3. PICK to \in {"resume", "run"} : at' = [v \in Workers |-> IF v = w THEN to ELSE at[v]]
  BY <1>1, <1>2, EnterIsRunning DEF scheduleOut
<1>4. /\ thread' = [v \in Workers |-> IF v = w THEN NewThread[w] ELSE thread[v]]
      /\ NewThread' = [v \in Workers |-> IF v = w THEN NULL ELSE NewThread[v]]
  BY <1>1, <1>2, EnterIsRunning DEF scheduleOut
<1>5. /\ SequentialKernelRunning' \in [Kernels -> BOOLEAN]
      /\ \A k \in Sequential \ {k0} : SequentialKernelRunning'[k] = SequentialKernelRunning[k]
  BY <1>1 DEF scheduleOut, releaseKernel, Shape, Sequential
<1>6. Shape' /\ OthersStay(w)
  BY <1>1, <1>2, <1>3, <1>4, <1>5 DEF Shape, OthersStay, Kernels, Body
<1>7. Local(w)'
  BY <1>1, <1>2, <1>3, <1>4 DEF Local, HoldsOld, Places
<1>8. \A k \in Sequential :
        Holds(w, k)' \/ Live(w, k)' => k # k0 /\ Holds(w, k) /\ Live(w, k)
  BY <1>1, <1>2, <1>3 DEF Holds, Live, HoldsRunning, HoldsOld, Local
<1>9. \A k \in Sequential : \A v \in Workers \ {w} : Holds(v, k) => k # k0
  BY <1>1 DEF TokenInv, Holds, HoldsOld
<1>10. QED
  BY <1>2, <1>5, <1>6, <1>7, <1>8, <1>9, TokensKept DEF TokenInv

-----------------------------------------------------------------------------
(* No step breaks the tokens.                                              *)
LEMMA TokenStep == TokenInv /\ [Next]_vars => TokenInv'
<1> SUFFICES ASSUME TokenInv, [Next]_vars PROVE TokenInv'
  OBVIOUS
<1>1. ASSUME NEW w \in Workers, step(w) PROVE TokenInv'
  <2>1. program' = program
    BY <1>1 DEF step
  <2>2. CASE select(w)
    BY <2>1, <2>2, SelectNextKeeps, SearchKeeps, CasKeeps, TakeKeeps, SpawnKeeps,
       NoThreadKeeps, SwitchKeeps, ScheduleOutKeeps DEF select
  <2>3. QED
    BY <1>1, <2>1, <2>2, BodySteps, EndSteps DEF step
<1>2. CASE UNCHANGED vars
  BY <1>2 DEF vars, kernels, status, context, choice, TokenInv, Shape, Local, Holds, Live,
              HoldsRunning, HoldsOld, Sequential, Kernels, Body, ParallelExec
<1>3. QED
  BY <1>1, <1>2 DEF Next, finished

(* At any time at most one native thread has the token of a sequential     *)
(* kernel, and none is ready while one is running.                         *)
THEOREM TokensHold == Spec => []TokenInv
<1>1. QED
  BY TokenBegins, TokenStep, PTL DEF Spec

(* A sequential kernel never has two green threads.                        *)
LEMMA TokenMeansAlone == TokenInv => SequentialAlone
<1> USE DEF LivePlaces, GonePlaces, ChosenPlaces
<1> SUFFICES ASSUME TokenInv, NEW k \in Sequential PROVE threadsOf(k) <= 1
  BY DEF SequentialAlone, Sequential
<1> DEFINE R == { w \in Workers : runs(w, k) }
           S == { w \in Workers : NewThread[w] # NULL /\ RunningKernel[w] = k }
<1>1. ASSUME NEW w \in R PROVE Live(w, k) /\ w \notin S
  <2>1. Local(w) /\ w \in Workers /\ thread[w] # NULL
    BY <1>1 DEF TokenInv, runs
  <2>2. CASE at[w] \in ChosenPlaces /\ at[w] # "release"
    <3>1. OldKernel[w] = k
      BY <1>1, <2>2 DEF runs, selecting
    <3>2. Live(w, k)
      BY <2>1, <2>2, <3>1 DEF Live
    <3>3. RunningKernel[w] # k
      BY <2>1, <2>2, <3>1 DEF Local, HoldsOld
    <3>4. QED
      BY <3>2, <3>3
  <2>3. CASE at[w] \in {"search", "cas", "retry"}
    <3>1. RunningKernel[w] = k
      BY <1>1, <2>1, <2>3 DEF runs, selecting, Local
    <3>2. NewThread[w] = NULL
      BY <2>1, <2>3 DEF Local
    <3>3. QED
      BY <2>1, <2>3, <3>1, <3>2 DEF Live
  <2>4. CASE at[w] \in LivePlaces
    <3>1. RunningKernel[w] = k
      BY <1>1, <2>4 DEF runs, selecting
    <3>2. QED
      BY <2>1, <2>4, <3>1 DEF Live, Local
  <2>5. QED
    BY <1>1, <2>1, <2>2, <2>3, <2>4 DEF runs, Local, Places
<1>2. ASSUME NEW w \in S PROVE Live(w, k)
  <2>1. Local(w) /\ w \in Workers
    BY <1>2 DEF TokenInv
  <2>2. QED
    BY <1>2, <2>1 DEF Local, Live
<1>3. \A v, w \in R \cup S : v = w
  <2>1. \A w \in R \cup S : w \in Workers /\ Holds(w, k)
    BY <1>1, <1>2 DEF Live, Holds, HoldsRunning, HoldsOld
  <2>2. QED
    BY <2>1 DEF TokenInv
<1>4. R \cup S # {} => ReadyQueues[k] = <<>>
  BY <1>1, <1>2 DEF TokenInv
<1>5. Cardinality({}) = 0 /\ \A w : Cardinality({w}) = 1
  BY FS_EmptySet, FS_Singleton
<1>6. Len(ReadyQueues[k]) = 0 \/ Len(ReadyQueues[k]) = 1
  <2>1. CASE ReadyQueues[k] = <<>>
    BY <2>1
  <2>2. CASE ReadyQueues[k] # <<>>
    <3>1. Short(ReadyQueues[k])
      BY DEF TokenInv
    <3>2. PICK t : ReadyQueues[k] = <<t>>
      BY <2>2, <3>1 DEF Short
    <3>3. QED
      BY <3>2
  <2>3. QED
    BY <2>1, <2>2
<1>7. CASE R = {} /\ S = {}
  <2>1. Cardinality(R) = 0 /\ Cardinality(S) = 0
    BY <1>5, <1>7
  <2>2. threadsOf(k) = Len(ReadyQueues[k]) + Cardinality(R) + Cardinality(S)
    BY DEF threadsOf
  <2>3. CASE Len(ReadyQueues[k]) = 0
    BY <2>1, <2>2, <2>3
  <2>4. CASE Len(ReadyQueues[k]) = 1
    BY <2>1, <2>2, <2>4
  <2>5. QED
    BY <1>6, <2>3, <2>4
<1>8. CASE R # {}
  <2>1. PICK w : w \in R
    BY <1>8
  <2>2. R = {w} /\ S = {}
    <3>1. R = {w} /\ S \subseteq {w}
      BY <1>3, <2>1
    <3>2. w \notin S
      BY <1>1, <2>1
    <3>3. QED
      BY <3>1, <3>2
  <2>3. Cardinality(R) = 1 /\ Cardinality(S) = 0 /\ Len(ReadyQueues[k]) = 0
    BY <1>4, <1>5, <2>2
  <2>4. QED
    BY <2>3 DEF threadsOf
<1>9. CASE R = {} /\ S # {}
  <2>1. PICK w : S = {w}
    BY <1>3, <1>9
  <2>2. Cardinality(R) = 0 /\ Cardinality(S) = 1 /\ Len(ReadyQueues[k]) = 0
    BY <1>4, <1>5, <1>9, <2>1
  <2>3. QED
    BY <2>2 DEF threadsOf
<1>10. QED
  BY <1>7, <1>8, <1>9

(* A sequential kernel never has two green threads, whatever the programs  *)
(* and however many native threads run them.                               *)
THEOREM SequentialAloneHolds == Spec => []SequentialAlone
<1>1. QED
  BY TokensHold, TokenMeansAlone, PTL

-----------------------------------------------------------------------------
(* Types                                                                   *)

DataTyped ==
  /\ program \in Programs
  /\ ReservedHead \in [Queues -> 0 .. NumElm - 1]
  /\ ReservedTail \in [Queues -> 0 .. NumElm - 1]
  /\ IssuedTicket \in [Queues -> Nat]
  /\ ServingTicket \in [{"pop", "push"} -> [Queues -> Nat]]
  /\ isDeactivated \in [Queues -> BOOLEAN] /\ lost \in BOOLEAN
  /\ r_head \in [Workers -> 0 .. NumElm - 1]
  /\ left \in [Workers -> SUBSET Queues]

KernelsTyped ==
  /\ Ended \in [Kernels -> BOOLEAN]
  /\ Terminated \in [Kernels -> BOOLEAN] /\ Terminating \in [Kernels -> BOOLEAN]
  /\ SequentialKernelRunning \in [Kernels -> BOOLEAN]
  /\ ActiveNonFeedbackInputQueues \in [Kernels -> Int]
  /\ NumSpawnedThreads \in [Kernels -> Int]
  /\ ReadyQueues \in [Kernels -> Seq(GreenThreads)]

WorkersTyped ==
  /\ RunningKernel \in [Workers -> Kernels \cup {NULL}]
  /\ OldKernel \in [Workers -> Kernels \cup {NULL}]
  /\ Event \in [Workers -> Events]
  /\ QueueIndex \in [Workers -> Queues \cup {NULL}]
  /\ thread \in [Workers -> GreenThreads \cup {NULL}]
  /\ NewThread \in [Workers -> GreenThreads \cup {NULL}]
  /\ at \in [Workers -> Places]

SearchTyped ==
  /\ plan \in [Workers -> Seq(SUBSET Kernels)]
  /\ NextKernel \in [Workers -> Kernels \cup {NULL}]
  /\ candidate \in [Workers -> Kernels \cup {NULL}]

(* What a native thread knows to be there when it uses it.                 *)
QueuePlaces == {"failed", "recount", "drain", "drained", "ask"}

Known(w) ==
  /\ at[w] \in LivePlaces => thread[w] # NULL
  /\ at[w] \in {"switch", "release"} => NewThread[w] # NULL
  /\ HoldsRunning(w) => RunningKernel[w] \in Kernels
  /\ NewThread[w] # NULL => RunningKernel[w] \in Kernels
  /\ HoldsOld(w) => OldKernel[w] \in Kernels
  /\ at[w] = "cas" => candidate[w] \in Kernels
  /\ at[w] \in QueuePlaces => thread[w].next \in DOMAIN Body[RunningKernel[w]]
  /\ at[w] = "yield" \/ (at[w] \in GonePlaces \cup {"main", "deregister"} /\ NewThread[w] = NULL)
       => /\ Event[w] \in {"InputQueueIsEmpty", "OutputQueueIsFull"} => QueueIndex[w] \in Queues
          /\ at[w] # "yield" => Event[w] # "NotMyTurn"

TypeInv == 
  /\ DataTyped /\ KernelsTyped /\ WorkersTyped /\ SearchTyped
  /\ \A w \in Workers : Known(w)

LEMMA ProgramFacts ==
  ASSUME DataTyped
  PROVE  /\ StartKernels \subseteq Kernels /\ ParallelExec \subseteq Kernels
         /\ \A k \in Kernels : \A i \in DOMAIN Body[k] :
              /\ Body[k][i].num \in 1 .. (NumElm - 1)
              /\ Body[k][i].queue \in Queues
         /\ \A k \in Kernels : /\ Len(Body[k]) \in Nat
                               /\ DOMAIN Body[k] = 1 .. Len(Body[k])
         /\ \A q \in Queues : Producer(q) \in Kernels /\ Consumer(q) \in Kernels
         /\ IsFiniteSet(Queues)
BY ProgramAssumption DEF DataTyped, StartKernels, ParallelExec, Kernels, Queues, Body,
   Producer, Consumer

LEMMA NextDeviceType ==
  ASSUME DataTyped, NEW k
  PROVE  NextOnTheSameDevice(k) \in Kernels \cup {NULL}
BY ProgramFacts DEF NextOnTheSameDevice, lastQueue, OutQueueTable

(* In the beginning.                                                       *)
LEMMA TypesBegin == Init => TypeInv
<1> SUFFICES ASSUME Init PROVE TypeInv
  OBVIOUS
<1> USE SizeAssumption DEF Init
<1>1. DataTyped
  <2>1. program \in Programs /\ 0 \in 0 .. NumElm - 1 /\ 0 \in Nat
    OBVIOUS
  <2>2. /\ ReservedHead \in [Queues -> 0 .. NumElm - 1]
        /\ ReservedTail \in [Queues -> 0 .. NumElm - 1]
        /\ IssuedTicket \in [Queues -> Nat]
        /\ ServingTicket \in [{"pop", "push"} -> [Queues -> Nat]]
        /\ r_head \in [Workers -> 0 .. NumElm - 1]
    BY <2>1
  <2>3. isDeactivated \in [Queues -> BOOLEAN] /\ lost \in BOOLEAN
    OBVIOUS
  <2>4. left \in [Workers -> SUBSET Queues]
    OBVIOUS
  <2>5. QED
    BY <2>1, <2>2, <2>3, <2>4 DEF DataTyped
<1>2. \A k \in Kernels : Cardinality(Inputs(k)) \in Int
  <2> SUFFICES ASSUME NEW k \in Kernels PROVE Cardinality(Inputs(k)) \in Int
    OBVIOUS
  <2>1. Inputs(k) \subseteq Queues /\ IsFiniteSet(Queues)
    BY <1>1, ProgramFacts DEF Inputs
  <2>2. IsFiniteSet(Inputs(k))
    BY <2>1, FS_Subset
  <2>3. QED
    BY <2>2, FS_CardinalityType
<1>3. KernelsTyped
  BY <1>2 DEF KernelsTyped
<1>4. WorkersTyped
  BY DEF WorkersTyped, Places, Events
<1>5. SearchTyped
  BY DEF SearchTyped
<1>6. ASSUME NEW w \in Workers PROVE Known(w)
  BY DEF Known, HoldsRunning, HoldsOld, LivePlaces, GonePlaces, ChosenPlaces, QueuePlaces
<1>7. QED
  BY <1>1, <1>3, <1>4, <1>5, <1>6 DEF TypeInv

-----------------------------------------------------------------------------
(* What a native thread uses is there: its green thread, the operation it  *)
(* is at, and the queue of that operation.                                 *)
AtOperation(w) ==
  \/ at[w] \in QueuePlaces
  \/ at[w] = "run" /\ thread[w].next <= Len(Body[RunningKernel[w]])

LEMMA LiveThread ==
  ASSUME TypeInv, NEW w \in Workers, at[w] \in LivePlaces
  PROVE  /\ thread[w] \in GreenThreads
         /\ RunningKernel[w] \in Kernels
BY DEF TypeInv, WorkersTyped, Known, HoldsRunning

LEMMA OperationTyped ==
  ASSUME TypeInv, NEW w \in Workers, AtOperation(w)
  PROVE  /\ thread[w].next \in DOMAIN Body[RunningKernel[w]]
         /\ queueOf(w) \in Queues
         /\ operationOf(w).num \in 1 .. (NumElm - 1)
         /\ NumRepeat(w) \in 1 .. (NumElm - 1)
<1>1. at[w] \in LivePlaces /\ Known(w) /\ DataTyped
  BY DEF AtOperation, LivePlaces, QueuePlaces, TypeInv
<1>2. thread[w] \in GreenThreads /\ RunningKernel[w] \in Kernels
  BY <1>1, LiveThread
<1>3. thread[w].next \in Nat \ {0} /\ thread[w].repeat \in 0 .. (NumElm - 1)
  BY <1>2 DEF GreenThreads
<1>4. thread[w].next \in DOMAIN Body[RunningKernel[w]]
  BY <1>1, <1>2, <1>3, ProgramFacts DEF AtOperation, Known
<1>5. QED
  BY <1>1, <1>2, <1>3, <1>4, ProgramFacts, SizeAssumption DEF operationOf, queueOf, NumRepeat

LEMMA AdvanceTyped ==
  ASSUME TypeInv, NEW w \in Workers, at[w] \in LivePlaces, NEW t \in Nat, advanceThread(w, t)
  PROVE  /\ thread' \in [Workers -> GreenThreads \cup {NULL}]
         /\ thread'[w] \in GreenThreads
<1>1. thread[w] \in GreenThreads /\ thread \in [Workers -> GreenThreads \cup {NULL}]
  BY LiveThread DEF TypeInv, WorkersTyped
<1> DEFINE x == [next |-> thread[w].next + 1, repeat |-> 0, ticket |-> t,
                 mayReplace |-> thread[w].mayReplace]
<1>2. x \in GreenThreads
  <2>1. thread[w].next + 1 \in Nat \ {0} /\ 0 \in 0 .. NumElm - 1
    BY <1>1, SizeAssumption DEF GreenThreads
  <2>2. thread[w].mayReplace \in BOOLEAN
    BY <1>1 DEF GreenThreads
  <2>3. QED
    BY <2>1, <2>2 DEF GreenThreads
<1>3. thread' = [v \in Workers |-> thread'[v]] /\ \A v \in Workers \ {w} : thread'[v] = thread[v]
  BY <1>1 DEF advanceThread
<1>4. thread'[w] = x
  BY <1>1 DEF advanceThread, GreenThreads
<1>5. QED
  BY <1>1, <1>2, <1>3, <1>4
-----------------------------------------------------------------------------
LEMMA DataKept ==
  ASSUME TypeInv, NEW w \in Workers, step(w)
  PROVE  DataTyped'
<1> USE DEF status, kernels, queues, tickets, locals
<1>1. program' = program /\ Queues' = Queues /\ DataTyped
  BY DEF step, Queues, TypeInv
<1>2. SUFFICES ASSUME ~UNCHANGED <<queues, isDeactivated, locals>> PROVE DataTyped'
  BY <1>1 DEF DataTyped
<1>3. CASE at[w] = "run" /\ thread[w].next <= Len(Body[RunningKernel[w]]) /\ (push(w) \/ pop(w))
  <2> DEFINE q == queueOf(w)
             n == operationOf(w).num
             r == NumRepeat(w)
  <2>1. q \in Queues /\ n \in 0 .. (NumElm - 1) /\ r \in 0 .. (NumElm - 1)
    BY <1>3, OperationTyped DEF AtOperation
  <2>2. /\ advance(NumElm, ReservedTail[q], n) \in 0 .. (NumElm - 1)
        /\ advance(NumElm, ReservedHead[q], r) \in 0 .. (NumElm - 1)
    BY <1>1, <2>1, SizeAssumption, AdvanceInRing DEF DataTyped
  <2>3. /\ ReservedTail' = ReservedTail
           \/ ReservedTail' = [ReservedTail EXCEPT ![q] = advance(NumElm, ReservedTail[q], n)]
        /\ ReservedHead' = ReservedHead
           \/ ReservedHead' = [ReservedHead EXCEPT ![q] = advance(NumElm, ReservedHead[q], r)]
    BY <1>3 DEF push, pop
  <2>4. /\ UNCHANGED ServingTicket \/ serveTurn(w)
        /\ UNCHANGED IssuedTicket \/ IssuedTicket' = [IssuedTicket EXCEPT ![q] = @ + 1]
        /\ operationOf(w).op \in {"pop", "push"}
    BY <1>3 DEF push, pop
  <2>5. UNCHANGED <<isDeactivated, lost, locals>>
    BY <1>3 DEF push, pop
  <2>6. ReservedHead' \in [Queues -> 0 .. NumElm - 1] /\ ReservedTail' \in [Queues -> 0 .. NumElm - 1]
    BY <1>1, <2>1, <2>2, <2>3 DEF DataTyped
  <2>7. IssuedTicket' \in [Queues -> Nat]
    BY <1>1, <2>1, <2>4 DEF DataTyped
  <2>8. ServingTicket' \in [{"pop", "push"} -> [Queues -> Nat]]
    <3>1. CASE serveTurn(w)
      <4> DEFINE o == operationOf(w).op
      <4>1. ServingTicket \in [{"pop", "push"} -> [Queues -> Nat]] /\ o \in {"pop", "push"}
        BY <1>1, <2>4 DEF DataTyped
      <4>2. \E s \in {0, 1} : ServingTicket' =
              [ServingTicket EXCEPT ![o] = [@ EXCEPT ![q] = ServingTicket[o][q] + s]]
        <5>1. ServingTicket[o][q] + 0 = ServingTicket[o][q]
          BY <2>1, <4>1
        <5>2. QED
          BY <3>1, <5>1 DEF serveTurn
      <4>3. PICK s \in {0, 1} : ServingTicket' =
              [ServingTicket EXCEPT ![o] = [@ EXCEPT ![q] = ServingTicket[o][q] + s]]
        BY <4>2
      <4>4. [ServingTicket[o] EXCEPT ![q] = ServingTicket[o][q] + s] \in [Queues -> Nat]
        BY <2>1, <4>1
      <4>5. QED
        BY <4>1, <4>3, <4>4
    <3>2. QED
      BY <1>1, <2>4, <3>1 DEF DataTyped
  <2>9. QED
    BY <1>1, <2>5, <2>6, <2>7, <2>8 DEF DataTyped
<1>4. CASE readReservedHead(w) \/ drain(w)
  <2>1. queueOf(w) \in Queues
    BY <1>4, OperationTyped DEF readReservedHead, drain, goto, AtOperation, QueuePlaces
  <2>2. CASE readReservedHead(w)
    BY <1>1, <2>1, <2>2 DEF readReservedHead, DataTyped
  <2>3. CASE drain(w)
    <3>1. lost' \in BOOLEAN
      BY <2>3 DEF drain
    <3>2. 0 \in 0 .. (NumElm - 1)
      BY SizeAssumption
    <3>3. QED
      BY <1>1, <2>1, <2>3, <3>1, <3>2 DEF drain, DataTyped
  <2>4. QED
    BY <1>4, <2>2, <2>3
<1>5. CASE terminateKernel(w)
  <2>1. OutQueueTable(RunningKernel[w]) \subseteq Queues
    BY DEF OutQueueTable
  <2>2. QED
    BY <1>1, <1>5, <2>1 DEF terminateKernel, DataTyped
<1>6. CASE deactivateQueue(w)
  BY <1>1, <1>6 DEF deactivateQueue, DataTyped
<1>7. CASE decrementActive(w)
  BY <1>1, <1>7 DEF decrementActive, DataTyped
<1>8. CASE select(w)
  BY <1>2, <1>8 DEF select, selectNext, trySchedule, casSequentialKernelRunning, walkOn, noKernel,
     takeReady, checkTerminating, spawn, noThread, switchThread, scheduleOut
<1>9. QED
  <2>1. ASSUME runBody(w), ~readReservedHead(w), ~drain(w),
               ~(at[w] = "run" /\ thread[w].next <= Len(Body[RunningKernel[w]])
                 /\ (push(w) \/ pop(w)))
        PROVE FALSE
    BY <1>2, <2>1 DEF runBody, resume, bodyEnds, checkDeactivated, reduceRepeat,
       checkTermination, acknowledgeCanTerminate
  <2>2. ASSUME endBody(w), ~terminateKernel(w), ~deactivateQueue(w), ~decrementActive(w)
        PROVE FALSE
    BY <1>2, <2>2 DEF endBody, replaceThread, endKernel, leaveKernel, repeatBody,
       deregisterThread, leave
  <2>3. QED
    BY <1>3, <1>4, <1>5, <1>6, <1>7, <1>8, <2>1, <2>2 DEF step

-----------------------------------------------------------------------------
(* The ready queue of a kernel gives and takes green threads.              *)
LEMMA ReadyTyped ==
  ASSUME NEW ready \in Seq(GreenThreads)
  PROVE  /\ ready # <<>> => Head(ready) \in GreenThreads /\ Tail(ready) \in Seq(GreenThreads)
         /\ \A t \in GreenThreads : Append(ready, t) \in Seq(GreenThreads)
OBVIOUS

LEMMA NewIsThread == NewGreenThread \in GreenThreads
BY SizeAssumption DEF NewGreenThread, GreenThreads

LEMMA KernelsKept ==
  ASSUME TypeInv, NEW w \in Workers, step(w)
  PROVE  KernelsTyped'
<1> USE DEF status, kernels
<1> DEFINE k0 == RunningKernel[w]
<1>1. program' = program /\ Kernels' = Kernels /\ KernelsTyped
  BY DEF step, Kernels, Body, TypeInv
<1>2. SUFFICES ASSUME ~UNCHANGED <<Ended, ActiveNonFeedbackInputQueues, status, ReadyQueues>>
               PROVE KernelsTyped'
  BY <1>1 DEF KernelsTyped
<1>3. ASSUME NEW k, releaseKernel(k)
      PROVE  SequentialKernelRunning' \in [Kernels -> BOOLEAN]
  BY <1>1, <1>3 DEF releaseKernel, KernelsTyped
<1>4. CASE casSequentialKernelRunning(w)
  BY <1>1, <1>4 DEF casSequentialKernelRunning, KernelsTyped
<1>5. CASE takeReady(w)
  <2>1. at[w] = "take" /\ k0 \in Kernels
    BY <1>5 DEF takeReady, TypeInv, Known, HoldsRunning, ChosenPlaces
  <2>2. ReadyQueues[k0] \in Seq(GreenThreads)
    BY <1>1, <2>1 DEF KernelsTyped
  <2>3. ReadyQueues[k0] # <<>> => Tail(ReadyQueues[k0]) \in Seq(GreenThreads)
    BY <2>2, ReadyTyped
  <2>4. QED
    BY <1>1, <1>5, <2>3 DEF takeReady, KernelsTyped
<1>6. CASE spawn(w) \/ deregisterThread(w)
  BY <1>1, <1>6 DEF spawn, deregisterThread, KernelsTyped
<1>7. CASE noThread(w) \/ scheduleOut(w) \/ leave(w)
  BY <1>1, <1>3, <1>7 DEF noThread, scheduleOut, leave, KernelsTyped
<1>8. CASE switchThread(w)
  <2> DEFINE o == OldKernel[w]
  <2>1. thread[w] # NULL
    BY <1>2, <1>8 DEF switchThread
  <2>2. o \in Kernels /\ thread[w] \in GreenThreads
    BY <1>8, <2>1 DEF switchThread, enterThread, goto, TypeInv, Known, HoldsOld, ChosenPlaces,
       WorkersTyped
  <2>3. [thread[w] EXCEPT !.mayReplace = TRUE] \in GreenThreads
    BY <2>2 DEF GreenThreads
  <2>4. ReadyQueues[o] \in Seq(GreenThreads)
    BY <1>1, <2>2 DEF KernelsTyped
  <2>5. Append(ReadyQueues[o], [thread[w] EXCEPT !.mayReplace = TRUE]) \in Seq(GreenThreads)
    BY <2>3, <2>4, ReadyTyped
  <2>6. ReadyQueues' =
          [ReadyQueues EXCEPT ![o] = Append(ReadyQueues[o], [thread[w] EXCEPT !.mayReplace = TRUE])]
    BY <1>8, <2>1 DEF switchThread
  <2>7. ReadyQueues' \in [Kernels -> Seq(GreenThreads)]
    BY <1>1, <2>2, <2>5, <2>6 DEF KernelsTyped
  <2>8. QED
    BY <1>1, <1>8, <2>7 DEF switchThread, KernelsTyped
<1>9. CASE checkTermination(w) \/ acknowledgeCanTerminate(w) \/ endKernel(w) \/ terminateKernel(w)
  BY <1>1, <1>9 DEF checkTermination, acknowledgeCanTerminate, endKernel, terminateKernel,
     KernelsTyped
<1>10. CASE replaceThread(w)
  <2>1. at[w] = "end" /\ ReadyQueues[k0] # <<>>
    BY <1>2, <1>10 DEF replaceThread
  <2>2. k0 \in Kernels
    BY <2>1, LiveThread DEF LivePlaces
  <2>3. ReadyQueues[k0] \in Seq(GreenThreads)
    BY <1>1, <2>2 DEF KernelsTyped
  <2>4. Tail(ReadyQueues[k0]) \in Seq(GreenThreads)
    BY <2>1, <2>3, ReadyTyped
  <2>5. QED
    BY <1>1, <1>2, <1>10, <2>2, <2>4 DEF replaceThread, KernelsTyped
<1>11. CASE decrementActive(w)
  <2>1. PICK q \in firstQueue(left[w]) :
          ActiveNonFeedbackInputQueues' =
             [ActiveNonFeedbackInputQueues EXCEPT ![Consumer(q)] =
                IF isFeedbackQueue(q) THEN @ ELSE @ - 1]
    BY <1>11 DEF decrementActive
  <2>2. q \in Queues
    BY DEF firstQueue, TypeInv, DataTyped
  <2>3. Consumer(q) \in Kernels
    BY <2>2, ProgramFacts DEF TypeInv
  <2>4. ActiveNonFeedbackInputQueues' \in [Kernels -> Int]
    BY <1>1, <2>1, <2>3 DEF KernelsTyped
  <2>5. QED
    BY <1>1, <1>11, <2>4 DEF decrementActive, KernelsTyped
<1>12. QED
  <2>1. ASSUME selectNext(w) \/ (\E k \in Kernels : trySchedule(w, k)) \/ walkOn(w) \/ noKernel(w)
               \/ checkTerminating(w)
        PROVE FALSE
    BY <1>2, <2>1 DEF selectNext, trySchedule, walkOn, noKernel, checkTerminating
  <2>2. ASSUME runBody(w), ~checkTermination(w), ~acknowledgeCanTerminate(w)
        PROVE FALSE
    BY <1>2, <2>2 DEF runBody, resume, bodyEnds, push, pop, checkDeactivated, reduceRepeat,
       readReservedHead, drain
  <2>3. ASSUME leaveKernel(w) \/ repeatBody(w) \/ deactivateQueue(w)
        PROVE FALSE
    BY <1>2, <2>3 DEF leaveKernel, repeatBody, deactivateQueue
  <2>4. QED
    BY <1>4, <1>5, <1>6, <1>7, <1>8, <1>9, <1>10, <1>11, <2>1, <2>2, <2>3
       DEF step, select, endBody

-----------------------------------------------------------------------------
(* In its body a green thread stays a green thread.                        *)
LEMMA BodyThread ==
  ASSUME TypeInv, NEW w \in Workers, runBody(w)
  PROVE  thread' \in [Workers -> GreenThreads \cup {NULL}] /\ thread'[w] \in GreenThreads
<1>1. at[w] \in LivePlaces
  BY DEF runBody, resume, bodyEnds, checkDeactivated, reduceRepeat, readReservedHead, drain,
     checkTermination, acknowledgeCanTerminate, goto, LivePlaces
<1>2. thread \in [Workers -> GreenThreads \cup {NULL}] /\ thread[w] \in GreenThreads
  BY <1>1, LiveThread DEF TypeInv, WorkersTyped
<1>3. SUFFICES ASSUME ~UNCHANGED thread
               PROVE  thread' \in [Workers -> GreenThreads \cup {NULL}]
                      /\ thread'[w] \in GreenThreads
  BY <1>2
<1>4. CASE resume(w)
  <2>1. advanceThread(w, thread[w].ticket)
    BY <1>3, <1>4 DEF resume
  <2>2. thread[w].ticket \in Nat
    BY <1>2 DEF GreenThreads
  <2>3. QED
    BY <1>1, <2>1, <2>2, AdvanceTyped
<1>5. CASE at[w] = "run" /\ thread[w].next <= Len(Body[RunningKernel[w]]) /\ (push(w) \/ pop(w))
  <2>1. PICK t : t \in {thread[w].ticket, IssuedTicket[queueOf(w)]} /\ advanceThread(w, t)
    BY <1>3, <1>5 DEF push, pop
  <2>2. queueOf(w) \in Queues
    BY <1>5, OperationTyped DEF AtOperation
  <2>3. t \in Nat
    BY <1>2, <2>1, <2>2 DEF GreenThreads, TypeInv, DataTyped
  <2>4. QED
    BY <1>1, <2>1, <2>3, AdvanceTyped
<1>6. CASE reduceRepeat(w)
  <2> DEFINE n == IF numElement(queueOf(w)) < NumRepeat(w) THEN numElement(queueOf(w))
                  ELSE NumRepeat(w)
  <2>1. thread' = [thread EXCEPT ![w].repeat = n] /\ at[w] = "recount"
    BY <1>3, <1>6 DEF reduceRepeat
  <2>2. queueOf(w) \in Queues /\ NumRepeat(w) \in 0 .. (NumElm - 1)
    BY <2>1, OperationTyped DEF AtOperation, QueuePlaces
  <2>3. numElement(queueOf(w)) \in 0 .. (NumElm - 1)
    BY <2>2, DistType, SizeAssumption DEF numElement, TypeInv, DataTyped
  <2>4. n \in 0 .. (NumElm - 1)
    BY <2>2, <2>3
  <2> HIDE DEF n
  <2>5. [thread[w] EXCEPT !.repeat = n] \in GreenThreads
    BY <1>2, <2>4 DEF GreenThreads
  <2>6. thread' = [thread EXCEPT ![w] = [thread[w] EXCEPT !.repeat = n]]
    BY <2>1
  <2>7. QED
    BY <1>2, <2>5, <2>6
<1>7. QED
  BY <1>3, <1>4, <1>5, <1>6 DEF runBody, bodyEnds, checkDeactivated, readReservedHead, drain,
     checkTermination, acknowledgeCanTerminate

LEMMA ThreadsTyped ==
  ASSUME TypeInv, NEW w \in Workers, step(w)
  PROVE  /\ thread' \in [Workers -> GreenThreads \cup {NULL}]
         /\ NewThread' \in [Workers -> GreenThreads \cup {NULL}]
<1> DEFINE k0 == RunningKernel[w]
<1> USE DEF choice
<1>1. /\ thread \in [Workers -> GreenThreads \cup {NULL}]
      /\ NewThread \in [Workers -> GreenThreads \cup {NULL}]
      /\ ReadyQueues \in [Kernels -> Seq(GreenThreads)]
  BY DEF TypeInv, WorkersTyped, KernelsTyped
<1>2. SUFFICES ASSUME ~UNCHANGED <<thread, NewThread>>
               PROVE  /\ thread' \in [Workers -> GreenThreads \cup {NULL}]
                      /\ NewThread' \in [Workers -> GreenThreads \cup {NULL}]
  BY <1>1
<1>3. CASE takeReady(w) \/ replaceThread(w)
  <2>1. ReadyQueues[k0] # <<>> /\ NewThread' = [NewThread EXCEPT ![w] = Head(ReadyQueues[k0])]
        /\ UNCHANGED thread /\ at[w] \in {"take", "end"}
    BY <1>2, <1>3 DEF takeReady, replaceThread
  <2>2. k0 \in Kernels
    BY <2>1 DEF TypeInv, Known, HoldsRunning, ChosenPlaces, LivePlaces
  <2>3. ReadyQueues[k0] \in Seq(GreenThreads)
    BY <1>1, <2>2
  <2>4. Head(ReadyQueues[k0]) \in GreenThreads
    BY <2>1, <2>3, ReadyTyped
  <2>5. QED
    BY <1>1, <2>1, <2>4
<1>4. CASE spawn(w)
  BY <1>1, <1>4, NewIsThread DEF spawn
<1>5. ASSUME NEW from, enterThread(w, from)
      PROVE  /\ thread' \in [Workers -> GreenThreads \cup {NULL}]
             /\ NewThread' \in [Workers -> GreenThreads \cup {NULL}]
  BY <1>1, <1>5 DEF enterThread
<1>6. CASE switchThread(w) \/ scheduleOut(w)
  BY <1>2, <1>5, <1>6 DEF switchThread, scheduleOut
<1>7. CASE runBody(w)
  <2>1. UNCHANGED NewThread
    BY <1>7 DEF runBody, resume, bodyEnds, push, pop, checkDeactivated, reduceRepeat,
       readReservedHead, drain, checkTermination, acknowledgeCanTerminate
  <2>2. QED
    BY <1>1, <1>7, <2>1, BodyThread
<1>8. CASE repeatBody(w)
  BY <1>1, <1>8, NewIsThread DEF repeatBody
<1>9. CASE leave(w)
  BY <1>1, <1>9 DEF leave
<1>10. QED
  <2>1. ASSUME selectNext(w) \/ (\E k \in Kernels : trySchedule(w, k)) \/ walkOn(w) \/ noKernel(w)
               \/ checkTerminating(w) \/ noThread(w) \/ casSequentialKernelRunning(w)
        PROVE FALSE
    BY <1>2, <2>1 DEF selectNext, trySchedule, walkOn, noKernel, checkTerminating, noThread,
       casSequentialKernelRunning
  <2>2. ASSUME endKernel(w) \/ leaveKernel(w) \/ deregisterThread(w) \/ terminateKernel(w)
               \/ deactivateQueue(w) \/ decrementActive(w)
        PROVE FALSE
    BY <1>2, <2>2 DEF endKernel, leaveKernel, deregisterThread, terminateKernel, deactivateQueue,
       decrementActive
  <2>3. QED
    BY <1>3, <1>4, <1>6, <1>7, <1>8, <1>9, <2>1, <2>2
       DEF step, select, endBody

-----------------------------------------------------------------------------
LEMMA WorkersKept ==
  ASSUME TypeInv, TokenInv', NEW w \in Workers, step(w)
  PROVE  WorkersTyped'
<1> USE DEF context
<1>1. /\ program' = program /\ Kernels' = Kernels /\ Queues' = Queues
      /\ WorkersTyped /\ SearchTyped
  BY DEF step, Kernels, Queues, Body, TypeInv
<1>2. thread' \in [Workers -> GreenThreads \cup {NULL}]
      /\ NewThread' \in [Workers -> GreenThreads \cup {NULL}]
  BY ThreadsTyped
<1>3. at' \in [Workers -> Places]
  BY DEF TokenInv, Shape, Local
<1>4. RunningKernel' \in [Workers -> Kernels \cup {NULL}]
  <2>1. UNCHANGED RunningKernel \/ \E k \in Kernels \cup {NULL} :
          RunningKernel' = [RunningKernel EXCEPT ![w] = k]
    <3>1. CASE select(w)
      BY <1>1, <3>1 DEF select, selectNext, trySchedule, passKernel, pickParallel, pickSequential,
         walkOn, noKernel, takeReady, checkTerminating, spawn, noThread, switchThread, scheduleOut,
         casSequentialKernelRunning, chosen, WorkersTyped, SearchTyped
    <3>2. CASE runBody(w)
      BY <3>2 DEF runBody, resume, bodyEnds, push, pop, checkDeactivated, reduceRepeat,
       readReservedHead, drain, checkTermination, acknowledgeCanTerminate
    <3>3. CASE endBody(w)
      BY <3>3 DEF endBody, replaceThread, endKernel, leaveKernel, repeatBody, deregisterThread,
         terminateKernel, deactivateQueue, decrementActive, leave
    <3>4. QED
      BY <3>1, <3>2, <3>3 DEF step
  <2>2. QED
    BY <1>1, <2>1 DEF WorkersTyped
<1>5. OldKernel' \in [Workers -> Kernels \cup {NULL}]
  <2>1. UNCHANGED OldKernel \/ OldKernel' = [OldKernel EXCEPT ![w] = RunningKernel[w]]
    <3>1. CASE select(w)
      BY <3>1 DEF select, selectNext, trySchedule, walkOn, noKernel, takeReady, checkTerminating,
         spawn, noThread, switchThread, scheduleOut, casSequentialKernelRunning
    <3>2. CASE runBody(w)
      BY <3>2 DEF runBody, resume, bodyEnds, push, pop, checkDeactivated, reduceRepeat,
       readReservedHead, drain, checkTermination, acknowledgeCanTerminate
    <3>3. CASE endBody(w)
      BY <3>3 DEF endBody, replaceThread, endKernel, leaveKernel, repeatBody, deregisterThread,
         terminateKernel, deactivateQueue, decrementActive, leave
    <3>4. QED
      BY <3>1, <3>2, <3>3 DEF step
  <2>2. QED
    BY <1>1, <2>1 DEF WorkersTyped
<1>6. Event' \in [Workers -> Events] /\ QueueIndex' \in [Workers -> Queues \cup {NULL}]
  <2>1. \/ UNCHANGED <<Event, QueueIndex>>
        \/ /\ at[w] = "run" /\ thread[w].next <= Len(Body[RunningKernel[w]])
           /\ push(w) \/ pop(w)
        \/ checkTermination(w) \/ endKernel(w) \/ leaveKernel(w)
    <3>1. CASE select(w)
      BY <3>1 DEF select, selectNext, trySchedule, walkOn, noKernel, takeReady, checkTerminating,
         spawn, noThread, switchThread, scheduleOut, casSequentialKernelRunning
    <3>2. CASE runBody(w)
      BY <3>2 DEF runBody, resume, bodyEnds, checkDeactivated, reduceRepeat,
       readReservedHead, drain, acknowledgeCanTerminate
    <3>3. CASE endBody(w)
      BY <3>3 DEF endBody, replaceThread, repeatBody, deregisterThread,
         terminateKernel, deactivateQueue, decrementActive, leave
    <3>4. QED
      BY <3>1, <3>2, <3>3 DEF step
  <2>2. CASE UNCHANGED <<Event, QueueIndex>>
    BY <1>1, <2>2 DEF WorkersTyped
  <2>3. CASE /\ at[w] = "run" /\ thread[w].next <= Len(Body[RunningKernel[w]])
             /\ push(w) \/ pop(w)
    <3>1. queueOf(w) \in Queues
      BY <2>3, OperationTyped DEF AtOperation
    <3>2. \/ UNCHANGED <<Event, QueueIndex>>
          \/ /\ \E e \in {"NotMyTurn", "OutputQueueIsFull"} : Event' = [Event EXCEPT ![w] = e]
             /\ QueueIndex' = [QueueIndex EXCEPT ![w] = queueOf(w)]
      BY <2>3 DEF push, pop
    <3>3. QED
      BY <1>1, <3>1, <3>2 DEF WorkersTyped, Events
  <2>4. CASE checkTermination(w)
    <3>1. queueOf(w) \in Queues
      BY <2>4, OperationTyped DEF checkTermination, AtOperation, QueuePlaces
    <3>2. QED
      BY <1>1, <2>4, <3>1 DEF checkTermination, WorkersTyped, Events
  <2>5. CASE endKernel(w)
    BY <1>1, <2>5 DEF endKernel, WorkersTyped, Events
  <2>6. CASE leaveKernel(w)
    <3>1. RunningKernel[w] \in Kernels
      BY <2>6, LiveThread DEF leaveKernel, goto, LivePlaces
    <3>2. \A i \in DOMAIN Body[RunningKernel[w]] : Body[RunningKernel[w]][i].queue \in Queues
      BY <3>1, ProgramFacts DEF TypeInv
    <3>3. /\ \E e \in Events : Event' = [Event EXCEPT ![w] = e]
          /\ \E q \in Queues \cup {NULL} : QueueIndex' = [QueueIndex EXCEPT ![w] = q]
      BY <2>6, <3>2 DEF leaveKernel, Events
    <3>4. QED
      BY <1>1, <3>3 DEF WorkersTyped
  <2>7. QED
    BY <2>1, <2>2, <2>3, <2>4, <2>5, <2>6
<1>7. QED
  BY <1>1, <1>2, <1>3, <1>4, <1>5, <1>6 DEF WorkersTyped

(* The groups of kernels that are tried.                                   *)
LEMMA FirstTryTyped ==
  ASSUME TypeInv, TokenInv, NEW w \in Workers, at[w] \in {"main", "yield", "retry"},
         NewThread[w] = NULL, ~keepGoing(w)
  PROVE  firstTry(w) \in Seq(SUBSET Kernels) /\ exhaustiveSearch \in Seq(SUBSET Kernels)
<1>1. Known(w) /\ Local(w) /\ Event[w] \in Events /\ DataTyped
  BY DEF TypeInv, TokenInv, WorkersTyped
<1>2. \A S \in SUBSET Kernels : <<S>> \in Seq(SUBSET Kernels)
  OBVIOUS
<1>3. exhaustiveSearch \in Seq(SUBSET Kernels) /\ <<>> \in Seq(SUBSET Kernels)
  BY DEF exhaustiveSearch
<1>4. CASE at[w] = "retry"
  BY <1>3, <1>4 DEF firstTry
<1>5. CASE at[w] # "retry" /\ starts(w)
  <2>1. StartKernels \subseteq Kernels
    BY <1>1, ProgramFacts
  <2>2. firstTry(w) = <<StartKernels>>
    BY <1>5 DEF firstTry, starts
  <2>3. QED
    BY <1>2, <1>3, <2>1, <2>2
<1>6. CASE at[w] # "retry" /\ ~starts(w) /\ Event[w] \in {"InputQueueIsEmpty", "OutputQueueIsFull"}
  <2>1. QueueIndex[w] \in Queues
    BY <1>1, <1>6 DEF Known
  <2>2. {Producer(QueueIndex[w])} \in SUBSET Kernels /\ {Consumer(QueueIndex[w])} \in SUBSET Kernels
    BY <1>1, <2>1, ProgramFacts
  <2>3. firstTry(w) \in {<<{Producer(QueueIndex[w])}>>, <<{Consumer(QueueIndex[w])}>>}
    BY <1>6 DEF firstTry, starts
  <2>4. QED
    BY <1>2, <1>3, <2>2, <2>3
<1>7. CASE at[w] # "retry" /\ ~starts(w) /\ Event[w] = "NotMyTurn"
  <2>1. at[w] = "yield"
    BY <1>1, <1>7 DEF Known
  <2>2. {RunningKernel[w]} \in SUBSET Kernels
    BY <2>1, LiveThread DEF LivePlaces
  <2>3. firstTry(w) = <<{RunningKernel[w]}>>
    BY <1>7 DEF firstTry, starts
  <2>4. QED
    BY <1>2, <1>3, <2>2, <2>3
<1>8. CASE at[w] # "retry" /\ ~starts(w)
           /\ Event[w] \notin {"InputQueueIsEmpty", "OutputQueueIsFull", "NotMyTurn"}
  BY <1>3, <1>8 DEF firstTry, starts
<1>9. QED
  BY <1>4, <1>5, <1>6, <1>7, <1>8

LEMMA RestTyped ==
  ASSUME NEW S, NEW p \in Seq(SUBSET S), p # <<>>, NEW k
  PROVE  Tail(p) \in Seq(SUBSET S) /\ [p EXCEPT ![1] = @ \ {k}] \in Seq(SUBSET S)
<1>1. Tail(p) \in Seq(SUBSET S)
  OBVIOUS
<1>2. p[1] \subseteq S /\ Len(p) \in Nat /\ DOMAIN p = 1 .. Len(p)
  OBVIOUS
<1>3. [p EXCEPT ![1] = @ \ {k}] = [i \in 1 .. Len(p) |-> IF i = 1 THEN p[1] \ {k} ELSE p[i]]
  BY <1>2
<1>4. [i \in 1 .. Len(p) |-> IF i = 1 THEN p[1] \ {k} ELSE p[i]] \in [1 .. Len(p) -> SUBSET S]
  BY <1>2
<1>5. QED
  BY <1>1, <1>2, <1>3, <1>4

LEMMA SearchKept ==
  ASSUME TypeInv, TokenInv, NEW w \in Workers, step(w)
  PROVE  SearchTyped'
<1> USE DEF search, choice, chosen
<1>1. /\ program' = program /\ Kernels' = Kernels /\ SearchTyped /\ WorkersTyped
      /\ DataTyped /\ Known(w)
  BY DEF step, Kernels, Body, TypeInv
<1>2. SUFFICES ASSUME ~UNCHANGED search PROVE SearchTyped'
  BY <1>1 DEF SearchTyped
<1>3. CASE selectNext(w)
  <2>1. /\ at[w] \in {"main", "yield", "retry"} /\ NewThread[w] = NULL /\ ~keepGoing(w)
        /\ UNCHANGED candidate
    BY <1>2, <1>3 DEF selectNext
  <2>2. PICK s \in walkStarts(w) :
             /\ NextKernel' = [NextKernel EXCEPT ![w] = s]
             /\ plan' = [plan EXCEPT ![w] =
                  firstTry(w) \o IF s = NULL THEN exhaustiveSearch ELSE <<>>]
    BY <1>3, <2>1 DEF selectNext
  <2>3. s \in Kernels \cup {NULL}
    BY <1>1 DEF walkStarts, WorkersTyped
  <2>4. firstTry(w) \in Seq(SUBSET Kernels) /\ exhaustiveSearch \in Seq(SUBSET Kernels)
    BY <2>1, FirstTryTyped
  <2>5. (firstTry(w) \o IF s = NULL THEN exhaustiveSearch ELSE <<>>) \in Seq(SUBSET Kernels)
    BY <2>4
  <2>6. QED
    BY <1>1, <2>1, <2>2, <2>3, <2>5 DEF SearchTyped
<1>4. CASE walkOn(w)
  <2> DEFINE next == NextOnTheSameDevice(NextKernel[w])
  <2>1. next \in Kernels \cup {NULL}
    BY <1>1, NextDeviceType
  <2> HIDE DEF next
  <2>2. exhaustiveSearch \in Seq(SUBSET Kernels)
    BY DEF exhaustiveSearch
  <2>3. next # NULL => <<{next}>> \in Seq(SUBSET Kernels)
    BY <2>1
  <2>4. /\ UNCHANGED candidate
        /\ \/ /\ NextKernel' = [NextKernel EXCEPT ![w] = NULL]
              /\ plan' = [plan EXCEPT ![w] = exhaustiveSearch]
           \/ /\ NextKernel' = [NextKernel EXCEPT ![w] = next]
              /\ plan' = [plan EXCEPT ![w] = <<{next}>>] /\ next # NULL
    BY <1>4 DEF walkOn, next
  <2>5. QED
    BY <1>1, <2>1, <2>2, <2>3, <2>4 DEF SearchTyped
<1>5. CASE \E k \in Kernels : trySchedule(w, k)
  <2>1. PICK k \in Kernels : trySchedule(w, k)
    BY <1>5
  <2>2. plan[w] \in Seq(SUBSET Kernels) /\ plan[w] # <<>>
    BY <1>1, <2>1 DEF trySchedule, SearchTyped
  <2>3. rest(w, k) \in Seq(SUBSET Kernels)
    BY <2>2, RestTyped DEF rest
  <2>4. <<>> \in Seq(SUBSET Kernels)
    OBVIOUS
  <2>5. /\ \E p \in Seq(SUBSET Kernels) : plan' = [plan EXCEPT ![w] = p]
        /\ UNCHANGED NextKernel \/ NextKernel' = [NextKernel EXCEPT ![w] = NULL]
        /\ UNCHANGED candidate \/ candidate' = [candidate EXCEPT ![w] = k]
    BY <2>1, <2>3, <2>4 DEF trySchedule, passKernel, pickParallel, pickSequential
  <2>6. QED
    BY <1>1, <2>5 DEF SearchTyped
<1>6. CASE casSequentialKernelRunning(w)
  <2>1. <<>> \in Seq(SUBSET Kernels)
    OBVIOUS
  <2>2. /\ UNCHANGED plan \/ plan' = [plan EXCEPT ![w] = <<>>]
        /\ UNCHANGED NextKernel \/ NextKernel' = [NextKernel EXCEPT ![w] = NULL]
        /\ candidate' = [candidate EXCEPT ![w] = NULL]
    BY <1>6 DEF casSequentialKernelRunning
  <2>3. QED
    BY <1>1, <2>1, <2>2 DEF SearchTyped
<1>7. QED
  <2>1. ASSUME noKernel(w) \/ takeReady(w) \/ checkTerminating(w) \/ spawn(w) \/ noThread(w)
               \/ switchThread(w) \/ scheduleOut(w)
        PROVE FALSE
    BY <1>2, <2>1 DEF noKernel, takeReady, checkTerminating, spawn, noThread, switchThread,
       scheduleOut
  <2>2. ASSUME runBody(w) PROVE FALSE
    BY <1>2, <2>2 DEF runBody, resume, bodyEnds, push, pop, checkDeactivated, reduceRepeat,
       readReservedHead, drain, checkTermination, acknowledgeCanTerminate
  <2>3. ASSUME endBody(w) PROVE FALSE
    BY <1>2, <2>3 DEF endBody, replaceThread, endKernel, leaveKernel, repeatBody, deregisterThread,
         terminateKernel, deactivateQueue, decrementActive, leave
  <2>4. QED
    BY <1>3, <1>4, <1>5, <1>6, <2>1, <2>2, <2>3 DEF step, select

-----------------------------------------------------------------------------
(* A step of w is not seen in what the others know of themselves.          *)
Untouched(v) ==
  /\ at'[v] = at[v] /\ thread'[v] = thread[v] /\ NewThread'[v] = NewThread[v]
  /\ RunningKernel'[v] = RunningKernel[v] /\ OldKernel'[v] = OldKernel[v]
  /\ Event'[v] = Event[v] /\ QueueIndex'[v] = QueueIndex[v] /\ candidate'[v] = candidate[v]

LEMMA OthersUntouched ==
  ASSUME WorkersTyped, SearchTyped, NEW w \in Workers, step(w)
  PROVE  \A v \in Workers \ {w} : Untouched(v)
<1> USE DEF WorkersTyped, SearchTyped, Untouched, goto, context, choice, search
<1>1. CASE select(w)
  <2>1. CASE selectNext(w)
    BY <2>1 DEF selectNext, selectNothing
  <2>2. CASE (\E k \in Kernels : trySchedule(w, k)) \/ casSequentialKernelRunning(w)
    BY <2>2 DEF trySchedule, passKernel, pickParallel, pickSequential, chosen,
       casSequentialKernelRunning
  <2>3. CASE walkOn(w) \/ noKernel(w) \/ takeReady(w) \/ checkTerminating(w) \/ spawn(w)
    BY <2>3 DEF walkOn, noKernel, selectNothing, takeReady, checkTerminating, spawn
  <2>4. CASE noThread(w) \/ switchThread(w) \/ scheduleOut(w)
    BY <2>4 DEF noThread, selectNothing, switchThread, scheduleOut, enterThread
  <2>5. QED
    BY <1>1, <2>1, <2>2, <2>3, <2>4 DEF select
<1>2. CASE runBody(w)
  <2>1. CASE resume(w) \/ bodyEnds(w) \/ push(w) \/ pop(w)
    BY <2>1 DEF resume, bodyEnds, push, pop, advanceThread
  <2>2. CASE checkDeactivated(w) \/ reduceRepeat(w) \/ readReservedHead(w) \/ drain(w)
    BY <2>2 DEF checkDeactivated, reduceRepeat, readReservedHead, drain
  <2>3. CASE checkTermination(w) \/ acknowledgeCanTerminate(w)
    BY <2>3 DEF checkTermination, acknowledgeCanTerminate
  <2>4. QED
    BY <1>2, <2>1, <2>2, <2>3 DEF runBody
<1>3. CASE endBody(w)
  <2>1. CASE replaceThread(w) \/ endKernel(w) \/ leaveKernel(w) \/ repeatBody(w)
    BY <2>1 DEF replaceThread, endKernel, leaveKernel, repeatBody
  <2>2. CASE deregisterThread(w) \/ terminateKernel(w) \/ deactivateQueue(w)
             \/ decrementActive(w) \/ leave(w)
    BY <2>2 DEF deregisterThread, terminateKernel, deactivateQueue, decrementActive, leave
  <2>3. QED
    BY <1>3, <2>1, <2>2 DEF endBody
<1>4. QED
  BY <1>1, <1>2, <1>3 DEF step

LEMMA KnownStays ==
  ASSUME NEW v \in Workers, Known(v), Untouched(v), program' = program
  PROVE  Known(v)'
BY DEF Known, Untouched, HoldsRunning, HoldsOld, Kernels, Queues, Body

LEMMA SelectKnows ==
  ASSUME TypeInv, TokenInv, NEW w \in Workers, select(w), program' = program
  PROVE  Known(w)'
<1> USE DEF LivePlaces, GonePlaces, ChosenPlaces, QueuePlaces, context, choice, search
<1>1. /\ Known(w) /\ Local(w) /\ WorkersTyped /\ SearchTyped
      /\ Kernels' = Kernels /\ Queues' = Queues /\ Body' = Body
  BY DEF TypeInv, TokenInv, Kernels, Queues, Body
<1> USE DEF WorkersTyped, SearchTyped, goto
<1>2. CASE selectNext(w)
  <2>1. /\ \E to \in {"switch", "exited", "resume", "search"} :
             /\ at'[w] = to /\ at[w] \in {"main", "yield", "retry"}
             /\ to = "switch" => NewThread[w] # NULL
             /\ to = "resume" => thread[w] # NULL
             /\ to = "exited" => thread[w] = NULL
        /\ OldKernel'[w] = RunningKernel[w]
    BY <1>1, <1>2 DEF selectNext, selectNothing
  <2>2. UNCHANGED <<thread, NewThread, RunningKernel, Event, QueueIndex>>
    BY <1>2 DEF selectNext
  <2>3. QED
    BY <1>1, <2>1, <2>2 DEF Known, Local, HoldsRunning, HoldsOld
<1>3. CASE \E k \in Kernels : trySchedule(w, k)
  <2>1. PICK k \in Kernels : trySchedule(w, k)
    BY <1>3
  <2>2. /\ at[w] = "search" /\ UNCHANGED <<OldKernel, Event, QueueIndex, thread, NewThread>>
        /\ \/ at'[w] = "search" /\ UNCHANGED <<RunningKernel, candidate>>
           \/ at'[w] = "take" /\ RunningKernel'[w] = k
           \/ at'[w] = "cas" /\ candidate'[w] = k /\ UNCHANGED RunningKernel
    BY <1>1, <2>1 DEF trySchedule, passKernel, pickParallel, pickSequential, chosen
  <2>3. QED
    BY <1>1, <2>2 DEF Known, Local, HoldsRunning, HoldsOld
<1>4. CASE casSequentialKernelRunning(w)
  <2>1. /\ at[w] = "cas" /\ UNCHANGED <<OldKernel, Event, QueueIndex, thread, NewThread>>
        /\ \/ at'[w] = "search" /\ UNCHANGED RunningKernel
           \/ at'[w] = "take" /\ RunningKernel'[w] = candidate[w]
    BY <1>1, <1>4 DEF casSequentialKernelRunning, chosen
  <2>2. QED
    BY <1>1, <2>1 DEF Known, Local, HoldsRunning, HoldsOld
<1>5. CASE walkOn(w) \/ noKernel(w)
  <2>1. /\ at[w] = "search"
        /\ UNCHANGED <<RunningKernel, OldKernel, Event, QueueIndex, thread, NewThread>>
        /\ \/ at'[w] = "search"
           \/ at'[w] = "exited" /\ thread[w] = NULL
           \/ at'[w] = "resume" /\ thread[w] # NULL
    BY <1>1, <1>5 DEF walkOn, noKernel, selectNothing
  <2>2. QED
    BY <1>1, <2>1 DEF Known, Local, HoldsRunning, HoldsOld
<1>6. CASE takeReady(w)
  <2>1. at[w] = "take" /\ RunningKernel[w] \in Kernels
    BY <1>1, <1>6 DEF takeReady, Known, HoldsRunning
  <2>2. ReadyQueues[RunningKernel[w]] \in Seq(GreenThreads)
    BY <2>1 DEF TypeInv, KernelsTyped
  <2>3. ReadyQueues[RunningKernel[w]] # <<>> => Head(ReadyQueues[RunningKernel[w]]) # NULL
    BY <2>2, ReadyTyped, NullAssumption
  <2>4. /\ UNCHANGED <<RunningKernel, OldKernel, Event, QueueIndex, thread, candidate>>
        /\ \/ at'[w] \in {"none", "check"} /\ UNCHANGED NewThread
           \/ at'[w] = "switch" /\ NewThread'[w] # NULL
    BY <1>1, <1>6, <2>3 DEF takeReady
  <2>5. QED
    BY <1>1, <2>1, <2>4 DEF Known, Local, HoldsRunning, HoldsOld
<1>7. CASE checkTerminating(w) \/ spawn(w)
  <2>1. NewGreenThread # NULL
    BY NewIsThread, NullAssumption
  <2>2. /\ UNCHANGED <<RunningKernel, OldKernel, Event, QueueIndex, thread, candidate>>
        /\ at[w] \in {"check", "spawn"}
        /\ \/ at'[w] \in {"none", "spawn"} /\ UNCHANGED NewThread
           \/ at'[w] = "switch" /\ NewThread'[w] # NULL
    BY <1>1, <1>7, <2>1 DEF checkTerminating, spawn
  <2>3. QED
    BY <1>1, <2>2 DEF Known, Local, HoldsRunning, HoldsOld
<1>8. CASE noThread(w)
  <2>1. /\ UNCHANGED <<OldKernel, Event, QueueIndex, thread, candidate, NewThread>>
        /\ at[w] = "none"
        /\ \/ /\ UNCHANGED RunningKernel
              /\ \/ at'[w] = "exited" /\ thread[w] = NULL
                 \/ at'[w] = "resume" /\ thread[w] # NULL
           \/ at'[w] = "retry" /\ RunningKernel'[w] = OldKernel[w]
    BY <1>1, <1>8 DEF noThread, selectNothing
  <2>2. QED
    BY <1>1, <2>1 DEF Known, Local, HoldsRunning, HoldsOld
<1>9. CASE switchThread(w) \/ scheduleOut(w)
  <2>1. /\ UNCHANGED <<RunningKernel, OldKernel, Event, QueueIndex, candidate>>
        /\ at[w] \in {"switch", "release"}
        /\ \/ at'[w] \in {"run", "resume"} /\ thread'[w] = NewThread[w] /\ NewThread'[w] = NULL
           \/ /\ at[w] = "switch" /\ at'[w] = "release" /\ UNCHANGED <<thread, NewThread>>
              /\ thread[w] # NULL
    BY <1>1, <1>9 DEF switchThread, scheduleOut, enterThread
  <2>2. QED
    BY <1>1, <2>1 DEF Known, Local, HoldsRunning, HoldsOld
<1>10. QED
  BY <1>2, <1>3, <1>4, <1>5, <1>6, <1>7, <1>8, <1>9 DEF select

LEMMA BodyKnows ==
  ASSUME TypeInv, TokenInv, NEW w \in Workers, runBody(w), program' = program
  PROVE  Known(w)'
<1> USE DEF LivePlaces, GonePlaces, ChosenPlaces, QueuePlaces, context, choice, search
<1>1. /\ Known(w) /\ Local(w) /\ WorkersTyped
      /\ Kernels' = Kernels /\ Queues' = Queues /\ Body' = Body
  BY DEF TypeInv, TokenInv, Kernels, Queues, Body
<1>2. at[w] \in LivePlaces
  BY DEF runBody, resume, bodyEnds, checkDeactivated, reduceRepeat, readReservedHead, drain,
     checkTermination, acknowledgeCanTerminate, goto
<1>3. /\ UNCHANGED <<RunningKernel, OldKernel, NewThread, candidate>>
      /\ at'[w] \in {"run", "end", "yield", "acknowledge"} \cup QueuePlaces
  BY <1>1 DEF runBody, resume, bodyEnds, push, pop, checkDeactivated, reduceRepeat,
     readReservedHead, drain, checkTermination, acknowledgeCanTerminate, goto, WorkersTyped
<1>4. thread'[w] # NULL
  BY BodyThread, NullAssumption
<1>5. at'[w] \in QueuePlaces => thread'[w].next \in DOMAIN Body[RunningKernel[w]]
  <2>1. at'[w] \in QueuePlaces => UNCHANGED thread
    BY <1>1 DEF runBody, resume, bodyEnds, push, pop, checkDeactivated, reduceRepeat,
       readReservedHead, drain, checkTermination, acknowledgeCanTerminate, goto, WorkersTyped
  <2>2. at'[w] \in QueuePlaces => AtOperation(w)
    BY <1>1 DEF runBody, resume, bodyEnds, push, pop, checkDeactivated, reduceRepeat,
       readReservedHead, drain, checkTermination, acknowledgeCanTerminate, goto, WorkersTyped,
       AtOperation
  <2>3. QED
    BY <2>1, <2>2, OperationTyped
<1>6. at'[w] = "yield" => QueueIndex'[w] \in Queues
  <2>1. at'[w] = "yield" => QueueIndex'[w] = queueOf(w) /\ AtOperation(w)
    BY <1>1 DEF runBody, resume, bodyEnds, push, pop, checkDeactivated, reduceRepeat,
       readReservedHead, drain, checkTermination, acknowledgeCanTerminate, goto, WorkersTyped,
       AtOperation
  <2>2. QED
    BY <2>1, OperationTyped
<1>7. QED
  BY <1>1, <1>2, <1>3, <1>4, <1>5, <1>6 DEF Known, HoldsRunning, HoldsOld

LEMMA EndKnows ==
  ASSUME TypeInv, TokenInv, NEW w \in Workers, endBody(w), program' = program
  PROVE  Known(w)'
<1> USE DEF LivePlaces, GonePlaces, ChosenPlaces, QueuePlaces, context, choice, search
<1>1. /\ Known(w) /\ Local(w) /\ WorkersTyped
      /\ Kernels' = Kernels /\ Queues' = Queues /\ Body' = Body
  BY DEF TypeInv, TokenInv, Kernels, Queues, Body
<1> USE DEF WorkersTyped, goto
<1>2. UNCHANGED <<RunningKernel, OldKernel, candidate>>
  BY DEF endBody, replaceThread, endKernel, leaveKernel, repeatBody, deregisterThread,
     terminateKernel, deactivateQueue, decrementActive, leave
<1>3. CASE replaceThread(w)
  <2>1. at[w] = "end" /\ RunningKernel[w] \in Kernels /\ thread[w] # NULL
    BY <1>1, <1>3 DEF replaceThread, Known, HoldsRunning
  <2>2. ReadyQueues[RunningKernel[w]] \in Seq(GreenThreads)
    BY <2>1 DEF TypeInv, KernelsTyped
  <2>3. ReadyQueues[RunningKernel[w]] # <<>> => Head(ReadyQueues[RunningKernel[w]]) # NULL
    BY <2>2, ReadyTyped, NullAssumption
  <2>4. /\ UNCHANGED <<thread, Event, QueueIndex>>
        /\ \/ at'[w] = "deregister" /\ NewThread'[w] # NULL
           \/ at'[w] = "decide" /\ UNCHANGED NewThread
    BY <1>1, <1>3, <2>3 DEF replaceThread
  <2>5. QED
    BY <1>1, <1>2, <2>1, <2>4 DEF Known, Local, HoldsRunning, HoldsOld
<1>4. CASE endKernel(w)
  <2>1. /\ at[w] = "decide" /\ at'[w] = "deregister" /\ Event'[w] = "KernelTerminated"
        /\ UNCHANGED <<thread, NewThread>>
    BY <1>1, <1>4 DEF endKernel
  <2>2. QED
    BY <1>1, <1>2, <2>1 DEF Known, Local, HoldsRunning, HoldsOld
<1>5. CASE leaveKernel(w)
  <2>1. at[w] = "decide" /\ RunningKernel[w] \in Kernels
    BY <1>1, <1>5 DEF leaveKernel, Known, HoldsRunning
  <2>2. \A i \in DOMAIN Body[RunningKernel[w]] : Body[RunningKernel[w]][i].queue \in Queues
    BY <2>1, ProgramFacts DEF TypeInv
  <2>3. /\ at'[w] = "deregister" /\ UNCHANGED <<thread, NewThread>>
        /\ \/ /\ Event'[w] \in {"InputQueueIsEmpty", "OutputQueueIsFull"}
              /\ QueueIndex'[w] \in Queues
           \/ Event'[w] = "RandomJump"
    BY <1>1, <1>5, <2>2 DEF leaveKernel
  <2>4. QED
    BY <1>1, <1>2, <2>1, <2>3 DEF Known, Local, HoldsRunning, HoldsOld
<1>6. CASE repeatBody(w)
  <2>1. NewGreenThread # NULL
    BY NewIsThread, NullAssumption
  <2>2. /\ at[w] = "decide" /\ at'[w] = "run" /\ thread'[w] # NULL
        /\ UNCHANGED <<NewThread, Event, QueueIndex>>
    BY <1>1, <1>6, <2>1 DEF repeatBody
  <2>3. QED
    BY <1>1, <1>2, <2>2 DEF Known, Local, HoldsRunning, HoldsOld
<1>7. CASE \/ deregisterThread(w) \/ terminateKernel(w) \/ deactivateQueue(w)
           \/ decrementActive(w) \/ leave(w)
  <2>1. /\ UNCHANGED <<NewThread, Event, QueueIndex>>
        /\ at[w] \in GonePlaces \cup {"deregister"} /\ at'[w] \in GonePlaces \cup {"main"}
    BY <1>1, <1>7 DEF deregisterThread, terminateKernel, deactivateQueue, decrementActive, leave
  <2>2. QED
    BY <1>1, <1>2, <2>1 DEF Known, Local, HoldsRunning, HoldsOld
<1>8. QED
  BY <1>3, <1>4, <1>5, <1>6, <1>7 DEF endBody

LEMMA TypesStep == TypeInv /\ TokenInv /\ TokenInv' /\ [Next]_vars => TypeInv'
<1> SUFFICES ASSUME TypeInv, TokenInv, TokenInv', [Next]_vars PROVE TypeInv'
  OBVIOUS
<1>1. ASSUME NEW w \in Workers, step(w) PROVE TypeInv'
  <2>1. DataTyped' /\ KernelsTyped' /\ WorkersTyped' /\ SearchTyped'
    BY <1>1, DataKept, KernelsKept, WorkersKept, SearchKept
  <2>2. Known(w)'
    BY <1>1, SelectKnows, BodyKnows, EndKnows DEF step
  <2>3. program' = program /\ \A v \in Workers \ {w} : Untouched(v)
    BY <1>1, OthersUntouched DEF step, TypeInv
  <2>4. \A v \in Workers \ {w} : Known(v)'
    BY <2>3, KnownStays DEF TypeInv
  <2>5. QED
    BY <2>1, <2>2, <2>4 DEF TypeInv
<1>2. CASE UNCHANGED vars
  <2>1. UNCHANGED <<program, queues, kernels, status, context, thread, choice, locals, at,
                    Kernels, Queues, Body, ReadyQueues>>
    BY <1>2 DEF vars, Kernels, Queues, Body
  <2>2. DataTyped' /\ KernelsTyped' /\ WorkersTyped' /\ SearchTyped'
    BY <2>1 DEF TypeInv, DataTyped, KernelsTyped, WorkersTyped, SearchTyped, queues, tickets, kernels,
       status, context, choice, search, locals
  <2>3. \A w \in Workers : Untouched(w)
    BY <2>1 DEF Untouched, context, choice, search
  <2>4. \A w \in Workers : Known(w)'
    BY <2>1, <2>3, KnownStays DEF TypeInv
  <2>5. QED
    BY <2>2, <2>4 DEF TypeInv
<1>3. QED
  BY <1>1, <1>2 DEF Next, finished

(* The variables have their types, and what a native thread uses is there. *)
THEOREM TypesHold == Spec => []TypeInv
<1>1. QED
  BY TypesBegin, TypesStep, TokensHold, PTL DEF Spec

-----------------------------------------------------------------------------
(* Counting the green threads                                              *)

one(b) == IF b THEN 1 ELSE 0

chosenFor(w, k) == NewThread[w] # NULL /\ RunningKernel[w] = k

(* The green threads of k that are with w: one runs, one may come next.    *)
Weight(w, k) == one(runs(w, k)) + one(chosenFor(w, k))

LEMMA OneMoreOrLess ==
  ASSUME NEW S \in SUBSET Workers, NEW T \in SUBSET Workers, NEW w \in Workers,
         \A v \in Workers \ {w} : v \in S <=> v \in T
  PROVE  /\ Cardinality(S) \in Nat /\ Cardinality(T) \in Nat
         /\ Cardinality(T) = Cardinality(S) + one(w \in T) - one(w \in S)
<1>1. IsFiniteSet(S) /\ IsFiniteSet(T)
  BY SizeAssumption, FS_Subset
<1>2. Cardinality(S) \in Nat /\ Cardinality(T) \in Nat
  BY <1>1, FS_CardinalityType
<1>3. CASE w \in S <=> w \in T
  <2>1. S = T
    BY <1>3
  <2>2. QED
    BY <1>2, <1>3, <2>1 DEF one
<1>4. CASE w \in T /\ w \notin S
  <2>1. T = S \cup {w}
    BY <1>4
  <2>2. Cardinality(T) = Cardinality(S) + 1
    BY <1>1, <1>4, <2>1, FS_AddElement
  <2>3. QED
    BY <1>2, <1>4, <2>2 DEF one
<1>5. CASE w \in S /\ w \notin T
  <2>1. S = T \cup {w}
    BY <1>5
  <2>2. Cardinality(S) = Cardinality(T) + 1
    BY <1>1, <1>5, <2>1, FS_AddElement
  <2>3. QED
    BY <1>2, <1>5, <2>2 DEF one
<1>6. QED
  BY <1>3, <1>4, <1>5

(* What w moves into or out of the kernel k.                               *)
Moved(w, k) ==
  (Len(ReadyQueues'[k]) - Len(ReadyQueues[k])) + (Weight(w, k)' - Weight(w, k))

(* A step of w changes the count of a kernel by what it moves.             *)
LEMMA CountMoves ==
  ASSUME TypeInv, TypeInv', NEW w \in Workers, OthersStay(w), NEW k \in Kernels
  PROVE  /\ threadsOf(k) \in Nat
         /\ threadsOf(k)' = threadsOf(k) + Moved(w, k)
<1> DEFINE R == { v \in Workers : runs(v, k) }
           S == { v \in Workers : chosenFor(v, k) }
<1>1. Kernels' = Kernels
  BY DEF OthersStay, Kernels, Body
<1>2. Len(ReadyQueues[k]) \in Nat /\ Len(ReadyQueues'[k]) \in Nat
  BY <1>1 DEF TypeInv, KernelsTyped
<1>3. \A v \in Workers \ {w} : (runs(v, k)' <=> runs(v, k)) /\ (chosenFor(v, k)' <=> chosenFor(v, k))
  BY DEF OthersStay, runs, selecting, chosenFor
<1>4. R \in SUBSET Workers /\ R' \in SUBSET Workers /\ S \in SUBSET Workers /\ S' \in SUBSET Workers
  OBVIOUS
<1>5. /\ \A v \in Workers \ {w} : v \in R <=> v \in R'
      /\ \A v \in Workers \ {w} : v \in S <=> v \in S'
      /\ (w \in R <=> runs(w, k)) /\ (w \in R' <=> runs(w, k)')
      /\ (w \in S <=> chosenFor(w, k)) /\ (w \in S' <=> chosenFor(w, k)')
  BY <1>3
<1>6. threadsOf(k) = Len(ReadyQueues[k]) + Cardinality(R) + Cardinality(S)
  BY DEF threadsOf, chosenFor
<1>7. threadsOf(k)' = Len(ReadyQueues'[k]) + Cardinality(R') + Cardinality(S')
  BY DEF threadsOf, chosenFor
<1> HIDE DEF R, S
<1>8. /\ Cardinality(R) \in Nat /\ Cardinality(R') \in Nat
      /\ Cardinality(R') = Cardinality(R) + one(w \in R') - one(w \in R)
  BY <1>4, <1>5, OneMoreOrLess
<1>9. /\ Cardinality(S) \in Nat /\ Cardinality(S') \in Nat
      /\ Cardinality(S') = Cardinality(S) + one(w \in S') - one(w \in S)
  BY <1>4, <1>5, OneMoreOrLess
<1>10. /\ Cardinality(R') = Cardinality(R) + one(runs(w, k)') - one(runs(w, k))
       /\ Cardinality(S') = Cardinality(S) + one(chosenFor(w, k)') - one(chosenFor(w, k))
  BY <1>5, <1>8, <1>9 DEF one
<1>11. threadsOf(k) \in Nat
  BY <1>2, <1>6, <1>8, <1>9
<1>12. PICK r0 \in Int, r1 \in Int, s0 \in Int, s1 \in Int :
          /\ r0 = one(runs(w, k)) /\ r1 = one(runs(w, k)')
          /\ s0 = one(chosenFor(w, k)) /\ s1 = one(chosenFor(w, k)')
  BY DEF one
<1>13. Weight(w, k) = r0 + s0 /\ Weight(w, k)' = r1 + s1
  BY <1>12 DEF Weight
<1>14. Cardinality(R') = Cardinality(R) + r1 - r0 /\ Cardinality(S') = Cardinality(S) + s1 - s0
  BY <1>10, <1>12
<1>15. PICK n0 \in Nat, n1 \in Nat : n0 = Len(ReadyQueues[k]) /\ n1 = Len(ReadyQueues'[k])
  BY <1>2
<1>16. Moved(w, k) = (n1 - n0) + ((r1 + s1) - (r0 + s0))
  BY <1>13, <1>15 DEF Moved
<1>17. threadsOf(k)' = n1 + (Cardinality(R) + r1 - r0) + (Cardinality(S) + s1 - s0)
  BY <1>7, <1>14, <1>15
<1>18. threadsOf(k) = n0 + Cardinality(R) + Cardinality(S)
  BY <1>6, <1>15
<1>19. QED
  BY <1>8, <1>9, <1>11, <1>16, <1>17, <1>18

(* The count follows what is moved.                                        *)
Balanced(w, k) == NumSpawnedThreads'[k] = NumSpawnedThreads[k] + Moved(w, k)

LEMMA CountsKept ==
  ASSUME TypeInv, TypeInv', ThreadsCounted, NEW w \in Workers, OthersStay(w),
         \A k \in Kernels : Balanced(w, k)
  PROVE  ThreadsCounted'
<1>1. Kernels' = Kernels
  BY DEF OthersStay, Kernels, Body
<1>2. ASSUME NEW k \in Kernels PROVE NumSpawnedThreads'[k] = threadsOf(k)'
  BY CountMoves DEF Balanced, ThreadsCounted
<1>3. QED
  BY <1>1, <1>2 DEF ThreadsCounted

(* Nothing is moved.                                                       *)
LEMMA NothingMoved ==
  ASSUME TypeInv, NEW w \in Workers, UNCHANGED <<NumSpawnedThreads, ReadyQueues>>,
         NEW k \in Kernels, Weight(w, k)' = Weight(w, k)
  PROVE  Balanced(w, k)
<1>1. /\ NumSpawnedThreads[k] \in Int /\ Len(ReadyQueues[k]) \in Nat /\ Weight(w, k) \in Int
  BY DEF TypeInv, KernelsTyped, Weight, one
<1>2. QED
  BY <1>1 DEF Balanced, Moved

(* ... if w keeps what it has.                                             *)
LEMMA SameWeight ==
  ASSUME NEW w, NEW k, (runs(w, k)' <=> runs(w, k)), (chosenFor(w, k)' <=> chosenFor(w, k))
  PROVE  Weight(w, k)' = Weight(w, k)
BY DEF Weight, one

LEMMA SelectBalances ==
  ASSUME TypeInv, TokenInv, NEW w \in Workers, select(w), program' = program, NEW k \in Kernels
  PROVE  Balanced(w, k)
<1> USE DEF LivePlaces, GonePlaces, ChosenPlaces, context, choice, search, status
<1>1. /\ Known(w) /\ Local(w) /\ WorkersTyped /\ KernelsTyped
  BY DEF TypeInv, TokenInv
<1> USE DEF goto
<1>2. CASE selectNext(w)
  <2>1. /\ at[w] \in {"main", "yield", "retry"}
        /\ at'[w] \in {"switch", "exited", "resume", "search"}
        /\ OldKernel'[w] = RunningKernel[w]
    BY <1>1, <1>2 DEF selectNext, selectNothing, WorkersTyped
  <2>2. UNCHANGED <<thread, NewThread, RunningKernel, NumSpawnedThreads, ReadyQueues>>
    BY <1>2 DEF selectNext
  <2>3. (runs(w, k)' <=> runs(w, k)) /\ (chosenFor(w, k)' <=> chosenFor(w, k))
    BY <1>1, <2>1, <2>2 DEF Local, runs, selecting, chosenFor
  <2>4. QED
    BY <2>2, <2>3, SameWeight, NothingMoved
<1>3. CASE \E j \in Kernels : trySchedule(w, j)
  <2>1. PICK j \in Kernels : trySchedule(w, j)
    BY <1>3
  <2>2. /\ at[w] = "search"
        /\ UNCHANGED <<OldKernel, thread, NewThread, NumSpawnedThreads, ReadyQueues>>
        /\ \/ at'[w] \in {"search", "cas"} /\ UNCHANGED RunningKernel
           \/ at'[w] = "take"
    BY <1>1, <2>1 DEF trySchedule, passKernel, pickParallel, pickSequential, WorkersTyped
  <2>3. (runs(w, k)' <=> runs(w, k)) /\ (chosenFor(w, k)' <=> chosenFor(w, k))
    BY <1>1, <2>2 DEF Local, runs, selecting, chosenFor
  <2>4. QED
    BY <2>2, <2>3, SameWeight, NothingMoved
<1>4. CASE casSequentialKernelRunning(w)
  <2>1. /\ at[w] = "cas"
        /\ UNCHANGED <<OldKernel, thread, NewThread, NumSpawnedThreads, ReadyQueues>>
        /\ \/ at'[w] = "search" /\ UNCHANGED RunningKernel
           \/ at'[w] = "take"
    BY <1>1, <1>4 DEF casSequentialKernelRunning, WorkersTyped
  <2>2. (runs(w, k)' <=> runs(w, k)) /\ (chosenFor(w, k)' <=> chosenFor(w, k))
    BY <1>1, <2>1 DEF Local, runs, selecting, chosenFor
  <2>3. QED
    BY <2>1, <2>2, SameWeight, NothingMoved
<1>5. CASE walkOn(w) \/ noKernel(w) \/ checkTerminating(w)
  <2>1. /\ UNCHANGED <<RunningKernel, OldKernel, thread, NewThread, NumSpawnedThreads,
                       ReadyQueues>>
        /\ \/ at[w] = "search" /\ at'[w] \in {"search", "exited", "resume"}
           \/ at[w] = "check" /\ at'[w] \in {"none", "spawn"}
    BY <1>1, <1>5 DEF walkOn, noKernel, selectNothing, checkTerminating, WorkersTyped
  <2>2. (runs(w, k)' <=> runs(w, k)) /\ (chosenFor(w, k)' <=> chosenFor(w, k))
    BY <1>1, <2>1 DEF Local, runs, selecting, chosenFor
  <2>3. QED
    BY <2>1, <2>2, SameWeight, NothingMoved
<1>6. CASE noThread(w)
  <2>1. /\ UNCHANGED <<OldKernel, thread, NewThread, NumSpawnedThreads, ReadyQueues>>
        /\ at[w] = "none" /\ NewThread[w] = NULL
        /\ \/ /\ UNCHANGED RunningKernel /\ RunningKernel[w] = OldKernel[w]
              /\ at'[w] \in {"exited", "resume"}
           \/ at'[w] = "retry"
    BY <1>1, <1>6 DEF noThread, selectNothing, WorkersTyped, Local
  <2>2. (runs(w, k)' <=> runs(w, k)) /\ (chosenFor(w, k)' <=> chosenFor(w, k))
    BY <1>1, <2>1 DEF Local, runs, selecting, chosenFor
  <2>3. QED
    BY <2>1, <2>2, SameWeight, NothingMoved
<1>7. CASE takeReady(w)
  <2> DEFINE r == RunningKernel[w]
  <2>1. /\ at[w] = "take" /\ r \in Kernels /\ NewThread[w] = NULL
        /\ UNCHANGED <<OldKernel, RunningKernel, thread, NumSpawnedThreads>>
    BY <1>1, <1>7 DEF takeReady, Known, HoldsRunning, Local
  <2>2. CASE ReadyQueues[r] = <<>>
    <3>1. UNCHANGED <<ReadyQueues, NewThread>> /\ at'[w] \in {"none", "check"}
      BY <1>1, <1>7, <2>2 DEF takeReady, WorkersTyped
    <3>2. (runs(w, k)' <=> runs(w, k)) /\ (chosenFor(w, k)' <=> chosenFor(w, k))
      BY <2>1, <3>1 DEF runs, selecting, chosenFor
    <3>3. QED
      BY <2>1, <3>1, <3>2, SameWeight, NothingMoved
  <2>3. CASE ReadyQueues[r] # <<>>
    <3>1. ReadyQueues[r] \in Seq(GreenThreads)
      BY <1>1, <2>1 DEF KernelsTyped
    <3>2. /\ Len(Tail(ReadyQueues[r])) = Len(ReadyQueues[r]) - 1
          /\ Head(ReadyQueues[r]) # NULL
      BY <2>3, <3>1, NullAssumption
    <3>3. /\ at'[w] = "switch" /\ NewThread'[w] # NULL
          /\ ReadyQueues' = [ReadyQueues EXCEPT ![r] = Tail(ReadyQueues[r])]
      BY <1>1, <1>7, <2>3, <3>2 DEF takeReady, WorkersTyped
    <3>4. /\ (runs(w, k)' <=> runs(w, k))
          /\ ~chosenFor(w, k) /\ (chosenFor(w, k)' <=> k = r)
      BY <2>1, <3>3 DEF runs, selecting, chosenFor
    <3>5. /\ Weight(w, k) = one(runs(w, k)) + 0
          /\ Weight(w, k)' = one(runs(w, k)) + IF k = r THEN 1 ELSE 0
      BY <3>4 DEF Weight, one
    <3>6. one(runs(w, k)) \in Int /\ Len(ReadyQueues[k]) \in Nat /\ NumSpawnedThreads[k] \in Int
      BY <1>1 DEF KernelsTyped, one
    <3>7. CASE k = r
      <4>1. Len(ReadyQueues'[k]) = Len(ReadyQueues[k]) - 1
        BY <1>1, <2>1, <3>2, <3>3, <3>7 DEF KernelsTyped
      <4>2. Weight(w, k)' = Weight(w, k) + 1 /\ Weight(w, k) \in Int
        BY <3>5, <3>6, <3>7
      <4>3. Moved(w, k) = 0
        BY <3>6, <4>1, <4>2 DEF Moved
      <4>4. QED
        BY <2>1, <3>6, <4>3 DEF Balanced
    <3>8. CASE k # r
      <4>1. ReadyQueues'[k] = ReadyQueues[k] /\ Weight(w, k)' = Weight(w, k)
        BY <1>1, <3>3, <3>5, <3>6, <3>8 DEF KernelsTyped
      <4>2. Weight(w, k) \in Int
        BY <3>5, <3>6
      <4>3. QED
        BY <2>1, <3>6, <4>1, <4>2 DEF Balanced, Moved
    <3>9. QED
      BY <3>7, <3>8
  <2>4. QED
    BY <2>2, <2>3
<1>8. CASE spawn(w)
  <2> DEFINE r == RunningKernel[w]
  <2>1. NewGreenThread # NULL
    BY NewIsThread, NullAssumption
  <2>2. /\ at[w] = "spawn" /\ at'[w] = "switch" /\ NewThread[w] = NULL /\ NewThread'[w] # NULL
        /\ NumSpawnedThreads' = [NumSpawnedThreads EXCEPT ![r] = @ + 1]
        /\ UNCHANGED <<OldKernel, RunningKernel, thread, ReadyQueues>>
    BY <1>1, <1>8, <2>1 DEF spawn, Local, WorkersTyped
  <2>3. /\ (runs(w, k)' <=> runs(w, k))
        /\ ~chosenFor(w, k) /\ (chosenFor(w, k)' <=> k = r)
    BY <2>2 DEF runs, selecting, chosenFor
  <2>4. /\ Weight(w, k) = one(runs(w, k)) + 0
        /\ Weight(w, k)' = one(runs(w, k)) + IF k = r THEN 1 ELSE 0
    BY <2>3 DEF Weight, one
  <2>5. one(runs(w, k)) \in Int /\ Len(ReadyQueues[k]) \in Nat /\ NumSpawnedThreads[k] \in Int
    BY <1>1 DEF KernelsTyped, one
  <2>6. Moved(w, k) = IF k = r THEN 1 ELSE 0
    BY <2>2, <2>4, <2>5 DEF Moved
  <2>7. NumSpawnedThreads'[k] = NumSpawnedThreads[k] + IF k = r THEN 1 ELSE 0
    BY <1>1, <2>2, <2>5 DEF KernelsTyped
  <2>8. QED
    BY <2>6, <2>7 DEF Balanced
<1>9. ASSUME NEW from, enterThread(w, from), from \in {"switch", "release"},
             from = "switch" => thread[w] = NULL,
             UNCHANGED <<NumSpawnedThreads, ReadyQueues, RunningKernel, OldKernel>>
      PROVE  Balanced(w, k)
  <2>1. /\ at[w] = from /\ at'[w] \in {"resume", "run"} /\ NewThread[w] # NULL
        /\ thread'[w] = NewThread[w] /\ NewThread'[w] = NULL
    BY <1>1, <1>9 DEF enterThread, WorkersTyped, Known
  <2>2. /\ ~runs(w, k) /\ (runs(w, k)' <=> chosenFor(w, k)) /\ ~chosenFor(w, k)'
    BY <1>9, <2>1 DEF runs, selecting, chosenFor
  <2>3. Weight(w, k)' = Weight(w, k)
    BY <2>2 DEF Weight, one
  <2>4. QED
    BY <1>9, <2>3, NothingMoved
<1>10. CASE switchThread(w)
  <2> DEFINE o == OldKernel[w]
  <2>1. CASE thread[w] = NULL
    BY <1>9, <1>10, <2>1 DEF switchThread
  <2>2. CASE thread[w] # NULL
    <3>1. PICK t : ReadyQueues' = [ReadyQueues EXCEPT ![o] = Append(@, t)]
      BY <1>10, <2>2 DEF switchThread
    <3>2. /\ at[w] = "switch" /\ at'[w] = "release" /\ o \in Kernels
          /\ UNCHANGED <<RunningKernel, OldKernel, thread, NewThread, NumSpawnedThreads>>
      BY <1>1, <1>10, <2>2 DEF switchThread, WorkersTyped, Known, HoldsOld
    <3>3. /\ ~runs(w, k)' /\ (runs(w, k) <=> k = o)
          /\ (chosenFor(w, k)' <=> chosenFor(w, k))
      BY <2>2, <3>2 DEF runs, selecting, chosenFor
    <3>4. /\ Weight(w, k) = one(chosenFor(w, k)) + IF k = o THEN 1 ELSE 0
          /\ Weight(w, k)' = one(chosenFor(w, k))
      BY <3>3 DEF Weight, one
    <3>5. /\ one(chosenFor(w, k)) \in Int /\ ReadyQueues[k] \in Seq(GreenThreads)
          /\ ReadyQueues[o] \in Seq(GreenThreads) /\ NumSpawnedThreads[k] \in Int
      BY <1>1, <3>2 DEF KernelsTyped, one
    <3>6. Len(Append(ReadyQueues[o], t)) = Len(ReadyQueues[o]) + 1
      BY <3>5
    <3>7. Len(ReadyQueues'[k]) = Len(ReadyQueues[k]) + IF k = o THEN 1 ELSE 0
      BY <1>1, <3>1, <3>5, <3>6 DEF KernelsTyped
    <3>8. Moved(w, k) = 0
      BY <3>4, <3>5, <3>7 DEF Moved
    <3>9. QED
      BY <3>2, <3>5, <3>8 DEF Balanced
  <2>3. QED
    BY <2>1, <2>2
<1>11. CASE scheduleOut(w)
  BY <1>9, <1>11 DEF scheduleOut
<1>12. QED
  BY <1>2, <1>3, <1>4, <1>5, <1>6, <1>7, <1>8, <1>10, <1>11 DEF select

LEMMA BodyBalances ==
  ASSUME TypeInv, TokenInv, NEW w \in Workers, runBody(w), program' = program, NEW k \in Kernels
  PROVE  Balanced(w, k)
<1> USE DEF LivePlaces, GonePlaces, ChosenPlaces, context, choice, status
<1>1. /\ at[w] \in LivePlaces /\ at'[w] \in LivePlaces
      /\ UNCHANGED <<NewThread, RunningKernel, NumSpawnedThreads, ReadyQueues>>
  BY DEF runBody, resume, bodyEnds, push, pop, checkDeactivated, reduceRepeat, readReservedHead,
     drain, checkTermination, acknowledgeCanTerminate, goto, TypeInv, WorkersTyped
<1>2. thread[w] # NULL /\ thread'[w] # NULL
  BY <1>1, LiveThread, BodyThread, NullAssumption
<1>3. (runs(w, k)' <=> runs(w, k)) /\ (chosenFor(w, k)' <=> chosenFor(w, k))
  BY <1>1, <1>2 DEF runs, selecting, chosenFor
<1>4. QED
  BY <1>1, <1>3, SameWeight, NothingMoved

LEMMA EndBalances ==
  ASSUME TypeInv, TokenInv, NEW w \in Workers, endBody(w), program' = program, NEW k \in Kernels
  PROVE  Balanced(w, k)
<1> USE DEF LivePlaces, GonePlaces, ChosenPlaces, context, choice, status
<1> DEFINE r == RunningKernel[w]
<1>1. /\ Known(w) /\ Local(w) /\ WorkersTyped /\ KernelsTyped
  BY DEF TypeInv, TokenInv
<1> USE DEF goto
<1>2. CASE replaceThread(w)
  <2>1. /\ at[w] = "end" /\ r \in Kernels /\ NewThread[w] = NULL
        /\ UNCHANGED <<RunningKernel, thread, NumSpawnedThreads>>
    BY <1>1, <1>2 DEF replaceThread, Known, HoldsRunning, Local
  <2>2. CASE UNCHANGED <<NewThread, ReadyQueues>>
    <3>1. at'[w] \in {"decide", "deregister"}
      BY <1>1, <1>2 DEF replaceThread, WorkersTyped
    <3>2. (runs(w, k)' <=> runs(w, k)) /\ (chosenFor(w, k)' <=> chosenFor(w, k))
      BY <2>1, <2>2, <3>1 DEF runs, selecting, chosenFor
    <3>3. QED
      BY <2>1, <2>2, <3>2, SameWeight, NothingMoved
  <2>3. CASE ~UNCHANGED <<NewThread, ReadyQueues>>
    <3>1. /\ ReadyQueues[r] # <<>> /\ at'[w] = "deregister"
          /\ ReadyQueues' = [ReadyQueues EXCEPT ![r] = Tail(ReadyQueues[r])]
          /\ NewThread'[w] = Head(ReadyQueues[r])
      BY <1>1, <1>2, <2>3 DEF replaceThread, WorkersTyped
    <3>2. ReadyQueues[r] \in Seq(GreenThreads)
      BY <1>1, <2>1 DEF KernelsTyped
    <3>3. /\ Len(Tail(ReadyQueues[r])) = Len(ReadyQueues[r]) - 1
          /\ NewThread'[w] # NULL
      BY <3>1, <3>2, NullAssumption
    <3>4. /\ (runs(w, k)' <=> runs(w, k))
          /\ ~chosenFor(w, k) /\ (chosenFor(w, k)' <=> k = r)
      BY <2>1, <3>1, <3>3 DEF runs, selecting, chosenFor
    <3>5. /\ Weight(w, k) = one(runs(w, k)) + 0
          /\ Weight(w, k)' = one(runs(w, k)) + IF k = r THEN 1 ELSE 0
      BY <3>4 DEF Weight, one
    <3>6. one(runs(w, k)) \in Int /\ Len(ReadyQueues[k]) \in Nat /\ NumSpawnedThreads[k] \in Int
      BY <1>1 DEF KernelsTyped, one
    <3>7. CASE k = r
      <4>1. Len(ReadyQueues'[k]) = Len(ReadyQueues[k]) - 1
        BY <1>1, <2>1, <3>1, <3>3, <3>7 DEF KernelsTyped
      <4>2. Weight(w, k)' = Weight(w, k) + 1 /\ Weight(w, k) \in Int
        BY <3>5, <3>6, <3>7
      <4>3. Moved(w, k) = 0
        BY <3>6, <4>1, <4>2 DEF Moved
      <4>4. QED
        BY <2>1, <3>6, <4>3 DEF Balanced
    <3>8. CASE k # r
      <4>1. ReadyQueues'[k] = ReadyQueues[k] /\ Weight(w, k)' = Weight(w, k)
        BY <1>1, <3>1, <3>5, <3>6, <3>8 DEF KernelsTyped
      <4>2. Weight(w, k) \in Int
        BY <3>5, <3>6
      <4>3. QED
        BY <2>1, <3>6, <4>1, <4>2 DEF Balanced, Moved
    <3>9. QED
      BY <3>7, <3>8
  <2>4. QED
    BY <2>2, <2>3
<1>3. CASE endKernel(w) \/ leaveKernel(w) \/ repeatBody(w)
  <2>1. /\ at[w] = "decide" /\ at'[w] \in {"deregister", "run"}
        /\ UNCHANGED <<RunningKernel, NewThread, NumSpawnedThreads, ReadyQueues>>
    BY <1>1, <1>3 DEF endKernel, leaveKernel, repeatBody, WorkersTyped
  <2>2. thread[w] # NULL /\ thread'[w] # NULL
    BY <1>1, <1>3, <2>1, NewIsThread, NullAssumption
       DEF endKernel, leaveKernel, repeatBody, WorkersTyped, Known
  <2>3. (runs(w, k)' <=> runs(w, k)) /\ (chosenFor(w, k)' <=> chosenFor(w, k))
    BY <2>1, <2>2 DEF runs, selecting, chosenFor
  <2>4. QED
    BY <2>1, <2>3, SameWeight, NothingMoved
<1>4. CASE deregisterThread(w)
  <2>1. /\ at[w] = "deregister" /\ at'[w] \in {"terminate", "leave"} /\ thread[w] # NULL
        /\ NumSpawnedThreads' = [NumSpawnedThreads EXCEPT ![r] = @ - 1]
        /\ UNCHANGED <<RunningKernel, NewThread, thread, ReadyQueues>>
    BY <1>1, <1>4 DEF deregisterThread, WorkersTyped, Known
  <2>2. ~runs(w, k)' /\ (runs(w, k) <=> k = r) /\ (chosenFor(w, k)' <=> chosenFor(w, k))
    BY <2>1 DEF runs, selecting, chosenFor
  <2>3. one(chosenFor(w, k)) \in Int /\ Len(ReadyQueues[k]) \in Nat /\ NumSpawnedThreads[k] \in Int
    BY <1>1 DEF KernelsTyped, one
  <2>4. CASE k = r
    <3>1. Weight(w, k) = one(chosenFor(w, k)) + 1 /\ Weight(w, k)' = one(chosenFor(w, k))
      BY <2>2, <2>3, <2>4 DEF Weight, one
    <3>2. Moved(w, k) = -1
      BY <2>1, <2>3, <3>1 DEF Moved
    <3>3. NumSpawnedThreads'[k] = NumSpawnedThreads[k] - 1
      BY <1>1, <2>1, <2>4 DEF KernelsTyped
    <3>4. QED
      BY <2>3, <3>2, <3>3 DEF Balanced
  <2>5. CASE k # r
    <3>1. Weight(w, k)' = Weight(w, k) /\ Weight(w, k) \in Int
      BY <2>2, <2>3, <2>5 DEF Weight, one
    <3>2. NumSpawnedThreads'[k] = NumSpawnedThreads[k]
      BY <1>1, <2>1, <2>5 DEF KernelsTyped
    <3>3. QED
      BY <2>1, <2>3, <3>1, <3>2 DEF Balanced, Moved
  <2>6. QED
    BY <2>4, <2>5
<1>5. CASE terminateKernel(w) \/ deactivateQueue(w) \/ decrementActive(w) \/ leave(w)
  <2>1. /\ UNCHANGED <<RunningKernel, NewThread, NumSpawnedThreads, ReadyQueues>>
        /\ at[w] \in GonePlaces
        /\ at'[w] \in GonePlaces \/ (at'[w] = "main" /\ thread'[w] = NULL)
    BY <1>1, <1>5 DEF terminateKernel, deactivateQueue, decrementActive, leave, WorkersTyped
  <2>2. (runs(w, k)' <=> runs(w, k)) /\ (chosenFor(w, k)' <=> chosenFor(w, k))
    BY <2>1 DEF runs, selecting, chosenFor
  <2>3. QED
    BY <2>1, <2>2, SameWeight, NothingMoved
<1>6. QED
  BY <1>2, <1>3, <1>4, <1>5 DEF endBody

LEMMA CountsBegin == Init => ThreadsCounted
<1> SUFFICES ASSUME Init, NEW k \in Kernels PROVE NumSpawnedThreads[k] = threadsOf(k)
  BY DEF ThreadsCounted
<1>1. { w \in Workers : runs(w, k) } = {}
  BY DEF Init, runs
<1>2. { w \in Workers : NewThread[w] # NULL /\ RunningKernel[w] = k } = {}
  BY DEF Init
<1>3. Cardinality({}) = 0
  BY FS_EmptySet
<1>4. ReadyQueues[k] = <<>> /\ NumSpawnedThreads[k] = 0 /\ Len(<<>>) = 0
  BY DEF Init
<1>5. threadsOf(k) = Len(ReadyQueues[k]) + Cardinality({}) + Cardinality({})
  BY <1>1, <1>2 DEF threadsOf
<1>6. QED
  BY <1>3, <1>4, <1>5

(* NumSpawnedThreads counts the green threads, wherever they are, for any  *)
(* programs and any number of native threads.                              *)
THEOREM ThreadsCountedHolds == Spec => []ThreadsCounted
<1>1. TypeInv /\ TypeInv' /\ TokenInv /\ TokenInv' /\ ThreadsCounted /\ [Next]_vars
        => ThreadsCounted'
  <2> SUFFICES ASSUME TypeInv, TypeInv', TokenInv, TokenInv', ThreadsCounted, [Next]_vars
               PROVE  ThreadsCounted'
    OBVIOUS
  <2>1. ASSUME NEW w \in Workers, step(w) PROVE ThreadsCounted'
    <3>1. program' = program /\ \A v \in Workers \ {w} : Untouched(v)
      BY <2>1, OthersUntouched DEF step, TypeInv
    <3>2. OthersStay(w)
      BY <3>1 DEF OthersStay, Untouched
    <3>3. \A k \in Kernels : Balanced(w, k)
      BY <2>1, <3>1, SelectBalances, BodyBalances, EndBalances DEF step
    <3>4. QED
      BY <3>2, <3>3, CountsKept
  <2>2. CASE UNCHANGED vars
    BY <2>2 DEF vars, status, context, choice, ThreadsCounted, threadsOf, runs, selecting, Kernels,
       Body
  <2>3. QED
    BY <2>1, <2>2 DEF Next, finished
<1>2. QED
  BY <1>1, CountsBegin, TypesHold, TokensHold, PTL DEF Spec

(* The variables have their types; no count of threads is negative.        *)
THEOREM TypeOKHolds == Spec => []TypeOK
<1>1. TypeInv /\ ThreadsCounted => TypeOK
  <2> SUFFICES ASSUME TypeInv, ThreadsCounted PROVE TypeOK
    OBVIOUS
  <2>1. DataTyped /\ KernelsTyped /\ WorkersTyped /\ SearchTyped
    BY DEF TypeInv
  <2>2. NumSpawnedThreads \in [Kernels -> Nat]
    <3>1. ASSUME NEW k \in Kernels PROVE NumSpawnedThreads[k] \in Nat
      <4>1. /\ { w \in Workers : runs(w, k) } \subseteq Workers
            /\ { w \in Workers : NewThread[w] # NULL /\ RunningKernel[w] = k } \subseteq Workers
        OBVIOUS
      <4>2. /\ Cardinality({ w \in Workers : runs(w, k) }) \in Nat
            /\ Cardinality({ w \in Workers : NewThread[w] # NULL /\ RunningKernel[w] = k }) \in Nat
        BY <4>1, SizeAssumption, FS_Subset, FS_CardinalityType
      <4>3. Len(ReadyQueues[k]) \in Nat
        BY <2>1 DEF KernelsTyped
      <4>4. QED
        BY <4>2, <4>3 DEF ThreadsCounted, threadsOf
    <3>2. QED
      BY <2>1, <3>1 DEF KernelsTyped
  <2>3. \A k \in Kernels : \A i \in DOMAIN ReadyQueues[k] : ReadyQueues[k][i] \in GreenThreads
    BY <2>1 DEF KernelsTyped
  <2>4. \A w \in Workers : \A i \in DOMAIN plan[w] : plan[w][i] \subseteq Kernels
    BY <2>1 DEF SearchTyped
  <2>5. QED
    BY <2>1, <2>2, <2>3, <2>4 DEF TypeOK, DataTyped, KernelsTyped, WorkersTyped, SearchTyped
<1>2. QED
  BY <1>1, TypesHold, ThreadsCountedHolds, PTL

-----------------------------------------------------------------------------
(* The end of a kernel                                                     *)

(* Where a native thread is after a step that is about ends.               *)
LEMMA WhoEnds ==
  ASSUME TypeInv, NEW w \in Workers, step(w)
  PROVE  /\ UNCHANGED Terminated \/ terminateKernel(w)
         /\ UNCHANGED Terminating \/ acknowledgeCanTerminate(w) \/ endKernel(w)
         /\ UNCHANGED NumSpawnedThreads \/ spawn(w) \/ deregisterThread(w)
         /\ at'[w] = "terminate" => deregisterThread(w)
         /\ at'[w] = "deregister" =>
              endKernel(w) \/ leaveKernel(w) \/ (replaceThread(w) /\ NewThread'[w] # NULL)
<1> USE DEF status
<1>1. WorkersTyped
  BY DEF TypeInv
<1>2. CASE select(w)
  BY <1>1, <1>2 DEF select, selectNext, selectNothing, trySchedule, passKernel, pickParallel,
     pickSequential, walkOn, noKernel, takeReady, checkTerminating, spawn, noThread, switchThread,
     scheduleOut, enterThread, casSequentialKernelRunning, goto, WorkersTyped
<1>3. CASE runBody(w)
  BY <1>1, <1>3 DEF runBody, resume, bodyEnds, push, pop, checkDeactivated, reduceRepeat,
     readReservedHead, drain, checkTermination, acknowledgeCanTerminate, goto, WorkersTyped
<1>4. CASE replaceThread(w)
  <2>1. at[w] = "end" /\ RunningKernel[w] \in Kernels
    BY <1>4, LiveThread DEF replaceThread, LivePlaces
  <2>2. ReadyQueues[RunningKernel[w]] \in Seq(GreenThreads)
    BY <2>1 DEF TypeInv, KernelsTyped
  <2>3. ReadyQueues[RunningKernel[w]] # <<>> => Head(ReadyQueues[RunningKernel[w]]) # NULL
    BY <2>2, ReadyTyped, NullAssumption
  <2>4. QED
    BY <1>1, <1>4, <2>3 DEF replaceThread, goto, WorkersTyped
<1>5. CASE endBody(w) /\ ~replaceThread(w)
  BY <1>1, <1>5 DEF endBody, endKernel, leaveKernel, repeatBody, deregisterThread,
     terminateKernel, deactivateQueue, decrementActive, leave, goto, WorkersTyped
<1>6. QED
  BY <1>2, <1>3, <1>4, <1>5 DEF step

(* The count of a kernel has all that is with one native thread.           *)
LEMMA CountCovers ==
  ASSUME TypeInv, ThreadsCounted, NEW w \in Workers, NEW k \in Kernels
  PROVE  NumSpawnedThreads[k] \in Nat /\ Weight(w, k) \in Nat /\ NumSpawnedThreads[k] >= Weight(w, k)
<1> DEFINE R == { v \in Workers : runs(v, k) }
           S == { v \in Workers : chosenFor(v, k) }
<1>1. R \in SUBSET Workers /\ S \in SUBSET Workers
  OBVIOUS
<1>2. ASSUME NEW T \in SUBSET Workers
      PROVE  Cardinality(T) \in Nat /\ (w \in T => Cardinality(T) >= 1)
  <2>1. IsFiniteSet(T)
    BY SizeAssumption, FS_Subset
  <2>2. Cardinality(T) \in Nat /\ (Cardinality(T) = 0 <=> T = {})
    BY <2>1, FS_CardinalityType, FS_EmptySet
  <2>3. QED
    BY <2>2
<1>3. NumSpawnedThreads[k] = Len(ReadyQueues[k]) + Cardinality(R) + Cardinality(S)
  BY DEF ThreadsCounted, threadsOf, chosenFor
<1>4. (w \in R <=> runs(w, k)) /\ (w \in S <=> chosenFor(w, k))
  OBVIOUS
<1>5. Len(ReadyQueues[k]) \in Nat
  BY DEF TypeInv, KernelsTyped
<1> HIDE DEF R, S
<1>6. /\ Cardinality(R) \in Nat /\ (w \in R => Cardinality(R) >= 1)
      /\ Cardinality(S) \in Nat /\ (w \in S => Cardinality(S) >= 1)
  BY <1>1, <1>2
<1>7. PICK r \in Nat, s \in Nat : /\ r = one(runs(w, k)) /\ r <= Cardinality(R)
                                  /\ s = one(chosenFor(w, k)) /\ s <= Cardinality(S)
  BY <1>4, <1>6 DEF one
<1>8. Weight(w, k) = r + s
  BY <1>7 DEF Weight
<1>9. QED
  BY <1>3, <1>5, <1>6, <1>7, <1>8

(* A green thread that runs is counted, and so is the one that replaces it.*)
LEMMA LiveIsCounted ==
  ASSUME TypeInv, ThreadsCounted, NEW w \in Workers, at[w] \in LivePlaces
  PROVE  /\ RunningKernel[w] \in Kernels /\ NumSpawnedThreads[RunningKernel[w]] \in Nat
         /\ NumSpawnedThreads[RunningKernel[w]] >= 1
         /\ NewThread[w] # NULL => NumSpawnedThreads[RunningKernel[w]] >= 2
<1> DEFINE k == RunningKernel[w]
<1>1. k \in Kernels /\ thread[w] # NULL
  BY LiveThread, NullAssumption
<1>2. runs(w, k) /\ (chosenFor(w, k) <=> NewThread[w] # NULL)
  BY <1>1 DEF runs, selecting, chosenFor, LivePlaces
<1>3. Weight(w, k) >= 1 /\ (NewThread[w] # NULL => Weight(w, k) >= 2)
  BY <1>2 DEF Weight, one
<1>4. NumSpawnedThreads[k] \in Nat /\ Weight(w, k) \in Nat /\ NumSpawnedThreads[k] >= Weight(w, k)
  BY <1>1, CountCovers
<1>5. QED
  BY <1>1, <1>3, <1>4
-----------------------------------------------------------------------------
(* What holds around the end of a kernel: it is Terminated by the one      *)
(* native thread that counted it down to zero.                             *)
EndsAt(w) ==
  LET k == RunningKernel[w] IN
  /\ at[w] = "terminate" =>
       Terminating[k] /\ NumSpawnedThreads[k] = 0 /\ ~Terminated[k]
  /\ at[w] = "deregister" /\ Event[w] = "KernelTerminated" /\ NewThread[w] = NULL =>
       Terminating[k]

EndInv ==
  /\ \A k \in Kernels : Terminated[k] => Terminating[k] /\ NumSpawnedThreads[k] = 0
  /\ \A w \in Workers : EndsAt(w)
  /\ \A v, w \in Workers :
       at[v] = "terminate" /\ at[w] = "terminate" /\ RunningKernel[v] = RunningKernel[w]
         => v = w

(* What can break it: isKernelTerminating was asked before the kernel came *)
(* to its end, and the new thread is counted after its last one was gone.  *)
LateSpawn ==
  \E w \in Workers :
    /\ spawn(w)
    /\ LET k == RunningKernel[w] IN
       \/ Terminated[k]
       \/ \E v \in Workers : at[v] = "terminate" /\ RunningKernel[v] = k

LEMMA EndsBegin == Init => EndInv
BY DEF Init, EndInv, EndsAt

LEMMA EndsStep ==
  ASSUME TypeInv, TypeInv', ThreadsCounted, EndInv, NEW w \in Workers, step(w), ~LateSpawn
  PROVE  EndInv'
<1> DEFINE k0 == RunningKernel[w]
<1>1. /\ Kernels' = Kernels /\ WorkersTyped /\ KernelsTyped /\ EndsAt(w)
      /\ \A v \in Workers \ {w} : Untouched(v) /\ EndsAt(v)
  BY OthersUntouched DEF step, Kernels, Body, TypeInv, EndInv
<1>3. CASE spawn(w)
  <2>1. /\ at[w] = "spawn" /\ at'[w] = "switch" /\ k0 \in Kernels
        /\ NumSpawnedThreads' = [NumSpawnedThreads EXCEPT ![k0] = @ + 1]
        /\ UNCHANGED <<Terminated, Terminating, RunningKernel, Event>>
    BY <1>1, <1>3 DEF spawn, goto, WorkersTyped, context, TypeInv, Known, HoldsRunning,
       ChosenPlaces
  <2>2. /\ ~Terminated[k0]
        /\ \A v \in Workers : at[v] = "terminate" => RunningKernel[v] # k0
    BY <1>3 DEF LateSpawn
  <2>3. \A k \in Kernels : k # k0 => NumSpawnedThreads'[k] = NumSpawnedThreads[k]
    BY <1>1, <2>1 DEF KernelsTyped
  <2>4. \A k \in Kernels : Terminated[k] => k # k0
    BY <2>2
  <2>5. \A v \in Workers \ {w} : at[v] = "terminate" => RunningKernel[v] # k0
                                  /\ RunningKernel[v] \in Kernels
    BY <2>2 DEF TypeInv, Known, HoldsRunning, GonePlaces
  <2>6. \A v \in Workers \ {w} : EndsAt(v)'
    BY <1>1, <2>1, <2>3, <2>5 DEF EndsAt, Untouched
  <2>7. EndsAt(w)'
    BY <2>1 DEF EndsAt
  <2>8. QED
    BY <1>1, <2>1, <2>3, <2>4, <2>6, <2>7 DEF EndInv, Untouched
<1>4. CASE deregisterThread(w)
  <2>1. /\ at[w] = "deregister" /\ at'[w] \in {"terminate", "leave"} /\ k0 \in Kernels
        /\ NumSpawnedThreads' = [NumSpawnedThreads EXCEPT ![k0] = @ - 1]
        /\ UNCHANGED <<Terminated, Terminating, RunningKernel, Event, NewThread>>
        /\ at'[w] = "terminate" => Event[w] = "KernelTerminated" /\ NumSpawnedThreads[k0] = 1
    BY <1>1, <1>4, LiveThread DEF deregisterThread, goto, WorkersTyped, context, choice, LivePlaces,
       kernelTermination
  <2>2. NumSpawnedThreads[k0] \in Nat /\ NumSpawnedThreads[k0] >= 1
        /\ (NewThread[w] # NULL => NumSpawnedThreads[k0] >= 2)
    BY <2>1, LiveIsCounted DEF LivePlaces
  <2>3. ~Terminated[k0] /\ \A v \in Workers : at[v] = "terminate" => RunningKernel[v] # k0
    BY <2>1, <2>2 DEF EndInv, EndsAt
  <2>4. /\ \A k \in Kernels : k # k0 => NumSpawnedThreads'[k] = NumSpawnedThreads[k]
        /\ NumSpawnedThreads'[k0] = NumSpawnedThreads[k0] - 1
    BY <1>1, <2>1 DEF KernelsTyped
  <2>5. \A v \in Workers \ {w} : at[v] = "terminate" => RunningKernel[v] \in Kernels
    BY DEF TypeInv, Known, HoldsRunning, GonePlaces
  <2>6. \A v \in Workers \ {w} : EndsAt(v)'
    BY <1>1, <2>1, <2>3, <2>4, <2>5 DEF EndsAt, Untouched
  <2>7. EndsAt(w)'
    BY <1>1, <2>1, <2>2, <2>3, <2>4 DEF EndsAt
  <2>8. QED
    BY <1>1, <2>1, <2>3, <2>4, <2>6, <2>7 DEF EndInv, Untouched
<1>5. CASE terminateKernel(w)
  <2>1. /\ at[w] = "terminate" /\ at'[w] = "flag" /\ k0 \in Kernels
        /\ Terminated' = [Terminated EXCEPT ![k0] = TRUE]
        /\ UNCHANGED <<NumSpawnedThreads, Terminating, RunningKernel, Event, NewThread>>
    BY <1>1, <1>5 DEF terminateKernel, goto, WorkersTyped, context, choice, TypeInv, Known,
       HoldsRunning, GonePlaces
  <2>2. Terminating[k0] /\ NumSpawnedThreads[k0] = 0
    BY <1>1, <2>1 DEF EndsAt
  <2>3. \A k \in Kernels : k # k0 => Terminated'[k] = Terminated[k]
    BY <1>1, <2>1 DEF KernelsTyped
  <2>4. \A v \in Workers \ {w} : at[v] = "terminate" => RunningKernel[v] # k0
                                  /\ RunningKernel[v] \in Kernels
    BY <2>1 DEF EndInv, TypeInv, Known, HoldsRunning, GonePlaces
  <2>5. \A v \in Workers \ {w} : EndsAt(v)'
    BY <1>1, <2>1, <2>3, <2>4 DEF EndsAt, Untouched
  <2>6. EndsAt(w)'
    BY <2>1 DEF EndsAt
  <2>7. QED
    BY <1>1, <2>1, <2>2, <2>3, <2>5, <2>6 DEF EndInv, Untouched
<1>6. CASE acknowledgeCanTerminate(w) \/ endKernel(w)
  <2>1. /\ at[w] \in {"acknowledge", "decide"} /\ at'[w] \in {"end", "deregister"} /\ k0 \in Kernels
        /\ Terminating' = [Terminating EXCEPT ![k0] = TRUE]
        /\ UNCHANGED <<NumSpawnedThreads, Terminated, RunningKernel, NewThread>>
    BY <1>1, <1>6, LiveThread DEF acknowledgeCanTerminate, endKernel, goto, WorkersTyped,
       context, choice, LivePlaces
  <2>2. Terminating'[k0] /\ \A k \in Kernels : Terminating[k] => Terminating'[k]
    BY <1>1, <2>1 DEF KernelsTyped
  <2>3. \A v \in Workers \ {w} : at[v] \in {"terminate", "deregister"} => RunningKernel[v] \in Kernels
    BY DEF TypeInv, Known, HoldsRunning, GonePlaces, LivePlaces
  <2>4. \A v \in Workers \ {w} : EndsAt(v)'
    BY <1>1, <2>1, <2>2, <2>3 DEF EndsAt, Untouched
  <2>5. EndsAt(w)'
    BY <2>1, <2>2 DEF EndsAt
  <2>6. QED
    BY <1>1, <2>1, <2>2, <2>4, <2>5 DEF EndInv, Untouched
<1>7. CASE /\ ~spawn(w) /\ ~deregisterThread(w) /\ ~terminateKernel(w)
           /\ ~acknowledgeCanTerminate(w) /\ ~endKernel(w)
  <2>1. /\ UNCHANGED <<Terminated, Terminating, NumSpawnedThreads>> /\ at'[w] # "terminate"
        /\ at'[w] = "deregister" => leaveKernel(w) \/ NewThread'[w] # NULL
    BY <1>7, WhoEnds
  <2>3. leaveKernel(w) => Event'[w] # "KernelTerminated"
    BY <1>1 DEF leaveKernel, WorkersTyped
  <2>4. EndsAt(w)'
    BY <2>1, <2>3 DEF EndsAt
  <2>5. \A v \in Workers \ {w} : EndsAt(v)'
    BY <1>1, <2>1 DEF EndsAt, Untouched
  <2>6. QED
    BY <1>1, <2>1, <2>4, <2>5 DEF EndInv, Untouched
<1>8. QED
  BY <1>3, <1>4, <1>5, <1>6, <1>7

(* A late spawn does break it.                                             *)
LEMMA LateBreaks ==
  ASSUME TypeInv, ThreadsCounted, EndInv, [Next]_vars, LateSpawn
  PROVE  ~EndInv'
<1>1. PICK w \in Workers :
        /\ spawn(w)
        /\ \/ Terminated[RunningKernel[w]]
           \/ \E v \in Workers : at[v] = "terminate" /\ RunningKernel[v] = RunningKernel[w]
  BY DEF LateSpawn
<1> DEFINE k == RunningKernel[w]
<1>2. /\ at[w] = "spawn" /\ at'[w] = "switch" /\ \A v \in Workers \ {w} : at'[v] = at[v]
      /\ NumSpawnedThreads' = [NumSpawnedThreads EXCEPT ![k] = @ + 1]
      /\ UNCHANGED <<Terminated, RunningKernel>>
  BY <1>1 DEF spawn, goto, context, TypeInv, WorkersTyped
<1>3. k \in Kernels /\ Kernels' = Kernels
  BY <1>2 DEF TypeInv, Known, HoldsRunning, ChosenPlaces, Next, step, finished, vars, Kernels, Body
<1>4. NumSpawnedThreads'[k] # 0
  <2>1. NumSpawnedThreads[k] \in Nat
    BY <1>1, <1>3, CountCovers
  <2>2. NumSpawnedThreads'[k] = NumSpawnedThreads[k] + 1
    BY <1>2, <1>3 DEF TypeInv, KernelsTyped
  <2>3. QED
    BY <2>1, <2>2
<1>5. CASE Terminated[k]
  BY <1>2, <1>3, <1>4, <1>5 DEF EndInv
<1>6. ASSUME NEW v \in Workers, at[v] = "terminate", RunningKernel[v] = k PROVE ~EndInv'
  <2>1. at'[v] = "terminate" /\ RunningKernel'[v] = k
    BY <1>2, <1>6
  <2>2. ~EndsAt(v)'
    BY <1>4, <2>1 DEF EndsAt
  <2>3. QED
    BY <2>2 DEF EndInv
<1>7. QED
  BY <1>1, <1>5, <1>6

LEMMA EndsStays == EndInv /\ UNCHANGED vars => EndInv'
BY DEF vars, status, context, choice, EndInv, EndsAt, Kernels, Body

LEMMA EndsNext ==
  ASSUME TypeInv, TypeInv', ThreadsCounted, EndInv, Next, ~LateSpawn
  PROVE  EndInv'
BY EndsStays, EndsStep DEF Next, finished

(* A kernel that is Terminated, or about to be by the one native thread    *)
(* that counted it down to zero, has no green thread.  The one step that   *)
(* breaks this, and every such step does, is the late count of a spawned   *)
(* thread.                                                                 *)
THEOREM EndInvHolds == Spec => EndInv /\ [][EndInv => (EndInv' <=> ~LateSpawn)]_vars
<1>1. TypeInv /\ TypeInv' /\ ThreadsCounted /\ [Next]_vars =>
        [EndInv => (EndInv' <=> ~LateSpawn)]_vars
  BY EndsNext, LateBreaks
<1>2. QED
  BY <1>1, EndsBegin, TypesHold, ThreadsCountedHolds, PTL DEF Spec

LEMMA EndInvUntil == Spec => []EndInv \/ <><<LateSpawn>>_vars
<1>1. TypeInv /\ TypeInv' /\ ThreadsCounted /\ EndInv /\ [Next]_vars /\ [~LateSpawn]_vars =>
        EndInv'
  BY EndsNext, EndsStays
<1>2. QED
  BY <1>1, EndsBegin, TypesHold, ThreadsCountedHolds, PTL DEF Spec

(* A Terminated kernel is over: no thread of it is left or will come,      *)
(* unless a spawned thread is counted late.                                *)
THEOREM TerminatedIsOverHolds == Spec => []TerminatedIsOver \/ <><<LateSpawn>>_vars
<1>1. EndInv => TerminatedIsOver
  BY DEF EndInv, TerminatedIsOver
<1>2. QED
  BY <1>1, EndInvUntil, PTL

-----------------------------------------------------------------------------
(* Without speculation a green thread goes only when its kernel ends, or   *)
(* when another one takes its place.                                       *)
GoesAtTheEnd(w) ==
  at[w] = "deregister" => NewThread[w] # NULL \/ Event[w] = "KernelTerminated"

Pending(k) == \E w \in Workers : at[w] = "terminate" /\ RunningKernel[w] = k

LastInv == LastThreadTerminates /\ \A w \in Workers : GoesAtTheEnd(w)

LEMMA LastStep ==
  ASSUME ~Speculation, ~RandomJumps, TypeInv, TypeInv', ThreadsCounted, LastInv, NEW w \in Workers, step(w)
  PROVE  LastInv'
<1> DEFINE k0 == RunningKernel[w]
<1>1. /\ Kernels' = Kernels /\ WorkersTyped /\ KernelsTyped
      /\ \A v \in Workers \ {w} : Untouched(v)
  BY OthersUntouched DEF step, Kernels, Body, TypeInv
<1>2. \A v \in Workers \ {w} : GoesAtTheEnd(v)'
  BY <1>1 DEF LastInv, GoesAtTheEnd, Untouched
<1>3. GoesAtTheEnd(w)'
  <2>1. at'[w] = "deregister" => endKernel(w) \/ NewThread'[w] # NULL
    BY WhoEnds DEF leaveKernel
  <2>2. endKernel(w) => Event'[w] = "KernelTerminated"
    BY <1>1 DEF endKernel, WorkersTyped
  <2>3. QED
    BY <2>1, <2>2 DEF GoesAtTheEnd
<1>4. ASSUME NEW k \in Kernels, Terminating'[k], NumSpawnedThreads'[k] = 0
      PROVE  Terminated'[k] \/ Pending(k)'
  <2>1. CASE spawn(w)
    <3>1. /\ at[w] = "spawn" /\ k0 \in Kernels
          /\ NumSpawnedThreads' = [NumSpawnedThreads EXCEPT ![k0] = @ + 1]
          /\ UNCHANGED <<Terminated, Terminating>>
      BY <1>1, <2>1 DEF spawn, goto, TypeInv, Known, HoldsRunning, ChosenPlaces
    <3>2. NumSpawnedThreads[k0] \in Nat
      BY <3>1, CountCovers
    <3>3. k # k0 /\ NumSpawnedThreads[k] = 0
      BY <1>1, <1>4, <3>1, <3>2 DEF KernelsTyped
    <3>4. Terminated[k] \/ Pending(k)
      BY <1>4, <3>1, <3>3 DEF LastInv, LastThreadTerminates, Pending
    <3>5. QED
      BY <1>1, <3>1, <3>4 DEF Pending, Untouched
  <2>2. CASE deregisterThread(w)
    <3>1. /\ at[w] = "deregister" /\ k0 \in Kernels
          /\ NumSpawnedThreads' = [NumSpawnedThreads EXCEPT ![k0] = @ - 1]
          /\ UNCHANGED <<Terminated, Terminating, RunningKernel>>
          /\ at'[w] = IF Event[w] = "KernelTerminated" /\ NumSpawnedThreads[k0] = 1
                      THEN "terminate" ELSE "leave"
      BY <1>1, <2>2, LiveThread DEF deregisterThread, goto, WorkersTyped, context, LivePlaces,
         kernelTermination
    <3>2. NumSpawnedThreads[k0] \in Nat /\ NumSpawnedThreads[k0] >= 1
          /\ (NewThread[w] # NULL => NumSpawnedThreads[k0] >= 2)
      BY <3>1, LiveIsCounted DEF LivePlaces
    <3>3. CASE k = k0
      <4>1. NumSpawnedThreads[k0] = 1 /\ NewThread[w] = NULL
        BY <1>1, <1>4, <3>1, <3>2, <3>3 DEF KernelsTyped
      <4>2. at'[w] = "terminate" /\ RunningKernel'[w] = k
        BY <3>1, <3>3, <4>1 DEF LastInv, GoesAtTheEnd
      <4>3. QED
        BY <4>2 DEF Pending
    <3>4. CASE k # k0
      <4>1. NumSpawnedThreads[k] = 0
        BY <1>1, <1>4, <3>1, <3>4 DEF KernelsTyped
      <4>2. Terminated[k] \/ Pending(k)
        BY <1>4, <3>1, <4>1 DEF LastInv, LastThreadTerminates, Pending
      <4>3. QED
        BY <1>1, <3>1, <4>2 DEF Pending, Untouched
    <3>5. QED
      BY <3>3, <3>4
  <2>3. CASE terminateKernel(w)
    <3>1. /\ at[w] = "terminate" /\ k0 \in Kernels
          /\ Terminated' = [Terminated EXCEPT ![k0] = TRUE]
          /\ UNCHANGED <<NumSpawnedThreads, Terminating, RunningKernel>>
      BY <1>1, <2>3 DEF terminateKernel, goto, context, TypeInv, Known, HoldsRunning, GonePlaces
    <3>2. Terminated'[k0] /\ (Terminated[k] => Terminated'[k])
      BY <1>1, <3>1 DEF KernelsTyped
    <3>3. Terminated[k] \/ Pending(k)
      BY <1>4, <3>1 DEF LastInv, LastThreadTerminates, Pending
    <3>4. QED
      BY <1>1, <3>1, <3>2, <3>3 DEF Pending, Untouched
  <2>4. CASE acknowledgeCanTerminate(w) \/ endKernel(w)
    <3>1. /\ at[w] \in {"acknowledge", "decide"} /\ k0 \in Kernels
          /\ Terminating' = [Terminating EXCEPT ![k0] = TRUE]
          /\ UNCHANGED <<NumSpawnedThreads, Terminated, RunningKernel>>
      BY <1>1, <2>4, LiveThread DEF acknowledgeCanTerminate, endKernel, goto, context, LivePlaces
    <3>2. NumSpawnedThreads[k0] >= 1
      BY <3>1, LiveIsCounted DEF LivePlaces
    <3>3. k # k0 /\ Terminating[k]
      BY <1>1, <1>4, <3>1, <3>2 DEF KernelsTyped
    <3>4. Terminated[k] \/ Pending(k)
      BY <1>4, <3>1, <3>3 DEF LastInv, LastThreadTerminates, Pending
    <3>5. QED
      BY <1>1, <3>1, <3>4 DEF Pending, Untouched
  <2>5. CASE /\ ~spawn(w) /\ ~deregisterThread(w) /\ ~terminateKernel(w)
             /\ ~acknowledgeCanTerminate(w) /\ ~endKernel(w)
    <3>1. UNCHANGED <<Terminated, Terminating, NumSpawnedThreads>>
      BY <2>5, WhoEnds
    <3>2. Terminated[k] \/ Pending(k)
      BY <1>4, <3>1 DEF LastInv, LastThreadTerminates, Pending
    <3>3. at[w] # "terminate"
      BY <2>5 DEF step, select, selectNext, trySchedule, passKernel, pickParallel,
         pickSequential, walkOn, noKernel, selectNothing, takeReady, checkTerminating, noThread,
         switchThread, scheduleOut, enterThread, casSequentialKernelRunning, runBody, resume,
         bodyEnds, checkDeactivated, reduceRepeat, readReservedHead, drain, checkTermination,
         endBody, replaceThread, leaveKernel, repeatBody, deactivateQueue, decrementActive,
         leave, goto
    <3>4. QED
      BY <1>1, <3>1, <3>2, <3>3 DEF Pending, Untouched
  <2>6. QED
    BY <2>1, <2>2, <2>3, <2>4, <2>5
<1>5. QED
  BY <1>1, <1>2, <1>3, <1>4 DEF LastInv, LastThreadTerminates, Pending

(* The last green thread of a kernel terminates it, as long as threads do  *)
(* not leave parallel kernels by speculation.                              *)
THEOREM LastThreadTerminatesHolds ==
  ASSUME ~Speculation, ~RandomJumps PROVE Spec => []LastThreadTerminates
<1>1. Init => LastInv
  BY DEF Init, LastInv, GoesAtTheEnd, LastThreadTerminates
<1>2. TypeInv /\ TypeInv' /\ ThreadsCounted /\ LastInv /\ [Next]_vars => LastInv'
  <2>1. ASSUME LastInv, UNCHANGED vars PROVE LastInv'
    BY <2>1 DEF vars, status, context, choice, LastInv, LastThreadTerminates, GoesAtTheEnd,
       Kernels, Body
  <2>2. QED
    BY <2>1, LastStep DEF Next, finished
<1>3. LastInv => LastThreadTerminates
  BY DEF LastInv
<1>4. QED
  BY <1>1, <1>2, <1>3, TypesHold, ThreadsCountedHolds, PTL DEF Spec

-----------------------------------------------------------------------------
(* The inputs of k that are still counted: their producer is not           *)
(* Terminated, or a native thread has them left to deactivate.             *)
Uncounted(k) ==
  { q \in Inputs(k) : ~Terminated[Producer(q)] \/ \E w \in Workers : q \in left[w] }

LeftInv ==
  /\ \A w \in Workers : at[w] \notin {"flag", "count"} => left[w] = {}
  /\ \A w \in Workers : \A q \in left[w] : Terminated[Producer(q)]
  /\ \A v, w \in Workers : v # w => left[v] \cap left[w] = {}
  /\ \A q \in Queues : isDeactivated[q] => Terminated[Producer(q)]

ActiveCounts ==
  \A k \in Kernels : ActiveNonFeedbackInputQueues[k] = Cardinality(Uncounted(k))

EndedInv == \A k \in Kernels : Ended[k] => Uncounted(k) = {}

ActiveInv == LeftInv /\ ActiveCounts /\ EndedInv

LEMMA UncountedFinite ==
  ASSUME TypeInv, NEW k
  PROVE  /\ IsFiniteSet(Uncounted(k)) /\ Cardinality(Uncounted(k)) \in Nat
         /\ Cardinality(Uncounted(k)) = 0 <=> Uncounted(k) = {}
<1>1. Uncounted(k) \subseteq Queues /\ IsFiniteSet(Queues)
  BY ProgramFacts DEF Uncounted, Inputs, TypeInv
<1>2. QED
  BY <1>1, FS_Subset, FS_CardinalityType, FS_EmptySet

LEMMA ActiveBegins == Init => ActiveInv
<1> SUFFICES ASSUME Init PROVE ActiveInv
  OBVIOUS
<1>1. DataTyped
  BY TypesBegin DEF TypeInv
<1>2. \A q \in Queues : Producer(q) \in Kernels
  BY <1>1, ProgramFacts
<1>3. LeftInv
  BY DEF Init, LeftInv
<1>4. \A k \in Kernels : Uncounted(k) = Inputs(k)
  BY <1>2 DEF Init, Uncounted, Inputs
<1>5. QED
  BY <1>3, <1>4 DEF Init, ActiveInv, ActiveCounts, EndedInv

(* What a step of w does to the queues that are left, and to the counts.   *)
LEMMA WhoDeactivates ==
  ASSUME TypeInv, NEW w \in Workers, step(w)
  PROVE  /\ UNCHANGED left \/ terminateKernel(w) \/ decrementActive(w)
         /\ UNCHANGED ActiveNonFeedbackInputQueues \/ decrementActive(w)
         /\ UNCHANGED isDeactivated \/ deactivateQueue(w)
         /\ UNCHANGED Ended \/ checkTermination(w) \/ endKernel(w)
         /\ at'[w] \in {"flag", "count"} =>
              terminateKernel(w) \/ deactivateQueue(w) \/ decrementActive(w)
         /\ at[w] \in {"flag", "count"} =>
              deactivateQueue(w) \/ decrementActive(w) \/ (leave(w) /\ (at[w] = "flag" => left[w] = {}))
         /\ leave(w) => at[w] \in {"flag", "leave"}
<1> USE DEF kernels, locals
<1>1. WorkersTyped
  BY DEF TypeInv
<1>2. CASE select(w)
  BY <1>1, <1>2 DEF select, selectNext, selectNothing, trySchedule, passKernel, pickParallel,
     pickSequential, walkOn, noKernel, takeReady, checkTerminating, spawn, noThread, switchThread,
     scheduleOut, enterThread, casSequentialKernelRunning, goto, WorkersTyped, leave
<1>3. CASE runBody(w)
  BY <1>1, <1>3 DEF runBody, resume, bodyEnds, push, pop, checkDeactivated, reduceRepeat,
     readReservedHead, drain, checkTermination, acknowledgeCanTerminate, goto, WorkersTyped, leave
<1>4. CASE endBody(w)
  BY <1>1, <1>4 DEF endBody, replaceThread, endKernel, leaveKernel, repeatBody, deregisterThread,
     terminateKernel, deactivateQueue, decrementActive, leave, goto, WorkersTyped
<1>5. QED
  BY <1>2, <1>3, <1>4 DEF step

(* A kernel that is terminated leaves its queues counted until they are    *)
(* deactivated.                                                            *)
LEMMA TerminateCounts ==
  ASSUME TypeInv, TypeInv', EndInv, ActiveInv, NEW w \in Workers, terminateKernel(w),
         program' = program
  PROVE  ActiveInv'
<1> DEFINE k0 == RunningKernel[w]
<1>1. /\ DataTyped /\ WorkersTyped /\ KernelsTyped /\ Kernels' = Kernels /\ Queues' = Queues
      /\ \A q : Producer(q)' = Producer(q)
      /\ \A k : Inputs(k)' = Inputs(k)
  BY DEF Kernels, Body, Queues, Producer, Inputs, Consumer, isFeedbackQueue, TypeInv
<1>2. /\ at[w] = "terminate" /\ at' = [at EXCEPT ![w] = "flag"] /\ k0 \in Kernels
      /\ Terminated' = [Terminated EXCEPT ![k0] = TRUE]
      /\ left' = [left EXCEPT ![w] = OutQueueTable(k0)]
      /\ UNCHANGED <<ActiveNonFeedbackInputQueues, isDeactivated, Ended>>
  BY DEF terminateKernel, goto, kernels, TypeInv, Known, HoldsRunning, GonePlaces
<1>3. ~Terminated[k0] /\ left[w] = {}
  BY <1>2 DEF EndInv, EndsAt, ActiveInv, LeftInv
<1>4. \A k \in Kernels : Terminated'[k] <=> k = k0 \/ Terminated[k]
  BY <1>1, <1>2 DEF KernelsTyped
<1>5. /\ left'[w] = OutQueueTable(k0) /\ at'[w] = "flag"
      /\ \A v \in Workers \ {w} : left'[v] = left[v] /\ at'[v] = at[v]
  BY <1>1, <1>2 DEF DataTyped, WorkersTyped
<1>6. \A q \in Queues : Producer(q) \in Kernels
  BY <1>1, ProgramFacts
<1>7. \A v \in Workers : left[v] \subseteq Queues
  BY <1>1 DEF DataTyped
<1>8. LeftInv'
  <2>1. \A v \in Workers : at'[v] \notin {"flag", "count"} => left'[v] = {}
    BY <1>5 DEF ActiveInv, LeftInv
  <2>2. \A v \in Workers : \A q \in left'[v] : Terminated'[Producer(q)]
    BY <1>4, <1>5, <1>6, <1>7 DEF ActiveInv, LeftInv, OutQueueTable
  <2>3. \A v \in Workers \ {w} : left'[v] \cap left'[w] = {}
    BY <1>3, <1>5 DEF ActiveInv, LeftInv, OutQueueTable
  <2>4. \A u, v \in Workers : u # v => left'[u] \cap left'[v] = {}
    BY <1>5, <2>3 DEF ActiveInv, LeftInv
  <2>5. \A q \in Queues : isDeactivated'[q] => Terminated'[Producer(q)]
    BY <1>2, <1>4, <1>6 DEF ActiveInv, LeftInv
  <2>6. QED
    BY <1>1, <2>1, <2>2, <2>4, <2>5 DEF LeftInv
<1>9. ASSUME NEW k \in Kernels PROVE Uncounted(k)' = Uncounted(k)
  <2>1. ASSUME NEW q \in Inputs(k)
        PROVE  (~Terminated'[Producer(q)] \/ \E v \in Workers : q \in left'[v])
                 <=> (~Terminated[Producer(q)] \/ \E v \in Workers : q \in left[v])
    <3>1. q \in Queues
      BY DEF Inputs
    <3>2. CASE Producer(q) = k0
      <4>1. q \in left'[w]
        BY <1>5, <3>1, <3>2 DEF OutQueueTable
      <4>2. QED
        BY <1>3, <3>2, <4>1
    <3>3. CASE Producer(q) # k0
      <4>1. q \notin left'[w] /\ q \notin left[w]
        BY <1>3, <1>5, <3>3 DEF OutQueueTable
      <4>2. Terminated'[Producer(q)] <=> Terminated[Producer(q)]
        BY <1>4, <1>6, <3>1, <3>3
      <4>3. QED
        BY <1>5, <4>1, <4>2
    <3>4. QED
      BY <3>2, <3>3
  <2>2. QED
    BY <1>1, <2>1 DEF Uncounted
<1>10. QED
  BY <1>1, <1>2, <1>8, <1>9 DEF ActiveInv, ActiveCounts, EndedInv

(* A queue is counted off once.                                            *)
LEMMA DecrementCounts ==
  ASSUME TypeInv, TypeInv', ActiveInv, NEW w \in Workers, decrementActive(w),
         program' = program
  PROVE  ActiveInv'
<1>1. /\ DataTyped /\ WorkersTyped /\ KernelsTyped /\ Kernels' = Kernels /\ Queues' = Queues
      /\ \A q : Producer(q)' = Producer(q)
      /\ \A k : Inputs(k)' = Inputs(k)
  BY DEF Kernels, Body, Queues, Producer, Inputs, Consumer, isFeedbackQueue, TypeInv
<1>2. PICK q0 \in firstQueue(left[w]) :
        /\ goto(w, "count", IF left[w] = {q0} THEN "leave" ELSE "flag")
        /\ ActiveNonFeedbackInputQueues' =
             [ActiveNonFeedbackInputQueues EXCEPT ![Consumer(q0)] =
                IF isFeedbackQueue(q0) THEN @ ELSE @ - 1]
        /\ left' = [left EXCEPT ![w] = @ \ {q0}]
        /\ UNCHANGED <<isDeactivated, Ended, Terminated>>
  BY DEF decrementActive, status
<1>3. q0 \in left[w] /\ q0 \in Queues
  BY <1>1 DEF firstQueue, DataTyped
<1>4. Consumer(q0) \in Kernels /\ Producer(q0) \in Kernels /\ Terminated[Producer(q0)]
  BY <1>1, <1>3, ProgramFacts DEF ActiveInv, LeftInv
<1>5. /\ left'[w] = left[w] \ {q0}
      /\ at[w] = "count" /\ at'[w] = IF left[w] = {q0} THEN "leave" ELSE "flag"
      /\ \A v \in Workers \ {w} : left'[v] = left[v] /\ at'[v] = at[v]
  BY <1>1, <1>2 DEF DataTyped, WorkersTyped, goto
<1>6. \A v \in Workers : q0 \notin left'[v]
  BY <1>3, <1>5 DEF ActiveInv, LeftInv
<1>7. \A q : q # q0 => ((\E v \in Workers : q \in left'[v]) <=> (\E v \in Workers : q \in left[v]))
  BY <1>5
<1>8. LeftInv'
  <2>1. \A v \in Workers : at'[v] \notin {"flag", "count"} => left'[v] = {}
    BY <1>5 DEF ActiveInv, LeftInv
  <2>2. \A v \in Workers : left'[v] \subseteq left[v]
    BY <1>5
  <2>3. QED
    BY <1>1, <1>2, <2>1, <2>2 DEF ActiveInv, LeftInv
<1>9. ASSUME NEW k \in Kernels
      PROVE  Uncounted(k)' = Uncounted(k) \ {q0}
  BY <1>1, <1>2, <1>4, <1>6, <1>7 DEF Uncounted
<1>10. ASSUME NEW k \in Kernels
       PROVE  ActiveNonFeedbackInputQueues'[k] = Cardinality(Uncounted(k)')
  <2>1. /\ IsFiniteSet(Uncounted(k)) /\ Cardinality(Uncounted(k)) \in Nat
        /\ ActiveNonFeedbackInputQueues[k] = Cardinality(Uncounted(k))
    BY UncountedFinite DEF ActiveInv, ActiveCounts
  <2>2. q0 \in Uncounted(k) <=> k = Consumer(q0) /\ ~isFeedbackQueue(q0)
    BY <1>3 DEF Uncounted, Inputs
  <2>3. CASE q0 \in Uncounted(k)
    <3>1. ActiveNonFeedbackInputQueues'[k] = ActiveNonFeedbackInputQueues[k] - 1
      BY <1>1, <1>2, <2>2, <2>3 DEF KernelsTyped
    <3>2. Cardinality(Uncounted(k) \ {q0}) = Cardinality(Uncounted(k)) - 1
      BY <2>1, <2>3, FS_RemoveElement
    <3>3. QED
      BY <1>9, <2>1, <3>1, <3>2
  <2>4. CASE q0 \notin Uncounted(k)
    <3>1. ActiveNonFeedbackInputQueues'[k] = ActiveNonFeedbackInputQueues[k]
      BY <1>1, <1>2, <2>2, <2>4 DEF KernelsTyped
    <3>2. Uncounted(k) \ {q0} = Uncounted(k)
      BY <2>4
    <3>3. QED
      BY <1>9, <2>1, <3>1, <3>2
  <2>5. QED
    BY <2>3, <2>4
<1>11. EndedInv'
  BY <1>1, <1>2, <1>9 DEF ActiveInv, EndedInv
<1>12. QED
  BY <1>1, <1>8, <1>10, <1>11 DEF ActiveInv, ActiveCounts

LEMMA ActiveStep ==
  ASSUME TypeInv, TypeInv', EndInv, ActiveInv, NEW w \in Workers, step(w)
  PROVE  ActiveInv'
<1>1. /\ DataTyped /\ WorkersTyped /\ KernelsTyped /\ Kernels' = Kernels /\ Queues' = Queues
      /\ program' = program /\ (\A q : Producer(q)' = Producer(q))
      /\ (\A k : Inputs(k)' = Inputs(k)) /\ \A v \in Workers \ {w} : Untouched(v)
  BY OthersUntouched
     DEF step, Kernels, Body, Queues, Producer, Inputs, Consumer, isFeedbackQueue, TypeInv
<1>2. CASE terminateKernel(w)
  BY <1>1, <1>2, TerminateCounts
<1>3. CASE decrementActive(w)
  BY <1>1, <1>3, DecrementCounts
<1>4. CASE ~terminateKernel(w) /\ ~decrementActive(w)
  <2>1. UNCHANGED <<left, ActiveNonFeedbackInputQueues, Terminated>>
    BY <1>4, WhoDeactivates, WhoEnds
  <2>2. \A k : Uncounted(k)' = Uncounted(k)
    BY <1>1, <2>1 DEF Uncounted
  <2>3. ActiveCounts'
    BY <1>1, <2>1, <2>2 DEF ActiveInv, ActiveCounts
  <2>4. \A v \in Workers : at'[v] \notin {"flag", "count"} => left[v] = {}
    <3>1. ASSUME at'[w] \notin {"flag", "count"}, left[w] # {} PROVE FALSE
      <4>1. at[w] \in {"flag", "count"}
        BY <3>1 DEF ActiveInv, LeftInv
      <4>2. deactivateQueue(w)
        BY <1>4, <3>1, <4>1, WhoDeactivates
      <4>3. QED
        BY <1>1, <3>1, <4>2 DEF deactivateQueue, goto, WorkersTyped
    <3>2. QED
      BY <1>1, <3>1 DEF ActiveInv, LeftInv, Untouched
  <2>5. \A q \in Queues : isDeactivated'[q] => Terminated[Producer(q)]
    <3>1. CASE deactivateQueue(w)
      <4>1. PICK q0 \in firstQueue(left[w]) : isDeactivated' = [isDeactivated EXCEPT ![q0] = TRUE]
        BY <3>1 DEF deactivateQueue
      <4>2. Terminated[Producer(q0)]
        BY DEF firstQueue, ActiveInv, LeftInv
      <4>3. QED
        BY <1>1, <4>1, <4>2 DEF DataTyped, ActiveInv, LeftInv
    <3>2. CASE UNCHANGED isDeactivated
      BY <3>2 DEF ActiveInv, LeftInv
    <3>3. QED
      BY <3>1, <3>2, WhoDeactivates
  <2>6. LeftInv'
    BY <1>1, <2>1, <2>4, <2>5 DEF ActiveInv, LeftInv
  <2>7. EndedInv'
    <3>1. CASE UNCHANGED Ended
      BY <1>1, <2>2, <3>1 DEF ActiveInv, EndedInv
    <3>2. CASE checkTermination(w) \/ endKernel(w)
      <4> DEFINE k0 == RunningKernel[w]
      <4>1. k0 \in Kernels
        BY <3>2, LiveThread DEF checkTermination, endKernel, goto, LivePlaces
      <4>2. CASE UNCHANGED Ended
        BY <3>1, <4>2
      <4>3. CASE Ended' = [Ended EXCEPT ![k0] = TRUE] /\ ActiveNonFeedbackInputQueues[k0] <= 0
        <5>1. Uncounted(k0) = {}
          BY <4>1, <4>3, UncountedFinite DEF ActiveInv, ActiveCounts
        <5>2. \A k \in Kernels : Ended'[k] => k = k0 \/ Ended[k]
          BY <1>1, <4>3 DEF KernelsTyped
        <5>3. QED
          BY <1>1, <2>2, <5>1, <5>2 DEF ActiveInv, EndedInv
      <4>4. QED
        BY <3>2, <4>2, <4>3 DEF checkTermination, endKernel, canTerminate
    <3>3. QED
      BY <3>1, <3>2, WhoDeactivates
  <2>8. QED
    BY <2>3, <2>6, <2>7 DEF ActiveInv
<1>5. QED
  BY <1>2, <1>3, <1>4

(* ActiveNonFeedbackInputQueues counts the inputs whose producers have not *)
(* ended and left them, and a kernel that decides to end has none of those,*)
(* unless a spawned thread is counted late: then a kernel ends twice.      *)
THEOREM ActiveCounted == Spec => []ActiveInv \/ <><<LateSpawn>>_vars
<1>1. TypeInv /\ TypeInv' /\ EndInv /\ ActiveInv /\ [Next]_vars => ActiveInv'
  <2>1. ASSUME ActiveInv, UNCHANGED vars PROVE ActiveInv'
    <3>1. UNCHANGED <<program, at, left, Terminated, isDeactivated, Ended,
                      ActiveNonFeedbackInputQueues>>
      BY <2>1 DEF vars, kernels, status, locals
    <3>2. /\ Kernels' = Kernels /\ Queues' = Queues
          /\ \A q : Producer(q)' = Producer(q) /\ Consumer(q)' = Consumer(q)
          /\ \A q : isFeedbackQueue(q)' = isFeedbackQueue(q)
      BY <3>1 DEF Kernels, Body, Queues, Producer, Consumer, isFeedbackQueue
    <3>3. \A k : Inputs(k)' = Inputs(k)
      BY <3>2 DEF Inputs
    <3>4. \A k : Uncounted(k)' = Uncounted(k)
      BY <3>1, <3>2, <3>3 DEF Uncounted
    <3>5. LeftInv'
      BY <2>1, <3>1, <3>2 DEF ActiveInv, LeftInv
    <3>6. ActiveCounts'
      BY <2>1, <3>1, <3>2, <3>4 DEF ActiveInv, ActiveCounts
    <3>7. EndedInv'
      BY <2>1, <3>1, <3>2, <3>4 DEF ActiveInv, EndedInv
    <3>8. QED
      BY <3>5, <3>6, <3>7 DEF ActiveInv
  <2>2. QED
    BY <2>1, ActiveStep DEF Next, finished
<1>2. QED
  BY <1>1, ActiveBegins, TypesHold, EndInvUntil, PTL DEF Spec

-----------------------------------------------------------------------------
(* What is left in a queue                                                 *)

Empty(q) == ReservedTail[q] = ReservedHead[q]

(* A green thread repeats a pop with fewer elements only when the queue is *)
(* deactivated.                                                            *)
KnowsQueue(t, k) ==
  t.repeat # 0 =>
    /\ t.next \in DOMAIN Body[k] /\ Body[k][t.next].op = "pop"
    /\ isDeactivated[Body[k][t.next].queue]

ReadyKnow ==
  \A k \in Kernels : \A i \in DOMAIN ReadyQueues[k] : KnowsQueue(ReadyQueues[k][i], k)

Knows(w) ==
  \A k \in Kernels : /\ chosenFor(w, k) => KnowsQueue(NewThread[w], k)
                     /\ runs(w, k) => KnowsQueue(thread[w], k)

ThreadsKnow == ReadyKnow /\ \A w \in Workers : Knows(w)

(* On the way to drain the queue is deactivated, and it is empty unless    *)
(* one element is asked for.                                               *)
Drains(w) ==
  LET q == queueOf(w) IN
  /\ at[w] \in QueuePlaces => operationOf(w).op = "pop"
  /\ at[w] \in {"recount", "drain", "drained"} => isDeactivated[q]
  /\ at[w] = "failed" /\ thread[w].repeat = 1 => Empty(q)
  /\ at[w] \in {"drain", "drained"} /\ operationOf(w).num >= 2 => Empty(q)
  /\ at[w] = "drained" /\ operationOf(w).num >= 2 => r_head[w] = ReservedHead[q]

StaysEmpty == \A q \in Queues : Ended[Consumer(q)] /\ ~isFeedbackQueue(q) => Empty(q)

DrainInv == ThreadsKnow /\ (\A w \in Workers : Drains(w)) /\ StaysEmpty

(* What can break it: a pop of one element drains with a head that another *)
(* thread has moved since it was read.                                     *)
StaleDrain ==
  \E w \in Workers :
    drain(w) /\ operationOf(w).num = 1 /\ r_head[w] # ReservedHead[queueOf(w)]

LEMMA DrainBegins == Init => DrainInv
BY DEF Init, DrainInv, ThreadsKnow, ReadyKnow, Knows, chosenFor, Drains, StaysEmpty, Empty,
   QueuePlaces, runs

(* Who moves the indices of a queue is its producer or its consumer.       *)
LEMMA WhoMoves ==
  ASSUME TypeInv, NEW w \in Workers, step(w), NEW q \in Queues
  PROVE  /\ ReservedTail'[q] = ReservedTail[q]
            \/ (at[w] = "run" /\ RunningKernel[w] = Producer(q))
            \/ (drain(w) /\ queueOf(w) = q /\ ReservedTail'[q] = r_head[w])
         /\ ReservedHead'[q] = ReservedHead[q]
            \/ (at[w] = "run" /\ RunningKernel[w] = Consumer(q) /\ ~Empty(q))
<1>1. DataTyped
  BY DEF TypeInv
<1>2. CASE UNCHANGED <<ReservedTail, ReservedHead>>
  BY <1>2
<1>3. CASE at[w] = "run" /\ thread[w].next <= Len(Body[RunningKernel[w]]) /\ (push(w) \/ pop(w))
  <2> DEFINE k0 == RunningKernel[w]
             q0 == queueOf(w)
  <2>1. /\ thread[w].next \in DOMAIN Body[k0] /\ q0 \in Queues /\ k0 \in Kernels
    BY <1>3, OperationTyped, LiveThread DEF AtOperation, LivePlaces
  <2>2. CASE push(w)
    <3>1. uses(program, k0, "push", q0)
      BY <2>1, <2>2 DEF push, uses, operationOf, queueOf, Body
    <3>2. k0 = Producer(q0)
      BY <1>1, <2>1, <3>1, ProgramAssumption DEF DataTyped, Producer, Queues, Kernels, Body
    <3>3. UNCHANGED ReservedHead /\ (q # q0 => ReservedTail'[q] = ReservedTail[q])
      BY <1>1, <2>2 DEF push, DataTyped
    <3>4. QED
      BY <1>3, <3>2, <3>3
  <2>3. CASE pop(w)
    <3>1. uses(program, k0, "pop", q0)
      BY <2>1, <2>3 DEF pop, uses, operationOf, queueOf, Body
    <3>2. k0 = Consumer(q0)
      BY <1>1, <2>1, <3>1, ProgramAssumption DEF DataTyped, Consumer, Queues, Kernels, Body
    <3>3. /\ UNCHANGED ReservedTail /\ (q # q0 => ReservedHead'[q] = ReservedHead[q])
          /\ ~UNCHANGED ReservedHead => ~Empty(q0)
      BY <1>1, <2>3 DEF pop, DataTyped, haveEnoughData, Empty
    <3>4. QED
      BY <1>3, <3>2, <3>3
  <2>4. QED
    BY <1>3, <2>2, <2>3
<1>4. CASE drain(w)
  <2>1. queueOf(w) \in Queues
    BY <1>4, OperationTyped DEF drain, goto, AtOperation, QueuePlaces
  <2>2. /\ ReservedTail' = [ReservedTail EXCEPT ![queueOf(w)] = r_head[w]]
        /\ UNCHANGED ReservedHead
    BY <1>4 DEF drain
  <2>3. QED
    BY <1>1, <1>4, <2>1, <2>2 DEF DataTyped
<1>5. QED
  <2>1. ASSUME ~UNCHANGED <<ReservedTail, ReservedHead>>, select(w) PROVE FALSE
    BY <2>1 DEF select, selectNext, trySchedule, casSequentialKernelRunning, walkOn, noKernel,
       takeReady, checkTerminating, spawn, noThread, switchThread, scheduleOut, queues
  <2>2. ASSUME ~UNCHANGED <<ReservedTail, ReservedHead>>, runBody(w), ~drain(w),
               ~(at[w] = "run" /\ thread[w].next <= Len(Body[RunningKernel[w]])
                  /\ (push(w) \/ pop(w)))
        PROVE FALSE
    BY <2>2 DEF runBody, resume, bodyEnds, checkDeactivated, reduceRepeat, readReservedHead,
       checkTermination, acknowledgeCanTerminate, queues
  <2>3. ASSUME ~UNCHANGED <<ReservedTail, ReservedHead>>, endBody(w) PROVE FALSE
    BY <2>3 DEF endBody, replaceThread, endKernel, leaveKernel, repeatBody, deregisterThread,
       terminateKernel, deactivateQueue, decrementActive, leave, queues
  <2>4. QED
    BY <1>2, <1>3, <1>4, <2>1, <2>2, <2>3 DEF step

(* Nobody runs a Terminated kernel.                                        *)
LEMMA NobodyRuns ==
  ASSUME TypeInv, ThreadsCounted, EndInv, NEW w \in Workers, at[w] \in LivePlaces
  PROVE  ~Terminated[RunningKernel[w]]
BY LiveIsCounted DEF EndInv

(* A queue that is empty and has lost its producer stays empty.            *)
LEMMA EmptyStays ==
  ASSUME TypeInv, ThreadsCounted, EndInv, DrainInv, NEW w \in Workers, step(w), ~StaleDrain,
         NEW q \in Queues, Terminated[Producer(q)], Empty(q)
  PROVE  Empty(q)' /\ ReservedHead'[q] = ReservedHead[q]
<1>1. at[w] = "run" => RunningKernel[w] # Producer(q)
  BY NobodyRuns DEF LivePlaces
<1>2. ReservedHead'[q] = ReservedHead[q]
  BY WhoMoves
<1>3. CASE ReservedTail'[q] = ReservedTail[q]
  BY <1>2, <1>3 DEF Empty
<1>4. CASE drain(w) /\ queueOf(w) = q /\ ReservedTail'[q] = r_head[w]
  <2>1. at[w] = "drained"
    BY <1>4 DEF drain, goto
  <2>2. r_head[w] = ReservedHead[q]
    <3>1. operationOf(w).num \in 1 .. (NumElm - 1)
      BY <2>1, OperationTyped DEF AtOperation, QueuePlaces
    <3>2. CASE operationOf(w).num = 1
      BY <1>4, <3>2 DEF StaleDrain
    <3>3. CASE operationOf(w).num >= 2
      BY <1>4, <2>1, <3>3 DEF DrainInv, Drains
    <3>4. QED
      BY <3>1, <3>2, <3>3, SizeAssumption
  <2>3. QED
    BY <1>2, <1>4, <2>2 DEF Empty
<1>5. QED
  BY <1>1, <1>3, <1>4, WhoMoves

-----------------------------------------------------------------------------
(* What is known of a queue stays known: nothing activates it again.       *)
LEMMA KnowsStays ==
  ASSUME TypeInv, NEW w \in Workers, step(w), NEW k, NEW t, KnowsQueue(t, k),
         t.repeat # 0 => Body[k][t.next].queue \in Queues
  PROVE  KnowsQueue(t, k)'
<1>1. program' = program /\ Body' = Body /\ isDeactivated \in [Queues -> BOOLEAN]
  BY DEF step, Body, TypeInv, DataTyped
<1>2. \A q \in Queues : isDeactivated[q] => isDeactivated'[q]
  <2>1. CASE UNCHANGED isDeactivated
    BY <2>1
  <2>2. CASE deactivateQueue(w)
    BY <1>1, <2>2 DEF deactivateQueue
  <2>3. QED
    BY <2>1, <2>2, WhoDeactivates
<1>3. QED
  BY <1>1, <1>2 DEF KnowsQueue

(* A native thread that selects knows as much of the threads it has.       *)
LEMMA SameKnows ==
  ASSUME UNCHANGED <<program, isDeactivated>>, NEW w \in Workers, Knows(w),
         thread'[w] = thread[w], NewThread'[w] = NewThread[w],
         \A k \in Kernels : (runs(w, k)' <=> runs(w, k)) /\ (chosenFor(w, k)' <=> chosenFor(w, k))
  PROVE  Knows(w)'
BY DEF Knows, KnowsQueue, Kernels, Body

LEMMA SelectTells ==
  ASSUME TypeInv, TokenInv, NEW w \in Workers, select(w), program' = program, ReadyKnow, Knows(w)
  PROVE  ReadyKnow' /\ Knows(w)'
<1> USE DEF LivePlaces, GonePlaces, ChosenPlaces, context, choice, search, status, kernels
<1>1. /\ Known(w) /\ Local(w) /\ WorkersTyped /\ KernelsTyped
  BY DEF TypeInv, TokenInv
<1>2. UNCHANGED isDeactivated /\ Kernels' = Kernels /\ Body' = Body
  BY DEF select, selectNext, trySchedule, casSequentialKernelRunning, walkOn, noKernel,
     takeReady, checkTerminating, spawn, noThread, switchThread, scheduleOut, Kernels, Body
<1>3. \A t, k : KnowsQueue(t, k)' <=> KnowsQueue(t, k)
  BY <1>2 DEF KnowsQueue
<1>4. CASE selectNext(w) \/ (\E j \in Kernels : trySchedule(w, j)) \/ casSequentialKernelRunning(w)
           \/ walkOn(w) \/ noKernel(w) \/ checkTerminating(w) \/ noThread(w)
  <2>1. UNCHANGED <<thread, NewThread, ReadyQueues>>
    BY <1>4 DEF selectNext, trySchedule, casSequentialKernelRunning, walkOn, noKernel,
       checkTerminating, noThread
  <2>2. ASSUME NEW k \in Kernels
        PROVE  (runs(w, k)' <=> runs(w, k)) /\ (chosenFor(w, k)' <=> chosenFor(w, k))
    <3> USE DEF goto
    <3>1. CASE selectNext(w)
      <4>1. /\ at[w] \in {"main", "yield", "retry"}
            /\ at'[w] \in {"switch", "exited", "resume", "search"}
            /\ OldKernel'[w] = RunningKernel[w] /\ UNCHANGED RunningKernel
        BY <1>1, <3>1 DEF selectNext, selectNothing, WorkersTyped
      <4>2. QED
        BY <1>1, <2>1, <4>1 DEF Local, runs, selecting, chosenFor
    <3>2. CASE (\E j \in Kernels : trySchedule(w, j)) \/ casSequentialKernelRunning(w)
      <4>1. /\ at[w] \in {"search", "cas"} /\ UNCHANGED OldKernel
            /\ \/ at'[w] \in {"search", "cas"} /\ UNCHANGED RunningKernel
               \/ at'[w] = "take"
        BY <1>1, <3>2 DEF trySchedule, passKernel, pickParallel, pickSequential, WorkersTyped,
           casSequentialKernelRunning
      <4>2. QED
        BY <1>1, <2>1, <4>1 DEF Local, runs, selecting, chosenFor
    <3>3. CASE walkOn(w) \/ noKernel(w) \/ checkTerminating(w)
      <4>1. /\ UNCHANGED <<RunningKernel, OldKernel>>
            /\ \/ at[w] = "search" /\ at'[w] \in {"search", "exited", "resume"}
               \/ at[w] = "check" /\ at'[w] \in {"none", "spawn"}
        BY <1>1, <3>3 DEF walkOn, noKernel, selectNothing, checkTerminating, WorkersTyped
      <4>2. QED
        BY <1>1, <2>1, <4>1 DEF Local, runs, selecting, chosenFor
    <3>4. CASE noThread(w)
      <4>1. /\ UNCHANGED OldKernel /\ at[w] = "none" /\ NewThread[w] = NULL
            /\ \/ /\ UNCHANGED RunningKernel /\ RunningKernel[w] = OldKernel[w]
                  /\ at'[w] \in {"exited", "resume"}
               \/ at'[w] = "retry"
        BY <1>1, <3>4 DEF noThread, selectNothing, WorkersTyped, Local
      <4>2. QED
        BY <1>1, <2>1, <4>1 DEF Local, runs, selecting, chosenFor
    <3>5. QED
      BY <1>4, <3>1, <3>2, <3>3, <3>4
  <2>3. ReadyKnow'
    BY <1>2, <1>3, <2>1 DEF ReadyKnow
  <2>4. QED
    BY <1>2, <2>1, <2>2, <2>3, SameKnows
<1>5. CASE takeReady(w) /\ UNCHANGED ReadyQueues
  <2>1. /\ UNCHANGED <<thread, RunningKernel, OldKernel>> /\ at[w] = "take"
        /\ NewThread[w] = NULL
    BY <1>1, <1>5 DEF takeReady, goto, Local
  <2>2. ReadyQueues[RunningKernel[w]] = <<>>
    <3>1. RunningKernel[w] \in Kernels
      BY <1>1, <2>1 DEF Known, HoldsRunning
    <3>2. ReadyQueues[RunningKernel[w]] \in Seq(GreenThreads)
      BY <1>1, <3>1 DEF KernelsTyped
    <3>3. SUFFICES ASSUME ReadyQueues[RunningKernel[w]] # <<>> PROVE FALSE
      OBVIOUS
    <3>4. ReadyQueues'[RunningKernel[w]] = Tail(ReadyQueues[RunningKernel[w]])
      BY <1>1, <1>5, <3>1, <3>3 DEF takeReady, KernelsTyped
    <3>5. Len(Tail(ReadyQueues[RunningKernel[w]])) # Len(ReadyQueues[RunningKernel[w]])
      BY <3>2, <3>3
    <3>6. QED
      BY <1>5, <3>4, <3>5
  <2>3. NewThread' = NewThread /\ at'[w] \in {"none", "check"}
    BY <1>1, <1>5, <2>2 DEF takeReady, goto, WorkersTyped
  <2>4. \A k \in Kernels : (runs(w, k)' <=> runs(w, k)) /\ (chosenFor(w, k)' <=> chosenFor(w, k))
    BY <2>1, <2>3 DEF runs, selecting, chosenFor
  <2>5. ReadyKnow'
    BY <1>2, <1>3, <1>5 DEF ReadyKnow
  <2>6. QED
    BY <1>2, <2>1, <2>3, <2>4, <2>5, SameKnows
<1>6. CASE takeReady(w) /\ ~UNCHANGED ReadyQueues
  <2> DEFINE r == RunningKernel[w]
             ready == ReadyQueues[r]
  <2>1. /\ UNCHANGED <<thread, RunningKernel, OldKernel>> /\ at[w] = "take" /\ r \in Kernels
        /\ ready \in Seq(GreenThreads) /\ ready # <<>>
    BY <1>1, <1>6 DEF takeReady, goto, Known, HoldsRunning, KernelsTyped
  <2>2. /\ NewThread'[w] = Head(ready) /\ at'[w] = "switch"
        /\ ReadyQueues' = [ReadyQueues EXCEPT ![r] = Tail(ready)]
    BY <1>1, <1>6, <2>1 DEF takeReady, goto, WorkersTyped
  <2>3. /\ 1 \in DOMAIN ready /\ Head(ready) = ready[1]
        /\ \A i \in DOMAIN Tail(ready) : i + 1 \in DOMAIN ready /\ Tail(ready)[i] = ready[i + 1]
    BY <2>1
  <2>4. KnowsQueue(Head(ready), r) /\ \A i \in DOMAIN Tail(ready) : KnowsQueue(Tail(ready)[i], r)
    BY <2>1, <2>3 DEF ReadyKnow
  <2>5. ReadyKnow'
    BY <1>1, <1>2, <1>3, <2>1, <2>2, <2>4 DEF ReadyKnow, KernelsTyped
  <2>6. \A k \in Kernels : (runs(w, k)' <=> runs(w, k)) /\ (chosenFor(w, k)' => k = r)
    BY <2>1, <2>2 DEF runs, selecting, chosenFor
  <2>7. QED
    BY <1>2, <1>3, <2>1, <2>2, <2>4, <2>5, <2>6 DEF Knows
<1>7. CASE spawn(w)
  <2>1. /\ at[w] = "spawn" /\ at'[w] = "switch" /\ NewThread'[w] = NewGreenThread
        /\ UNCHANGED <<OldKernel, RunningKernel, thread, ReadyQueues>>
    BY <1>1, <1>7 DEF spawn, goto, WorkersTyped
  <2>2. \A k : KnowsQueue(NewGreenThread, k)
    BY DEF KnowsQueue, NewGreenThread
  <2>3. \A k \in Kernels : runs(w, k)' <=> runs(w, k)
    BY <2>1 DEF runs, selecting
  <2>4. QED
    BY <1>2, <1>3, <2>1, <2>2, <2>3 DEF Knows, ReadyKnow
<1>8. ASSUME NEW from, enterThread(w, from), from \in {"switch", "release"},
             UNCHANGED <<ReadyQueues, RunningKernel, OldKernel>>
      PROVE  ReadyKnow' /\ Knows(w)'
  <2>1. /\ at[w] = from /\ at'[w] \in {"resume", "run"} /\ NewThread[w] # NULL
        /\ thread'[w] = NewThread[w] /\ NewThread'[w] = NULL
    BY <1>1, <1>8 DEF enterThread, goto, WorkersTyped, Known
  <2>2. \A k \in Kernels : (runs(w, k)' <=> chosenFor(w, k)) /\ ~chosenFor(w, k)'
    BY <1>8, <2>1 DEF runs, selecting, chosenFor
  <2>3. QED
    BY <1>2, <1>3, <1>8, <2>1, <2>2 DEF Knows, ReadyKnow
<1>9. CASE switchThread(w) /\ thread[w] = NULL
  BY <1>8, <1>9 DEF switchThread
<1>10. CASE switchThread(w) /\ thread[w] # NULL
  <2> DEFINE o == OldKernel[w]
             t == [thread[w] EXCEPT !.mayReplace = TRUE]
             ready == ReadyQueues[o]
  <2>1. /\ ReadyQueues' = [ReadyQueues EXCEPT ![o] = Append(ready, t)]
        /\ at[w] = "switch" /\ at'[w] = "release" /\ o \in Kernels
        /\ UNCHANGED <<RunningKernel, OldKernel, thread, NewThread>>
    BY <1>1, <1>10 DEF switchThread, goto, WorkersTyped, Known, HoldsOld
  <2>2. thread[w] \in GreenThreads /\ ready \in Seq(GreenThreads)
    BY <1>1, <1>10, <2>1 DEF WorkersTyped, KernelsTyped
  <2>3. runs(w, o)
    BY <1>10, <2>1 DEF runs, selecting
  <2>4. t.repeat = thread[w].repeat /\ t.next = thread[w].next
    BY <2>2 DEF GreenThreads
  <2>5. KnowsQueue(t, o)
    BY <2>1, <2>3, <2>4 DEF Knows, KnowsQueue
  <2> HIDE DEF t
  <2>6. \A i \in DOMAIN Append(ready, t) : Append(ready, t)[i] = t
            \/ (i \in DOMAIN ready /\ Append(ready, t)[i] = ready[i])
    BY <2>2
  <2>7. \A i \in DOMAIN Append(ready, t) : KnowsQueue(Append(ready, t)[i], o)
    BY <2>1, <2>5, <2>6 DEF ReadyKnow
  <2>8. ReadyKnow'
    BY <1>1, <1>2, <1>3, <2>1, <2>7 DEF ReadyKnow, KernelsTyped
  <2>9. \A k \in Kernels : ~runs(w, k)' /\ (chosenFor(w, k)' <=> chosenFor(w, k))
    BY <2>1 DEF runs, chosenFor
  <2>10. QED
    BY <1>2, <1>3, <2>1, <2>8, <2>9 DEF Knows
<1>11. CASE scheduleOut(w)
  BY <1>8, <1>11 DEF scheduleOut
<1>12. QED
  BY <1>4, <1>5, <1>6, <1>7, <1>9, <1>10, <1>11 DEF select

-----------------------------------------------------------------------------
(* A repeat count is reduced when the queue is deactivated, and set back   *)
(* with the next operation.                                                *)
LEMMA BodyTells ==
  ASSUME TypeInv, TokenInv, NEW w \in Workers, runBody(w), program' = program, ReadyKnow, Knows(w),
         Drains(w)
  PROVE  ReadyKnow' /\ Knows(w)'
<1> USE DEF LivePlaces, context, choice, status, kernels
<1> DEFINE k0 == RunningKernel[w]
<1>1. /\ at[w] \in LivePlaces /\ at'[w] \in LivePlaces
      /\ UNCHANGED <<NewThread, RunningKernel, ReadyQueues, isDeactivated, Kernels, Body>>
  BY DEF runBody, resume, bodyEnds, push, pop, checkDeactivated, reduceRepeat, readReservedHead,
     drain, checkTermination, acknowledgeCanTerminate, goto, TypeInv, WorkersTyped, Kernels, Body
<1>2. \A t, k : KnowsQueue(t, k)' <=> KnowsQueue(t, k)
  BY <1>1 DEF KnowsQueue
<1>3. /\ thread[w] \in GreenThreads /\ thread'[w] # NULL /\ k0 \in Kernels
      /\ thread \in [Workers -> GreenThreads \cup {NULL}]
  BY <1>1, LiveThread, BodyThread, NullAssumption DEF TypeInv, WorkersTyped
<1>4. \A k \in Kernels : (runs(w, k)' => k = k0) /\ (chosenFor(w, k)' <=> chosenFor(w, k))
  BY <1>1 DEF runs, selecting, chosenFor
<1>5. runs(w, k0)
  BY <1>1, <1>3, NullAssumption DEF runs, selecting
<1>6. KnowsQueue(thread'[w], k0)
  <2>1. CASE UNCHANGED thread
    BY <1>3, <1>5, <2>1 DEF Knows
  <2>2. ASSUME NEW t, advanceThread(w, t) PROVE KnowsQueue(thread'[w], k0)
    <3>1. thread'[w].repeat = 0
      BY <1>3, <2>2 DEF advanceThread, GreenThreads
    <3>2. QED
      BY <3>1 DEF KnowsQueue
  <2>3. CASE reduceRepeat(w) /\ ~UNCHANGED thread
    <3>1. at[w] = "recount" /\ \E n : thread' = [thread EXCEPT ![w].repeat = n]
      BY <2>3 DEF reduceRepeat
    <3>2. thread'[w].next = thread[w].next
      BY <1>3, <3>1 DEF GreenThreads
    <3>3. thread[w].next \in DOMAIN Body[k0]
      BY <3>1, OperationTyped DEF AtOperation, QueuePlaces
    <3>4. operationOf(w).op = "pop" /\ isDeactivated[queueOf(w)]
      BY <3>1 DEF Drains, QueuePlaces
    <3>5. QED
      BY <3>2, <3>3, <3>4 DEF KnowsQueue, operationOf, queueOf
  <2>4. QED
    BY <2>1, <2>2, <2>3 DEF runBody, resume, bodyEnds, push, pop, checkDeactivated,
       readReservedHead, drain, checkTermination, acknowledgeCanTerminate
<1>7. QED
  BY <1>1, <1>2, <1>4, <1>6 DEF ReadyKnow, Knows

LEMMA EndTells ==
  ASSUME TypeInv, TokenInv, NEW w \in Workers, endBody(w), program' = program, ReadyKnow, Knows(w)
  PROVE  ReadyKnow' /\ Knows(w)'
<1> USE DEF LivePlaces, GonePlaces, context, choice, status, kernels, search
<1> DEFINE k0 == RunningKernel[w]
<1>1. /\ WorkersTyped /\ KernelsTyped /\ Known(w) /\ Local(w)
      /\ UNCHANGED <<RunningKernel, OldKernel, Kernels, Body>>
  BY DEF TypeInv, TokenInv, endBody, replaceThread, endKernel, leaveKernel, repeatBody,
     deregisterThread, terminateKernel, deactivateQueue, decrementActive, leave, Kernels, Body
<1>2. \A t, k : KnowsQueue(t, k) => KnowsQueue(t, k)'
  <2>1. isDeactivated \in [Queues -> BOOLEAN]
    BY DEF TypeInv, DataTyped
  <2>2. \A q : isDeactivated[q] => isDeactivated'[q]
    <3>1. CASE UNCHANGED isDeactivated
      BY <3>1
    <3>2. CASE deactivateQueue(w)
      <4>1. PICK q0 : isDeactivated' = [isDeactivated EXCEPT ![q0] = TRUE]
        BY <3>2 DEF deactivateQueue
      <4>2. ASSUME NEW q, isDeactivated[q] PROVE isDeactivated'[q]
        <5>1. CASE q \in Queues
          BY <2>1, <4>1, <4>2, <5>1
        <5>2. CASE q \notin Queues
          BY <2>1, <4>1, <4>2, <5>2
        <5>3. QED
          BY <5>1, <5>2
      <4>3. QED
        BY <4>2
    <3>3. QED
      BY <3>1, <3>2, WhoDeactivates DEF step
  <2>3. QED
    BY <1>1, <2>2 DEF KnowsQueue
<1>3. CASE UNCHANGED <<thread, NewThread, ReadyQueues>>
  <2>1. /\ at[w] \in LivePlaces \cup GonePlaces /\ at'[w] # at[w]
        /\ at'[w] \in LivePlaces \cup GonePlaces \cup {"main"}
        /\ at[w] \in GonePlaces => at'[w] \in GonePlaces \cup {"main"}
        /\ at'[w] = "main" => leave(w)
    BY <1>1, <1>3 DEF endBody, replaceThread, endKernel, leaveKernel, repeatBody,
       deregisterThread, terminateKernel, deactivateQueue, decrementActive, leave, goto, WorkersTyped
  <2>2. leave(w) => thread[w] = NULL
    BY <1>1, <1>3 DEF leave, WorkersTyped
  <2>3. \A k \in Kernels : (runs(w, k)' => runs(w, k)) /\ (chosenFor(w, k)' <=> chosenFor(w, k))
    BY <1>1, <1>3, <2>1, <2>2 DEF runs, selecting, chosenFor
  <2>4. QED
    BY <1>1, <1>2, <1>3, <2>3 DEF ReadyKnow, Knows
<1>4. CASE replaceThread(w) /\ ~UNCHANGED <<NewThread, ReadyQueues>>
  <2> DEFINE ready == ReadyQueues[k0]
  <2>1. at[w] = "end" /\ k0 \in Kernels /\ UNCHANGED thread /\ ready # <<>>
    BY <1>4, LiveThread DEF replaceThread
  <2>2. ready \in Seq(GreenThreads)
    BY <1>1, <2>1 DEF KernelsTyped
  <2>3. /\ NewThread' = [NewThread EXCEPT ![w] = Head(ready)] /\ at'[w] = "deregister"
        /\ ReadyQueues' = [ReadyQueues EXCEPT ![k0] = Tail(ready)]
    BY <1>1, <1>4, <2>1 DEF replaceThread, goto, WorkersTyped
  <2>4. NewThread'[w] = Head(ready)
    BY <1>1, <2>3 DEF WorkersTyped
  <2>5. /\ 1 \in DOMAIN ready /\ Head(ready) = ready[1]
        /\ \A i \in DOMAIN Tail(ready) : i + 1 \in DOMAIN ready /\ Tail(ready)[i] = ready[i + 1]
    BY <2>1, <2>2
  <2>6. KnowsQueue(Head(ready), k0) /\ \A i \in DOMAIN Tail(ready) : KnowsQueue(Tail(ready)[i], k0)
    BY <2>1, <2>5 DEF ReadyKnow
  <2>7. ReadyKnow'
    BY <1>1, <1>2, <2>1, <2>3, <2>6 DEF ReadyKnow, KernelsTyped
  <2>8. \A k \in Kernels : (runs(w, k)' => runs(w, k)) /\ (chosenFor(w, k)' => k = k0)
    BY <1>1, <2>1, <2>3 DEF runs, selecting, chosenFor
  <2>9. QED
    BY <1>1, <1>2, <2>1, <2>4, <2>6, <2>7, <2>8 DEF Knows
<1>5. CASE repeatBody(w) \/ leave(w)
  <2>1. UNCHANGED <<NewThread, ReadyQueues>> /\ thread'[w] \in {NewGreenThread, NULL}
        /\ (leave(w) => thread'[w] = NULL) /\ (repeatBody(w) => thread'[w] = NewGreenThread)
    BY <1>1, <1>5 DEF repeatBody, leave, WorkersTyped
  <2>2. \A k \in Kernels : runs(w, k)' => KnowsQueue(thread[w], k)'
    BY <1>5, <2>1 DEF runs, KnowsQueue, NewGreenThread
  <2>3. \A k \in Kernels : chosenFor(w, k)' <=> chosenFor(w, k)
    BY <1>1, <2>1 DEF chosenFor
  <2>4. QED
    BY <1>1, <1>2, <2>1, <2>2, <2>3 DEF ReadyKnow, Knows
<1>6. QED
  BY <1>3, <1>4, <1>5 DEF endBody, replaceThread, endKernel, leaveKernel, deregisterThread,
     terminateKernel, deactivateQueue, decrementActive

LEMMA ThreadsKnowStep ==
  ASSUME TypeInv, TokenInv, ThreadsKnow, NEW w \in Workers, step(w), Drains(w)
  PROVE  ThreadsKnow'
<1>1. ReadyKnow' /\ Knows(w)' /\ program' = program
  BY SelectTells, BodyTells, EndTells DEF ThreadsKnow, step
<1>2. ASSUME NEW v \in Workers \ {w} PROVE Knows(v)'
  <2>1. Untouched(v)
    BY OthersUntouched DEF TypeInv
  <2>2. Kernels' = Kernels /\ Body' = Body
    BY <1>1 DEF Kernels, Body
  <2>3. ASSUME NEW k \in Kernels, NEW t \in GreenThreads, KnowsQueue(t, k) PROVE KnowsQueue(t, k)'
    <3>1. t.repeat # 0 => Body[k][t.next].queue \in Queues
      BY <2>3, ProgramFacts DEF KnowsQueue, TypeInv
    <3>2. QED
      BY <2>3, <3>1, KnowsStays
  <2>4. \A k \in Kernels : (runs(v, k)' <=> runs(v, k)) /\ (chosenFor(v, k)' <=> chosenFor(v, k))
    BY <2>1 DEF runs, selecting, chosenFor, Untouched
  <2>5. ASSUME NEW k \in Kernels, chosenFor(v, k)'
        PROVE  KnowsQueue(NewThread[v], k)'
    BY <2>1, <2>3, <2>4, <2>5 DEF ThreadsKnow, Knows, chosenFor, Untouched, TypeInv, WorkersTyped
  <2>6. ASSUME NEW k \in Kernels, runs(v, k)'
        PROVE  KnowsQueue(thread[v], k)'
    BY <2>1, <2>3, <2>4, <2>6 DEF ThreadsKnow, Knows, runs, Untouched, TypeInv, WorkersTyped
  <2>7. QED
    BY <2>1, <2>2, <2>5, <2>6 DEF Knows, Untouched
<1>3. QED
  BY <1>1, <1>2 DEF ThreadsKnow

-----------------------------------------------------------------------------
(* A pop of one element fails only when there is none.                     *)
LEMMA PopFails ==
  ASSUME NEW N \in Nat, NEW h \in 0 .. (N - 1), NEW t \in 0 .. (N - 1),
         ~haveEnoughData(N, h, t, 1)
  PROVE  t = h
BY DEF haveEnoughData

(* On its way to drain a native thread keeps its operation.                *)
LEMMA WhoDrains ==
  ASSUME TypeInv, NEW w \in Workers, step(w), at'[w] \in QueuePlaces
  PROVE  /\ UNCHANGED <<Body, RunningKernel, thread, ReservedHead, isDeactivated>>
         /\ \/ /\ pop(w) /\ at[w] = "run" /\ at'[w] = "failed" /\ UNCHANGED ReservedTail
               /\ thread[w].next <= Len(Body[RunningKernel[w]])
               /\ ~haveEnoughData(NumElm, ReservedHead[queueOf(w)], ReservedTail[queueOf(w)], NumRepeat(w))
            \/ checkDeactivated(w) /\ at'[w] \in {"ask", "recount", "drain"} /\ UNCHANGED ReservedTail
            \/ reduceRepeat(w) /\ at'[w] = "drain" /\ UNCHANGED ReservedTail
            \/ readReservedHead(w) /\ at'[w] = "drained"
            \/ drain(w) /\ at'[w] = "ask"
<1> USE DEF context, kernels, queues, QueuePlaces, goto
<1>1. WorkersTyped /\ Body' = Body
  BY DEF TypeInv, Body, step
<1>2. ~select(w) /\ ~endBody(w)
  BY <1>1 DEF select, selectNext, selectNothing, trySchedule, passKernel, pickParallel,
     pickSequential, walkOn, noKernel, takeReady, checkTerminating, spawn, noThread, switchThread,
     scheduleOut, enterThread, casSequentialKernelRunning, WorkersTyped,
     endBody, replaceThread, endKernel, leaveKernel, repeatBody, deregisterThread,
     terminateKernel, deactivateQueue, decrementActive, leave
<1>3. CASE at[w] = "run" /\ thread[w].next <= Len(Body[RunningKernel[w]]) /\ (push(w) \/ pop(w))
  BY <1>1, <1>3 DEF push, pop, WorkersTyped
<1>4. CASE checkDeactivated(w) \/ readReservedHead(w) \/ drain(w)
  BY <1>1, <1>4 DEF checkDeactivated, readReservedHead, drain, WorkersTyped
<1>5. CASE reduceRepeat(w)
  BY <1>1, <1>5 DEF reduceRepeat, WorkersTyped
<1>6. QED
  BY <1>1, <1>2, <1>3, <1>4, <1>5 DEF step, runBody, resume, bodyEnds, checkTermination,
     acknowledgeCanTerminate, WorkersTyped

LEMMA DrainsOn ==
  ASSUME TypeInv, NEW w \in Workers, step(w), Drains(w)
  PROVE  Drains(w)'
<1> USE DEF QueuePlaces
<1>1. WorkersTyped /\ DataTyped
  BY DEF TypeInv
<1>2. SUFFICES ASSUME at'[w] \in QueuePlaces PROVE Drains(w)'
  BY DEF Drains
<1>3. /\ UNCHANGED <<Body, RunningKernel, thread, ReservedHead, isDeactivated>>
      /\ operationOf(w)' = operationOf(w) /\ queueOf(w)' = queueOf(w)
  BY <1>2, WhoDrains DEF operationOf, queueOf
<1>4. CASE pop(w) /\ at[w] = "run" /\ at'[w] = "failed" /\ UNCHANGED ReservedTail
           /\ thread[w].next <= Len(Body[RunningKernel[w]])
           /\ ~haveEnoughData(NumElm, ReservedHead[queueOf(w)], ReservedTail[queueOf(w)], NumRepeat(w))
  <2>1. queueOf(w) \in Queues
    BY <1>4, OperationTyped DEF AtOperation
  <2>2. ASSUME thread[w].repeat = 1 PROVE Empty(queueOf(w))
    <3>1. NumRepeat(w) = 1
      BY <2>2 DEF NumRepeat
    <3>2. /\ ReservedHead[queueOf(w)] \in 0 .. (NumElm - 1)
          /\ ReservedTail[queueOf(w)] \in 0 .. (NumElm - 1)
      BY <1>1, <2>1 DEF DataTyped
    <3>3. QED
      BY <1>4, <3>1, <3>2, PopFails, SizeAssumption DEF Empty
  <2>3. operationOf(w).op = "pop"
    BY <1>4 DEF pop
  <2>4. QED
    BY <1>3, <1>4, <2>2, <2>3 DEF Drains, Empty
<1>5. CASE checkDeactivated(w) /\ at'[w] \in {"ask", "recount", "drain"} /\ UNCHANGED ReservedTail
  <2>1. at[w] = "failed"
    BY <1>5 DEF checkDeactivated, goto
  <2>2. at'[w] # "ask" => isDeactivated[queueOf(w)]
    BY <1>1, <1>5 DEF checkDeactivated, goto, WorkersTyped
  <2>3. at'[w] = "drain" => ~(NumRepeat(w) > 1)
    BY <1>1, <1>5 DEF checkDeactivated, goto, WorkersTyped
  <2>4. at'[w] = "drain" /\ operationOf(w).num >= 2 => Empty(queueOf(w))
    <3>1. /\ NumRepeat(w) \in 1 .. (NumElm - 1)
          /\ operationOf(w).num \in 1 .. (NumElm - 1)
      BY <2>1, OperationTyped DEF AtOperation
    <3>2. ASSUME at'[w] = "drain", operationOf(w).num >= 2 PROVE thread[w].repeat = 1
      BY <2>3, <3>1, <3>2, SizeAssumption DEF NumRepeat
    <3>3. QED
      BY <2>1, <3>2 DEF Drains
  <2>5. operationOf(w).op = "pop"
    BY <2>1 DEF Drains
  <2>6. QED
    BY <1>3, <1>5, <2>2, <2>4, <2>5 DEF Drains, Empty
<1>6. CASE reduceRepeat(w) /\ at'[w] = "drain" /\ UNCHANGED ReservedTail
  <2>1. at[w] = "recount"
    BY <1>6 DEF reduceRepeat
  <2>2. operationOf(w).op = "pop" /\ isDeactivated[queueOf(w)]
    BY <2>1 DEF Drains
  <2>3. queueOf(w) \in Queues
    BY <2>1, OperationTyped DEF AtOperation
  <2>4. ~(numElement(queueOf(w)) > 0)
    BY <1>1, <1>6 DEF reduceRepeat, goto, WorkersTyped
  <2>5. Empty(queueOf(w))
    <3>1. /\ ReservedHead[queueOf(w)] \in 0 .. (NumElm - 1)
          /\ ReservedTail[queueOf(w)] \in 0 .. (NumElm - 1)
      BY <1>1, <2>3 DEF DataTyped
    <3>2. numElement(queueOf(w)) \in 0 .. (NumElm - 1)
      BY <3>1, DistType, SizeAssumption DEF numElement
    <3>3. numElement(queueOf(w)) = 0
      BY <2>4, <3>2, SizeAssumption
    <3>4. QED
      BY <3>1, <3>3, DistZero, SizeAssumption DEF numElement, Empty
  <2>6. QED
    BY <1>3, <1>6, <2>2, <2>5 DEF Drains, Empty
<1>7. CASE readReservedHead(w) /\ at'[w] = "drained"
  <2>1. at[w] = "drain" /\ UNCHANGED ReservedTail /\ r_head'[w] = ReservedHead[queueOf(w)]
    BY <1>1, <1>7 DEF readReservedHead, goto, queues, DataTyped
  <2>2. QED
    BY <1>3, <1>7, <2>1 DEF Drains, Empty
<1>8. CASE drain(w) /\ at'[w] = "ask"
  <2>1. at[w] = "drained"
    BY <1>8 DEF drain, goto
  <2>2. QED
    BY <1>3, <1>8, <2>1 DEF Drains
<1>9. QED
  BY <1>2, <1>4, <1>5, <1>6, <1>7, <1>8, WhoDrains

(* The others find the queue as they left it: nobody fills a deactivated   *)
(* queue.                                                                  *)
LEMMA DrainsStays ==
  ASSUME TypeInv, ThreadsCounted, EndInv, ActiveInv, DrainInv,
         NEW w \in Workers, step(w), ~StaleDrain, NEW v \in Workers \ {w}
  PROVE  Drains(v)'
<1> USE DEF QueuePlaces
<1> DEFINE k == RunningKernel[v]
           q == queueOf(v)
<1>1. WorkersTyped /\ DataTyped /\ Untouched(v) /\ program' = program /\ Body' = Body
  BY OthersUntouched DEF TypeInv, step, Body
<1>2. /\ operationOf(v)' = operationOf(v) /\ queueOf(v)' = q
  BY <1>1 DEF operationOf, queueOf, Untouched
<1>3. SUFFICES ASSUME at[v] \in QueuePlaces PROVE Drains(v)'
  BY <1>1 DEF Drains, Untouched
<1>4. /\ thread[v].next \in DOMAIN Body[k] /\ q \in Queues /\ k \in Kernels
      /\ thread[v] \in GreenThreads /\ operationOf(v).num \in 1 .. (NumElm - 1)
  BY <1>3, OperationTyped, LiveThread DEF AtOperation, LivePlaces
<1>5. Drains(v) /\ operationOf(v).op = "pop"
  BY <1>3 DEF DrainInv, Drains
<1>6. \A r \in Queues : isDeactivated[r] => isDeactivated'[r] /\ Terminated[Producer(r)]
  <2>1. \A r \in Queues : isDeactivated[r] => isDeactivated'[r]
    BY <1>1, WhoDeactivates DEF deactivateQueue, DataTyped
  <2>2. QED
    BY <2>1 DEF ActiveInv, LeftInv
<1>7. at[v] = "failed" /\ thread[v].repeat = 1 => isDeactivated[q]
  <2>1. runs(v, k)
    BY <1>3, <1>4, NullAssumption DEF runs, selecting
  <2>2. KnowsQueue(thread[v], k)
    BY <1>4, <2>1 DEF DrainInv, ThreadsKnow, Knows
  <2>3. QED
    BY <2>2 DEF KnowsQueue, queueOf, operationOf
<1>8. \A r \in Queues : isDeactivated[r] /\ Empty(r) => Empty(r)' /\ ReservedHead'[r] = ReservedHead[r]
  BY <1>6, EmptyStays
<1>9. at[v] = "drained" /\ operationOf(v).num >= 2 => r_head'[v] = ReservedHead'[q]
  <2> SUFFICES ASSUME at[v] = "drained", operationOf(v).num >= 2
               PROVE  r_head'[v] = ReservedHead'[q]
    OBVIOUS
  <2>1. r_head'[v] = r_head[v]
    <3>1. CASE UNCHANGED r_head
      BY <3>1
    <3>2. CASE readReservedHead(w) \/ drain(w)
      BY <1>1, <3>2 DEF readReservedHead, drain, DataTyped
    <3>3. QED
      BY <3>1, <3>2 DEF step, select, selectNext, trySchedule, casSequentialKernelRunning, walkOn,
         noKernel, takeReady, checkTerminating, spawn, noThread, switchThread, scheduleOut,
         runBody, resume, bodyEnds, push, pop, checkDeactivated, reduceRepeat, checkTermination,
         acknowledgeCanTerminate, endBody, replaceThread, endKernel, leaveKernel, repeatBody,
         deregisterThread, terminateKernel, deactivateQueue, decrementActive, leave, locals
  <2>2. r_head[v] = ReservedHead[q] /\ isDeactivated[q]
    BY <1>5 DEF Drains
  <2>3. QED
    BY <1>4, <1>5, <1>8, <2>1, <2>2 DEF Drains
<1>10. QED
  BY <1>1, <1>2, <1>4, <1>5, <1>6, <1>7, <1>8, <1>9 DEF Drains, Empty, Untouched

(* A kernel that has ended had no element left, and gets no more.          *)
LEMMA EndsEmpty ==
  ASSUME TypeInv, ThreadsCounted, EndInv, ActiveInv, DrainInv,
         NEW w \in Workers, step(w), ~StaleDrain
  PROVE  StaysEmpty'
<1>1. /\ KernelsTyped /\ DataTyped /\ program' = program /\ Queues' = Queues
  BY DEF TypeInv, step, Queues
<1>2. \A q : Consumer(q)' = Consumer(q) /\ (isFeedbackQueue(q)' <=> isFeedbackQueue(q))
  BY <1>1 DEF Consumer, isFeedbackQueue
<1>3. SUFFICES ASSUME NEW q \in Queues, Ended'[Consumer(q)], ~isFeedbackQueue(q) PROVE Empty(q)'
  BY <1>1, <1>2 DEF StaysEmpty
<1>4. CASE Ended[Consumer(q)]
  <2>1. Empty(q) /\ Consumer(q) \in Kernels
    BY <1>1, <1>3, <1>4, ProgramFacts DEF DrainInv, StaysEmpty
  <2>2. q \in Inputs(Consumer(q)) /\ Uncounted(Consumer(q)) = {}
    BY <1>3, <1>4, <2>1 DEF Inputs, ActiveInv, EndedInv
  <2>3. Terminated[Producer(q)]
    BY <2>2 DEF Uncounted
  <2>4. QED
    BY <2>1, <2>3, EmptyStays
<1>5. CASE ~Ended[Consumer(q)]
  <2>1. checkTermination(w) \/ endKernel(w)
    BY <1>3, <1>5, WhoDeactivates
  <2>2. /\ UNCHANGED <<ReservedHead, ReservedTail>>
        /\ Ended' = [Ended EXCEPT ![RunningKernel[w]] = TRUE]
        /\ canTerminate(RunningKernel[w], FALSE) \/ canTerminate(RunningKernel[w], TRUE)
    BY <1>3, <1>5, <2>1 DEF checkTermination, endKernel, queues
  <2>3. RunningKernel[w] = Consumer(q)
    BY <1>1, <1>3, <1>5, <2>2 DEF KernelsTyped
  <2>4. allInputsEmpty(Consumer(q))
    BY <1>5, <2>2, <2>3 DEF canTerminate
  <2>5. q \in Inputs(Consumer(q))
    BY <1>3 DEF Inputs
  <2>6. QED
    BY <2>2, <2>4, <2>5 DEF allInputsEmpty, Empty
<1>6. QED
  BY <1>4, <1>5

LEMMA DrainStep ==
  ASSUME TypeInv, TokenInv, ThreadsCounted, EndInv, ActiveInv, DrainInv,
         NEW w \in Workers, step(w), ~StaleDrain
  PROVE  DrainInv'
<1>1. ThreadsKnow'
  BY ThreadsKnowStep DEF DrainInv
<1>2. Drains(w)'
  BY DrainsOn DEF DrainInv
<1>3. \A v \in Workers : Drains(v)'
  BY <1>2, DrainsStays
<1>4. QED
  BY <1>1, <1>3, EndsEmpty DEF DrainInv

LEMMA DrainInvUntil == Spec => []DrainInv \/ <><<LateSpawn \/ StaleDrain>>_vars
<1>1. TypeInv /\ TokenInv /\ ThreadsCounted /\ EndInv /\ ActiveInv /\ DrainInv
        /\ [Next]_vars /\ [~StaleDrain]_vars => DrainInv'
  <2>1. ASSUME DrainInv, UNCHANGED vars PROVE DrainInv'
    <3>1. UNCHANGED <<program, Body, Kernels, Queues, isDeactivated, Ended, ReservedHead, ReservedTail,
                      ReadyQueues, RunningKernel, OldKernel, thread, NewThread, r_head, at>>
      BY <2>1 DEF vars, queues, kernels, context, choice, locals, Kernels, Body, Queues
    <3>2. \A t, k : KnowsQueue(t, k)' <=> KnowsQueue(t, k)
      BY <3>1 DEF KnowsQueue
    <3>3. \A w, k : (runs(w, k)' <=> runs(w, k)) /\ (chosenFor(w, k)' <=> chosenFor(w, k))
      BY <3>1 DEF runs, selecting, chosenFor
    <3>4. ThreadsKnow'
      BY <2>1, <3>1, <3>2, <3>3 DEF DrainInv, ThreadsKnow, ReadyKnow, Knows
    <3>5. \A w \in Workers : Drains(w)'
      BY <2>1, <3>1 DEF DrainInv, Drains, operationOf, queueOf, Empty
    <3>6. StaysEmpty'
      BY <2>1, <3>1 DEF DrainInv, StaysEmpty, Empty, Consumer, isFeedbackQueue
    <3>7. QED
      BY <3>4, <3>5, <3>6 DEF DrainInv
  <2>2. ASSUME TypeInv, TokenInv, ThreadsCounted, EndInv, ActiveInv, DrainInv, ~StaleDrain, Next
        PROVE  DrainInv'
    <3>1. CASE finished
      BY <2>1, <2>2, <3>1 DEF finished
    <3>2. ASSUME NEW w \in Workers, step(w) PROVE DrainInv'
      BY <2>2, <3>2, DrainStep
    <3>3. QED
      BY <2>2, <3>1, <3>2 DEF Next
  <2>3. QED
    BY <2>1, <2>2
<1>2. QED
  BY <1>1, DrainBegins, TypesHold, TokensHold, ThreadsCountedHolds, EndInvUntil, ActiveCounted,
     PTL DEF Spec

(* "Propagating termination from the starting kernels": a kernel decides   *)
(* to end only when its producers are Terminated and its inputs consumed,  *)
(* and they stay so, unless a spawned thread is counted late, or a pop of  *)
(* one element drains with an old head: that puts elements back which are  *)
(* consumed already.                                                       *)
THEOREM TerminatesAfterProducersHolds ==
  Spec => []TerminatesAfterProducers \/ <><<LateSpawn \/ StaleDrain>>_vars
<1>1. TypeInv /\ ActiveInv /\ DrainInv => TerminatesAfterProducers
  <2> SUFFICES ASSUME TypeInv, ActiveInv, DrainInv, NEW q \in Queues, Ended[Consumer(q)],
                      ~isFeedbackQueue(q)
               PROVE  Terminated[Producer(q)] /\ ReservedTail[q] = ReservedHead[q]
    BY DEF TerminatesAfterProducers
  <2>1. Consumer(q) \in Kernels /\ Empty(q)
    BY ProgramFacts DEF TypeInv, DrainInv, StaysEmpty
  <2>2. q \in Inputs(Consumer(q)) /\ Uncounted(Consumer(q)) = {}
    BY <2>1 DEF Inputs, ActiveInv, EndedInv
  <2>3. QED
    BY <2>1, <2>2 DEF Uncounted, Empty
<1>2. QED
  BY <1>1, TypesHold, ActiveCounted, DrainInvUntil, PTL

(* A pop of one element drains a queue that is not empty: what was pushed  *)
(* between the failed pop and isInputQueueDeactivated.                     *)
EarlyDrain ==
  \E w \in Workers : drain(w) /\ operationOf(w).num = 1 /\ ~Empty(queueOf(w))

(* drain discards nothing, whatever the program, unless a pop of one       *)
(* element drains early or late, or a spawned thread is counted late.  In  *)
(* particular what is too little for a larger pop is popped by and by      *)
(* before the queue is drained.                                            *)
THEOREM NothingLostHolds ==
  Spec => []NothingLost \/ <><<LateSpawn \/ StaleDrain \/ EarlyDrain>>_vars
<1>1. UNCHANGED vars /\ NothingLost => NothingLost'
  BY DEF vars, queues, NothingLost
<1>2. Init => NothingLost
  BY DEF Init, NothingLost
<1>3. ASSUME TypeInv, DrainInv, NothingLost, NEW w \in Workers, step(w), ~StaleDrain, ~EarlyDrain
      PROVE  NothingLost'
  <2>1. TypeInv /\ DrainInv /\ ~lost /\ step(w) /\ ~StaleDrain /\ ~EarlyDrain
    BY <1>3 DEF NothingLost
  <2> SUFFICES ~lost'
    BY DEF NothingLost
  <2>2. CASE drain(w)
    <3>1. at[w] = "drained" /\ lost' = (lost \/ ReservedTail[queueOf(w)] # r_head[w])
      BY <2>2 DEF drain, goto
    <3>2. operationOf(w).num \in 1 .. (NumElm - 1)
      BY <2>1, <3>1, OperationTyped DEF AtOperation, QueuePlaces
    <3>3. CASE operationOf(w).num = 1
      BY <2>1, <2>2, <3>1, <3>3 DEF StaleDrain, EarlyDrain, Empty
    <3>4. CASE operationOf(w).num >= 2
      BY <2>1, <3>1, <3>4 DEF DrainInv, Drains, Empty
    <3>5. QED
      BY <3>2, <3>3, <3>4, SizeAssumption
  <2>3. CASE UNCHANGED lost
    BY <2>1, <2>3
  <2>4. QED
    BY <2>1, <2>2, <2>3 DEF step, select, selectNext, trySchedule, casSequentialKernelRunning, walkOn,
       noKernel, takeReady, checkTerminating, spawn, noThread, switchThread, scheduleOut,
       runBody, resume, bodyEnds, push, pop, checkDeactivated, reduceRepeat, readReservedHead,
       checkTermination, acknowledgeCanTerminate, endBody, replaceThread, endKernel, leaveKernel,
       repeatBody, deregisterThread, terminateKernel, deactivateQueue, decrementActive, leave, queues
<1>4. QED
  <2>1. TypeInv /\ DrainInv /\ NothingLost /\ Next /\ ~StaleDrain /\ ~EarlyDrain => NothingLost'
    BY <1>1, <1>3 DEF Next, finished
  <2>2. TypeInv /\ DrainInv /\ NothingLost /\ [Next]_vars
          /\ [~(StaleDrain \/ EarlyDrain)]_vars => NothingLost'
    BY <1>1, <2>1
  <2>3. QED
    BY <1>2, <2>2, TypesHold, DrainInvUntil, PTL DEF Spec

-----------------------------------------------------------------------------
(* areAllNonFeedbackInputQueuesEmpty asserts of an input that is not empty *)
(* that it is deactivated: it is asked once no input is active.            *)
InputsDeactivated ==
  \A k \in Kernels : ActiveNonFeedbackInputQueues[k] <= 0 =>
    \A q \in Inputs(k) : isDeactivated[q]

(* A queue is marked before it is counted.                                 *)
MarkedFirst ==
  /\ \A q \in Queues : Terminated[Producer(q)] /\ (\A w \in Workers : q \notin left[w]) =>
       isDeactivated[q]
  /\ \A w \in Workers : at[w] = "count" => \A q \in firstQueue(left[w]) : isDeactivated[q]

LEMMA MarkedStep ==
  ASSUME TypeInv, ActiveInv, MarkedFirst, NEW w \in Workers, step(w)
  PROVE  MarkedFirst'
<1>1. /\ WorkersTyped /\ KernelsTyped /\ DataTyped /\ LeftInv /\ program' = program
      /\ Queues' = Queues /\ \A q : Producer(q)' = Producer(q)
      /\ \A v \in Workers \ {w} : at'[v] = at[v]
  BY OthersUntouched DEF TypeInv, ActiveInv, step, Queues, Producer, Untouched
<1>2. \A q \in Queues : Producer(q) \in Kernels
  BY <1>1, ProgramFacts
<1>3. CASE terminateKernel(w)
  <2>1. /\ at[w] = "terminate" /\ at'[w] = "flag" /\ UNCHANGED isDeactivated
        /\ Terminated' = [Terminated EXCEPT ![RunningKernel[w]] = TRUE]
        /\ left' = [left EXCEPT ![w] = OutQueueTable(RunningKernel[w])]
    BY <1>1, <1>3 DEF terminateKernel, goto, WorkersTyped, kernels
  <2>2. left[w] = {} /\ left'[w] = OutQueueTable(RunningKernel[w])
        /\ \A v \in Workers \ {w} : left'[v] = left[v]
    BY <1>1, <2>1 DEF LeftInv, DataTyped
  <2>3. ASSUME NEW q \in Queues, Terminated'[Producer(q)], \A v \in Workers : q \notin left'[v]
        PROVE  isDeactivated[q]
    <3>1. Producer(q) # RunningKernel[w]
      BY <2>2, <2>3 DEF OutQueueTable
    <3>2. Terminated[Producer(q)]
      BY <1>1, <1>2, <2>1, <2>3, <3>1 DEF KernelsTyped
    <3>3. \A v \in Workers : q \notin left[v]
      BY <2>2, <2>3
    <3>4. QED
      BY <3>2, <3>3 DEF MarkedFirst
  <2>4. QED
    BY <1>1, <2>1, <2>2, <2>3 DEF MarkedFirst, firstQueue
<1>4. CASE deactivateQueue(w)
  <2>1. PICK q0 \in firstQueue(left[w]) : isDeactivated' = [isDeactivated EXCEPT ![q0] = TRUE]
    BY <1>4 DEF deactivateQueue
  <2>2. UNCHANGED <<left, Terminated>>
    BY <1>4 DEF deactivateQueue, locals, status
  <2>3. left[w] \subseteq Queues
    BY <1>1 DEF DataTyped
  <2>4. q0 \in Queues /\ \A q \in firstQueue(left[w]) : q = q0 /\ isDeactivated'[q]
    <3>1. q0 \in Queues /\ isDeactivated'[q0]
      BY <1>1, <2>1, <2>3 DEF firstQueue, DataTyped
    <3>2. ASSUME NEW q \in firstQueue(left[w]) PROVE q = q0
      <4>1. q \in Queues /\ q0 \in Queues /\ Queues \subseteq Nat
        BY <1>1, <2>3, <3>1, ProgramAssumption DEF firstQueue, Queues, DataTyped
      <4>2. q <= q0 /\ q0 <= q
        BY DEF firstQueue
      <4>3. QED
        BY <4>1, <4>2
    <3>3. QED
      BY <3>1, <3>2
  <2>5. \A q \in Queues : isDeactivated[q] => isDeactivated'[q]
    BY <1>1, <2>1 DEF DataTyped
  <2>6. \A v \in Workers : \A q \in firstQueue(left[v]) : q \in Queues
    BY <1>1 DEF DataTyped, firstQueue
  <2>7. \A v \in Workers : firstQueue(left[v])' = firstQueue(left[v])
    BY <2>2 DEF firstQueue
  <2>8. QED
    BY <1>1, <2>2, <2>4, <2>5, <2>6, <2>7 DEF MarkedFirst
<1>5. CASE decrementActive(w)
  <2>1. PICK q0 \in firstQueue(left[w]) : left' = [left EXCEPT ![w] = @ \ {q0}]
    BY <1>5 DEF decrementActive
  <2>2. /\ at[w] = "count" /\ at'[w] # "count" /\ UNCHANGED <<Terminated, isDeactivated>>
    BY <1>1, <1>5 DEF decrementActive, goto, WorkersTyped, status
  <2>3. /\ left'[w] = left[w] \ {q0} /\ isDeactivated[q0]
        /\ \A v \in Workers \ {w} : left'[v] = left[v]
    BY <1>1, <2>1, <2>2 DEF DataTyped, MarkedFirst
  <2>4. \A q \in Queues : (\A v \in Workers : q \notin left'[v]) =>
          q = q0 \/ \A v \in Workers : q \notin left[v]
    BY <2>3
  <2>5. \A v \in Workers \ {w} : firstQueue(left[v])' = firstQueue(left[v])
    BY <2>3 DEF firstQueue
  <2>6. QED
    BY <1>1, <2>2, <2>3, <2>4, <2>5 DEF MarkedFirst
<1>6. CASE ~terminateKernel(w) /\ ~deactivateQueue(w) /\ ~decrementActive(w)
  <2>1. UNCHANGED <<left, isDeactivated, Terminated>> /\ at'[w] # "count"
    BY <1>6, WhoDeactivates, WhoEnds
  <2>2. QED
    BY <1>1, <2>1 DEF MarkedFirst, firstQueue
<1>7. QED
  BY <1>3, <1>4, <1>5, <1>6

(* The assertion in areAllNonFeedbackInputQueuesEmpty holds: as long as    *)
(* no input is active, all of them are deactivated, unless a spawned       *)
(* thread is counted late.                                                 *)
THEOREM InputsDeactivatedHolds == Spec => []InputsDeactivated \/ <><<LateSpawn>>_vars
<1>1. Init => MarkedFirst
  <2> SUFFICES ASSUME Init PROVE MarkedFirst
    OBVIOUS
  <2>1. \A q \in Queues : Producer(q) \in Kernels
    BY TypesBegin, ProgramFacts DEF TypeInv
  <2>2. QED
    BY <2>1 DEF Init, MarkedFirst
<1>2. TypeInv /\ ActiveInv /\ MarkedFirst /\ [Next]_vars => MarkedFirst'
  <2>1. ASSUME MarkedFirst, UNCHANGED vars PROVE MarkedFirst'
    BY <2>1 DEF vars, kernels, status, locals, MarkedFirst, firstQueue, Queues, Producer
  <2>2. QED
    BY <2>1, MarkedStep DEF Next, finished
<1>3. TypeInv /\ ActiveInv /\ MarkedFirst => InputsDeactivated
  <2> SUFFICES ASSUME TypeInv, ActiveInv, MarkedFirst, NEW k \in Kernels,
                      ActiveNonFeedbackInputQueues[k] <= 0, NEW q \in Inputs(k)
               PROVE  isDeactivated[q]
    BY DEF InputsDeactivated
  <2>1. Cardinality(Uncounted(k)) <= 0 /\ Cardinality(Uncounted(k)) \in Nat
    BY UncountedFinite DEF ActiveInv, ActiveCounts
  <2>2. Uncounted(k) = {}
    BY <2>1, UncountedFinite
  <2>3. Terminated[Producer(q)] /\ q \in Queues /\ \A w \in Workers : q \notin left[w]
    BY <2>2 DEF Uncounted, Inputs
  <2>4. QED
    BY <2>3 DEF MarkedFirst
<1>4. QED
  BY <1>1, <1>2, <1>3, TypesHold, ActiveCounted, PTL DEF Spec

-----------------------------------------------------------------------------
(* The end of the program.  What a native thread that has no green thread  *)
(* knows when it selects, and what it takes with it when one is gone.      *)
SelectPlaces == {"main", "search", "cas", "take", "check", "none", "retry"}

EndsKnow(w) ==
  /\ at[w] \in SelectPlaces /\ thread[w] = NULL /\ NewThread[w] = NULL =>
       Event[w] # "NotMyTurn"
  /\ at[w] \in GonePlaces \cup {"deregister"} /\ RunningKernel[w] \in Sequential =>
       Event[w] = "KernelTerminated"
  /\ at[w] = "none" /\ thread[w] = NULL /\ RunningKernel[w] = OldKernel[w]
         /\ RunningKernel[w] \in Sequential => Terminated[RunningKernel[w]]
  /\ at[w] = "cas" => candidate[w] \in Sequential

(* A token is with somebody, or its kernel is over.                        *)
FlagHeld ==
  \A k \in Sequential : SequentialKernelRunning[k] =>
    Terminated[k] \/ \E w \in Workers : Holds(w, k)

(* A native thread that will not leave main before it has searched through *)
(* all kernels.                                                            *)
Sure(w) ==
  \/ thread[w] # NULL
  \/ at[w] \in GonePlaces \cup {"main", "retry", "spawn", "switch", "release"}
  \/ at[w] \in {"take", "check", "none"} /\ RunningKernel[w] # OldKernel[w]

(* The search will still come to k.                                        *)
Planned(w, k) == NextKernel[w] # NULL \/ \E i \in DOMAIN plan[w] : k \in plan[w][i]

(* A green thread will be found or spawned.                                *)
Goes(w) ==
  LET k == RunningKernel[w] IN
  \/ at[w] = "take" /\ (ReadyQueues[k] # <<>> \/ ~Terminating[k])
  \/ at[w] = "check" /\ ~Terminating[k]

Tries(w, k) ==
  \/ at[w] = "search" /\ Planned(w, k)
  \/ /\ at[w] = "cas" /\ (k = candidate[w] \/ Planned(w, k))
     /\ \/ candidate[w] # OldKernel[w] \/ ~Terminated[candidate[w]]
        \/ SequentialKernelRunning[candidate[w]]
  \/ Goes(w)

SomebodyTries ==
  (\A w \in Workers : ~Sure(w)) =>
    \A k \in Kernels : ~Terminated[k] => \E w \in Workers : Tries(w, k)

CompleteInv ==
  /\ \A w \in Workers : EndsKnow(w)
  /\ FlagHeld
  /\ SomebodyTries

LEMMA CompleteBegins == ASSUME Workers # {} PROVE Init => CompleteInv
<1> SUFFICES ASSUME Init PROVE CompleteInv
  OBVIOUS
<1>1. \A w \in Workers : EndsKnow(w)
  <2>1. ASSUME NEW w \in Workers PROVE at[w] = "main" /\ Event[w] = "NumSchedulingEvent"
    BY DEF Init
  <2>2. QED
    BY <2>1 DEF EndsKnow, GonePlaces
<1>2. FlagHeld
  BY DEF Init, FlagHeld, Sequential
<1>3. \A w \in Workers : Sure(w)
  BY DEF Init, Sure
<1>4. QED
  BY <1>1, <1>2, <1>3 DEF CompleteInv, SomebodyTries

(* Terminated is for ever.                                                 *)
LEMMA TerminatedStays ==
  ASSUME TypeInv, NEW w \in Workers, step(w), NEW k \in Kernels, Terminated[k]
  PROVE  Terminated'[k]
<1>1. UNCHANGED Terminated \/ terminateKernel(w)
  BY WhoEnds
<1>2. QED
  BY <1>1 DEF terminateKernel, TypeInv, KernelsTyped

(* A kernel whose green threads are all in the ready queue has as many.    *)
LEMMA CountOfReady ==
  ASSUME TypeInv, ThreadsCounted, NEW k \in Kernels,
         \A v \in Workers : ~runs(v, k) /\ ~chosenFor(v, k)
  PROVE  NumSpawnedThreads[k] = Len(ReadyQueues[k])
<1>1. /\ { v \in Workers : runs(v, k) } = {}
      /\ { v \in Workers : NewThread[v] # NULL /\ RunningKernel[v] = k } = {}
  BY DEF chosenFor
<1>2. Len(ReadyQueues[k]) \in Nat
  BY DEF TypeInv, KernelsTyped
<1>3. QED
  BY <1>1, <1>2, FS_EmptySet DEF ThreadsCounted, threadsOf

(* A sequential kernel's green thread is with who has the token.           *)
LEMMA RunsIsLive ==
  ASSUME TokenInv, NEW v \in Workers, NEW k \in Sequential, runs(v, k) \/ chosenFor(v, k)
  PROVE  Live(v, k) /\ Holds(v, k)
<1> USE DEF LivePlaces, GonePlaces, ChosenPlaces
<1>1. Local(v)
  BY DEF TokenInv
<1>2. CASE chosenFor(v, k)
  BY <1>1, <1>2 DEF chosenFor, Local, Live, Holds, HoldsRunning, HoldsOld
<1>3. CASE runs(v, k)
  <2>1. thread[v] # NULL /\ at[v] \notin {"main", "exited"} \cup GonePlaces \cup {"release"}
    BY <1>1, <1>3 DEF runs, Local
  <2>2. CASE at[v] \in ChosenPlaces \cup {"retry"}
    BY <1>1, <1>3, <2>1, <2>2 DEF runs, selecting, Local, Live, Holds, HoldsRunning, HoldsOld
  <2>3. CASE at[v] \in LivePlaces \cup {"search", "cas"}
    BY <1>1, <1>3, <2>1, <2>3 DEF runs, selecting, Live, Holds, HoldsRunning
  <2>4. QED
    BY <1>1, <2>1, <2>2, <2>3 DEF Local, Places
<1>4. QED
  BY <1>2, <1>3

(* Nobody is sure: the green threads of a kernel that is about to end are  *)
(* ready.                                                                  *)
LEMMA QuietKernel ==
  ASSUME TypeInv, TokenInv, ThreadsCounted, LastThreadTerminates, \A v \in Workers : ~Sure(v),
         NEW k \in Kernels, Terminating[k], ~Terminated[k]
  PROVE  ReadyQueues[k] # <<>>
<1>1. ASSUME NEW v \in Workers PROVE ~runs(v, k) /\ ~chosenFor(v, k)
  <2>1. thread[v] = NULL /\ at[v] \notin GonePlaces \cup {"main", "switch", "release"}
    BY DEF Sure
  <2>2. at[v] # "deregister"
    BY <2>1 DEF TypeInv, Known, LivePlaces
  <2>3. NewThread[v] = NULL
    BY <2>1, <2>2 DEF TokenInv, Local
  <2>4. QED
    BY <2>1, <2>3 DEF runs, chosenFor
<1>2. NumSpawnedThreads[k] = Len(ReadyQueues[k])
  BY <1>1, CountOfReady
<1>3. ~Pending(k)
  BY DEF Pending, Sure, GonePlaces
<1>4. NumSpawnedThreads[k] # 0
  BY <1>3 DEF LastThreadTerminates, Pending
<1>5. QED
  BY <1>2, <1>4

-----------------------------------------------------------------------------
LEMMA EndsKnowStep ==
  ASSUME ~Speculation, ~RandomJumps, TypeInv, TokenInv, TokenInv', ThreadsCounted, LastThreadTerminates,
         CompleteInv, NEW w \in Workers, step(w)
  PROVE  \A v \in Workers : EndsKnow(v)'
<1> USE DEF LivePlaces, GonePlaces, SelectPlaces, context, choice, search
<1>1. /\ Kernels' = Kernels /\ Sequential' = Sequential /\ Sequential \subseteq Kernels
      /\ WorkersTyped /\ Known(w) /\ Local(w) /\ Local(w)' /\ EndsKnow(w)
      /\ \A v \in Workers \ {w} : Untouched(v)
  BY OthersUntouched DEF step, Kernels, Body, TypeInv, TokenInv, Sequential, ParallelExec,
     CompleteInv
<1>2. ASSUME NEW v \in Workers \ {w} PROVE EndsKnow(v)'
  <2>1. EndsKnow(v) /\ Untouched(v)
    BY <1>1 DEF CompleteInv
  <2>2. \A k \in Kernels : Terminated[k] => Terminated'[k]
    BY TerminatedStays
  <2>3. QED
    BY <1>1, <2>1, <2>2 DEF EndsKnow, Untouched
<1>3. at'[w] \in SelectPlaces /\ thread'[w] = NULL /\ NewThread'[w] = NULL => Event'[w] # "NotMyTurn"
  <2> USE <1>1 DEF goto, WorkersTyped
  <2> SUFFICES ASSUME at'[w] \in SelectPlaces, thread'[w] = NULL, NewThread'[w] = NULL
               PROVE  Event'[w] # "NotMyTurn"
    OBVIOUS
  <2>1. CASE select(w)
    <3>1. UNCHANGED Event /\ thread'[w] = thread[w] /\ NewThread'[w] = NewThread[w]
      BY <2>1 DEF select, selectNext, selectNothing, trySchedule, walkOn, noKernel, takeReady,
         checkTerminating, spawn, noThread, switchThread, scheduleOut, enterThread,
         casSequentialKernelRunning
    <3>2. at[w] \in SelectPlaces \cup {"yield"}
      BY <2>1 DEF select, selectNext, trySchedule, passKernel, pickParallel, pickSequential,
         walkOn, noKernel, selectNothing, takeReady, checkTerminating, spawn, noThread,
         switchThread, scheduleOut, enterThread, casSequentialKernelRunning
    <3>3. QED
      BY <3>1, <3>2 DEF EndsKnow, Known
  <2>2. CASE runBody(w)
    <3>1. at'[w] \in LivePlaces
      BY <2>2 DEF runBody, resume, bodyEnds, push, pop, checkDeactivated, reduceRepeat,
         readReservedHead, drain, checkTermination, acknowledgeCanTerminate
    <3>2. QED
      BY <3>1
  <2>3. CASE endBody(w)
    <3>1. leave(w)
      BY <2>3 DEF endBody, replaceThread, endKernel, leaveKernel, repeatBody, deregisterThread,
         terminateKernel, deactivateQueue, decrementActive
    <3>2. at[w] \in GonePlaces /\ UNCHANGED <<Event, NewThread>>
      BY <3>1 DEF leave
    <3>3. QED
      BY <3>2 DEF Known
  <2>4. QED
    BY <2>1, <2>2, <2>3 DEF step
<1>4. at'[w] \in GonePlaces \cup {"deregister"} /\ RunningKernel'[w] \in Sequential =>
        Event'[w] = "KernelTerminated"
  <2> SUFFICES ASSUME at'[w] \in GonePlaces \cup {"deregister"}, RunningKernel'[w] \in Sequential
               PROVE  Event'[w] = "KernelTerminated"
    OBVIOUS
  <2>1. CASE at'[w] = "deregister"
    <3>1. endKernel(w) \/ NewThread'[w] # NULL
      <4>1. endKernel(w) \/ leaveKernel(w) \/ NewThread'[w] # NULL
        BY <2>1, WhoEnds
      <4>2. QED
        BY <4>1 DEF leaveKernel
    <3>2. NewThread'[w] = NULL
      BY <1>1, <2>1 DEF Local
    <3>3. QED
      BY <1>1, <3>1, <3>2 DEF endKernel, WorkersTyped
  <2>2. CASE at'[w] \in GonePlaces
    <3>1. ~select(w)
      BY <1>1, <2>2 DEF select, selectNext, selectNothing, trySchedule, passKernel,
         pickParallel, pickSequential, walkOn, noKernel, takeReady, checkTerminating, spawn,
         noThread, switchThread, scheduleOut, enterThread, casSequentialKernelRunning, goto,
         WorkersTyped
    <3>2. ~runBody(w)
      BY <1>1, <2>2 DEF runBody, resume, bodyEnds, push, pop, checkDeactivated, reduceRepeat,
         readReservedHead, drain, checkTermination, acknowledgeCanTerminate, goto, WorkersTyped
    <3>3. endBody(w)
      BY <3>1, <3>2 DEF step
    <3>4. at[w] \in GonePlaces \cup {"deregister"} /\ UNCHANGED <<Event, RunningKernel>>
      BY <1>1, <2>2, <3>3 DEF endBody, replaceThread, endKernel, leaveKernel, repeatBody,
         deregisterThread, terminateKernel, deactivateQueue, decrementActive, leave, goto,
         WorkersTyped
    <3>5. QED
      BY <1>1, <3>4 DEF EndsKnow
  <2>3. QED
    BY <2>1, <2>2
<1>5. ASSUME at'[w] = "none", thread'[w] = NULL, RunningKernel'[w] = OldKernel'[w],
             RunningKernel'[w] \in Sequential
      PROVE  Terminated'[RunningKernel'[w]]
  <2> DEFINE k == RunningKernel[w]
  <2>1. takeReady(w) \/ checkTerminating(w)
    BY <1>1, <1>5 DEF step, select, selectNext, selectNothing, trySchedule, passKernel,
       pickParallel, pickSequential, walkOn, noKernel, spawn,
       noThread, switchThread, scheduleOut, enterThread, casSequentialKernelRunning,
       runBody, resume, bodyEnds, push, pop, checkDeactivated, reduceRepeat,
       readReservedHead, drain, checkTermination, acknowledgeCanTerminate,
       endBody, replaceThread, endKernel, leaveKernel, repeatBody, deregisterThread,
       terminateKernel, deactivateQueue, decrementActive, leave, goto, WorkersTyped
  <2>2. ~takeReady(w)
    <3> SUFFICES ASSUME takeReady(w) PROVE FALSE
      OBVIOUS
    <3>1. at[w] = "take" /\ thread[w] = NULL /\ Event[w] = "NotMyTurn"
      BY <1>1, <1>5 DEF takeReady, goto, WorkersTyped
    <3>2. NewThread[w] = NULL
      BY <1>1, <3>1 DEF Local
    <3>3. QED
      BY <1>1, <3>1, <3>2 DEF EndsKnow
  <2>3. /\ at[w] = "check" /\ thread[w] = NULL /\ Terminating[k] /\ k \in Sequential
        /\ RunningKernel'[w] = k /\ UNCHANGED Terminated
    BY <1>1, <1>5, <2>1, <2>2 DEF checkTerminating, goto, WorkersTyped, status
  <2>4. k \in Kernels /\ Holds(w, k) /\ Live(w, k) /\ NewThread[w] = NULL
    BY <1>1, <2>3 DEF Holds, HoldsRunning, Live, ChosenPlaces, Local
  <2>5. ReadyQueues[k] = <<>> /\ \A v \in Workers : Holds(v, k) => v = w
    BY <2>3, <2>4 DEF TokenInv
  <2>6. \A v \in Workers : ~runs(v, k) /\ ~chosenFor(v, k)
    BY <2>3, <2>4, <2>5, RunsIsLive DEF runs, chosenFor
  <2>7. NumSpawnedThreads[k] = 0
    BY <2>4, <2>5, <2>6, CountOfReady
  <2>8. ~Pending(k)
    BY <2>3, <2>5 DEF Pending, Holds, HoldsRunning
  <2>9. QED
    BY <2>3, <2>4, <2>7, <2>8 DEF LastThreadTerminates, Pending
<1>6. at'[w] = "cas" => candidate'[w] \in Sequential
  <2> SUFFICES ASSUME at'[w] = "cas" PROVE candidate'[w] \in Sequential
    OBVIOUS
  <2>1. \E k \in Kernels : pickSequential(w, k)
    <3>1. select(w)
      <4>1. ~runBody(w)
        BY <1>1 DEF runBody, resume, bodyEnds, push, pop, checkDeactivated, reduceRepeat,
           readReservedHead, drain, checkTermination, acknowledgeCanTerminate, goto, WorkersTyped
      <4>2. ~endBody(w)
        BY <1>1 DEF endBody, replaceThread, endKernel, leaveKernel, repeatBody,
           deregisterThread, terminateKernel, deactivateQueue, decrementActive, leave, goto,
           WorkersTyped
      <4>3. QED
        BY <4>1, <4>2 DEF step
    <3>2. QED
      BY <1>1, <3>1 DEF select, selectNext, selectNothing, trySchedule, passKernel,
         pickParallel, walkOn, noKernel, takeReady, checkTerminating, spawn, noThread,
         switchThread, scheduleOut, enterThread, casSequentialKernelRunning, goto, WorkersTyped
  <2>2. QED
    BY <1>1, <2>1 DEF pickSequential, TypeInv, SearchTyped, Sequential
<1>7. EndsKnow(w)'
  <2> HIDE DEF LivePlaces, GonePlaces, SelectPlaces
  <2>1. (at[w] \in GonePlaces \cup {"deregister"} /\ RunningKernel[w] \in Sequential)' =>
          Event'[w] = "KernelTerminated"
    BY <1>1, <1>4 DEF GonePlaces
  <2>2. (/\ at[w] = "none" /\ thread[w] = NULL
         /\ RunningKernel[w] = OldKernel[w] /\ RunningKernel[w] \in Sequential)' =>
           Terminated'[RunningKernel'[w]]
    BY <1>1, <1>5
  <2>3. QED
    BY <1>1, <1>3, <1>6, <2>1, <2>2 DEF EndsKnow
<1>8. QED
  BY <1>2, <1>7

(* Who has a token keeps it, or releases it, or its kernel is over.        *)
LEMMA HolderKeeps ==
  ASSUME TypeInv, TokenInv, NEW w \in Workers, step(w), EndsKnow(w),
         NEW k \in Sequential, Holds(w, k)
  PROVE  Holds(w, k)' \/ ~SequentialKernelRunning'[k] \/ Terminated[k]
<1> USE DEF LivePlaces, GonePlaces, ChosenPlaces, context, choice, search
<1>1. /\ k \in Kernels \ ParallelExec /\ SequentialKernelRunning \in [Kernels -> BOOLEAN]
      /\ WorkersTyped /\ Known(w) /\ Local(w)
  BY DEF TypeInv, KernelsTyped, TokenInv, Sequential
<1> USE DEF goto, WorkersTyped
<1>2. CASE selectNext(w)
  <2>1. /\ at[w] \in {"main", "yield", "retry"}
        /\ at'[w] \in {"switch", "search", "resume"} \/ (at'[w] = "exited" /\ thread[w] = NULL)
        /\ UNCHANGED <<thread, RunningKernel>>
    BY <1>1, <1>2 DEF selectNext, selectNothing
  <2>2. thread[w] # NULL /\ RunningKernel[w] = k
    BY <1>1, <2>1 DEF Holds, HoldsRunning, HoldsOld, Local, Known
  <2>3. QED
    BY <2>1, <2>2 DEF Holds, HoldsRunning
<1>3. CASE \E j \in Kernels : trySchedule(w, j)
  <2>1. /\ at[w] = "search" /\ UNCHANGED <<OldKernel, thread>>
        /\ \/ at'[w] \in {"search", "cas"} /\ UNCHANGED RunningKernel
           \/ at'[w] = "take"
    BY <1>1, <1>3 DEF trySchedule, passKernel, pickParallel, pickSequential
  <2>2. thread[w] # NULL /\ RunningKernel[w] = k /\ OldKernel[w] = k
    BY <1>1, <2>1 DEF Holds, HoldsRunning, HoldsOld, Local
  <2>3. QED
    BY <2>1, <2>2 DEF Holds, HoldsRunning, HoldsOld
<1>4. CASE casSequentialKernelRunning(w) \/ walkOn(w) \/ noKernel(w)
  <2>1. /\ at[w] \in {"search", "cas"} /\ UNCHANGED <<OldKernel, thread>>
        /\ \/ at'[w] \in {"search", "resume"} /\ UNCHANGED RunningKernel
           \/ at'[w] = "exited" /\ thread[w] = NULL
           \/ at'[w] = "take"
    BY <1>1, <1>4 DEF casSequentialKernelRunning, walkOn, noKernel, selectNothing
  <2>2. thread[w] # NULL /\ RunningKernel[w] = k /\ OldKernel[w] = k
    BY <1>1, <2>1 DEF Holds, HoldsRunning, HoldsOld, Local
  <2>3. QED
    BY <2>1, <2>2 DEF Holds, HoldsRunning, HoldsOld
<1>5. CASE takeReady(w) \/ checkTerminating(w) \/ spawn(w)
  <2>1. /\ at[w] \in {"take", "check", "spawn"} /\ UNCHANGED <<OldKernel, RunningKernel, thread>>
        /\ at'[w] \in {"check", "none", "spawn", "switch"}
    BY <1>1, <1>5 DEF takeReady, checkTerminating, spawn
  <2>2. QED
    BY <2>1 DEF Holds, HoldsRunning, HoldsOld
<1>6. CASE noThread(w)
  <2>1. CASE RunningKernel[w] = OldKernel[w] /\ Event[w] # "NotMyTurn"
    <3>1. /\ at[w] = "none" /\ UNCHANGED RunningKernel /\ RunningKernel[w] = k
          /\ at'[w] = IF thread[w] = NULL THEN "exited" ELSE "resume"
      BY <1>1, <1>6, <2>1 DEF noThread, selectNothing, Holds, HoldsRunning, HoldsOld
    <3>2. QED
      BY <2>1, <3>1 DEF EndsKnow, Holds, HoldsRunning
  <2>2. CASE ~(RunningKernel[w] = OldKernel[w] /\ Event[w] # "NotMyTurn")
    <3>1. /\ at[w] = "none" /\ at'[w] = "retry" /\ UNCHANGED thread
          /\ RunningKernel'[w] = OldKernel[w] /\ releaseKernel(RunningKernel[w])
      BY <1>1, <1>6, <2>2 DEF noThread
    <3>2. RunningKernel[w] = k => ~SequentialKernelRunning'[k]
      BY <1>1, <3>1 DEF releaseKernel
    <3>3. RunningKernel[w] # k => OldKernel[w] = k /\ thread[w] # NULL
      BY <3>1 DEF Holds, HoldsOld
    <3>4. QED
      BY <3>1, <3>2, <3>3 DEF Holds, HoldsRunning
  <2>3. QED
    BY <2>1, <2>2
<1>7. CASE switchThread(w)
  <2>1. /\ at[w] = "switch" /\ UNCHANGED <<OldKernel, RunningKernel>>
        /\ \/ thread[w] = NULL /\ at'[w] \in {"resume", "run"}
           \/ at'[w] = "release"
    BY <1>1, <1>7 DEF switchThread, enterThread
  <2>2. QED
    BY <2>1 DEF Holds, HoldsRunning, HoldsOld
<1>8. CASE scheduleOut(w)
  <2>1. /\ at[w] = "release" /\ UNCHANGED RunningKernel /\ at'[w] \in {"resume", "run"}
        /\ releaseKernel(OldKernel[w])
    BY <1>1, <1>8 DEF scheduleOut, enterThread
  <2>2. OldKernel[w] = k => ~SequentialKernelRunning'[k]
    BY <1>1, <2>1 DEF releaseKernel
  <2>3. QED
    BY <2>1, <2>2 DEF Holds, HoldsRunning, HoldsOld
<1>9. CASE runBody(w)
  <2>1. at[w] \in LivePlaces /\ at'[w] \in LivePlaces /\ UNCHANGED RunningKernel
    BY <1>1, <1>9 DEF runBody, resume, bodyEnds, push, pop, checkDeactivated, reduceRepeat,
       readReservedHead, drain, checkTermination, acknowledgeCanTerminate
  <2>2. QED
    BY <2>1 DEF Holds, HoldsRunning, HoldsOld
<1>10. CASE endBody(w) /\ ~leave(w)
  <2>1. /\ at[w] \in LivePlaces \cup GonePlaces /\ at'[w] \in LivePlaces \cup GonePlaces
        /\ UNCHANGED RunningKernel
    BY <1>1, <1>10 DEF endBody, replaceThread, endKernel, leaveKernel, repeatBody,
       deregisterThread, terminateKernel, deactivateQueue, decrementActive
  <2>2. QED
    BY <2>1 DEF Holds, HoldsRunning, HoldsOld
<1>11. CASE leave(w)
  <2>1. at[w] \in GonePlaces
    BY <1>11 DEF leave
  <2>2. RunningKernel[w] = k
    BY <2>1 DEF Holds, HoldsOld
  <2>3. Event[w] = "KernelTerminated"
    BY <2>1, <2>2 DEF EndsKnow
  <2>4. releaseKernel(k)
    BY <1>11, <2>2, <2>3 DEF leave, kernelTermination
  <2>5. QED
    BY <1>1, <2>4 DEF releaseKernel
<1>12. QED
  BY <1>2, <1>3, <1>4, <1>5, <1>6, <1>7, <1>8, <1>9, <1>10, <1>11 DEF step, select, endBody

LEMMA FlagHeldStep ==
  ASSUME TypeInv, TokenInv, CompleteInv, NEW w \in Workers, step(w)
  PROVE  FlagHeld'
<1>1. /\ Kernels' = Kernels /\ Sequential' = Sequential /\ Sequential \subseteq Kernels
      /\ WorkersTyped /\ KernelsTyped /\ EndsKnow(w)
      /\ \A v \in Workers \ {w} : Untouched(v)
  BY OthersUntouched DEF step, Kernels, Body, TypeInv, Sequential, ParallelExec, CompleteInv
<1> SUFFICES ASSUME NEW k \in Sequential, SequentialKernelRunning'[k]
             PROVE  Terminated'[k] \/ \E v \in Workers : Holds(v, k)'
  BY <1>1 DEF FlagHeld
<1>2. Terminated[k] => Terminated'[k]
  BY <1>1, TerminatedStays
<1>3. ASSUME NEW v \in Workers, Holds(v, k) PROVE Terminated[k] \/ Holds(v, k)'
  <2>1. CASE v = w
    BY <1>1, <1>3, <2>1, HolderKeeps
  <2>2. CASE v # w
    BY <1>1, <1>3, <2>2 DEF Untouched, Holds, HoldsRunning, HoldsOld
  <2>3. QED
    BY <2>1, <2>2
<1>4. CASE SequentialKernelRunning[k]
  BY <1>2, <1>3, <1>4 DEF CompleteInv, FlagHeld
<1>5. CASE ~SequentialKernelRunning[k]
  <2>1. casSequentialKernelRunning(w)
    BY <1>1, <1>5 DEF step, select, selectNext, trySchedule, walkOn, noKernel, takeReady,
       checkTerminating, spawn, noThread, switchThread, scheduleOut, releaseKernel,
       runBody, resume, bodyEnds, push, pop, checkDeactivated, reduceRepeat, readReservedHead,
       drain, checkTermination, acknowledgeCanTerminate, endBody, replaceThread, endKernel,
       leaveKernel, repeatBody, deregisterThread, terminateKernel, deactivateQueue,
       decrementActive, leave, status, KernelsTyped
  <2>2. candidate[w] = k
    BY <1>1, <1>5, <2>1 DEF casSequentialKernelRunning, KernelsTyped
  <2>3. at'[w] = "take" /\ RunningKernel'[w] = k
    BY <1>1, <1>5, <2>1, <2>2 DEF casSequentialKernelRunning, chosen, goto, WorkersTyped
  <2>4. QED
    BY <2>3 DEF Holds, HoldsRunning, ChosenPlaces
<1>6. QED
  BY <1>4, <1>5

-----------------------------------------------------------------------------
(* Who is sure stays so, or begins a search that comes to every kernel.    *)
LEMMA SureOrSearches ==
  ASSUME TypeInv, TokenInv, NEW w \in Workers, step(w), EndsKnow(w), Sure(w), ~Sure(w)'
  PROVE  at'[w] = "search" /\ \A k \in Kernels : Planned(w, k)'
<1> USE DEF LivePlaces, GonePlaces, ChosenPlaces, SelectPlaces, context, choice, search
<1>1. WorkersTyped /\ SearchTyped /\ Known(w) /\ Local(w)
  BY DEF TypeInv, TokenInv
<1> USE DEF goto, WorkersTyped
<1>2. thread'[w] = NULL /\ at'[w] \notin GonePlaces \cup {"main", "retry", "spawn", "switch", "release"}
  BY DEF Sure
<1>3. CASE selectNext(w)
  <2>1. at[w] \in {"main", "yield", "retry"} /\ UNCHANGED <<thread, Event>>
    BY <1>3 DEF selectNext
  <2>2. at[w] \in {"main", "retry"} /\ thread[w] = NULL
    BY <1>1, <1>2, <2>1 DEF Known
  <2>3. NewThread[w] = NULL
    BY <1>1, <1>2, <1>3 DEF selectNext
  <2>4. ~keepGoing(w)
    BY <2>2, <2>3 DEF EndsKnow, keepGoing
  <2>5. /\ at'[w] = "search"
        /\ \E s \in walkStarts(w) :
             /\ NextKernel' = [NextKernel EXCEPT ![w] = s]
             /\ plan' = [plan EXCEPT ![w] =
                  firstTry(w) \o IF s = NULL THEN exhaustiveSearch ELSE <<>>]
    BY <1>1, <1>3, <2>3, <2>4 DEF selectNext
  <2>6. CASE NextKernel'[w] # NULL
    BY <2>5, <2>6 DEF Planned
  <2>7. CASE NextKernel'[w] = NULL
    <3>1. plan'[w] = firstTry(w) \o exhaustiveSearch
      BY <1>1, <2>5, <2>7 DEF SearchTyped
    <3>2. firstTry(w) \in Seq(SUBSET Kernels)
      BY <2>2, <2>3, <2>4, FirstTryTyped
    <3>3. /\ exhaustiveSearch \in Seq(SUBSET Kernels) /\ Len(exhaustiveSearch) = 2
          /\ exhaustiveSearch[1] = Kernels
      BY DEF exhaustiveSearch
    <3>4. /\ Len(firstTry(w)) + 1 \in DOMAIN plan'[w]
          /\ plan'[w][Len(firstTry(w)) + 1] = Kernels
      <4>1. ASSUME NEW p \in Seq(SUBSET Kernels), NEW e \in Seq(SUBSET Kernels), Len(e) = 2
            PROVE  Len(p) + 1 \in DOMAIN (p \o e) /\ (p \o e)[Len(p) + 1] = e[1]
        <5>1. Len(p) \in Nat /\ Len(p \o e) = Len(p) + 2 /\ DOMAIN (p \o e) = 1 .. Len(p \o e)
          <6>1. p \o e \in Seq(SUBSET Kernels) /\ Len(p \o e) = Len(p) + Len(e)
            OBVIOUS
          <6>2. Len(p) \in Nat /\ DOMAIN (p \o e) = 1 .. Len(p \o e)
            BY <6>1
          <6>3. QED
            BY <4>1, <6>1, <6>2
        <5>2. (p \o e)[Len(p) + 1] = e[(Len(p) + 1) - Len(p)]
          BY <4>1, <5>1
        <5>3. Len(p) + 1 \in 1 .. Len(p) + 2 /\ (Len(p) + 1) - Len(p) = 1
          BY <5>1
        <5>4. QED
          BY <5>1, <5>2, <5>3
      <4>2. QED
        BY <3>1, <3>2, <3>3, <4>1
    <3>5. \A k \in Kernels : \E i \in DOMAIN plan'[w] : k \in plan'[w][i]
      BY <3>4
    <3>6. QED
      BY <2>5, <3>5 DEF Planned
  <2>8. QED
    BY <2>6, <2>7
<1>4. ASSUME \/ (\E j \in Kernels : trySchedule(w, j)) \/ casSequentialKernelRunning(w)
             \/ walkOn(w) \/ noKernel(w)
      PROVE  FALSE
  <2>1. at[w] \in {"search", "cas"} /\ UNCHANGED thread
    BY <1>4 DEF trySchedule, passKernel, pickParallel, pickSequential,
       casSequentialKernelRunning, walkOn, noKernel, selectNothing
  <2>2. QED
    BY <1>2, <2>1 DEF Sure
<1>5. ASSUME takeReady(w) \/ checkTerminating(w) \/ spawn(w) \/ noThread(w) PROVE FALSE
  <2>1. UNCHANGED <<OldKernel, thread>> /\ at[w] \in {"take", "check", "spawn", "none"}
    BY <1>5 DEF takeReady, checkTerminating, spawn, noThread, selectNothing
  <2>2. CASE spawn(w)
    BY <1>1, <1>2, <2>2 DEF spawn
  <2>3. CASE takeReady(w) \/ checkTerminating(w)
    <3>1. UNCHANGED RunningKernel /\ at'[w] \in {"check", "none", "switch", "spawn"}
      BY <1>1, <2>3 DEF takeReady, checkTerminating
    <3>2. at[w] # "spawn"
      BY <2>3 DEF takeReady, checkTerminating
    <3>3. RunningKernel[w] # OldKernel[w]
      BY <1>2, <2>1, <3>2 DEF Sure
    <3>4. RunningKernel'[w] # OldKernel'[w] /\ at'[w] \in {"check", "none"}
      BY <1>2, <2>1, <3>1, <3>3
    <3>5. QED
      BY <3>4 DEF Sure
  <2>4. CASE noThread(w)
    <3>1. at[w] = "none" /\ RunningKernel[w] # OldKernel[w]
      BY <1>2, <2>1, <2>4 DEF Sure, noThread, selectNothing
    <3>2. at'[w] = "retry"
      BY <1>1, <2>4, <3>1 DEF noThread
    <3>3. QED
      BY <1>2, <3>2
  <2>5. QED
    BY <1>5, <2>2, <2>3, <2>4
<1>6. ASSUME switchThread(w) \/ scheduleOut(w) PROVE FALSE
  <2>1. at'[w] = "release" \/ thread'[w] = NewThread[w]
    BY <1>1, <1>6 DEF switchThread, scheduleOut, enterThread
  <2>2. at[w] \in {"switch", "release"}
    BY <1>6 DEF switchThread, scheduleOut, enterThread
  <2>3. QED
    BY <1>1, <1>2, <2>1, <2>2 DEF Known
<1>7. ASSUME runBody(w) PROVE FALSE
  BY <1>2, <1>7, BodyThread, NullAssumption
<1>8. ASSUME endBody(w) PROVE FALSE
  <2>1. CASE leave(w)
    BY <1>1, <1>2, <2>1 DEF leave
  <2>2. CASE ~leave(w)
    <3>1. at[w] \in LivePlaces \cup GonePlaces
      BY <1>8, <2>2 DEF endBody, replaceThread, endKernel, leaveKernel, repeatBody,
         deregisterThread, terminateKernel, deactivateQueue, decrementActive
    <3>2. thread'[w] = thread[w] \/ thread'[w] = NewGreenThread
      BY <1>1, <1>8, <2>2 DEF endBody, replaceThread, endKernel, leaveKernel, repeatBody,
         deregisterThread, terminateKernel, deactivateQueue, decrementActive
    <3>3. at'[w] \in LivePlaces \cup GonePlaces
      BY <1>1, <1>8, <2>2 DEF endBody, replaceThread, endKernel, leaveKernel, repeatBody,
         deregisterThread, terminateKernel, deactivateQueue, decrementActive
    <3>4. at'[w] \in LivePlaces => at[w] \in LivePlaces
      BY <1>1, <1>8, <2>2 DEF endBody, replaceThread, endKernel, leaveKernel, repeatBody,
         deregisterThread, terminateKernel, deactivateQueue, decrementActive
    <3>5. QED
      BY <1>1, <1>2, <3>2, <3>3, <3>4, NewIsThread, NullAssumption DEF Known
  <2>3. QED
    BY <2>1, <2>2
<1>9. QED
  BY <1>3, <1>4, <1>5, <1>6, <1>7, <1>8 DEF step, select

(* A token that nobody sure has is with somebody who will find a thread.   *)
LEMMA HolderGoes ==
  ASSUME TypeInv, TokenInv, ThreadsCounted, LastThreadTerminates, CompleteInv,
         \A v \in Workers : ~Sure(v),
         NEW k \in Sequential, ~Terminated[k], SequentialKernelRunning[k]
  PROVE  \E v \in Workers : Goes(v)
<1>1. k \in Kernels
  BY DEF Sequential
<1>2. PICK v \in Workers : Holds(v, k)
  BY DEF CompleteInv, FlagHeld
<1>3. Local(v) /\ Known(v) /\ EndsKnow(v) /\ thread[v] = NULL
  BY DEF TypeInv, TokenInv, CompleteInv, Sure
<1>4. at[v] \in {"take", "check", "none"} /\ RunningKernel[v] = k
  BY <1>2, <1>3 DEF Holds, HoldsRunning, HoldsOld, Sure, Known, LivePlaces, GonePlaces,
     ChosenPlaces
<1>5. at[v] # "none"
  <2>1. at[v] = "none" => RunningKernel[v] = OldKernel[v]
    BY DEF Sure
  <2>2. QED
    BY <1>3, <1>4, <2>1 DEF EndsKnow
<1>6. Terminating[k] => ReadyQueues[k] # <<>>
  BY <1>1, QuietKernel
<1>7. at[v] = "check" => ReadyQueues[k] = <<>>
  BY <1>4 DEF TokenInv, Live
<1>8. Goes(v)
  BY <1>4, <1>5, <1>6, <1>7 DEF Goes
<1>9. QED
  BY <1>8

(* What is left of a plan when a kernel is passed.                         *)
LEMMA RestKeeps ==
  ASSUME SearchTyped, NEW w \in Workers, NEW j \in Kernels, plan[w] # <<>>, j \in plan[w][1],
         NEW k, k # j, NEW i \in DOMAIN plan[w], k \in plan[w][i]
  PROVE  \E n \in DOMAIN rest(w, j) : k \in rest(w, j)[n]
<1>1. plan[w] \in Seq(SUBSET Kernels) /\ i \in 1 .. Len(plan[w])
  BY DEF SearchTyped
<1>2. CASE plan[w][1] = {j}
  <2>1. i # 1
    BY <1>2
  <2>2. /\ i - 1 \in DOMAIN Tail(plan[w]) /\ Tail(plan[w])[i - 1] = plan[w][i]
    BY <1>1, <2>1
  <2>3. QED
    BY <1>2, <2>2 DEF rest
<1>3. CASE plan[w][1] # {j}
  <2>1. rest(w, j) = [plan[w] EXCEPT ![1] = @ \ {j}]
    BY <1>3 DEF rest
  <2>2. i \in DOMAIN rest(w, j) /\ k \in rest(w, j)[i]
    BY <1>1, <2>1
  <2>3. QED
    BY <2>2
<1>4. QED
  BY <1>2, <1>3

(* Nobody is sure, before and after a step: it is one of a search.         *)
LEMMA QuietStep ==
  ASSUME TypeInv, TokenInv, NEW w \in Workers, step(w), ~Sure(w), ~Sure(w)'
  PROVE  /\ \/ \E j \in Kernels : trySchedule(w, j)
            \/ casSequentialKernelRunning(w) \/ walkOn(w) \/ noKernel(w)
            \/ (takeReady(w) /\ ReadyQueues[RunningKernel[w]] = <<>>)
            \/ (checkTerminating(w) /\ at'[w] = "none")
            \/ (at[w] = "none" /\ UNCHANGED <<SequentialKernelRunning, plan, NextKernel>>)
         /\ UNCHANGED <<Terminated, Terminating, ReadyQueues>>
<1> USE DEF LivePlaces, GonePlaces, goto, status, kernels, choice, search
<1>1. WorkersTyped /\ Known(w) /\ Local(w)
  BY DEF TypeInv, TokenInv
<1>2. /\ thread[w] = NULL
      /\ at[w] \notin LivePlaces \cup GonePlaces \cup {"main", "retry", "spawn", "switch", "release"}
      /\ at'[w] \notin {"retry", "spawn", "switch"}
  BY <1>1 DEF Sure, Known
<1>3. ~endBody(w)
  BY <1>2 DEF endBody, replaceThread, endKernel, leaveKernel, repeatBody, deregisterThread,
     terminateKernel, deactivateQueue, decrementActive, leave
<1>4. ~runBody(w)
  BY <1>2 DEF runBody, resume, bodyEnds, push, pop, checkDeactivated, reduceRepeat,
     readReservedHead, drain, checkTermination, acknowledgeCanTerminate
<1>5. ~selectNext(w) /\ ~spawn(w) /\ ~switchThread(w) /\ ~scheduleOut(w)
  BY <1>2 DEF selectNext, spawn, switchThread, scheduleOut, enterThread
<1>6. takeReady(w) => ReadyQueues[RunningKernel[w]] = <<>> /\ UNCHANGED <<status, ReadyQueues>>
  BY <1>1, <1>2 DEF takeReady, WorkersTyped
<1>7. checkTerminating(w) => at'[w] = "none" /\ UNCHANGED <<status, ReadyQueues>>
  BY <1>1, <1>2 DEF checkTerminating, WorkersTyped
<1>8. noThread(w) => /\ at[w] = "none"
                     /\ UNCHANGED <<SequentialKernelRunning, Terminated, Terminating, ReadyQueues>>
                     /\ UNCHANGED <<plan, NextKernel>>
  BY <1>1, <1>2 DEF noThread, selectNothing, WorkersTyped
<1>9. (\E j \in Kernels : trySchedule(w, j)) \/ casSequentialKernelRunning(w) \/ walkOn(w)
        \/ noKernel(w) => UNCHANGED <<Terminated, Terminating, ReadyQueues>>
  BY DEF trySchedule, casSequentialKernelRunning, walkOn, noKernel
<1>10. QED
  BY <1>3, <1>4, <1>5, <1>6, <1>7, <1>8, <1>9 DEF step, select

(* ... which leaves alone what the others search.                          *)
LEMMA OthersSearch ==
  ASSUME TypeInv, TokenInv, NEW w \in Workers, step(w), ~Sure(w), ~Sure(w)',
         NEW v \in Workers \ {w}, NEW k, Tries(v, k)
  PROVE  Tries(v, k)'
<1>1. /\ WorkersTyped /\ SearchTyped /\ KernelsTyped /\ Untouched(v)
  BY OthersUntouched DEF TypeInv
<1>2. UNCHANGED <<Terminated, Terminating, ReadyQueues>>
  BY QuietStep
<1>3. plan'[v] = plan[v] /\ NextKernel'[v] = NextKernel[v]
  BY <1>1, QuietStep DEF trySchedule, passKernel, pickParallel, pickSequential, chosen,
     casSequentialKernelRunning, walkOn, noKernel, takeReady, checkTerminating, choice, search,
     SearchTyped, Sure, step
<1>4. \A j \in Kernels : SequentialKernelRunning[j] => SequentialKernelRunning'[j]
  <2>1. \/ UNCHANGED SequentialKernelRunning
        \/ \E i : SequentialKernelRunning' = [SequentialKernelRunning EXCEPT ![i] = TRUE]
    BY QuietStep DEF trySchedule, casSequentialKernelRunning, walkOn, noKernel, takeReady,
       checkTerminating, status
  <2>2. QED
    BY <1>1, <2>1 DEF KernelsTyped
<1>5. at[v] = "cas" => candidate[v] \in Kernels
  BY DEF TypeInv, Known
<1>6. QED
  BY <1>1, <1>2, <1>3, <1>4, <1>5 DEF Tries, Planned, Goes, Untouched

(* The search comes to k, or somebody will find a thread.                  *)
LEMMA TriesOn ==
  ASSUME TypeInv, TokenInv, ThreadsCounted, LastThreadTerminates, CompleteInv,
         NEW w \in Workers, step(w), \A v \in Workers : ~Sure(v), ~Sure(w)',
         NEW k \in Kernels, ~Terminated[k], Tries(w, k)
  PROVE  Tries(w, k)' \/ \E v \in Workers \ {w} : Tries(v, k)
<1> USE DEF context, choice, search
<1>1. /\ WorkersTyped /\ SearchTyped /\ KernelsTyped /\ Known(w) /\ Local(w) /\ EndsKnow(w)
      /\ Kernels' = Kernels /\ ParallelExec' = ParallelExec /\ ~Sure(w)
      /\ UNCHANGED <<Terminated, Terminating, ReadyQueues>>
  BY QuietStep DEF TypeInv, TokenInv, CompleteInv, step, Kernels, Body, ParallelExec
<1> USE DEF goto, WorkersTyped
<1>2. ASSUME NEW j \in Kernels, ~Terminated[j], j \notin ParallelExec, SequentialKernelRunning[j],
             at[w] \in {"search", "cas"}
      PROVE  \E v \in Workers \ {w} : Tries(v, k)
  <2>1. PICK v \in Workers : Goes(v)
    BY <1>2, HolderGoes DEF Sequential
  <2>2. v # w
    BY <1>2, <2>1 DEF Goes
  <2>3. QED
    BY <2>1, <2>2 DEF Tries
<1>3. ASSUME NEW j \in Kernels, ~Terminated[j], at'[w] = "take", RunningKernel'[w] = j
      PROVE  Goes(w)'
  <2>1. Terminating[j] => ReadyQueues[j] # <<>>
    BY <1>3, QuietKernel
  <2>2. QED
    BY <1>1, <1>3, <2>1 DEF Goes
<1>4. CASE \E j \in Kernels : trySchedule(w, j)
  <2>1. PICK j \in Kernels : trySchedule(w, j)
    BY <1>4
  <2>2. at[w] = "search" /\ plan[w] # <<>> /\ j \in plan[w][1]
    BY <2>1 DEF trySchedule, passKernel, pickParallel, pickSequential
  <2>3. Planned(w, k)
    BY <2>2 DEF Tries, Goes
  <2>4. CASE pickParallel(w, j)
    <3>1. at'[w] = "take" /\ RunningKernel'[w] = j /\ ~Terminated[j]
      BY <1>1, <2>4 DEF pickParallel, chosen
    <3>2. QED
      BY <1>3, <3>1 DEF Tries
  <2>5. CASE (passKernel(w, j) \/ pickSequential(w, j)) /\ k # j
    <3>1. plan'[w] = rest(w, j) /\ UNCHANGED NextKernel
      BY <1>1, <2>5 DEF passKernel, pickSequential, SearchTyped
    <3>2. Planned(w, k)'
      BY <1>1, <2>2, <2>3, <2>5, <3>1, RestKeeps DEF Planned
    <3>3. \/ at'[w] = "search"
          \/ at'[w] = "cas" /\ candidate'[w] = j /\ ~Terminated[j]
      BY <1>1, <2>5 DEF passKernel, pickSequential, SearchTyped
    <3>4. QED
      BY <1>1, <3>2, <3>3 DEF Tries
  <2>6. CASE passKernel(w, k)
    BY <1>2, <2>2, <2>6 DEF passKernel
  <2>7. CASE pickSequential(w, k)
    <3>1. at'[w] = "cas" /\ candidate'[w] = k
      BY <1>1, <2>7 DEF pickSequential, SearchTyped
    <3>2. QED
      BY <1>1, <3>1 DEF Tries
  <2>8. QED
    BY <2>1, <2>4, <2>5, <2>6, <2>7 DEF trySchedule
<1>5. CASE casSequentialKernelRunning(w)
  <2> DEFINE c == candidate[w]
  <2>1. /\ at[w] = "cas" /\ c \in Sequential /\ (k = c \/ Planned(w, k))
        /\ c # OldKernel[w] \/ ~Terminated[c] \/ SequentialKernelRunning[c]
    BY <1>1, <1>5 DEF casSequentialKernelRunning, EndsKnow, Tries, Goes
  <2>2. CASE SequentialKernelRunning[c]
    <3>1. at'[w] = "search" /\ UNCHANGED <<plan, NextKernel>>
      BY <1>1, <1>5, <2>2 DEF casSequentialKernelRunning
    <3>2. CASE Planned(w, k)
      BY <3>1, <3>2 DEF Planned, Tries
    <3>3. CASE k = c
      BY <1>2, <2>1, <2>2, <3>3 DEF Sequential
    <3>4. QED
      BY <2>1, <3>2, <3>3
  <2>3. CASE ~SequentialKernelRunning[c]
    <3>1. at'[w] = "take" /\ RunningKernel'[w] = c /\ UNCHANGED OldKernel
      BY <1>1, <1>5, <2>3 DEF casSequentialKernelRunning, chosen
    <3>2. c = OldKernel[w]
      BY <1>1, <3>1 DEF Sure
    <3>3. QED
      BY <1>3, <2>1, <2>3, <3>1, <3>2 DEF Tries, Sequential
  <2>4. QED
    BY <2>2, <2>3
<1>6. CASE walkOn(w)
  <2> DEFINE next == NextOnTheSameDevice(NextKernel[w])
  <2>1. /\ at'[w] = "search"
        /\ NextKernel'[w] # NULL \/ plan'[w] = exhaustiveSearch
    BY <1>1, <1>6 DEF walkOn, SearchTyped
  <2>2. 1 \in DOMAIN exhaustiveSearch /\ exhaustiveSearch[1] = Kernels
    BY DEF exhaustiveSearch
  <2>3. Planned(w, k)'
    BY <2>1, <2>2 DEF Planned
  <2>4. QED
    BY <2>1, <2>3 DEF Tries
<1>7. ASSUME noKernel(w) PROVE FALSE
  <2>1. at[w] = "search" /\ plan[w] = <<>> /\ NextKernel[w] = NULL
    BY <1>7 DEF noKernel, selectNothing
  <2>2. QED
    BY <2>1 DEF Tries, Planned, Goes
<1>8. CASE takeReady(w) /\ ReadyQueues[RunningKernel[w]] = <<>>
  <2>1. at[w] = "take" /\ thread[w] = NULL /\ ~Terminating[RunningKernel[w]]
    BY <1>1, <1>8 DEF takeReady, Tries, Goes, Sure
  <2>2. NewThread[w] = NULL
    BY <1>1, <2>1 DEF Local, GonePlaces
  <2>3. Event[w] # "NotMyTurn"
    BY <1>1, <2>1, <2>2 DEF EndsKnow, SelectPlaces
  <2>4. at'[w] = "check" /\ UNCHANGED RunningKernel
    BY <1>1, <1>8, <2>3 DEF takeReady
  <2>5. QED
    BY <1>1, <2>1, <2>4 DEF Tries, Goes
<1>9. ASSUME checkTerminating(w), at'[w] = "none" PROVE FALSE
  BY <1>1, <1>9 DEF checkTerminating, Tries, Goes
<1>10. ASSUME at[w] = "none" PROVE FALSE
  BY <1>10 DEF Tries, Goes
<1>11. QED
  BY <1>1, <1>4, <1>5, <1>6, <1>7, <1>8, <1>9, <1>10, QuietStep

LEMMA SomebodyTriesStep ==
  ASSUME TypeInv, TokenInv, ThreadsCounted, LastThreadTerminates, CompleteInv,
         NEW w \in Workers, step(w)
  PROVE  SomebodyTries'
<1>1. Kernels' = Kernels /\ \A v \in Workers \ {w} : Untouched(v)
  BY OthersUntouched DEF step, Kernels, Body, TypeInv
<1> SUFFICES ASSUME \A v \in Workers : ~Sure(v)', NEW k \in Kernels, ~Terminated'[k]
             PROVE  \E v \in Workers : Tries(v, k)'
  BY <1>1 DEF SomebodyTries
<1>2. \A v \in Workers \ {w} : ~Sure(v)
  BY <1>1 DEF Sure, Untouched
<1>3. ~Terminated[k]
  BY TerminatedStays
<1>4. CASE Sure(w)
  BY <1>4, SureOrSearches, <1>1 DEF CompleteInv, Tries
<1>5. CASE ~Sure(w)
  <2>1. PICK v \in Workers : Tries(v, k)
    BY <1>2, <1>3, <1>5 DEF CompleteInv, SomebodyTries
  <2>2. \A u \in Workers \ {w} : Tries(u, k) => Tries(u, k)'
    BY <1>5, OthersSearch
  <2>3. CASE v = w
    BY <1>2, <1>3, <1>5, <2>1, <2>2, <2>3, TriesOn
  <2>4. CASE v # w
    BY <2>1, <2>2, <2>4
  <2>5. QED
    BY <2>3, <2>4
<1>6. QED
  BY <1>4, <1>5

LEMMA CompleteInvHolds == ASSUME ~Speculation, ~RandomJumps, Workers # {} PROVE Spec => []CompleteInv
<1>1. TypeInv /\ TokenInv /\ TokenInv' /\ ThreadsCounted /\ LastThreadTerminates /\ CompleteInv
        /\ [Next]_vars => CompleteInv'
  <2> SUFFICES ASSUME TypeInv, TokenInv, TokenInv', ThreadsCounted, LastThreadTerminates,
                      CompleteInv, [Next]_vars
               PROVE  CompleteInv'
    OBVIOUS
  <2>1. ASSUME NEW w \in Workers, step(w) PROVE CompleteInv'
    BY <2>1, EndsKnowStep, FlagHeldStep, SomebodyTriesStep DEF CompleteInv
  <2>2. CASE UNCHANGED vars
    BY <2>2 DEF vars, status, context, choice, search, CompleteInv, EndsKnow, FlagHeld,
       SomebodyTries, Tries, Planned, Goes, Sure, Holds, HoldsRunning, HoldsOld, Sequential,
       Kernels, Body, ParallelExec
  <2>3. QED
    BY <2>1, <2>2 DEF Next, finished
<1>2. QED
  BY <1>1, CompleteBegins, TypesHold, TokensHold, ThreadsCountedHolds,
     LastThreadTerminatesHolds, PTL DEF Spec

(* When every native thread has left main the program is over: every       *)
(* kernel is Terminated, as long as threads do not leave parallel kernels  *)
(* by speculation.                                                         *)
THEOREM EndsCompleteHolds ==
  ASSUME ~Speculation, ~RandomJumps, Workers # {} PROVE Spec => []EndsComplete
<1>1. TokenInv /\ CompleteInv => EndsComplete
  <2> SUFFICES ASSUME TokenInv, CompleteInv, \A w \in Workers : at[w] = "exited",
                      NEW k \in Kernels
               PROVE  Terminated[k]
    BY DEF EndsComplete
  <2>1. \A w \in Workers : thread[w] = NULL
    BY DEF TokenInv, Local
  <2>2. \A w \in Workers : ~Sure(w) /\ ~Tries(w, k)
    BY <2>1 DEF Sure, Tries, Goes, GonePlaces
  <2>3. QED
    BY <2>2 DEF CompleteInv, SomebodyTries
<1>2. QED
  BY <1>1, TokensHold, CompleteInvHolds, PTL
=============================================================================

------------------------ MODULE BlockingRCQ_proofs ------------------------
(***************************************************************************)
(* Proofs about the RCLock and the queue under it, for any threads, any    *)
(* ring and any requests.  First the types, whichever cancel is chosen;    *)
(* then, with the cancel that waits for its turn (CancelWaits), that the   *)
(* flags and links of the ReservationInfo nodes are the two locks of       *)
(* RCLockSpec, and that the queue under them keeps the order of its        *)
(* indices and the contract of ReserveCommitSpec.                          *)
(***************************************************************************)
EXTENDS BlockingRCQ, RingIndex_proofs, TLAPS

(* Constants and sides.                                                    *)
LEMMA Numbers ==
  /\ NumElm \in Nat /\ NumElm >= 2 /\ PushNums \subseteq 1 .. (NumElm - 1)
  /\ \A r \in PopRequests : r[1] \in 1 .. (NumElm - 1) /\ r[2] \in 1 .. r[1]
                            /\ r[2] \in 1 .. (NumElm - 1)
  /\ NULL \notin Procs
  /\ \A p \in Procs : side(p) \in Sides
  /\ \A p \in Pushers : p \in Procs /\ p \notin Poppers /\ side(p) = "push"
  /\ \A p \in Poppers : p \in Procs /\ p \notin Pushers /\ side(p) = "pop"
  /\ \A p \in Procs : p \in Pushers \/ p \in Poppers
BY RingAssumption, ThreadsAssumption DEF side, Sides, Procs

-----------------------------------------------------------------------------
(* Types                                                                   *)

(* The steps of the RCLock keep the types.                                 *)
LEMMA LockTypes ==
  ASSUME TypeOK, NEW p \in Procs, lockStep(p)
  PROVE  TypeOK'
<1> USE Numbers DEF TypeOK, PCs, LockKinds, indices, request, node, goto
<1>1. CASE acquireReserveLock(p)
  BY <1>1 DEF acquireReserveLock
<1>2. CASE linkBehind(p)
  BY <1>2 DEF linkBehind
<1>3. CASE consumeReserveLock(p)
  BY <1>3 DEF consumeReserveLock
<1>4. CASE releaseReserveLock(p)
  BY <1>4 DEF releaseReserveLock
<1>5. CASE cancelReserveLock(p)
  BY <1>5 DEF cancelReserveLock
<1>6. CASE acquireCommitLock(p)
  BY <1>6 DEF acquireCommitLock
<1>7. CASE leaveOrSwap(p)
  BY <1>7 DEF leaveOrSwap
<1>8. CASE swapOut(p)
  BY <1>8 DEF swapOut, forgetRequest
<1>9. CASE handOff(p)
  BY <1>9 DEF handOff
<1>10. CASE awaitConsumed(p)
  BY <1>10 DEF awaitConsumed, forgetRequest
<1>11. QED
  BY <1>1, <1>2, <1>3, <1>4, <1>5, <1>6, <1>7, <1>8, <1>9, <1>10
     DEF lockStep, releaseCommitLock

(* So do the queue operations: an index that moves stays in the ring.      *)
LEMMA QueueTypes ==
  ASSUME TypeOK, NEW p \in Procs,
         \/ p \in Pushers /\ (reservePush(p) \/ commitPush(p) \/ precheckPush(p))
         \/ p \in Poppers /\ (reservePeekPop(p) \/ commitPeekPop(p) \/ precheckPeekPop(p))
  PROVE  TypeOK'
<1> USE Numbers DEF TypeOK, PCs, indices, request, node, goto
<1>1. /\ advance(NumElm, ReservedTail, num[p]) \in 0 .. (NumElm - 1)
      /\ advance(NumElm, ReservedHead, num[p]) \in 0 .. (NumElm - 1)
  BY AdvanceInRing
<1>2. CASE reservePush(p)
  BY <1>1, <1>2 DEF reservePush
<1>3. CASE commitPush(p)
  BY <1>3 DEF commitPush
<1>4. CASE precheckPush(p)
  <2>1. PICK n \in PushNums : /\ goto(p, "idle", "acquire")
                              /\ num' = [num EXCEPT ![p] = n]
                              /\ peek' = [peek EXCEPT ![p] = n]
                              /\ UNCHANGED <<indices, node, NewIndex>>
    BY <1>4 DEF precheckPush
  <2>2. n \in 1 .. (NumElm - 1)
    OBVIOUS
  <2>3. QED
    BY <2>1, <2>2
<1>5. CASE reservePeekPop(p)
  BY <1>1, <1>5 DEF reservePeekPop
<1>6. CASE commitPeekPop(p)
  BY <1>6 DEF commitPeekPop
<1>7. CASE precheckPeekPop(p)
  <2>1. PICK r \in PopRequests : /\ goto(p, "idle", "acquire")
                                 /\ num' = [num EXCEPT ![p] = r[2]]
                                 /\ peek' = [peek EXCEPT ![p] = r[1]]
                                 /\ UNCHANGED <<indices, node, NewIndex>>
    BY <1>7 DEF precheckPeekPop
  <2>2. r[1] \in 1 .. (NumElm - 1) /\ r[2] \in 1 .. (NumElm - 1)
    OBVIOUS
  <2>3. QED
    BY <2>1, <2>2
<1>8. QED
  BY <1>2, <1>3, <1>4, <1>5, <1>6, <1>7

LEMMA TypeStep == TypeOK /\ [Next]_vars => TypeOK'
<1>1. TypeOK /\ UNCHANGED vars => TypeOK'
  BY DEF TypeOK, vars, indices, node, request
<1>2. QED
  BY <1>1, LockTypes, QueueTypes, Numbers DEF Next, step

(* The variables keep their types, whichever way a reservation is          *)
(* cancelled: the indices stay in the ring, the nodes point to nodes.      *)
THEOREM TypeOKHolds == Spec => []TypeOK
<1>1. Init => TypeOK
  BY Numbers DEF Init, TypeOK, PCs, LockKinds
<1>2. QED
  BY <1>1, TypeStep, PTL DEF Spec

-----------------------------------------------------------------------------
(* The least set that is closed under a relation                           *)

(* Closure(B, p) holds B[p] and is closed.                                 *)
LEMMA ClosureHolds ==
  ASSUME NEW B \in [Procs -> SUBSET Procs], NEW p \in Procs
  PROVE  /\ Closure(B, p) \subseteq Procs /\ B[p] \subseteq Closure(B, p)
         /\ \A x \in Closure(B, p) : B[x] \subseteq Closure(B, p)
<1>1. B[p] \subseteq Procs /\ \A x \in Procs : B[x] \subseteq Procs
  OBVIOUS
<1>2. ASSUME NEW x \in Closure(B, p), NEW y \in B[x] PROVE y \in Closure(B, p)
  <2> SUFFICES ASSUME NEW S \in SUBSET Procs,
                      B[p] \subseteq S, \A z \in S : B[z] \subseteq S
               PROVE  y \in S
    BY <1>1, <1>2 DEF Closure
  <2>1. x \in S
    BY DEF Closure
  <2>2. QED
    BY <1>2, <2>1
<1>3. QED
  BY <1>1, <1>2 DEF Closure

(* Every other such set contains it.                                       *)
LEMMA ClosureLeast ==
  ASSUME NEW B \in [Procs -> SUBSET Procs], NEW p \in Procs, NEW S \in SUBSET Procs,
         B[p] \subseteq S, \A x \in S : B[x] \subseteq S
  PROVE  Closure(B, p) \subseteq S
BY DEF Closure

(* Nothing is before the first.                                            *)
LEMMA ClosureOfFirst ==
  ASSUME NEW B \in [Procs -> SUBSET Procs], NEW p \in Procs, B[p] = {}
  PROVE  Closure(B, p) = {}
<1>1. Closure(B, p) \subseteq {}
  BY ClosureLeast
<1>2. QED
  BY <1>1

(* Before a thread with one predecessor are that one and all before it.    *)
LEMMA ClosureOfNext ==
  ASSUME NEW B \in [Procs -> SUBSET Procs], NEW p \in Procs, NEW q \in Procs, B[p] = {q}
  PROVE  Closure(B, p) = {q} \cup Closure(B, q)
<1>1. Closure(B, p) \subseteq {q} \cup Closure(B, q)
  <2> DEFINE S == {q} \cup Closure(B, q)
  <2>1. S \in SUBSET Procs /\ \A x \in S : B[x] \subseteq S
    BY ClosureHolds
  <2>2. QED
    BY <2>1, ClosureLeast
<1>2. q \in Closure(B, p) /\ B[q] \subseteq Closure(B, p)
  BY ClosureHolds
<1>3. Closure(B, q) \subseteq Closure(B, p)
  BY <1>2, ClosureHolds, ClosureLeast
<1>4. QED
  BY <1>1, <1>2, <1>3

(* A thread that comes last changes nothing for the others.                *)
LEMMA ClosureKept ==
  ASSUME NEW B \in [Procs -> SUBSET Procs], NEW C \in [Procs -> SUBSET Procs], NEW p \in Procs,
         \A x \in Procs \ {p} : C[x] = B[x] /\ p \notin B[x],
         NEW q \in Procs \ {p}
  PROVE  Closure(C, q) = Closure(B, q)
<1>1. p \notin Closure(B, q) /\ p \notin Closure(C, q)
  <2> DEFINE S == Procs \ {p}
  <2>1. S \in SUBSET Procs /\ B[q] \subseteq S /\ C[q] \subseteq S
        /\ \A x \in S : B[x] \subseteq S /\ C[x] \subseteq S
    OBVIOUS
  <2>2. Closure(B, q) \subseteq S /\ Closure(C, q) \subseteq S
    BY <2>1, ClosureLeast
  <2>3. QED
    BY <2>2
<1>2. Closure(C, q) \subseteq Closure(B, q)
  <2>1. /\ Closure(B, q) \in SUBSET Procs /\ C[q] \subseteq Closure(B, q)
        /\ \A x \in Closure(B, q) : C[x] \subseteq Closure(B, q)
    BY <1>1, ClosureHolds
  <2>2. QED
    BY <2>1, ClosureLeast
<1>3. Closure(B, q) \subseteq Closure(C, q)
  <2>1. /\ Closure(C, q) \in SUBSET Procs /\ B[q] \subseteq Closure(C, q)
        /\ \A x \in Closure(C, q) : B[x] \subseteq Closure(C, q)
    BY <1>1, ClosureHolds
  <2>2. QED
    BY <2>1, ClosureLeast
<1>4. QED
  BY <1>2, <1>3

(* When the first goes, it is gone from every such set.                    *)
LEMMA ClosureDrops ==
  ASSUME NEW B \in [Procs -> SUBSET Procs], NEW C \in [Procs -> SUBSET Procs], NEW p \in Procs,
         B[p] = {}, \A x \in Procs : C[x] = B[x] \ {p},
         NEW q \in Procs
  PROVE  Closure(C, q) = Closure(B, q) \ {p}
<1>1. Closure(C, q) \subseteq Closure(B, q) \ {p}
  <2> DEFINE S == Closure(B, q) \ {p}
  <2>1. S \in SUBSET Procs /\ C[q] \subseteq S /\ \A x \in S : C[x] \subseteq S
    BY ClosureHolds
  <2> HIDE DEF S
  <2>2. Closure(C, q) \subseteq S
    BY <2>1, ClosureLeast
  <2>3. QED
    BY <2>2 DEF S
<1>2. Closure(B, q) \subseteq Closure(C, q) \cup {p}
  <2> DEFINE S == Closure(C, q) \cup {p}
  <2>1. S \in SUBSET Procs /\ B[q] \subseteq S /\ \A x \in S : B[x] \subseteq S
    BY ClosureHolds
  <2> HIDE DEF S
  <2>2. Closure(B, q) \subseteq S
    BY <2>1, ClosureLeast
  <2>3. QED
    BY <2>2 DEF S
<1>3. QED
  BY <1>1, <1>2

-----------------------------------------------------------------------------
(* The nodes                                                               *)

Waiting == {"link", "spin"}
Holding == {"locked", "unlock", "cancel"}

(* ReserveLock is Wait until the thread gives the reserve lock away, and   *)
(* Consumed only by the one behind; the commit lock is with the first of a *)
(* line, and only the first gets beyond acquireCommitLock.                 *)
Flags ==
  \A p \in Procs :
    /\ pc[p] \in Waiting \cup Holding => ReserveLock[p] = "Wait"
    /\ pc[p] \notin Waiting \cup Holding \cup {"idle", "acquire"} => ReserveLock[p] # "Wait"
    /\ pc[p] \in {"commit", "leave", "swap", "handoff"} => CommitLock[p] = "Go"
    /\ InLine(p) /\ CommitLock[p] = "Go" => before[p] = {}
    /\ InLine(p) /\ ReserveLock[p] = "Consumed" => NextInfo[p] # NULL

(* Who still waits has another node as its old, for itself alone; until it *)
(* has linked itself, that node has no Next, and then that node stays      *)
(* until its reserve lock has been consumed.                               *)
Olds ==
  \A p \in Procs :
    /\ pc[p] \in Waiting => old[p] # NULL
    /\ \A q \in Procs : old[p] = q =>
         /\ pc[p] \in Waiting /\ q # p /\ side(q) = side(p)
         /\ pc[p] = "link" => InLine(q) /\ NextInfo[q] = NULL
         /\ pc[p] = "spin" => /\ pc[q] \notin {"idle", "acquire"}
                              /\ NextInfo[q] = p /\ ReserveLock[q] # "Consumed"
         /\ \A r \in Procs : old[r] = q => r = p

(* Next is the node behind, in the same line: one that spins on this node  *)
(* or has consumed its reserve lock.                                       *)
Nexts ==
  \A p, n \in Procs : InLine(p) /\ NextInfo[p] = n =>
    /\ n # p /\ InLine(n) /\ side(n) = side(p)
    /\ \/ pc[n] = "spin" /\ old[n] = p
       \/ pc[n] \notin Waiting /\ ReserveLock[p] = "Consumed"
    /\ \A q \in Procs : InLine(q) /\ NextInfo[q] = n => q = p

(* RCLock is the last of its line, NULL if the line is empty.              *)
Ends ==
  \A s \in Sides :
    /\ RCLock[s] = NULL => \A p \in Procs : InLine(p) => side(p) # s
    /\ \A last \in Procs : RCLock[s] = last =>
         /\ InLine(last) /\ side(last) = s /\ NextInfo[last] = NULL
         /\ \A p \in Procs : old[p] # last
         /\ \A p \in Procs :
              InLine(p) /\ side(p) = s /\ p # last => p \in aheadOf(last)

(* The line: of two threads one is before the other, and who has got the   *)
(* reserve lock is behind threads only that have released it.              *)
InOrder ==
  \A p \in Procs : InLine(p) =>
    /\ p \notin aheadOf(p)
    /\ \A q \in aheadOf(p) : stageOf(p) # "waiting" => stageOf(q) = "released"
    /\ \A q \in Procs :
         InLine(q) /\ side(q) = side(p) /\ q # p =>
           (q \in aheadOf(p) <=> p \notin aheadOf(q))

NodeInv == Flags /\ Olds /\ Nexts /\ Ends /\ InOrder

(* What the line of a side sees of a step of p.                            *)
lineOf(s) == { q \in Procs : InLine(q) /\ side(q) = s }

Joins(p) ==
  /\ stageOf(p) = "out"
  /\ stageOf(p)' = IF lineOf(side(p)) = {} THEN "holding" ELSE "waiting"
  /\ aheadOf(p)' = lineOf(side(p))
  /\ \A q \in Procs \ {p} : stageOf(q)' = stageOf(q) /\ aheadOf(q)' = aheadOf(q)

Passes(p) ==
  /\ \/ /\ stageOf(p) = "waiting" /\ stageOf(p)' = "holding"
        /\ \A q \in aheadOf(p) : stageOf(q) = "released"
     \/ stageOf(p) = "holding" /\ stageOf(p)' = "released"
  /\ \A q \in Procs \ {p} : stageOf(q)' = stageOf(q)
  /\ \A q \in Procs : aheadOf(q)' = aheadOf(q)

Leaves(p) ==
  /\ stageOf(p) = "released" /\ stageOf(p)' = "out" /\ aheadOf(p) = {}
  /\ \A q \in Procs \ {p} : stageOf(q)' = stageOf(q)
  /\ \A q \in Procs : aheadOf(q)' = aheadOf(q) \ {p}

Stays == \A q \in Procs : stageOf(q)' = stageOf(q) /\ aheadOf(q)' = aheadOf(q)

-----------------------------------------------------------------------------
(* What the line sees keeps it in order                                    *)

LEMMA BeforeType ==
  /\ before \in [Procs -> SUBSET Procs]
  /\ before' \in [Procs -> SUBSET Procs]
BY DEF before

(* A place in line and a stage.                                            *)
LEMMA StageOf ==
  \A p \in Procs : /\ InLine(p) <=> stageOf(p) # "out"
                   /\ stageOf(p) \in {"out", "waiting", "holding", "released"}
BY DEF InLine, stageOf

(* The same after a step.                                                  *)
LEMMA StageOfNext ==
  \A p \in Procs : /\ InLine(p)' <=> stageOf(p)' # "out"
                   /\ stageOf(p)' \in {"out", "waiting", "holding", "released"}
BY DEF InLine, stageOf

(* Only nodes of the same line are ahead.                                  *)
LEMMA AheadStand ==
  ASSUME TypeOK, NodeInv, NEW p \in Procs
  PROVE  /\ aheadOf(p) \subseteq Procs
         /\ \A q \in aheadOf(p) : InLine(q)
         /\ InLine(p) => aheadOf(p) \subseteq lineOf(side(p))
<1>1. aheadOf(p) \subseteq { q \in Procs : InLine(q) }
  <2> DEFINE S == { q \in Procs : InLine(q) }
  <2>1. S \in SUBSET Procs /\ \A x \in Procs : before[x] \subseteq S
    BY DEF before
  <2> HIDE DEF S
  <2>2. aheadOf(p) \subseteq S
    BY <2>1, BeforeType, ClosureLeast DEF aheadOf
  <2>3. QED
    BY <2>2 DEF S
<1>2. ASSUME NEW x \in Procs, NEW q \in before[x]
      PROVE  q \in Procs /\ InLine(q) /\ side(q) = side(x)
  BY <1>2, Numbers DEF before, NodeInv, Olds, Nexts
<1>3. aheadOf(p) \subseteq lineOf(side(p))
  <2>1. /\ lineOf(side(p)) \in SUBSET Procs /\ before[p] \subseteq lineOf(side(p))
        /\ \A x \in lineOf(side(p)) : before[x] \subseteq lineOf(side(p))
    BY <1>2 DEF lineOf
  <2>2. QED
    BY <2>1, BeforeType, ClosureLeast DEF aheadOf
<1>4. QED
  BY <1>1, <1>3

(* The order of the line is kept.                                          *)
LEMMA OrderKept ==
  ASSUME TypeOK, NodeInv, Stays \/ \E p \in Procs : Joins(p) \/ Passes(p) \/ Leaves(p)
  PROVE  InOrder'
<1>0. InOrder
  BY DEF NodeInv
<1>1. CASE Stays
  <2>1. \A q \in Procs : /\ (InLine(q)' <=> InLine(q)) /\ stageOf(q)' = stageOf(q)
                         /\ aheadOf(q)' = aheadOf(q) /\ aheadOf(q) \subseteq Procs
    BY <1>1, StageOf, StageOfNext, AheadStand DEF Stays
  <2>2. QED
    BY <1>0, <2>1 DEF InOrder, side
<1>2. ASSUME NEW p \in Procs, Joins(p) PROVE InOrder'
  <2>1. ASSUME NEW x \in Procs, InLine(x)'
        PROVE  /\ x \notin aheadOf(x)'
               /\ \A q \in aheadOf(x)' : stageOf(x)' # "waiting" => stageOf(q)' = "released"
               /\ \A q \in Procs : InLine(q)' /\ side(q) = side(x) /\ q # x =>
                    (q \in aheadOf(x)' <=> x \notin aheadOf(q)')
    <3>1. \A q \in Procs : p \notin aheadOf(q) /\ aheadOf(q) \subseteq Procs
      BY <1>2, StageOf, AheadStand DEF Joins
    <3>2. CASE x = p
      <4>1. aheadOf(p)' = lineOf(side(p)) /\ p \notin lineOf(side(p))
        BY <1>2, StageOf DEF Joins, lineOf
      <4>2. \A q \in Procs : InLine(q)' /\ side(q) = side(p) /\ q # p =>
              q \in aheadOf(p)' /\ p \notin aheadOf(q)'
        BY <1>2, <3>1, <4>1, StageOf, StageOfNext DEF Joins, lineOf
      <4>3. \A q \in aheadOf(p)' : stageOf(p)' = "waiting"
        BY <1>2, <4>1 DEF Joins
      <4>4. QED
        BY <3>2, <4>1, <4>2, <4>3
    <3>3. CASE x # p
      <4>1. InLine(x) /\ aheadOf(x)' = aheadOf(x) /\ stageOf(x)' = stageOf(x)
        BY <1>2, <2>1, <3>3, StageOf, StageOfNext DEF Joins
      <4>2. \A q \in aheadOf(x) : q # p /\ q \in Procs /\ stageOf(q)' = stageOf(q)
        BY <1>2, <3>1 DEF Joins
      <4>3. ASSUME NEW q \in Procs, InLine(q)', side(q) = side(x), q # x
            PROVE  q \in aheadOf(x)' <=> x \notin aheadOf(q)'
        <5>1. CASE q = p
          <6>1. x \in aheadOf(p)' /\ p \notin aheadOf(x)'
            BY <1>2, <3>1, <4>1, <4>3, <5>1 DEF Joins, lineOf
          <6>2. QED
            BY <5>1, <6>1
        <5>2. CASE q # p
          <6>1. InLine(q) /\ aheadOf(q)' = aheadOf(q)
            BY <1>2, <4>3, <5>2, StageOf, StageOfNext DEF Joins
          <6>2. QED
            BY <1>0, <4>1, <4>3, <6>1 DEF InOrder
        <5>3. QED
          BY <5>1, <5>2
      <4>4. QED
        BY <1>0, <4>1, <4>2, <4>3 DEF InOrder
    <3>4. QED
      BY <3>2, <3>3
  <2>2. QED
    BY <2>1 DEF InOrder, side
<1>3. ASSUME NEW p \in Procs, Passes(p) PROVE InOrder'
  <2>1. \A q \in Procs : (InLine(q)' <=> InLine(q)) /\ aheadOf(q)' = aheadOf(q)
                         /\ aheadOf(q) \subseteq Procs
    BY <1>3, StageOf, StageOfNext, AheadStand DEF Passes
  <2>2. InLine(p)
    BY <1>3, StageOf DEF Passes
  <2>3. ASSUME NEW x \in Procs, InLine(x), NEW q \in aheadOf(x), stageOf(x)' # "waiting"
        PROVE  stageOf(q)' = "released"
    <3>0. q \in Procs
      BY <2>1
    <3>1. CASE x = p
      <4>1. q # p /\ stageOf(q) = "released"
        BY <1>0, <1>3, <2>3, <3>1 DEF InOrder, Passes
      <4>2. QED
        BY <1>3, <3>0, <4>1 DEF Passes
    <3>2. CASE x # p
      <4>1. stageOf(q) = "released"
        BY <1>0, <1>3, <2>3, <3>2 DEF InOrder, Passes
      <4>2. q # p
        BY <1>3, <4>1 DEF Passes
      <4>3. QED
        BY <1>3, <3>0, <4>1, <4>2 DEF Passes
    <3>3. QED
      BY <3>1, <3>2
  <2>4. QED
    BY <1>0, <2>1, <2>3 DEF InOrder, side
<1>4. ASSUME NEW p \in Procs, Leaves(p) PROVE InOrder'
  <2>1. ASSUME NEW x \in Procs, InLine(x)'
        PROVE  InLine(x) /\ x # p /\ stageOf(x)' = stageOf(x) /\ aheadOf(x)' = aheadOf(x) \ {p}
    BY <1>4, <2>1, StageOf, StageOfNext DEF Leaves
  <2>2. ASSUME NEW x \in Procs, InLine(x)', NEW q \in aheadOf(x)', stageOf(x)' # "waiting"
        PROVE  stageOf(q)' = "released"
    <3>1. q \in Procs /\ q # p /\ q \in aheadOf(x)
      BY <2>1, <2>2, AheadStand
    <3>2. stageOf(q) = "released"
      BY <1>0, <2>1, <2>2, <3>1 DEF InOrder
    <3>3. QED
      BY <1>4, <3>1, <3>2 DEF Leaves
  <2>3. QED
    BY <1>0, <2>1, <2>2 DEF InOrder, side
<1>5. QED
  BY <1>1, <1>2, <1>3, <1>4

-----------------------------------------------------------------------------
(* The steps of the nodes                                                  *)

(* A thread goes from one place to another.                                *)
LEMMA Goes ==
  ASSUME TypeOK, NEW p \in Procs, NEW from, NEW to, goto(p, from, to)
  PROVE  pc[p] = from /\ pc'[p] = to /\ \A q \in Procs \ {p} : pc'[q] = pc[q]
BY DEF goto, TypeOK

(* Steps that leave the nodes alone and the thread where it is in line.    *)
LEMMA NodesRest ==
  ASSUME TypeOK, NodeInv, NEW p \in Procs, UNCHANGED node,
         \A q \in Procs \ {p} : pc'[q] = pc[q],
         stageOf(p)' = stageOf(p), pc[p] \notin Waiting, pc'[p] \notin Waiting,
         pc[p] \in {"idle", "acquire"} => pc'[p] \in {"idle", "acquire"},
         pc'[p] \in {"idle", "acquire"} => pc[p] = "idle" \/ ReserveLock[p] = "Consumed",
         pc'[p] \in {"commit", "leave", "swap", "handoff"} => CommitLock[p] = "Go"
  PROVE  NodeInv' /\ Stays
<1> USE DEF node, Waiting, Holding
<1>1. \A q \in Procs : stageOf(q)' = stageOf(q)
  BY DEF stageOf, InLine
<1>2. \A q \in Procs : InLine(q)' <=> InLine(q)
  BY <1>1, StageOf, StageOfNext
<1>3. before' = before
  BY <1>2 DEF before
<1>4. Stays
  BY <1>1, <1>3 DEF Stays, aheadOf
<1>5. Flags'
  <2> SUFFICES ASSUME NEW q \in Procs
               PROVE  /\ pc'[q] \in Waiting \cup Holding => ReserveLock[q] = "Wait"
                      /\ pc'[q] \notin Waiting \cup Holding \cup {"idle", "acquire"} =>
                           ReserveLock[q] # "Wait"
                      /\ pc'[q] \in {"commit", "leave", "swap", "handoff"} =>
                           CommitLock[q] = "Go"
                      /\ InLine(q) /\ CommitLock[q] = "Go" => before[q] = {}
                      /\ InLine(q) /\ ReserveLock[q] = "Consumed" => NextInfo[q] # NULL
    BY <1>2, <1>3 DEF Flags
  <2>1. CASE q # p
    BY <2>1 DEF NodeInv, Flags
  <2>2. CASE q = p
    <3>1. pc'[p] \in Waiting \cup Holding => pc[p] \in Waiting \cup Holding
      BY DEF stageOf, InLine
    <3>2. pc'[p] \notin Waiting \cup Holding \cup {"idle", "acquire"} =>
            pc[p] \notin Waiting \cup Holding \cup {"idle", "acquire"}
      BY DEF stageOf, InLine
    <3>3. QED
      BY <2>2, <3>1, <3>2 DEF NodeInv, Flags
  <2>3. QED
    BY <2>1, <2>2
<1>6. Olds'
  BY <1>2 DEF NodeInv, Olds, side
<1>7. Nexts'
  BY <1>2, Numbers DEF NodeInv, Nexts, side, TypeOK
<1>8. Ends'
  BY <1>2, <1>3 DEF NodeInv, Ends, side, aheadOf
<1>9. InOrder'
  BY <1>4, OrderKept
<1>10. QED
  BY <1>4, <1>5, <1>6, <1>7, <1>8, <1>9 DEF NodeInv

(* The swap of RCLock puts the node at the end of the line.                *)
LEMMA AcquireStep ==
  ASSUME TypeOK, TypeOK', NodeInv, NEW p \in Procs, acquireReserveLock(p)
  PROVE  NodeInv' /\ Joins(p)
<1> USE DEF Waiting, Holding
<1>00. side(p) \in Sides /\ RCLock[side(p)] \in Procs \cup {NULL}
  BY Numbers DEF TypeOK
<1> PICK last \in Procs \cup {NULL} : last = RCLock[side(p)]
  BY <1>00
<1>0. /\ side(p) \in Sides /\ last = RCLock[side(p)] /\ NULL \notin Procs
      /\ Flags /\ Olds /\ Nexts /\ Ends /\ InOrder
  BY <1>00, Numbers DEF NodeInv
<1>1. /\ pc[p] = "acquire" /\ pc'[p] = IF last = NULL THEN "locked" ELSE "link"
      /\ \A q \in Procs \ {p} : pc'[q] = pc[q]
      /\ RCLock'[side(p)] = p /\ \A s \in Sides \ {side(p)} : RCLock'[s] = RCLock[s]
      /\ ReserveLock'[p] = "Wait" /\ \A q \in Procs \ {p} : ReserveLock'[q] = ReserveLock[q]
      /\ CommitLock'[p] = IF last = NULL THEN "Go" ELSE "Wait"
      /\ \A q \in Procs \ {p} : CommitLock'[q] = CommitLock[q]
      /\ NextInfo'[p] = NULL /\ \A q \in Procs \ {p} : NextInfo'[q] = NextInfo[q]
      /\ old'[p] = last /\ \A q \in Procs \ {p} : old'[q] = old[q]
  BY <1>0 DEF acquireReserveLock, goto, TypeOK
<1>2. /\ ~InLine(p) /\ InLine(p)' /\ \A q \in Procs \ {p} : InLine(q)' <=> InLine(q)
      /\ last # NULL => last \in Procs /\ InLine(last) /\ last # p /\ side(last) = side(p)
                        /\ NextInfo[last] = NULL /\ \A q \in Procs : old[q] # last
      /\ last = NULL => lineOf(side(p)) = {}
      /\ last # NULL => lineOf(side(p)) # {}
  <2>1. /\ ~InLine(p) /\ InLine(p)' /\ \A q \in Procs \ {p} : InLine(q)' <=> InLine(q)
    BY <1>1 DEF InLine
  <2>2. CASE last = NULL
    BY <1>0, <2>1, <2>2 DEF Ends, lineOf
  <2>3. CASE last # NULL
    <3>1. last \in Procs /\ InLine(last) /\ side(last) = side(p)
          /\ NextInfo[last] = NULL /\ \A q \in Procs : old[q] # last
      BY <1>0, <2>3 DEF Ends
    <3>2. QED
      BY <2>1, <2>3, <3>1 DEF lineOf
  <2>4. QED
    BY <2>2, <2>3
<1>3. \A q \in Procs : old[q] # p /\ (InLine(q) => NextInfo[q] # p)
  BY <1>0, <1>1, <1>2 DEF Olds, Nexts, InLine
<1>4. \A q \in Procs \ {p} : before'[q] = before[q] /\ p \notin before[q]
  <2> SUFFICES ASSUME NEW q \in Procs \ {p}
               PROVE  before'[q] = before[q] /\ p \notin before[q]
    OBVIOUS
  <2>1. \A x \in Procs : InLine(x)' /\ (old'[q] = x \/ NextInfo'[x] = q)
                           <=> InLine(x) /\ (old[q] = x \/ NextInfo[x] = q)
    BY <1>0, <1>1, <1>2, <1>3
  <2>2. QED
    BY <1>2, <2>1 DEF before
<1>5. before'[p] = IF last = NULL THEN {} ELSE {last}
  <2>1. \A x \in Procs : InLine(x)' /\ (old'[p] = x \/ NextInfo'[x] = p)
                           <=> last # NULL /\ x = last
    BY <1>0, <1>1, <1>2, <1>3
  <2>2. QED
    BY <1>2, <2>1 DEF before
<1>6. \A q \in Procs \ {p} : aheadOf(q)' = aheadOf(q)
  BY <1>4, BeforeType, ClosureKept DEF aheadOf
<1>7. aheadOf(p)' = lineOf(side(p))
  <2>1. CASE last = NULL
    BY <1>2, <1>5, <2>1, BeforeType, ClosureOfFirst DEF aheadOf
  <2>2. CASE last # NULL
    <3>1. aheadOf(p)' = {last} \cup aheadOf(last)'
      BY <1>2, <1>5, <2>2, BeforeType, ClosureOfNext DEF aheadOf
    <3>2. aheadOf(last)' = aheadOf(last)
      BY <1>2, <1>6, <2>2
    <3>3. aheadOf(last) \subseteq lineOf(side(p)) /\ last \in lineOf(side(p))
      BY <1>2, <2>2, AheadStand DEF lineOf
    <3>4. lineOf(side(p)) \subseteq {last} \cup aheadOf(last)
      BY <1>0, <2>2 DEF Ends, lineOf
    <3>5. QED
      BY <3>1, <3>2, <3>3, <3>4
  <2>3. QED
    BY <2>1, <2>2
<1>8. Joins(p)
  <2>1. stageOf(p) = "out" /\ stageOf(p)' = IF last = NULL THEN "holding" ELSE "waiting"
    BY <1>1, <1>2 DEF stageOf, InLine
  <2>2. \A q \in Procs \ {p} : stageOf(q)' = stageOf(q)
    BY <1>1 DEF stageOf, InLine
  <2>3. QED
    BY <1>2, <1>6, <1>7, <2>1, <2>2 DEF Joins
<1>9. Flags'
  BY <1>0, <1>1, <1>2, <1>4, <1>5 DEF Flags
<1>10. Olds'
  <2> SUFFICES ASSUME NEW q \in Procs
               PROVE  /\ pc'[q] \in Waiting => old'[q] # NULL
                      /\ \A x \in Procs : old'[q] = x =>
                           /\ pc'[q] \in Waiting /\ x # q /\ side(x) = side(q)
                           /\ pc'[q] = "link" => InLine(x)' /\ NextInfo'[x] = NULL
                           /\ pc'[q] = "spin" => /\ pc'[x] \notin {"idle", "acquire"}
                                                 /\ NextInfo'[x] = q /\ ReserveLock'[x] # "Consumed"
                           /\ \A r \in Procs : old'[r] = x => r = q
    BY DEF Olds, side
  <2>1. CASE q = p
    BY <1>0, <1>1, <1>2, <2>1
  <2>2. CASE q # p
    <3>1. ASSUME NEW x \in Procs, old[q] = x
          PROVE  x # p /\ x # last
      BY <1>0, <1>2, <1>3, <3>1
    <3>2. QED
      BY <1>0, <1>1, <1>2, <2>2, <3>1 DEF Olds
  <2>3. QED
    BY <2>1, <2>2
<1>11. Nexts'
  <2> SUFFICES ASSUME NEW q \in Procs, NEW n \in Procs, InLine(q)', NextInfo'[q] = n
               PROVE  /\ n # q /\ InLine(n)' /\ side(n) = side(q)
                      /\ \/ pc'[n] = "spin" /\ old'[n] = q
                         \/ pc'[n] \notin Waiting /\ ReserveLock'[q] = "Consumed"
                      /\ \A r \in Procs : InLine(r)' /\ NextInfo'[r] = n => r = q
    BY DEF Nexts, side
  <2>1. q # p /\ InLine(q) /\ NextInfo[q] = n /\ n # p
    BY <1>0, <1>1, <1>2, <1>3
  <2>2. QED
    BY <1>0, <1>1, <1>2, <2>1 DEF Nexts
<1>12. Ends'
  <2>1. ASSUME NEW s \in Sides, s # side(p)
        PROVE  /\ RCLock'[s] = NULL => \A q \in Procs : InLine(q)' => side(q) # s
               /\ \A l \in Procs : RCLock'[s] = l =>
                    /\ InLine(l)' /\ side(l) = s /\ NextInfo'[l] = NULL
                    /\ \A q \in Procs : old'[q] # l
                    /\ \A q \in Procs :
                         InLine(q)' /\ side(q) = s /\ q # l => q \in aheadOf(l)'
    <3>1. RCLock'[s] = RCLock[s]
      BY <1>1, <2>1
    <3>2. CASE RCLock[s] = NULL
      BY <1>0, <1>2, <2>1, <3>1, <3>2 DEF Ends
    <3>3. ASSUME NEW l \in Procs, RCLock[s] = l
          PROVE  /\ InLine(l)' /\ side(l) = s /\ NextInfo'[l] = NULL
                 /\ \A q \in Procs : old'[q] # l
                 /\ \A q \in Procs :
                      InLine(q)' /\ side(q) = s /\ q # l => q \in aheadOf(l)'
      <4>1. /\ InLine(l) /\ side(l) = s
            /\ NextInfo[l] = NULL /\ \A q \in Procs : old[q] # l
            /\ \A q \in Procs : InLine(q) /\ side(q) = s /\ q # l => q \in aheadOf(l)
        BY <1>0, <3>3 DEF Ends
      <4>2. l # p /\ l # last
        BY <1>0, <1>2, <2>1, <4>1
      <4>3. aheadOf(l)' = aheadOf(l)
        BY <1>6, <4>2
      <4>4. \A q \in Procs : InLine(q)' /\ side(q) = s => InLine(q)
        BY <1>2, <2>1
      <4>5. QED
        BY <1>1, <1>2, <4>1, <4>2, <4>3, <4>4
    <3>4. QED
      BY <1>0, <3>1, <3>2, <3>3
  <2>2. /\ RCLock'[side(p)] = p /\ p # NULL /\ InLine(p)' /\ NextInfo'[p] = NULL
        /\ \A q \in Procs : old'[q] # p
        /\ \A q \in Procs : InLine(q)' /\ side(q) = side(p) /\ q # p => q \in aheadOf(p)'
    BY <1>0, <1>1, <1>2, <1>3, <1>7 DEF lineOf
  <2>3. QED
    BY <2>1, <2>2 DEF Ends, side
<1>13. InOrder'
  BY <1>8, OrderKept
<1>14. QED
  BY <1>8, <1>9, <1>10, <1>11, <1>12, <1>13 DEF NodeInv

(* A spinning thread has one node before it at most.                       *)
LEMMA SpinsBehind ==
  ASSUME NodeInv, NEW p \in Procs, NEW q \in Procs, old[p] = q
  PROVE  before[p] = IF InLine(q) THEN {q} ELSE {}
<1>1. ASSUME NEW r \in Procs, InLine(r), NextInfo[r] = p PROVE r = q
  BY <1>1 DEF NodeInv, Olds, Nexts
<1>2. QED
  BY <1>1 DEF before

(* The store of Next puts the link where the old was.                      *)
LEMMA LinkStep ==
  ASSUME TypeOK, NodeInv, NEW p \in Procs, linkBehind(p)
  PROVE  NodeInv' /\ Stays
<1> USE DEF Waiting, Holding
<1>1. /\ pc[p] = "link" /\ pc'[p] = "spin" /\ \A x \in Procs \ {p} : pc'[x] = pc[x]
      /\ NextInfo' = [NextInfo EXCEPT ![old[p]] = p]
      /\ UNCHANGED <<RCLock, ReserveLock, CommitLock, old>>
  BY Goes DEF linkBehind
<1> PICK q \in Procs : old[p] = q
  BY <1>1 DEF NodeInv, Olds, TypeOK
<1>2. /\ Flags /\ Olds /\ Nexts /\ Ends /\ InOrder /\ NULL \notin Procs
      /\ old[p] = q /\ q # p /\ side(q) = side(p) /\ InLine(q) /\ NextInfo[q] = NULL
      /\ NextInfo'[q] = p /\ \A x \in Procs \ {q} : NextInfo'[x] = NextInfo[x]
      /\ \A x \in Procs : old[x] = q => x = p
  BY <1>1, Numbers DEF NodeInv, Olds, TypeOK
<1>3. \A x \in Procs : stageOf(x)' = stageOf(x) /\ (InLine(x)' <=> InLine(x))
  BY <1>1 DEF stageOf, InLine
<1>4. before' = before
  <2>1. \A x, r \in Procs : InLine(r)' /\ (old'[x] = r \/ NextInfo'[r] = x)
                              <=> InLine(r) /\ (old[x] = r \/ NextInfo[r] = x)
    BY <1>1, <1>2, <1>3
  <2>2. QED
    BY <2>1 DEF before
<1>5. Stays
  BY <1>3, <1>4 DEF Stays, aheadOf
<1>6. Flags'
  BY <1>1, <1>2, <1>3, <1>4 DEF Flags
<1>7. Olds'
  BY <1>1, <1>2, <1>3 DEF Flags, Olds, side, InLine
<1>8. Nexts'
  BY <1>1, <1>2, <1>3 DEF Nexts, side, InLine
<1>9. Ends'
  BY <1>1, <1>2, <1>3, <1>4 DEF Ends, side, aheadOf
<1>10. InOrder'
  BY <1>5, OrderKept
<1>11. QED
  BY <1>5, <1>6, <1>7, <1>8, <1>9, <1>10 DEF NodeInv

(* The reserve lock is taken out of the node before.                       *)
LEMMA ConsumeStep ==
  ASSUME TypeOK, NodeInv, NEW p \in Procs, consumeReserveLock(p)
  PROVE  NodeInv' /\ Passes(p)
<1> USE DEF Waiting, Holding
<1>1. /\ pc[p] = "spin" /\ pc'[p] = "locked" /\ \A x \in Procs \ {p} : pc'[x] = pc[x]
      /\ ReserveLock[old[p]] = "Go"
      /\ ReserveLock' = [ReserveLock EXCEPT ![old[p]] = "Consumed"]
      /\ old' = [old EXCEPT ![p] = NULL]
      /\ UNCHANGED <<RCLock, CommitLock, NextInfo>>
  BY Goes DEF consumeReserveLock
<1> PICK q \in Procs : old[p] = q
  BY <1>1 DEF NodeInv, Olds, TypeOK
<1>2. /\ Flags /\ Olds /\ Nexts /\ Ends /\ InOrder /\ NULL \notin Procs
      /\ old[p] = q /\ q # p /\ side(q) = side(p) /\ pc[q] \notin {"idle", "acquire"}
      /\ NextInfo[q] = p /\ ReserveLock[q] = "Go"
      /\ ReserveLock'[q] = "Consumed" /\ \A x \in Procs \ {q} : ReserveLock'[x] = ReserveLock[x]
      /\ old'[p] = NULL /\ \A x \in Procs \ {p} : old'[x] = old[x]
      /\ \A x \in Procs : old[x] = q => x = p
  BY <1>1, Numbers DEF NodeInv, Olds, TypeOK
<1>3. /\ \A x \in Procs : InLine(x)' <=> InLine(x)
      /\ \A x \in Procs \ {p} : stageOf(x)' = stageOf(x)
      /\ stageOf(p) = "waiting" /\ stageOf(p)' = "holding"
  BY <1>1 DEF stageOf, InLine
<1>4. before' = before
  <2>1. \A x, r \in Procs : InLine(r)' /\ (old'[x] = r \/ NextInfo'[r] = x)
                              <=> InLine(r) /\ (old[x] = r \/ NextInfo[r] = x)
    BY <1>1, <1>2, <1>3
  <2>2. QED
    BY <2>1 DEF before
<1>5. \A x \in aheadOf(p) : stageOf(x) = "released"
  <2>1. CASE InLine(q)
    <3>1. before[p] = {q}
      BY <1>2, <2>1, SpinsBehind
    <3>2. aheadOf(p) = {q} \cup aheadOf(q)
      BY <3>1, BeforeType, ClosureOfNext DEF aheadOf
    <3>3. stageOf(q) = "released"
      BY <1>2, <2>1 DEF Flags, stageOf, InLine
    <3>4. \A x \in aheadOf(q) : stageOf(x) = "released"
      BY <1>2, <2>1, <3>3 DEF InOrder
    <3>5. QED
      BY <3>2, <3>3, <3>4
  <2>2. CASE ~InLine(q)
    <3>1. before[p] = {}
      BY <1>2, <2>2, SpinsBehind
    <3>2. QED
      BY <3>1, BeforeType, ClosureOfFirst DEF aheadOf
  <2>3. QED
    BY <2>1, <2>2
<1>6. Passes(p)
  BY <1>3, <1>4, <1>5 DEF Passes, aheadOf
<1>7. Flags'
  BY <1>1, <1>2, <1>3, <1>4 DEF Flags
<1>8. Olds'
  BY <1>1, <1>2, <1>3 DEF Olds, side
<1>9. Nexts'
  BY <1>1, <1>2, <1>3 DEF Nexts, side
<1>10. Ends'
  BY <1>1, <1>2, <1>3, <1>4 DEF Ends, side, aheadOf
<1>11. InOrder'
  BY <1>6, OrderKept
<1>12. QED
  BY <1>6, <1>7, <1>8, <1>9, <1>10, <1>11 DEF NodeInv

(* The reserve lock is given on, by a reservation or its cancel.           *)
LEMMA ReleaseStep ==
  ASSUME CancelWaits, TypeOK, NodeInv, NEW p \in Procs,
         releaseReserveLock(p) \/ cancelReserveLock(p)
  PROVE  NodeInv' /\ Passes(p)
<1> USE DEF Waiting, Holding
<1>1. /\ pc[p] \in {"unlock", "cancel"} /\ pc'[p] \in {"reserved", "cancelwait"}
      /\ \A x \in Procs \ {p} : pc'[x] = pc[x]
      /\ ReserveLock'[p] = "Go" /\ \A x \in Procs \ {p} : ReserveLock'[x] = ReserveLock[x]
      /\ UNCHANGED <<RCLock, CommitLock, NextInfo, old>>
  BY Goes DEF releaseReserveLock, cancelReserveLock, TypeOK
<1>2. Flags /\ Olds /\ Nexts /\ Ends /\ InOrder /\ ReserveLock[p] = "Wait"
  BY <1>1 DEF NodeInv, Flags
<1>3. /\ \A x \in Procs : InLine(x)' <=> InLine(x)
      /\ \A x \in Procs \ {p} : stageOf(x)' = stageOf(x)
      /\ stageOf(p) = "holding" /\ stageOf(p)' = "released"
  BY <1>1 DEF stageOf, InLine
<1>4. before' = before
  BY <1>1, <1>3 DEF before
<1>5. Passes(p)
  BY <1>3, <1>4 DEF Passes, aheadOf
<1>6. Flags'
  BY <1>1, <1>2, <1>3, <1>4 DEF Flags
<1>7. Olds'
  BY <1>1, <1>2, <1>3 DEF Olds, side
<1>8. Nexts'
  BY <1>1, <1>2, <1>3 DEF Nexts, side
<1>9. Ends'
  BY <1>1, <1>2, <1>3, <1>4 DEF Ends, side, aheadOf
<1>10. InOrder'
  BY <1>5, OrderKept
<1>11. QED
  BY <1>5, <1>6, <1>7, <1>8, <1>9, <1>10 DEF NodeInv

(* What is left of the line when the first has gone.                       *)
LEMMA FirstLeaves ==
  ASSUME TypeOK, NodeInv, NEW p \in Procs, before[p] = {},
         stageOf(p) = "released", stageOf(p)' = "out",
         \A x \in Procs \ {p} : pc'[x] = pc[x],
         UNCHANGED <<NextInfo, old>>
  PROVE  /\ Leaves(p) /\ ~InLine(p)'
         /\ \A x \in Procs \ {p} : InLine(x)' <=> InLine(x)
         /\ \A x \in Procs : before'[x] = before[x] \ {p}
<1>1. /\ ~InLine(p)' /\ \A x \in Procs \ {p} : InLine(x)' <=> InLine(x)
      /\ \A x \in Procs \ {p} : stageOf(x)' = stageOf(x)
  BY StageOfNext DEF stageOf, InLine
<1>2. \A x \in Procs : before'[x] = before[x] \ {p}
  BY <1>1 DEF before
<1>3. \A x \in Procs : aheadOf(x)' = aheadOf(x) \ {p}
  BY <1>2, BeforeType, ClosureDrops DEF aheadOf
<1>4. aheadOf(p) = {}
  BY BeforeType, ClosureOfFirst DEF aheadOf
<1>5. QED
  BY <1>1, <1>2, <1>3, <1>4 DEF Leaves

(* The last of a line empties it.                                          *)
LEMMA SwapStep ==
  ASSUME TypeOK, NodeInv, NEW p \in Procs, swapOut(p), RCLock[side(p)] = p
  PROVE  NodeInv' /\ Leaves(p)
<1> USE DEF Waiting, Holding
<1>1. /\ pc[p] = "swap" /\ pc'[p] = "idle" /\ \A x \in Procs \ {p} : pc'[x] = pc[x]
      /\ RCLock' = [RCLock EXCEPT ![side(p)] = NULL]
      /\ UNCHANGED <<ReserveLock, CommitLock, NextInfo, old>>
  BY Goes DEF swapOut
<1>2. /\ Flags /\ Olds /\ Nexts /\ Ends /\ InOrder /\ NULL \notin Procs /\ side(p) \in Sides
      /\ RCLock'[side(p)] = NULL /\ \A s \in Sides \ {side(p)} : RCLock'[s] = RCLock[s]
  BY <1>1, Numbers DEF NodeInv, TypeOK
<1>3. before[p] = {} /\ stageOf(p) = "released" /\ stageOf(p)' = "out"
  BY <1>1, <1>2 DEF Flags, stageOf, InLine
<1>4. /\ Leaves(p) /\ ~InLine(p)'
      /\ \A x \in Procs \ {p} : InLine(x)' <=> InLine(x)
      /\ \A x \in Procs : before'[x] = before[x] \ {p}
  BY <1>1, <1>3, FirstLeaves
<1>5. /\ \A x \in Procs : old[x] # p
      /\ \A x \in Procs : InLine(x) /\ NextInfo[x] = p => FALSE
      /\ \A x \in Procs : InLine(x)' => side(x) # side(p)
  <2>1. \A x \in Procs : old[x] # p
    BY <1>2 DEF Ends
  <2>2. \A x \in Procs : InLine(x) => NextInfo[x] # p
    BY <1>3 DEF before
  <2>3. \A x \in Procs : InLine(x) /\ side(x) = side(p) /\ x # p => x \in aheadOf(p)
    BY <1>2 DEF Ends
  <2>4. QED
    BY <1>4, <2>1, <2>2, <2>3 DEF Leaves
<1>6. Flags'
  BY <1>1, <1>2, <1>4 DEF Flags
<1>7. Olds'
  BY <1>1, <1>2, <1>4, <1>5 DEF Olds, side
<1>8. Nexts'
  BY <1>1, <1>2, <1>4, <1>5 DEF Nexts, side
<1>9. Ends'
  <2>1. ASSUME NEW s \in Sides, s # side(p), NEW l \in Procs, RCLock[s] = l
        PROVE  /\ InLine(l)' /\ side(l) = s /\ NextInfo'[l] = NULL
               /\ \A q \in Procs : old'[q] # l
               /\ \A q \in Procs :
                    InLine(q)' /\ side(q) = s /\ q # l => q \in aheadOf(l)'
    <3>1. /\ InLine(l) /\ side(l) = s /\ NextInfo[l] = NULL
          /\ \A q \in Procs : old[q] # l
          /\ \A q \in Procs : InLine(q) /\ side(q) = s /\ q # l => q \in aheadOf(l)
      BY <1>2, <2>1 DEF Ends
    <3>2. l # p /\ aheadOf(l)' = aheadOf(l) \ {p}
      BY <1>4, <2>1, <3>1 DEF Leaves
    <3>3. QED
      BY <1>1, <1>4, <2>1, <3>1, <3>2
  <2>2. ASSUME NEW s \in Sides, RCLock'[s] = NULL, NEW x \in Procs, InLine(x)'
        PROVE  side(x) # s
    BY <1>2, <1>4, <1>5, <2>2 DEF Ends
  <2>3. QED
    BY <1>2, <2>1, <2>2 DEF Ends, side
<1>10. InOrder'
  BY <1>4, OrderKept
<1>11. QED
  BY <1>4, <1>6, <1>7, <1>8, <1>9, <1>10 DEF NodeInv

(* The commit lock is passed on to the next node.                          *)
LEMMA HandOffStep ==
  ASSUME TypeOK, NodeInv, NEW p \in Procs, handOff(p)
  PROVE  NodeInv' /\ Leaves(p)
<1> USE DEF Waiting, Holding
<1>1. /\ pc[p] = "handoff" /\ pc'[p] = "consumed" /\ \A x \in Procs \ {p} : pc'[x] = pc[x]
      /\ NextInfo[p] # NULL /\ CommitLock' = [CommitLock EXCEPT ![NextInfo[p]] = "Go"]
      /\ UNCHANGED <<RCLock, ReserveLock, NextInfo, old>>
  BY Goes DEF handOff
<1> PICK n \in Procs : NextInfo[p] = n
  BY <1>1 DEF TypeOK
<1>2. /\ Flags /\ Olds /\ Nexts /\ Ends /\ InOrder /\ NULL \notin Procs /\ NextInfo[p] = n
      /\ CommitLock'[n] = "Go" /\ \A x \in Procs \ {n} : CommitLock'[x] = CommitLock[x]
  BY <1>1, Numbers DEF NodeInv, TypeOK
<1>3. before[p] = {} /\ InLine(p) /\ stageOf(p) = "released" /\ stageOf(p)' = "out"
  BY <1>1, <1>2 DEF Flags, stageOf, InLine
<1>4. /\ Leaves(p) /\ ~InLine(p)'
      /\ \A x \in Procs \ {p} : InLine(x)' <=> InLine(x)
      /\ \A x \in Procs : before'[x] = before[x] \ {p}
  BY <1>1, <1>3, FirstLeaves
<1>5. /\ n # p /\ before[n] \subseteq {p}
      /\ \A x \in Procs : InLine(x) => NextInfo[x] # p
  <2>1. n # p
    BY <1>2, <1>3 DEF Nexts
  <2>2. ASSUME NEW r \in Procs, InLine(r), old[n] = r \/ NextInfo[r] = n
        PROVE  r = p
    BY <1>2, <1>3, <2>2 DEF Nexts, Olds
  <2>3. QED
    BY <1>3, <2>1, <2>2 DEF before
<1>6. before'[n] = {}
  BY <1>4, <1>5
<1>7. Flags'
  BY <1>1, <1>2, <1>3, <1>4, <1>6 DEF Flags
<1>8. Olds'
  BY <1>1, <1>2, <1>3, <1>4 DEF Olds, side
<1>9. Nexts'
  BY <1>1, <1>2, <1>4, <1>5 DEF Nexts, side
<1>10. Ends'
  <2>1. ASSUME NEW s \in Sides, NEW l \in Procs, RCLock[s] = l
        PROVE  /\ InLine(l)' /\ side(l) = s /\ NextInfo'[l] = NULL
               /\ \A q \in Procs : old'[q] # l
               /\ \A q \in Procs :
                    InLine(q)' /\ side(q) = s /\ q # l => q \in aheadOf(l)'
    <3>1. /\ InLine(l) /\ side(l) = s /\ NextInfo[l] = NULL
          /\ \A q \in Procs : old[q] # l
          /\ \A q \in Procs : InLine(q) /\ side(q) = s /\ q # l => q \in aheadOf(l)
      BY <1>2, <2>1 DEF Ends
    <3>2. l # p /\ aheadOf(l)' = aheadOf(l) \ {p}
      BY <1>1, <1>4, <3>1 DEF Leaves
    <3>3. QED
      BY <1>1, <1>4, <3>1, <3>2
  <2>2. ASSUME NEW s \in Sides, RCLock[s] = NULL, NEW x \in Procs, InLine(x)'
        PROVE  side(x) # s
    BY <1>2, <1>4, <2>2 DEF Ends
  <2>3. QED
    BY <1>1, <2>1, <2>2 DEF Ends, side
<1>11. InOrder'
  BY <1>4, OrderKept
<1>12. QED
  BY <1>4, <1>7, <1>8, <1>9, <1>10, <1>11 DEF NodeInv

LineMoves == Stays \/ \E p \in Procs : Joins(p) \/ Passes(p) \/ Leaves(p)

(* The steps that leave the nodes alone.                                   *)
LEMMA QuietSteps ==
  ASSUME CancelWaits, TypeOK, NodeInv, NEW p \in Procs,
         \/ acquireCommitLock(p) \/ leaveOrSwap(p) \/ awaitConsumed(p)
         \/ swapOut(p) /\ RCLock[side(p)] # p
         \/ reservePush(p) \/ commitPush(p) \/ precheckPush(p)
         \/ reservePeekPop(p) \/ commitPeekPop(p) \/ precheckPeekPop(p)
  PROVE  NodeInv' /\ Stays
<1>1. ASSUME NEW from, NEW to, goto(p, from, to), UNCHANGED node,
             \/ from = "idle" /\ to = "acquire"
             \/ from = "consumed" /\ to = "idle" /\ ReserveLock[p] = "Consumed"
             \/ from = "locked" /\ to \in {"unlock", "cancel"}
             \/ from = "reserved" /\ to = "commit" /\ CommitLock[p] = "Go"
             \/ from = "cancelwait" /\ to = "leave" /\ CommitLock[p] = "Go"
             \/ from = "commit" /\ to = "leave"
             \/ from = "leave" /\ to \in {"swap", "handoff"}
             \/ from = "swap" /\ to = "handoff"
      PROVE  NodeInv' /\ Stays
  <2>1. pc[p] = from /\ pc'[p] = to /\ \A q \in Procs \ {p} : pc'[q] = pc[q]
    BY <1>1, Goes
  <2>2. stageOf(p)' = stageOf(p)
    BY <1>1, <2>1 DEF stageOf, InLine
  <2>3. to \in {"commit", "leave", "swap", "handoff"} => CommitLock[p] = "Go"
    BY <1>1, <2>1 DEF NodeInv, Flags
  <2>4. QED
    BY <1>1, <2>1, <2>2, <2>3, NodesRest DEF Waiting
<1>2. CASE acquireCommitLock(p)
  BY <1>1, <1>2 DEF acquireCommitLock
<1>3. CASE leaveOrSwap(p)
  BY <1>1, <1>3 DEF leaveOrSwap
<1>4. CASE awaitConsumed(p)
  BY <1>1, <1>4 DEF awaitConsumed
<1>5. CASE swapOut(p) /\ RCLock[side(p)] # p
  BY <1>1, <1>5 DEF swapOut, node
<1>6. CASE reservePush(p) \/ reservePeekPop(p)
  BY <1>1, <1>6 DEF reservePush, reservePeekPop
<1>7. CASE commitPush(p) \/ commitPeekPop(p)
  BY <1>1, <1>7 DEF commitPush, commitPeekPop
<1>8. CASE precheckPush(p) \/ precheckPeekPop(p)
  BY <1>1, <1>8 DEF precheckPush, precheckPeekPop
<1>9. QED
  BY <1>2, <1>3, <1>4, <1>5, <1>6, <1>7, <1>8

(* Every step is at most one move in one line.                             *)
LEMMA NodeStep ==
  ASSUME CancelWaits, TypeOK, TypeOK', NodeInv, [Next]_vars
  PROVE  NodeInv' /\ LineMoves
<1>1. ASSUME NEW p \in Procs, lockStep(p) PROVE NodeInv' /\ LineMoves
  <2>1. CASE acquireReserveLock(p)
    BY <2>1, AcquireStep DEF LineMoves
  <2>2. CASE linkBehind(p)
    BY <2>2, LinkStep DEF LineMoves
  <2>3. CASE consumeReserveLock(p)
    BY <2>3, ConsumeStep DEF LineMoves
  <2>4. CASE releaseReserveLock(p) \/ cancelReserveLock(p)
    BY <2>4, ReleaseStep DEF LineMoves
  <2>5. CASE swapOut(p) /\ RCLock[side(p)] = p
    BY <2>5, SwapStep DEF LineMoves
  <2>6. CASE handOff(p)
    BY <2>6, HandOffStep DEF LineMoves
  <2>7. QED
    BY <1>1, <2>1, <2>2, <2>3, <2>4, <2>5, <2>6, QuietSteps
       DEF lockStep, releaseCommitLock, LineMoves
<1>2. CASE UNCHANGED vars
  <2>1. UNCHANGED <<node, pc>>
    BY <1>2 DEF vars
  <2>2. before' = before /\ \A q \in Procs : stageOf(q)' = stageOf(q)
    BY <2>1 DEF before, stageOf, InLine, node
  <2>3. Stays
    BY <2>2 DEF Stays, aheadOf
  <2>4. (Flags /\ Olds /\ Nexts /\ Ends)'
    BY <2>1, <2>2 DEF node, NodeInv, Flags, Olds, Nexts, Ends, InLine, aheadOf, side,
                      Waiting, Holding
  <2>5. QED
    BY <2>3, <2>4, OrderKept DEF LineMoves, NodeInv
<1>3. QED
  BY <1>1, <1>2, QuietSteps, Numbers DEF Next, step, LineMoves

LEMMA NodesBegin == Init => NodeInv
<1> SUFFICES ASSUME Init PROVE NodeInv
  OBVIOUS
<1>1. \A p \in Procs : pc[p] = "idle" /\ ~InLine(p) /\ old[p] = NULL
  BY DEF Init, InLine
<1>2. /\ NULL \notin Procs /\ \A s \in Sides : RCLock[s] = NULL
  BY Numbers DEF Init
<1>3. QED
  BY <1>1, <1>2 DEF NodeInv, Flags, Olds, Nexts, Ends, InOrder, Waiting, Holding

(* The inductive invariant of the RCLock: the flags and links of the nodes *)
(* make one line for each side, in the order of the swaps of RCLock, and   *)
(* both locks are where their flags say.                                   *)
THEOREM NodeInvHolds == ASSUME CancelWaits PROVE Spec => [](TypeOK /\ NodeInv)
<1>1. Init => NodeInv
  BY NodesBegin
<1>2. TypeOK /\ TypeOK' /\ NodeInv /\ [Next]_vars => NodeInv'
  BY NodeStep
<1>3. QED
  BY <1>1, <1>2, TypeOKHolds, PTL DEF Spec

-----------------------------------------------------------------------------
(* The two locks                                                           *)

(* The line of RCLockSpec.                                                 *)
LEMMA LineIs ==
  /\ LockLine!Stages = {"out", "waiting", "holding", "released"}
  /\ \A s \in Sides : LockLine!line(s) = lineOf(s)
BY StageOf DEF LockLine!Stages, LockLine!line, lineOf, lockStage

(* What a move in a line is to RCLockSpec.                                 *)
LEMMA StageMaps ==
  ASSUME NEW p \in Procs, NEW from, NEW to, stageOf(p) = from, stageOf(p)' = to,
         \A q \in Procs \ {p} : stageOf(q)' = stageOf(q)
  PROVE  LockLine!setStage(side(p), p, from, to)
<1>1. side(p) \in Sides
  BY Numbers
<1>2. lockStage' = [s \in Sides |-> [q \in Procs |->
                     IF side(q) = s THEN stageOf(q)' ELSE "out"]]
  BY DEF lockStage, side
<1>3. lockStage' = [lockStage EXCEPT ![side(p)][p] = to]
  <2>1. ASSUME NEW s \in Sides, NEW q \in Procs
        PROVE  (IF side(q) = s THEN stageOf(q)' ELSE "out")
                 = IF s = side(p) /\ q = p THEN to ELSE lockStage[s][q]
    BY DEF lockStage
  <2>2. lockStage' = [s \in Sides |-> [q \in Procs |->
                       IF s = side(p) /\ q = p THEN to ELSE lockStage[s][q]]]
    BY <1>2, <2>1
  <2>3. [lockStage EXCEPT ![side(p)][p] = to]
          = [s \in Sides |-> [q \in Procs |->
              IF s = side(p) /\ q = p THEN to ELSE lockStage[s][q]]]
    BY <1>1 DEF lockStage
  <2>4. QED
    BY <2>2, <2>3
<1>4. lockStage[side(p)][p] = from
  BY <1>1 DEF lockStage
<1>5. QED
  BY <1>3, <1>4 DEF LockLine!setStage

(* The places in line, before and after a step.                            *)
LEMMA AheadMaps ==
  /\ lockAhead = [s \in Sides |-> [q \in Procs |->
                   IF side(q) = s /\ stageOf(q) # "out" THEN aheadOf(q) ELSE {}]]
  /\ lockAhead' = [s \in Sides |-> [q \in Procs |->
                   IF side(q) = s /\ stageOf(q)' # "out" THEN aheadOf(q)' ELSE {}]]
BY StageOf, StageOfNext DEF lockAhead, side

LEMMA JoinMaps ==
  ASSUME NEW p \in Procs, Joins(p) PROVE LockLine!Enter(side(p), p)
<1>1. side(p) \in Sides /\ LockLine!line(side(p)) = lineOf(side(p))
  BY Numbers, LineIs
<1>2. lockAhead' = [lockAhead EXCEPT ![side(p)][p] = lineOf(side(p))]
  <2>1. ASSUME NEW s \in Sides, NEW q \in Procs
        PROVE  (IF side(q) = s /\ stageOf(q)' # "out" THEN aheadOf(q)' ELSE {})
                 = IF s = side(p) /\ q = p THEN lineOf(side(p))
                   ELSE IF side(q) = s /\ stageOf(q) # "out" THEN aheadOf(q) ELSE {}
    BY DEF Joins
  <2>2. lockAhead' = [s \in Sides |-> [q \in Procs |->
                       IF s = side(p) /\ q = p THEN lineOf(side(p))
                       ELSE IF side(q) = s /\ stageOf(q) # "out" THEN aheadOf(q) ELSE {}]]
    BY <2>1, AheadMaps
  <2>3. [lockAhead EXCEPT ![side(p)][p] = lineOf(side(p))]
          = [s \in Sides |-> [q \in Procs |->
              IF s = side(p) /\ q = p THEN lineOf(side(p))
              ELSE IF side(q) = s /\ stageOf(q) # "out" THEN aheadOf(q) ELSE {}]]
    BY <1>1, AheadMaps
  <2>4. QED
    BY <2>2, <2>3
<1>3. QED
  BY <1>1, <1>2, StageMaps DEF Joins, LockLine!Enter

LEMMA PassMaps ==
  ASSUME NEW p \in Procs, TypeOK, NodeInv, Passes(p)
  PROVE  LockLine!Take(side(p), p) \/ LockLine!Release(side(p), p)
<1>1. side(p) \in Sides
  BY Numbers
<1>2. lockAhead' = lockAhead
  <2>1. \A q \in Procs : /\ stageOf(q)' # "out" <=> stageOf(q) # "out"
                         /\ aheadOf(q)' = aheadOf(q)
    BY DEF Passes
  <2>2. QED
    BY <2>1, AheadMaps
<1>3. CASE stageOf(p) = "waiting" /\ stageOf(p)' = "holding"
  <2>1. LockLine!setStage(side(p), p, "waiting", "holding")
    BY <1>3, StageMaps DEF Passes
  <2>2. InLine(p) /\ lockAhead[side(p)][p] = aheadOf(p)
    BY <1>1, <1>3, StageOf DEF lockAhead
  <2>3. ASSUME NEW q \in aheadOf(p) PROVE lockStage[side(p)][q] = "released"
    <3>1. q \in Procs /\ side(q) = side(p)
      BY <2>2, AheadStand DEF lineOf
    <3>2. stageOf(q) = "released"
      BY <1>3 DEF Passes
    <3>3. QED
      BY <1>1, <3>1, <3>2 DEF lockStage
  <2>4. QED
    BY <1>2, <2>1, <2>2, <2>3 DEF LockLine!Take
<1>4. CASE stageOf(p) = "holding" /\ stageOf(p)' = "released"
  BY <1>2, <1>4, StageMaps DEF Passes, LockLine!Release
<1>5. QED
  BY <1>3, <1>4 DEF Passes

LEMMA LeaveMaps ==
  ASSUME NEW p \in Procs, TypeOK, NodeInv, Leaves(p)
  PROVE  LockLine!Leave(side(p), p)
<1>1. side(p) \in Sides
  BY Numbers
<1>2. LockLine!setStage(side(p), p, "released", "out")
  BY StageMaps DEF Leaves
<1>3. LockLine!HoldsCommit(side(p), p)
  BY <1>1 DEF LockLine!HoldsCommit, lockAhead, Leaves
<1>4. lockAhead' = [lockAhead EXCEPT ![side(p)] = [q \in Procs |-> @[q] \ {p}]]
  <2>1. ASSUME NEW s \in Sides, NEW q \in Procs
        PROVE  (IF side(q) = s /\ stageOf(q)' # "out" THEN aheadOf(q)' ELSE {})
                 = IF s = side(p) THEN lockAhead[s][q] \ {p} ELSE lockAhead[s][q]
    <3>1. lockAhead[s][q] = IF side(q) = s /\ stageOf(q) # "out" THEN aheadOf(q) ELSE {}
      BY AheadMaps
    <3>2. CASE q = p
      BY <3>1, <3>2 DEF Leaves
    <3>3. CASE q # p
      <4>1. stageOf(q)' = stageOf(q) /\ aheadOf(q)' = aheadOf(q) \ {p}
        BY <3>3 DEF Leaves
      <4>2. CASE s = side(p) \/ side(q) # s \/ stageOf(q) = "out"
        BY <3>1, <4>1, <4>2
      <4>3. CASE s # side(p) /\ side(q) = s /\ stageOf(q) # "out"
        <5>1. p \notin aheadOf(q)
          BY <4>3, StageOf, AheadStand DEF lineOf
        <5>2. QED
          BY <3>1, <4>1, <4>3, <5>1
      <4>4. QED
        BY <4>2, <4>3
    <3>4. QED
      BY <3>2, <3>3
  <2>2. lockAhead' = [s \in Sides |-> [q \in Procs |->
                       IF s = side(p) THEN lockAhead[s][q] \ {p} ELSE lockAhead[s][q]]]
    BY <2>1, AheadMaps
  <2>3. [lockAhead EXCEPT ![side(p)] = [q \in Procs |-> @[q] \ {p}]]
          = [s \in Sides |-> [q \in Procs |->
              IF s = side(p) THEN lockAhead[s][q] \ {p} ELSE lockAhead[s][q]]]
    BY <1>1, AheadMaps
  <2>4. QED
    BY <2>2, <2>3
<1>5. QED
  BY <1>2, <1>3, <1>4 DEF LockLine!Leave

(* The locks exclude: of two threads of a side, one is before the other.   *)
LEMMA LocksExclude ==
  ASSUME TypeOK, NodeInv
  PROVE  LockLine!ReserveMutex /\ LockLine!CommitMutex
<1>1. LockLine!ReserveMutex
  <2> SUFFICES ASSUME NEW s \in Sides, NEW p \in Procs, NEW q \in Procs,
                      lockStage[s][p] = "holding", lockStage[s][q] = "holding", p # q
               PROVE  FALSE
    BY DEF LockLine!ReserveMutex
  <2>1. /\ side(p) = s /\ stageOf(p) = "holding" /\ InLine(p)
        /\ side(q) = s /\ stageOf(q) = "holding" /\ InLine(q)
    BY StageOf DEF lockStage
  <2>2. p \in aheadOf(q) \/ q \in aheadOf(p)
    BY <2>1 DEF NodeInv, InOrder
  <2>3. QED
    BY <2>1, <2>2 DEF NodeInv, InOrder
<1>2. LockLine!CommitMutex
  <2> SUFFICES ASSUME NEW s \in Sides, NEW p \in Procs, NEW q \in Procs,
                      p \in LockLine!line(s), q \in LockLine!line(s),
                      lockAhead[s][p] = {}, lockAhead[s][q] = {}, p # q
               PROVE  FALSE
    BY DEF LockLine!CommitMutex, LockLine!HoldsCommit, LockLine!line
  <2>1. side(p) = s /\ InLine(p) /\ side(q) = s /\ InLine(q)
    BY LineIs DEF lineOf
  <2>2. aheadOf(p) = {} /\ aheadOf(q) = {}
    BY <2>1 DEF lockAhead
  <2>3. QED
    BY <2>1, <2>2 DEF NodeInv, InOrder
<1>3. QED
  BY <1>1, <1>2

(* One thread of a side at a time holds the reserve lock, and one the      *)
(* commit lock: the indices are stored without CAS by one thread each.     *)
THEOREM LocksExcludeAlways ==
  ASSUME CancelWaits PROVE Spec => [](LockLine!ReserveMutex /\ LockLine!CommitMutex)
BY NodeInvHolds, LocksExclude, PTL

(* The RCLock of the code is the two locks of RCLockSpec, for any number   *)
(* of threads: the swap of RCLock enters the line, consuming the flag of   *)
(* the node before takes the reserve lock, and a node leaves with the swap *)
(* that empties the list or when it passes the commit lock on.             *)
THEOREM RCLockImplemented == ASSUME CancelWaits PROVE Spec => ImplementsRCLock
<1>1. Init => LockLine!LockInit
  <2> SUFFICES ASSUME Init PROVE LockLine!LockInit
    OBVIOUS
  <2>1. \A p \in Procs : stageOf(p) = "out" /\ ~InLine(p)
    BY DEF Init, stageOf, InLine
  <2>2. QED
    BY <2>1 DEF LockLine!LockInit, lockStage, lockAhead
<1>2. TypeOK /\ TypeOK' /\ NodeInv /\ [Next]_vars => [LockLine!LockNext]_(LockLine!lockVars)
  <2> SUFFICES ASSUME TypeOK, TypeOK', NodeInv, [Next]_vars
               PROVE  [LockLine!LockNext]_(LockLine!lockVars)
    OBVIOUS
  <2>1. LineMoves
    BY NodeStep
  <2>2. CASE Stays
    <3>1. lockAhead' = lockAhead
      BY <2>2, AheadMaps DEF Stays
    <3>2. lockStage' = lockStage
      BY <2>2 DEF Stays, lockStage, side
    <3>3. QED
      BY <3>1, <3>2 DEF LockLine!lockVars
  <2>3. ASSUME NEW p \in Procs, Joins(p) \/ Passes(p) \/ Leaves(p)
        PROVE  LockLine!LockNext
    BY <2>3, JoinMaps, PassMaps, LeaveMaps, Numbers DEF LockLine!LockNext
  <2>4. QED
    BY <2>1, <2>2, <2>3 DEF LineMoves
<1>3. QED
  BY <1>1, <1>2, NodeInvHolds, PTL DEF Spec, ImplementsRCLock, LockLine!LockSpec

-----------------------------------------------------------------------------
(* The indices                                                             *)

(* The committed and the reserved index of a side, and the first slot of a *)
(* window and the one behind it, in distances from the committed index.    *)
lo(s) == IF s = "push" THEN Tail ELSE Head
hi(s) == IF s = "push" THEN ReservedTail ELSE ReservedHead
end(p) == Dist(lo(side(p)), NewIndex[p])
first(p) == end(p) - num[p]

Windows(s) == { p \in Procs : side(p) = s /\ HasWindow(p) }

(* The windows of a side fill the space between its two indices, in the    *)
(* order of the line.                                                      *)
Tiled(s) ==
  /\ \A p \in Windows(s) :
       /\ 0 <= first(p) /\ end(p) <= Dist(lo(s), hi(s))
       /\ \A q \in Windows(s) : q \in aheadOf(p) => end(q) <= first(p)
       /\ first(p) = 0 \/ \E q \in Windows(s) : q \in aheadOf(p) /\ end(q) = first(p)
  /\ Dist(lo(s), hi(s)) = 0 \/ \E p \in Windows(s) : end(p) = Dist(lo(s), hi(s))

(* A call asks for what its caller may ask for.                            *)
Requested ==
  \A p \in Procs : pc[p] # "idle" =>
    /\ p \in Pushers => num[p] \in PushNums
    /\ p \in Poppers => <<peek[p], num[p]>> \in PopRequests

QueueInv == RingOrder /\ Requested /\ \A s \in Sides : Tiled(s)

(* What a step may do with the windows.                                    *)
Opens(p) ==
  /\ Stays /\ stageOf(p) = "holding"
  /\ ~HasWindow(p) /\ HasWindow(p)' /\ num'[p] = num[p]
  /\ \A q \in Procs \ {p} : /\ HasWindow(q)' <=> HasWindow(q)
                            /\ NewIndex'[q] = NewIndex[q] /\ num'[q] = num[q]

Closes(p) ==
  /\ Stays /\ InLine(p) /\ aheadOf(p) = {}
  /\ HasWindow(p) /\ ~HasWindow(p)'
  /\ \A q \in Procs \ {p} : HasWindow(q)' <=> HasWindow(q)
  /\ UNCHANGED <<NewIndex, num>>

SameWindows ==
  /\ UNCHANGED indices
  /\ \A q \in Procs : /\ HasWindow(q)' <=> HasWindow(q)
                      /\ HasWindow(q) => NewIndex'[q] = NewIndex[q] /\ num'[q] = num[q]

PushReserved(p) ==
  /\ p \in Pushers /\ Opens(p) /\ UNCHANGED <<Head, ReservedHead, Tail>>
  /\ NewIndex'[p] = ReservedTail'
  /\ Dist(Head, ReservedHead) + Dist(ReservedHead, Tail) + Dist(Tail, ReservedTail)
       + num[p] < NumElm
  /\ Dist(Tail, ReservedTail)' = Dist(Tail, ReservedTail) + num[p]

PopReserved(p) ==
  /\ p \in Poppers /\ Opens(p) /\ UNCHANGED <<Head, Tail, ReservedTail>>
  /\ NewIndex'[p] = ReservedHead'
  /\ Dist(ReservedHead, Tail) >= peek[p]
  /\ Dist(Head, ReservedHead)' = Dist(Head, ReservedHead) + num[p]
  /\ Dist(ReservedHead, Tail)' = Dist(ReservedHead, Tail) - num[p]

PushCommitted(p) ==
  /\ p \in Pushers /\ Closes(p) /\ UNCHANGED <<Head, ReservedHead, ReservedTail>>
  /\ first(p) = 0 /\ Tail' = NewIndex[p]
  /\ Dist(ReservedHead, Tail)' = Dist(ReservedHead, Tail) + num[p]
  /\ Dist(Tail, ReservedTail)' = Dist(Tail, ReservedTail) - num[p]
  /\ \A q \in Windows("push") \ {p} : end(q)' = end(q) - num[p]

PopCommitted(p) ==
  /\ p \in Poppers /\ Closes(p) /\ UNCHANGED <<Tail, ReservedHead, ReservedTail>>
  /\ first(p) = 0 /\ Head' = NewIndex[p]
  /\ Dist(Head, ReservedHead)' = Dist(Head, ReservedHead) - num[p]
  /\ \A q \in Windows("pop") \ {p} : end(q)' = end(q) - num[p]

Effect ==
  \/ SameWindows
  \/ \E p \in Procs :
       PushReserved(p) \/ PopReserved(p) \/ PushCommitted(p) \/ PopCommitted(p)

-----------------------------------------------------------------------------
(* The windows of a side                                                   *)

(* Distances and sizes of windows are numbers.                             *)
LEMMA WindowType ==
  ASSUME TypeOK
  PROVE  /\ \A s \in Sides : Dist(lo(s), hi(s)) \in 0 .. NumElm - 1
         /\ \A p \in Procs : /\ end(p) \in 0 .. NumElm - 1 /\ num[p] \in 1 .. NumElm - 1
                             /\ first(p) \in Int /\ end(p) = first(p) + num[p]
         /\ Dist(Head, ReservedHead) \in 0 .. NumElm - 1
         /\ Dist(ReservedHead, Tail) \in 0 .. NumElm - 1
         /\ Dist(Tail, ReservedTail) \in 0 .. NumElm - 1
<1>1. NumElm \in Nat /\ {Head, ReservedHead, Tail, ReservedTail} \subseteq 0 .. NumElm - 1
      /\ \A p \in Procs : NewIndex[p] \in 0 .. NumElm - 1 /\ num[p] \in 1 .. NumElm - 1
  BY Numbers DEF TypeOK
<1>2. \A s \in Sides : lo(s) \in 0 .. NumElm - 1 /\ hi(s) \in 0 .. NumElm - 1
  BY <1>1 DEF lo, hi
<1>3. \A p \in Procs : end(p) \in 0 .. NumElm - 1
  BY <1>1, <1>2, DistType, Numbers DEF end, Dist
<1>4. \A p \in Procs : first(p) \in Int /\ end(p) = first(p) + num[p]
  <2> SUFFICES ASSUME NEW p \in Procs
               PROVE  first(p) \in Int /\ end(p) = first(p) + num[p]
    OBVIOUS
  <2>1. end(p) \in Int /\ num[p] \in Int
    BY <1>1, <1>3
  <2>2. QED
    BY <2>1 DEF first
<1>5. \A s \in Sides : Dist(lo(s), hi(s)) \in 0 .. NumElm - 1
  BY <1>1, <1>2, DistType DEF Dist
<1>6. /\ Dist(Head, ReservedHead) \in 0 .. NumElm - 1
      /\ Dist(ReservedHead, Tail) \in 0 .. NumElm - 1
      /\ Dist(Tail, ReservedTail) \in 0 .. NumElm - 1
  BY <1>1, DistType DEF Dist
<1>7. QED
  BY <1>1, <1>3, <1>4, <1>5, <1>6

(* Whoever holds the reserve lock is behind all windows of its side.       *)
LEMMA HolderIsLast ==
  ASSUME NodeInv, NEW p \in Procs, stageOf(p) = "holding",
         NEW q \in Windows(side(p)), q # p
  PROVE  q \in aheadOf(p) /\ p \notin aheadOf(q)
<1>1. /\ q \in Procs /\ side(q) = side(p) /\ InLine(q) /\ stageOf(q) # "waiting" /\ InLine(p)
  BY StageOf DEF Windows, HasWindow, InLine, stageOf
<1>2. p \notin aheadOf(q)
  BY <1>1 DEF NodeInv, InOrder
<1>3. QED
  BY <1>1, <1>2 DEF NodeInv, InOrder

(* The first of a side is before all other windows of the side.            *)
LEMMA FirstIsAhead ==
  ASSUME NodeInv, NEW p \in Procs, InLine(p), aheadOf(p) = {},
         NEW q \in Windows(side(p)), q # p
  PROVE  p \in aheadOf(q)
<1>1. q \in Procs /\ side(q) = side(p) /\ InLine(q)
  BY DEF Windows, HasWindow, InLine
<1>2. QED
  BY <1>1 DEF NodeInv, InOrder

(* A move in the line leaves windows as they are to each other.            *)
LEMMA AheadAmong ==
  ASSUME LineMoves, NEW p \in Procs, NEW q \in Procs,
         HasWindow(p), HasWindow(p)', HasWindow(q), HasWindow(q)'
  PROVE  q \in aheadOf(p)' <=> q \in aheadOf(p)
<1>1. /\ stageOf(p) # "out" /\ stageOf(p)' # "out" /\ stageOf(q) # "out" /\ stageOf(q)' # "out"
  BY DEF HasWindow, InLine, stageOf
<1>2. QED
  BY <1>1 DEF LineMoves, Stays, Joins, Passes, Leaves

(* The windows of a side stay where they are.                              *)
LEMMA TilesRest ==
  ASSUME NEW s \in Sides, Tiled(s), LineMoves,
         lo(s)' = lo(s), hi(s)' = hi(s),
         \A q \in Procs : side(q) = s => /\ HasWindow(q)' <=> HasWindow(q)
                                         /\ HasWindow(q) => /\ NewIndex'[q] = NewIndex[q]
                                                            /\ num'[q] = num[q]
  PROVE  Tiled(s)'
<1>1. Windows(s)' = Windows(s)
  BY DEF Windows, side
<1>2. \A p \in Windows(s) : end(p)' = end(p) /\ first(p)' = first(p)
  BY DEF Windows, end, first, Dist, side
<1>3. \A p, q \in Windows(s) : q \in aheadOf(p)' <=> q \in aheadOf(p)
  BY <1>1, AheadAmong DEF Windows
<1>4. Dist(lo(s), hi(s))' = Dist(lo(s), hi(s))
  BY DEF Dist
<1>5. QED
  BY <1>1, <1>2, <1>3, <1>4 DEF Tiled

(* A new window behind all others of its side.                             *)
LEMMA TilesGrow ==
  ASSUME TypeOK, NodeInv, NEW p \in Procs, Tiled(side(p)), Opens(p),
         lo(side(p))' = lo(side(p)), NewIndex'[p] = hi(side(p))',
         Dist(lo(side(p)), hi(side(p)))' = Dist(lo(side(p)), hi(side(p))) + num[p]
  PROVE  Tiled(side(p))'
<1> DEFINE s == side(p)
<1>0. s \in Sides /\ p \notin Windows(s) /\ num[p] \in Nat
      /\ Dist(lo(s), hi(s)) \in Nat
  BY Numbers, WindowType DEF Opens, Windows, TypeOK
<1>1. Windows(s)' = Windows(s) \cup {p}
  BY DEF Windows, Opens, side
<1>2. \A q \in Windows(s) : /\ end(q)' = end(q) /\ first(q)' = first(q)
                            /\ end(q) \in Int /\ first(q) \in Int
  BY <1>0, WindowType DEF Windows, Opens, end, first, Dist, side
<1>3. end(p)' = Dist(lo(s), hi(s)) + num[p] /\ first(p)' = Dist(lo(s), hi(s))
  BY <1>0 DEF end, first, Dist, side, Opens
<1>4. \A x \in Procs : aheadOf(x)' = aheadOf(x)
  BY DEF Opens, Stays
<1>5. \A q \in Windows(s) : q \in aheadOf(p) /\ p \notin aheadOf(q)
  BY <1>0, HolderIsLast DEF Opens, Windows
<1>6. p \notin aheadOf(p)
  BY StageOf DEF NodeInv, InOrder, Opens
<1>7. \A q \in Windows(s) : q \in Procs
  BY DEF Windows
<1>8. ASSUME NEW q \in Windows(s)
      PROVE  /\ 0 <= first(q)' /\ end(q)' <= Dist(lo(s), hi(s))'
             /\ \A r \in Windows(s)' : r \in aheadOf(q)' => end(r)' <= first(q)'
             /\ first(q)' = 0 \/ \E r \in Windows(s)' : r \in aheadOf(q)' /\ end(r)' = first(q)'
  BY <1>0, <1>1, <1>2, <1>4, <1>5, <1>7, <1>8 DEF Tiled
<1>9. /\ 0 <= first(p)' /\ end(p)' <= Dist(lo(s), hi(s))'
      /\ \A r \in Windows(s)' : r \in aheadOf(p)' => end(r)' <= first(p)'
      /\ first(p)' = 0 \/ \E r \in Windows(s)' : r \in aheadOf(p)' /\ end(r)' = first(p)'
  BY <1>0, <1>1, <1>2, <1>3, <1>4, <1>5, <1>6 DEF Tiled
<1>10. \E q \in Windows(s)' : end(q)' = Dist(lo(s), hi(s))'
  BY <1>1, <1>3
<1>11. QED
  BY <1>1, <1>8, <1>9, <1>10 DEF Tiled, side

(* The first window of a side is committed; the others move up.            *)
LEMMA TilesShrink ==
  ASSUME TypeOK, NodeInv, NEW p \in Procs, Tiled(side(p)), Closes(p), first(p) = 0,
         Dist(lo(side(p)), hi(side(p)))' = Dist(lo(side(p)), hi(side(p))) - num[p],
         \A q \in Windows(side(p)) \ {p} : end(q)' = end(q) - num[p]
  PROVE  Tiled(side(p))'
<1> DEFINE s == side(p)
<1>0. /\ s \in Sides /\ p \in Windows(s) /\ num[p] \in Nat /\ num[p] > 0
      /\ Dist(lo(s), hi(s)) \in Nat /\ end(p) = num[p]
  BY Numbers, WindowType DEF Closes, Windows, TypeOK
<1>1. Windows(s)' = Windows(s) \ {p}
  BY DEF Windows, Closes, side
<1>2. \A q \in Windows(s) : end(q) \in Int /\ first(q) \in Int /\ q \in Procs
  BY WindowType DEF Windows
<1>3. \A q \in Windows(s) \ {p} : end(q)' = end(q) - num[p] /\ first(q)' = first(q) - num[p]
  BY <1>0, <1>2, WindowType DEF first, Closes, TypeOK
<1>4. \A q \in Procs : aheadOf(q)' = aheadOf(q)
  BY DEF Closes, Stays
<1>5. \A q \in Windows(s) \ {p} : p \in aheadOf(q)
  BY FirstIsAhead DEF Closes
<1>6. ASSUME NEW q \in Windows(s) \ {p}
      PROVE  /\ 0 <= first(q)' /\ end(q)' <= Dist(lo(s), hi(s))'
             /\ \A r \in Windows(s)' : r \in aheadOf(q)' => end(r)' <= first(q)'
             /\ first(q)' = 0 \/ \E r \in Windows(s)' : r \in aheadOf(q)' /\ end(r)' = first(q)'
  <2>1. num[p] <= first(q) /\ end(q) <= Dist(lo(s), hi(s))
    BY <1>0, <1>5, <1>6 DEF Tiled
  <2>2. \A r \in Windows(s) : r \in aheadOf(q) => end(r) <= first(q)
    BY <1>6 DEF Tiled
  <2>3. PICK r \in Windows(s) : r \in aheadOf(q) /\ end(r) = first(q)
    BY <1>0, <1>6, <2>1 DEF Tiled
  <2>4. first(q)' = 0 \/ \E t \in Windows(s)' : t \in aheadOf(q)' /\ end(t)' = first(q)'
    <3>1. CASE r = p
      BY <1>0, <1>3, <1>6, <2>3, <3>1
    <3>2. CASE r # p
      BY <1>1, <1>2, <1>3, <1>4, <1>6, <2>3, <3>2
    <3>3. QED
      BY <3>1, <3>2
  <2>5. QED
    BY <1>0, <1>1, <1>2, <1>3, <1>4, <1>6, <2>1, <2>2, <2>4
<1>7. Dist(lo(s), hi(s))' = 0 \/ \E q \in Windows(s)' : end(q)' = Dist(lo(s), hi(s))'
  <2>1. end(p) <= Dist(lo(s), hi(s))
    BY <1>0 DEF Tiled
  <2>2. PICK r \in Windows(s) : end(r) = Dist(lo(s), hi(s))
    BY <1>0, <2>1 DEF Tiled
  <2>3. CASE r = p
    BY <1>0, <2>2, <2>3
  <2>4. CASE r # p
    BY <1>1, <1>3, <2>2, <2>4
  <2>5. QED
    BY <2>3, <2>4
<1>8. QED
  BY <1>1, <1>6, <1>7 DEF Tiled, side

-----------------------------------------------------------------------------
(* What the steps do with the windows                                      *)

(* A granted push ends its window at the new ReservedTail.                 *)
LEMMA ReservePushEffect ==
  ASSUME CancelWaits, TypeOK, NodeInv, QueueInv, NEW p \in Pushers, reservePush(p)
  PROVE  SameWindows \/ PushReserved(p)
<1>0. p \in Procs /\ Stays
  BY Numbers, QuietSteps
<1>1. CASE goto(p, "locked", "cancel") /\ UNCHANGED <<indices, request>>
  <2>1. \A q \in Procs : HasWindow(q)' <=> HasWindow(q)
    BY <1>0, <1>1, Goes DEF HasWindow
  <2>2. QED
    BY <1>1, <2>1 DEF SameWindows, request
<1>2. CASE /\ haveEnoughRoom(NumElm, ReservedTail, Head, num[p])
           /\ goto(p, "locked", "unlock")
           /\ ReservedTail' = advance(NumElm, ReservedTail, num[p])
           /\ NewIndex' = [NewIndex EXCEPT ![p] = ReservedTail']
           /\ UNCHANGED <<Head, ReservedHead, Tail, num>>
  <2>1. /\ NumElm \in Nat /\ {Head, ReservedHead, Tail, ReservedTail} \subseteq 0 .. NumElm - 1
        /\ num[p] \in 1 .. NumElm - 1 /\ num[p] \in 0 .. NumElm - 1 /\ num[p] \in Nat \ {0}
        /\ NewIndex \in [Procs -> 0 .. NumElm - 1]
    BY <1>0, Numbers DEF TypeOK
  <2>2. /\ Dist(Head, ReservedHead) \in Nat /\ Dist(ReservedHead, Tail) \in Nat
        /\ Dist(Tail, ReservedTail) \in Nat
        /\ Dist(Head, ReservedHead) + Dist(ReservedHead, Tail) + Dist(Tail, ReservedTail) < NumElm
    BY <2>1, WindowType DEF QueueInv, RingOrder
  <2>3. Dist(Head, Tail) = Dist(Head, ReservedHead) + Dist(ReservedHead, Tail)
    BY <2>1, <2>2, DistAdd DEF Dist
  <2>4. Dist(Head, ReservedTail) = Dist(Head, Tail) + Dist(Tail, ReservedTail)
    BY <2>1, <2>2, <2>3, DistAdd DEF Dist
  <2>5. Dist(Head, ReservedTail) + num[p] < NumElm
    BY <1>2, <2>1, RoomIsDistance DEF Dist
  <2>6. Dist(Tail, ReservedTail) + num[p] < NumElm
    BY <2>1, <2>2, <2>3, <2>4, <2>5
  <2>7. Dist(Tail, ReservedTail)' = Dist(Tail, ReservedTail) + num[p]
    BY <1>2, <2>1, <2>6, DistGrow DEF Dist
  <2>8. Opens(p)
    <3>1. /\ pc[p] = "locked" /\ pc'[p] = "unlock" /\ \A q \in Procs \ {p} : pc'[q] = pc[q]
      BY <1>0, <1>2, Goes
    <3>2. stageOf(p) = "holding"
      BY <3>1 DEF stageOf, InLine
    <3>3. QED
      BY <1>0, <1>2, <2>1, <3>1, <3>2 DEF Opens, HasWindow
  <2>9. Dist(Head, ReservedHead) + Dist(ReservedHead, Tail) + Dist(Tail, ReservedTail)
          + num[p] < NumElm
    BY <2>1, <2>2, <2>3, <2>4, <2>5
  <2>10. NewIndex'[p] = ReservedTail'
    BY <1>0, <1>2, <2>1
  <2>11. QED
    BY <1>2, <2>7, <2>8, <2>9, <2>10 DEF PushReserved
<1>3. QED
  BY <1>1, <1>2 DEF reservePush, indices, request

(* A granted pop ends its window at the new ReservedHead.                  *)
LEMMA ReservePopEffect ==
  ASSUME CancelWaits, TypeOK, NodeInv, QueueInv, NEW p \in Poppers, reservePeekPop(p)
  PROVE  SameWindows \/ PopReserved(p)
<1>0. p \in Procs /\ Stays
  BY Numbers, QuietSteps
<1>1. CASE goto(p, "locked", "cancel") /\ UNCHANGED <<indices, request>>
  <2>1. \A q \in Procs : HasWindow(q)' <=> HasWindow(q)
    BY <1>0, <1>1, Goes DEF HasWindow
  <2>2. QED
    BY <1>1, <2>1 DEF SameWindows, request
<1>2. CASE /\ haveEnoughData(NumElm, ReservedHead, Tail, peek[p])
           /\ goto(p, "locked", "unlock")
           /\ ReservedHead' = advance(NumElm, ReservedHead, num[p])
           /\ NewIndex' = [NewIndex EXCEPT ![p] = ReservedHead']
           /\ UNCHANGED <<Head, Tail, ReservedTail, num>>
  <2>0. /\ pc[p] = "locked" /\ pc'[p] = "unlock" /\ \A q \in Procs \ {p} : pc'[q] = pc[q]
    BY <1>0, <1>2, Goes
  <2>1. /\ NumElm \in Nat /\ {Head, ReservedHead, Tail, ReservedTail} \subseteq 0 .. NumElm - 1
        /\ num[p] \in 1 .. NumElm - 1 /\ num[p] \in 0 .. NumElm - 1
        /\ peek[p] \in 1 .. NumElm - 1 /\ peek[p] \in Nat \ {0}
        /\ NewIndex \in [Procs -> 0 .. NumElm - 1]
    BY <1>0, Numbers DEF TypeOK
  <2>2. num[p] <= peek[p]
    <3>1. <<peek[p], num[p]>> \in PopRequests
      BY <1>0, <2>0 DEF QueueInv, Requested
    <3>2. num[p] \in 1 .. peek[p]
      BY <3>1, RingAssumption
    <3>3. QED
      BY <2>1, <3>2
  <2>3. /\ Dist(Head, ReservedHead) \in Nat /\ Dist(ReservedHead, Tail) \in Nat
        /\ Dist(Tail, ReservedTail) \in Nat
        /\ Dist(Head, ReservedHead) + Dist(ReservedHead, Tail) + Dist(Tail, ReservedTail) < NumElm
    BY <2>1, WindowType DEF QueueInv, RingOrder
  <2>4. Dist(ReservedHead, Tail) >= peek[p]
    BY <1>2, <2>1, DataIsDistance DEF Dist
  <2>5. num[p] <= Dist(ReservedHead, Tail) /\ Dist(Head, ReservedHead) + num[p] < NumElm
    BY <2>1, <2>2, <2>3, <2>4
  <2>6. Dist(ReservedHead, Tail)' = Dist(ReservedHead, Tail) - num[p]
    BY <1>2, <2>1, <2>5, DistShrink DEF Dist
  <2>7. Dist(Head, ReservedHead)' = Dist(Head, ReservedHead) + num[p]
    BY <1>2, <2>1, <2>5, DistGrow DEF Dist
  <2>8. Opens(p)
    <3>1. stageOf(p) = "holding"
      BY <2>0 DEF stageOf, InLine
    <3>2. QED
      BY <1>0, <1>2, <2>0, <2>1, <3>1 DEF Opens, HasWindow
  <2>9. NewIndex'[p] = ReservedHead'
    BY <1>0, <1>2, <2>1
  <2>10. QED
    BY <1>2, <2>4, <2>6, <2>7, <2>8, <2>9 DEF PopReserved
<1>3. QED
  BY <1>1, <1>2 DEF reservePeekPop, indices, request

(* Who commits is the first of its line, so its window is the first too.   *)
LEMMA CommitsFirst ==
  ASSUME CancelWaits, TypeOK, NodeInv, QueueInv, NEW p \in Procs,
         commitPush(p) \/ commitPeekPop(p)
  PROVE  /\ Closes(p) /\ p \in Windows(side(p)) /\ first(p) = 0 /\ end(p) = num[p]
         /\ \A q \in Windows(side(p)) : num[p] <= end(q)
<1>1. /\ pc[p] = "commit" /\ pc'[p] = "leave" /\ \A q \in Procs \ {p} : pc'[q] = pc[q]
      /\ UNCHANGED <<NewIndex, num>>
  BY Goes DEF commitPush, commitPeekPop, request
<1>2. InLine(p) /\ aheadOf(p) = {}
  <2>1. InLine(p) /\ before[p] = {}
    BY <1>1 DEF InLine, NodeInv, Flags
  <2>2. QED
    BY <2>1, BeforeType, ClosureOfFirst DEF aheadOf
<1>3. Closes(p) /\ p \in Windows(side(p))
  <2>1. Stays
    BY QuietSteps
  <2>2. QED
    BY <1>1, <1>2, <2>1 DEF Closes, HasWindow, Windows
<1>4. Tiled(side(p))
  BY Numbers DEF QueueInv
<1>5. first(p) = 0
  BY <1>2, <1>3, <1>4 DEF Tiled
<1>6. end(p) = num[p] /\ num[p] \in Int
  BY <1>5, WindowType DEF TypeOK
<1>7. ASSUME NEW q \in Windows(side(p)) PROVE num[p] <= end(q)
  <2>1. CASE q = p
    BY <1>6, <2>1
  <2>2. CASE q # p
    <3>1. p \in aheadOf(q)
      BY <1>2, <2>2, FirstIsAhead
    <3>2. end(p) <= first(q)
      BY <1>3, <1>4, <3>1 DEF Tiled
    <3>3. q \in Procs
      BY DEF Windows
    <3>4. QED
      BY <1>6, <3>2, <3>3, WindowType
  <2>3. QED
    BY <2>1, <2>2
<1>8. QED
  BY <1>3, <1>5, <1>6, <1>7

(* A committed push moves Tail to the end of its window.                   *)
LEMMA CommitPushEffect ==
  ASSUME CancelWaits, TypeOK, NodeInv, QueueInv, NEW p \in Pushers, commitPush(p)
  PROVE  PushCommitted(p)
<1>0. p \in Procs /\ side(p) = "push" /\ "push" \in Sides
      /\ lo("push") = Tail /\ hi("push") = ReservedTail
  BY Numbers DEF Sides, lo, hi
<1>1. /\ Closes(p) /\ p \in Windows("push") /\ first(p) = 0 /\ end(p) = num[p]
      /\ \A q \in Windows("push") : num[p] <= end(q)
  BY <1>0, CommitsFirst
<1>2. /\ Tail' = NewIndex[p] /\ NewIndex' = NewIndex
      /\ UNCHANGED <<Head, ReservedHead, ReservedTail>>
  BY DEF commitPush, request
<1>3. /\ NumElm \in Nat /\ {Head, ReservedHead, Tail, ReservedTail} \subseteq 0 .. NumElm - 1
      /\ num[p] \in Nat /\ \A q \in Procs : NewIndex[q] \in 0 .. NumElm - 1
  BY <1>0, Numbers DEF TypeOK
<1>4. /\ Dist(Head, ReservedHead) \in Nat /\ Dist(ReservedHead, Tail) \in Nat
      /\ Dist(Tail, ReservedTail) \in Nat
      /\ Dist(Head, ReservedHead) + Dist(ReservedHead, Tail) + Dist(Tail, ReservedTail) < NumElm
  BY <1>3, WindowType DEF QueueInv, RingOrder
<1>5. Dist(Tail, NewIndex[p]) = num[p] /\ num[p] <= Dist(Tail, ReservedTail)
  BY <1>0, <1>1 DEF QueueInv, Tiled, end
<1>6. Dist(ReservedHead, NewIndex[p]) = Dist(ReservedHead, Tail) + num[p]
  <2>1. Dist(ReservedHead, Tail) + Dist(Tail, NewIndex[p]) < NumElm
    BY <1>3, <1>4, <1>5
  <2>2. QED
    BY <1>0, <1>3, <1>5, <2>1, DistAdd DEF Dist
<1>7. Dist(NewIndex[p], ReservedTail) = Dist(Tail, ReservedTail) - num[p]
  BY <1>0, <1>3, <1>5, DistBetween DEF Dist
<1>8. ASSUME NEW q \in Windows("push") PROVE end(q)' = end(q) - num[p]
  <2>1. q \in Procs /\ end(q) = Dist(Tail, NewIndex[q]) /\ num[p] <= end(q)
    BY <1>0, <1>1 DEF Windows, end
  <2>2. Dist(NewIndex[p], NewIndex[q]) = end(q) - num[p]
    BY <1>0, <1>3, <1>5, <2>1, DistBetween DEF Dist
  <2>3. end(q)' = Dist(NewIndex[p], NewIndex[q])
    BY <1>2, Numbers DEF end, Dist, lo, side, Windows
  <2>4. QED
    BY <2>2, <2>3
<1>9. QED
  BY <1>1, <1>2, <1>6, <1>7, <1>8 DEF PushCommitted, Dist

(* A committed pop moves Head to the end of its window.                    *)
LEMMA CommitPopEffect ==
  ASSUME CancelWaits, TypeOK, NodeInv, QueueInv, NEW p \in Poppers, commitPeekPop(p)
  PROVE  PopCommitted(p)
<1>0. p \in Procs /\ side(p) = "pop" /\ "pop" \in Sides
      /\ lo("pop") = Head /\ hi("pop") = ReservedHead
  BY Numbers DEF Sides, lo, hi
<1>1. /\ Closes(p) /\ p \in Windows("pop") /\ first(p) = 0 /\ end(p) = num[p]
      /\ \A q \in Windows("pop") : num[p] <= end(q)
  BY <1>0, CommitsFirst
<1>2. /\ Head' = NewIndex[p] /\ NewIndex' = NewIndex
      /\ UNCHANGED <<Tail, ReservedHead, ReservedTail>>
  BY DEF commitPeekPop, request
<1>3. /\ NumElm \in Nat /\ {Head, ReservedHead, Tail, ReservedTail} \subseteq 0 .. NumElm - 1
      /\ num[p] \in Nat /\ \A q \in Procs : NewIndex[q] \in 0 .. NumElm - 1
  BY <1>0, Numbers DEF TypeOK
<1>4. Dist(Head, NewIndex[p]) = num[p] /\ num[p] <= Dist(Head, ReservedHead)
  BY <1>0, <1>1 DEF QueueInv, Tiled, end
<1>5. Dist(NewIndex[p], ReservedHead) = Dist(Head, ReservedHead) - num[p]
  BY <1>0, <1>3, <1>4, DistBetween DEF Dist
<1>6. ASSUME NEW q \in Windows("pop") PROVE end(q)' = end(q) - num[p]
  <2>1. q \in Procs /\ end(q) = Dist(Head, NewIndex[q]) /\ num[p] <= end(q)
    BY <1>0, <1>1 DEF Windows, end
  <2>2. Dist(NewIndex[p], NewIndex[q]) = end(q) - num[p]
    BY <1>0, <1>3, <1>4, <2>1, DistBetween DEF Dist
  <2>3. end(q)' = Dist(NewIndex[p], NewIndex[q])
    BY <1>2, Numbers DEF end, Dist, lo, side, Windows
  <2>4. QED
    BY <2>2, <2>3
<1>7. QED
  BY <1>1, <1>2, <1>5, <1>6 DEF PopCommitted, Dist

(* All other steps leave indices and windows alone.                        *)
LEMMA OtherEffect ==
  ASSUME TypeOK, NodeInv, NEW p \in Procs,
         lockStep(p) \/ precheckPush(p) \/ precheckPeekPop(p)
  PROVE  SameWindows
<1>1. ASSUME NEW from, NEW to, goto(p, from, to), UNCHANGED indices,
             from \in {"unlock", "reserved", "commit"} <=> to \in {"unlock", "reserved", "commit"},
             \/ UNCHANGED <<NewIndex, num>>
             \/ /\ from \notin {"unlock", "reserved", "commit"}
                /\ \A q \in Procs \ {p} : NewIndex'[q] = NewIndex[q] /\ num'[q] = num[q]
      PROVE  SameWindows
  <2>1. /\ pc[p] = from /\ pc'[p] = to /\ \A q \in Procs \ {p} : pc'[q] = pc[q]
    BY <1>1, Goes
  <2>2. QED
    BY <1>1, <2>1 DEF SameWindows, HasWindow
<1>2. forgetRequest(p) => \A q \in Procs \ {p} : NewIndex'[q] = NewIndex[q] /\ num'[q] = num[q]
  BY DEF forgetRequest, TypeOK
<1>3. CASE acquireReserveLock(p)
  BY <1>1, <1>3 DEF acquireReserveLock, request
<1>4. CASE linkBehind(p) \/ consumeReserveLock(p)
  BY <1>1, <1>4 DEF linkBehind, consumeReserveLock, request
<1>5. CASE releaseReserveLock(p) \/ cancelReserveLock(p)
  BY <1>1, <1>5 DEF releaseReserveLock, cancelReserveLock, request
<1>6. CASE acquireCommitLock(p)
  BY <1>1, <1>6 DEF acquireCommitLock, request
<1>7. CASE leaveOrSwap(p) \/ handOff(p)
  BY <1>1, <1>7 DEF leaveOrSwap, handOff, request
<1>8. CASE swapOut(p)
  BY <1>1, <1>2, <1>8 DEF swapOut, request
<1>9. CASE awaitConsumed(p)
  BY <1>1, <1>2, <1>9 DEF awaitConsumed
<1>10. CASE precheckPush(p) \/ precheckPeekPop(p)
  <2>1. goto(p, "idle", "acquire") /\ UNCHANGED <<indices, NewIndex>>
    BY <1>10 DEF precheckPush, precheckPeekPop
  <2>2. \A q \in Procs \ {p} : num'[q] = num[q]
    BY <1>10 DEF precheckPush, precheckPeekPop, TypeOK
  <2>3. QED
    BY <1>1, <2>1, <2>2
<1>11. QED
  BY <1>3, <1>4, <1>5, <1>6, <1>7, <1>8, <1>9, <1>10 DEF lockStep, releaseCommitLock

LEMMA EffectIs ==
  ASSUME CancelWaits, TypeOK, NodeInv, QueueInv, [Next]_vars
  PROVE  Effect
<1>1. CASE UNCHANGED vars
  BY <1>1 DEF Effect, SameWindows, HasWindow, vars, request
<1>2. ASSUME NEW p \in Procs, step(p) PROVE Effect
  BY <1>2, Numbers, ReservePushEffect, ReservePopEffect, CommitPushEffect, CommitPopEffect,
     OtherEffect DEF step, Effect
<1>3. ASSUME NEW p \in Procs, precheckPush(p) \/ precheckPeekPop(p) PROVE Effect
  BY <1>3, OtherEffect DEF Effect
<1>4. QED
  BY <1>1, <1>2, <1>3, Numbers DEF Next

(* A call keeps what it has asked for until it is over.                    *)
LEMMA RequestedStep ==
  ASSUME TypeOK, Requested, [Next]_vars
  PROVE  Requested'
<1>1. ASSUME NEW p \in Procs, pc[p] # "idle" \/ pc'[p] = "idle",
             \/ num' = num /\ peek' = peek
             \/ pc'[p] = "idle" /\ \A q \in Procs \ {p} : num'[q] = num[q] /\ peek'[q] = peek[q],
             \A q \in Procs \ {p} : pc'[q] = pc[q]
      PROVE  Requested'
  BY <1>1, Numbers DEF Requested
<1>2. ASSUME NEW p \in Procs,
             \E from, to : /\ goto(p, from, to) /\ from # "idle"
                           /\ \/ num' = num /\ peek' = peek
                              \/ to = "idle" /\ forgetRequest(p)
      PROVE  Requested'
  <2>1. PICK from, to : /\ goto(p, from, to) /\ from # "idle"
                        /\ \/ num' = num /\ peek' = peek
                           \/ to = "idle" /\ forgetRequest(p)
    BY <1>2
  <2>2. /\ pc[p] = from /\ pc'[p] = to /\ \A q \in Procs \ {p} : pc'[q] = pc[q]
    BY <2>1, Goes
  <2>3. forgetRequest(p) => \A q \in Procs \ {p} : num'[q] = num[q] /\ peek'[q] = peek[q]
    BY DEF forgetRequest, TypeOK
  <2>4. QED
    BY <1>1, <2>1, <2>2, <2>3
<1>3. ASSUME NEW p \in Procs, lockStep(p) PROVE Requested'
  <2>1. \E from, to : /\ goto(p, from, to) /\ from # "idle"
                      /\ \/ num' = num /\ peek' = peek
                         \/ to = "idle" /\ forgetRequest(p)
    <3>1. CASE acquireReserveLock(p)
      BY <3>1 DEF acquireReserveLock, request
    <3>2. CASE linkBehind(p) \/ consumeReserveLock(p)
      BY <3>2 DEF linkBehind, consumeReserveLock, request
    <3>3. CASE releaseReserveLock(p) \/ cancelReserveLock(p)
      BY <3>3 DEF releaseReserveLock, cancelReserveLock, request
    <3>4. CASE acquireCommitLock(p)
      BY <3>4 DEF acquireCommitLock, request
    <3>5. CASE leaveOrSwap(p) \/ handOff(p) \/ awaitConsumed(p)
      BY <3>5 DEF leaveOrSwap, handOff, awaitConsumed, request
    <3>6. CASE swapOut(p)
      BY <3>6 DEF swapOut, request
    <3>7. QED
      BY <1>3, <3>1, <3>2, <3>3, <3>4, <3>5, <3>6 DEF lockStep, releaseCommitLock
  <2>2. QED
    BY <1>2, <2>1
<1>4. ASSUME NEW p \in Procs,
             reservePush(p) \/ commitPush(p) \/ reservePeekPop(p) \/ commitPeekPop(p)
      PROVE  Requested'
  <2>1. /\ \E to : goto(p, "locked", to) \/ goto(p, "commit", to)
        /\ num' = num /\ peek' = peek
    BY <1>4 DEF reservePush, commitPush, reservePeekPop, commitPeekPop, request
  <2>2. QED
    BY <1>2, <2>1
<1>5. ASSUME NEW p \in Pushers, precheckPush(p) PROVE Requested'
  <2>1. p \in Procs /\ p \notin Poppers /\ num'[p] \in PushNums
    BY <1>5, Numbers DEF precheckPush, TypeOK
  <2>2. \A q \in Procs \ {p} : num'[q] = num[q] /\ peek'[q] = peek[q] /\ pc'[q] = pc[q]
    BY <1>5 DEF precheckPush, TypeOK, goto
  <2>3. QED
    BY <2>1, <2>2, Numbers DEF Requested
<1>6. ASSUME NEW p \in Poppers, precheckPeekPop(p) PROVE Requested'
  <2>0. p \in Procs /\ p \notin Pushers
    BY Numbers
  <2>1. PICK r \in PopRequests : /\ num' = [num EXCEPT ![p] = r[2]]
                                 /\ peek' = [peek EXCEPT ![p] = r[1]]
    BY <1>6 DEF precheckPeekPop
  <2>2. <<peek'[p], num'[p]>> \in PopRequests
    BY <2>0, <2>1, RingAssumption DEF TypeOK
  <2>3. \A q \in Procs \ {p} : num'[q] = num[q] /\ peek'[q] = peek[q] /\ pc'[q] = pc[q]
    BY <1>6, <2>1 DEF precheckPeekPop, TypeOK, goto
  <2>4. QED
    BY <2>0, <2>2, <2>3, Numbers DEF Requested
<1>7. CASE UNCHANGED vars
  BY <1>7 DEF Requested, vars, request
<1>8. QED
  BY <1>3, <1>4, <1>5, <1>6, <1>7, Numbers DEF Next, step

(* The windows of the side that is not p's stay where they are.            *)
LEMMA OtherSide ==
  ASSUME QueueInv, LineMoves, NEW p \in Procs, Opens(p) \/ Closes(p),
         NEW s \in Sides, s # side(p), lo(s)' = lo(s), hi(s)' = hi(s)
  PROVE  Tiled(s)'
<1>1. \A q \in Procs : side(q) = s =>
        /\ HasWindow(q)' <=> HasWindow(q)
        /\ HasWindow(q) => NewIndex'[q] = NewIndex[q] /\ num'[q] = num[q]
  BY DEF Opens, Closes
<1>2. QED
  BY <1>1, TilesRest DEF QueueInv

LEMMA QueueStep ==
  ASSUME CancelWaits, TypeOK, TypeOK', NodeInv, QueueInv, [Next]_vars
  PROVE  QueueInv'
<1>0. LineMoves /\ Requested' /\ Effect
  BY NodeStep, RequestedStep, EffectIs DEF QueueInv
<1>1. /\ NumElm \in Nat
      /\ Dist(Head, ReservedHead) \in Nat /\ Dist(ReservedHead, Tail) \in Nat
      /\ Dist(Tail, ReservedTail) \in Nat /\ \A p \in Procs : num[p] \in Nat
      /\ Dist(Head, ReservedHead) + Dist(ReservedHead, Tail) + Dist(Tail, ReservedTail) < NumElm
  BY Numbers, WindowType DEF QueueInv, RingOrder, TypeOK
<1>2. CASE SameWindows
  <2>1. RingOrder'
    BY <1>2 DEF QueueInv, RingOrder, SameWindows, indices, Dist
  <2>2. ASSUME NEW s \in Sides PROVE Tiled(s)'
    <3>1. lo(s)' = lo(s) /\ hi(s)' = hi(s)
      BY <1>2 DEF SameWindows, indices, lo, hi
    <3>2. QED
      BY <1>0, <1>2, <3>1, TilesRest DEF QueueInv, SameWindows
  <2>3. QED
    BY <1>0, <2>1, <2>2 DEF QueueInv
<1>3. ASSUME NEW p \in Procs, PushReserved(p) PROVE QueueInv'
  <2>0. /\ side(p) = "push" /\ Tiled("push") /\ Opens(p)
        /\ lo("push") = Tail /\ hi("push") = ReservedTail
        /\ lo("pop") = Head /\ hi("pop") = ReservedHead
        /\ lo("push")' = Tail' /\ hi("push")' = ReservedTail'
        /\ lo("pop")' = Head' /\ hi("pop")' = ReservedHead'
    BY <1>3, Numbers DEF PushReserved, QueueInv, Sides, lo, hi
  <2>1. RingOrder'
    <3>1. Dist(Head, ReservedHead)' = Dist(Head, ReservedHead)
          /\ Dist(ReservedHead, Tail)' = Dist(ReservedHead, Tail)
      BY <1>3 DEF PushReserved, Dist
    <3>2. QED
      BY <1>1, <1>3, <3>1 DEF PushReserved, RingOrder
  <2>2. Tiled("push")'
    <3>1. Tiled(side(p))'
      <4>1. /\ lo(side(p))' = lo(side(p)) /\ NewIndex'[p] = hi(side(p))'
            /\ Dist(lo(side(p)), hi(side(p)))' = Dist(lo(side(p)), hi(side(p))) + num[p]
        BY <1>3, <2>0 DEF PushReserved, lo, hi, side, Dist
      <4>2. QED
        BY <2>0, <4>1, TilesGrow
    <3>2. QED
      BY <1>3, <3>1, Numbers DEF PushReserved, side, Tiled, Windows
  <2>3. Tiled("pop")'
    BY <1>0, <1>3, <2>0, OtherSide DEF PushReserved, Sides
  <2>4. QED
    BY <1>0, <2>1, <2>2, <2>3 DEF QueueInv, Sides
<1>4. ASSUME NEW p \in Procs, PopReserved(p) PROVE QueueInv'
  <2>0. /\ side(p) = "pop" /\ Tiled("pop") /\ Opens(p)
        /\ lo("push") = Tail /\ hi("push") = ReservedTail
        /\ lo("pop") = Head /\ hi("pop") = ReservedHead
        /\ lo("push")' = Tail' /\ hi("push")' = ReservedTail'
        /\ lo("pop")' = Head' /\ hi("pop")' = ReservedHead'
    BY <1>4, Numbers DEF PopReserved, QueueInv, Sides, lo, hi
  <2>1. RingOrder'
    <3>1. Dist(Tail, ReservedTail)' = Dist(Tail, ReservedTail)
      BY <1>4 DEF PopReserved, Dist
    <3>2. QED
      BY <1>1, <1>4, <3>1 DEF PopReserved, RingOrder
  <2>2. Tiled("pop")'
    <3>1. Tiled(side(p))'
      <4>1. /\ lo(side(p))' = lo(side(p)) /\ NewIndex'[p] = hi(side(p))'
            /\ Dist(lo(side(p)), hi(side(p)))' = Dist(lo(side(p)), hi(side(p))) + num[p]
        BY <1>4, <2>0 DEF PopReserved, lo, hi, side, Dist
      <4>2. QED
        BY <2>0, <4>1, TilesGrow
    <3>2. QED
      BY <1>4, <3>1, Numbers DEF PopReserved, side, Tiled, Windows
  <2>3. Tiled("push")'
    BY <1>0, <1>4, <2>0, OtherSide DEF PopReserved, Sides
  <2>4. QED
    BY <1>0, <2>1, <2>2, <2>3 DEF QueueInv, Sides
<1>5. ASSUME NEW p \in Procs, PushCommitted(p) PROVE QueueInv'
  <2>0. /\ side(p) = "push" /\ Tiled("push") /\ Closes(p)
        /\ lo("push") = Tail /\ hi("push") = ReservedTail
        /\ lo("pop") = Head /\ hi("pop") = ReservedHead
        /\ lo("push")' = Tail' /\ hi("push")' = ReservedTail'
        /\ lo("pop")' = Head' /\ hi("pop")' = ReservedHead'
    BY <1>5, Numbers DEF PushCommitted, QueueInv, Sides, lo, hi
  <2>1. RingOrder'
    <3>1. Dist(Head, ReservedHead)' = Dist(Head, ReservedHead)
      BY <1>5 DEF PushCommitted, Dist
    <3>2. QED
      BY <1>1, <1>5, <3>1 DEF PushCommitted, RingOrder
  <2>2. Tiled("push")'
    <3>1. Tiled(side(p))'
      <4>1. /\ first(p) = 0
            /\ Dist(lo(side(p)), hi(side(p)))' = Dist(lo(side(p)), hi(side(p))) - num[p]
            /\ \A q \in Windows(side(p)) \ {p} : end(q)' = end(q) - num[p]
        BY <1>5, <2>0 DEF PushCommitted, lo, hi, side, Dist
      <4>2. QED
        BY <2>0, <4>1, TilesShrink
    <3>2. QED
      BY <1>5, <3>1, Numbers DEF PushCommitted, side, Tiled, Windows
  <2>3. Tiled("pop")'
    BY <1>0, <1>5, <2>0, OtherSide DEF PushCommitted, Sides
  <2>4. QED
    BY <1>0, <2>1, <2>2, <2>3 DEF QueueInv, Sides
<1>6. ASSUME NEW p \in Procs, PopCommitted(p) PROVE QueueInv'
  <2>0. /\ side(p) = "pop" /\ Tiled("pop") /\ Closes(p)
        /\ lo("push") = Tail /\ hi("push") = ReservedTail
        /\ lo("pop") = Head /\ hi("pop") = ReservedHead
        /\ lo("push")' = Tail' /\ hi("push")' = ReservedTail'
        /\ lo("pop")' = Head' /\ hi("pop")' = ReservedHead'
    BY <1>6, Numbers DEF PopCommitted, QueueInv, Sides, lo, hi
  <2>1. RingOrder'
    <3>1. /\ Dist(ReservedHead, Tail)' = Dist(ReservedHead, Tail)
          /\ Dist(Tail, ReservedTail)' = Dist(Tail, ReservedTail)
      BY <1>6 DEF PopCommitted, Dist
    <3>2. QED
      BY <1>1, <1>6, <3>1 DEF PopCommitted, RingOrder
  <2>2. Tiled("pop")'
    <3>1. Tiled(side(p))'
      <4>1. /\ first(p) = 0
            /\ Dist(lo(side(p)), hi(side(p)))' = Dist(lo(side(p)), hi(side(p))) - num[p]
            /\ \A q \in Windows(side(p)) \ {p} : end(q)' = end(q) - num[p]
        BY <1>6, <2>0 DEF PopCommitted, lo, hi, side, Dist
      <4>2. QED
        BY <2>0, <4>1, TilesShrink
    <3>2. QED
      BY <1>6, <3>1, Numbers DEF PopCommitted, side, Tiled, Windows
  <2>3. Tiled("push")'
    BY <1>0, <1>6, <2>0, OtherSide DEF PopCommitted, Sides
  <2>4. QED
    BY <1>0, <2>1, <2>2, <2>3 DEF QueueInv, Sides
<1>7. QED
  BY <1>0, <1>2, <1>3, <1>4, <1>5, <1>6 DEF Effect

LEMMA QueueBegins == Init => QueueInv
<1> SUFFICES ASSUME Init PROVE QueueInv
  OBVIOUS
<1>1. /\ Dist(Head, ReservedHead) = 0 /\ Dist(ReservedHead, Tail) = 0
      /\ Dist(Tail, ReservedTail) = 0
  BY DEF Init, Dist, getNumFilledElements
<1>2. \A p \in Procs : ~HasWindow(p) /\ pc[p] = "idle"
  BY DEF Init, HasWindow
<1>3. RingOrder
  BY <1>1, Numbers DEF RingOrder
<1>4. ASSUME NEW s \in Sides PROVE Tiled(s)
  <2>1. Windows(s) = {} /\ Dist(lo(s), hi(s)) = 0
    BY <1>1, <1>2, <1>4 DEF Windows, lo, hi, Sides
  <2>2. QED
    BY <2>1 DEF Tiled
<1>5. QED
  BY <1>2, <1>3, <1>4 DEF QueueInv, Requested

LEMMA QueueInvHolds == ASSUME CancelWaits PROVE Spec => [](TypeOK /\ NodeInv /\ QueueInv)
<1>1. TypeOK /\ TypeOK' /\ NodeInv /\ QueueInv /\ [Next]_vars => QueueInv'
  BY QueueStep
<1>2. QED
  BY <1>1, QueueBegins, NodeInvHolds, PTL DEF Spec

(* The indices stay in order and within one lap: the commits follow each   *)
(* other in the order of the reservations because each waits for the       *)
(* commit lock, the cancelled ones too.                                    *)
THEOREM RingOrderHolds == ASSUME CancelWaits PROVE Spec => []RingOrder
<1>1. QueueInv => RingOrder
  BY DEF QueueInv
<1>2. QED
  BY <1>1, QueueInvHolds, PTL

-----------------------------------------------------------------------------
(* The contract                                                            *)

(* The values of the contract's variables open, ahead and size.            *)
opened == [p \in Procs |-> HasWindow(p)]
behind == [p \in Procs |->
             IF ~HasWindow(p) THEN 0
             ELSE Dist(IF p \in Pushers THEN Tail ELSE Head, NewIndex[p]) - num[p]]
asked == [p \in Procs |-> IF HasWindow(p) THEN num[p] ELSE 0]

(* A window is as far behind as it begins after the committed index.       *)
LEMMA BehindIs ==
  /\ behind = [p \in Procs |-> IF HasWindow(p) THEN first(p) ELSE 0]
  /\ behind' = [p \in Procs |-> IF HasWindow(p)' THEN first(p)' ELSE 0]
<1>1. \A p \in Procs : (IF p \in Pushers THEN Tail ELSE Head) = lo(side(p))
                       /\ (IF p \in Pushers THEN Tail ELSE Head)' = lo(side(p))'
  BY DEF lo, side
<1>2. \A p \in Procs :
        /\ Dist(IF p \in Pushers THEN Tail ELSE Head, NewIndex[p]) - num[p] = first(p)
        /\ (Dist(IF p \in Pushers THEN Tail ELSE Head, NewIndex[p]) - num[p])' = first(p)'
  BY <1>1 DEF first, end, Dist
<1>3. QED
  BY <1>2 DEF behind

(* A new value for p only.                                                 *)
LEMMA PutOpen ==
  ASSUME NEW p \in Procs, NEW b \in BOOLEAN, HasWindow(p)' = b,
         \A q \in Procs \ {p} : HasWindow(q)' <=> HasWindow(q)
  PROVE  opened' = [opened EXCEPT ![p] = b]
<1>1. \A q \in Procs \ {p} : HasWindow(q)' = HasWindow(q)
  BY DEF HasWindow
<1>2. \A q \in Procs : HasWindow(q)' = (IF q = p THEN b ELSE HasWindow(q))
  BY <1>1
<1>3. opened' = [q \in Procs |-> IF q = p THEN b ELSE HasWindow(q)]
  BY <1>2 DEF opened
<1>4. QED
  BY <1>3 DEF opened

(* What leaves windows and indices alone is invisible.                     *)
LEMMA SameMaps ==
  ASSUME SameWindows PROVE UNCHANGED Abs!vars
<1>1. /\ Dist(Head, ReservedHead)' = Dist(Head, ReservedHead)
      /\ Dist(ReservedHead, Tail)' = Dist(ReservedHead, Tail)
      /\ Dist(Tail, ReservedTail)' = Dist(Tail, ReservedTail)
  BY DEF SameWindows, indices, Dist
<1>2. opened' = opened
  <2>1. \A q \in Procs : HasWindow(q)' = HasWindow(q)
    BY DEF SameWindows, HasWindow
  <2>2. QED
    BY <2>1 DEF opened
<1>3. behind' = behind
  BY DEF SameWindows, indices, behind, Dist
<1>4. asked' = asked
  BY DEF SameWindows, asked
<1>5. QED
  BY <1>1, <1>2, <1>3, <1>4 DEF Abs!vars, opened, behind, asked

(* A new window of the contract, b slots behind the committed index.       *)
LEMMA OpenMaps ==
  ASSUME NEW p \in Procs, Opens(p), NEW b, first(p)' = b,
         \A q \in Procs \ {p} : HasWindow(q) => first(q)' = first(q)
  PROVE  Abs!Open(p, b, num[p])
<1>1. /\ ~HasWindow(p) /\ HasWindow(p)' /\ num'[p] = num[p]
      /\ \A q \in Procs \ {p} : (HasWindow(q)' <=> HasWindow(q)) /\ num'[q] = num[q]
  BY DEF Opens
<1>2. ~opened[p]
  BY <1>1 DEF opened
<1>3. opened' = [opened EXCEPT ![p] = TRUE]
  <2>1. HasWindow(p)' = TRUE
    BY <1>1 DEF HasWindow
  <2>2. QED
    BY <1>1, <2>1, PutOpen
<1>4. behind' = [behind EXCEPT ![p] = b]
  <2>1. ASSUME NEW q \in Procs
        PROVE  (IF HasWindow(q)' THEN first(q)' ELSE 0) = IF q = p THEN b ELSE behind[q]
    <3>1. behind[q] = IF HasWindow(q) THEN first(q) ELSE 0
      BY BehindIs
    <3>2. QED
      BY <1>1, <3>1
  <2>2. behind' = [q \in Procs |-> IF q = p THEN b ELSE behind[q]]
    BY <2>1, BehindIs
  <2>3. QED
    BY <2>2 DEF behind
<1>5. asked' = [asked EXCEPT ![p] = num[p]]
  <2>1. ASSUME NEW q \in Procs
        PROVE  (IF HasWindow(q)' THEN num'[q] ELSE 0) = IF q = p THEN num[p] ELSE asked[q]
    <3>1. asked[q] = IF HasWindow(q) THEN num[q] ELSE 0
      BY DEF asked
    <3>2. QED
      BY <1>1, <3>1
  <2>2. asked' = [q \in Procs |-> IF q = p THEN num[p] ELSE asked[q]]
    BY <2>1 DEF asked
  <2>3. QED
    BY <2>2 DEF asked
<1>6. QED
  BY <1>2, <1>3, <1>4, <1>5 DEF Abs!Open, opened, behind, asked

(* A window of the contract is closed; the others of its side move up.     *)
LEMMA CloseMaps ==
  ASSUME NEW S \in {Pushers, Poppers}, NEW p \in S, p \in Procs, Closes(p), first(p) = 0,
         \A q \in S \ {p} : HasWindow(q) => first(q)' = first(q) - num[p],
         \A q \in Procs \ S : HasWindow(q) => first(q)' = first(q)
  PROVE  Abs!Close(S, p)
<1>0. p \in Abs!Procs /\ Abs!Procs = Procs
  BY DEF Procs, Abs!Procs
<1>1. /\ HasWindow(p) /\ ~HasWindow(p)'
      /\ \A q \in Procs \ {p} : HasWindow(q)' <=> HasWindow(q)
      /\ num' = num
  BY DEF Closes
<1>2. /\ behind' = [q \in Procs |-> IF HasWindow(q)' THEN first(q)' ELSE 0]
      /\ behind = [q \in Procs |-> IF HasWindow(q) THEN first(q) ELSE 0]
      /\ opened = [q \in Procs |-> HasWindow(q)]
      /\ asked = [q \in Procs |-> IF HasWindow(q) THEN num[q] ELSE 0]
  BY BehindIs DEF opened, asked
<1>3. opened[p] /\ behind[p] = 0 /\ asked[p] = num[p]
  BY <1>1, <1>2
<1>4. opened' = [opened EXCEPT ![p] = FALSE]
  <2>1. HasWindow(p)' = FALSE
    BY <1>1 DEF HasWindow
  <2>2. QED
    BY <1>1, <2>1, PutOpen
<1>5. behind' = [q \in Procs |->
                   IF q \in S \ {p} /\ opened[q] THEN behind[q] - asked[p] ELSE behind[q]]
  <2>1. ASSUME NEW q \in Procs
        PROVE  (IF HasWindow(q)' THEN first(q)' ELSE 0)
                 = IF q \in S \ {p} /\ opened[q] THEN behind[q] - asked[p] ELSE behind[q]
    <3>1. (opened[q] <=> HasWindow(q)) /\ behind[q] = IF HasWindow(q) THEN first(q) ELSE 0
      BY <1>2
    <3>2. QED
      BY <1>1, <1>3, <3>1
  <2>2. QED
    BY <1>2, <2>1
<1>6. asked' = [asked EXCEPT ![p] = 0]
  <2>1. ASSUME NEW q \in Procs
        PROVE  (IF HasWindow(q)' THEN num'[q] ELSE 0) = IF q = p THEN 0 ELSE asked[q]
    <3>1. asked[q] = IF HasWindow(q) THEN num[q] ELSE 0
      BY <1>2
    <3>2. QED
      BY <1>1, <3>1
  <2>2. asked' = [q \in Procs |-> IF q = p THEN 0 ELSE asked[q]]
    BY <2>1 DEF asked
  <2>3. QED
    BY <2>2 DEF asked
<1>7. QED
  BY <1>0, <1>3, <1>4, <1>5, <1>6 DEF Abs!Close, opened, behind, asked

(* A granted push is the reservation of the contract.                      *)
LEMMA PushReservedMaps ==
  ASSUME TypeOK, QueueInv, NEW p \in Procs, PushReserved(p)
  PROVE  num[p] \in PushNums /\ Abs!ReservePush(p, num[p])
<1>1. /\ p \in Pushers /\ Opens(p) /\ side(p) = "push" /\ lo(side(p)) = Tail
      /\ UNCHANGED <<Head, ReservedHead, Tail>> /\ NewIndex'[p] = ReservedTail'
      /\ Dist(Tail, ReservedTail)' = Dist(Tail, ReservedTail) + num[p]
  BY Numbers DEF PushReserved, lo
<1>2. num[p] \in PushNums
  <2>1. pc[p] # "idle"
    BY <1>1 DEF Opens, stageOf, InLine
  <2>2. QED
    BY <1>1, <2>1 DEF QueueInv, Requested
<1>3. /\ Dist(Head, ReservedHead) \in Nat /\ Dist(ReservedHead, Tail) \in Nat
      /\ Dist(Tail, ReservedTail) \in Nat /\ num[p] \in Nat /\ NumElm \in Nat
  BY Numbers, WindowType DEF TypeOK
<1>4. first(p)' = Dist(Tail, ReservedTail)
  <2>1. end(p)' = Dist(Tail, ReservedTail)' /\ num'[p] = num[p]
    BY <1>1 DEF Opens, end, Dist, lo, side
  <2>2. QED
    BY <1>1, <1>3, <2>1 DEF first
<1>5. \A q \in Procs \ {p} : HasWindow(q) => first(q)' = first(q)
  BY <1>1 DEF Opens, first, end, Dist, lo, side
<1>6. Abs!Open(p, Dist(Tail, ReservedTail), num[p])
  BY <1>1, <1>4, <1>5, OpenMaps
<1>7. Dist(Head, ReservedHead) + Dist(ReservedHead, Tail) + Dist(Tail, ReservedTail) + num[p]
        <= NumElm - 1
  BY <1>3 DEF PushReserved
<1>8. /\ Dist(ReservedHead, Tail)' = Dist(ReservedHead, Tail)
      /\ Dist(Head, ReservedHead)' = Dist(Head, ReservedHead)
  BY <1>1 DEF Dist
<1>9. QED
  BY <1>1, <1>2, <1>6, <1>7, <1>8 DEF Abs!ReservePush

(* A granted pop is the reservation of a popper.                           *)
LEMMA PopReservedMaps ==
  ASSUME TypeOK, QueueInv, NEW p \in Procs, PopReserved(p)
  PROVE  \E r \in PopRequests : Abs!ReservePeekPop(p, r[1], r[2])
<1>1. /\ p \in Poppers /\ Opens(p) /\ side(p) = "pop" /\ lo(side(p)) = Head
      /\ UNCHANGED <<Head, Tail, ReservedTail>> /\ NewIndex'[p] = ReservedHead'
      /\ Dist(ReservedHead, Tail) >= peek[p]
      /\ Dist(Head, ReservedHead)' = Dist(Head, ReservedHead) + num[p]
      /\ Dist(ReservedHead, Tail)' = Dist(ReservedHead, Tail) - num[p]
  BY Numbers DEF PopReserved, lo
<1>2. PICK r \in PopRequests : peek[p] = r[1] /\ num[p] = r[2]
  <2>1. pc[p] # "idle"
    BY <1>1 DEF Opens, stageOf, InLine
  <2>2. <<peek[p], num[p]>> \in PopRequests
    BY <1>1, <2>1 DEF QueueInv, Requested
  <2>3. QED
    BY <2>2
<1>3. Dist(Head, ReservedHead) \in Nat /\ num[p] \in Nat
  BY Numbers, WindowType DEF TypeOK
<1>4. first(p)' = Dist(Head, ReservedHead)
  <2>1. end(p)' = Dist(Head, ReservedHead)' /\ num'[p] = num[p]
    BY <1>1 DEF Opens, end, Dist, lo, side
  <2>2. QED
    BY <1>1, <1>3, <2>1 DEF first
<1>5. \A q \in Procs \ {p} : HasWindow(q) => first(q)' = first(q)
  BY <1>1 DEF Opens, first, end, Dist, lo, side
<1>6. Abs!Open(p, Dist(Head, ReservedHead), num[p])
  BY <1>1, <1>4, <1>5, OpenMaps
<1>7. Dist(Tail, ReservedTail)' = Dist(Tail, ReservedTail)
  BY <1>1 DEF Dist
<1>8. Abs!ReservePeekPop(p, peek[p], num[p])
  BY <1>1, <1>6, <1>7 DEF Abs!ReservePeekPop
<1>9. QED
  BY <1>2, <1>8

(* The windows after a commit of p, those of its side and the others.      *)
LEMMA MovedUp ==
  ASSUME TypeOK, NEW p \in Procs, Closes(p),
         \A q \in Windows(side(p)) \ {p} : end(q)' = end(q) - num[p],
         \A s \in Sides \ {side(p)} : lo(s)' = lo(s)
  PROVE  \A q \in Procs \ {p} : HasWindow(q) =>
           first(q)' = IF side(q) = side(p) THEN first(q) - num[p] ELSE first(q)
<1> SUFFICES ASSUME NEW q \in Procs \ {p}, HasWindow(q)
             PROVE  first(q)' = IF side(q) = side(p) THEN first(q) - num[p] ELSE first(q)
  OBVIOUS
<1>1. /\ num[p] \in Int /\ num[q] \in Int /\ end(q) \in Int
      /\ num' = num /\ NewIndex' = NewIndex /\ side(q) \in Sides
  BY Numbers, WindowType DEF TypeOK, Closes
<1>2. CASE side(q) = side(p)
  <2>1. end(q)' = end(q) - num[p]
    BY <1>2 DEF Windows
  <2>2. QED
    BY <1>1, <1>2, <2>1 DEF first
<1>3. CASE side(q) # side(p)
  <2>1. lo(side(q))' = lo(side(q))
    BY <1>1, <1>3 DEF side
  <2>2. QED
    BY <1>1, <1>3, <2>1 DEF first, end, Dist
<1>4. QED
  BY <1>2, <1>3

(* A committed push is the commit of a pusher.                             *)
LEMMA PushCommittedMaps ==
  ASSUME TypeOK, NEW p \in Procs, PushCommitted(p)
  PROVE  p \in Pushers /\ Abs!CommitPush(p)
<1>1. /\ p \in Pushers /\ Closes(p) /\ HasWindow(p) /\ first(p) = 0 /\ side(p) = "push"
      /\ Dist(ReservedHead, Tail)' = Dist(ReservedHead, Tail) + num[p]
      /\ Dist(Tail, ReservedTail)' = Dist(Tail, ReservedTail) - num[p]
      /\ UNCHANGED <<Head, ReservedHead, ReservedTail>>
      /\ \A q \in Windows(side(p)) \ {p} : end(q)' = end(q) - num[p]
  BY Numbers DEF PushCommitted, Closes
<1>2. \A s \in Sides \ {side(p)} : lo(s)' = lo(s)
  BY <1>1 DEF lo, Sides
<1>3. /\ \A q \in Pushers \ {p} : HasWindow(q) => first(q)' = first(q) - num[p]
      /\ \A q \in Procs \ Pushers : HasWindow(q) => first(q)' = first(q)
  BY <1>1, <1>2, MovedUp, Numbers
<1>4. Abs!Close(Pushers, p)
  BY <1>1, <1>3, CloseMaps
<1>5. asked[p] = num[p] /\ Dist(Head, ReservedHead)' = Dist(Head, ReservedHead)
  BY <1>1 DEF asked, Dist
<1>6. QED
  BY <1>1, <1>4, <1>5 DEF Abs!CommitPush, asked

(* A committed pop is the commit of a popper.                              *)
LEMMA PopCommittedMaps ==
  ASSUME TypeOK, NEW p \in Procs, PopCommitted(p)
  PROVE  p \in Poppers /\ Abs!CommitPeekPop(p)
<1>1. /\ p \in Poppers /\ Closes(p) /\ HasWindow(p) /\ first(p) = 0 /\ side(p) = "pop"
      /\ Dist(Head, ReservedHead)' = Dist(Head, ReservedHead) - num[p]
      /\ UNCHANGED <<Tail, ReservedHead, ReservedTail>>
      /\ \A q \in Windows(side(p)) \ {p} : end(q)' = end(q) - num[p]
  BY Numbers DEF PopCommitted, Closes
<1>2. \A s \in Sides \ {side(p)} : lo(s)' = lo(s)
  BY <1>1 DEF lo, Sides
<1>3. /\ \A q \in Poppers \ {p} : HasWindow(q) => first(q)' = first(q) - num[p]
      /\ \A q \in Procs \ Poppers : HasWindow(q) => first(q)' = first(q)
  BY <1>1, <1>2, MovedUp, Numbers
<1>4. Abs!Close(Poppers, p)
  BY <1>1, <1>3, CloseMaps
<1>5. /\ asked[p] = num[p]
      /\ Dist(ReservedHead, Tail)' = Dist(ReservedHead, Tail)
      /\ Dist(Tail, ReservedTail)' = Dist(Tail, ReservedTail)
  BY <1>1 DEF asked, Dist
<1>6. QED
  BY <1>1, <1>4, <1>5 DEF Abs!CommitPeekPop, asked

(* Every step is one of the contract or invisible to it.                   *)
LEMMA StepMaps ==
  ASSUME CancelWaits, TypeOK, NodeInv, QueueInv, [Next]_vars
  PROVE  [Abs!Next]_(Abs!vars)
<1>1. CASE SameWindows
  BY <1>1, SameMaps
<1>2. ASSUME NEW p \in Procs, PushReserved(p) PROVE Abs!Next
  BY <1>2, PushReservedMaps DEF PushReserved, Abs!Next
<1>3. ASSUME NEW p \in Procs, PopReserved(p) PROVE Abs!Next
  BY <1>3, PopReservedMaps DEF PopReserved, Abs!Next
<1>4. ASSUME NEW p \in Procs, PushCommitted(p) PROVE Abs!Next
  BY <1>4, PushCommittedMaps DEF Abs!Next
<1>5. ASSUME NEW p \in Procs, PopCommitted(p) PROVE Abs!Next
  BY <1>5, PopCommittedMaps DEF Abs!Next
<1>6. QED
  BY <1>1, <1>2, <1>3, <1>4, <1>5, EffectIs DEF Effect

(* The empty queue is the contract's.                                      *)
LEMMA BeginMaps == Init => Abs!Init
<1> SUFFICES ASSUME Init PROVE Abs!Init
  OBVIOUS
<1>1. Dist(Head, ReservedHead) = 0 /\ Dist(ReservedHead, Tail) = 0 /\ Dist(Tail, ReservedTail) = 0
  BY DEF Init, Dist, getNumFilledElements
<1>2. \A p \in Procs : ~HasWindow(p)
  BY DEF Init, HasWindow
<1>3. opened = [p \in Procs |-> FALSE]
  <2>1. \A p \in Procs : HasWindow(p) = FALSE
    BY <1>2 DEF HasWindow
  <2>2. QED
    BY <2>1 DEF opened
<1>4. behind = [p \in Procs |-> 0] /\ asked = [p \in Procs |-> 0]
  BY <1>2 DEF behind, asked
<1>5. Abs!Procs = Procs
  BY DEF Procs, Abs!Procs
<1>6. QED
  BY <1>1, <1>3, <1>4, <1>5 DEF Abs!Init, opened, behind, asked

(* The blocking queue implements the FIFO reserve/commit contract of       *)
(* ReserveCommitSpec, step by step, for any ring, threads and requests: a  *)
(* granted reservation opens a window behind all others of its side, a     *)
(* commit closes the oldest, and everything the RCLock does is invisible.  *)
THEOREM ImplementsContract == ASSUME CancelWaits PROVE Spec => ImplementsReserveCommit
<1>1. TypeOK /\ NodeInv /\ QueueInv /\ [Next]_vars => [Abs!Next]_(Abs!vars)
  BY StepMaps
<1>2. QED
  BY <1>1, BeginMaps, QueueInvHolds, PTL DEF Spec, Abs!Spec, ImplementsReserveCommit
=============================================================================

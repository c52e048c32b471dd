---------------------------- MODULE ResizableRCQ ----------------------------
(***************************************************************************)
(* ResizableReserveCommitQueue.h with ResizableBufferManager.h: the        *)
(* reserve/commit queue of builds with DANBI_USE_RESIZABLE_QUEUE.  A       *)
(* pusher that finds no room makes the ring larger and, if the data wrap   *)
(* around, first moves them to be in one piece; a popper that finds the    *)
(* ring almost empty makes it smaller.                                     *)
(*                                                                         *)
(* The RCLocks are those of RCLockSpec, which BlockingRCQ implements.      *)
(* Under the reserve lock of a side only its holder stores the reserved    *)
(* index, and the other side's index only moves on to leave more room or   *)
(* more data: these reads are one step with what follows, except for the   *)
(* pair NumElm and Tail that poppers read.                                 *)
(***************************************************************************)
EXTENDS RingIndex

CONSTANTS Pushers, Poppers, PushNums, PopRequests,
          MinNum, MaxNum, ElementsPerPage,                   \* sizes, in elements
          GrowthPercent, ShrinkStartPercent, ShrinkPercent,  \* the ratios
          PromptSize, SkipExactFit                           \* assumptions, see below

ASSUME SizeAssumption ==
  /\ {MinNum, MaxNum, ElementsPerPage} \subseteq Nat \ {0}
  /\ ElementsPerPage <= MinNum /\ 2 <= MinNum /\ MinNum <= MaxNum
  /\ {GrowthPercent, ShrinkStartPercent, ShrinkPercent} \subseteq Nat
  /\ ShrinkPercent < 100
ASSUME RequestAssumption ==
  /\ PushNums \subseteq 1 .. (MinNum - 1)
  /\ \A r \in PopRequests : r[1] \in 1 .. (MinNum - 1) /\ r[2] \in 1 .. r[1]
  /\ Pushers \cap Poppers = {}
  /\ {PromptSize, SkipExactFit} \subseteq BOOLEAN

Procs == Pushers \cup Poppers
Sides == {"push", "pop"}
side(p) == IF p \in Pushers THEN "push" ELSE "pop"

VARIABLES
  Head, ReservedHead, Tail, ReservedTail, NumElm,
  stage, ahead,             \* the lines of PushRCLock and PeekPopRCLock
  NewIndex, num, peek,      \* of the call: ReservationInfo, Num/PopNum, PeekNum
  numelm, r_tail, head,     \* locals of a call (numelm: new_numelm, too)
  pc,
  slots,                    \* history: where the elements are, from Head on
  win                       \* history: the slots Win gave to the caller

INSTANCE RCLockSpec

lock == <<stage, ahead>>
indices == <<Head, ReservedHead, Tail, ReservedTail>>
request == <<NewIndex, num, peek, win>>
locals == <<numelm, r_tail, head>>
vars == <<indices, NumElm, lock, request, locals, pc, slots>>

(* Push: "queued" .. "locked": reservePushN; "grow" .. "recheck": without  *)
(* room; pop: "sized": NumElm is read; "shrink" .. "shrunk": after the     *)
(* reservation.  "unlock" .. "leave" as in BlockingRCQ.                    *)
PCs == {"idle", "queued", "locked", "grow", "compact", "compacting", "compacted",
        "compactleave", "resize", "grown", "recheck", "sized", "shrink", "shrinkqueued",
        "shrinking", "shrunk", "shrinkleave", "unlock", "reserved", "leave", "cancel"}

NoWindow == <<>>

Init ==
  /\ Head = 0 /\ ReservedHead = 0 /\ Tail = 0 /\ ReservedTail = 0
  /\ NumElm = MinNum
  /\ LockInit
  /\ NewIndex = [p \in Procs |-> 0]
  /\ num = [p \in Procs |-> 0]
  /\ peek = [p \in Procs |-> 0]
  /\ numelm = [p \in Procs |-> 0]
  /\ r_tail = [p \in Procs |-> 0]
  /\ head = [p \in Procs |-> 0]
  /\ pc = [p \in Procs |-> "idle"]
  /\ slots = <<>>
  /\ win = [p \in Procs |-> NoWindow]

(* A size that does not belong to the indices is in use: a popper has read *)
(* NumElm and not yet Tail, or compactQueue has let go of the pop lock and *)
(* its size is not yet stored.  With PromptSize nobody moves meanwhile.    *)
betweenSizes(p) == pc[p] \in {"sized", "compactleave", "resize"}
mayMove(p) == PromptSize => \A q \in Procs \ {p} : ~betweenSizes(q)

goto(p, from, to) == pc[p] = from /\ mayMove(p) /\ pc' = [pc EXCEPT ![p] = to]

acquireReserveLock(p, s, from, queued, locked) ==
  goto(p, from, IF line(s) = {} THEN locked ELSE queued) /\ Enter(s, p)

-----------------------------------------------------------------------------
(* Sizes                                                                   *)

smaller(a, b) == IF a < b THEN a ELSE b
larger(a, b) == IF a > b THEN a ELSE b

(* ResizableBufferManager::resize: within the bounds, in whole pages.      *)
resize(n) ==
  LET wanted == smaller(larger(n, MinNum), MaxNum)
      pages == (wanted + ElementsPerPage - 1) \div ElementsPerPage
  IN  smaller(pages * ElementsPerPage, MaxNum)

calcGrownQSize(size, n) == ((size + n + 1) * (100 + GrowthPercent)) \div 100

shrunkBy == (NumElm * ShrinkPercent) \div 100

shrunkSize == resize(larger(ReservedTail + 1, NumElm - shrunkBy))

isResizable == Head <= ReservedTail

requireShrinkQueue ==
  LET free == NumElm - 1 - getNumFilledElements(NumElm, Head, ReservedTail) IN
  /\ isResizable
  /\ NumElm # MinNum
  /\ 100 * free >= ShrinkStartPercent * (NumElm - 1)
  /\ smaller(NumElm - ReservedTail - 1, shrunkBy) > ElementsPerPage

-----------------------------------------------------------------------------
(* Push                                                                    *)

callPush(p) ==
  /\ acquireReserveLock(p, "push", "idle", "queued", "locked")
  /\ \E n \in PushNums : num' = [num EXCEPT ![p] = n]
  /\ UNCHANGED <<indices, NumElm, NewIndex, peek, win, locals, slots>>

takeReserveLock(p) ==
  /\ goto(p, "queued", "locked")
  /\ Take(side(p), p)
  /\ UNCHANGED <<indices, NumElm, request, locals, slots>>

(* The slots of a window of n elements at idx.                             *)
windowAt(size, idx, n) == [k \in 0 .. n - 1 |-> advance(size, idx, k)]

occupied == CHOOSE n \in 0 .. MaxNum : DOMAIN slots = 0 .. n - 1
appended(w, n) ==
  [k \in 0 .. occupied + n - 1 |-> IF k < occupied THEN slots[k] ELSE w[k - occupied]]

(* Set the window, ReservedTail and NewIndex.                              *)
setReservedTail(p, size, rtail) ==
  /\ win' = [win EXCEPT ![p] = windowAt(size, rtail, num[p])]
  /\ slots' = appended(win'[p], num[p])
  /\ ReservedTail' = advance(size, rtail, num[p])
  /\ NewIndex' = [NewIndex EXCEPT ![p] = ReservedTail']

reservePush(p) ==
  /\ IF haveEnoughRoom(NumElm, ReservedTail, Head, num[p])
     THEN /\ goto(p, "locked", "unlock")
          /\ setReservedTail(p, NumElm, ReservedTail)
          /\ UNCHANGED <<r_tail, head>>
     ELSE /\ goto(p, "locked", "grow")
          /\ r_tail' = [r_tail EXCEPT ![p] = ReservedTail]
          /\ head' = [head EXCEPT ![p] = Head]
          /\ UNCHANGED <<ReservedTail, NewIndex, win, slots>>
  /\ p \in Pushers
  /\ UNCHANGED <<Head, ReservedHead, Tail, NumElm, lock, num, peek, numelm>>

(* Slip: a ring that wraps around is grown like any other.                 *)
growAnything(p) ==
  /\ goto(p, "grow", "grown")
  /\ NumElm' = resize(calcGrownQSize(NumElm, num[p]))
  /\ UNCHANGED <<indices, lock, request, locals, slots>>

(* growQueue: data in one piece let the ring be grown behind them; data    *)
(* that wrap around must be compacted, unless there is an open push or     *)
(* the dice say no.  With SkipExactFit they do if the moved data would end *)
(* at the last slot of the grown ring.                                     *)
exactFit(p) ==
  ReservedTail <= NumElm - Head /\
    resize(calcGrownQSize(NumElm, num[p] + ReservedTail)) = NumElm + ReservedTail

growQueue(p) ==
  /\ \/ /\ isResizable
        /\ goto(p, "grow", "grown")
        /\ NumElm' = resize(calcGrownQSize(NumElm, num[p]))
     \/ /\ ~isResizable
        /\ goto(p, "grow", "recheck")
        /\ UNCHANGED NumElm
     \/ /\ ~isResizable /\ Tail = ReservedTail
        /\ ~(SkipExactFit /\ exactFit(p))
        /\ goto(p, "grow", "compact")
        /\ UNCHANGED NumElm
  /\ UNCHANGED <<indices, lock, request, locals, slots>>

(* Slip: the pop lock is waited for.                                       *)
awaitPopLock(p) ==
  /\ \/ acquireReserveLock(p, "pop", "compact", "compact", "compacting")
     \/ Take("pop", p) /\ goto(p, "compact", "compacting")
  /\ UNCHANGED <<indices, NumElm, request, locals, slots>>

(* Slip: open pops do not matter.                                          *)
ignorePopLock(p) ==
  /\ goto(p, "compact", "compacting")
  /\ stage' = [stage EXCEPT !["pop"][p] = "holding"]
  /\ UNCHANGED <<indices, NumElm, ahead, request, locals, slots>>

(* compactQueue needs the pop lock with no popper inside, or gives up.     *)
tryAcquireReserveLock(p) ==
  /\ \/ goto(p, "compact", "compacting") /\ TryEnter("pop", p)
     \/ line("pop") # {} /\ goto(p, "compact", "recheck") /\ UNCHANGED lock
  /\ UNCHANGED <<indices, NumElm, request, locals, slots>>

(* The elements of the slots in S are copied `by` slots up.                *)
move(S, by) == slots' = [k \in DOMAIN slots |-> IF slots[k] \in S THEN slots[k] + by
                                                                   ELSE slots[k]]

(* CASE 1: the front block is appended to the block at the end.            *)
appendTailBlock(size) ==
  /\ move(0 .. ReservedTail - 1, NumElm)
  /\ Tail' = NumElm + ReservedTail /\ ReservedTail' = NumElm + ReservedTail
  /\ UNCHANGED <<Head, ReservedHead>>

(* CASE 2 and 3: the block at the end is moved to the new end.             *)
moveHeadBlock(size) ==
  /\ move(Head .. NumElm - 1, size - NumElm)
  /\ Head' = size - NumElm + Head /\ ReservedHead' = size - NumElm + Head
  /\ UNCHANGED <<Tail, ReservedTail>>

(* The body of compactQueue under both locks.  The data may have been      *)
(* popped into one piece meanwhile (CASE B).                               *)
compactQueue(p) ==
  LET fits == ReservedTail <= NumElm - Head
      move_num == IF fits THEN ReservedTail ELSE NumElm - Head
      size == resize(calcGrownQSize(NumElm, num[p] + IF isResizable THEN 0 ELSE move_num))
  IN
  /\ goto(p, "compacting", "compacted")
  /\ numelm' = [numelm EXCEPT ![p] = size]
  /\ IF isResizable THEN UNCHANGED <<indices, slots>>
     ELSE IF fits /\ size >= NumElm + move_num THEN appendTailBlock(size)
     ELSE moveHeadBlock(size)
  /\ UNCHANGED <<NumElm, lock, request, r_tail, head>>

(* cancelReserveLock of the pop side, then NumElm = compactQueue(Num).     *)
compacted(p) ==
  /\ \/ goto(p, "compacted", "compactleave") /\ Release("pop", p)
     \/ goto(p, "compactleave", "resize") /\ Leave("pop", p)
  /\ UNCHANGED <<indices, NumElm, request, locals, slots>>

storeNumElm(p) ==
  /\ goto(p, "resize", "recheck")
  /\ NumElm' = numelm[p]
  /\ numelm' = [numelm EXCEPT ![p] = 0]
  /\ UNCHANGED <<indices, lock, request, r_tail, head, slots>>

(* Is there room now?  r_tail and head are those read before.              *)
recheckRoom(p) ==
  /\ IF haveEnoughRoom(NumElm, r_tail[p], head[p], num[p])
     THEN /\ goto(p, "grown", "unlock") \/ goto(p, "recheck", "unlock")
          /\ setReservedTail(p, NumElm, r_tail[p])
     ELSE /\ goto(p, "grown", "cancel") \/ goto(p, "recheck", "cancel")
          /\ UNCHANGED <<ReservedTail, NewIndex, win, slots>>
  /\ r_tail' = [r_tail EXCEPT ![p] = 0]
  /\ head' = [head EXCEPT ![p] = 0]
  /\ UNCHANGED <<Head, ReservedHead, Tail, NumElm, lock, num, peek, numelm>>

(* Slip: the commit lock is not awaited.                                   *)
commitPushAtOnce(p) ==
  /\ goto(p, "reserved", "leave")
  /\ Tail' = NewIndex[p]
  /\ UNCHANGED <<Head, ReservedHead, ReservedTail, NumElm, lock, request, locals, slots>>

commitPush(p) ==
  /\ p \in Pushers
  /\ goto(p, "reserved", "leave")
  /\ HoldsCommit("push", p)
  /\ Tail' = NewIndex[p]
  /\ UNCHANGED <<Head, ReservedHead, ReservedTail, NumElm, lock, request, locals, slots>>

-----------------------------------------------------------------------------
(* Pop                                                                     *)

(* Head of reservePeekPopN; without data nothing is changed.               *)
callPeekPop(p) ==
  \E r \in PopRequests :
    \/ /\ haveEnoughData(NumElm, ReservedHead, Tail, r[1])
       /\ acquireReserveLock(p, "pop", "idle", "queued", "locked")
       /\ num' = [num EXCEPT ![p] = r[2]]
       /\ peek' = [peek EXCEPT ![p] = r[1]]
       /\ UNCHANGED <<indices, NumElm, NewIndex, win, locals, slots>>
    \/ /\ ~haveEnoughData(NumElm, ReservedHead, Tail, r[1])
       /\ pc[p] = "idle"
       /\ UNCHANGED vars

readNumElm(p) ==
  /\ p \in Poppers
  /\ goto(p, "locked", "sized")
  /\ numelm' = [numelm EXCEPT ![p] = NumElm]
  /\ UNCHANGED <<indices, NumElm, lock, request, r_tail, head, slots>>

reservePeekPop(p) ==
  /\ IF haveEnoughData(numelm[p], ReservedHead, Tail, peek[p])
     THEN /\ goto(p, "sized", "shrink")
          /\ win' = [win EXCEPT ![p] = windowAt(numelm[p], ReservedHead, peek[p])]
          /\ ReservedHead' = advance(numelm[p], ReservedHead, num[p])
          /\ NewIndex' = [NewIndex EXCEPT ![p] = ReservedHead']
     ELSE goto(p, "sized", "cancel") /\ UNCHANGED <<win, ReservedHead, NewIndex>>
  /\ numelm' = [numelm EXCEPT ![p] = 0]
  /\ UNCHANGED <<Head, Tail, ReservedTail, NumElm, lock, num, peek, r_tail, head, slots>>

(* shrinkQueueIfNeeded: the reserve lock of the pop side is held, that of  *)
(* the push side is taken; then the test is repeated.                      *)
testShrink(p) ==
  /\ \/ ~requireShrinkQueue /\ goto(p, "shrink", "unlock") /\ UNCHANGED lock
     \/ requireShrinkQueue
        /\ acquireReserveLock(p, "push", "shrink", "shrinkqueued", "shrinking")
     \/ Take("push", p) /\ goto(p, "shrinkqueued", "shrinking")
  /\ UNCHANGED <<indices, NumElm, request, locals, slots>>

shrinkQueue(p) ==
  /\ goto(p, "shrinking", "shrunk")
  /\ NumElm' = IF requireShrinkQueue THEN shrunkSize ELSE NumElm
  /\ UNCHANGED <<indices, lock, request, locals, slots>>

(* cancelReserveLock of the push side, which waits for the open pushes.    *)
endShrink(p) ==
  /\ \/ goto(p, "shrunk", "shrinkleave") /\ Release("push", p)
     \/ goto(p, "shrinkleave", "unlock") /\ Leave("push", p)
  /\ UNCHANGED <<indices, NumElm, request, locals, slots>>

commitPeekPop(p) ==
  /\ p \in Poppers
  /\ goto(p, "reserved", "leave")
  /\ HoldsCommit("pop", p)
  /\ Head' = NewIndex[p]
  /\ slots' = [k \in 0 .. occupied - num[p] - 1 |-> slots[k + num[p]]]
  /\ UNCHANGED <<ReservedHead, Tail, ReservedTail, NumElm, lock, request, locals>>

-----------------------------------------------------------------------------
(* The end of a reservation, granted or refused, and of a call             *)
releaseReserveLock(p) ==
  /\ goto(p, "unlock", "reserved") \/ goto(p, "cancel", "leave")
  /\ Release(side(p), p)
  /\ UNCHANGED <<indices, NumElm, request, locals, slots>>

releaseCommitLock(p) ==
  /\ goto(p, "leave", "idle")
  /\ Leave(side(p), p)
  /\ NewIndex' = [NewIndex EXCEPT ![p] = 0]
  /\ num' = [num EXCEPT ![p] = 0]
  /\ peek' = [peek EXCEPT ![p] = 0]
  /\ win' = [win EXCEPT ![p] = NoWindow]
  /\ UNCHANGED <<indices, NumElm, locals, slots>>

step(p) ==
  \/ takeReserveLock(p) \/ releaseReserveLock(p) \/ releaseCommitLock(p)
  \/ reservePush(p) \/ growQueue(p) \/ tryAcquireReserveLock(p) \/ compactQueue(p)
  \/ compacted(p) \/ storeNumElm(p) \/ recheckRoom(p) \/ commitPush(p)
  \/ readNumElm(p) \/ reservePeekPop(p) \/ testShrink(p) \/ shrinkQueue(p)
  \/ endShrink(p) \/ commitPeekPop(p)

Next ==
  \/ \E p \in Procs : step(p)
  \/ \E p \in Pushers : callPush(p)
  \/ \E p \in Poppers : callPeekPop(p)

Spec == Init /\ [][Next]_vars
FairSpec == Spec /\ \A p \in Procs : WF_vars(step(p))

-----------------------------------------------------------------------------
(* Properties                                                              *)

(* The size the indices belong to: a compaction changes them before it     *)
(* stores NumElm.                                                          *)
Size ==
  IF \E p \in Procs : pc[p] \in {"compacted", "compactleave", "resize"}
  THEN numelm[CHOOSE p \in Procs : pc[p] \in {"compacted", "compactleave", "resize"}]
  ELSE NumElm
Dist(a, b) == getNumFilledElements(Size, a, b)

HasWindow(p) ==
  pc[p] \in {"unlock", "reserved", "shrink", "shrinkqueued", "shrinking", "shrunk",
             "shrinkleave"}

(* The variables have their types.                                         *)
TypeOK ==
  /\ NumElm \in MinNum .. MaxNum
  /\ {Head, ReservedHead, Tail, ReservedTail} \subseteq 0 .. Size - 1
  /\ stage \in [Sides -> [Procs -> Stages]]
  /\ ahead \in [Sides -> [Procs -> SUBSET Procs]]
  /\ {NewIndex, num, peek, numelm, r_tail, head} \subseteq [Procs -> 0 .. MaxNum]
  /\ pc \in [Procs -> PCs]
  /\ \A k \in DOMAIN slots : slots[k] \in 0 .. MaxNum - 1

(* Through growing, compacting and shrinking, the elements lie in the      *)
(* slots that the indices say, in order and without loss; the indices are  *)
(* in the range of the size they belong to (TypeOK).                       *)
SlotsInOrder ==
  /\ TypeOK
  /\ slots = [k \in 0 .. Dist(Head, ReservedTail) - 1 |-> advance(Size, Head, k)]

(* A window handed out is still where the elements are: nothing is moved   *)
(* under the hands of a thread that reads or writes its reservation.       *)
WindowsInPlace ==
  \A p \in Procs : HasWindow(p) =>
    LET first == Dist(Head, NewIndex[p]) - num[p]
    IN  \A k \in DOMAIN win[p] : first + k \in DOMAIN slots /\ win[p][k] = slots[first + k]

(* Whoever changes the size or moves the data is alone: no other thread    *)
(* reserves slots behind the data or resizes, and while the data move no   *)
(* popper makes a reservation or has one open.                             *)
Resizing(p) ==
  pc[p] \in {"grow", "compact", "compacting", "compacted", "compactleave", "resize",
             "grown", "recheck", "shrinking", "shrunk"}
Reserving(p) == p \in Pushers /\ pc[p] \in {"locked", "unlock", "cancel"}

LayoutAlone ==
  /\ \A p, q \in Procs : Resizing(p) /\ (Resizing(q) \/ Reserving(q)) => p = q
  /\ \A p \in Procs : pc[p] \in {"compacting", "compacted"} =>
       \A q \in Poppers : pc[q] \in {"idle", "queued"}

(* The assertions of growQueue, shrinkQueueIfNeeded and compactQueue.      *)
AssertionsHold ==
  /\ (\E p \in Procs : pc[p] \in {"grown", "shrunk"} /\ isResizable) =>
       /\ Head <= ReservedHead /\ ReservedHead <= Tail /\ Tail <= ReservedTail
       /\ ReservedTail < NumElm
  /\ (\E p \in Procs : pc[p] = "compacting" /\ ~isResizable) =>
       /\ Head = ReservedHead /\ Head < NumElm
       /\ Tail = ReservedTail /\ Tail < Head

(* The queue implements the FIFO reserve/commit contract of its largest    *)
(* size: resizing is invisible to the kernels.                             *)
Abs == INSTANCE ReserveCommitSpec WITH
  Capacity <- MaxNum - 1,
  filled <- Dist(ReservedHead, Tail),
  pushing <- Dist(Tail, ReservedTail),
  popping <- Dist(Head, ReservedHead),
  open <- [p \in Procs |-> HasWindow(p)],
  ahead <- [p \in Procs |->
              IF ~HasWindow(p) THEN 0
              ELSE Dist(IF p \in Pushers THEN Tail ELSE Head, NewIndex[p]) - num[p]],
  size <- [p \in Procs |-> IF HasWindow(p) THEN num[p] ELSE 0]

ImplementsReserveCommit == Abs!Spec

(* Every call returns: a popper that holds its side's lock and waits for   *)
(* the other never blocks a pusher, which only tries for the popper's.     *)
CallsReturn == \A p \in Procs : pc[p] # "idle" ~> pc[p] = "idle"
=============================================================================

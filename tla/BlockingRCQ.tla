---------------------------- MODULE BlockingRCQ ----------------------------
(***************************************************************************)
(* BlockingReserveCommitQueue.h: the reserve/commit queue of builds with   *)
(* DANBI_USE_BLOCKING_RESERVE_COMMIT_QUEUE.  Each side has one RCLock, a   *)
(* list of ReservationInfo nodes that is two queue locks at once: the      *)
(* reserve lock travels down the list during reservation and the commit    *)
(* lock follows it during commit.                                          *)
(*                                                                         *)
(* ResizableReserveCommitQueue.h has the same lock except for the way a    *)
(* reservation is cancelled; CancelWaits selects its version.              *)
(*                                                                         *)
(* One action per access to shared memory, sequentially consistent.  The   *)
(* pre-check of the reserve calls reads two indices in one step: it only   *)
(* decides whether to queue for the lock, under which it is repeated.      *)
(***************************************************************************)
EXTENDS RingIndex

CONSTANTS Pushers, Poppers,     \* the threads of the two kernels
          NumElm,               \* slots of the ring (requested capacity + 1)
          PushNums,             \* values of Num used by pushers
          PopRequests,          \* pairs <<PeekNum, PopNum>> used by poppers
          CancelWaits,          \* TRUE: cancel as in the resizable queue
          NULL

ASSUME RingAssumption ==
  /\ NumElm \in Nat /\ NumElm >= 2
  /\ PushNums \subseteq 1 .. (NumElm - 1)
  /\ \A r \in PopRequests : /\ r = <<r[1], r[2]>>
                            /\ r[1] \in 1 .. (NumElm - 1)
                            /\ r[2] \in 1 .. r[1]
ASSUME ThreadsAssumption ==
  /\ Pushers \cap Poppers = {}
  /\ NULL \notin Pushers \cup Poppers
  /\ CancelWaits \in BOOLEAN

Procs == Pushers \cup Poppers
Sides == {"push", "pop"}
side(p) == IF p \in Pushers THEN "push" ELSE "pop"

VARIABLES
  Head, ReservedHead, Tail, ReservedTail,   \* the four ring indices
  RCLock,                                   \* PushRCLock and PeekPopRCLock
  ReserveLock, CommitLock, NextInfo,        \* the threads' ReservationInfo
  NewIndex,
  old,                                      \* local old of acquireReserveLock
  num, peek,                                \* Num / PopNum and PeekNum
  pc

indices == <<Head, ReservedHead, Tail, ReservedTail>>
node == <<RCLock, ReserveLock, CommitLock, NextInfo, old>>
request == <<NewIndex, num, peek>>
vars == <<indices, node, request, pc>>

LockKinds == {"Wait", "Go", "Consumed"}     \* RCLockKind

(* "acquire": pre-check passed; "link", "spin": behind another node;       *)
(* "locked": holds the reserve lock; "unlock": slots reserved; "cancel":   *)
(* re-check failed; "reserved": reserve returned 0, "commit" was called    *)
(* and owns the commit lock; "leave" .. "consumed": releaseCommitLock.     *)
PCs == {"idle", "acquire", "link", "spin", "locked", "unlock", "cancel",
        "cancelwait", "reserved", "commit", "leave", "swap", "handoff", "consumed"}

Init ==
  /\ Head = 0 /\ ReservedHead = 0 /\ Tail = 0 /\ ReservedTail = 0
  /\ RCLock = [s \in Sides |-> NULL]
  /\ ReserveLock = [p \in Procs |-> "Wait"]
  /\ CommitLock = [p \in Procs |-> "Wait"]
  /\ NextInfo = [p \in Procs |-> NULL]
  /\ NewIndex = [p \in Procs |-> 0]
  /\ old = [p \in Procs |-> NULL]
  /\ num = [p \in Procs |-> 1]
  /\ peek = [p \in Procs |-> 1]
  /\ pc = [p \in Procs |-> "idle"]

goto(p, from, to) == pc[p] = from /\ pc' = [pc EXCEPT ![p] = to]

(* The call of p is over: its locals are dead and take their first values. *)
forgetRequest(p) ==
  /\ NewIndex' = [NewIndex EXCEPT ![p] = 0]
  /\ num' = [num EXCEPT ![p] = 1]
  /\ peek' = [peek EXCEPT ![p] = 1]

-----------------------------------------------------------------------------
(* The RCLock                                                              *)

(* Node set to Wait/Wait/NULL and swapped in; the first node of a list     *)
(* owns both locks at once.                                                *)
acquireReserveLock(p) ==
  LET last == RCLock[side(p)]
  IN  /\ goto(p, "acquire", IF last = NULL THEN "locked" ELSE "link")
      /\ RCLock' = [RCLock EXCEPT ![side(p)] = p]
      /\ ReserveLock' = [ReserveLock EXCEPT ![p] = "Wait"]
      /\ CommitLock' = [CommitLock EXCEPT ![p] = IF last = NULL THEN "Go" ELSE "Wait"]
      /\ NextInfo' = [NextInfo EXCEPT ![p] = NULL]
      /\ old' = [old EXCEPT ![p] = last]
      /\ UNCHANGED <<indices, request>>

(* old->Next = &RevInfo                                                    *)
linkBehind(p) ==
  /\ goto(p, "link", "spin")
  /\ NextInfo' = [NextInfo EXCEPT ![old[p]] = p]
  /\ UNCHANGED <<indices, RCLock, ReserveLock, CommitLock, old, request>>

(* Slip: the reserve lock is taken without waiting for Go.                 *)
stealReserveLock(p) ==
  /\ goto(p, "spin", "locked")
  /\ ReserveLock' = [ReserveLock EXCEPT ![old[p]] = "Consumed"]
  /\ old' = [old EXCEPT ![p] = NULL]
  /\ UNCHANGED <<indices, RCLock, CommitLock, NextInfo, request>>

(* while (old->ReserveLock != Go); old->ReserveLock = Consumed             *)
consumeReserveLock(p) ==
  /\ goto(p, "spin", "locked")
  /\ ReserveLock[old[p]] = "Go"
  /\ ReserveLock' = [ReserveLock EXCEPT ![old[p]] = "Consumed"]
  /\ old' = [old EXCEPT ![p] = NULL]
  /\ UNCHANGED <<indices, RCLock, CommitLock, NextInfo, request>>

(* releaseReserveLock, at the end of a successful reservation.             *)
releaseReserveLock(p) ==
  /\ goto(p, "unlock", "reserved")
  /\ ReserveLock' = [ReserveLock EXCEPT ![p] = "Go"]
  /\ UNCHANGED <<indices, RCLock, CommitLock, NextInfo, old, request>>

(* Slip: no cancel waits for its turn to commit.                           *)
cancelWithoutWaiting(p) ==
  /\ goto(p, "cancel", "leave")
  /\ ReserveLock' = [ReserveLock EXCEPT ![p] = "Go"]
  /\ UNCHANGED <<indices, RCLock, CommitLock, NextInfo, old, request>>

(* cancelReserveLock: release the reserve lock; the resizable queue goes   *)
(* on to acquireCommitLock, the blocking one straight to                   *)
(* releaseCommitLock.                                                      *)
cancelReserveLock(p) ==
  /\ goto(p, "cancel", IF CancelWaits THEN "cancelwait" ELSE "leave")
  /\ ReserveLock' = [ReserveLock EXCEPT ![p] = "Go"]
  /\ UNCHANGED <<indices, RCLock, CommitLock, NextInfo, old, request>>

(* acquireCommitLock: while (RevInfo.CommitLock != Go)                     *)
acquireCommitLock(p) ==
  /\ CommitLock[p] = "Go"
  /\ goto(p, "reserved", "commit") \/ goto(p, "cancelwait", "leave")
  /\ UNCHANGED <<indices, node, request>>

(* releaseCommitLock: with no successor in sight try to empty the list,    *)
(* else pass the commit lock on and stay until the successor has taken the *)
(* reserve lock out of this node.                                          *)
leaveOrSwap(p) ==
  /\ goto(p, "leave", IF NextInfo[p] = NULL THEN "swap" ELSE "handoff")
  /\ UNCHANGED <<indices, node, request>>

(* Slip: a list that cannot be emptied is left without a hand-off.         *)
swapOutAndGo(p) ==
  /\ goto(p, "swap", "idle")
  /\ RCLock' = [RCLock EXCEPT ![side(p)] = IF @ = p THEN NULL ELSE @]
  /\ forgetRequest(p)
  /\ UNCHANGED <<indices, ReserveLock, CommitLock, NextInfo, old>>

swapOut(p) ==
  /\ \/ /\ RCLock[side(p)] = p
        /\ goto(p, "swap", "idle")
        /\ RCLock' = [RCLock EXCEPT ![side(p)] = NULL]
        /\ forgetRequest(p)
     \/ /\ RCLock[side(p)] # p
        /\ goto(p, "swap", "handoff")
        /\ UNCHANGED <<RCLock, request>>
  /\ UNCHANGED <<indices, ReserveLock, CommitLock, NextInfo, old>>

handOff(p) ==
  /\ NextInfo[p] # NULL
  /\ goto(p, "handoff", "consumed")
  /\ CommitLock' = [CommitLock EXCEPT ![NextInfo[p]] = "Go"]
  /\ UNCHANGED <<indices, RCLock, ReserveLock, NextInfo, old, request>>

awaitConsumed(p) ==
  /\ ReserveLock[p] = "Consumed"
  /\ goto(p, "consumed", "idle")
  /\ forgetRequest(p)
  /\ UNCHANGED <<indices, node>>

releaseCommitLock(p) ==
  leaveOrSwap(p) \/ swapOut(p) \/ handOff(p) \/ awaitConsumed(p)

-----------------------------------------------------------------------------
(* The queue operations                                                    *)

(* Head of reservePushN: room check and ticket check before the lock; the  *)
(* ticket server's answer is a free choice, and a caller that is refused   *)
(* (-EWOULDBLOCK, -EBUSY) has changed nothing.                             *)
precheckPush(p) ==
  \E n \in PushNums :
    /\ haveEnoughRoom(NumElm, ReservedTail, Head, n)
    /\ goto(p, "idle", "acquire")
    /\ num' = [num EXCEPT ![p] = n]
    /\ peek' = [peek EXCEPT ![p] = n]
    /\ UNCHANGED <<indices, node, NewIndex>>

(* Body of reservePushN under the reserve lock.                            *)
reservePush(p) ==
  /\ \/ /\ ~haveEnoughRoom(NumElm, ReservedTail, Head, num[p])
        /\ goto(p, "locked", "cancel")
        /\ UNCHANGED <<ReservedTail, NewIndex>>
     \/ /\ haveEnoughRoom(NumElm, ReservedTail, Head, num[p])
        /\ goto(p, "locked", "unlock")
        /\ ReservedTail' = advance(NumElm, ReservedTail, num[p])
        /\ NewIndex' = [NewIndex EXCEPT ![p] = ReservedTail']
  /\ UNCHANGED <<Head, ReservedHead, Tail, node, num, peek>>

(* commitPush under the commit lock: Tail = RevInfo.NewIndex               *)
commitPush(p) ==
  /\ goto(p, "commit", "leave")
  /\ Tail' = NewIndex[p]
  /\ UNCHANGED <<Head, ReservedHead, ReservedTail, node, request>>

(* Head of reservePeekPopN.                                                *)
precheckPeekPop(p) ==
  \E r \in PopRequests :
    /\ haveEnoughData(NumElm, ReservedHead, Tail, r[1])
    /\ goto(p, "idle", "acquire")
    /\ num' = [num EXCEPT ![p] = r[2]]
    /\ peek' = [peek EXCEPT ![p] = r[1]]
    /\ UNCHANGED <<indices, node, NewIndex>>

(* Body of reservePeekPopN under the reserve lock.                         *)
reservePeekPop(p) ==
  /\ \/ /\ ~haveEnoughData(NumElm, ReservedHead, Tail, peek[p])
        /\ goto(p, "locked", "cancel")
        /\ UNCHANGED <<ReservedHead, NewIndex>>
     \/ /\ haveEnoughData(NumElm, ReservedHead, Tail, peek[p])
        /\ goto(p, "locked", "unlock")
        /\ ReservedHead' = advance(NumElm, ReservedHead, num[p])
        /\ NewIndex' = [NewIndex EXCEPT ![p] = ReservedHead']
  /\ UNCHANGED <<Head, Tail, ReservedTail, node, num, peek>>

(* commitPeekPop under the commit lock: Head = RevInfo.NewIndex            *)
commitPeekPop(p) ==
  /\ goto(p, "commit", "leave")
  /\ Head' = NewIndex[p]
  /\ UNCHANGED <<Tail, ReservedHead, ReservedTail, node, request>>

-----------------------------------------------------------------------------
lockStep(p) ==
  \/ acquireReserveLock(p) \/ linkBehind(p) \/ consumeReserveLock(p)
  \/ releaseReserveLock(p) \/ cancelReserveLock(p)
  \/ acquireCommitLock(p) \/ releaseCommitLock(p)

(* A call under way; the calls themselves (precheck) need not be made.     *)
step(p) ==
  \/ lockStep(p)
  \/ p \in Pushers /\ (reservePush(p) \/ commitPush(p))
  \/ p \in Poppers /\ (reservePeekPop(p) \/ commitPeekPop(p))

Next ==
  \/ \E p \in Procs : step(p)
  \/ \E p \in Pushers : precheckPush(p)
  \/ \E p \in Poppers : precheckPeekPop(p)

Spec == Init /\ [][Next]_vars

-----------------------------------------------------------------------------
(* Properties                                                              *)

Dist(a, b) == getNumFilledElements(NumElm, a, b)

HasWindow(p) == pc[p] \in {"unlock", "reserved", "commit"}

(* The variables have their types.                                         *)
TypeOK ==
  /\ {Head, ReservedHead, Tail, ReservedTail} \subseteq 0 .. (NumElm - 1)
  /\ RCLock \in [Sides -> Procs \cup {NULL}]
  /\ ReserveLock \in [Procs -> LockKinds]
  /\ CommitLock \in [Procs -> {"Wait", "Go"}]
  /\ NextInfo \in [Procs -> Procs \cup {NULL}]
  /\ NewIndex \in [Procs -> 0 .. (NumElm - 1)]
  /\ old \in [Procs -> Procs \cup {NULL}]
  /\ num \in [Procs -> 1 .. (NumElm - 1)]
  /\ peek \in [Procs -> 1 .. (NumElm - 1)]
  /\ pc \in [Procs -> PCs]

(* The list of ReservationInfo nodes behaves as the two locks of a line:   *)
(* both are exclusive and go round in the order of arrival, which is what  *)
(* lets the queue store its indices without CAS.  The line is read off     *)
(* the links: a node is behind the one that points to it or, before it is  *)
(* linked, behind its old.  A thread that waits for Consumed has left.     *)
InLine(p) == pc[p] \notin {"idle", "acquire", "consumed"}

(* The nodes directly before a node.                                       *)
before == [p \in Procs |->
             { q \in Procs : InLine(q) /\ (old[p] = q \/ NextInfo[q] = p) }]

(* The least set that holds B[p] and, with a thread x, also B[x].          *)
Closure(B, p) ==
  { q \in Procs : \A S \in SUBSET Procs :
                    B[p] \subseteq S /\ (\A x \in S : B[x] \subseteq S) => q \in S }

aheadOf(p) == Closure(before, p)

stageOf(p) ==
  CASE ~InLine(p) -> "out"
    [] pc[p] \in {"link", "spin"} -> "waiting"
    [] pc[p] \in {"locked", "unlock", "cancel"} -> "holding"
    [] OTHER -> "released"

lockStage == [s \in Sides |-> [p \in Procs |->
                IF side(p) = s THEN stageOf(p) ELSE "out"]]
lockAhead == [s \in Sides |-> [p \in Procs |->
                IF side(p) = s /\ InLine(p) THEN aheadOf(p) ELSE {}]]

LockLine == INSTANCE RCLockSpec WITH stage <- lockStage, ahead <- lockAhead

ImplementsRCLock == LockLine!LockSpec

(* Round the ring the indices stay in the order of the comment on          *)
(* getNumFilledElements, { Head, ReservedHead, Tail, ReservedTail },       *)
(* within one lap.                                                         *)
RingOrder ==
  Dist(Head, ReservedHead) + Dist(ReservedHead, Tail) + Dist(Tail, ReservedTail)
    < NumElm

(* The queue implements the FIFO reserve/commit contract.                  *)
Abs == INSTANCE ReserveCommitSpec WITH
  Capacity <- NumElm - 1,
  filled <- Dist(ReservedHead, Tail),
  pushing <- Dist(Tail, ReservedTail),
  popping <- Dist(Head, ReservedHead),
  open <- [p \in Procs |-> HasWindow(p)],
  ahead <- [p \in Procs |->
              IF ~HasWindow(p) THEN 0
              ELSE Dist(IF p \in Pushers THEN Tail ELSE Head, NewIndex[p]) - num[p]],
  size <- [p \in Procs |-> IF HasWindow(p) THEN num[p] ELSE 0]

ImplementsReserveCommit == Abs!Spec

(* Every thread that is inside a call keeps running.                       *)
FairSpec == Spec /\ \A p \in Procs : WF_vars(step(p))

(* Every call gets through, cancelled or not: the two locks of a side and  *)
(* the wait for Consumed never block each other.                           *)
CallsReturn == \A p \in Procs : pc[p] = "acquire" ~> pc[p] = "idle"
=============================================================================

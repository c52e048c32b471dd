--------------------------- MODULE ConcurrentRCQ ---------------------------
(***************************************************************************)
(* ConcurrentReserveCommitQueue.h, the queue between two kernels in the    *)
(* default build (queue based commit ordering).  One action per access to  *)
(* shared memory; the accesses of one thread in program order.  x86 orders *)
(* them (every CAS and FAS is a full barrier, stores stay in order), so    *)
(* memory is sequentially consistent here.                                 *)
(*                                                                         *)
(* A reservation lives in a ReservationInfo object owned by the calling    *)
(* thread and used again by its next call, one per thread.  Its OldIndex   *)
(* doubles as the local r_tail / r_head (same value, same owner), its      *)
(* NewIndex is a function of OldIndex and the number of slots.             *)
(*                                                                         *)
(* The answer of the ticket servers (isMyTurn) is a free choice: tickets   *)
(* order the callers, not the queue.                                       *)
(***************************************************************************)
EXTENDS RingIndex

CONSTANTS Pushers, Poppers,     \* the threads of the two kernels
          NumElm,               \* slots of the ring (requested capacity + 1)
          PushNums,             \* values of Num used by pushers
          PopRequests,          \* pairs <<PeekNum, PopNum>> used by poppers
          MaxLag,               \* how far a reserved index may run ahead of a
                                \* thread between its read and its CAS
          NULL                  \* the null ReservationInfo pointer

ASSUME NumElmAssumption == NumElm \in Nat /\ NumElm >= 2
ASSUME RequestAssumption ==
  /\ PushNums \subseteq 1 .. (NumElm - 1)
  /\ \A r \in PopRequests : /\ r = <<r[1], r[2]>>
                            /\ r[1] \in 1 .. (NumElm - 1)
                            /\ r[2] \in 1 .. r[1]
ASSUME ThreadAssumption ==
  /\ Pushers \cap Poppers = {}
  /\ NULL \notin Pushers \cup Poppers
ASSUME LagAssumption == MaxLag \in Nat

Procs == Pushers \cup Poppers

VARIABLES
  Head, ReservedHead, Tail, ReservedTail,   \* the four ring indices
  LastReservedPush, LastReservedPop,        \* ends of the two commit lists
  OldIndex, ReadyFlag, NextInfo,            \* the threads' ReservationInfo
  oldLast,                                  \* local old_last of a thread at "link"
  num, peek,                                \* Num / PopNum and PeekNum
  lag,                                      \* history: slots the reserved index
                                            \* advanced since the thread read it
  pc                                        \* where each thread is

indices == <<Head, ReservedHead, Tail, ReservedTail>>
lists == <<LastReservedPush, LastReservedPop, ReadyFlag, NextInfo, oldLast>>
request == <<OldIndex, num, peek>>
vars == <<indices, lists, request, lag, pc>>

(* "limit": reserved index read, opposite limit not yet; "cas": checked,   *)
(* about to move the reserved index; "fas": slots reserved, about to enter *)
(* the commit list; "link": entered behind another one, not yet linked;    *)
(* "reserved": reserve returned 0, commit is tried until it returns 0;     *)
(* "wake": commit out of order, about to wake the next; "swap": committed, *)
(* about to leave the list; "handoff": leaving it to the next.             *)
PCs == {"idle", "retry", "limit", "cas", "fas", "link",
        "reserved", "wake", "swap", "handoff"}

Init ==
  /\ Head = 0 /\ ReservedHead = 0 /\ Tail = 0 /\ ReservedTail = 0
  /\ LastReservedPush = NULL /\ LastReservedPop = NULL
  /\ OldIndex = [p \in Procs |-> 0]
  /\ ReadyFlag = [p \in Procs |-> FALSE]
  /\ NextInfo = [p \in Procs |-> NULL]
  /\ oldLast = [p \in Procs |-> NULL]
  /\ num = [p \in Procs |-> 1]
  /\ peek = [p \in Procs |-> 1]
  /\ lag = [p \in Procs |-> 0]
  /\ pc = [p \in Procs |-> "idle"]

NewIndex(p) == advance(NumElm, OldIndex[p], num[p])

goto(p, from, to) == pc[p] = from /\ pc' = [pc EXCEPT ![p] = to]

(* The call of p is over: its locals are dead and take their first values. *)
forgetRequest(p) ==
  /\ OldIndex' = [OldIndex EXCEPT ![p] = 0]
  /\ num' = [num EXCEPT ![p] = 1]
  /\ peek' = [peek EXCEPT ![p] = 1]

(* p's snapshot of the reserved index is dead: forget how old it was.      *)
dropSnapshot(p) == lag' = [lag EXCEPT ![p] = 0]

(* The threads of S that hold a snapshot of the reserved index p moves.    *)
Snapshots(S, p) == { q \in S \ {p} : pc[q] \in {"limit", "cas"} }

(* p moves the reserved index of its side S by num[p]; no thread may sleep *)
(* between its read and its CAS for more than MaxLag slots.                *)
outrun(S, p) ==
  /\ \A q \in Snapshots(S, p) : lag[q] + num[p] <= MaxLag
  /\ lag' = [q \in Procs |->
               IF q \in Snapshots(S, p) THEN lag[q] + num[p]
               ELSE IF q = p THEN 0 ELSE lag[q]]

-----------------------------------------------------------------------------
(* Steps that both sides share.                                            *)

(* The reserve call gives up: -EWOULDBLOCK or -EBUSY.                      *)
giveUp(p) ==
  /\ goto(p, "limit", "idle")
  /\ dropSnapshot(p)
  /\ forgetRequest(p)
  /\ UNCHANGED lists

(* RevInfo.ReadyFlag = 0, RevInfo.Next = NULL, ahead of the CAS.           *)
setRevInfo(p) ==
  /\ goto(p, "limit", "cas")
  /\ ReadyFlag' = [ReadyFlag EXCEPT ![p] = FALSE]
  /\ NextInfo' = [NextInfo EXCEPT ![p] = NULL]
  /\ UNCHANGED <<LastReservedPush, LastReservedPop, oldLast, request, lag>>

(* After the FAS returned `last`: the first of a list is ready at once.    *)
enter(p, last) ==
  /\ goto(p, "fas", IF last = NULL THEN "reserved" ELSE "link")
  /\ ReadyFlag' = [ReadyFlag EXCEPT ![p] = @ \/ last = NULL]
  /\ oldLast' = [oldLast EXCEPT ![p] = last]
  /\ UNCHANGED <<indices, NextInfo, request, lag>>

(* old_last->Next = &RevInfo                                               *)
linkBehind(p) ==
  /\ goto(p, "link", "reserved")
  /\ NextInfo' = [NextInfo EXCEPT ![oldLast[p]] = p]
  /\ oldLast' = [oldLast EXCEPT ![p] = NULL]
  /\ UNCHANGED <<indices, LastReservedPush, LastReservedPop, ReadyFlag, request, lag>>

(* Slip: a committer out of order does not wake its successor.             *)
retryWithoutWaking(p) ==
  /\ goto(p, "wake", "reserved")
  /\ UNCHANGED <<indices, lists, request, lag>>

(* The commit CAS failed: if (RevInfo.Next) RevInfo.Next->ReadyFlag = 1,   *)
(* -EBUSY, and the caller tries again later.                               *)
wakeNextAndRetry(p) ==
  /\ goto(p, "wake", "reserved")
  /\ ReadyFlag' = [q \in Procs |-> ReadyFlag[q] \/ q = NextInfo[p]]
  /\ UNCHANGED <<indices, LastReservedPush, LastReservedPop, NextInfo, oldLast,
                 request, lag>>

(* while (!RevInfo.Next); RevInfo.Next->ReadyFlag = 1; commit returns 0.   *)
handOff(p) ==
  /\ NextInfo[p] # NULL
  /\ goto(p, "handoff", "idle")
  /\ ReadyFlag' = [ReadyFlag EXCEPT ![NextInfo[p]] = TRUE]
  /\ forgetRequest(p)
  /\ UNCHANGED <<indices, LastReservedPush, LastReservedPop, NextInfo, oldLast, lag>>

-----------------------------------------------------------------------------
(* reservePushN and commitPush                                             *)

(* r_tail = ReservedTail, on the call and on every retry.                  *)
readReservedTail(p) ==
  \E n \in PushNums :
    /\ pc[p] = "idle" \/ (pc[p] = "retry" /\ n = num[p])
    /\ pc' = [pc EXCEPT ![p] = "limit"]
    /\ OldIndex' = [OldIndex EXCEPT ![p] = ReservedTail]
    /\ num' = [num EXCEPT ![p] = n]
    /\ peek' = [peek EXCEPT ![p] = n]
    /\ UNCHANGED <<indices, lists, lag>>

(* head = Head, the room check, the ticket check, RevInfo.                 *)
checkRoom(p) ==
  \E isMyTurn \in BOOLEAN :
    LET reserve == haveEnoughRoom(NumElm, OldIndex[p], Head, num[p]) /\ isMyTurn
    IN  /\ \/ ~reserve /\ giveUp(p)
           \/ reserve /\ setRevInfo(p)
        /\ UNCHANGED indices

(* Slip: the reserved tail is stored, not compared and swapped.            *)
storeReservedTail(p) ==
  /\ goto(p, "cas", "fas")
  /\ ReservedTail' = NewIndex(p)
  /\ outrun(Pushers, p)
  /\ UNCHANGED <<Head, ReservedHead, Tail, lists, request>>

(* casInt(&ReservedTail, r_tail, new_r_tail), or goto retry.               *)
casReservedTail(p) ==
  /\ \/ /\ ReservedTail = OldIndex[p]
        /\ goto(p, "cas", "fas")
        /\ ReservedTail' = NewIndex(p)
        /\ outrun(Pushers, p)
     \/ /\ ReservedTail # OldIndex[p]
        /\ goto(p, "cas", "retry")
        /\ dropSnapshot(p)
        /\ UNCHANGED ReservedTail
  /\ UNCHANGED <<Head, ReservedHead, Tail, lists, request>>

(* fasWord(&LastReservedPush, &RevInfo)                                    *)
fasLastReservedPush(p) ==
  /\ LastReservedPush' = p
  /\ enter(p, LastReservedPush)
  /\ UNCHANGED LastReservedPop

(* Slip: a ready committer stores Tail without comparing it.               *)
storeTail(p) ==
  /\ ReadyFlag[p]
  /\ goto(p, "reserved", "swap")
  /\ Tail' = NewIndex(p)
  /\ UNCHANGED <<Head, ReservedHead, ReservedTail, lists, request, lag>>

(* ReadyFlag is set: casInt(&Tail, RevInfo.OldIndex, RevInfo.NewIndex).    *)
(* Without the flag commitPush returns -EBUSY and changes nothing.         *)
casTail(p) ==
  /\ ReadyFlag[p]
  /\ \/ /\ Tail = OldIndex[p]
        /\ goto(p, "reserved", "swap")
        /\ Tail' = NewIndex(p)
     \/ /\ Tail # OldIndex[p]
        /\ goto(p, "reserved", "wake")
        /\ UNCHANGED Tail
  /\ UNCHANGED <<Head, ReservedHead, ReservedTail, lists, request, lag>>

(* casWord(&LastReservedPush, &RevInfo, NULL)                              *)
leavePushList(p) ==
  /\ \/ /\ LastReservedPush = p
        /\ LastReservedPush' = NULL
        /\ goto(p, "swap", "idle")
        /\ forgetRequest(p)
     \/ /\ LastReservedPush # p
        /\ goto(p, "swap", "handoff")
        /\ UNCHANGED <<LastReservedPush, request>>
  /\ UNCHANGED <<indices, LastReservedPop, ReadyFlag, NextInfo, oldLast, lag>>

reservePushN(p) ==
  \/ readReservedTail(p) \/ checkRoom(p) \/ casReservedTail(p)
  \/ fasLastReservedPush(p) \/ linkBehind(p)

commitPush(p) ==
  casTail(p) \/ leavePushList(p) \/ wakeNextAndRetry(p) \/ handOff(p)

-----------------------------------------------------------------------------
(* reservePeekPopN and commitPeekPop; reservePopN and commitPop are these  *)
(* with PeekNum = PopNum.                                                  *)

(* r_head = ReservedHead, on the call and on every retry.                  *)
readReservedHead(p) ==
  \E r \in PopRequests :
    /\ pc[p] = "idle" \/ (pc[p] = "retry" /\ r = <<peek[p], num[p]>>)
    /\ pc' = [pc EXCEPT ![p] = "limit"]
    /\ OldIndex' = [OldIndex EXCEPT ![p] = ReservedHead]
    /\ num' = [num EXCEPT ![p] = r[2]]
    /\ peek' = [peek EXCEPT ![p] = r[1]]
    /\ UNCHANGED <<indices, lists, lag>>

(* tail = Tail, the data check, the ticket check, RevInfo.                 *)
checkData(p) ==
  \E isMyTurn \in BOOLEAN :
    LET reserve == haveEnoughData(NumElm, OldIndex[p], Tail, peek[p]) /\ isMyTurn
    IN  /\ \/ ~reserve /\ giveUp(p)
           \/ reserve /\ setRevInfo(p)
        /\ UNCHANGED indices

(* casInt(&ReservedHead, r_head, new_r_head), or goto retry.               *)
casReservedHead(p) ==
  /\ \/ /\ ReservedHead = OldIndex[p]
        /\ goto(p, "cas", "fas")
        /\ ReservedHead' = NewIndex(p)
        /\ outrun(Poppers, p)
     \/ /\ ReservedHead # OldIndex[p]
        /\ goto(p, "cas", "retry")
        /\ dropSnapshot(p)
        /\ UNCHANGED ReservedHead
  /\ UNCHANGED <<Head, Tail, ReservedTail, lists, request>>

(* fasWord(&LastReservedPop, &RevInfo)                                     *)
fasLastReservedPop(p) ==
  /\ LastReservedPop' = p
  /\ enter(p, LastReservedPop)
  /\ UNCHANGED LastReservedPush

(* ReadyFlag is set: casInt(&Head, RevInfo.OldIndex, RevInfo.NewIndex).    *)
casHead(p) ==
  /\ ReadyFlag[p]
  /\ \/ /\ Head = OldIndex[p]
        /\ goto(p, "reserved", "swap")
        /\ Head' = NewIndex(p)
     \/ /\ Head # OldIndex[p]
        /\ goto(p, "reserved", "wake")
        /\ UNCHANGED Head
  /\ UNCHANGED <<Tail, ReservedHead, ReservedTail, lists, request, lag>>

(* casWord(&LastReservedPop, &RevInfo, NULL)                               *)
leavePopList(p) ==
  /\ \/ /\ LastReservedPop = p
        /\ LastReservedPop' = NULL
        /\ goto(p, "swap", "idle")
        /\ forgetRequest(p)
     \/ /\ LastReservedPop # p
        /\ goto(p, "swap", "handoff")
        /\ UNCHANGED <<LastReservedPop, request>>
  /\ UNCHANGED <<indices, LastReservedPush, ReadyFlag, NextInfo, oldLast, lag>>

reservePeekPopN(p) ==
  \/ readReservedHead(p) \/ checkData(p) \/ casReservedHead(p)
  \/ fasLastReservedPop(p) \/ linkBehind(p)

commitPeekPop(p) ==
  casHead(p) \/ leavePopList(p) \/ wakeNextAndRetry(p) \/ handOff(p)

-----------------------------------------------------------------------------
Next ==
  \/ \E p \in Pushers : reservePushN(p) \/ commitPush(p)
  \/ \E p \in Poppers : reservePeekPopN(p) \/ commitPeekPop(p)

Spec == Init /\ [][Next]_vars

-----------------------------------------------------------------------------
(* Properties                                                              *)

(* Between a successful CAS of the reserved index and a successful CAS of  *)
(* the committed one, p may touch the slots of its window.                 *)
HasWindow(p) == pc[p] \in {"fas", "link", "reserved", "wake"}

Dist(a, b) == getNumFilledElements(NumElm, a, b)

(* The variables have their types.                                         *)
TypeOK ==
  /\ {Head, ReservedHead, Tail, ReservedTail} \subseteq 0 .. (NumElm - 1)
  /\ LastReservedPush \in Pushers \cup {NULL}
  /\ LastReservedPop \in Poppers \cup {NULL}
  /\ OldIndex \in [Procs -> 0 .. (NumElm - 1)]
  /\ ReadyFlag \in [Procs -> BOOLEAN]
  /\ NextInfo \in [Procs -> Procs \cup {NULL}]
  /\ oldLast \in [Procs -> Procs \cup {NULL}]
  /\ num \in [Procs -> 1 .. (NumElm - 1)]
  /\ peek \in [Procs -> 1 .. (NumElm - 1)]
  /\ lag \in [Procs -> 0 .. MaxLag]
  /\ pc \in [Procs -> PCs]

(* Round the ring the four indices stay in the order that the comment of   *)
(* getNumFilledElements draws, { Head, ReservedHead, Tail, ReservedTail }, *)
(* within one lap: the check-then-CAS of the reserve calls never lets the  *)
(* queue hold more than NumElm - 1 slots nor pop more than was committed.  *)
RingOrder ==
  Dist(Head, ReservedHead) + Dist(ReservedHead, Tail) + Dist(Tail, ReservedTail)
    < NumElm

(* While two threads hold windows at the same time nobody writes a slot    *)
(* that another one reads or writes: pushers have disjoint windows, no     *)
(* pusher writes into the peeked range of a popper before that popper's    *)
(* commit, and no element is popped twice.                                 *)
NoSlotRace ==
  \A p, q \in Procs :
    (p # q /\ HasWindow(p) /\ HasWindow(q)) =>
      LET slots(x, n) == windowSlots(window(NumElm, OldIndex[x], n))
      IN  IF p \in Poppers /\ q \in Poppers
          THEN slots(p, num[p]) \cap slots(q, num[q]) = {}
          ELSE slots(p, peek[p]) \cap slots(q, peek[q]) = {}

(* What a thread between its read and its CAS knows: how far its snapshot  *)
(* is behind, and, if it is not behind at all, that the room or the data   *)
(* it found is still there, whatever the other side did in between.        *)
SnapshotsHold ==
  \A p \in Procs :
    /\ pc[p] \notin {"limit", "cas"} => lag[p] = 0
    /\ pc[p] \in {"limit", "cas"} =>
         advance(NumElm, OldIndex[p], lag[p])
           = (IF p \in Pushers THEN ReservedTail ELSE ReservedHead)
    /\ (pc[p] = "cas" /\ lag[p] = 0) =>
         IF p \in Pushers THEN Dist(Head, ReservedTail) + num[p] < NumElm
                          ELSE Dist(ReservedHead, Tail) >= peek[p]
    /\ num[p] <= peek[p]
    /\ p \in Pushers => num[p] = peek[p]

(* Offset of p's window from the committed index of its side.              *)
Offset(p) == Dist(IF p \in Pushers THEN Tail ELSE Head, OldIndex[p])

(* Every open window lies between the committed and the reserved index of  *)
(* its side, what a popper peeks at is committed, and two windows of a     *)
(* side follow one another.                                                *)
WindowsOrdered ==
  /\ \A p \in Pushers :
       HasWindow(p) => Offset(p) + num[p] <= Dist(Tail, ReservedTail)
  /\ \A p \in Poppers :
       HasWindow(p) => /\ Offset(p) + num[p] <= Dist(Head, ReservedHead)
                       /\ Offset(p) + peek[p] <= Dist(Head, Tail)
  /\ \A p, q \in Procs :
       (p # q /\ (p \in Pushers <=> q \in Pushers) /\ HasWindow(p) /\ HasWindow(q))
         => \/ Offset(p) + num[p] <= Offset(q)
            \/ Offset(q) + num[q] <= Offset(p)

(* The inductive invariant behind RingOrder and NoSlotRace.                *)
IndInv == TypeOK /\ RingOrder /\ SnapshotsHold /\ WindowsOrdered

(* The queue implements the FIFO reserve/commit contract: runs are granted *)
(* within capacity and committed in the order of their reservation, in     *)
(* whatever order the threads entered the commit list.                     *)
Abs == INSTANCE ReserveCommitSpec WITH
  Capacity <- NumElm - 1,
  filled <- Dist(ReservedHead, Tail),
  pushing <- Dist(Tail, ReservedTail),
  popping <- Dist(Head, ReservedHead),
  open <- [p \in Procs |-> HasWindow(p)],
  ahead <- [p \in Procs |->
              IF ~HasWindow(p) THEN 0
              ELSE Dist(IF p \in Pushers THEN Tail ELSE Head, OldIndex[p])],
  size <- [p \in Procs |-> IF HasWindow(p) THEN num[p] ELSE 0]

ImplementsReserveCommit == Abs!Spec

(* Every thread keeps running: the native threads are scheduled by the     *)
(* kernel and the callers of commit retry until it returns 0.              *)
Fairness ==
  /\ \A p \in Pushers : WF_vars(commitPush(p) \/ fasLastReservedPush(p) \/ linkBehind(p))
  /\ \A p \in Poppers : WF_vars(commitPeekPop(p) \/ fasLastReservedPop(p) \/ linkBehind(p))

FairSpec == Spec /\ Fairness

(* A thread that reserved gets its commit through, although the wake-up    *)
(* chain follows the order of the list and not that of the indices: no     *)
(* wake-up is lost and nobody waits for ever for a successor's link.       *)
CommitsEventually ==
  \A p \in Procs : []<>(pc[p] \in {"idle", "retry", "limit", "cas"})

(* Comment on commitPush: the committer that leaves the list wakes up "the *)
(* next waiting committer": the ReservationInfo it writes to is in use.    *)
(* Does not hold when the order of the list is not that of the indices.    *)
WakesOnlyWaiting ==
  \A p \in Procs :
    (pc[p] \in {"wake", "handoff"} /\ NextInfo[p] # NULL) =>
       pc[NextInfo[p]] \in {"reserved", "wake", "swap", "handoff"}
=============================================================================

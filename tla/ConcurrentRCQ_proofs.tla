------------------------ MODULE ConcurrentRCQ_proofs ------------------------
(***************************************************************************)
(* Proofs about the lock-free reserve/commit queue, for any number of      *)
(* pushers and poppers, any ring size and any request sizes.               *)
(***************************************************************************)
EXTENDS ConcurrentRCQ, RingIndex_proofs, TLAPS

(* The actions of Next, one disjunct per step of the code.                 *)
LEMMA NextCases ==
  ASSUME Next
  PROVE  \/ \E p \in Pushers : \/ readReservedTail(p) \/ checkRoom(p)
                               \/ casReservedTail(p) \/ fasLastReservedPush(p)
                               \/ casTail(p) \/ leavePushList(p)
         \/ \E p \in Poppers : \/ readReservedHead(p) \/ checkData(p)
                               \/ casReservedHead(p) \/ fasLastReservedPop(p)
                               \/ casHead(p) \/ leavePopList(p)
         \/ \E p \in Procs : linkBehind(p) \/ wakeNextAndRetry(p) \/ handOff(p)
  BY DEF Next, reservePushN, commitPush, reservePeekPopN, commitPeekPop, Procs

LEMMA TypeStep ==
  ASSUME TypeOK, [Next]_vars
  PROVE  TypeOK'
<1> USE NumElmAssumption, RequestAssumption, ThreadAssumption, LagAssumption
<1> USE DEF TypeOK, Procs, PCs, indices, lists, request
<1>1. ASSUME NEW p \in Pushers, readReservedTail(p) PROVE TypeOK'
  BY <1>1 DEF readReservedTail
<1>2. ASSUME NEW p \in Pushers, checkRoom(p) PROVE TypeOK'
  <2>1. UNCHANGED indices /\ (giveUp(p) \/ setRevInfo(p))
    BY <1>2 DEF checkRoom
  <2>2. CASE giveUp(p)
    BY <2>1, <2>2 DEF giveUp, goto, dropSnapshot, forgetRequest
  <2>3. CASE setRevInfo(p)
    BY <2>1, <2>3 DEF setRevInfo, goto
  <2>4. QED
    BY <2>1, <2>2, <2>3
<1>3. ASSUME NEW p \in Pushers, casReservedTail(p) PROVE TypeOK'
  <2>1. NewIndex(p) \in 0 .. (NumElm - 1)
    BY AdvanceInRing DEF NewIndex
  <2>2. QED
    BY <1>3, <2>1 DEF casReservedTail, goto, dropSnapshot, outrun, Snapshots
<1>4. ASSUME NEW p \in Pushers, fasLastReservedPush(p) PROVE TypeOK'
  BY <1>4 DEF fasLastReservedPush, enter, goto
<1>5. ASSUME NEW p \in Pushers, casTail(p) PROVE TypeOK'
  <2>1. NewIndex(p) \in 0 .. (NumElm - 1)
    BY AdvanceInRing DEF NewIndex
  <2>2. QED
    BY <1>5, <2>1 DEF casTail, goto
<1>6. ASSUME NEW p \in Pushers, leavePushList(p) PROVE TypeOK'
  BY <1>6 DEF leavePushList, goto, forgetRequest
<1>7. ASSUME NEW p \in Poppers, readReservedHead(p) PROVE TypeOK'
  BY <1>7 DEF readReservedHead
<1>8. ASSUME NEW p \in Poppers, checkData(p) PROVE TypeOK'
  <2>1. UNCHANGED indices /\ (giveUp(p) \/ setRevInfo(p))
    BY <1>8 DEF checkData
  <2>2. CASE giveUp(p)
    BY <2>1, <2>2 DEF giveUp, goto, dropSnapshot, forgetRequest
  <2>3. CASE setRevInfo(p)
    BY <2>1, <2>3 DEF setRevInfo, goto
  <2>4. QED
    BY <2>1, <2>2, <2>3
<1>9. ASSUME NEW p \in Poppers, casReservedHead(p) PROVE TypeOK'
  <2>1. NewIndex(p) \in 0 .. (NumElm - 1)
    BY AdvanceInRing DEF NewIndex
  <2>2. QED
    BY <1>9, <2>1 DEF casReservedHead, goto, dropSnapshot, outrun, Snapshots
<1>10. ASSUME NEW p \in Poppers, fasLastReservedPop(p) PROVE TypeOK'
  BY <1>10 DEF fasLastReservedPop, enter, goto
<1>11. ASSUME NEW p \in Poppers, casHead(p) PROVE TypeOK'
  <2>1. NewIndex(p) \in 0 .. (NumElm - 1)
    BY AdvanceInRing DEF NewIndex
  <2>2. QED
    BY <1>11, <2>1 DEF casHead, goto
<1>12. ASSUME NEW p \in Poppers, leavePopList(p) PROVE TypeOK'
  BY <1>12 DEF leavePopList, goto, forgetRequest
<1>13. ASSUME NEW p \in Procs, linkBehind(p) PROVE TypeOK'
  BY <1>13 DEF linkBehind, goto
<1>14. ASSUME NEW p \in Procs, wakeNextAndRetry(p) PROVE TypeOK'
  BY <1>14 DEF wakeNextAndRetry, goto
<1>15. ASSUME NEW p \in Procs, handOff(p) PROVE TypeOK'
  BY <1>15 DEF handOff, goto, forgetRequest
<1>16. CASE UNCHANGED vars
  BY <1>16 DEF vars
<1>17. QED
  BY <1>1, <1>2, <1>3, <1>4, <1>5, <1>6, <1>7, <1>8, <1>9, <1>10, <1>11, <1>12,
     <1>13, <1>14, <1>15, <1>16, NextCases

(* Every reachable state of the queue is well typed: indices stay inside   *)
(* the ring, list ends and snapshots keep their ranges, for all constants. *)
THEOREM TypeCorrect == Spec => []TypeOK
<1>1. Init => TypeOK
  BY NumElmAssumption, LagAssumption DEF Init, TypeOK, PCs, Procs
<1>2. TypeOK /\ [Next]_vars => TypeOK'
  BY TypeStep
<1>3. QED
  BY <1>1, <1>2, PTL DEF Spec

-----------------------------------------------------------------------------
(* Steps of both sides that move no index: they keep windows and snapshots *)
(* or drop them, and touch the request of a thread only when it holds none.*)
LEMMA QuietStep ==
  ASSUME IndInv, TypeOK', UNCHANGED <<indices, lag>>,
         \A q \in Procs :
           /\ pc'[q] \in {"limit", "cas"} <=> pc[q] \in {"limit", "cas"}
           /\ pc'[q] = "cas" => pc[q] = "cas"
           /\ HasWindow(q)' => HasWindow(q)
           /\ \/ UNCHANGED <<OldIndex[q], num[q], peek[q]>>
              \/ /\ pc'[q] \notin {"limit", "cas"} /\ ~HasWindow(q)'
                 /\ num'[q] = 1 /\ peek'[q] = 1
  PROVE  IndInv'
<1> USE DEF indices
<1>1. RingOrder'
  BY DEF IndInv, RingOrder, Dist
<1>2. SnapshotsHold'
  BY DEF IndInv, SnapshotsHold, Dist
<1>3. WindowsOrdered'
  BY DEF IndInv, WindowsOrdered, Offset, Dist, Procs
<1>4. QED
  BY <1>1, <1>2, <1>3 DEF IndInv

(* The first read of a reserve call, on either side.                       *)
LEMMA ReadStep ==
  ASSUME IndInv, TypeOK', NEW p \in Procs, UNCHANGED <<indices, lag>>,
         pc[p] \in {"idle", "retry"}, pc' = [pc EXCEPT ![p] = "limit"],
         \A q \in Procs \ {p} : UNCHANGED <<OldIndex[q], num[q], peek[q]>>,
         OldIndex'[p] = (IF p \in Pushers THEN ReservedTail ELSE ReservedHead),
         num'[p] <= peek'[p], p \in Pushers => num'[p] = peek'[p]
  PROVE  IndInv'
<1> USE DEF indices
<1>1. pc'[p] = "limit" /\ \A q \in Procs \ {p} : pc'[q] = pc[q]
  BY DEF IndInv, TypeOK
<1>2. RingOrder'
  BY DEF IndInv, RingOrder, Dist
<1>3. SnapshotsHold'
  <2>1. lag'[p] = 0 /\ advance(NumElm, OldIndex'[p], 0) = OldIndex'[p]
    BY NumElmAssumption DEF IndInv, SnapshotsHold, TypeOK, advance
  <2>2. QED
    BY <1>1, <2>1 DEF IndInv, SnapshotsHold, Dist
<1>4. WindowsOrdered'
  <2>1. ~HasWindow(p)' /\ \A q \in Procs \ {p} : HasWindow(q)' <=> HasWindow(q)
    BY <1>1 DEF HasWindow
  <2>2. \A q \in Procs \ {p} : Offset(q)' = Offset(q)
    BY DEF Offset, Dist
  <2>3. QED
    BY <2>1, <2>2 DEF IndInv, WindowsOrdered, Procs, Dist
<1>5. QED
  BY <1>2, <1>3, <1>4 DEF IndInv

(* A reserve call that gives up, or whose CAS fails: the snapshot is gone. *)
LEMMA DropStep ==
  ASSUME IndInv, TypeOK', NEW p \in Procs, UNCHANGED indices,
         pc[p] \in {"limit", "cas"}, pc'[p] \in {"idle", "retry"},
         pc' = [pc EXCEPT ![p] = pc'[p]], lag' = [lag EXCEPT ![p] = 0],
         \A q \in Procs \ {p} : UNCHANGED <<OldIndex[q], num[q], peek[q]>>,
         num'[p] <= peek'[p], p \in Pushers => num'[p] = peek'[p]
  PROVE  IndInv'
<1> USE DEF indices
<1>1. \A q \in Procs \ {p} : pc'[q] = pc[q] /\ lag'[q] = lag[q]
  BY DEF IndInv, TypeOK
<1>2. RingOrder'
  BY DEF IndInv, RingOrder, Dist
<1>3. SnapshotsHold'
  <2>1. lag'[p] = 0
    BY DEF IndInv, TypeOK
  <2>2. QED
    BY <1>1, <2>1 DEF IndInv, SnapshotsHold, Dist
<1>4. WindowsOrdered'
  <2>1. ~HasWindow(p)' /\ \A q \in Procs \ {p} : HasWindow(q)' <=> HasWindow(q)
    BY <1>1 DEF HasWindow
  <2>2. \A q \in Procs \ {p} : Offset(q)' = Offset(q)
    BY DEF Offset, Dist
  <2>3. QED
    BY <2>1, <2>2 DEF IndInv, WindowsOrdered, Procs, Dist
<1>5. QED
  BY <1>2, <1>3, <1>4 DEF IndInv

(* The check passed: if the snapshot is fresh, the room or the data the    *)
(* thread found is there now.                                              *)
LEMMA CheckedStep ==
  ASSUME IndInv, TypeOK', NEW p \in Procs, UNCHANGED <<indices, request, lag>>,
         pc[p] = "limit", pc' = [pc EXCEPT ![p] = "cas"],
         IF p \in Pushers THEN haveEnoughRoom(NumElm, OldIndex[p], Head, num[p])
                          ELSE haveEnoughData(NumElm, OldIndex[p], Tail, peek[p])
  PROVE  IndInv'
<1> USE DEF indices, request
<1>1. pc'[p] = "cas" /\ \A q \in Procs \ {p} : pc'[q] = pc[q]
  BY DEF IndInv, TypeOK
<1>2. RingOrder'
  BY DEF IndInv, RingOrder, Dist
<1>3. SnapshotsHold'
  <2>1. ASSUME lag[p] = 0, p \in Pushers
        PROVE  Dist(Head, ReservedTail) + num[p] < NumElm
    <3>1. OldIndex[p] = ReservedTail
      BY <2>1, NumElmAssumption DEF IndInv, SnapshotsHold, TypeOK, advance
    <3>2. QED
      BY <2>1, <3>1, RoomIsDistance, NumElmAssumption DEF IndInv, TypeOK, Dist
  <2>2. ASSUME lag[p] = 0, p \notin Pushers
        PROVE  Dist(ReservedHead, Tail) >= peek[p]
    <3>1. OldIndex[p] = ReservedHead
      BY <2>2, NumElmAssumption DEF IndInv, SnapshotsHold, TypeOK, advance
    <3>2. QED
      BY <2>2, <3>1, DataIsDistance, NumElmAssumption DEF IndInv, TypeOK, Dist
  <2>3. QED
    BY <1>1, <2>1, <2>2 DEF IndInv, SnapshotsHold, Dist
<1>4. WindowsOrdered'
  <2>1. ~HasWindow(p)' /\ \A q \in Procs \ {p} : HasWindow(q)' <=> HasWindow(q)
    BY <1>1 DEF HasWindow
  <2>2. \A q \in Procs \ {p} : Offset(q)' = Offset(q)
    BY DEF Offset, Dist
  <2>3. QED
    BY <2>1, <2>2 DEF IndInv, WindowsOrdered, Procs, Dist
<1>5. QED
  BY <1>2, <1>3, <1>4 DEF IndInv

(* Ring order in the form the steps use it: distances along the ring add   *)
(* up to the distance from Head to ReservedTail.                           *)
LEMMA RingSums ==
  ASSUME TypeOK, RingOrder
  PROVE  /\ Dist(Head, ReservedHead) \in 0 .. (NumElm - 1)
         /\ Dist(ReservedHead, Tail) \in 0 .. (NumElm - 1)
         /\ Dist(Tail, ReservedTail) \in 0 .. (NumElm - 1)
         /\ Dist(Head, Tail) = Dist(Head, ReservedHead) + Dist(ReservedHead, Tail)
         /\ Dist(Head, ReservedTail) = Dist(Head, Tail) + Dist(Tail, ReservedTail)
<1> USE NumElmAssumption DEF TypeOK, RingOrder, Dist
<1>1. /\ Dist(Head, ReservedHead) \in 0 .. (NumElm - 1)
      /\ Dist(ReservedHead, Tail) \in 0 .. (NumElm - 1)
      /\ Dist(Tail, ReservedTail) \in 0 .. (NumElm - 1)
  BY DistType
<1>2. Dist(Head, Tail) = Dist(Head, ReservedHead) + Dist(ReservedHead, Tail)
  BY <1>1, DistAdd
<1>3. Dist(Head, ReservedTail) = Dist(Head, Tail) + Dist(Tail, ReservedTail)
  BY <1>1, <1>2, DistAdd
<1>4. QED
  BY <1>1, <1>2, <1>3

(* A CAS on a reserved index that succeeds finds the index where the       *)
(* thread read it and never moved: a lap is longer than MaxLag.            *)
LEMMA FreshSnapshot ==
  ASSUME MaxLag < NumElm, IndInv, NEW p \in Procs, pc[p] = "cas",
         OldIndex[p] = (IF p \in Pushers THEN ReservedTail ELSE ReservedHead)
  PROVE  lag[p] = 0
<1>1. advance(NumElm, OldIndex[p], lag[p]) = OldIndex[p]
  BY DEF IndInv, SnapshotsHold
<1>2. lag[p] \in 0 .. (NumElm - 1) /\ OldIndex[p] \in 0 .. (NumElm - 1)
  BY NumElmAssumption, LagAssumption DEF IndInv, TypeOK
<1>3. QED
  BY <1>1, <1>2, NumElmAssumption DEF advance

(* The snapshots of the others after p moved its side's reserved index.    *)
LEMMA OutrunSnapshots ==
  ASSUME MaxLag < NumElm, IndInv, NEW S \in {Pushers, Poppers}, NEW p \in S,
         outrun(S, p), NEW q \in S \ {p}, pc[q] \in {"limit", "cas"}
  PROVE  /\ lag'[q] > 0
         /\ advance(NumElm, OldIndex[q], lag'[q])
              = advance(NumElm, advance(NumElm, OldIndex[q], lag[q]), num[p])
<1>1. /\ lag[q] \in 0 .. MaxLag /\ num[p] \in 1 .. (NumElm - 1)
      /\ OldIndex[q] \in 0 .. (NumElm - 1)
  BY DEF IndInv, TypeOK, Procs
<1>2. lag[q] + num[p] <= MaxLag /\ lag'[q] = lag[q] + num[p]
  BY DEF outrun, Snapshots, Procs
<1>3. QED
  BY <1>1, <1>2, AdvanceTwice, NumElmAssumption, LagAssumption

(* What a successful CAS of ReservedTail finds and does: the room is there *)
(* now, and the distances to the reserved tail grow by num.                *)
LEMMA ReservePushMoves ==
  ASSUME MaxLag < NumElm, IndInv, NEW p \in Pushers,
         casReservedTail(p), ReservedTail = OldIndex[p]
  PROVE  /\ pc[p] = "cas" /\ pc' = [pc EXCEPT ![p] = "fas"]
         /\ ReservedTail' = advance(NumElm, ReservedTail, num[p])
         /\ outrun(Pushers, p)
         /\ UNCHANGED <<Head, ReservedHead, Tail, OldIndex, num, peek>>
         /\ pc'[p] = "fas" /\ \A q \in Procs \ {p} : pc'[q] = pc[q]
         /\ Dist(Head, ReservedTail) + num[p] < NumElm
         /\ num[p] \in 1 .. (NumElm - 1)
         /\ Dist(Tail, ReservedTail') = Dist(Tail, ReservedTail) + num[p]
         /\ Dist(Head, ReservedTail') = Dist(Head, ReservedTail) + num[p]
<1>0. p \in Procs /\ \A q \in Poppers : q \notin Pushers
  BY ThreadAssumption DEF Procs
<1>1. /\ pc[p] = "cas" /\ pc' = [pc EXCEPT ![p] = "fas"]
      /\ ReservedTail' = advance(NumElm, ReservedTail, num[p])
      /\ outrun(Pushers, p)
      /\ UNCHANGED <<Head, ReservedHead, Tail, OldIndex, num, peek>>
  BY DEF casReservedTail, goto, NewIndex, request
<1>2. pc'[p] = "fas" /\ \A q \in Procs \ {p} : pc'[q] = pc[q]
  BY <1>0, <1>1 DEF IndInv, TypeOK
<1>3. Dist(Head, ReservedTail) + num[p] < NumElm
  <2>1. lag[p] = 0
    BY <1>0, <1>1, FreshSnapshot
  <2>2. QED
    BY <1>0, <1>1, <2>1 DEF IndInv, SnapshotsHold
<1>4. /\ num[p] \in 1 .. (NumElm - 1)
      /\ Dist(Tail, ReservedTail') = Dist(Tail, ReservedTail) + num[p]
      /\ Dist(Head, ReservedTail') = Dist(Head, ReservedTail) + num[p]
  <2>1. num[p] \in 1 .. (NumElm - 1) /\ Dist(Tail, ReservedTail) + num[p] < NumElm
    BY <1>0, <1>3, RingSums, NumElmAssumption DEF IndInv, TypeOK
  <2>2. QED
    BY <1>1, <1>3, <2>1, DistGrow, NumElmAssumption DEF IndInv, TypeOK, Dist
<1>5. QED
  BY <1>1, <1>2, <1>3, <1>4

LEMMA ReservePushStep ==
  ASSUME MaxLag < NumElm, IndInv, TypeOK', NEW p \in Pushers,
         casReservedTail(p), ReservedTail = OldIndex[p]
  PROVE  IndInv'
<1>0. p \in Procs /\ \A q \in Poppers : q \notin Pushers
  BY ThreadAssumption DEF Procs
<1>1. /\ pc[p] = "cas" /\ pc' = [pc EXCEPT ![p] = "fas"]
      /\ ReservedTail' = advance(NumElm, ReservedTail, num[p])
      /\ outrun(Pushers, p)
      /\ UNCHANGED <<Head, ReservedHead, Tail, OldIndex, num, peek>>
  BY ReservePushMoves
<1>2. pc'[p] = "fas" /\ \A q \in Procs \ {p} : pc'[q] = pc[q]
  BY ReservePushMoves
<1>3. Dist(Head, ReservedTail) + num[p] < NumElm
  BY ReservePushMoves
<1>4. /\ num[p] \in 1 .. (NumElm - 1)
      /\ Dist(Tail, ReservedTail') = Dist(Tail, ReservedTail) + num[p]
      /\ Dist(Head, ReservedTail') = Dist(Head, ReservedTail) + num[p]
  BY ReservePushMoves
<1>5. RingOrder'
  <2>1. Dist(Head, ReservedHead) + Dist(ReservedHead, Tail) + Dist(Tail, ReservedTail')
          < NumElm
    BY <1>3, <1>4, RingSums, NumElmAssumption DEF IndInv
  <2>2. QED
    BY <1>1, <2>1 DEF RingOrder, Dist
<1>6. SnapshotsHold'
  <2> SUFFICES ASSUME NEW q \in Procs
               PROVE  /\ pc'[q] \notin {"limit", "cas"} => lag'[q] = 0
                      /\ pc'[q] \in {"limit", "cas"} =>
                           advance(NumElm, OldIndex[q], lag'[q])
                             = IF q \in Pushers THEN ReservedTail' ELSE ReservedHead
                      /\ (pc'[q] = "cas" /\ lag'[q] = 0) =>
                           IF q \in Pushers
                           THEN Dist(Head, ReservedTail') + num[q] < NumElm
                           ELSE Dist(ReservedHead, Tail) >= peek[q]
                      /\ num[q] <= peek[q]
                      /\ q \in Pushers => num[q] = peek[q]
    BY <1>1 DEF SnapshotsHold, Dist
  <2>1. CASE q = p
    BY <1>0, <1>1, <1>2, <2>1 DEF outrun, Snapshots, IndInv, SnapshotsHold, TypeOK
  <2>2. CASE q \in Pushers \ {p} /\ pc[q] \in {"limit", "cas"}
    BY <1>1, <1>2, <2>2, OutrunSnapshots DEF IndInv, SnapshotsHold
  <2>3. CASE q # p /\ ~(q \in Pushers /\ pc[q] \in {"limit", "cas"})
    <3>1. lag'[q] = lag[q] /\ pc'[q] = pc[q]
      BY <1>1, <1>2, <2>3 DEF outrun, Snapshots
    <3>2. QED
      BY <2>3, <3>1 DEF IndInv, SnapshotsHold
  <2>4. QED
    BY <2>1, <2>2, <2>3
<1>7. WindowsOrdered'
  <2>1. /\ HasWindow(p)'
        /\ \A q \in Procs \ {p} : HasWindow(q)' <=> HasWindow(q)
    BY <1>2 DEF HasWindow
  <2>2. \A q \in Procs : Offset(q)' = Offset(q)
    BY <1>1 DEF Offset, Dist
  <2>3. Offset(p) = Dist(Tail, ReservedTail)
    BY DEF Offset
  <2>4. \A q \in Procs : Offset(q) \in 0 .. (NumElm - 1) /\ num[q] \in 1 .. (NumElm - 1)
    BY DistType, NumElmAssumption DEF IndInv, TypeOK, Offset, Dist
  <2>5. \A q \in Pushers \ {p} :
          HasWindow(q) => /\ Offset(q) + num[q] <= Dist(Tail, ReservedTail)
                          /\ Offset(q) + num[q] <= Dist(Tail, ReservedTail')
    BY <1>4, <2>4, RingSums DEF IndInv, WindowsOrdered, Procs
  <2>6. \A q \in Pushers : HasWindow(q)' =>
          Offset(q)' + num'[q] <= Dist(Tail', ReservedTail')
    <3>1. Offset(p) + num[p] <= Dist(Tail, ReservedTail')
      BY <1>4, <2>3, RingSums, NumElmAssumption DEF IndInv
    <3>2. QED
      BY <1>1, <2>1, <2>2, <2>5, <3>1 DEF Procs
  <2>7. \A q \in Poppers : HasWindow(q)' =>
          /\ Offset(q)' + num'[q] <= Dist(Head', ReservedHead')
          /\ Offset(q)' + peek'[q] <= Dist(Head', Tail')
    BY <1>0, <1>1, <2>1, <2>2 DEF IndInv, WindowsOrdered, Procs
  <2>8. ASSUME NEW q \in Procs, NEW r \in Procs, q # r,
               q \in Pushers <=> r \in Pushers, HasWindow(q)', HasWindow(r)'
        PROVE  \/ Offset(q)' + num'[q] <= Offset(r)'
               \/ Offset(r)' + num'[r] <= Offset(q)'
    <3>1. CASE q = p
      BY <1>1, <2>1, <2>2, <2>3, <2>5, <2>8, <3>1
    <3>2. CASE r = p
      BY <1>1, <2>1, <2>2, <2>3, <2>5, <2>8, <3>2
    <3>3. CASE q # p /\ r # p
      BY <1>1, <2>1, <2>2, <2>8, <3>3 DEF IndInv, WindowsOrdered
    <3>4. QED
      BY <3>1, <3>2, <3>3
  <2>9. QED
    BY <2>6, <2>7, <2>8 DEF WindowsOrdered, Dist
<1>8. QED
  BY <1>5, <1>6, <1>7 DEF IndInv

(* What a successful CAS of ReservedHead finds and does: the data is there *)
(* now, and num slots pass from the filled to the popping side.            *)
LEMMA ReservePopMoves ==
  ASSUME MaxLag < NumElm, IndInv, NEW p \in Poppers,
         casReservedHead(p), ReservedHead = OldIndex[p]
  PROVE  /\ pc[p] = "cas" /\ pc' = [pc EXCEPT ![p] = "fas"]
         /\ ReservedHead' = advance(NumElm, ReservedHead, num[p])
         /\ outrun(Poppers, p)
         /\ UNCHANGED <<Head, Tail, ReservedTail, OldIndex, num, peek>>
         /\ pc'[p] = "fas" /\ \A q \in Procs \ {p} : pc'[q] = pc[q]
         /\ Dist(ReservedHead, Tail) >= peek[p]
         /\ num[p] \in 1 .. (NumElm - 1) /\ peek[p] \in 1 .. (NumElm - 1)
         /\ num[p] <= peek[p]
         /\ Dist(Head, ReservedHead') = Dist(Head, ReservedHead) + num[p]
         /\ Dist(ReservedHead', Tail) = Dist(ReservedHead, Tail) - num[p]
<1>0. p \in Procs /\ p \notin Pushers /\ \A q \in Poppers : q \notin Pushers
  BY ThreadAssumption DEF Procs
<1>1. /\ pc[p] = "cas" /\ pc' = [pc EXCEPT ![p] = "fas"]
      /\ ReservedHead' = advance(NumElm, ReservedHead, num[p])
      /\ outrun(Poppers, p)
      /\ UNCHANGED <<Head, Tail, ReservedTail, OldIndex, num, peek>>
  BY DEF casReservedHead, goto, NewIndex, request
<1>2. pc'[p] = "fas" /\ \A q \in Procs \ {p} : pc'[q] = pc[q]
  BY <1>0, <1>1 DEF IndInv, TypeOK
<1>3. /\ Dist(ReservedHead, Tail) >= peek[p]
      /\ num[p] \in 1 .. (NumElm - 1) /\ peek[p] \in 1 .. (NumElm - 1)
      /\ num[p] <= peek[p]
  <2>1. lag[p] = 0
    BY <1>0, <1>1, FreshSnapshot
  <2>2. QED
    BY <1>0, <1>1, <2>1 DEF IndInv, SnapshotsHold, TypeOK
<1>4. /\ Dist(Head, ReservedHead') = Dist(Head, ReservedHead) + num[p]
      /\ Dist(ReservedHead', Tail) = Dist(ReservedHead, Tail) - num[p]
  <2>1. /\ Dist(Head, ReservedHead) + num[p] < NumElm
        /\ num[p] <= Dist(ReservedHead, Tail)
    BY <1>3, RingSums, NumElmAssumption DEF IndInv, RingOrder
  <2>2. QED
    BY <1>1, <1>3, <2>1, DistGrow, DistShrink, NumElmAssumption DEF IndInv, TypeOK, Dist
<1>5. QED
  BY <1>1, <1>2, <1>3, <1>4

LEMMA ReservePopStep ==
  ASSUME MaxLag < NumElm, IndInv, TypeOK', NEW p \in Poppers,
         casReservedHead(p), ReservedHead = OldIndex[p]
  PROVE  IndInv'
<1>0. p \in Procs /\ p \notin Pushers /\ \A q \in Poppers : q \notin Pushers
  BY ThreadAssumption DEF Procs
<1>1. /\ pc[p] = "cas" /\ pc' = [pc EXCEPT ![p] = "fas"]
      /\ ReservedHead' = advance(NumElm, ReservedHead, num[p])
      /\ outrun(Poppers, p)
      /\ UNCHANGED <<Head, Tail, ReservedTail, OldIndex, num, peek>>
  BY ReservePopMoves
<1>2. pc'[p] = "fas" /\ \A q \in Procs \ {p} : pc'[q] = pc[q]
  BY ReservePopMoves
<1>3. /\ Dist(ReservedHead, Tail) >= peek[p]
      /\ num[p] \in 1 .. (NumElm - 1) /\ peek[p] \in 1 .. (NumElm - 1)
      /\ num[p] <= peek[p]
  BY ReservePopMoves
<1>4. /\ Dist(Head, ReservedHead') = Dist(Head, ReservedHead) + num[p]
      /\ Dist(ReservedHead', Tail) = Dist(ReservedHead, Tail) - num[p]
  BY ReservePopMoves
<1>5. RingOrder'
  <2>1. Dist(Head, ReservedHead') + Dist(ReservedHead', Tail) + Dist(Tail, ReservedTail)
          < NumElm
    BY <1>3, <1>4, RingSums, NumElmAssumption DEF IndInv, RingOrder
  <2>2. QED
    BY <1>1, <2>1 DEF RingOrder, Dist
<1>6. SnapshotsHold'
  <2> SUFFICES ASSUME NEW q \in Procs
               PROVE  /\ pc'[q] \notin {"limit", "cas"} => lag'[q] = 0
                      /\ pc'[q] \in {"limit", "cas"} =>
                           advance(NumElm, OldIndex[q], lag'[q])
                             = IF q \in Pushers THEN ReservedTail ELSE ReservedHead'
                      /\ (pc'[q] = "cas" /\ lag'[q] = 0) =>
                           IF q \in Pushers
                           THEN Dist(Head, ReservedTail) + num[q] < NumElm
                           ELSE Dist(ReservedHead', Tail) >= peek[q]
                      /\ num[q] <= peek[q]
                      /\ q \in Pushers => num[q] = peek[q]
    BY <1>1 DEF SnapshotsHold, Dist
  <2>1. CASE q = p
    BY <1>0, <1>1, <1>2, <2>1 DEF outrun, Snapshots, IndInv, SnapshotsHold, TypeOK
  <2>2. CASE q \in Poppers \ {p} /\ pc[q] \in {"limit", "cas"}
    BY <1>0, <1>1, <1>2, <2>2, OutrunSnapshots DEF IndInv, SnapshotsHold
  <2>3. CASE q # p /\ ~(q \in Poppers /\ pc[q] \in {"limit", "cas"})
    <3>1. lag'[q] = lag[q] /\ pc'[q] = pc[q]
      BY <1>1, <1>2, <2>3 DEF outrun, Snapshots
    <3>2. QED
      BY <2>3, <3>1 DEF IndInv, SnapshotsHold, Procs
  <2>4. QED
    BY <2>1, <2>2, <2>3
<1>7. WindowsOrdered'
  <2>1. /\ HasWindow(p)'
        /\ \A q \in Procs \ {p} : HasWindow(q)' <=> HasWindow(q)
    BY <1>2 DEF HasWindow
  <2>2. \A q \in Procs : Offset(q)' = Offset(q)
    BY <1>1 DEF Offset, Dist
  <2>3. Offset(p) = Dist(Head, ReservedHead)
    BY <1>0 DEF Offset
  <2>4. \A q \in Procs : Offset(q) \in 0 .. (NumElm - 1) /\ num[q] \in 1 .. (NumElm - 1)
    BY DistType, NumElmAssumption DEF IndInv, TypeOK, Offset, Dist
  <2>5. \A q \in Poppers \ {p} :
          HasWindow(q) => /\ Offset(q) + num[q] <= Dist(Head, ReservedHead)
                          /\ Offset(q) + num[q] <= Dist(Head, ReservedHead')
                          /\ Offset(q) + peek[q] <= Dist(Head, Tail)
    BY <1>3, <1>4, <2>4, RingSums DEF IndInv, WindowsOrdered, Procs
  <2>6. \A q \in Poppers : HasWindow(q)' =>
          /\ Offset(q)' + num'[q] <= Dist(Head', ReservedHead')
          /\ Offset(q)' + peek'[q] <= Dist(Head', Tail')
    <3>1. /\ Offset(p) + num[p] <= Dist(Head, ReservedHead')
          /\ Offset(p) + peek[p] <= Dist(Head, Tail)
      BY <1>3, <1>4, <2>3, RingSums, NumElmAssumption DEF IndInv
    <3>2. QED
      BY <1>1, <2>1, <2>2, <2>5, <3>1 DEF Procs
  <2>7. \A q \in Pushers : HasWindow(q)' =>
          Offset(q)' + num'[q] <= Dist(Tail', ReservedTail')
    BY <1>0, <1>1, <2>1, <2>2 DEF IndInv, WindowsOrdered, Procs
  <2>8. ASSUME NEW q \in Procs, NEW r \in Procs, q # r,
               q \in Pushers <=> r \in Pushers, HasWindow(q)', HasWindow(r)'
        PROVE  \/ Offset(q)' + num'[q] <= Offset(r)'
               \/ Offset(r)' + num'[r] <= Offset(q)'
    <3>1. CASE q = p
      BY <1>0, <1>1, <2>1, <2>2, <2>3, <2>5, <2>8, <3>1 DEF Procs
    <3>2. CASE r = p
      BY <1>0, <1>1, <2>1, <2>2, <2>3, <2>5, <2>8, <3>2 DEF Procs
    <3>3. CASE q # p /\ r # p
      BY <1>1, <2>1, <2>2, <2>8, <3>3 DEF IndInv, WindowsOrdered
    <3>4. QED
      BY <3>1, <3>2, <3>3
  <2>9. QED
    BY <2>6, <2>7, <2>8 DEF WindowsOrdered, Dist
<1>8. QED
  BY <1>5, <1>6, <1>7 DEF IndInv

(* What a successful CAS of Tail does: num slots pass from the pushing to  *)
(* the filled side.                                                        *)
LEMMA CommitPushMoves ==
  ASSUME IndInv, NEW p \in Pushers, casTail(p), Tail = OldIndex[p]
  PROVE  /\ pc[p] = "reserved" /\ pc' = [pc EXCEPT ![p] = "swap"]
         /\ Tail' = advance(NumElm, Tail, num[p])
         /\ UNCHANGED <<Head, ReservedHead, ReservedTail, OldIndex, num, peek, lag>>
         /\ pc'[p] = "swap" /\ \A q \in Procs \ {p} : pc'[q] = pc[q]
         /\ num[p] \in 1 .. (NumElm - 1) /\ num[p] <= Dist(Tail, ReservedTail)
         /\ Dist(Tail', ReservedTail) = Dist(Tail, ReservedTail) - num[p]
         /\ Dist(ReservedHead, Tail') = Dist(ReservedHead, Tail) + num[p]
         /\ Dist(Head, Tail') = Dist(Head, Tail) + num[p]
<1>0. p \in Procs /\ \A q \in Poppers : q \notin Pushers
  BY ThreadAssumption DEF Procs
<1>1. /\ pc[p] = "reserved" /\ pc' = [pc EXCEPT ![p] = "swap"]
      /\ Tail' = advance(NumElm, Tail, num[p])
      /\ UNCHANGED <<Head, ReservedHead, ReservedTail, OldIndex, num, peek, lag>>
  BY DEF casTail, goto, NewIndex, request
<1>2. pc'[p] = "swap" /\ \A q \in Procs \ {p} : pc'[q] = pc[q]
  BY <1>0, <1>1 DEF IndInv, TypeOK
<1>3. num[p] \in 1 .. (NumElm - 1) /\ num[p] <= Dist(Tail, ReservedTail)
  <2>1. Offset(p) = 0
    BY DistZero, NumElmAssumption DEF Offset, Dist, IndInv, TypeOK
  <2>2. HasWindow(p)
    BY <1>1 DEF HasWindow
  <2>3. QED
    BY <1>0, <2>1, <2>2 DEF IndInv, WindowsOrdered, TypeOK
<1>4. /\ Dist(Tail', ReservedTail) = Dist(Tail, ReservedTail) - num[p]
      /\ Dist(ReservedHead, Tail') = Dist(ReservedHead, Tail) + num[p]
      /\ Dist(Head, Tail') = Dist(Head, Tail) + num[p]
  <2>1. /\ Dist(ReservedHead, Tail) + num[p] < NumElm
        /\ Dist(Head, Tail) + num[p] < NumElm
    BY <1>3, RingSums, NumElmAssumption DEF IndInv, RingOrder
  <2>2. QED
    BY <1>1, <1>3, <2>1, DistGrow, DistShrink, NumElmAssumption DEF IndInv, TypeOK, Dist
<1>5. QED
  BY <1>1, <1>2, <1>3, <1>4

(* A commit moves the other open windows of its side up by num[p].         *)
LEMMA CommitPushOffsets ==
  ASSUME IndInv, NEW p \in Pushers, casTail(p), Tail = OldIndex[p]
  PROVE  /\ Offset(p) = 0 /\ HasWindow(p) /\ ~HasWindow(p)'
         /\ \A q \in Procs \ {p} : HasWindow(q)' <=> HasWindow(q)
         /\ \A q \in Pushers \ {p} : HasWindow(q) => Offset(q)' = Offset(q) - num[p]
         /\ \A q \in Procs \ Pushers : Offset(q)' = Offset(q)
<1>0. p \in Procs /\ Pushers \subseteq Procs /\ \A q \in Poppers : q \notin Pushers
  BY ThreadAssumption DEF Procs
<1>1. /\ pc[p] = "reserved" /\ pc'[p] = "swap"
      /\ \A q \in Procs \ {p} : pc'[q] = pc[q]
      /\ Tail' = advance(NumElm, Tail, num[p]) /\ num[p] \in 1 .. (NumElm - 1)
      /\ UNCHANGED <<Head, OldIndex>>
  BY CommitPushMoves
<1>2. /\ HasWindow(p) /\ ~HasWindow(p)'
      /\ \A q \in Procs \ {p} : HasWindow(q)' <=> HasWindow(q)
  BY <1>1 DEF HasWindow
<1>3. \A q \in Procs : /\ Offset(q) \in 0 .. (NumElm - 1)
                       /\ num[q] \in 1 .. (NumElm - 1)
                       /\ OldIndex[q] \in 0 .. (NumElm - 1)
  BY DistType, NumElmAssumption DEF IndInv, TypeOK, Offset, Dist
<1>4. Offset(p) = 0
  BY <1>0, DistZero, NumElmAssumption DEF Offset, Dist, IndInv, TypeOK
<1>5. ASSUME NEW q \in Pushers \ {p}, HasWindow(q)
      PROVE  Offset(q)' = Offset(q) - num[p]
  <2>1. num[p] <= Offset(q)
    BY <1>0, <1>2, <1>3, <1>4, <1>5 DEF IndInv, WindowsOrdered, Procs
  <2>2. q \in Procs /\ Offset(q) = Dist(Tail, OldIndex[q])
        /\ Offset(q)' = Dist(Tail', OldIndex[q])
    BY <1>0, <1>1 DEF Offset, Procs, Dist
  <2>3. QED
    BY <1>1, <1>3, <2>1, <2>2, DistShrink, NumElmAssumption DEF Dist, IndInv, TypeOK
<1>6. \A q \in Procs \ Pushers : Offset(q)' = Offset(q)
  BY <1>0, <1>1 DEF Offset, Dist, Procs
<1>7. QED
  BY <1>2, <1>4, <1>5, <1>6

LEMMA CommitPushStep ==
  ASSUME IndInv, TypeOK', NEW p \in Pushers, casTail(p), Tail = OldIndex[p]
  PROVE  IndInv'
<1>0. p \in Procs /\ \A q \in Poppers : q \notin Pushers
  BY ThreadAssumption DEF Procs
<1>1. /\ pc[p] = "reserved" /\ pc' = [pc EXCEPT ![p] = "swap"]
      /\ Tail' = advance(NumElm, Tail, num[p])
      /\ UNCHANGED <<Head, ReservedHead, ReservedTail, OldIndex, num, peek, lag>>
  BY CommitPushMoves
<1>2. pc'[p] = "swap" /\ \A q \in Procs \ {p} : pc'[q] = pc[q]
  BY CommitPushMoves
<1>3. num[p] \in 1 .. (NumElm - 1) /\ num[p] <= Dist(Tail, ReservedTail)
  BY CommitPushMoves
<1>4. /\ Dist(Tail', ReservedTail) = Dist(Tail, ReservedTail) - num[p]
      /\ Dist(ReservedHead, Tail') = Dist(ReservedHead, Tail) + num[p]
      /\ Dist(Head, Tail') = Dist(Head, Tail) + num[p]
  BY CommitPushMoves
<1>5. RingOrder'
  <2>1. Dist(Head, ReservedHead) + Dist(ReservedHead, Tail') + Dist(Tail', ReservedTail)
          < NumElm
    BY <1>3, <1>4, RingSums, NumElmAssumption DEF IndInv, RingOrder
  <2>2. QED
    BY <1>1, <2>1 DEF RingOrder, Dist
<1>6. SnapshotsHold'
  <2> SUFFICES ASSUME NEW q \in Procs
               PROVE  /\ pc'[q] \notin {"limit", "cas"} => lag[q] = 0
                      /\ pc'[q] \in {"limit", "cas"} =>
                           advance(NumElm, OldIndex[q], lag[q])
                             = IF q \in Pushers THEN ReservedTail ELSE ReservedHead
                      /\ (pc'[q] = "cas" /\ lag[q] = 0) =>
                           IF q \in Pushers
                           THEN Dist(Head, ReservedTail) + num[q] < NumElm
                           ELSE Dist(ReservedHead, Tail') >= peek[q]
                      /\ num[q] <= peek[q]
                      /\ q \in Pushers => num[q] = peek[q]
    BY <1>1 DEF SnapshotsHold, Dist
  <2>1. pc'[q] \in {"limit", "cas"} <=> pc[q] \in {"limit", "cas"}
    BY <1>1, <1>2
  <2>2. pc'[q] = "cas" => pc[q] = "cas"
    BY <1>1, <1>2
  <2>3. peek[q] \in 1 .. (NumElm - 1)
    BY DEF IndInv, TypeOK
  <2>4. QED
    BY <1>3, <1>4, <2>1, <2>2, <2>3, RingSums DEF IndInv, SnapshotsHold
<1>7. WindowsOrdered'
  <2>1. ~HasWindow(p)' /\ HasWindow(p)
        /\ \A q \in Procs \ {p} : HasWindow(q)' <=> HasWindow(q)
    BY <1>1, <1>2 DEF HasWindow
  <2>2. \A q \in Procs : /\ Offset(q) \in 0 .. (NumElm - 1)
                         /\ num[q] \in 1 .. (NumElm - 1)
                         /\ peek[q] \in 1 .. (NumElm - 1)
                         /\ OldIndex[q] \in 0 .. (NumElm - 1)
    BY DistType, NumElmAssumption DEF IndInv, TypeOK, Offset, Dist
  <2>4. \A q \in Pushers \ {p} : HasWindow(q) => Offset(q)' = Offset(q) - num[p]
    BY CommitPushOffsets
  <2>5. \A q \in Poppers : Offset(q)' = Offset(q)
    BY <1>0, CommitPushOffsets DEF Procs
  <2>6. \A q \in Pushers : HasWindow(q)' =>
          Offset(q)' + num'[q] <= Dist(Tail', ReservedTail')
    <3>1. \A q \in Pushers \ {p} : HasWindow(q) =>
            Offset(q) + num[q] <= Dist(Tail, ReservedTail)
      BY DEF IndInv, WindowsOrdered
    <3>2. QED
      BY <1>1, <1>3, <1>4, <2>1, <2>2, <2>4, <3>1, RingSums DEF Procs, IndInv
  <2>7. \A q \in Poppers : HasWindow(q)' =>
          /\ Offset(q)' + num'[q] <= Dist(Head', ReservedHead')
          /\ Offset(q)' + peek'[q] <= Dist(Head', Tail')
    <3>1. \A q \in Poppers : HasWindow(q) =>
            /\ Offset(q) + num[q] <= Dist(Head, ReservedHead)
            /\ Offset(q) + peek[q] <= Dist(Head, Tail)
      BY DEF IndInv, WindowsOrdered
    <3>2. QED
      BY <1>0, <1>1, <1>3, <1>4, <2>1, <2>2, <2>5, <3>1, RingSums DEF Procs, IndInv
  <2>8. ASSUME NEW q \in Procs, NEW r \in Procs, q # r,
               q \in Pushers <=> r \in Pushers, HasWindow(q)', HasWindow(r)'
        PROVE  \/ Offset(q)' + num'[q] <= Offset(r)'
               \/ Offset(r)' + num'[r] <= Offset(q)'
    <3>1. q # p /\ r # p /\ HasWindow(q) /\ HasWindow(r)
      BY <2>1, <2>8
    <3>2. \/ Offset(q) + num[q] <= Offset(r)
          \/ Offset(r) + num[r] <= Offset(q)
      BY <2>8, <3>1 DEF IndInv, WindowsOrdered
    <3>3. CASE q \in Pushers
      BY <1>1, <1>3, <2>2, <2>4, <2>8, <3>1, <3>2, <3>3
    <3>4. CASE q \notin Pushers
      BY <1>1, <2>5, <2>8, <3>2, <3>4 DEF Procs
    <3>5. QED
      BY <3>3, <3>4
  <2>9. QED
    BY <2>6, <2>7, <2>8 DEF WindowsOrdered, Dist
<1>8. QED
  BY <1>5, <1>6, <1>7 DEF IndInv

(* What a successful CAS of Head does: num slots leave the popping side.   *)
LEMMA CommitPopMoves ==
  ASSUME IndInv, NEW p \in Poppers, casHead(p), Head = OldIndex[p]
  PROVE  /\ pc[p] = "reserved" /\ pc' = [pc EXCEPT ![p] = "swap"]
         /\ Head' = advance(NumElm, Head, num[p])
         /\ UNCHANGED <<Tail, ReservedHead, ReservedTail, OldIndex, num, peek, lag>>
         /\ pc'[p] = "swap" /\ \A q \in Procs \ {p} : pc'[q] = pc[q]
         /\ num[p] \in 1 .. (NumElm - 1) /\ num[p] <= Dist(Head, ReservedHead)
         /\ Dist(Head', ReservedHead) = Dist(Head, ReservedHead) - num[p]
         /\ Dist(Head', Tail) = Dist(Head, Tail) - num[p]
         /\ Dist(Head', ReservedTail) = Dist(Head, ReservedTail) - num[p]
<1>0. p \in Procs /\ p \notin Pushers /\ \A q \in Poppers : q \notin Pushers
  BY ThreadAssumption DEF Procs
<1>1. /\ pc[p] = "reserved" /\ pc' = [pc EXCEPT ![p] = "swap"]
      /\ Head' = advance(NumElm, Head, num[p])
      /\ UNCHANGED <<Tail, ReservedHead, ReservedTail, OldIndex, num, peek, lag>>
  BY DEF casHead, goto, NewIndex, request
<1>2. pc'[p] = "swap" /\ \A q \in Procs \ {p} : pc'[q] = pc[q]
  BY <1>0, <1>1 DEF IndInv, TypeOK
<1>3. num[p] \in 1 .. (NumElm - 1) /\ num[p] <= Dist(Head, ReservedHead)
  <2>1. Offset(p) = 0
    BY <1>0, DistZero, NumElmAssumption DEF Offset, Dist, IndInv, TypeOK
  <2>2. HasWindow(p)
    BY <1>1 DEF HasWindow
  <2>3. QED
    BY <1>0, <2>1, <2>2 DEF IndInv, WindowsOrdered, TypeOK
<1>4. /\ Dist(Head', ReservedHead) = Dist(Head, ReservedHead) - num[p]
      /\ Dist(Head', Tail) = Dist(Head, Tail) - num[p]
      /\ Dist(Head', ReservedTail) = Dist(Head, ReservedTail) - num[p]
  <2>1. num[p] <= Dist(Head, Tail) /\ num[p] <= Dist(Head, ReservedTail)
    BY <1>3, RingSums, NumElmAssumption DEF IndInv
  <2>2. QED
    BY <1>1, <1>3, <2>1, DistShrink, NumElmAssumption DEF IndInv, TypeOK, Dist
<1>5. QED
  BY <1>1, <1>2, <1>3, <1>4

(* A commit moves the other open windows of its side up by num[p].         *)
LEMMA CommitPopOffsets ==
  ASSUME IndInv, NEW p \in Poppers, casHead(p), Head = OldIndex[p]
  PROVE  /\ Offset(p) = 0 /\ HasWindow(p) /\ ~HasWindow(p)'
         /\ \A q \in Procs \ {p} : HasWindow(q)' <=> HasWindow(q)
         /\ \A q \in Poppers \ {p} : HasWindow(q) => Offset(q)' = Offset(q) - num[p]
         /\ \A q \in Procs \ Poppers : Offset(q)' = Offset(q)
<1>0. p \in Procs /\ Poppers \subseteq Procs /\ \A q \in Poppers : q \notin Pushers
  BY ThreadAssumption DEF Procs
<1>1. /\ pc[p] = "reserved" /\ pc'[p] = "swap"
      /\ \A q \in Procs \ {p} : pc'[q] = pc[q]
      /\ Head' = advance(NumElm, Head, num[p]) /\ num[p] \in 1 .. (NumElm - 1)
      /\ UNCHANGED <<Tail, OldIndex>>
  BY CommitPopMoves
<1>2. /\ HasWindow(p) /\ ~HasWindow(p)'
      /\ \A q \in Procs \ {p} : HasWindow(q)' <=> HasWindow(q)
  BY <1>1 DEF HasWindow
<1>3. \A q \in Procs : /\ Offset(q) \in 0 .. (NumElm - 1)
                       /\ num[q] \in 1 .. (NumElm - 1)
                       /\ OldIndex[q] \in 0 .. (NumElm - 1)
  BY DistType, NumElmAssumption DEF IndInv, TypeOK, Offset, Dist
<1>4. Offset(p) = 0
  BY <1>0, DistZero, NumElmAssumption DEF Offset, Dist, IndInv, TypeOK
<1>5. ASSUME NEW q \in Poppers \ {p}, HasWindow(q)
      PROVE  Offset(q)' = Offset(q) - num[p]
  <2>1. num[p] <= Offset(q)
    BY <1>0, <1>2, <1>3, <1>4, <1>5 DEF IndInv, WindowsOrdered, Procs
  <2>2. q \in Procs /\ Offset(q) = Dist(Head, OldIndex[q])
        /\ Offset(q)' = Dist(Head', OldIndex[q])
    BY <1>0, <1>1 DEF Offset, Procs, Dist
  <2>3. QED
    BY <1>1, <1>3, <2>1, <2>2, DistShrink, NumElmAssumption DEF Dist, IndInv, TypeOK
<1>6. \A q \in Procs \ Poppers : Offset(q)' = Offset(q)
  BY <1>0, <1>1 DEF Offset, Dist, Procs
<1>7. QED
  BY <1>2, <1>4, <1>5, <1>6

LEMMA CommitPopStep ==
  ASSUME IndInv, TypeOK', NEW p \in Poppers, casHead(p), Head = OldIndex[p]
  PROVE  IndInv'
<1>0. p \in Procs /\ p \notin Pushers /\ \A q \in Poppers : q \notin Pushers
  BY ThreadAssumption DEF Procs
<1>1. /\ pc[p] = "reserved" /\ pc' = [pc EXCEPT ![p] = "swap"]
      /\ Head' = advance(NumElm, Head, num[p])
      /\ UNCHANGED <<Tail, ReservedHead, ReservedTail, OldIndex, num, peek, lag>>
  BY CommitPopMoves
<1>2. pc'[p] = "swap" /\ \A q \in Procs \ {p} : pc'[q] = pc[q]
  BY CommitPopMoves
<1>3. num[p] \in 1 .. (NumElm - 1) /\ num[p] <= Dist(Head, ReservedHead)
  BY CommitPopMoves
<1>4. /\ Dist(Head', ReservedHead) = Dist(Head, ReservedHead) - num[p]
      /\ Dist(Head', Tail) = Dist(Head, Tail) - num[p]
      /\ Dist(Head', ReservedTail) = Dist(Head, ReservedTail) - num[p]
  BY CommitPopMoves
<1>5. RingOrder'
  <2>1. Dist(Head', ReservedHead) + Dist(ReservedHead, Tail) + Dist(Tail, ReservedTail)
          < NumElm
    BY <1>3, <1>4, RingSums, NumElmAssumption DEF IndInv, RingOrder
  <2>2. QED
    BY <1>1, <2>1 DEF RingOrder, Dist
<1>6. SnapshotsHold'
  <2> SUFFICES ASSUME NEW q \in Procs
               PROVE  /\ pc'[q] \notin {"limit", "cas"} => lag[q] = 0
                      /\ pc'[q] \in {"limit", "cas"} =>
                           advance(NumElm, OldIndex[q], lag[q])
                             = IF q \in Pushers THEN ReservedTail ELSE ReservedHead
                      /\ (pc'[q] = "cas" /\ lag[q] = 0) =>
                           IF q \in Pushers
                           THEN Dist(Head', ReservedTail) + num[q] < NumElm
                           ELSE Dist(ReservedHead, Tail) >= peek[q]
                      /\ num[q] <= peek[q]
                      /\ q \in Pushers => num[q] = peek[q]
    BY <1>1 DEF SnapshotsHold, Dist
  <2>1. pc'[q] \in {"limit", "cas"} <=> pc[q] \in {"limit", "cas"}
    BY <1>1, <1>2
  <2>2. pc'[q] = "cas" => pc[q] = "cas"
    BY <1>1, <1>2
  <2>3. num[q] \in 1 .. (NumElm - 1)
    BY DEF IndInv, TypeOK
  <2>4. QED
    BY <1>3, <1>4, <2>1, <2>2, <2>3, RingSums, NumElmAssumption DEF IndInv, SnapshotsHold
<1>7. WindowsOrdered'
  <2>1. ~HasWindow(p)' /\ HasWindow(p)
        /\ \A q \in Procs \ {p} : HasWindow(q)' <=> HasWindow(q)
    BY <1>1, <1>2 DEF HasWindow
  <2>2. \A q \in Procs : /\ Offset(q) \in 0 .. (NumElm - 1)
                         /\ num[q] \in 1 .. (NumElm - 1)
                         /\ peek[q] \in 1 .. (NumElm - 1)
                         /\ OldIndex[q] \in 0 .. (NumElm - 1)
    BY DistType, NumElmAssumption DEF IndInv, TypeOK, Offset, Dist
  <2>4. \A q \in Poppers \ {p} : HasWindow(q) => Offset(q)' = Offset(q) - num[p]
    BY CommitPopOffsets
  <2>5. \A q \in Pushers : Offset(q)' = Offset(q)
    BY <1>0, CommitPopOffsets DEF Procs
  <2>6. \A q \in Poppers : HasWindow(q)' =>
          /\ Offset(q)' + num'[q] <= Dist(Head', ReservedHead')
          /\ Offset(q)' + peek'[q] <= Dist(Head', Tail')
    <3>1. \A q \in Poppers \ {p} : HasWindow(q) =>
            /\ Offset(q) + num[q] <= Dist(Head, ReservedHead)
            /\ Offset(q) + peek[q] <= Dist(Head, Tail)
      BY DEF IndInv, WindowsOrdered
    <3>2. QED
      BY <1>1, <1>3, <1>4, <2>1, <2>2, <2>4, <3>1, RingSums DEF Procs, IndInv
  <2>7. \A q \in Pushers : HasWindow(q)' =>
          Offset(q)' + num'[q] <= Dist(Tail', ReservedTail')
    BY <1>0, <1>1, <2>1, <2>5 DEF IndInv, WindowsOrdered, Procs
  <2>8. ASSUME NEW q \in Procs, NEW r \in Procs, q # r,
               q \in Pushers <=> r \in Pushers, HasWindow(q)', HasWindow(r)'
        PROVE  \/ Offset(q)' + num'[q] <= Offset(r)'
               \/ Offset(r)' + num'[r] <= Offset(q)'
    <3>1. q # p /\ r # p /\ HasWindow(q) /\ HasWindow(r)
      BY <2>1, <2>8
    <3>2. \/ Offset(q) + num[q] <= Offset(r)
          \/ Offset(r) + num[r] <= Offset(q)
      BY <2>8, <3>1 DEF IndInv, WindowsOrdered
    <3>3. CASE q \notin Pushers
      BY <1>1, <1>3, <2>2, <2>4, <2>8, <3>1, <3>2, <3>3 DEF Procs
    <3>4. CASE q \in Pushers
      BY <1>1, <2>5, <2>8, <3>2, <3>4
    <3>5. QED
      BY <3>3, <3>4
  <2>9. QED
    BY <2>6, <2>7, <2>8 DEF WindowsOrdered, Dist
<1>8. QED
  BY <1>5, <1>6, <1>7 DEF IndInv

-----------------------------------------------------------------------------
(* Every step of the queue preserves the inductive invariant.              *)
LEMMA IndStep ==
  ASSUME MaxLag < NumElm, IndInv, [Next]_vars
  PROVE  IndInv'
<1>0. /\ TypeOK /\ TypeOK'
      /\ Pushers \subseteq Procs /\ Poppers \subseteq Procs
      /\ \A p \in Poppers : p \notin Pushers
  BY TypeStep, ThreadAssumption DEF IndInv, Procs
<1>1. ASSUME NEW p \in Pushers, readReservedTail(p) PROVE IndInv'
  <2>1. PICK n \in PushNums :
          /\ pc[p] \in {"idle", "retry"} /\ pc' = [pc EXCEPT ![p] = "limit"]
          /\ OldIndex' = [OldIndex EXCEPT ![p] = ReservedTail]
          /\ num' = [num EXCEPT ![p] = n] /\ peek' = [peek EXCEPT ![p] = n]
          /\ UNCHANGED <<indices, lag>>
    BY <1>1 DEF readReservedTail
  <2>2. /\ \A q \in Procs \ {p} : UNCHANGED <<OldIndex[q], num[q], peek[q]>>
        /\ OldIndex'[p] = ReservedTail /\ num'[p] = n /\ peek'[p] = n
    BY <1>0, <2>1 DEF TypeOK
  <2>3. n <= n
    BY RequestAssumption, NumElmAssumption
  <2>4. num'[p] <= peek'[p] /\ num'[p] = peek'[p] /\ p \in Procs
    BY <1>0, <2>2, <2>3
  <2>5. QED
    BY <1>0, <2>1, <2>2, <2>4, ReadStep
<1>2. ASSUME NEW p \in Poppers, readReservedHead(p) PROVE IndInv'
  <2>1. PICK r \in PopRequests :
          /\ pc[p] \in {"idle", "retry"} /\ pc' = [pc EXCEPT ![p] = "limit"]
          /\ OldIndex' = [OldIndex EXCEPT ![p] = ReservedHead]
          /\ num' = [num EXCEPT ![p] = r[2]] /\ peek' = [peek EXCEPT ![p] = r[1]]
          /\ UNCHANGED <<indices, lag>>
    BY <1>2 DEF readReservedHead
  <2>2. /\ \A q \in Procs \ {p} : UNCHANGED <<OldIndex[q], num[q], peek[q]>>
        /\ OldIndex'[p] = ReservedHead /\ num'[p] = r[2] /\ peek'[p] = r[1]
    BY <1>0, <2>1 DEF TypeOK
  <2>3. r[2] <= r[1]
    BY RequestAssumption, NumElmAssumption
  <2>4. QED
    BY <1>0, <2>1, <2>2, <2>3, ReadStep
<1>3. ASSUME NEW p \in Procs, UNCHANGED indices, giveUp(p) PROVE IndInv'
  <2>1. /\ pc[p] = "limit" /\ pc' = [pc EXCEPT ![p] = "idle"] /\ pc'[p] = "idle"
        /\ lag' = [lag EXCEPT ![p] = 0] /\ num'[p] = 1 /\ peek'[p] = 1
        /\ \A q \in Procs \ {p} : UNCHANGED <<OldIndex[q], num[q], peek[q]>>
    BY <1>0, <1>3 DEF giveUp, goto, dropSnapshot, forgetRequest, TypeOK
  <2>2. num'[p] <= peek'[p] /\ num'[p] = peek'[p]
    BY <2>1
  <2>3. pc' = [pc EXCEPT ![p] = pc'[p]]
    BY <2>1, Zenon
  <2>4. QED
    BY <1>0, <1>3, <2>1, <2>2, <2>3, DropStep
<1>4. ASSUME NEW p \in Pushers, checkRoom(p) PROVE IndInv'
  <2>1. CASE giveUp(p)
    BY <1>0, <1>3, <1>4, <2>1 DEF checkRoom
  <2>2. CASE setRevInfo(p) /\ haveEnoughRoom(NumElm, OldIndex[p], Head, num[p])
    BY <1>0, <1>4, <2>2, CheckedStep DEF checkRoom, setRevInfo, goto
  <2>3. QED
    BY <1>4, <2>1, <2>2 DEF checkRoom
<1>5. ASSUME NEW p \in Poppers, checkData(p) PROVE IndInv'
  <2>1. CASE giveUp(p)
    BY <1>0, <1>3, <1>5, <2>1 DEF checkData
  <2>2. CASE setRevInfo(p) /\ haveEnoughData(NumElm, OldIndex[p], Tail, peek[p])
    BY <1>0, <1>5, <2>2, CheckedStep DEF checkData, setRevInfo, goto
  <2>3. QED
    BY <1>5, <2>1, <2>2 DEF checkData
<1>6. ASSUME NEW p \in Procs, pc[p] = "cas", pc' = [pc EXCEPT ![p] = "retry"],
             dropSnapshot(p), UNCHANGED <<indices, request>>
      PROVE  IndInv'
  <2>1. pc'[p] = "retry" /\ num[p] <= peek[p] /\ (p \in Pushers => num[p] = peek[p])
    BY <1>0, <1>6 DEF TypeOK, IndInv, SnapshotsHold
  <2>2. QED
    BY <1>0, <1>6, <2>1, DropStep DEF dropSnapshot, request
<1>7. ASSUME NEW p \in Pushers, casReservedTail(p) PROVE IndInv'
  <2>1. CASE ReservedTail = OldIndex[p]
    BY <1>0, <1>7, <2>1, ReservePushStep
  <2>2. CASE ReservedTail # OldIndex[p]
    BY <1>0, <1>6, <1>7, <2>2 DEF casReservedTail, goto, indices
  <2>3. QED
    BY <2>1, <2>2
<1>8. ASSUME NEW p \in Poppers, casReservedHead(p) PROVE IndInv'
  <2>1. CASE ReservedHead = OldIndex[p]
    BY <1>0, <1>8, <2>1, ReservePopStep
  <2>2. CASE ReservedHead # OldIndex[p]
    BY <1>0, <1>6, <1>8, <2>2 DEF casReservedHead, goto, indices
  <2>3. QED
    BY <2>1, <2>2
<1>9. ASSUME NEW p \in Procs, NEW from \in PCs, NEW to \in PCs, goto(p, from, to),
             from \notin {"limit", "cas"}, to \notin {"limit", "cas"},
             to \in {"fas", "link", "reserved", "wake"}
               => from \in {"fas", "link", "reserved", "wake"},
             UNCHANGED <<indices, lag, request>>
      PROVE  IndInv'
  <2>1. pc[p] = from /\ pc'[p] = to /\ \A q \in Procs \ {p} : pc'[q] = pc[q]
    BY <1>0, <1>9 DEF goto, TypeOK
  <2>2. \A q \in Procs :
           /\ pc'[q] \in {"limit", "cas"} <=> pc[q] \in {"limit", "cas"}
           /\ pc'[q] = "cas" => pc[q] = "cas"
           /\ HasWindow(q)' => HasWindow(q)
           /\ UNCHANGED <<OldIndex[q], num[q], peek[q]>>
    BY <1>9, <2>1 DEF HasWindow, request
  <2>3. QED
    BY <1>0, <1>9, <2>2, QuietStep
<1>10. ASSUME NEW p \in Procs, NEW from \in PCs, goto(p, from, "idle"),
              from \notin {"limit", "cas"}, forgetRequest(p),
              UNCHANGED <<indices, lag>>
       PROVE  IndInv'
  <2>1. /\ pc[p] = from /\ pc'[p] = "idle" /\ num'[p] = 1 /\ peek'[p] = 1
        /\ \A q \in Procs \ {p} :
             pc'[q] = pc[q] /\ UNCHANGED <<OldIndex[q], num[q], peek[q]>>
    BY <1>0, <1>10 DEF goto, forgetRequest, TypeOK
  <2>2. \A q \in Procs :
           /\ pc'[q] \in {"limit", "cas"} <=> pc[q] \in {"limit", "cas"}
           /\ pc'[q] = "cas" => pc[q] = "cas"
           /\ HasWindow(q)' => HasWindow(q)
           /\ \/ UNCHANGED <<OldIndex[q], num[q], peek[q]>>
              \/ /\ pc'[q] \notin {"limit", "cas"} /\ ~HasWindow(q)'
                 /\ num'[q] = 1 /\ peek'[q] = 1
    BY <1>10, <2>1 DEF HasWindow
  <2>3. QED
    BY <1>0, <1>10, <2>2, QuietStep
<1> USE DEF PCs
<1>11. ASSUME NEW p \in Pushers, fasLastReservedPush(p) PROVE IndInv'
  BY <1>0, <1>9, <1>11 DEF fasLastReservedPush, enter
<1>12. ASSUME NEW p \in Poppers, fasLastReservedPop(p) PROVE IndInv'
  BY <1>0, <1>9, <1>12 DEF fasLastReservedPop, enter
<1>13. ASSUME NEW p \in Pushers, casTail(p) PROVE IndInv'
  <2>1. CASE Tail = OldIndex[p]
    BY <1>0, <1>13, <2>1, CommitPushStep
  <2>2. CASE Tail # OldIndex[p]
    BY <1>0, <1>9, <1>13, <2>2 DEF casTail, indices
  <2>3. QED
    BY <2>1, <2>2
<1>14. ASSUME NEW p \in Poppers, casHead(p) PROVE IndInv'
  <2>1. CASE Head = OldIndex[p]
    BY <1>0, <1>14, <2>1, CommitPopStep
  <2>2. CASE Head # OldIndex[p]
    BY <1>0, <1>9, <1>14, <2>2 DEF casHead, indices
  <2>3. QED
    BY <2>1, <2>2
<1>15. ASSUME NEW p \in Pushers, leavePushList(p) PROVE IndInv'
  BY <1>0, <1>9, <1>10, <1>15 DEF leavePushList
<1>16. ASSUME NEW p \in Poppers, leavePopList(p) PROVE IndInv'
  BY <1>0, <1>9, <1>10, <1>16 DEF leavePopList
<1>17. ASSUME NEW p \in Procs, linkBehind(p) \/ wakeNextAndRetry(p) PROVE IndInv'
  BY <1>9, <1>17 DEF linkBehind, wakeNextAndRetry
<1>18. ASSUME NEW p \in Procs, handOff(p) PROVE IndInv'
  BY <1>10, <1>18 DEF handOff
<1>19. CASE UNCHANGED vars
  BY <1>0, <1>19, QuietStep DEF vars, HasWindow, request
<1>20. QED
  BY <1>1, <1>2, <1>4, <1>5, <1>7, <1>8, <1>11, <1>12, <1>13, <1>14, <1>15,
     <1>16, <1>17, <1>18, <1>19, NextCases

(* As long as no thread sleeps for a whole lap of the ring between its     *)
(* read of a reserved index and its CAS, the indices keep their order, the *)
(* snapshots keep their meaning and the windows follow one another.        *)
THEOREM InvariantHolds == ASSUME MaxLag < NumElm PROVE Spec => []IndInv
<1>1. ASSUME Init PROVE IndInv
  <2>1. TypeOK
    BY <1>1, NumElmAssumption, LagAssumption DEF Init, TypeOK, PCs, Procs
  <2>2. RingOrder
    BY <1>1, DistZero, NumElmAssumption DEF Init, RingOrder, Dist
  <2>3. SnapshotsHold /\ WindowsOrdered
    BY <1>1 DEF Init, SnapshotsHold, WindowsOrdered, HasWindow, Procs
  <2>4. QED
    BY <2>1, <2>2, <2>3 DEF IndInv
<1>2. IndInv /\ [Next]_vars => IndInv'
  BY IndStep
<1>3. QED
  BY <1>1, <1>2, PTL DEF Spec

(* The check-then-CAS of reservePushN and reservePeekPopN never lets the   *)
(* queue overflow or hand out what was not committed.                      *)
THEOREM RingOrderHolds == ASSUME MaxLag < NumElm PROVE Spec => []RingOrder
<1>1. IndInv => RingOrder
  BY DEF IndInv
<1>2. QED
  BY <1>1, InvariantHolds, PTL

-----------------------------------------------------------------------------
(* Where a slot of p's window of n slots lies, seen from the index base    *)
(* that p's offset counts from.                                            *)
LEMMA SlotOffset ==
  ASSUME TypeOK, NEW base \in 0 .. (NumElm - 1), NEW p \in Procs,
         NEW n \in 1 .. (NumElm - 1),
         NEW s \in windowSlots(window(NumElm, OldIndex[p], n)),
         Dist(base, OldIndex[p]) + n <= NumElm - 1
  PROVE  /\ s \in 0 .. (NumElm - 1)
         /\ Dist(base, OldIndex[p]) <= Dist(base, s)
         /\ Dist(base, s) < Dist(base, OldIndex[p]) + n
<1> DEFINE d == Dist(OldIndex[p], s)
<1>1. NumElm \in Nat /\ OldIndex[p] \in 0 .. (NumElm - 1)
  BY NumElmAssumption DEF TypeOK
<1>2. s \in 0 .. (NumElm - 1) /\ d < n
  BY <1>1, WindowSlot DEF Dist
<1>3. d \in 0 .. (NumElm - 1) /\ Dist(base, OldIndex[p]) \in 0 .. (NumElm - 1)
  BY <1>1, <1>2, DistType DEF Dist
<1>4. Dist(base, OldIndex[p]) + d < NumElm
  BY <1>1, <1>2, <1>3
<1>5. Dist(base, s) = Dist(base, OldIndex[p]) + d
  BY <1>1, <1>2, <1>3, <1>4, DistAdd DEF Dist
<1>6. QED
  BY <1>1, <1>2, <1>3, <1>5

(* Windows that nobody has committed yet never let two threads touch one   *)
(* slot, except poppers that peek at the same elements.                    *)
LEMMA WindowsDisjoint ==
  ASSUME IndInv
  PROVE  NoSlotRace
<1> DEFINE slots(x, n) == windowSlots(window(NumElm, OldIndex[x], n))
<1>0. /\ TypeOK /\ RingOrder /\ NumElm \in Nat
      /\ {Head, Tail, ReservedHead, ReservedTail} \subseteq 0 .. (NumElm - 1)
      /\ Dist(Head, Tail) + Dist(Tail, ReservedTail) \in 0 .. (NumElm - 1)
      /\ Dist(Head, Tail) \in 0 .. (NumElm - 1)
      /\ Dist(Tail, ReservedTail) \in 0 .. (NumElm - 1)
      /\ Dist(Head, ReservedHead) \in 0 .. (NumElm - 1)
  BY RingSums, NumElmAssumption DEF IndInv, TypeOK, RingOrder
<1>1. \A x \in Procs : /\ num[x] \in 1 .. (NumElm - 1) /\ peek[x] \in 1 .. (NumElm - 1)
                       /\ OldIndex[x] \in 0 .. (NumElm - 1)
                       /\ Offset(x) \in 0 .. (NumElm - 1)
  BY <1>0, DistType DEF TypeOK, Offset, Dist
<1>2. \A x \in Pushers : x \in Procs /\ num[x] = peek[x] /\ Offset(x) = Dist(Tail, OldIndex[x])
  BY DEF IndInv, SnapshotsHold, Procs, Offset
<1>3. \A x \in Poppers : x \in Procs /\ x \notin Pushers /\ Offset(x) = Dist(Head, OldIndex[x])
  BY ThreadAssumption DEF Procs, Offset
<1>4. ASSUME NEW p \in Pushers, NEW q \in Pushers, p # q, HasWindow(p), HasWindow(q)
      PROVE  slots(p, peek[p]) \cap slots(q, peek[q]) = {}
  <2>1. /\ Offset(p) + num[p] <= NumElm - 1
        /\ Offset(q) + num[q] <= NumElm - 1
        /\ Offset(p) + num[p] <= Offset(q) \/ Offset(q) + num[q] <= Offset(p)
    BY <1>0, <1>1, <1>2, <1>4 DEF IndInv, WindowsOrdered
  <2>2. ASSUME NEW s \in slots(p, num[p]), s \in slots(q, num[q]) PROVE FALSE
    <3>1. /\ Offset(p) <= Dist(Tail, s) /\ Dist(Tail, s) < Offset(p) + num[p]
          /\ Offset(q) <= Dist(Tail, s) /\ Dist(Tail, s) < Offset(q) + num[q]
          /\ s \in 0 .. (NumElm - 1)
      BY <1>0, <1>1, <1>2, <2>1, <2>2, SlotOffset
    <3>2. Dist(Tail, s) \in 0 .. (NumElm - 1)
      BY <1>0, <3>1, DistType DEF Dist
    <3>3. QED
      BY <1>0, <1>1, <1>2, <2>1, <3>1, <3>2
  <2>3. QED
    BY <1>2, <2>2
<1>5. ASSUME NEW p \in Poppers, NEW q \in Poppers, p # q, HasWindow(p), HasWindow(q)
      PROVE  slots(p, num[p]) \cap slots(q, num[q]) = {}
  <2>1. /\ Offset(p) + num[p] <= NumElm - 1
        /\ Offset(q) + num[q] <= NumElm - 1
        /\ Offset(p) + num[p] <= Offset(q) \/ Offset(q) + num[q] <= Offset(p)
    BY <1>0, <1>1, <1>3, <1>5 DEF IndInv, WindowsOrdered
  <2>2. ASSUME NEW s \in slots(p, num[p]), s \in slots(q, num[q]) PROVE FALSE
    <3>1. /\ Offset(p) <= Dist(Head, s) /\ Dist(Head, s) < Offset(p) + num[p]
          /\ Offset(q) <= Dist(Head, s) /\ Dist(Head, s) < Offset(q) + num[q]
          /\ s \in 0 .. (NumElm - 1)
      BY <1>0, <1>1, <1>3, <2>1, <2>2, SlotOffset
    <3>2. Dist(Head, s) \in 0 .. (NumElm - 1)
      BY <1>0, <3>1, DistType DEF Dist
    <3>3. QED
      BY <1>0, <1>1, <1>3, <2>1, <3>1, <3>2
  <2>3. QED
    BY <2>2
<1>6. ASSUME NEW p \in Pushers, NEW q \in Poppers, HasWindow(p), HasWindow(q)
      PROVE  slots(p, peek[p]) \cap slots(q, peek[q]) = {}
  <2>1. /\ Offset(p) + num[p] <= Dist(Tail, ReservedTail)
        /\ Offset(q) + peek[q] <= Dist(Head, Tail)
    BY <1>6 DEF IndInv, WindowsOrdered
  <2>2. Dist(Head, OldIndex[p]) = Dist(Head, Tail) + Offset(p)
    <3>1. Dist(Head, Tail) + Dist(Tail, OldIndex[p]) < NumElm
      BY <1>0, <1>1, <1>2, <2>1
    <3>2. QED
      BY <1>0, <1>1, <1>2, <3>1, DistAdd DEF Dist
  <2>3. ASSUME NEW s \in slots(p, num[p]), s \in slots(q, peek[q]) PROVE FALSE
    <3>1. Dist(Head, OldIndex[p]) + num[p] <= NumElm - 1
      BY <1>0, <1>1, <1>2, <2>1, <2>2
    <3>2. Dist(Head, Tail) + Offset(p) <= Dist(Head, s) /\ s \in 0 .. (NumElm - 1)
      BY <1>0, <1>1, <1>2, <2>2, <2>3, <3>1, SlotOffset
    <3>3. Dist(Head, OldIndex[q]) + peek[q] <= NumElm - 1
      BY <1>0, <1>1, <1>3, <2>1
    <3>4. Dist(Head, s) < Offset(q) + peek[q]
      BY <1>0, <1>1, <1>3, <2>3, <3>3, SlotOffset
    <3>5. Dist(Head, s) \in 0 .. (NumElm - 1)
      BY <1>0, <3>2, DistType DEF Dist
    <3>6. QED
      BY <1>0, <1>1, <1>2, <1>3, <2>1, <3>2, <3>4, <3>5
  <2>4. QED
    BY <1>2, <2>3
<1>7. QED
  BY <1>3, <1>4, <1>5, <1>6 DEF NoSlotRace, Procs

(* Between reserve and commit a thread owns its slots: pushers never write *)
(* a slot another one writes or peeks at, no element is popped twice.      *)
THEOREM NoSlotRaceHolds == ASSUME MaxLag < NumElm PROVE Spec => []NoSlotRace
<1>1. IndInv => NoSlotRace
  BY WindowsDisjoint
<1>2. QED
  BY <1>1, InvariantHolds, PTL

-----------------------------------------------------------------------------
(* The queue implements ReserveCommitSpec.                                 *)

(* A thread between its read and its CAS asks for what its call asked for: *)
(* a retry does not change the request.                                    *)
AsRequested ==
  \A p \in Procs :
    pc[p] \in {"limit", "cas"} =>
      IF p \in Pushers THEN num[p] \in PushNums ELSE <<peek[p], num[p]>> \in PopRequests

LEMMA RequestStep ==
  ASSUME TypeOK, AsRequested, [Next]_vars
  PROVE  AsRequested'
<1>0. Pushers \subseteq Procs /\ Poppers \subseteq Procs
      /\ \A p \in Poppers : p \notin Pushers
  BY ThreadAssumption DEF Procs
<1>1. ASSUME NEW p \in Procs, \A q \in Procs \ {p} : pc'[q] = pc[q] /\ UNCHANGED <<num[q], peek[q]>>,
             pc'[p] \in {"limit", "cas"} =>
               IF p \in Pushers THEN num'[p] \in PushNums
                                ELSE <<peek'[p], num'[p]>> \in PopRequests
      PROVE  AsRequested'
  BY <1>1 DEF AsRequested
<1>2. ASSUME NEW p \in Pushers, readReservedTail(p) PROVE AsRequested'
  <2>1. PICK n \in PushNums : /\ pc' = [pc EXCEPT ![p] = "limit"]
                              /\ num' = [num EXCEPT ![p] = n]
                              /\ peek' = [peek EXCEPT ![p] = n]
    BY <1>2 DEF readReservedTail
  <2>2. num'[p] = n /\ \A q \in Procs \ {p} : pc'[q] = pc[q] /\ UNCHANGED <<num[q], peek[q]>>
    BY <1>0, <2>1 DEF TypeOK
  <2>3. QED
    BY <1>0, <1>1, <2>2
<1>3. ASSUME NEW p \in Poppers, readReservedHead(p) PROVE AsRequested'
  <2>1. PICK r \in PopRequests : /\ pc' = [pc EXCEPT ![p] = "limit"]
                                 /\ num' = [num EXCEPT ![p] = r[2]]
                                 /\ peek' = [peek EXCEPT ![p] = r[1]]
    BY <1>3 DEF readReservedHead
  <2>2. num'[p] = r[2] /\ peek'[p] = r[1]
        /\ \A q \in Procs \ {p} : pc'[q] = pc[q] /\ UNCHANGED <<num[q], peek[q]>>
    BY <1>0, <2>1 DEF TypeOK
  <2>3. <<peek'[p], num'[p]>> \in PopRequests
    BY <2>2, RequestAssumption
  <2>4. QED
    BY <1>0, <1>1, <2>2, <2>3
<1>4. ASSUME NEW p \in Procs, NEW to \in PCs, pc' = [pc EXCEPT ![p] = to],
             to = "cas" => pc[p] \in {"limit", "cas"}, to # "limit",
             UNCHANGED request \/ (forgetRequest(p) /\ to = "idle")
      PROVE  AsRequested'
  <2>1. pc'[p] = to /\ \A q \in Procs \ {p} : pc'[q] = pc[q] /\ UNCHANGED <<num[q], peek[q]>>
    BY <1>4 DEF TypeOK, request, forgetRequest
  <2>2. to = "cas" => UNCHANGED <<num[p], peek[p]>>
    BY <1>4 DEF request
  <2>3. QED
    BY <1>1, <1>4, <2>1, <2>2 DEF AsRequested
<1> USE DEF PCs, goto
<1>5. ASSUME NEW p \in Pushers, \/ checkRoom(p) \/ casReservedTail(p)
                                \/ fasLastReservedPush(p) \/ casTail(p) \/ leavePushList(p)
      PROVE  AsRequested'
  BY <1>0, <1>4, <1>5 DEF checkRoom, giveUp, setRevInfo, casReservedTail,
     fasLastReservedPush, enter, casTail, leavePushList
<1>6. ASSUME NEW p \in Poppers, \/ checkData(p) \/ casReservedHead(p)
                                \/ fasLastReservedPop(p) \/ casHead(p) \/ leavePopList(p)
      PROVE  AsRequested'
  BY <1>0, <1>4, <1>6 DEF checkData, giveUp, setRevInfo, casReservedHead,
     fasLastReservedPop, enter, casHead, leavePopList
<1>7. ASSUME NEW p \in Procs, linkBehind(p) \/ wakeNextAndRetry(p) \/ handOff(p)
      PROVE  AsRequested'
  BY <1>4, <1>7 DEF linkBehind, wakeNextAndRetry, handOff
<1>8. CASE UNCHANGED vars
  BY <1>8 DEF AsRequested, vars, request
<1>9. QED
  BY <1>2, <1>3, <1>5, <1>6, <1>7, <1>8, NextCases

(* Steps that move no index and keep the windows are invisible above.      *)
LEMMA StutterMaps ==
  ASSUME UNCHANGED indices,
         \A q \in Procs : /\ HasWindow(q)' <=> HasWindow(q)
                          /\ HasWindow(q) => UNCHANGED <<OldIndex[q], num[q]>>
  PROVE  UNCHANGED Abs!vars
<1>1. UNCHANGED <<Head, ReservedHead, Tail, ReservedTail>>
  BY DEF indices
<1>2. [p \in Procs |-> HasWindow(p)]' = [p \in Procs |-> HasWindow(p)]
  BY DEF HasWindow
<1>3. QED
  BY <1>1, <1>2 DEF Abs!vars, Dist

(* The CAS of ReservedTail is the reservation of the contract.             *)
LEMMA ReservePushMaps ==
  ASSUME MaxLag < NumElm, IndInv, AsRequested, NEW p \in Pushers,
         casReservedTail(p), ReservedTail = OldIndex[p]
  PROVE  num[p] \in PushNums /\ Abs!ReservePush(p, num[p])
<1>0. p \in Procs /\ Abs!Procs = Procs
  BY DEF Procs, Abs!Procs
<1>1. /\ pc[p] = "cas" /\ pc'[p] = "fas" /\ \A q \in Procs \ {p} : pc'[q] = pc[q]
      /\ UNCHANGED <<Head, ReservedHead, Tail, OldIndex, num>>
      /\ num[p] \in 1 .. (NumElm - 1)
      /\ Dist(Head, ReservedTail) + num[p] < NumElm
      /\ Dist(Tail, ReservedTail') = Dist(Tail, ReservedTail) + num[p]
  BY ReservePushMoves
<1>2. /\ ~HasWindow(p) /\ HasWindow(p)'
      /\ \A q \in Procs \ {p} : HasWindow(q)' <=> HasWindow(q)
  BY <1>1 DEF HasWindow
<1>3. num[p] \in PushNums
  BY <1>0, <1>1 DEF AsRequested
<1>4. Dist(Head, ReservedHead) + Dist(ReservedHead, Tail) + Dist(Tail, ReservedTail) + num[p]
        <= NumElm - 1
  BY <1>1, RingSums, NumElmAssumption DEF IndInv
<1>5. Abs!Open(p, Dist(Tail, ReservedTail), num[p])
  BY <1>0, <1>1, <1>2, Zenon DEF Abs!Open, HasWindow, Dist
<1>6. QED
  BY <1>1, <1>3, <1>4, <1>5 DEF Abs!ReservePush, Dist

(* The CAS of ReservedHead is the reservation of a popper.                 *)
LEMMA ReservePopMaps ==
  ASSUME MaxLag < NumElm, IndInv, AsRequested, NEW p \in Poppers,
         casReservedHead(p), ReservedHead = OldIndex[p]
  PROVE  \E r \in PopRequests : Abs!ReservePeekPop(p, r[1], r[2])
<1>0. p \in Procs /\ Abs!Procs = Procs /\ p \notin Pushers
  BY ThreadAssumption DEF Procs, Abs!Procs
<1>1. /\ pc[p] = "cas" /\ pc'[p] = "fas" /\ \A q \in Procs \ {p} : pc'[q] = pc[q]
      /\ UNCHANGED <<Head, ReservedTail, Tail, OldIndex, num>>
      /\ Dist(ReservedHead, Tail) >= peek[p]
      /\ Dist(Head, ReservedHead') = Dist(Head, ReservedHead) + num[p]
      /\ Dist(ReservedHead', Tail) = Dist(ReservedHead, Tail) - num[p]
  BY ReservePopMoves
<1>2. /\ ~HasWindow(p) /\ HasWindow(p)'
      /\ \A q \in Procs \ {p} : HasWindow(q)' <=> HasWindow(q)
  BY <1>1 DEF HasWindow
<1>3. <<peek[p], num[p]>> \in PopRequests
  BY <1>0, <1>1 DEF AsRequested
<1>4. Abs!Open(p, Dist(Head, ReservedHead), num[p])
  BY <1>0, <1>1, <1>2, Zenon DEF Abs!Open, HasWindow, Dist
<1>5. Abs!ReservePeekPop(p, peek[p], num[p])
  BY <1>1, <1>4 DEF Abs!ReservePeekPop, Dist
<1>6. QED
  BY <1>3, <1>5

(* Closing a reservation: the others of the side move up.                  *)
LEMMA CloseMaps ==
  ASSUME IndInv, NEW S \in {Pushers, Poppers}, NEW p \in S,
         UNCHANGED <<OldIndex, num>>,
         Offset(p) = 0, HasWindow(p), ~HasWindow(p)',
         \A q \in Procs \ {p} : HasWindow(q)' <=> HasWindow(q),
         \A q \in S \ {p} : HasWindow(q) => Offset(q)' = Offset(q) - num[p],
         \A q \in Procs \ S : Offset(q)' = Offset(q)
  PROVE  Abs!Close(S, p)
<1> DEFINE open == [q \in Procs |-> HasWindow(q)]
           ahead == [q \in Procs |-> IF ~HasWindow(q) THEN 0 ELSE Offset(q)]
           size == [q \in Procs |-> IF HasWindow(q) THEN num[q] ELSE 0]
<1>0. p \in Procs /\ Abs!Procs = Procs
  BY DEF Procs, Abs!Procs
<1>1. open[p] /\ ahead[p] = 0
  BY <1>0
<1>2. open' = [open EXCEPT ![p] = FALSE]
  <2>1. \A q \in Procs : HasWindow(q)' = (IF q = p THEN FALSE ELSE HasWindow(q))
    <3>1. HasWindow(p)' = FALSE
      BY DEF HasWindow
    <3>2. \A q \in Procs \ {p} : HasWindow(q)' = HasWindow(q)
      BY DEF HasWindow
    <3>3. QED
      BY <3>1, <3>2
  <2>2. open' = [q \in Procs |-> IF q = p THEN FALSE ELSE HasWindow(q)]
    BY <2>1
  <2>3. QED
    BY <2>2
<1>3. ahead' = [q \in Procs |->
                  IF q \in S \ {p} /\ open[q] THEN ahead[q] - size[p] ELSE ahead[q]]
  <2>1. ASSUME NEW q \in Procs
        PROVE  (IF ~HasWindow(q)' THEN 0 ELSE Offset(q)')
                 = IF q \in S \ {p} /\ open[q] THEN ahead[q] - size[p] ELSE ahead[q]
    BY <1>0
  <2>2. QED
    BY <2>1
<1>4. size' = [size EXCEPT ![p] = 0]
  BY <1>0
<1>5. QED
  BY <1>0, <1>1, <1>2, <1>3, <1>4 DEF Abs!Close, Offset, Dist

(* The CAS of Tail is the commit of a pusher.                              *)
LEMMA CommitPushMaps ==
  ASSUME IndInv, NEW p \in Pushers, casTail(p), Tail = OldIndex[p]
  PROVE  Abs!CommitPush(p)
<1>0. p \in Procs
  BY DEF Procs
<1>1. /\ UNCHANGED <<Head, ReservedHead, ReservedTail, OldIndex, num>>
      /\ Dist(Tail', ReservedTail) = Dist(Tail, ReservedTail) - num[p]
      /\ Dist(ReservedHead, Tail') = Dist(ReservedHead, Tail) + num[p]
  BY CommitPushMoves
<1>2. HasWindow(p) /\ Abs!Close(Pushers, p)
  BY <1>1, CommitPushOffsets, CloseMaps
<1>3. QED
  BY <1>0, <1>1, <1>2 DEF Abs!CommitPush, Dist

(* The CAS of Head is the commit of a popper.                              *)
LEMMA CommitPopMaps ==
  ASSUME IndInv, NEW p \in Poppers, casHead(p), Head = OldIndex[p]
  PROVE  Abs!CommitPeekPop(p)
<1>0. p \in Procs
  BY DEF Procs
<1>1. /\ UNCHANGED <<Tail, ReservedHead, ReservedTail, OldIndex, num>>
      /\ Dist(Head', ReservedHead) = Dist(Head, ReservedHead) - num[p]
  BY CommitPopMoves
<1>2. HasWindow(p) /\ Abs!Close(Poppers, p)
  BY <1>1, CommitPopOffsets, CloseMaps
<1>3. QED
  BY <1>0, <1>1, <1>2 DEF Abs!CommitPeekPop, Dist

(* Every step of the queue is a step of the contract or invisible to it:   *)
(* the four successful CAS are the four actions, nothing else moves.       *)
LEMMA StepMaps ==
  ASSUME MaxLag < NumElm, IndInv, AsRequested, [Next]_vars
  PROVE  [Abs!Next]_(Abs!vars)
<1>0. /\ TypeOK /\ Pushers \subseteq Procs /\ Poppers \subseteq Procs
      /\ \A p \in Poppers : p \notin Pushers
  BY ThreadAssumption DEF Procs, IndInv
<1>1. ASSUME NEW p \in Procs, NEW to \in PCs, pc' = [pc EXCEPT ![p] = to],
             UNCHANGED indices,
             \/ UNCHANGED <<OldIndex, num>>
                /\ (to \in {"fas", "link", "reserved", "wake"} <=> HasWindow(p))
             \/ /\ \A q \in Procs \ {p} : UNCHANGED <<OldIndex[q], num[q]>>
                /\ ~HasWindow(p) /\ to \notin {"fas", "link", "reserved", "wake"}
      PROVE  UNCHANGED Abs!vars
  <2>1. pc'[p] = to /\ \A q \in Procs \ {p} : pc'[q] = pc[q]
    BY <1>0, <1>1 DEF TypeOK
  <2>2. \A q \in Procs : /\ HasWindow(q)' <=> HasWindow(q)
                         /\ HasWindow(q) => UNCHANGED <<OldIndex[q], num[q]>>
    BY <1>1, <2>1 DEF HasWindow
  <2>3. QED
    BY <1>1, <2>2, StutterMaps
<1> USE DEF PCs, goto, HasWindow, request
<1>2. ASSUME NEW p \in Procs, forgetRequest(p)
      PROVE  \A q \in Procs \ {p} : UNCHANGED <<OldIndex[q], num[q]>>
  BY <1>0, <1>2 DEF forgetRequest, TypeOK
<1>3. ASSUME NEW p \in Pushers, readReservedTail(p) PROVE UNCHANGED Abs!vars
  <2>1. PICK n \in PushNums : /\ pc[p] \in {"idle", "retry"}
                              /\ pc' = [pc EXCEPT ![p] = "limit"]
                              /\ OldIndex' = [OldIndex EXCEPT ![p] = ReservedTail]
                              /\ num' = [num EXCEPT ![p] = n]
                              /\ UNCHANGED indices
    BY <1>3 DEF readReservedTail
  <2>2. \A q \in Procs \ {p} : UNCHANGED <<OldIndex[q], num[q]>>
    BY <1>0, <2>1 DEF TypeOK
  <2>3. QED
    BY <1>0, <1>1, <2>1, <2>2
<1>4. ASSUME NEW p \in Poppers, readReservedHead(p) PROVE UNCHANGED Abs!vars
  <2>1. PICK r \in PopRequests : /\ pc[p] \in {"idle", "retry"}
                                 /\ pc' = [pc EXCEPT ![p] = "limit"]
                                 /\ OldIndex' = [OldIndex EXCEPT ![p] = ReservedHead]
                                 /\ num' = [num EXCEPT ![p] = r[2]]
                                 /\ UNCHANGED indices
    BY <1>4 DEF readReservedHead
  <2>2. \A q \in Procs \ {p} : UNCHANGED <<OldIndex[q], num[q]>>
    BY <1>0, <2>1 DEF TypeOK
  <2>3. QED
    BY <1>0, <1>1, <2>1, <2>2
<1>5. ASSUME NEW p \in Procs, UNCHANGED indices, giveUp(p) \/ setRevInfo(p)
      PROVE  UNCHANGED Abs!vars
  BY <1>1, <1>2, <1>5 DEF giveUp, setRevInfo
<1>6. ASSUME NEW p \in Pushers, checkRoom(p) PROVE UNCHANGED Abs!vars
  BY <1>0, <1>5, <1>6 DEF checkRoom
<1>7. ASSUME NEW p \in Poppers, checkData(p) PROVE UNCHANGED Abs!vars
  BY <1>0, <1>5, <1>7 DEF checkData
<1>8. ASSUME NEW p \in Pushers, casReservedTail(p) PROVE [Abs!Next]_(Abs!vars)
  <2>1. CASE ReservedTail = OldIndex[p]
    BY <1>8, <2>1, ReservePushMaps DEF Abs!Next
  <2>2. CASE ReservedTail # OldIndex[p]
    BY <1>0, <1>1, <1>8, <2>2 DEF casReservedTail, indices
  <2>3. QED
    BY <2>1, <2>2
<1>9. ASSUME NEW p \in Poppers, casReservedHead(p) PROVE [Abs!Next]_(Abs!vars)
  <2>1. CASE ReservedHead = OldIndex[p]
    BY <1>9, <2>1, ReservePopMaps DEF Abs!Next
  <2>2. CASE ReservedHead # OldIndex[p]
    BY <1>0, <1>1, <1>9, <2>2 DEF casReservedHead, indices
  <2>3. QED
    BY <2>1, <2>2
<1>10. ASSUME NEW p \in Pushers, casTail(p) PROVE [Abs!Next]_(Abs!vars)
  <2>1. CASE Tail = OldIndex[p]
    BY <1>10, <2>1, CommitPushMaps DEF Abs!Next
  <2>2. CASE Tail # OldIndex[p]
    BY <1>0, <1>1, <1>10, <2>2 DEF casTail, indices
  <2>3. QED
    BY <2>1, <2>2
<1>11. ASSUME NEW p \in Poppers, casHead(p) PROVE [Abs!Next]_(Abs!vars)
  <2>1. CASE Head = OldIndex[p]
    BY <1>11, <2>1, CommitPopMaps DEF Abs!Next
  <2>2. CASE Head # OldIndex[p]
    BY <1>0, <1>1, <1>11, <2>2 DEF casHead, indices
  <2>3. QED
    BY <2>1, <2>2
<1>12. ASSUME NEW p \in Pushers, fasLastReservedPush(p) \/ leavePushList(p)
       PROVE  UNCHANGED Abs!vars
  BY <1>0, <1>1, <1>2, <1>12 DEF fasLastReservedPush, enter, leavePushList
<1>13. ASSUME NEW p \in Poppers, fasLastReservedPop(p) \/ leavePopList(p)
       PROVE  UNCHANGED Abs!vars
  BY <1>0, <1>1, <1>2, <1>13 DEF fasLastReservedPop, enter, leavePopList
<1>14. ASSUME NEW p \in Procs, linkBehind(p) \/ wakeNextAndRetry(p) \/ handOff(p)
       PROVE  UNCHANGED Abs!vars
  BY <1>1, <1>2, <1>14 DEF linkBehind, wakeNextAndRetry, handOff
<1>15. CASE UNCHANGED vars
  BY <1>15, StutterMaps DEF vars
<1>16. QED
  BY <1>3, <1>4, <1>6, <1>7, <1>8, <1>9, <1>10, <1>11, <1>12, <1>13, <1>14, <1>15,
     NextCases

(* The lock-free queue implements the bounded FIFO reserve/commit contract *)
(* of ReserveCommitSpec: within capacity, and committed in the order of    *)
(* reservation, whatever the order of the threads in the commit lists.     *)
THEOREM ImplementsContract == ASSUME MaxLag < NumElm PROVE Spec => ImplementsReserveCommit
<1>1. ASSUME Init PROVE Abs!Init /\ AsRequested
  <2>1. \A p \in Procs : ~HasWindow(p) /\ pc[p] \notin {"limit", "cas"}
    BY <1>1 DEF Init, HasWindow
  <2>2. Dist(0, 0) = 0
    BY DistZero, NumElmAssumption DEF Dist
  <2>3. [p \in Procs |-> HasWindow(p)] = [p \in Procs |-> FALSE]
    <3>1. \A p \in Procs : HasWindow(p) = FALSE
      BY <2>1 DEF HasWindow
    <3>2. QED
      BY <3>1, Zenon
  <2>4. Abs!Init
    BY <1>1, <2>1, <2>2, <2>3 DEF Init, Abs!Init, Abs!Procs, Procs, Dist
  <2>5. AsRequested
    BY <2>1 DEF AsRequested
  <2>6. QED
    BY <2>4, <2>5
<1>2. IndInv => TypeOK
  BY DEF IndInv
<1>3. TypeOK /\ AsRequested /\ [Next]_vars => AsRequested'
  BY RequestStep
<1>4. IndInv /\ AsRequested /\ [Next]_vars => [Abs!Next]_(Abs!vars)
  BY StepMaps
<1>5. QED
  BY <1>1, <1>2, <1>3, <1>4, InvariantHolds, PTL DEF Spec, Abs!Spec, ImplementsReserveCommit
=============================================================================

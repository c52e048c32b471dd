-------------------------- MODULE RingIndex_proofs --------------------------
(***************************************************************************)
(* What the index helpers of the queues compute, for every ring size N:    *)
(* with D(a, b) = getNumFilledElements(N, a, b) the distance from a to b   *)
(* round the ring, the two checks are comparisons of distances.  The       *)
(* proofs about the queues use these facts only and never look inside.     *)
(***************************************************************************)
EXTENDS RingIndex, TLAPS

(* A distance is a slot count below N.                                     *)
LEMMA DistType ==
  ASSUME NEW N \in Nat, NEW a \in 0 .. (N - 1), NEW b \in 0 .. (N - 1)
  PROVE  getNumFilledElements(N, a, b) \in 0 .. (N - 1)
  BY DEF getNumFilledElements

(* Distance zero means the same index.                                     *)
LEMMA DistZero ==
  ASSUME NEW N \in Nat, NEW a \in 0 .. (N - 1), NEW b \in 0 .. (N - 1)
  PROVE  getNumFilledElements(N, a, b) = 0 <=> a = b
  BY DEF getNumFilledElements

(* Moving an index by less than a ring leaves it inside the ring.          *)
LEMMA AdvanceInRing ==
  ASSUME NEW N \in Nat, NEW a \in 0 .. (N - 1), NEW n \in 0 .. (N - 1)
  PROVE  advance(N, a, n) \in 0 .. (N - 1)
  BY DEF advance

(* Distances add up as long as they stay within one lap.                   *)
LEMMA DistAdd ==
  ASSUME NEW N \in Nat, NEW a \in 0 .. (N - 1), NEW b \in 0 .. (N - 1),
         NEW c \in 0 .. (N - 1),
         getNumFilledElements(N, a, b) + getNumFilledElements(N, b, c) < N
  PROVE  getNumFilledElements(N, a, c)
           = getNumFilledElements(N, a, b) + getNumFilledElements(N, b, c)
  BY DEF getNumFilledElements

(* Distances from a common start subtract.                                 *)
LEMMA DistBetween ==
  ASSUME NEW N \in Nat, NEW h \in 0 .. N - 1, NEW a \in 0 .. N - 1, NEW b \in 0 .. N - 1,
         getNumFilledElements(N, h, a) <= getNumFilledElements(N, h, b)
  PROVE  getNumFilledElements(N, a, b)
           = getNumFilledElements(N, h, b) - getNumFilledElements(N, h, a)
BY DEF getNumFilledElements

(* Moving the far end by n makes the distance n longer.                    *)
LEMMA DistGrow ==
  ASSUME NEW N \in Nat, NEW a \in 0 .. (N - 1), NEW b \in 0 .. (N - 1),
         NEW n \in 0 .. (N - 1), getNumFilledElements(N, a, b) + n < N
  PROVE  getNumFilledElements(N, a, advance(N, b, n))
           = getNumFilledElements(N, a, b) + n
  BY DEF getNumFilledElements, advance

(* Moving the near end by n makes the distance n shorter.                  *)
LEMMA DistShrink ==
  ASSUME NEW N \in Nat, NEW a \in 0 .. (N - 1), NEW b \in 0 .. (N - 1),
         NEW n \in 0 .. (N - 1), n <= getNumFilledElements(N, a, b)
  PROVE  getNumFilledElements(N, advance(N, a, n), b)
           = getNumFilledElements(N, a, b) - n
  BY DEF getNumFilledElements, advance

(* Two moves are one move, and only the empty move stands still.           *)
LEMMA AdvanceTwice ==
  ASSUME NEW N \in Nat, NEW a \in 0 .. (N - 1),
         NEW m \in 0 .. (N - 1), NEW n \in 0 .. (N - 1), m + n < N
  PROVE  /\ advance(N, advance(N, a, m), n) = advance(N, a, m + n)
         /\ advance(N, a, m) = a <=> m = 0
  BY DEF advance

(* haveEnoughRoom: the slots in use plus the requested ones leave the      *)
(* spare slot free.                                                        *)
THEOREM RoomIsDistance ==
  ASSUME NEW N \in Nat, NEW r_tail \in 0 .. (N - 1), NEW head \in 0 .. (N - 1),
         NEW Num \in Nat \ {0}
  PROVE  haveEnoughRoom(N, r_tail, head, Num)
           <=> getNumFilledElements(N, head, r_tail) + Num < N
  BY DEF haveEnoughRoom, getNumFilledElements

(* haveEnoughData: the committed, unreserved elements suffice.             *)
THEOREM DataIsDistance ==
  ASSUME NEW N \in Nat, NEW r_head \in 0 .. (N - 1), NEW tail \in 0 .. (N - 1),
         NEW PeekNum \in Nat \ {0}
  PROVE  haveEnoughData(N, r_head, tail, PeekNum)
           <=> getNumFilledElements(N, r_head, tail) >= PeekNum
  BY DEF haveEnoughData, getNumFilledElements

(* The two pieces of a window are exactly the slots less than Num behind    *)
(* its start: no slot of another reservation, and none is forgotten.       *)
THEOREM WindowIsDistance ==
  ASSUME NEW N \in Nat, NEW idx \in 0 .. (N - 1), NEW Num \in 1 .. (N - 1)
  PROVE  windowSlots(window(N, idx, Num))
           = { s \in 0 .. (N - 1) : getNumFilledElements(N, idx, s) < Num }
<1> SUFFICES ASSUME NEW s
             PROVE  s \in windowSlots(window(N, idx, Num))
                      <=> s \in 0 .. (N - 1) /\ getNumFilledElements(N, idx, s) < Num
  OBVIOUS
<1>1. CASE idx + Num >= N
  <2>1. s \in windowSlots(window(N, idx, Num))
          <=> s \in idx .. (N - 1) \/ s \in 0 .. (idx + Num - N - 1)
    BY <1>1 DEF windowSlots, window
  <2>2. QED
    BY <1>1, <2>1 DEF getNumFilledElements
<1>2. CASE ~(idx + Num >= N)
  <2>1. s \in windowSlots(window(N, idx, Num)) <=> s \in idx .. (idx + Num - 1)
    BY <1>2 DEF windowSlots, window
  <2>2. QED
    BY <1>2, <2>1 DEF getNumFilledElements
<1>3. QED
  BY <1>1, <1>2

(* The half of it that the queue's proof needs.                            *)
LEMMA WindowSlot ==
  ASSUME NEW N \in Nat, NEW idx \in 0 .. (N - 1), NEW Num \in 1 .. (N - 1),
         NEW s \in windowSlots(window(N, idx, Num))
  PROVE  /\ s \in 0 .. (N - 1)
         /\ getNumFilledElements(N, idx, s) < Num
  BY WindowIsDistance
=============================================================================

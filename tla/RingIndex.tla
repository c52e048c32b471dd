----------------------------- MODULE RingIndex -----------------------------
(***************************************************************************)
(* Index arithmetic of the reserve/commit queues.  All three queues        *)
(* (Concurrent-, Blocking- and ResizableReserveCommitQueue.h) carry the    *)
(* same text; the concurrent one, the default build, is the one mapped.    *)
(*                                                                         *)
(* A ring of numelm slots 0 .. numelm-1 holds at most numelm-1 elements:   *)
(* the constructor adds one slot so that "full" and "empty" differ.        *)
(***************************************************************************)
EXTENDS Integers

(* Slots from index r_head up to, not including, index tail.               *)
getNumFilledElements(numelm, r_head, tail) ==
  IF r_head <= tail THEN tail - r_head ELSE numelm - (r_head - tail)

(* Slips: a room check that gives away the spare slot, an index that wraps *)
(* one step late.                                                          *)
haveEnoughRoomNoSpare(numelm, r_tail, head, Num) ==
  IF r_tail >= head
  THEN ~(r_tail + Num >= numelm /\ head < r_tail + Num - numelm)
  ELSE ~(head < r_tail + Num)

advanceLateWrap(numelm, idx, Num) ==
  IF idx + Num > numelm THEN idx + Num - numelm ELSE idx + Num

(* Can Num more slots be reserved behind r_tail without reaching head?     *)
haveEnoughRoom(numelm, r_tail, head, Num) ==
  IF r_tail >= head
  THEN ~(r_tail + Num >= numelm /\ head <= r_tail + Num - numelm)
  ELSE ~(head <= r_tail + Num)

(* Are PeekNum committed elements available from r_head on?                *)
haveEnoughData(numelm, r_head, tail, PeekNum) ==
  /\ r_head # tail
  /\ IF r_head < tail
     THEN ~(r_head + PeekNum > tail)
     ELSE ~(r_head + PeekNum >= numelm /\ tail < r_head + PeekNum - numelm)

(* new_r_tail / new_r_head: the index Num slots behind idx.                *)
advance(numelm, idx, Num) ==
  IF idx + Num >= numelm THEN idx + Num - numelm ELSE idx + Num

(* The two pieces Win[0], Win[1] of a reservation of Num slots at idx; a   *)
(* piece is its first index and its length, an unused piece has length 0.  *)
window(numelm, idx, Num) ==
  IF idx + Num >= numelm
  THEN << [Base |-> idx, Num |-> numelm - idx],
          [Base |-> 0,   Num |-> idx + Num - numelm] >>
  ELSE << [Base |-> idx, Num |-> Num],
          [Base |-> 0,   Num |-> 0] >>

(* The slots a window gives access to.                                     *)
windowSlots(win) ==
  UNION { win[k].Base .. (win[k].Base + win[k].Num - 1) : k \in {1, 2} }
=============================================================================

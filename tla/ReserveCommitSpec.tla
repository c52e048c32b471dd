------------------------- MODULE ReserveCommitSpec -------------------------
(***************************************************************************)
(* What AbstractReserveCommitQueue promises to the kernels of a pipeline:  *)
(* a bounded FIFO in which an element run is first reserved, then used in  *)
(* place, then committed, and in which runs become visible (push) and      *)
(* disappear (pop) strictly in the order in which they were reserved,      *)
(* whatever the order in which the threads finish with them.               *)
(*                                                                         *)
(* Elements have no values here: the k-th reserved push slot is the k-th   *)
(* reserved pop slot, so order is all there is to know.                    *)
(***************************************************************************)
EXTENDS Integers

CONSTANTS Pushers,       \* threads that call reservePushN / commitPush
          Poppers,       \* threads that call reservePeekPopN / commitPeekPop
          Capacity,      \* elements the queue holds
          PushNums,      \* the values of Num that pushers use
          PopRequests    \* the pairs <<PeekNum, PopNum>> that poppers use

Procs == Pushers \cup Poppers

VARIABLES filled,        \* committed elements no pop has reserved
          pushing,       \* slots reserved and not yet committed by pushers
          popping,       \* slots reserved and not yet committed by poppers
          open,          \* open[p]: p holds a reservation
          ahead,         \* ahead[p]: slots that must be committed before p's
          size           \* size[p]: slots p's commit will move

vars == <<filled, pushing, popping, open, ahead, size>>

Init ==
  /\ filled = 0 /\ pushing = 0 /\ popping = 0
  /\ open = [p \in Procs |-> FALSE]
  /\ ahead = [p \in Procs |-> 0]
  /\ size = [p \in Procs |-> 0]

(* p opens a reservation of n slots behind `before` slots of its side.     *)
Open(p, before, n) ==
  /\ ~open[p]
  /\ open' = [open EXCEPT ![p] = TRUE]
  /\ ahead' = [ahead EXCEPT ![p] = before]
  /\ size' = [size EXCEPT ![p] = n]

(* p, the oldest reservation of its side S, closes it; the others of the   *)
(* side move up.                                                           *)
Close(S, p) ==
  /\ open[p] /\ ahead[p] = 0
  /\ open' = [open EXCEPT ![p] = FALSE]
  /\ ahead' = [q \in Procs |->
                 IF q \in S \ {p} /\ open[q] THEN ahead[q] - size[p] ELSE ahead[q]]
  /\ size' = [size EXCEPT ![p] = 0]

ReservePush(p, n) ==
  /\ popping + filled + pushing + n <= Capacity
  /\ Open(p, pushing, n)
  /\ pushing' = pushing + n
  /\ UNCHANGED <<filled, popping>>

CommitPush(p) ==
  /\ Close(Pushers, p)
  /\ pushing' = pushing - size[p]
  /\ filled' = filled + size[p]
  /\ UNCHANGED popping

ReservePeekPop(p, peek, n) ==
  /\ filled >= peek
  /\ Open(p, popping, n)
  /\ popping' = popping + n
  /\ filled' = filled - n
  /\ UNCHANGED pushing

CommitPeekPop(p) ==
  /\ Close(Poppers, p)
  /\ popping' = popping - size[p]
  /\ UNCHANGED <<filled, pushing>>

Next ==
  \/ \E p \in Pushers : (\E n \in PushNums : ReservePush(p, n)) \/ CommitPush(p)
  \/ \E p \in Poppers : (\E r \in PopRequests : ReservePeekPop(p, r[1], r[2]))
                        \/ CommitPeekPop(p)

Spec == Init /\ [][Next]_vars
=============================================================================

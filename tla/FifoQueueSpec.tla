--------------------------- MODULE FifoQueueSpec ---------------------------
(***************************************************************************)
(* What the users of a ready queue rely on (push, pop and empty of         *)
(* SuperScalableQueue.h, as CPUSchedulePolicyAdapter calls them): a FIFO   *)
(* of distinct nodes in which push and pop take effect at one instant, and *)
(* a node belongs either to the queue, to the thread that popped it, or to *)
(* nobody.                                                                 *)
(***************************************************************************)
EXTENDS Sequences

CONSTANTS Nodes, Threads, NULL

VARIABLES
  q,       \* the queued nodes, oldest first
  hand     \* the node a thread has popped and not yet returned with

vars == <<q, hand>>

Init ==
  /\ q = <<>>
  /\ hand = [p \in Threads |-> NULL]

Push ==
  \E n \in Nodes :
    /\ \A i \in DOMAIN q : q[i] # n
    /\ \A p \in Threads : hand[p] # n
    /\ q' = Append(q, n)
    /\ UNCHANGED hand

Pop(p) ==
  /\ q # <<>> /\ hand[p] = NULL
  /\ hand' = [hand EXCEPT ![p] = Head(q)]
  /\ q' = Tail(q)

Return(p) ==
  /\ hand[p] # NULL
  /\ hand' = [hand EXCEPT ![p] = NULL]
  /\ UNCHANGED q

Next == Push \/ \E p \in Threads : Pop(p) \/ Return(p)

Spec == Init /\ [][Next]_vars
=============================================================================

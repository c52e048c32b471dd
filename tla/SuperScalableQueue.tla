------------------------ MODULE SuperScalableQueue -------------------------
(***************************************************************************)
(* SuperScalableQueue.h, the ready queue of a kernel: a linked list with a *)
(* permanent sentinel, pushed to without a lock and popped from under an   *)
(* MCSLock.  Every thread both pushes and pops.  Nodes are green threads;  *)
(* one that was popped is pushed again later, so nodes and their __Next    *)
(* are used over and over.  The debug counter __NumElm is left out.  Head  *)
(* and Tail carry a suffix, the names belong to module Sequences.          *)
(***************************************************************************)
EXTENDS MCSLock

CONSTANTS Nodes,
          HeadNode          \* the permanent sentinel, Head in the source

ASSUME NodeAssumption ==
  HeadNode \notin Nodes /\ NULL \notin Nodes \cup {HeadNode}

VARIABLES
  TailNode, NextNode,       \* Tail, and the __Next of every node
  node,                     \* the node a thread pushes or has popped
  oldTail,                  \* local OldTail of push
  pc,
  list                      \* history: the nodes, from the fasWord on Tail of
                            \* their push to the store that pops them

listVars == <<TailNode, NextNode, list>>
vars == <<listVars, node, oldTail, pc, lockVars>>

(* "fas", "link": in push; "lock": pop acquires PopLock or has just got it; *)
(* "first": waits for the first node's link; "only": one node seen;        *)
(* "clear": has taken the only node; "second": waits for the second link;  *)
(* "unlock": pop releases PopLock.                                         *)
PCs == {"idle", "fas", "link", "lock", "first", "only", "clear", "second", "unlock"}

Init ==
  /\ TailNode = HeadNode
  /\ NextNode = [n \in Nodes \cup {HeadNode} |-> NULL]
  /\ node = [p \in Threads |-> NULL]
  /\ oldTail = [p \in Threads |-> NULL]
  /\ pc = [p \in Threads |-> "idle"]
  /\ list = <<>>
  /\ LockInit

goto(p, from, to) == pc[p] = from /\ pc' = [pc EXCEPT ![p] = to]

Queued == { list[i] : i \in 1 .. Len(list) }

(* Green threads that nobody runs the queue for: they may be pushed.       *)
Free == Nodes \ (Queued \cup { node[p] : p \in Threads })

-----------------------------------------------------------------------------
(* push                                                                    *)

(* Node->__Next = NULL                                                     *)
beginPush(p) ==
  \E n \in Free :
    /\ goto(p, "idle", "fas")
    /\ node' = [node EXCEPT ![p] = n]
    /\ NextNode' = [NextNode EXCEPT ![n] = NULL]
    /\ UNCHANGED <<TailNode, list, oldTail, lockVars>>

(* OldTail = fasWord(&Tail, Node)                                          *)
fasTail(p) ==
  /\ goto(p, "fas", "link")
  /\ oldTail' = [oldTail EXCEPT ![p] = TailNode]
  /\ TailNode' = node[p]
  /\ list' = Append(list, node[p])
  /\ UNCHANGED <<NextNode, node, lockVars>>

(* OldTail->__Next = Node                                                  *)
linkNode(p) ==
  /\ goto(p, "link", "idle")
  /\ NextNode' = [NextNode EXCEPT ![oldTail[p]] = node[p]]
  /\ oldTail' = [oldTail EXCEPT ![p] = NULL]
  /\ node' = [node EXCEPT ![p] = NULL]
  /\ UNCHANGED <<TailNode, list, lockVars>>

push(p) == beginPush(p) \/ fasTail(p) \/ linkNode(p)

-----------------------------------------------------------------------------
(* pop                                                                     *)

(* Head == Tail without the lock: -EWOULDBLOCK, otherwise on to the lock.  *)
beginPop(p) ==
  /\ TailNode # HeadNode
  /\ goto(p, "idle", "lock")
  /\ UNCHANGED <<listVars, node, oldTail, lockVars>>

acquire(p) ==
  /\ pc[p] = "lock" /\ lock(p)
  /\ UNCHANGED <<listVars, node, oldTail, pc>>

(* Head == Tail under the lock.                                            *)
checkEmpty(p) ==
  /\ at[p] = "in"
  /\ goto(p, "lock", IF TailNode = HeadNode THEN "unlock" ELSE "first")
  /\ UNCHANGED <<listVars, node, oldTail, lockVars>>

(* while (Head->__Next == NULL); then tail == Head->__Next?  Nobody else   *)
(* changes Head->__Next between the two.                                   *)
checkFirst(p) ==
  /\ NextNode[HeadNode] # NULL
  /\ goto(p, "first", IF TailNode = NextNode[HeadNode] THEN "only" ELSE "second")
  /\ UNCHANGED <<listVars, node, oldTail, lockVars>>

(* Slip: the only node is taken without comparing Tail.                    *)
storeOnly(p) ==
  /\ goto(p, "only", "clear")
  /\ TailNode' = HeadNode
  /\ list' = Tail(list)
  /\ node' = [node EXCEPT ![p] = NextNode[HeadNode]]
  /\ UNCHANGED <<NextNode, oldTail, lockVars>>

(* casWord(&Tail, tail, Head): take the only node, or a push came between. *)
casOnly(p) ==
  /\ \/ /\ TailNode = NextNode[HeadNode]
        /\ goto(p, "only", "clear")
        /\ TailNode' = HeadNode
        /\ list' = Tail(list)
        /\ node' = [node EXCEPT ![p] = NextNode[HeadNode]]
     \/ /\ TailNode # NextNode[HeadNode]
        /\ goto(p, "only", "second")
        /\ UNCHANGED <<TailNode, list, node>>
  /\ UNCHANGED <<NextNode, oldTail, lockVars>>

(* casWord(&Head->__Next, next, NULL)                                      *)
casClear(p) ==
  /\ goto(p, "clear", "unlock")
  /\ NextNode' = [NextNode EXCEPT ![HeadNode] = IF @ = node[p] THEN NULL ELSE @]
  /\ UNCHANGED <<TailNode, list, node, oldTail, lockVars>>

(* while (Head->__Next->__Next == NULL); Node = Head->__Next;              *)
(* Head->__Next = Head->__Next->__Next.                                    *)
takeFirst(p) ==
  /\ goto(p, "second", "unlock")
  /\ NextNode[NextNode[HeadNode]] # NULL
  /\ node' = [node EXCEPT ![p] = NextNode[HeadNode]]
  /\ NextNode' = [NextNode EXCEPT ![HeadNode] = NextNode[NextNode[HeadNode]]]
  /\ list' = Tail(list)
  /\ UNCHANGED <<TailNode, oldTail, lockVars>>

(* PopLock.unlock; its last step is the end of the call.                   *)
release(p) ==
  /\ pc[p] = "unlock" /\ unlock(p)
  /\ IF at'[p] = "out"
     THEN /\ pc' = [pc EXCEPT ![p] = "idle"]
          /\ node' = [node EXCEPT ![p] = NULL]
     ELSE UNCHANGED <<pc, node>>
  /\ UNCHANGED <<listVars, oldTail>>

pop(p) ==
  \/ beginPop(p) \/ acquire(p) \/ checkEmpty(p) \/ checkFirst(p)
  \/ casOnly(p) \/ casClear(p) \/ takeFirst(p) \/ release(p)

Next == \E p \in Threads : push(p) \/ pop(p)

Spec == Init /\ [][Next]_vars

(* Native threads run on: what a thread began it goes on with.             *)
FairSpec ==
  Spec /\ \A p \in Threads : WF_vars(pc[p] # "idle" /\ (push(p) \/ pop(p)))

-----------------------------------------------------------------------------
(* Properties                                                              *)

(* The variables have their types.                                         *)
TypeOK ==
  /\ TailNode \in Nodes \cup {HeadNode}
  /\ NextNode \in [Nodes \cup {HeadNode} -> Nodes \cup {NULL}]
  /\ node \in [Threads -> Nodes \cup {NULL}]
  /\ oldTail \in [Threads -> Nodes \cup {HeadNode, NULL}]
  /\ pc \in [Threads -> PCs]
  /\ list \in Seq(Nodes)

(* The links hold the list together: each node is linked behind the one    *)
(* before it, or its pusher, which is between its FAS and its link, is     *)
(* about to do so.  Pushers only write to the sentinel and to nodes that   *)
(* no pop has returned in the meantime.                                    *)
before(i) == IF i = 1 THEN HeadNode ELSE list[i - 1]

linking(p, i) == pc[p] = "link" /\ oldTail[p] = before(i) /\ node[p] = list[i]

LinksIntoQueue ==
  /\ TypeOK
  /\ TailNode = before(Len(list) + 1)
  /\ \A i \in 1 .. Len(list) :
       NextNode[before(i)] = list[i] \/ \E p \in Threads : linking(p, i)
  /\ \A p \in Threads : pc[p] = "link" => \E i \in 1 .. Len(list) : linking(p, i)

(* The queue is a FIFO: push takes effect at its FAS on Tail, pop at the   *)
(* CAS on Tail or the store to Head->__Next, no node is lost, duplicated   *)
(* or overtaken, whatever pushes are half done.                            *)
Fifo == INSTANCE FifoQueueSpec WITH
  q <- list,
  hand <- [p \in Threads |-> IF pc[p] \in {"clear", "unlock"} THEN node[p] ELSE NULL]

ImplementsFifo == Fifo!Spec

(* Every thread is outside the queue again and again: no waiting loop (for *)
(* the lock, for a pusher's link) of a pop goes on for ever.               *)
PopReturns == \A p \in Threads : []<>(pc[p] = "idle")
=============================================================================

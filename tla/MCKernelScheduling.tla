------------------------ MODULE MCKernelScheduling -------------------------
(* Instances of KernelScheduling.  The native threads are interchangeable. *)
EXTENDS KernelScheduling, TLC

Symmetry == Permutations(Workers)

put(q, n) == operation("push", q, n, "none")
get(q, n) == operation("pop", q, n, "none")

(* Two start kernels feed a third, which needs one element of each.        *)
Join ==
  [Body |-> << <<put(1, 1), put(1, 1)>>, <<put(2, 2)>>,
               <<get(1, 2), get(2, 2)>> >>,
   Start |-> {1, 2}, ParallelExec |-> {2, 3},
   QueueInfoTable |-> <<connect(1, 3, FALSE), connect(2, 3, FALSE)>>]

(* A chain of three, the middle one parallel.                              *)
Pipeline ==
  [Body |-> << <<put(1, 1), put(1, 1)>>, <<get(1, 2), put(2, 1)>>, <<get(2, 2)>> >>,
   Start |-> {1}, ParallelExec |-> {2},
   QueueInfoTable |-> <<connect(1, 2, FALSE), connect(2, 3, FALSE)>>]

(* A producer that overfills the queue of its consumer.                    *)
Relay(n) ==
  [Body |-> << <<put(1, 1), put(1, 1), put(1, 1)>>, <<get(1, n)>> >>,
   Start |-> {1}, ParallelExec |-> {},
   QueueInfoTable |-> <<connect(1, 2, FALSE)>>]

(* A parallel kernel that keeps the order of its input by tickets, and     *)
(* gives its results back to the source by a feedback queue.               *)
Ordered ==
  [Body |-> << <<put(1, 1), put(1, 1), get(2, 2)>>,
               <<operation("pop", 1, 1, "draw"), operation("push", 2, 1, "turn")>> >>,
   Start |-> {1}, ParallelExec |-> {2},
   QueueInfoTable |-> <<connect(1, 2, FALSE), connect(2, 1, TRUE)>>]

(* A parallel kernel that pops two queues in step: the turn of the first   *)
(* pop is that of the second.                                              *)
Zip ==
  [Body |-> << <<put(1, 2), put(2, 2), put(1, 2)>>,
               <<operation("pop", 1, 2, "draw"), operation("pop", 2, 2, "turn")>> >>,
   Start |-> {1}, ParallelExec |-> {2},
   QueueInfoTable |-> <<connect(1, 2, FALSE), connect(1, 2, FALSE)>>]

(* A parallel kernel answers the source by a feedback queue, and has more  *)
(* to say than the source will take.                                       *)
Reply ==
  [Body |-> << <<put(1, 1), put(1, 1), get(2, 1)>>,
               <<get(1, 2), put(2, 2), put(2, 2)>> >>,
   Start |-> {1}, ParallelExec |-> {2},
   QueueInfoTable |-> <<connect(1, 2, FALSE), connect(2, 1, TRUE)>>]

(* The shape of the merge sorts: what is merged goes back to be combined.  *)
(* The source is not on the cycle of the last output queues.               *)
MergeSort ==
  [Body |-> << <<put(1, 1)>>, <<get(1, 1), put(2, 1), get(3, 1)>>,
               <<get(2, 1), put(3, 1)>> >>,
   Start |-> {1}, ParallelExec |-> {},
   QueueInfoTable |-> <<connect(1, 2, FALSE), connect(2, 3, FALSE), connect(3, 2, TRUE)>>]

SafetyPrograms == {Join, Ordered, Zip}
EndingPrograms == {Relay(2), Reply}
LeavingPrograms == {Pipeline}
DrainingPrograms == {Relay(1)}
WalkingPrograms == {MergeSort}
=============================================================================

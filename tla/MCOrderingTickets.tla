------------------------- MODULE MCOrderingTickets -------------------------
(* Instances of OrderingTickets.  The threads are interchangeable.  (The   *)
(* TLC module's Permutations would bring Sequences' Head with it.)         *)
EXTENDS OrderingTickets

Symmetry ==
  { [x \in Threads |-> f[x]] :
      f \in { g \in [Threads -> Threads] : { g[x] : x \in Threads } = Threads } }

OneElement == {1}
OneOrTwo == {1, 2}
=============================================================================

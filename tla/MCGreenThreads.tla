-------------------------- MODULE MCGreenThreads ---------------------------
(* Instances of GreenThreads.  Native and green threads are                *)
(* interchangeable.                                                        *)
EXTENDS GreenThreads

Symmetry == Permutations(Workers) \cup Permutations(Threads)
=============================================================================

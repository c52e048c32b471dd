-------------------------- MODULE MCConcurrentRCQ --------------------------
(* ConcurrentRCQ for TLC.  A crew of the threads is at work, the others    *)
(* never call: pushers among themselves, or both sides with two threads on *)
(* one of them.                                                            *)
EXTENDS ConcurrentRCQ

CONSTANTS w1, w2, w3, r1, r2

VARIABLE crew

Crews == {{w1, w2, w3}, {w1, w2, r1}, {w1, r1, r2}}

(* PopRequests: a sliding window of two, and pairs.                        *)
PeekTwo == {<<2, 1>>, <<2, 2>>}

CrewInit == Init /\ crew \in Crews
CrewNext ==
  /\ \/ \E p \in crew \cap Pushers : reservePushN(p) \/ commitPush(p)
     \/ \E p \in crew \cap Poppers : reservePeekPopN(p) \/ commitPeekPop(p)
  /\ UNCHANGED crew

CrewSpec == CrewInit /\ [][CrewNext]_<<vars, crew>> /\ Fairness
=============================================================================

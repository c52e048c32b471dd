----------------------------- MODULE RCLockSpec -----------------------------
(***************************************************************************)
(* What the RCLock of the blocking and the resizable queue promises: two   *)
(* locks in one line of threads.  A thread joins at the end of the line,   *)
(* holds the reserve lock when everyone before it has held and released    *)
(* it, and holds the commit lock while it is the first.  So both locks are *)
(* taken in the order of arrival, and a reservation may be open (reserve   *)
(* lock released, commit lock not yet reached) for many threads at once.   *)
(***************************************************************************)
CONSTANTS Procs, Sides      \* threads; one RCLock per side of the queue

VARIABLES stage,            \* stage[s][p]: what p has done with the reserve lock
          ahead             \* ahead[s][p]: the threads before p in the line of s

lockVars == <<stage, ahead>>

Stages == {"out", "waiting", "holding", "released"}
line(s) == { p \in Procs : stage[s][p] # "out" }

LockInit ==
  /\ stage = [s \in Sides |-> [p \in Procs |-> "out"]]
  /\ ahead = [s \in Sides |-> [p \in Procs |-> {}]]

setStage(s, p, from, to) ==
  /\ stage[s][p] = from
  /\ stage' = [stage EXCEPT ![s][p] = to]

(* acquireReserveLock up to the swap: an empty line gives both locks.      *)
Enter(s, p) ==
  /\ setStage(s, p, "out", IF line(s) = {} THEN "holding" ELSE "waiting")
  /\ ahead' = [ahead EXCEPT ![s][p] = line(s)]

(* tryAcquireReserveLock: only an empty line is joined.                    *)
TryEnter(s, p) == line(s) = {} /\ Enter(s, p)

(* The rest of acquireReserveLock.                                         *)
Take(s, p) ==
  /\ setStage(s, p, "waiting", "holding")
  /\ \A q \in ahead[s][p] : stage[s][q] = "released"
  /\ UNCHANGED ahead

Release(s, p) ==
  /\ setStage(s, p, "holding", "released")
  /\ UNCHANGED ahead

(* acquireCommitLock returns.                                              *)
HoldsCommit(s, p) == ahead[s][p] = {}

(* releaseCommitLock                                                       *)
Leave(s, p) ==
  /\ HoldsCommit(s, p)
  /\ setStage(s, p, "released", "out")
  /\ ahead' = [ahead EXCEPT ![s] = [q \in Procs |-> @[q] \ {p}]]

LockNext ==
  \E s \in Sides, p \in Procs :
    Enter(s, p) \/ Take(s, p) \/ Release(s, p) \/ Leave(s, p)

LockSpec == LockInit /\ [][LockNext]_lockVars

-----------------------------------------------------------------------------
(* What follows for the threads of a line, for any threads and sides; the  *)
(* proofs are in ResizableRCQ_proofs.                                      *)

(* The variables have their types.                                         *)
LineType ==
  /\ stage \in [Sides -> [Procs -> Stages]]
  /\ ahead \in [Sides -> [Procs -> SUBSET Procs]]

(* Only threads of the line are before another one.                        *)
AheadInLine ==
  \A s \in Sides : \A p \in Procs :
    /\ ahead[s][p] \subseteq line(s) \ {p}
    /\ stage[s][p] = "out" => ahead[s][p] = {}

(* Of two threads in line, one is before the other.                        *)
LineIsTotal ==
  \A s \in Sides : \A p, q \in line(s) :
    p # q => (p \in ahead[s][q] <=> q \notin ahead[s][p])

(* Whoever has got the reserve lock is only behind threads that have       *)
(* released it.                                                            *)
NoOvertaking ==
  \A s \in Sides : \A q \in Procs : stage[s][q] \in {"holding", "released"} =>
    \A p \in ahead[s][q] : stage[s][p] = "released"

(* The inductive invariant of the two locks.                               *)
LineInv == LineType /\ AheadInLine /\ LineIsTotal /\ NoOvertaking

(* One thread at a time holds the reserve lock of a side.                  *)
ReserveMutex ==
  \A s \in Sides : \A p, q \in Procs :
    stage[s][p] = "holding" /\ stage[s][q] = "holding" => p = q

(* One thread of a line at a time holds its commit lock.                   *)
CommitMutex ==
  \A s \in Sides : \A p, q \in line(s) :
    HoldsCommit(s, p) /\ HoldsCommit(s, q) => p = q
=============================================================================

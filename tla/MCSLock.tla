------------------------------ MODULE MCSLock ------------------------------
(***************************************************************************)
(* MCSLock.h, the queue lock inside the ready queues.  A QNode lives on    *)
(* the stack of the thread that calls lock and dies with its unlock, so a  *)
(* QNode has the name of its thread.                                       *)
(***************************************************************************)
EXTENDS Sequences, Integers

CONSTANTS Threads, NULL

ASSUME NullAssumption == NULL \notin Threads

VARIABLES
  Lock,             \* last QNode in line
  Locked, Next_,    \* the fields of the QNodes (Next in the source)
  Predecessor,      \* local of lock
  at,               \* where each thread is
  line              \* history: threads from their fasWord to their unlock

lockVars == <<Lock, Locked, Next_, Predecessor, at, line>>

(* "out": not here; "enter": QNode filled in; "link": has a predecessor;   *)
(* "spin": waits; "in": holds the lock; "swap": no successor seen;         *)
(* "await": there is one that is not linked yet; "pass": hands over.       *)
LockPlaces == {"out", "enter", "link", "spin", "in", "swap", "await", "pass"}

LockInit ==
  /\ Lock = NULL
  /\ Locked = [p \in Threads |-> FALSE]
  /\ Next_ = [p \in Threads |-> NULL]
  /\ Predecessor = [p \in Threads |-> NULL]
  /\ at = [p \in Threads |-> "out"]
  /\ line = <<>>

move(p, from, to) == at[p] = from /\ at' = [at EXCEPT ![p] = to]

-----------------------------------------------------------------------------
(* QN.Locked = 1; QN.Next = NULL                                           *)
setQNode(p) ==
  /\ move(p, "out", "enter")
  /\ Locked' = [Locked EXCEPT ![p] = TRUE]
  /\ Next_' = [Next_ EXCEPT ![p] = NULL]
  /\ UNCHANGED <<Lock, Predecessor, line>>

(* Predecessor = fasWord(&Lock, &QN)                                       *)
fasLock(p) ==
  /\ move(p, "enter", IF Lock = NULL THEN "in" ELSE "link")
  /\ Predecessor' = [Predecessor EXCEPT ![p] = Lock]
  /\ Lock' = p
  /\ line' = Append(line, p)
  /\ UNCHANGED <<Locked, Next_>>

(* Predecessor->Next = &QN                                                 *)
linkPredecessor(p) ==
  /\ move(p, "link", "spin")
  /\ Next_' = [Next_ EXCEPT ![Predecessor[p]] = p]
  /\ Predecessor' = [Predecessor EXCEPT ![p] = NULL]
  /\ UNCHANGED <<Lock, Locked, line>>

(* Slip: the thread does not spin.                                         *)
enterAtOnce(p) ==
  /\ move(p, "spin", "in")
  /\ UNCHANGED <<Lock, Locked, Next_, Predecessor, line>>

(* while (QN.Locked);                                                      *)
spin(p) ==
  /\ ~Locked[p]
  /\ move(p, "spin", "in")
  /\ UNCHANGED <<Lock, Locked, Next_, Predecessor, line>>

(* if (!QN.Next)                                                           *)
checkSuccessor(p) ==
  /\ move(p, "in", IF Next_[p] = NULL THEN "swap" ELSE "pass")
  /\ UNCHANGED <<Lock, Locked, Next_, Predecessor, line>>

(* Slip: unlock returns although the CAS failed.                           *)
returnUnswapped(p) ==
  /\ move(p, "swap", "out")
  /\ Lock' = IF Lock = p THEN NULL ELSE Lock
  /\ line' = Tail(line)
  /\ UNCHANGED <<Locked, Next_, Predecessor>>

(* casWord(&Lock, &QN, NULL)                                               *)
casLock(p) ==
  /\ \/ /\ Lock = p
        /\ move(p, "swap", "out")
        /\ Lock' = NULL
        /\ line' = Tail(line)
     \/ /\ Lock # p
        /\ move(p, "swap", "await")
        /\ UNCHANGED <<Lock, line>>
  /\ UNCHANGED <<Locked, Next_, Predecessor>>

(* while (!QN.Next);                                                       *)
awaitSuccessor(p) ==
  /\ Next_[p] # NULL
  /\ move(p, "await", "pass")
  /\ UNCHANGED <<Lock, Locked, Next_, Predecessor, line>>

(* QN.Next->Locked = 0                                                     *)
passLock(p) ==
  /\ move(p, "pass", "out")
  /\ Locked' = [Locked EXCEPT ![Next_[p]] = FALSE]
  /\ line' = Tail(line)
  /\ UNCHANGED <<Lock, Next_, Predecessor>>

lock(p) == setQNode(p) \/ fasLock(p) \/ linkPredecessor(p) \/ spin(p)

unlock(p) == checkSuccessor(p) \/ casLock(p) \/ awaitSuccessor(p) \/ passLock(p)

LockNext == \E p \in Threads : lock(p) \/ unlock(p)

LockSpec == LockInit /\ [][LockNext]_lockVars

-----------------------------------------------------------------------------
(* Properties                                                              *)

Holds(p) == at[p] \in {"in", "swap", "await", "pass"}

(* The variables have their types.                                         *)
LockTypeOK ==
  /\ Lock \in Threads \cup {NULL}
  /\ Locked \in [Threads -> BOOLEAN]
  /\ Next_ \in [Threads -> Threads \cup {NULL}]
  /\ Predecessor \in [Threads -> Threads \cup {NULL}]
  /\ at \in [Threads -> LockPlaces]
  /\ line \in Seq(Threads)
  /\ \A p \in Threads : at[p] = "link" => Predecessor[p] # NULL

(* At most one thread is between lock and unlock.                          *)
Mutex == \A p, q \in Threads : Holds(p) /\ Holds(q) => p = q

(* The lock goes round in the order of arrival: the holder is the first    *)
(* in line.                                                                *)
FirstComeFirstServed == \A p \in Threads : Holds(p) => line[1] = p

(* QNodes are stack objects: lock and unlock only write to the QNode of a  *)
(* thread that is still inside lock or unlock.                             *)
QNodesAlive ==
  \A p \in Threads :
    /\ at[p] = "link" => Holds(Predecessor[p]) \/ at[Predecessor[p]] \in {"link", "spin"}
    /\ at[p] = "pass" => Next_[p] \in Threads /\ at[Next_[p]] = "spin"

(* The line is the threads inside, each once, and Lock its last.           *)
InLine == { p \in Threads : at[p] \notin {"out", "enter"} }

LineIsInLine ==
  /\ \A i, j \in 1 .. Len(line) : line[i] = line[j] => i = j
  /\ \A i \in 1 .. Len(line) : line[i] \in InLine
  /\ \A p \in InLine : \E i \in 1 .. Len(line) : line[i] = p
  /\ Lock = IF line = <<>> THEN NULL ELSE line[Len(line)]

(* The i-th of the line: the first holds the lock or has been let in, any  *)
(* other one waits behind its predecessor, linked to it or about to be.    *)
PlaceOK(i) ==
  /\ i = 1 => Holds(line[i]) \/ (at[line[i]] = "spin" /\ ~Locked[line[i]])
  /\ i > 1 => /\ at[line[i]] \in {"link", "spin"}
              /\ Locked[line[i]]
              /\ at[line[i]] = "link" =>
                   Predecessor[line[i]] = line[i - 1] /\ Next_[line[i - 1]] = NULL
              /\ at[line[i]] = "spin" => Next_[line[i - 1]] = line[i]
  /\ i = Len(line) => Next_[line[i]] = NULL
  /\ at[line[i]] = "await" => i < Len(line)
  /\ at[line[i]] = "pass" => Next_[line[i]] # NULL

(* The line, link by link: the inductive invariant behind Mutex.           *)
LineOK == LineIsInLine /\ \A i \in 1 .. Len(line) : PlaceOK(i)

EnteringOK ==
  \A p \in Threads : at[p] = "enter" => Locked[p] /\ Next_[p] = NULL

LockInv == LockTypeOK /\ LineOK /\ EnteringOK
=============================================================================

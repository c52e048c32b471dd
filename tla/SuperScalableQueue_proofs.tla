---------------------- MODULE SuperScalableQueue_proofs ----------------------
(***************************************************************************)
(* MCSLock excludes, and serves in order of arrival, for any number of     *)
(* threads.  The ready queue keeps the discipline of its PopLock: what     *)
(* MCSLock guarantees for a client that locks and unlocks holds in the     *)
(* queue, too.  With one popper at a time behind the lock the links, made  *)
(* and about to be made, form one list, and the queue is a FIFO.           *)
(***************************************************************************)
EXTENDS SuperScalableQueue, SequenceTheorems, TLAPS

(* line as a function on 1 .. Len(line).                                   *)
LEMMA LineFunction ==
  ASSUME LockTypeOK
  PROVE  /\ Len(line) \in Nat
         /\ \A i \in 1 .. Len(line) : line[i] \in Threads
         /\ line = <<>> <=> Len(line) = 0
  BY LenProperties, EmptySeq DEF LockTypeOK

(* What a new arrival does to the line.                                    *)
LEMMA Arrival ==
  ASSUME LockTypeOK, NEW p \in Threads, line' = Append(line, p)
  PROVE  /\ line' \in Seq(Threads) /\ line' # <<>>
         /\ Len(line') = Len(line) + 1
         /\ \A i \in 1 .. Len(line) : line'[i] = line[i]
         /\ line'[Len(line) + 1] = p
  BY AppendProperties DEF LockTypeOK

(* What the departure of the first does to the line.                       *)
LEMMA Departure ==
  ASSUME LockTypeOK, line # <<>>, line' = Tail(line)
  PROVE  /\ line' \in Seq(Threads)
         /\ Len(line') = Len(line) - 1
         /\ \A i \in 1 .. Len(line) - 1 : line'[i] = line[i + 1]
         /\ line' = <<>> <=> Len(line) = 1
<1>1. /\ line' \in Seq(Threads) /\ Len(line') = Len(line) - 1
      /\ \A i \in 1 .. Len(line') : line'[i] = line[i + 1]
  BY HeadTailProperties DEF LockTypeOK
<1>2. Len(line) \in Nat \ {0} /\ (line' = <<>> <=> Len(line') = 0)
  BY <1>1, EmptySeq DEF LockTypeOK
<1>3. QED
  BY <1>1, <1>2

(* Only the first in line holds the lock.                                  *)
LEMMA HolderIsFirst ==
  ASSUME LockInv, NEW p \in Threads, Holds(p)
  PROVE  Len(line) >= 1 /\ line[1] = p
<1>1. p \in InLine
  BY DEF Holds, InLine
<1>2. PICK i \in 1 .. Len(line) : line[i] = p
  BY <1>1 DEF LockInv, LineOK, LineIsInLine
<1>3. i = 1
  BY <1>2, LineFunction DEF LockInv, LineOK, PlaceOK, Holds
<1>4. QED
  BY <1>2, <1>3, LineFunction DEF LockInv

LEMMA TypeStep ==
  ASSUME LockInv, [LockNext]_lockVars
  PROVE  LockTypeOK'
<1> USE DEF LockInv, LockTypeOK, LockPlaces, move
<1>1. ASSUME NEW p \in Threads, setQNode(p) PROVE LockTypeOK'
  BY <1>1, NullAssumption DEF setQNode
<1>2. ASSUME NEW p \in Threads, fasLock(p) PROVE LockTypeOK'
  <2>1. line' \in Seq(Threads)
    BY <1>2, Arrival DEF fasLock
  <2>2. QED
    BY <1>2, <2>1, NullAssumption DEF fasLock
<1>3. ASSUME NEW p \in Threads, linkPredecessor(p) PROVE LockTypeOK'
  BY <1>3, NullAssumption DEF linkPredecessor
<1>4. ASSUME NEW p \in Threads, spin(p) PROVE LockTypeOK'
  BY <1>4 DEF spin
<1>5. ASSUME NEW p \in Threads, checkSuccessor(p) PROVE LockTypeOK'
  BY <1>5 DEF checkSuccessor
<1>6. ASSUME NEW p \in Threads, awaitSuccessor(p) PROVE LockTypeOK'
  BY <1>6 DEF awaitSuccessor
<1>7. ASSUME NEW p \in Threads, casLock(p) PROVE LockTypeOK'
  <2>1. line # <<>>
    BY <1>7, HolderIsFirst, LineFunction DEF casLock, Holds
  <2>2. line' \in Seq(Threads)
    BY <1>7, <2>1, Departure DEF casLock
  <2>3. QED
    BY <1>7, <2>2 DEF casLock
<1>8. ASSUME NEW p \in Threads, passLock(p) PROVE LockTypeOK'
  <2>1. line # <<>>
    BY <1>8, HolderIsFirst, LineFunction DEF passLock, Holds
  <2>2. line' \in Seq(Threads)
    BY <1>8, <2>1, Departure DEF passLock
  <2>3. QED
    BY <1>8, <2>2 DEF passLock
<1>9. CASE UNCHANGED lockVars
  BY <1>9 DEF lockVars
<1>10. QED
  BY <1>1, <1>2, <1>3, <1>4, <1>5, <1>6, <1>7, <1>8, <1>9 DEF LockNext, lock, unlock

(* Steps that leave the line as it is keep who is in it.                   *)
LEMMA SameLine ==
  ASSUME LockInv, UNCHANGED <<line, Lock>>, NEW p \in Threads,
         \A q \in Threads \ {p} : at'[q] = at[q],
         at'[p] \in {"out", "enter"} <=> at[p] \in {"out", "enter"}
  PROVE  LineIsInLine'
<1>1. \A q \in Threads : q \in InLine' <=> q \in InLine
  BY DEF InLine
<1>2. \A i \in 1 .. Len(line) : line[i] \in Threads
  BY LineFunction DEF LockInv
<1>3. QED
  BY <1>1, <1>2 DEF LockInv, LineOK, LineIsInLine, InLine

LEMMA LineStep ==
  ASSUME LockInv, [LockNext]_lockVars
  PROVE  LineOK'
<1> USE DEF move
<1>0. /\ LockTypeOK /\ LockTypeOK' /\ LineIsInLine /\ EnteringOK
      /\ \A i \in 1 .. Len(line) : PlaceOK(i)
      /\ Len(line) \in Nat
      /\ \A i \in 1 .. Len(line) : line[i] \in Threads
      /\ line = <<>> <=> Len(line) = 0
  BY TypeStep, LineFunction DEF LockInv, LineOK
<1>a. ASSUME NEW p \in Threads, NEW from, NEW to, move(p, from, to)
      PROVE  /\ at[p] = from /\ at'[p] = to
             /\ \A q \in Threads \ {p} : at'[q] = at[q]
  BY <1>0, <1>a DEF LockTypeOK
<1>1. ASSUME NEW p \in Threads, setQNode(p) PROVE LineOK'
  <2>1. /\ at[p] = "out" /\ at'[p] = "enter"
        /\ \A q \in Threads \ {p} :
             at'[q] = at[q] /\ Locked'[q] = Locked[q] /\ Next_'[q] = Next_[q]
        /\ UNCHANGED <<Lock, Predecessor, line>>
    BY <1>0, <1>1, <1>a DEF setQNode, LockTypeOK
  <2>2. LineIsInLine'
    BY <2>1, SameLine
  <2>3. \A i \in 1 .. Len(line) : line[i] # p
    BY <1>0, <2>1 DEF LineIsInLine, InLine
  <2>4. ASSUME NEW i \in 1 .. Len(line) PROVE PlaceOK(i)'
    <3>1. /\ line' = line /\ Predecessor' = Predecessor
          /\ at'[line[i]] = at[line[i]] /\ Locked'[line[i]] = Locked[line[i]]
          /\ Next_'[line[i]] = Next_[line[i]]
      BY <1>0, <2>1, <2>3, <2>4
    <3>2. i > 1 => i - 1 \in 1 .. Len(line) /\ Next_'[line[i - 1]] = Next_[line[i - 1]]
      BY <1>0, <2>1, <2>3, <2>4
    <3>3. PlaceOK(i)
      BY <1>0, <2>4
    <3>4. QED
      BY <3>1, <3>2, <3>3 DEF PlaceOK, Holds
  <2>5. QED
    BY <2>1, <2>2, <2>4 DEF LineOK
<1>2. ASSUME NEW p \in Threads, fasLock(p) PROVE LineOK'
  <2>1. /\ at[p] = "enter" /\ at'[p] = (IF Lock = NULL THEN "in" ELSE "link")
        /\ \A q \in Threads \ {p} : at'[q] = at[q] /\ Predecessor'[q] = Predecessor[q]
        /\ Predecessor'[p] = Lock /\ Lock' = p /\ line' = Append(line, p)
        /\ UNCHANGED <<Locked, Next_>>
    BY <1>0, <1>2, <1>a DEF fasLock, LockTypeOK
  <2>2. /\ line' # <<>> /\ Len(line') = Len(line) + 1
        /\ \A i \in 1 .. Len(line) : line'[i] = line[i]
        /\ line'[Len(line) + 1] = p
    BY <1>0, <2>1, Arrival
  <2>3. Locked[p] /\ Next_[p] = NULL /\ \A i \in 1 .. Len(line) : line[i] # p
    BY <1>0, <2>1 DEF EnteringOK, LineIsInLine, InLine
  <2>4. Lock = NULL <=> Len(line) = 0
    BY <1>0, NullAssumption DEF LineIsInLine, InLine
  <2>5. LineIsInLine'
    <3>1. \A q \in Threads : q \in InLine' <=> (q \in InLine \/ q = p)
      BY <2>1 DEF InLine
    <3>2. InLine \subseteq Threads /\ InLine' \subseteq Threads
      BY DEF InLine
    <3>3. \A i, j \in 1 .. Len(line') : line'[i] = line'[j] => i = j
      BY <1>0, <2>2, <2>3 DEF LineIsInLine
    <3>4. \A i \in 1 .. Len(line') : line'[i] \in InLine'
      BY <1>0, <2>2, <3>1, <3>2 DEF LineIsInLine
    <3>5. \A q \in InLine' : \E i \in 1 .. Len(line') : line'[i] = q
      BY <1>0, <2>2, <3>1, <3>2 DEF LineIsInLine
    <3>6. QED
      BY <2>1, <2>2, <3>3, <3>4, <3>5, <1>0 DEF LineIsInLine
  <2>6. ASSUME NEW i \in 1 .. Len(line') PROVE PlaceOK(i)'
    <3>1. CASE i <= Len(line)
      BY <1>0, <2>1, <2>2, <2>3, <2>6, <3>1 DEF PlaceOK, Holds
    <3>2. CASE i = Len(line) + 1 /\ Len(line) = 0
      BY <1>0, <2>1, <2>2, <2>3, <2>4, <3>2 DEF PlaceOK, Holds
    <3>3. CASE i = Len(line) + 1 /\ Len(line) > 0
      <4>1. Lock = line[Len(line)] /\ Next_[line[Len(line)]] = NULL /\ at'[p] = "link"
        BY <1>0, <2>1, <2>4, <3>3 DEF LineIsInLine, PlaceOK
      <4>2. QED
        BY <1>0, <2>1, <2>2, <2>3, <3>3, <4>1 DEF PlaceOK, Holds
    <3>4. QED
      BY <1>0, <2>2, <3>1, <3>2, <3>3
  <2>7. QED
    BY <2>5, <2>6 DEF LineOK
<1>3. ASSUME NEW p \in Threads, linkPredecessor(p) PROVE LineOK'
  <2>1. /\ at[p] = "link" /\ at'[p] = "spin"
        /\ \A q \in Threads \ {p} : at'[q] = at[q] /\ Predecessor'[q] = Predecessor[q]
        /\ Next_' = [Next_ EXCEPT ![Predecessor[p]] = p]
        /\ UNCHANGED <<Lock, Locked, line>>
    BY <1>0, <1>3, <1>a DEF linkPredecessor, LockTypeOK
  <2>2. LineIsInLine'
    BY <2>1, SameLine
  <2>3. PICK k \in 1 .. Len(line) : line[k] = p
    BY <1>0, <2>1 DEF LineIsInLine, InLine
  <2>4. k > 1 /\ Predecessor[p] = line[k - 1] /\ line[k - 1] \in Threads
    BY <1>0, <2>1, <2>3 DEF PlaceOK, Holds
  <2>5. /\ Next_'[line[k - 1]] = p
        /\ \A j \in 1 .. Len(line) : j # k - 1 => Next_'[line[j]] = Next_[line[j]]
    BY <1>0, <2>1, <2>4 DEF LockTypeOK, LineIsInLine
  <2>6. ASSUME NEW i \in 1 .. Len(line) PROVE PlaceOK(i)'
    <3>1. CASE i = k
      BY <1>0, <2>1, <2>3, <2>4, <2>5, <3>1 DEF PlaceOK, Holds
    <3>2. CASE i # k
      <4>1. line[i] # p /\ at'[line[i]] = at[line[i]]
            /\ Predecessor'[line[i]] = Predecessor[line[i]]
        BY <1>0, <2>1, <2>3, <3>2 DEF LineIsInLine
      <4>2. i > 1 => Next_'[line[i - 1]] = Next_[line[i - 1]]
        BY <1>0, <2>3, <2>5, <3>2
      <4>3. i = k - 1 => Next_'[line[i]] # NULL /\ i # Len(line)
        BY <1>0, <2>3, <2>5, NullAssumption
      <4>4. i # k - 1 => Next_'[line[i]] = Next_[line[i]]
        BY <2>5
      <4>5. QED
        BY <1>0, <2>1, <4>1, <4>2, <4>3, <4>4 DEF PlaceOK, Holds
    <3>3. QED
      BY <3>1, <3>2
  <2>7. QED
    BY <2>1, <2>2, <2>6 DEF LineOK
<1>4. ASSUME NEW p \in Threads, spin(p) PROVE LineOK'
  <2>1. /\ at[p] = "spin" /\ at'[p] = "in" /\ ~Locked[p]
        /\ \A q \in Threads \ {p} : at'[q] = at[q]
        /\ UNCHANGED <<Lock, Locked, Next_, Predecessor, line>>
    BY <1>4, <1>a DEF spin
  <2>2. LineIsInLine'
    BY <2>1, SameLine
  <2>3. ASSUME NEW i \in 1 .. Len(line) PROVE PlaceOK(i)'
    <3>1. CASE line[i] = p
      BY <1>0, <2>1, <3>1 DEF PlaceOK, Holds
    <3>2. CASE line[i] # p
      BY <1>0, <2>1, <3>2 DEF PlaceOK, Holds
    <3>3. QED
      BY <3>1, <3>2
  <2>4. QED
    BY <2>1, <2>2, <2>3 DEF LineOK
<1>5. ASSUME NEW p \in Threads, at[p] \in {"in", "await"},
             at'[p] \in {"swap", "pass"}, at'[p] = "pass" => Next_[p] # NULL,
             \A q \in Threads \ {p} : at'[q] = at[q],
             UNCHANGED <<Lock, Locked, Next_, Predecessor, line>>
      PROVE  LineOK'
  <2>1. LineIsInLine'
    BY <1>5, SameLine
  <2>2. ASSUME NEW i \in 1 .. Len(line) PROVE PlaceOK(i)'
    <3>1. CASE line[i] = p
      BY <1>0, <1>5, <3>1 DEF PlaceOK, Holds
    <3>2. CASE line[i] # p
      BY <1>0, <1>5, <3>2 DEF PlaceOK, Holds
    <3>3. QED
      BY <3>1, <3>2
  <2>3. QED
    BY <1>5, <2>1, <2>2 DEF LineOK
<1>6. ASSUME NEW p \in Threads, checkSuccessor(p) PROVE LineOK'
  BY <1>5, <1>6, <1>a DEF checkSuccessor
<1>7. ASSUME NEW p \in Threads, awaitSuccessor(p) PROVE LineOK'
  BY <1>5, <1>7, <1>a DEF awaitSuccessor
<1>8. ASSUME NEW p \in Threads, casLock(p), Lock # p PROVE LineOK'
  <2>1. /\ at[p] = "swap" /\ at'[p] = "await"
        /\ \A q \in Threads \ {p} : at'[q] = at[q]
        /\ UNCHANGED <<Lock, Locked, Next_, Predecessor, line>>
    BY <1>8, <1>a DEF casLock
  <2>2. LineIsInLine'
    BY <2>1, SameLine
  <2>3. ASSUME NEW i \in 1 .. Len(line) PROVE PlaceOK(i)'
    <3>1. CASE line[i] = p
      BY <1>0, <1>8, <2>1, <3>1 DEF PlaceOK, Holds, LineIsInLine
    <3>2. CASE line[i] # p
      BY <1>0, <2>1, <3>2 DEF PlaceOK, Holds
    <3>3. QED
      BY <3>1, <3>2
  <2>4. QED
    BY <2>1, <2>2, <2>3 DEF LineOK
(* The first leaves: what the two ways of leaving have in common.          *)
<1>b. ASSUME NEW p \in Threads, Holds(p), at'[p] = "out", line' = Tail(line),
             \A q \in Threads \ {p} : at'[q] = at[q]
      PROVE  /\ line[1] = p /\ Len(line) >= 1 /\ Len(line') = Len(line) - 1
             /\ \A i \in 1 .. Len(line') : line'[i] = line[i + 1] /\ line'[i] # p
             /\ line' = <<>> <=> Len(line) = 1
             /\ \A i, j \in 1 .. Len(line') : line'[i] = line'[j] => i = j
             /\ \A i \in 1 .. Len(line') : line'[i] \in InLine'
             /\ \A q \in InLine' : \E i \in 1 .. Len(line') : line'[i] = q
  <2>1. line[1] = p /\ Len(line) >= 1
    BY <1>b, HolderIsFirst
  <2>2. /\ Len(line') = Len(line) - 1
        /\ \A i \in 1 .. Len(line') : line'[i] = line[i + 1]
        /\ line' = <<>> <=> Len(line) = 1
    BY <1>0, <1>b, <2>1, Departure
  <2>3. InLine' = InLine \ {p}
    BY <1>b DEF InLine, Holds
  <2>4. \A i \in 1 .. Len(line') : line'[i] # p
    BY <1>0, <2>1, <2>2 DEF LineIsInLine
  <2>5. \A i, j \in 1 .. Len(line') : line'[i] = line'[j] => i = j
    BY <1>0, <2>1, <2>2 DEF LineIsInLine
  <2>6. \A i \in 1 .. Len(line') : line'[i] \in InLine'
    BY <1>0, <2>1, <2>2, <2>3, <2>4 DEF LineIsInLine
  <2>7. ASSUME NEW q \in InLine' PROVE \E i \in 1 .. Len(line') : line'[i] = q
    <3>1. PICK k \in 1 .. Len(line) : line[k] = q
      BY <1>0, <2>3, <2>7 DEF LineIsInLine
    <3>2. k > 1
      BY <2>1, <2>3, <2>7, <3>1, <1>0
    <3>3. k - 1 \in 1 .. Len(line') /\ line'[k - 1] = q
      BY <1>0, <2>2, <3>1, <3>2
    <3>4. QED
      BY <3>3
  <2>8. QED
    BY <2>1, <2>2, <2>4, <2>5, <2>6, <2>7
<1>9. ASSUME NEW p \in Threads, casLock(p), Lock = p PROVE LineOK'
  <2>1. /\ at[p] = "swap" /\ at'[p] = "out" /\ Lock' = NULL /\ line' = Tail(line)
        /\ \A q \in Threads \ {p} : at'[q] = at[q]
    BY <1>9, <1>a, NullAssumption DEF casLock
  <2>2. line[1] = p /\ Len(line) >= 1 /\ Len(line') = Len(line) - 1
    BY <1>b, <2>1 DEF Holds
  <2>3. Len(line) = 1
    BY <1>0, <1>9, <2>2 DEF LineIsInLine
  <2>4. Len(line') = 0 /\ line' = <<>>
    BY <1>b, <2>1, <2>2, <2>3 DEF Holds
  <2>5. LineIsInLine'
    BY <1>b, <2>1, <2>4 DEF LineIsInLine, Holds
  <2>6. QED
    BY <2>4, <2>5 DEF LineOK
<1>10. ASSUME NEW p \in Threads, passLock(p) PROVE LineOK'
  <2>1. /\ at[p] = "pass" /\ at'[p] = "out" /\ line' = Tail(line)
        /\ \A q \in Threads \ {p} : at'[q] = at[q]
        /\ Locked' = [Locked EXCEPT ![Next_[p]] = FALSE]
        /\ UNCHANGED <<Lock, Next_, Predecessor>>
    BY <1>10, <1>a DEF passLock
  <2>2. /\ line[1] = p /\ Len(line) >= 1 /\ Len(line') = Len(line) - 1
        /\ \A i \in 1 .. Len(line') : line'[i] = line[i + 1] /\ line'[i] # p
        /\ line' = <<>> <=> Len(line) = 1
        /\ \A i, j \in 1 .. Len(line') : line'[i] = line'[j] => i = j
        /\ \A i \in 1 .. Len(line') : line'[i] \in InLine'
        /\ \A q \in InLine' : \E i \in 1 .. Len(line') : line'[i] = q
    BY <1>b, <2>1 DEF Holds
  <2>3. Len(line) > 1 /\ Next_[p] # NULL
    BY <1>0, <2>1, <2>2 DEF PlaceOK
  <2>4. at[line[2]] = "spin" /\ Next_[p] = line[2]
    BY <1>0, <2>2, <2>3 DEF PlaceOK
  <2>5. LineIsInLine'
    <3>1. Lock' = line'[Len(line')] /\ line' # <<>>
      BY <1>0, <2>1, <2>2, <2>3 DEF LineIsInLine
    <3>2. QED
      BY <2>2, <3>1 DEF LineIsInLine
  <2>6. /\ ~Locked'[line[2]]
        /\ \A j \in 1 .. Len(line) : j # 2 => Locked'[line[j]] = Locked[line[j]]
    <3>1. /\ line[2] \in Threads
          /\ \A j \in 1 .. Len(line) : line[j] \in Threads /\ (j # 2 => line[j] # line[2])
      BY <1>0, <2>3 DEF LineIsInLine
    <3>2. Locked' = [Locked EXCEPT ![line[2]] = FALSE] /\ Locked \in [Threads -> BOOLEAN]
      BY <1>0, <2>1, <2>4 DEF LockTypeOK
    <3>3. QED
      BY <3>1, <3>2, Zenon
  <2>7. ASSUME NEW i \in 1 .. Len(line') PROVE PlaceOK(i)'
    <3>0. i + 1 \in 1 .. Len(line) /\ line'[i] = line[i + 1] /\ at'[line'[i]] = at[line[i + 1]]
      BY <1>0, <2>1, <2>2
    <3>1. CASE i = 1
      BY <1>0, <2>1, <2>2, <2>4, <2>6, <3>0, <3>1 DEF PlaceOK, Holds
    <3>2. CASE i > 1
      <4>1. line'[i - 1] = line[i] /\ PlaceOK(i + 1) /\ (i + 1) - 1 = i
        BY <1>0, <2>2, <3>0, <3>2
      <4>2. Locked'[line'[i]]
        <5>1. i + 1 # 2 /\ i + 1 > 1
          BY <1>0, <2>2, <3>2
        <5>2. Locked[line[i + 1]]
          BY <4>1, <5>1 DEF PlaceOK
        <5>3. QED
          BY <2>6, <3>0, <5>1, <5>2, Zenon
      <4>3. /\ at'[line'[i]] \in {"link", "spin"}
            /\ at'[line'[i]] = "link" =>
                 Predecessor'[line'[i]] = line'[i - 1] /\ Next_'[line'[i - 1]] = NULL
            /\ at'[line'[i]] = "spin" => Next_'[line'[i - 1]] = line'[i]
            /\ i = Len(line') => Next_'[line'[i]] = NULL
        BY <1>0, <2>1, <2>2, <3>0, <3>2, <4>1 DEF PlaceOK
      <4>4. QED
        BY <3>2, <4>2, <4>3 DEF PlaceOK
    <3>3. QED
      BY <1>0, <2>2, <3>1, <3>2
  <2>8. QED
    BY <2>5, <2>7 DEF LineOK
<1>11. CASE UNCHANGED lockVars
  BY <1>0, <1>11 DEF lockVars, LineOK, LineIsInLine, PlaceOK, InLine, Holds
<1>12. QED
  BY <1>1, <1>2, <1>3, <1>4, <1>6, <1>7, <1>8, <1>9, <1>10, <1>11
     DEF LockNext, lock, unlock

LEMMA EnteringStep ==
  ASSUME LockInv, [LockNext]_lockVars
  PROVE  EnteringOK'
<1> USE DEF LockInv, LockTypeOK, EnteringOK, move
<1>1. ASSUME NEW p \in Threads, setQNode(p) PROVE EnteringOK'
  BY <1>1, Zenon DEF setQNode
<1>2. ASSUME NEW p \in Threads, fasLock(p) PROVE EnteringOK'
  BY <1>2 DEF fasLock
<1>3. ASSUME NEW p \in Threads, linkPredecessor(p) PROVE EnteringOK'
  <2>1. PICK i \in 1 .. Len(line) : line[i] = p
    BY <1>3 DEF linkPredecessor, LineOK, LineIsInLine, InLine
  <2>2. i - 1 \in 1 .. Len(line) /\ Predecessor[p] = line[i - 1]
    BY <1>3, <2>1, LineFunction DEF linkPredecessor, LineOK, PlaceOK, Holds
  <2>3. at[Predecessor[p]] # "enter"
    BY <2>2 DEF LineOK, LineIsInLine, InLine
  <2>4. \A q \in Threads : at'[q] = "enter" => at[q] = "enter" /\ q # Predecessor[p]
    BY <1>3, <2>3 DEF linkPredecessor
  <2>5. UNCHANGED Locked /\ \A q \in Threads : q # Predecessor[p] => Next_'[q] = Next_[q]
    BY <1>3 DEF linkPredecessor
  <2>6. QED
    BY <2>4, <2>5
<1>4. ASSUME NEW p \in Threads, spin(p) \/ checkSuccessor(p) \/ awaitSuccessor(p) \/ casLock(p)
      PROVE  EnteringOK'
  <2>1. UNCHANGED <<Locked, Next_>> /\ \A q \in Threads : at'[q] = "enter" => at[q] = "enter"
    BY <1>4 DEF spin, checkSuccessor, awaitSuccessor, casLock
  <2>2. QED
    BY <2>1
<1>5. ASSUME NEW p \in Threads, passLock(p) PROVE EnteringOK'
  <2>1. Holds(p)
    BY <1>5 DEF passLock, Holds
  <2>2. line[1] = p /\ Len(line) >= 1 /\ Len(line) \in Nat /\ Next_[p] # NULL
    BY <1>5, <2>1, HolderIsFirst, LineFunction DEF passLock, LineOK, PlaceOK
  <2>3. Len(line) > 1 /\ line[2] \in Threads
    BY <2>2, LineFunction DEF LineOK, PlaceOK
  <2>4. at[line[2]] \in {"link", "spin"} /\ Next_[p] = line[2]
    BY <2>2, <2>3 DEF LineOK, PlaceOK
  <2>5. \A q \in Threads : at'[q] = "enter" => at[q] = "enter" /\ q # line[2]
    BY <1>5, <2>4 DEF passLock
  <2>6. UNCHANGED Next_ /\ \A q \in Threads : q # line[2] => Locked'[q] = Locked[q]
    BY <1>5, <2>4 DEF passLock
  <2>7. QED
    BY <2>5, <2>6
<1>6. CASE UNCHANGED lockVars
  BY <1>6 DEF lockVars
<1>7. QED
  BY <1>1, <1>2, <1>3, <1>4, <1>5, <1>6 DEF LockNext, lock, unlock

-----------------------------------------------------------------------------
(* The chain of QNodes stays a line: every thread inside lock or unlock is *)
(* in it once, linked or about to be linked to the one before it, and the  *)
(* first of it has the lock.                                               *)
THEOREM InvariantHolds == LockSpec => []LockInv
<1>1. ASSUME LockInit PROVE LockInv
  <2>1. line = <<>> /\ line \in Seq(Threads) /\ Len(line) = 0
    BY <1>1, EmptySeq DEF LockInit
  <2>2. LockTypeOK /\ EnteringOK
    BY <1>1, <2>1 DEF LockInit, LockTypeOK, EnteringOK, LockPlaces
  <2>3. LineOK
    BY <1>1, <2>1 DEF LockInit, LineOK, LineIsInLine, InLine
  <2>4. QED
    BY <2>2, <2>3 DEF LockInv
<1>2. LockInv /\ [LockNext]_lockVars => LockInv'
  BY TypeStep, LineStep, EnteringStep DEF LockInv
<1>3. QED
  BY <1>1, <1>2, PTL DEF LockSpec

(* At most one thread is between lock and unlock.                          *)
THEOREM MutualExclusion == LockSpec => []Mutex
<1>1. LockInv => Mutex
  BY HolderIsFirst DEF Mutex
<1>2. QED
  BY <1>1, InvariantHolds, PTL

(* Whoever holds the lock has been waiting longest.                        *)
THEOREM ServesInOrder == LockSpec => []FirstComeFirstServed
<1>1. LockInv => FirstComeFirstServed
  BY HolderIsFirst DEF FirstComeFirstServed
<1>2. QED
  BY <1>1, InvariantHolds, PTL

(* No thread writes to the QNode of a thread that has returned.            *)
THEOREM NoDeadQNode == LockSpec => []QNodesAlive
<1>1. ASSUME LockInv PROVE QNodesAlive
  <2>0. /\ LineIsInLine /\ Len(line) \in Nat
        /\ \A i \in 1 .. Len(line) : PlaceOK(i) /\ line[i] \in Threads
    BY <1>1, LineFunction DEF LockInv, LineOK
  <2>1. ASSUME NEW p \in Threads, at[p] = "link"
        PROVE  Holds(Predecessor[p]) \/ at[Predecessor[p]] \in {"link", "spin"}
    <3>1. PICK i \in 1 .. Len(line) : line[i] = p
      BY <2>0, <2>1 DEF LineIsInLine, InLine
    <3>2. i > 1 /\ Predecessor[p] = line[i - 1] /\ i - 1 \in 1 .. Len(line)
      BY <2>0, <2>1, <3>1 DEF PlaceOK, Holds
    <3>3. QED
      BY <2>0, <3>2 DEF PlaceOK
  <2>2. ASSUME NEW p \in Threads, at[p] = "pass"
        PROVE  Next_[p] \in Threads /\ at[Next_[p]] = "spin"
    <3>1. line[1] = p /\ Len(line) >= 1 /\ Next_[p] # NULL
      BY <1>1, <2>0, <2>2, HolderIsFirst DEF Holds, PlaceOK
    <3>2. Len(line) > 1
      BY <2>0, <3>1 DEF PlaceOK
    <3>3. line[2] \in Threads /\ PlaceOK(2) /\ 2 - 1 = 1
      BY <2>0, <3>2
    <3>4. at[line[2]] = "spin" /\ Next_[line[1]] = line[2]
      BY <3>1, <3>3 DEF PlaceOK
    <3>5. QED
      BY <3>1, <3>3, <3>4
  <2>3. QED
    BY <2>1, <2>2 DEF QNodesAlive
<1>2. QED
  BY <1>1, InvariantHolds, PTL

-----------------------------------------------------------------------------
(* The queue                                                               *)

(* A step of the queue is a step of PopLock or leaves it as it is.         *)
LEMMA LockStep ==
  ASSUME [Next]_vars
  PROVE  [LockNext]_lockVars
<1>1. ASSUME NEW p \in Threads, push(p) PROVE UNCHANGED lockVars
  BY <1>1 DEF push, beginPush, fasTail, linkNode
<1>2. ASSUME NEW p \in Threads, pop(p)
      PROVE  lock(p) \/ unlock(p) \/ UNCHANGED lockVars
  <2>1. CASE acquire(p)
    BY <2>1 DEF acquire
  <2>2. CASE release(p)
    BY <2>2 DEF release
  <2>3. CASE beginPop(p) \/ checkEmpty(p) \/ checkFirst(p)
    BY <2>3 DEF beginPop, checkEmpty, checkFirst
  <2>4. CASE casOnly(p) \/ casClear(p) \/ takeFirst(p)
    BY <2>4 DEF casOnly, casClear, takeFirst
  <2>5. QED
    BY <1>2, <2>1, <2>2, <2>3, <2>4 DEF pop
<1>3. CASE UNCHANGED vars
  BY <1>3 DEF vars
<1>4. QED
  BY <1>1, <1>2, <1>3 DEF Next, LockNext

(* The queue uses PopLock as MCSLock says: lock and unlock in turn.        *)
THEOREM UsesLock == Spec => LockSpec
<1>1. Init => LockInit
  BY DEF Init
<1>2. [Next]_vars => [LockNext]_lockVars
  BY LockStep
<1>3. QED
  BY <1>1, <1>2, PTL DEF Spec, LockSpec

(* The inductive invariant of PopLock holds inside the queue.              *)
THEOREM QueueLockInv == Spec => []LockInv
  BY UsesLock, InvariantHolds

(* Only one thread at a time is in the part of pop that PopLock guards.    *)
THEOREM OnePopper == Spec => []Mutex
  BY UsesLock, MutualExclusion

(* Poppers get PopLock in the order of their arrival.                      *)
THEOREM PoppersInOrder == Spec => []FirstComeFirstServed
  BY UsesLock, ServesInOrder

(* Poppers only touch QNodes of calls that are still going on.             *)
THEOREM PoppersAlive == Spec => []QNodesAlive
  BY UsesLock, NoDeadQNode

-----------------------------------------------------------------------------
(* The list and its links                                                  *)

Critical(p) == pc[p] \in {"first", "only", "clear", "second"}

(* A node is in the list or with one thread; a pusher that has done its    *)
(* FAS still has its node, which is in the list then.                      *)
Owned ==
  /\ \A i, j \in 1 .. Len(list) : list[i] = list[j] => i = j
  /\ \A p, r \in Threads : node[p] # NULL /\ node[r] = node[p] => p = r
  /\ \A p \in Threads :
       /\ pc[p] \in {"fas", "link", "clear"} => node[p] # NULL
       /\ pc[p] \in {"idle", "lock", "first", "only", "second"} => node[p] = NULL
       /\ pc[p] = "fas" => NextNode[node[p]] = NULL
       /\ pc[p] # "link" => \A i \in 1 .. Len(list) : node[p] # list[i]

(* The links, and those under way.  The sentinel may still be linked to a  *)
(* node that has just been taken.                                          *)
Linked ==
  /\ TailNode = before(Len(list) + 1)
  /\ \A i \in 1 .. Len(list) :
       NextNode[before(i)] = list[i] \/ \E p \in Threads : linking(p, i)
  /\ \A p \in Threads : pc[p] = "link" =>
       \E i \in 1 .. Len(list) : linking(p, i) /\ NextNode[before(i)] # list[i]
  /\ \A i \in 1 .. Len(list) :
       NextNode[list[i]] = NULL \/ (i < Len(list) /\ NextNode[list[i]] = list[i + 1])
  /\ \/ NextNode[HeadNode] = NULL
     \/ Len(list) > 0 /\ NextNode[HeadNode] = list[1]
     \/ \E p \in Threads : pc[p] = "clear" /\ NextNode[HeadNode] = node[p]

(* What a popper has seen under the lock stays true: only it removes.      *)
Popping ==
  \A p \in Threads :
    /\ Critical(p) => at[p] = "in"
    /\ pc[p] = "first" => Len(list) > 0
    /\ pc[p] \in {"only", "second"} => Len(list) > 0 /\ NextNode[HeadNode] = list[1]
    /\ pc[p] = "second" => Len(list) > 1

QueueInv == TypeOK /\ Owned /\ Linked /\ Popping

LEMMA ListFacts ==
  ASSUME TypeOK
  PROVE  /\ Len(list) \in Nat
         /\ \A i \in 1 .. Len(list) : list[i] \in Nodes /\ list[i] # HeadNode /\ list[i] # NULL
         /\ before(1) = HeadNode
         /\ \A i \in 2 .. Len(list) + 1 : before(i) = list[i - 1] /\ i - 1 \in 1 .. Len(list)
         /\ \A i \in 1 .. Len(list) + 1 : before(i) \in Nodes \cup {HeadNode}
         /\ \A i \in 1 .. Len(list) : before(i + 1) = list[i]
<1>1. Len(list) \in Nat /\ \A i \in 1 .. Len(list) : list[i] \in Nodes
  BY LenProperties DEF TypeOK
<1>2. QED
  BY <1>1, NodeAssumption DEF before

LEMMA QueueBegins == Init => QueueInv
<1> SUFFICES ASSUME Init PROVE QueueInv
  OBVIOUS
<1>1. Len(list) = 0 /\ list \in Seq(Nodes)
  BY EmptySeq DEF Init
<1>2. TypeOK
  BY <1>1, NodeAssumption DEF Init, TypeOK, PCs
<1>3. 1 .. Len(list) = {} /\ before(Len(list) + 1) = HeadNode
  BY <1>1 DEF before
<1>4. Owned
  BY <1>3 DEF Init, Owned
<1>5. Linked
  BY <1>3 DEF Init, Linked
<1>6. QED
  BY <1>2, <1>4, <1>5 DEF Init, QueueInv, Popping, Critical

(* One popper at a time is in the part that PopLock guards.                *)
LEMMA OneCritical ==
  ASSUME LockInv, Popping, NEW p \in Threads, NEW r \in Threads, Critical(p), Critical(r)
  PROVE  p = r
<1>1. Holds(p) /\ Holds(r)
  BY DEF Popping, Holds
<1>2. QED
  BY <1>1, HolderIsFirst

(* The steps of a pop that only look, or lock and unlock.                  *)
LEMMA LookingStep ==
  ASSUME LockInv, QueueInv, NEW p \in Threads, UNCHANGED <<listVars, oldTail>>,
         pc' \in [Threads -> PCs], node' \in [Threads -> Nodes \cup {NULL}],
         \A r \in Threads \ {p} : pc'[r] = pc[r] /\ node'[r] = node[r] /\ at'[r] = at[r],
         pc[p] \notin {"fas", "link", "clear"}, pc'[p] \notin {"fas", "link", "clear"},
         node'[p] \in {node[p], NULL},
         pc'[p] \in {"idle", "lock", "first", "only", "second"} => node'[p] = NULL,
         Popping'
  PROVE  QueueInv'
<1>1. list' = list /\ TailNode' = TailNode /\ NextNode' = NextNode /\ oldTail' = oldTail
  BY DEF listVars
<1>2. \A i : before(i)' = before(i)
  BY <1>1 DEF before
<1>3. \A r \in Threads : \A i : linking(r, i)' <=> linking(r, i)
  BY <1>1, <1>2 DEF linking
<1>4. \A r \in Threads : pc'[r] \in {"fas", "link", "clear"} <=> pc[r] \in {"fas", "link", "clear"}
  OBVIOUS
<1>5. \A r \in Threads : pc'[r] \in {"fas", "link", "clear"} => pc'[r] = pc[r] /\ node'[r] = node[r]
  OBVIOUS
<1>6. TypeOK'
  BY <1>1 DEF QueueInv, TypeOK
<1>7. Owned'
  <2>1. \A i \in 1 .. Len(list) : list[i] # NULL
    BY ListFacts DEF QueueInv
  <2>2. QED
    BY <1>1, <1>5, <2>1 DEF QueueInv, Owned
<1>8. Linked'
  BY <1>1, <1>2, <1>3, <1>4, <1>5 DEF QueueInv, Linked
<1>9. QED
  BY <1>6, <1>7, <1>8 DEF QueueInv

(* Where lock and unlock leave the other threads.                          *)
LEMMA LockMoves ==
  ASSUME LockInv, NEW p \in Threads, lock(p) \/ unlock(p)
  PROVE  \A r \in Threads \ {p} : at'[r] = at[r]
<1>1. ASSUME NEW from, NEW to, move(p, from, to) PROVE \A r \in Threads \ {p} : at'[r] = at[r]
  BY <1>1 DEF move, LockInv, LockTypeOK
<1>2. CASE lock(p)
  BY <1>1, <1>2 DEF lock, setQNode, fasLock, linkPredecessor, spin
<1>3. CASE unlock(p)
  BY <1>1, <1>3 DEF unlock, checkSuccessor, casLock, awaitSuccessor, passLock
<1>4. QED
  BY <1>2, <1>3

(* A step of one thread changes its own place only.                        *)
LEMMA GoesTo ==
  ASSUME TypeOK, NEW p \in Threads, NEW from, NEW to, goto(p, from, to)
  PROVE  /\ pc[p] = from /\ pc' = [pc EXCEPT ![p] = to] /\ pc'[p] = to
         /\ \A r \in Threads \ {p} : pc'[r] = pc[r]
         /\ to \in PCs => pc' \in [Threads -> PCs]
BY DEF goto, TypeOK

LEMMA BeginPopStep ==
  ASSUME LockInv, QueueInv, NEW p \in Threads, beginPop(p)
  PROVE  QueueInv'
<1>1. /\ pc[p] = "idle" /\ pc'[p] = "lock" /\ \A r \in Threads \ {p} : pc'[r] = pc[r]
      /\ pc' \in [Threads -> PCs]
  BY GoesTo DEF beginPop, QueueInv, PCs
<1>2. UNCHANGED <<listVars, node, oldTail, at>>
  BY DEF beginPop, lockVars
<1>3. node \in [Threads -> Nodes \cup {NULL}] /\ node[p] = NULL
  BY <1>1 DEF QueueInv, TypeOK, Owned
<1>4. Popping'
  BY <1>1, <1>2 DEF QueueInv, Popping, Critical, listVars
<1>5. QED
  BY <1>1, <1>2, <1>3, <1>4, LookingStep

LEMMA AcquireStep ==
  ASSUME LockInv, QueueInv, NEW p \in Threads, acquire(p)
  PROVE  QueueInv'
<1>1. /\ pc[p] = "lock" /\ UNCHANGED <<listVars, node, oldTail, pc>>
      /\ \A r \in Threads \ {p} : at'[r] = at[r]
  BY LockMoves DEF acquire
<1>2. /\ node \in [Threads -> Nodes \cup {NULL}] /\ pc \in [Threads -> PCs]
      /\ pc[p] \in {"idle", "lock", "first", "only", "second"} => node[p] = NULL
  BY DEF QueueInv, TypeOK, Owned
<1>3. Popping'
  BY <1>1 DEF QueueInv, Popping, Critical, listVars
<1>4. QED
  BY <1>1, <1>2, <1>3, LookingStep

LEMMA CheckEmptyStep ==
  ASSUME LockInv, QueueInv, NEW p \in Threads, checkEmpty(p)
  PROVE  QueueInv'
<1> DEFINE to == IF TailNode = HeadNode THEN "unlock" ELSE "first"
<1>1. /\ pc[p] = "lock" /\ pc'[p] = to /\ \A r \in Threads \ {p} : pc'[r] = pc[r]
      /\ pc' \in [Threads -> PCs]
  BY GoesTo DEF checkEmpty, QueueInv, PCs
<1>2. UNCHANGED <<listVars, node, oldTail, at>> /\ at[p] = "in"
  BY DEF checkEmpty, lockVars
<1>3. node \in [Threads -> Nodes \cup {NULL}] /\ node[p] = NULL
  BY <1>1 DEF QueueInv, TypeOK, Owned
<1>4. to = "first" => Len(list) > 0
  BY ListFacts DEF QueueInv, Linked
<1>5. to \in {"unlock", "first"}
  OBVIOUS
<1> HIDE DEF to
<1>6. Popping'
  BY <1>1, <1>2, <1>4, <1>5 DEF QueueInv, Popping, Critical, listVars
<1>7. QED
  BY <1>1, <1>2, <1>3, <1>5, <1>6, LookingStep

(* What the sentinel links to, for a popper that has seen the link.        *)
LEMMA FirstLinked ==
  ASSUME LockInv, QueueInv, NEW p \in Threads, pc[p] = "first", NextNode[HeadNode] # NULL
  PROVE  Len(list) > 0 /\ NextNode[HeadNode] = list[1]
<1>1. Critical(p)
  BY DEF Critical
<1>2. \A r \in Threads : pc[r] # "clear"
  BY <1>1, OneCritical DEF QueueInv, Critical
<1>3. QED
  BY <1>2 DEF QueueInv, Linked

LEMMA NotTheLast ==
  ASSUME QueueInv, Len(list) > 0, TailNode # list[1]
  PROVE  Len(list) > 1
<1>1. Len(list) \in Nat /\ before(Len(list) + 1) = list[Len(list)]
  BY ListFacts DEF QueueInv
<1>2. TailNode = list[Len(list)]
  BY <1>1 DEF QueueInv, Linked
<1>3. QED
  BY <1>1, <1>2

LEMMA CheckFirstStep ==
  ASSUME LockInv, QueueInv, NEW p \in Threads, checkFirst(p)
  PROVE  QueueInv'
<1> DEFINE to == IF TailNode = NextNode[HeadNode] THEN "only" ELSE "second"
<1>1. /\ pc[p] = "first" /\ pc'[p] = to /\ \A r \in Threads \ {p} : pc'[r] = pc[r]
      /\ pc' \in [Threads -> PCs]
  BY GoesTo DEF checkFirst, QueueInv, PCs
<1>2. UNCHANGED <<listVars, node, oldTail, at>> /\ NextNode[HeadNode] # NULL
  BY DEF checkFirst, lockVars
<1>3. node \in [Threads -> Nodes \cup {NULL}] /\ node[p] = NULL
  BY <1>1 DEF QueueInv, TypeOK, Owned
<1>4. /\ Len(list) > 0 /\ NextNode[HeadNode] = list[1]
      /\ to = "second" => Len(list) > 1
  BY <1>1, <1>2, FirstLinked, NotTheLast
<1>5. to \in {"only", "second"} /\ at[p] = "in"
  BY <1>1 DEF QueueInv, Popping, Critical
<1> HIDE DEF to
<1>6. Popping'
  BY <1>1, <1>2, <1>4, <1>5 DEF QueueInv, Popping, Critical, listVars
<1>7. QED
  BY <1>1, <1>2, <1>3, <1>5, <1>6, LookingStep

LEMMA ReleaseStep ==
  ASSUME LockInv, QueueInv, NEW p \in Threads, release(p)
  PROVE  QueueInv'
<1>1. /\ pc[p] = "unlock" /\ UNCHANGED <<listVars, oldTail>>
      /\ \A r \in Threads \ {p} : at'[r] = at[r]
  BY LockMoves DEF release
<1>2. /\ pc' \in [Threads -> PCs] /\ node' \in [Threads -> Nodes \cup {NULL}]
      /\ \A r \in Threads \ {p} : pc'[r] = pc[r] /\ node'[r] = node[r]
      /\ \/ pc'[p] = "idle" /\ node'[p] = NULL
         \/ pc'[p] = "unlock" /\ node'[p] = node[p]
  <2>1. CASE at'[p] = "out"
    BY <2>1 DEF release, QueueInv, TypeOK, PCs
  <2>2. CASE at'[p] # "out"
    BY <1>1, <2>2 DEF release, QueueInv, TypeOK
  <2>3. QED
    BY <2>1, <2>2
<1>3. Popping'
  BY <1>1, <1>2 DEF QueueInv, Popping, Critical, listVars
<1>4. QED
  BY <1>1, <1>2, <1>3, LookingStep

LEMMA BeginPushStep ==
  ASSUME LockInv, QueueInv, NEW p \in Threads, beginPush(p)
  PROVE  QueueInv'
<1>1. PICK n \in Free : /\ goto(p, "idle", "fas") /\ node' = [node EXCEPT ![p] = n]
                        /\ NextNode' = [NextNode EXCEPT ![n] = NULL]
  BY DEF beginPush
<1>2. UNCHANGED <<TailNode, list, oldTail, at>>
  BY DEF beginPush, lockVars
<1>3. /\ pc[p] = "idle" /\ pc'[p] = "fas" /\ \A r \in Threads \ {p} : pc'[r] = pc[r]
      /\ pc' \in [Threads -> PCs]
  BY <1>1, GoesTo DEF QueueInv, PCs
<1>4. /\ n \in Nodes /\ n # HeadNode /\ n # NULL /\ \A r \in Threads : node[r] # n
      /\ \A i \in 1 .. Len(list) : list[i] # n
  BY NodeAssumption DEF Free, Queued
<1>5. /\ node' \in [Threads -> Nodes \cup {NULL}] /\ node'[p] = n
      /\ \A r \in Threads \ {p} : node'[r] = node[r]
      /\ NextNode' \in [Nodes \cup {HeadNode} -> Nodes \cup {NULL}] /\ NextNode'[n] = NULL
      /\ \A m \in Nodes \cup {HeadNode} : m # n => NextNode'[m] = NextNode[m]
  BY <1>1, <1>4 DEF QueueInv, TypeOK
<1>6. TypeOK'
  BY <1>2, <1>3, <1>5 DEF QueueInv, TypeOK
<1>7. /\ \A i \in 1 .. Len(list) : list[i] \in Nodes /\ list[i] # NULL
      /\ \A i \in 1 .. Len(list) : before(i) \in Nodes \cup {HeadNode} /\ before(i) # n
      /\ Len(list) \in Nat
  BY <1>4, ListFacts DEF QueueInv, before
<1>8. \A i : before(i)' = before(i)
  BY <1>2 DEF before
<1>9. \A r \in Threads : \A i : linking(r, i)' <=> linking(r, i)
  BY <1>2, <1>3, <1>5, <1>8 DEF linking
<1>10. Owned'
  <2>1. \A r \in Threads : pc'[r] = "fas" => NextNode'[node'[r]] = NULL
    BY <1>3, <1>4, <1>5 DEF QueueInv, Owned, TypeOK
  <2>2. QED
    BY <1>2, <1>3, <1>4, <1>5, <2>1 DEF QueueInv, Owned
<1>11. Linked'
  <2>1. /\ TailNode' = before(Len(list) + 1)'
        /\ \A i \in 1 .. Len(list) :
             NextNode'[before(i)] = list[i] \/ \E r \in Threads : linking(r, i)'
    BY <1>2, <1>5, <1>7, <1>8, <1>9 DEF QueueInv, Linked
  <2>2. \A r \in Threads : pc'[r] = "link" =>
          \E i \in 1 .. Len(list) : linking(r, i)' /\ NextNode'[before(i)] # list[i]
    BY <1>3, <1>5, <1>7, <1>9 DEF QueueInv, Linked
  <2>3. \A i \in 1 .. Len(list) :
          NextNode'[list[i]] = NULL \/ (i < Len(list) /\ NextNode'[list[i]] = list[i + 1])
    BY <1>4, <1>5, <1>7 DEF QueueInv, Linked
  <2>4. \/ NextNode'[HeadNode] = NULL
        \/ Len(list) > 0 /\ NextNode'[HeadNode] = list[1]
        \/ \E r \in Threads : pc'[r] = "clear" /\ NextNode'[HeadNode] = node'[r]
    BY <1>3, <1>4, <1>5 DEF QueueInv, Linked
  <2>5. QED
    BY <1>2, <1>8, <2>1, <2>2, <2>3, <2>4 DEF Linked
<1>12. Popping'
  BY <1>2, <1>3, <1>4, <1>5 DEF QueueInv, Popping, Critical
<1>13. QED
  BY <1>6, <1>10, <1>11, <1>12 DEF QueueInv

(* What a node at the end, or the first taken away, does to the list.      *)
LEMMA ListGrows ==
  ASSUME TypeOK, NEW n \in Nodes, list' = Append(list, n), NEW l \in Nat, Len(list) = l
  PROVE  /\ list' \in Seq(Nodes) /\ Len(list') = l + 1 /\ list'[l + 1] = n
         /\ \A i \in 1 .. l : list'[i] = list[i]
         /\ \A i \in 1 .. l + 1 : before(i)' = before(i)
         /\ before(l + 2)' = n
<1>1. /\ list' \in Seq(Nodes) /\ Len(list') = l + 1 /\ list'[l + 1] = n
      /\ \A i \in 1 .. l : list'[i] = list[i]
  BY AppendProperties DEF TypeOK
<1>2. \A i \in 1 .. l + 1 : i # 1 => i - 1 \in 1 .. l
  OBVIOUS
<1>3. \A i \in 1 .. l + 1 : before(i)' = before(i)
  BY <1>1, <1>2 DEF before
<1>4. before(l + 2)' = n
  <2>1. l + 2 # 1 /\ (l + 2) - 1 = l + 1
    OBVIOUS
  <2>2. QED
    BY <1>1, <2>1 DEF before
<1>5. QED
  BY <1>1, <1>3, <1>4

LEMMA ListShrinks ==
  ASSUME TypeOK, Len(list) > 0, list' = Tail(list)
  PROVE  /\ list' \in Seq(Nodes) /\ Len(list') = Len(list) - 1
         /\ \A i \in 1 .. Len(list') : list'[i] = list[i + 1] /\ i + 1 \in 1 .. Len(list)
         /\ \A i \in 2 .. Len(list) : before(i)' = before(i + 1)
         /\ before(1)' = HeadNode
<1>1. list # <<>> /\ Len(list) \in Nat
  BY EmptySeq, ListFacts
<1>2. /\ list' \in Seq(Nodes) /\ Len(list') = Len(list) - 1
      /\ \A i \in 1 .. Len(list') : list'[i] = list[i + 1] /\ i + 1 \in 1 .. Len(list)
  BY <1>1, HeadTailProperties DEF TypeOK
<1>3. \A i \in 2 .. Len(list) : before(i)' = before(i + 1)
  <2> SUFFICES ASSUME NEW i \in 2 .. Len(list) PROVE before(i)' = before(i + 1)
    OBVIOUS
  <2>1. i - 1 \in 1 .. Len(list') /\ (i - 1) + 1 = i /\ i # 1 /\ i + 1 # 1 /\ (i + 1) - 1 = i
    BY <1>1, <1>2
  <2>2. list'[i - 1] = list[i]
    BY <1>2, <2>1
  <2>3. QED
    BY <2>1, <2>2 DEF before
<1>4. QED
  BY <1>2, <1>3 DEF before

LEMMA FasTailStep ==
  ASSUME LockInv, QueueInv, NEW p \in Threads, fasTail(p)
  PROVE  QueueInv'
<1>1. /\ pc[p] = "fas" /\ pc'[p] = "link" /\ \A r \in Threads \ {p} : pc'[r] = pc[r]
      /\ pc' \in [Threads -> PCs]
  BY GoesTo DEF fasTail, QueueInv, PCs
<1>2. /\ UNCHANGED <<NextNode, node, at>> /\ TailNode' = node[p]
      /\ list' = Append(list, node[p])
      /\ oldTail' = [oldTail EXCEPT ![p] = TailNode]
  BY DEF fasTail, lockVars
<1>3. PICK n \in Nodes : /\ node[p] = n /\ n # NULL /\ n # HeadNode /\ NextNode[n] = NULL
                         /\ \A i \in 1 .. Len(list) : list[i] # n
                         /\ \A r \in Threads \ {p} : node[r] # n
  BY <1>1, NodeAssumption DEF QueueInv, Owned, TypeOK
<1>0. PICK l \in Nat : Len(list) = l
  BY ListFacts DEF QueueInv
<1>4. /\ l \in Nat /\ \A i \in 1 .. l : list[i] \in Nodes /\ list[i] # NULL /\ list[i] # HeadNode
      /\ before(1) = HeadNode /\ \A i \in 1 .. l : before(i + 1) = list[i]
      /\ TailNode = before(l + 1)
  BY <1>0, ListFacts DEF QueueInv, Linked
<1>5. /\ list' \in Seq(Nodes) /\ Len(list') = l + 1 /\ list'[l + 1] = n
      /\ \A i \in 1 .. l : list'[i] = list[i]
      /\ \A i \in 1 .. l + 1 : before(i)' = before(i)
      /\ before(l + 2)' = n
  BY <1>0, <1>2, <1>3, ListGrows DEF QueueInv
<1>6. /\ oldTail' \in [Threads -> Nodes \cup {HeadNode, NULL}] /\ oldTail'[p] = before(l + 1)
      /\ \A r \in Threads \ {p} : oldTail'[r] = oldTail[r]
  BY <1>2, <1>4 DEF QueueInv, TypeOK
<1>7. TypeOK'
  BY <1>1, <1>2, <1>3, <1>5, <1>6 DEF QueueInv, TypeOK
<1>8. \A i \in 1 .. l + 1 : i \in 1 .. l \/ i = l + 1
  BY <1>4
<1>9. \A r \in Threads : pc'[r] # "link" => r # p /\ pc'[r] = pc[r]
  BY <1>1
<1>10. Owned'
  <2>1. \A i, j \in 1 .. l + 1 : list'[i] = list'[j] => i = j
    BY <1>0, <1>3, <1>5, <1>8 DEF QueueInv, Owned
  <2>2. \A r \in Threads : pc'[r] # "link" => \A i \in 1 .. l + 1 : node'[r] # list'[i]
    BY <1>0, <1>2, <1>3, <1>5, <1>8, <1>9 DEF QueueInv, Owned
  <2>3. \A q, r \in Threads : node'[q] # NULL /\ node'[r] = node'[q] => q = r
    BY <1>2 DEF QueueInv, Owned
  <2>4. \A r \in Threads :
          /\ pc'[r] \in {"fas", "link", "clear"} => node'[r] # NULL
          /\ pc'[r] \in {"idle", "lock", "first", "only", "second"} => node'[r] = NULL
          /\ pc'[r] = "fas" => NextNode'[node'[r]] = NULL
    BY <1>1, <1>2, <1>3 DEF QueueInv, Owned
  <2>5. QED
    BY <1>5, <2>1, <2>2, <2>3, <2>4 DEF Owned
<1>11. NextNode[before(l + 1)] # n
  <2>1. CASE l = 0
    <3>1. before(l + 1) = HeadNode
      BY <1>4, <2>1
    <3>2. \A r \in Threads : pc[r] = "clear" => node[r] # n
      BY <1>1, <1>3
    <3>3. QED
      BY <1>0, <1>3, <2>1, <3>1, <3>2 DEF QueueInv, Linked
  <2>2. CASE l # 0
    <3>1. l \in 1 .. l /\ ~(l < l)
      BY <1>4, <2>2
    <3>2. NextNode[list[l]] = NULL
      BY <1>0, <3>1 DEF QueueInv, Linked
    <3>3. QED
      BY <1>3, <1>4, <3>1, <3>2
  <2>3. QED
    BY <2>1, <2>2
<1>12. linking(p, l + 1)'
  BY <1>1, <1>2, <1>3, <1>5, <1>6, <1>4 DEF linking
<1>13. \A r \in Threads \ {p} : \A i \in 1 .. l : linking(r, i)' <=> linking(r, i)
  BY <1>1, <1>2, <1>4, <1>5, <1>6 DEF linking
<1>14. Linked'
  <2>1. TailNode' = before(Len(list) + 1)'
    <3>1. Len(list') + 1 = l + 2
      BY <1>4, <1>5
    <3>2. QED
      BY <1>2, <1>3, <1>5, <3>1
  <2>2. \A i \in 1 .. l + 1 :
          NextNode'[before(i)'] = list'[i] \/ \E r \in Threads : linking(r, i)'
    <3> SUFFICES ASSUME NEW i \in 1 .. l
                 PROVE  NextNode[before(i)'] = list'[i] \/ \E r \in Threads : linking(r, i)'
      BY <1>2, <1>8, <1>12
    <3>1. before(i)' = before(i) /\ list'[i] = list[i]
      BY <1>4, <1>5
    <3>2. \A r \in Threads : linking(r, i) => r # p
      BY <1>1 DEF linking
    <3>3. NextNode[before(i)] = list[i] \/ \E r \in Threads : linking(r, i)
      BY <1>0 DEF QueueInv, Linked
    <3>4. QED
      BY <1>13, <3>1, <3>2, <3>3
  <2>3. \A r \in Threads : pc'[r] = "link" =>
          \E i \in 1 .. l + 1 : linking(r, i)' /\ NextNode'[before(i)'] # list'[i]
    <3> SUFFICES ASSUME NEW r \in Threads, pc'[r] = "link"
                 PROVE  \E i \in 1 .. l + 1 : linking(r, i)' /\ NextNode'[before(i)'] # list'[i]
      OBVIOUS
    <3>1. CASE r = p
      <4>1. l + 1 \in 1 .. l + 1
        BY <1>4
      <4>2. NextNode'[before(l + 1)'] # list'[l + 1]
        BY <1>2, <1>5, <1>11, <4>1
      <4>3. QED
        BY <1>12, <3>1, <4>1, <4>2
    <3>2. CASE r # p
      <4>1. PICK i \in 1 .. l : linking(r, i) /\ NextNode[before(i)] # list[i]
        BY <1>0, <1>1, <3>2 DEF QueueInv, Linked
      <4>2. i \in 1 .. l + 1
        BY <1>4
      <4>3. QED
        BY <1>2, <1>5, <1>13, <3>2, <4>1, <4>2
    <3>3. QED
      BY <3>1, <3>2
  <2>4. \A i \in 1 .. l + 1 :
          NextNode'[list'[i]] = NULL \/ (i < l + 1 /\ NextNode'[list'[i]] = list'[i + 1])
    <3>1. NextNode'[list'[l + 1]] = NULL
      BY <1>2, <1>3, <1>5
    <3>2. ASSUME NEW i \in 1 .. l
          PROVE  NextNode'[list'[i]] = NULL \/ (i < l + 1 /\ NextNode'[list'[i]] = list'[i + 1])
      <4>1. NextNode[list[i]] = NULL \/ (i < l /\ NextNode[list[i]] = list[i + 1])
        BY <1>0 DEF QueueInv, Linked
      <4>2. i < l => i < l + 1 /\ i + 1 \in 1 .. l
        BY <1>4
      <4>3. QED
        BY <1>2, <1>5, <4>1, <4>2
    <3>3. QED
      BY <1>8, <3>1, <3>2
  <2>5. \/ NextNode'[HeadNode] = NULL
        \/ Len(list') > 0 /\ NextNode'[HeadNode] = list'[1]
        \/ \E r \in Threads : pc'[r] = "clear" /\ NextNode'[HeadNode] = node'[r]
    <3>1. l > 0 => l + 1 > 0 /\ 1 \in 1 .. l
      BY <1>4
    <3>2. \A r \in Threads : pc[r] = "clear" => pc'[r] = "clear"
      BY <1>1
    <3>3. QED
      BY <1>0, <1>2, <1>5, <3>1, <3>2 DEF QueueInv, Linked
  <2>6. QED
    BY <1>5, <2>1, <2>2, <2>3, <2>4, <2>5 DEF Linked
<1>15. Popping'
  <2>1. l + 1 > 0 /\ (l > 1 => l + 1 > 1) /\ (l > 0 => 1 \in 1 .. l)
    BY <1>4
  <2>2. \A r \in Threads : Critical(r)' <=> Critical(r)
    BY <1>1 DEF Critical
  <2>3. QED
    BY <1>0, <1>1, <1>2, <1>5, <2>1, <2>2 DEF QueueInv, Popping
<1>16. QED
  BY <1>7, <1>10, <1>14, <1>15 DEF QueueInv

LEMMA LinkNodeStep ==
  ASSUME LockInv, QueueInv, NEW p \in Threads, linkNode(p)
  PROVE  QueueInv'
<1>1. /\ pc[p] = "link" /\ pc'[p] = "idle" /\ \A r \in Threads \ {p} : pc'[r] = pc[r]
      /\ pc' \in [Threads -> PCs]
  BY GoesTo DEF linkNode, QueueInv, PCs
<1>2. /\ UNCHANGED <<TailNode, list, at>> /\ node' = [node EXCEPT ![p] = NULL]
      /\ oldTail' = [oldTail EXCEPT ![p] = NULL]
      /\ NextNode' = [NextNode EXCEPT ![oldTail[p]] = node[p]]
  BY DEF linkNode, lockVars
<1>3. PICK l \in Nat : Len(list) = l
  BY ListFacts DEF QueueInv
<1>4. /\ \A i \in 1 .. l : list[i] \in Nodes /\ list[i] # NULL /\ list[i] # HeadNode
      /\ before(1) = HeadNode /\ \A i \in 1 .. l : before(i + 1) = list[i]
      /\ \A i \in 1 .. l + 1 : before(i) \in Nodes \cup {HeadNode}
      /\ \A i \in 2 .. l + 1 : before(i) = list[i - 1] /\ i - 1 \in 1 .. l
      /\ \A i, j \in 1 .. l : list[i] = list[j] => i = j
  BY <1>3, ListFacts DEF QueueInv, Owned
<1>5. PICK k \in 1 .. l : linking(p, k) /\ NextNode[before(k)] # list[k]
  BY <1>1, <1>3 DEF QueueInv, Linked
<1>6. oldTail[p] = before(k) /\ node[p] = list[k] /\ before(k) \in Nodes \cup {HeadNode}
  BY <1>4, <1>5 DEF linking
<1>7. /\ NextNode' \in [Nodes \cup {HeadNode} -> Nodes \cup {NULL}]
      /\ NextNode'[before(k)] = list[k]
      /\ \A m \in Nodes \cup {HeadNode} : m # before(k) => NextNode'[m] = NextNode[m]
  BY <1>2, <1>4, <1>6 DEF QueueInv, TypeOK
<1>8. /\ node' \in [Threads -> Nodes \cup {NULL}] /\ node'[p] = NULL
      /\ \A r \in Threads \ {p} : node'[r] = node[r]
      /\ oldTail' \in [Threads -> Nodes \cup {HeadNode, NULL}]
      /\ \A r \in Threads \ {p} : oldTail'[r] = oldTail[r]
  BY <1>2 DEF QueueInv, TypeOK
<1>9. TypeOK'
  BY <1>1, <1>2, <1>7, <1>8 DEF QueueInv, TypeOK
<1>10. \A i \in 1 .. l : i # k => before(i) # before(k)
  <2> SUFFICES ASSUME NEW i \in 1 .. l, i # k PROVE before(i) # before(k)
    OBVIOUS
  <2>1. CASE i = 1
    BY <1>4, <2>1
  <2>2. CASE k = 1
    BY <1>4, <2>2
  <2>3. CASE i # 1 /\ k # 1
    BY <1>4, <2>3
  <2>4. QED
    BY <2>1, <2>2, <2>3
<1>11. \A i : before(i)' = before(i)
  BY <1>2 DEF before
<1>12. \A r \in Threads \ {p} : \A i : linking(r, i)' <=> linking(r, i)
  BY <1>1, <1>8, <1>2, <1>11 DEF linking
<1>13. \A i \in 1 .. l : linking(p, i) => i = k
  BY <1>4, <1>6 DEF linking
<1>14. \A r \in Threads : linking(r, k) => r = p
  BY <1>4, <1>6 DEF linking, QueueInv, Owned
<1>15. Owned'
  <2>1. \A r \in Threads : pc'[r] = "fas" => NextNode'[node'[r]] = NULL
    <3> SUFFICES ASSUME NEW r \in Threads, pc'[r] = "fas" PROVE NextNode'[node'[r]] = NULL
      OBVIOUS
    <3>1. r # p /\ pc[r] = "fas" /\ node'[r] = node[r]
      BY <1>1, <1>8
    <3>2. node[r] \in Nodes /\ NextNode[node[r]] = NULL /\ \A i \in 1 .. l : node[r] # list[i]
      BY <1>3, <3>1 DEF QueueInv, Owned, TypeOK
    <3>3. node[r] # before(k)
      <4>1. CASE k = 1
        BY <1>4, <3>2, <4>1, NodeAssumption
      <4>2. CASE k # 1
        BY <1>4, <3>2, <4>2
      <4>3. QED
        BY <4>1, <4>2
    <3>4. QED
      BY <1>7, <3>1, <3>2, <3>3
  <2>2. QED
    BY <1>1, <1>2, <1>4, <1>3, <1>8, <2>1 DEF QueueInv, Owned
<1>16. Linked'
  <2>1. \A i \in 1 .. l : NextNode'[before(i)] = list[i] \/ \E r \in Threads : linking(r, i)'
    <3> SUFFICES ASSUME NEW i \in 1 .. l, i # k
                 PROVE  NextNode'[before(i)] = list[i] \/ \E r \in Threads : linking(r, i)'
      BY <1>7
    <3>1. NextNode'[before(i)] = NextNode[before(i)]
      BY <1>4, <1>7, <1>10
    <3>2. NextNode[before(i)] = list[i] \/ \E r \in Threads : linking(r, i)
      BY <1>3 DEF QueueInv, Linked
    <3>3. QED
      BY <1>12, <1>13, <3>1, <3>2
  <2>2. \A r \in Threads : pc'[r] = "link" =>
          \E i \in 1 .. l : linking(r, i)' /\ NextNode'[before(i)] # list[i]
    <3> SUFFICES ASSUME NEW r \in Threads, pc'[r] = "link"
                 PROVE  \E i \in 1 .. l : linking(r, i)' /\ NextNode'[before(i)] # list[i]
      OBVIOUS
    <3>1. r # p /\ pc[r] = "link"
      BY <1>1
    <3>2. PICK i \in 1 .. l : linking(r, i) /\ NextNode[before(i)] # list[i]
      BY <1>3, <3>1 DEF QueueInv, Linked
    <3>3. i # k
      BY <1>14, <3>1, <3>2
    <3>4. QED
      BY <1>4, <1>7, <1>10, <1>12, <3>1, <3>2, <3>3
  <2>3. \A i \in 1 .. l :
          NextNode'[list[i]] = NULL \/ (i < l /\ NextNode'[list[i]] = list[i + 1])
    <3> SUFFICES ASSUME NEW i \in 1 .. l
        PROVE  NextNode'[list[i]] = NULL \/ (i < l /\ NextNode'[list[i]] = list[i + 1])
      OBVIOUS
    <3>1. CASE i + 1 = k
      BY <1>4, <1>7, <3>1
    <3>2. CASE i + 1 # k
      <4>1. list[i] # before(k)
        <5>1. CASE k = 1
          BY <1>4, <5>1
        <5>2. CASE k # 1
          BY <1>4, <3>2, <5>2
        <5>3. QED
          BY <5>1, <5>2
      <4>2. NextNode'[list[i]] = NextNode[list[i]]
        BY <1>4, <1>7, <4>1
      <4>3. QED
        BY <1>3, <4>2 DEF QueueInv, Linked
    <3>3. QED
      BY <3>1, <3>2
  <2>4. \/ NextNode'[HeadNode] = NULL
        \/ l > 0 /\ NextNode'[HeadNode] = list[1]
        \/ \E r \in Threads : pc'[r] = "clear" /\ NextNode'[HeadNode] = node'[r]
    <3>1. CASE k = 1
      BY <1>4, <1>7, <3>1
    <3>2. CASE k # 1
      <4>1. NextNode'[HeadNode] = NextNode[HeadNode]
        BY <1>4, <1>7, <3>2
      <4>2. \A r \in Threads : pc[r] = "clear" => pc'[r] = "clear" /\ node'[r] = node[r]
        BY <1>1, <1>8
      <4>3. QED
        BY <1>3, <4>1, <4>2 DEF QueueInv, Linked
    <3>3. QED
      BY <3>1, <3>2
  <2>5. TailNode' = before(Len(list) + 1)'
    BY <1>2, <1>11 DEF QueueInv, Linked
  <2>6. QED
    BY <1>2, <1>3, <1>11, <2>1, <2>2, <2>3, <2>4, <2>5 DEF Linked
<1>17. Popping'
  <2>1. NextNode[HeadNode] = list[1] => NextNode'[HeadNode] = list[1]
    BY <1>4, <1>7
  <2>2. \A r \in Threads : Critical(r)' => Critical(r) /\ pc'[r] = pc[r]
    BY <1>1 DEF Critical
  <2>3. QED
    BY <1>1, <1>2, <2>1, <2>2 DEF QueueInv, Popping, Critical
<1>18. QED
  BY <1>9, <1>15, <1>16, <1>17 DEF QueueInv

LEMMA CasOnlyStep ==
  ASSUME LockInv, QueueInv, NEW p \in Threads, casOnly(p)
  PROVE  QueueInv'
<1>1. pc[p] = "only" /\ UNCHANGED <<NextNode, oldTail, at>>
  BY DEF casOnly, goto, lockVars
<1>2. /\ Len(list) > 0 /\ NextNode[HeadNode] = list[1] /\ at[p] = "in" /\ node[p] = NULL
      /\ \A r \in Threads \ {p} : ~Critical(r)
  BY <1>1, OneCritical DEF QueueInv, Popping, Owned, Critical
<1>3. PICK l \in Nat : Len(list) = l
  BY ListFacts DEF QueueInv
<1>4. /\ \A i \in 1 .. l : list[i] \in Nodes /\ list[i] # NULL /\ list[i] # HeadNode
      /\ before(1) = HeadNode /\ \A i \in 1 .. l : before(i + 1) = list[i]
      /\ \A i, j \in 1 .. l : list[i] = list[j] => i = j
      /\ TailNode = before(l + 1) /\ l > 0
  BY <1>2, <1>3, ListFacts DEF QueueInv, Owned, Linked
<1>5. CASE TailNode # NextNode[HeadNode]
  <2>1. /\ pc'[p] = "second" /\ \A r \in Threads \ {p} : pc'[r] = pc[r]
        /\ pc' \in [Threads -> PCs]
    BY <1>5, GoesTo DEF casOnly, QueueInv, PCs
  <2>2. UNCHANGED <<listVars, node, at>>
    BY <1>1, <1>5 DEF casOnly, listVars
  <2>3. Len(list) > 1
    BY <1>2, <1>5, NotTheLast
  <2>4. Popping'
    BY <1>1, <1>2, <2>1, <2>2, <2>3 DEF QueueInv, Popping, Critical, listVars
  <2>5. node \in [Threads -> Nodes \cup {NULL}]
    BY DEF QueueInv, TypeOK
  <2>6. QED
    BY <1>1, <1>2, <2>1, <2>2, <2>4, <2>5, LookingStep
<1>6. CASE TailNode = NextNode[HeadNode]
  <2>1. /\ pc'[p] = "clear" /\ \A r \in Threads \ {p} : pc'[r] = pc[r]
        /\ pc' \in [Threads -> PCs]
    BY <1>6, GoesTo DEF casOnly, QueueInv, PCs
  <2>2. /\ TailNode' = HeadNode /\ list' = Tail(list)
        /\ node' = [node EXCEPT ![p] = list[1]]
    BY <1>2, <1>6 DEF casOnly
  <2>3. l = 1
    <3>1. list[l] = list[1] /\ l \in 1 .. l /\ 1 \in 1 .. l
      BY <1>2, <1>4, <1>6
    <3>2. QED
      BY <1>4, <3>1
  <2>4. list' \in Seq(Nodes) /\ Len(list') = 0 /\ before(1)' = HeadNode
    BY <1>2, <1>3, <2>2, <2>3, ListShrinks DEF QueueInv
  <2>5. /\ node' \in [Threads -> Nodes \cup {NULL}] /\ node'[p] = list[1]
        /\ \A r \in Threads \ {p} : node'[r] = node[r]
    BY <1>4, <2>2 DEF QueueInv, TypeOK
  <2>6. \A r \in Threads : pc[r] # "link"
    <3> SUFFICES ASSUME NEW r \in Threads, pc[r] = "link" PROVE FALSE
      OBVIOUS
    <3>1. PICK i \in 1 .. l : NextNode[before(i)] # list[i]
      BY <1>3 DEF QueueInv, Linked
    <3>2. i = 1
      BY <2>3
    <3>3. QED
      BY <1>2, <1>4, <3>1, <3>2
  <2>7. TypeOK'
    BY <1>1, <2>1, <2>2, <2>4, <2>5, NodeAssumption DEF QueueInv, TypeOK
  <2>8. 1 .. Len(list') = {} /\ before(Len(list) + 1)' = HeadNode
    <3>1. Len(list') + 1 = 1 /\ 1 .. Len(list') = {}
      BY <2>4
    <3>2. QED
      BY <3>1 DEF before
  <2>9. \A r \in Threads \ {p} : node[r] # list[1]
    <3>1. 1 \in 1 .. Len(list)
      BY <1>3, <2>3
    <3>2. QED
      BY <2>6, <3>1 DEF QueueInv, Owned
  <2>10. Owned'
    <3>1. \A q, r \in Threads : node'[q] # NULL /\ node'[r] = node'[q] => q = r
      BY <1>4, <2>3, <2>5, <2>9 DEF QueueInv, Owned
    <3>2. \A r \in Threads :
            /\ pc'[r] \in {"fas", "link", "clear"} => node'[r] # NULL
            /\ pc'[r] \in {"idle", "lock", "first", "only", "second"} => node'[r] = NULL
            /\ pc'[r] = "fas" => NextNode'[node'[r]] = NULL
      BY <1>1, <1>4, <2>1, <2>3, <2>5 DEF QueueInv, Owned
    <3>3. QED
      BY <2>8, <3>1, <3>2 DEF Owned
  <2>11. Linked'
    <3>1. \A r \in Threads : pc'[r] # "link"
      BY <2>1, <2>6
    <3>2. pc'[p] = "clear" /\ NextNode'[HeadNode] = node'[p]
      BY <1>1, <1>2, <2>1, <2>5
    <3>3. QED
      BY <2>2, <2>8, <3>1, <3>2 DEF Linked
  <2>12. Popping'
    BY <1>1, <1>2, <2>1 DEF Popping, Critical
  <2>13. QED
    BY <2>7, <2>10, <2>11, <2>12 DEF QueueInv
<1>7. QED
  BY <1>5, <1>6

LEMMA CasClearStep ==
  ASSUME LockInv, QueueInv, NEW p \in Threads, casClear(p)
  PROVE  QueueInv'
<1>1. /\ pc[p] = "clear" /\ pc'[p] = "unlock" /\ \A r \in Threads \ {p} : pc'[r] = pc[r]
      /\ pc' \in [Threads -> PCs]
  BY GoesTo DEF casClear, QueueInv, PCs
<1>2. /\ UNCHANGED <<TailNode, list, node, oldTail, at>>
      /\ NextNode' = [NextNode EXCEPT ![HeadNode] = IF @ = node[p] THEN NULL ELSE @]
  BY DEF casClear, lockVars
<1>3. PICK l \in Nat : Len(list) = l
  BY ListFacts DEF QueueInv
<1>4. /\ \A i \in 1 .. l : list[i] \in Nodes /\ list[i] # NULL /\ list[i] # HeadNode
      /\ before(1) = HeadNode
      /\ \A i \in 2 .. l + 1 : before(i) = list[i - 1] /\ i - 1 \in 1 .. l
  BY <1>3, ListFacts DEF QueueInv
<1>5. /\ NextNode' \in [Nodes \cup {HeadNode} -> Nodes \cup {NULL}]
      /\ NextNode'[HeadNode] = IF NextNode[HeadNode] = node[p] THEN NULL ELSE NextNode[HeadNode]
      /\ \A m \in Nodes : NextNode'[m] = NextNode[m]
  BY <1>2, NodeAssumption DEF QueueInv, TypeOK
<1>6. /\ \A r \in Threads \ {p} : ~Critical(r)
      /\ node[p] # NULL /\ \A i \in 1 .. l : node[p] # list[i]
  BY <1>1, <1>3, OneCritical DEF QueueInv, Owned, Critical
<1>7. \A i : before(i)' = before(i)
  BY <1>2 DEF before
<1>8. \A r \in Threads : \A i : linking(r, i)' <=> linking(r, i)
  BY <1>1, <1>2, <1>7 DEF linking
<1>9. TypeOK'
  BY <1>1, <1>2, <1>5 DEF QueueInv, TypeOK
<1>10. Owned'
  <2>1. \A r \in Threads : pc'[r] = "fas" => NextNode'[node'[r]] = NULL
    BY <1>1, <1>2, <1>5, NodeAssumption DEF QueueInv, Owned, TypeOK
  <2>2. QED
    BY <1>1, <1>2, <2>1 DEF QueueInv, Owned
<1>11. \A i \in 1 .. l : /\ NextNode[before(i)] = list[i] => NextNode'[before(i)] = list[i]
                         /\ NextNode[before(i)] # list[i] => NextNode'[before(i)] # list[i]
  <2> SUFFICES ASSUME NEW i \in 1 .. l
               PROVE  NextNode'[before(i)] = list[i] <=> NextNode[before(i)] = list[i]
    OBVIOUS
  <2>1. CASE i = 1
    BY <1>4, <1>5, <1>6, <2>1
  <2>2. CASE i # 1
    BY <1>4, <1>5, <2>2
  <2>3. QED
    BY <2>1, <2>2
<1>12. Linked'
  <2>1. \A i \in 1 .. l : NextNode'[before(i)] = list[i] \/ \E r \in Threads : linking(r, i)'
    BY <1>3, <1>8, <1>11 DEF QueueInv, Linked
  <2>2. \A r \in Threads : pc'[r] = "link" =>
          \E i \in 1 .. l : linking(r, i)' /\ NextNode'[before(i)] # list[i]
    BY <1>1, <1>3, <1>8, <1>11 DEF QueueInv, Linked
  <2>3. \A i \in 1 .. l :
          NextNode'[list[i]] = NULL \/ (i < l /\ NextNode'[list[i]] = list[i + 1])
    BY <1>3, <1>4, <1>5 DEF QueueInv, Linked
  <2>4. NextNode'[HeadNode] = NULL \/ (l > 0 /\ NextNode'[HeadNode] = list[1])
    <3>1. \A r \in Threads : pc[r] = "clear" => r = p
      BY <1>6 DEF Critical
    <3>2. QED
      BY <1>3, <1>5, <3>1 DEF QueueInv, Linked
  <2>5. TailNode' = before(Len(list) + 1)'
    BY <1>2, <1>7 DEF QueueInv, Linked
  <2>6. QED
    BY <1>2, <1>3, <1>7, <2>1, <2>2, <2>3, <2>4, <2>5 DEF Linked
<1>13. Popping'
  BY <1>1, <1>2, <1>6 DEF Popping, Critical
<1>14. QED
  BY <1>9, <1>10, <1>12, <1>13 DEF QueueInv

LEMMA TakeFirstStep ==
  ASSUME LockInv, QueueInv, NEW p \in Threads, takeFirst(p)
  PROVE  QueueInv'
<1>1. /\ pc[p] = "second" /\ pc'[p] = "unlock" /\ \A r \in Threads \ {p} : pc'[r] = pc[r]
      /\ pc' \in [Threads -> PCs]
  BY GoesTo DEF takeFirst, QueueInv, PCs
<1>2. PICK l \in Nat : Len(list) = l
  BY ListFacts DEF QueueInv
<1>3. /\ l > 1 /\ NextNode[HeadNode] = list[1] /\ node[p] = NULL
      /\ \A r \in Threads \ {p} : ~Critical(r)
  BY <1>1, <1>2, OneCritical DEF QueueInv, Popping, Owned, Critical
<1>4. /\ \A i \in 1 .. l : list[i] \in Nodes /\ list[i] # NULL /\ list[i] # HeadNode
      /\ before(1) = HeadNode /\ before(2) = list[1]
      /\ \A i \in 2 .. l + 1 : before(i) = list[i - 1] /\ i - 1 \in 1 .. l
      /\ \A i, j \in 1 .. l : list[i] = list[j] => i = j
      /\ 1 \in 1 .. l /\ 2 \in 1 .. l
  BY <1>2, <1>3, ListFacts DEF QueueInv, Owned
<1>5. NextNode[list[1]] = list[2]
  <2>1. NextNode[list[1]] # NULL
    BY <1>3 DEF takeFirst
  <2>2. NextNode[list[1]] = NULL \/ NextNode[list[1]] = list[1 + 1]
    BY <1>2, <1>4 DEF QueueInv, Linked
  <2>3. QED
    BY <2>1, <2>2
<1>6. /\ UNCHANGED <<TailNode, oldTail, at>> /\ list' = Tail(list)
      /\ node' = [node EXCEPT ![p] = list[1]]
      /\ NextNode' = [NextNode EXCEPT ![HeadNode] = list[2]]
  BY <1>3, <1>5 DEF takeFirst, lockVars
<1>7. /\ list' \in Seq(Nodes) /\ Len(list') = l - 1 /\ l - 1 \in Nat
      /\ \A i \in 1 .. l - 1 : list'[i] = list[i + 1] /\ i + 1 \in 2 .. l
      /\ \A i \in 2 .. l : before(i)' = before(i + 1)
      /\ before(1)' = HeadNode
  BY <1>2, <1>3, <1>6, ListShrinks DEF QueueInv
<1>8. /\ NextNode' \in [Nodes \cup {HeadNode} -> Nodes \cup {NULL}]
      /\ NextNode'[HeadNode] = list[2] /\ \A m \in Nodes : NextNode'[m] = NextNode[m]
  BY <1>4, <1>6, NodeAssumption DEF QueueInv, TypeOK
<1>9. /\ node' \in [Threads -> Nodes \cup {NULL}] /\ node'[p] = list[1]
      /\ \A r \in Threads \ {p} : node'[r] = node[r]
  BY <1>4, <1>6 DEF QueueInv, TypeOK
<1>10. TypeOK'
  BY <1>1, <1>6, <1>7, <1>8, <1>9 DEF QueueInv, TypeOK
<1>11. \A r \in Threads : \A i \in 1 .. l :
         linking(r, i) /\ NextNode[before(i)] # list[i] => i > 2
  <2> SUFFICES ASSUME NEW r \in Threads, NEW i \in 1 .. l, NextNode[before(i)] # list[i]
               PROVE  i > 2
    OBVIOUS
  <2>1. i # 1 /\ i # 2
    BY <1>3, <1>4, <1>5
  <2>2. QED
    BY <2>1
<1>12. \A r \in Threads : pc[r] = "link" =>
         \E i \in 3 .. l : linking(r, i) /\ NextNode[before(i)] # list[i]
  <2> SUFFICES ASSUME NEW r \in Threads, pc[r] = "link"
               PROVE  \E i \in 3 .. l : linking(r, i) /\ NextNode[before(i)] # list[i]
    OBVIOUS
  <2>1. PICK i \in 1 .. l : linking(r, i) /\ NextNode[before(i)] # list[i]
    BY <1>2 DEF QueueInv, Linked
  <2>2. i \in 3 .. l
    BY <1>11, <2>1
  <2>3. QED
    BY <2>1, <2>2
<1>13. \A r \in Threads : node[r] # list[1]
  <2> SUFFICES ASSUME NEW r \in Threads, node[r] = list[1] PROVE FALSE
    OBVIOUS
  <2>1. pc[r] = "link"
    BY <1>2, <1>4 DEF QueueInv, Owned
  <2>2. PICK i \in 3 .. l : linking(r, i)
    BY <1>12, <2>1
  <2>3. i \in 1 .. l /\ i # 1 /\ list[i] = list[1]
    BY <2>2 DEF linking
  <2>4. QED
    BY <1>4, <2>3
<1>14. \A i \in 2 .. l - 1 : /\ before(i)' = before(i + 1) /\ list'[i] = list[i + 1]
                             /\ i + 1 \in 3 .. l /\ before(i + 1) = list[i] /\ i \in 1 .. l
  <2> SUFFICES ASSUME NEW i \in 2 .. l - 1
               PROVE  /\ before(i)' = before(i + 1) /\ list'[i] = list[i + 1]
                      /\ i + 1 \in 3 .. l /\ before(i + 1) = list[i] /\ i \in 1 .. l
    OBVIOUS
  <2>1. i \in 2 .. l /\ i \in 1 .. l - 1 /\ i + 1 \in 3 .. l /\ i + 1 \in 2 .. l + 1
        /\ (i + 1) - 1 = i /\ i \in 1 .. l
    BY <1>7
  <2>2. QED
    BY <1>4, <1>7, <2>1
<1>15. \A r \in Threads : \A i \in 2 .. l - 1 : linking(r, i + 1) => linking(r, i)'
  <2> SUFFICES ASSUME NEW r \in Threads, NEW i \in 2 .. l - 1, linking(r, i + 1)
               PROVE  linking(r, i)'
    OBVIOUS
  <2>1. pc[r] = "link" /\ oldTail[r] = before(i + 1) /\ node[r] = list[i + 1] /\ r # p
    BY <1>1 DEF linking
  <2>2. pc'[r] = "link" /\ oldTail'[r] = before(i)' /\ node'[r] = list'[i]
    BY <1>1, <1>6, <1>9, <1>14, <2>1
  <2>3. QED
    BY <2>2 DEF linking
<1>16. \A i \in 1 .. l - 1 : i = 1 \/ i \in 2 .. l - 1
  OBVIOUS
<1>17. Owned'
  <2>1. \A i, j \in 1 .. l - 1 : list'[i] = list'[j] => i = j
    <3> SUFFICES ASSUME NEW i \in 1 .. l - 1, NEW j \in 1 .. l - 1, list'[i] = list'[j]
                 PROVE  i = j
      OBVIOUS
    <3>1. list'[i] = list[i + 1] /\ list'[j] = list[j + 1]
      BY <1>7
    <3>2. i + 1 \in 1 .. l /\ j + 1 \in 1 .. l
      OBVIOUS
    <3>3. i + 1 = j + 1
      BY <1>4, <3>1, <3>2
    <3>4. QED
      BY <3>3
  <2>2. \A q, r \in Threads : node'[q] # NULL /\ node'[r] = node'[q] => q = r
    BY <1>9, <1>13 DEF QueueInv, Owned
  <2>3. \A r \in Threads :
          /\ pc'[r] \in {"fas", "link", "clear"} => node'[r] # NULL
          /\ pc'[r] \in {"idle", "lock", "first", "only", "second"} => node'[r] = NULL
    BY <1>1, <1>9 DEF QueueInv, Owned
  <2>4. \A r \in Threads : pc'[r] = "fas" => NextNode'[node'[r]] = NULL
    BY <1>1, <1>8, <1>9 DEF QueueInv, Owned, TypeOK
  <2>5. \A r \in Threads : pc'[r] # "link" => \A i \in 1 .. l - 1 : node'[r] # list'[i]
    <3> SUFFICES ASSUME NEW r \in Threads, pc'[r] # "link", NEW i \in 1 .. l - 1
                 PROVE  node'[r] # list'[i]
      OBVIOUS
    <3>1. list'[i] = list[i + 1] /\ i + 1 \in 1 .. l /\ i + 1 # 1
      BY <1>7
    <3>2. CASE r = p
      BY <1>4, <1>9, <3>1, <3>2
    <3>3. CASE r # p
      BY <1>1, <1>2, <1>9, <3>1, <3>3 DEF QueueInv, Owned
    <3>4. QED
      BY <3>2, <3>3
  <2>6. QED
    BY <1>7, <2>1, <2>2, <2>3, <2>4, <2>5 DEF Owned
<1>18. Linked'
  <2>1. TailNode' = before(Len(list) + 1)'
    <3>1. TailNode = before(l + 1) /\ before(l)' = before(l + 1)
      BY <1>2, <1>3, <1>7 DEF QueueInv, Linked
    <3>2. Len(list') + 1 = l
      BY <1>7
    <3>3. before(Len(list) + 1)' = before(l)'
      BY <3>2 DEF before
    <3>4. QED
      BY <1>6, <3>1, <3>3
  <2>2. \A i \in 1 .. l - 1 :
          NextNode'[before(i)'] = list'[i] \/ \E r \in Threads : linking(r, i)'
    <3>1. NextNode'[before(1)'] = list'[1]
      BY <1>3, <1>7, <1>8
    <3>2. ASSUME NEW i \in 2 .. l - 1
          PROVE  NextNode'[before(i)'] = list'[i] \/ \E r \in Threads : linking(r, i)'
      <4>1. i + 1 \in 1 .. l /\ list[i] \in Nodes
        BY <1>4, <1>14
      <4>2. NextNode[before(i + 1)] = list[i + 1] \/ \E r \in Threads : linking(r, i + 1)
        BY <1>2, <4>1 DEF QueueInv, Linked
      <4>3. NextNode'[before(i)'] = NextNode[before(i + 1)]
        BY <1>8, <1>14, <4>1
      <4>4. QED
        BY <1>14, <1>15, <4>2, <4>3
    <3>3. QED
      BY <1>16, <3>1, <3>2
  <2>3. \A r \in Threads : pc'[r] = "link" =>
          \E i \in 1 .. l - 1 : linking(r, i)' /\ NextNode'[before(i)'] # list'[i]
    <3> SUFFICES ASSUME NEW r \in Threads, pc'[r] = "link"
                 PROVE  \E i \in 1 .. l - 1 : linking(r, i)' /\ NextNode'[before(i)'] # list'[i]
      OBVIOUS
    <3>1. PICK j \in 3 .. l : linking(r, j) /\ NextNode[before(j)] # list[j]
      BY <1>1, <1>12
    <3>2. PICK i \in 2 .. l - 1 : j = i + 1 /\ i \in 1 .. l - 1
      <4>1. j - 1 \in 2 .. l - 1 /\ j = (j - 1) + 1 /\ j - 1 \in 1 .. l - 1
        OBVIOUS
      <4>2. QED
        BY <4>1
    <3>3. NextNode'[before(i)'] = NextNode[before(i + 1)] /\ list'[i] = list[i + 1]
      BY <1>4, <1>8, <1>14
    <3>4. QED
      BY <1>15, <3>1, <3>2, <3>3
  <2>4. \A i \in 1 .. l - 1 :
          NextNode'[list'[i]] = NULL \/ (i < l - 1 /\ NextNode'[list'[i]] = list'[i + 1])
    <3> SUFFICES ASSUME NEW i \in 1 .. l - 1
        PROVE  NextNode'[list'[i]] = NULL \/ (i < l - 1 /\ NextNode'[list'[i]] = list'[i + 1])
      OBVIOUS
    <3>1. /\ list'[i] = list[i + 1] /\ i + 1 \in 1 .. l
          /\ NextNode'[list[i + 1]] = NextNode[list[i + 1]]
      BY <1>4, <1>7, <1>8
    <3>2. \/ NextNode[list[i + 1]] = NULL
          \/ i + 1 < l /\ NextNode[list[i + 1]] = list[(i + 1) + 1]
      BY <1>2, <3>1 DEF QueueInv, Linked
    <3>3. i + 1 < l => i < l - 1 /\ i + 1 \in 1 .. l - 1
      BY <1>7
    <3>4. i + 1 < l => list'[i + 1] = list[(i + 1) + 1]
      BY <1>7, <3>3
    <3>5. QED
      BY <3>1, <3>2, <3>3, <3>4
  <2>5. l - 1 > 0 /\ NextNode'[HeadNode] = list'[1]
    BY <1>3, <1>7, <1>8
  <2>6. QED
    BY <1>7, <2>1, <2>2, <2>3, <2>4, <2>5 DEF Linked
<1>19. Popping'
  BY <1>1, <1>3, <1>6 DEF Popping, Critical
<1>20. QED
  BY <1>10, <1>17, <1>18, <1>19 DEF QueueInv

LEMMA QueueStep == LockInv /\ QueueInv /\ [Next]_vars => QueueInv'
<1>1. ASSUME LockInv, QueueInv, NEW p \in Threads, push(p) \/ pop(p) PROVE QueueInv'
  BY <1>1, BeginPushStep, FasTailStep, LinkNodeStep, BeginPopStep, AcquireStep, CheckEmptyStep,
     CheckFirstStep, CasOnlyStep, CasClearStep, TakeFirstStep, ReleaseStep DEF push, pop
<1>2. ASSUME QueueInv, UNCHANGED vars PROVE QueueInv'
  <2>1. UNCHANGED <<TailNode, NextNode, list, node, oldTail, pc, at>>
    BY <1>2 DEF vars, listVars, lockVars
  <2>2. \A i : before(i)' = before(i)
    BY <2>1 DEF before
  <2>3. \A r \in Threads : \A i : linking(r, i)' <=> linking(r, i)
    BY <2>1, <2>2 DEF linking
  <2>4. TypeOK' /\ Owned'
    BY <1>2, <2>1 DEF QueueInv, TypeOK, Owned
  <2>5. Linked'
    BY <1>2, <2>1, <2>2, <2>3 DEF QueueInv, Linked
  <2>6. Popping'
    BY <1>2, <2>1 DEF QueueInv, Popping, Critical
  <2>7. QED
    BY <2>4, <2>5, <2>6 DEF QueueInv
<1>3. QED
  BY <1>1, <1>2 DEF Next

(* The inductive invariant of the ready queue: links and links under way   *)
(* make one list from the sentinel to Tail.                                *)
THEOREM QueueInvHolds == Spec => []QueueInv
BY QueueBegins, QueueStep, QueueLockInv, PTL DEF Spec

(* No node is lost from the links, and pushers write only to the sentinel  *)
(* and to nodes that are still queued.                                     *)
THEOREM LinksIntoQueueHolds == Spec => []LinksIntoQueue
<1>1. QueueInv => LinksIntoQueue
  BY DEF QueueInv, Linked, LinksIntoQueue
<1>2. QED
  BY <1>1, QueueInvHolds, PTL

-----------------------------------------------------------------------------
(* The FIFO                                                                *)

Hand(r) == IF pc[r] \in {"clear", "unlock"} THEN node[r] ELSE NULL

LEMMA SameHands ==
  ASSUME \A r \in Threads : Hand(r)' = Hand(r), list' = list
  PROVE  UNCHANGED Fifo!vars
<1>1. [r \in Threads |-> Hand(r)]' = [r \in Threads |-> Hand(r)]
  OBVIOUS
<1>2. QED
  BY <1>1 DEF Fifo!vars, Hand

(* The FAS on Tail is the push.                                            *)
LEMMA FasTailMaps ==
  ASSUME QueueInv, NEW p \in Threads, fasTail(p)
  PROVE  Fifo!Push
<1>1. /\ pc[p] = "fas" /\ pc'[p] = "link" /\ \A r \in Threads \ {p} : pc'[r] = pc[r]
  BY GoesTo DEF fasTail, QueueInv
<1>2. node' = node /\ list' = Append(list, node[p])
  BY DEF fasTail
<1>3. node[p] \in Nodes /\ node[p] # NULL /\ \A i \in DOMAIN list : list[i] # node[p]
  <2>1. DOMAIN list = 1 .. Len(list)
    BY LenProperties DEF QueueInv, TypeOK
  <2>2. QED
    BY <1>1, <2>1 DEF QueueInv, Owned, TypeOK
<1>4. \A r \in Threads : Hand(r) # node[p] /\ Hand(r)' = Hand(r)
  BY <1>1, <1>2, <1>3 DEF Hand, QueueInv, Owned
<1>5. [r \in Threads |-> Hand(r)]' = [r \in Threads |-> Hand(r)]
  BY <1>4
<1>6. QED
  BY <1>2, <1>3, <1>4, <1>5 DEF Fifo!Push, Hand

(* The CAS on Tail, or the store to the sentinel, is the pop.              *)
LEMMA TakingMaps ==
  ASSUME QueueInv, NEW p \in Threads, pc[p] \in {"only", "second"},
         pc' = [pc EXCEPT ![p] = "clear"] \/ pc' = [pc EXCEPT ![p] = "unlock"],
         node' = [node EXCEPT ![p] = NextNode[HeadNode]], list' = Tail(list)
  PROVE  Fifo!Pop(p)
<1>1. Len(list) > 0 /\ NextNode[HeadNode] = list[1]
  BY DEF QueueInv, Popping
<1>2. list # <<>> /\ Head(list) = list[1]
  BY <1>1, EmptySeq, HeadTailProperties DEF QueueInv, TypeOK
<1>3. \A r \in Threads : Hand(r)' = IF r = p THEN Head(list) ELSE Hand(r)
  BY <1>1, <1>2 DEF Hand, QueueInv, TypeOK
<1>4. Hand(p) = NULL
  BY DEF Hand
<1>5. [r \in Threads |-> Hand(r)]' = [[r \in Threads |-> Hand(r)] EXCEPT ![p] = Head(list)]
  BY <1>3
<1>6. QED
  BY <1>2, <1>4, <1>5 DEF Fifo!Pop, Hand

(* The end of unlock is the return.                                        *)
LEMMA ReleaseMaps ==
  ASSUME QueueInv, NEW p \in Threads, release(p)
  PROVE  [Fifo!Next]_(Fifo!vars)
<1>1. pc[p] = "unlock" /\ list' = list
  BY DEF release, listVars
<1>2. CASE at'[p] # "out"
  <2>1. UNCHANGED <<pc, node>>
    BY <1>2 DEF release
  <2>2. QED
    BY <1>1, <2>1, SameHands DEF Hand
<1>3. CASE at'[p] = "out"
  <2>1. \A r \in Threads : Hand(r)' = IF r = p THEN NULL ELSE Hand(r)
    BY <1>1, <1>3 DEF release, Hand, QueueInv, TypeOK
  <2>2. CASE Hand(p) = NULL
    BY <1>1, <2>1, <2>2, SameHands
  <2>3. CASE Hand(p) # NULL
    <3>1. [r \in Threads |-> Hand(r)]' = [[r \in Threads |-> Hand(r)] EXCEPT ![p] = NULL]
      BY <2>1
    <3>2. Fifo!Return(p)
      BY <1>1, <2>3, <3>1 DEF Fifo!Return, Hand
    <3>3. QED
      BY <3>2 DEF Fifo!Next
  <2>4. QED
    BY <2>2, <2>3
<1>4. QED
  BY <1>2, <1>3

LEMMA FifoStep == QueueInv /\ [Next]_vars => [Fifo!Next]_(Fifo!vars)
<1> SUFFICES ASSUME QueueInv, [Next]_vars PROVE [Fifo!Next]_(Fifo!vars)
  OBVIOUS
<1>0. pc \in [Threads -> PCs] /\ node \in [Threads -> Nodes \cup {NULL}]
  BY DEF QueueInv, TypeOK
<1>1. ASSUME NEW p \in Threads, beginPush(p) \/ linkNode(p) PROVE UNCHANGED Fifo!vars
  <2>1. list' = list /\ \A r \in Threads : Hand(r)' = Hand(r)
    BY <1>0, <1>1 DEF beginPush, linkNode, goto, Hand
  <2>2. QED
    BY <2>1, SameHands
<1>2. ASSUME NEW p \in Threads, beginPop(p) \/ acquire(p) \/ checkFirst(p)
      PROVE  UNCHANGED Fifo!vars
  <2>1. list' = list /\ \A r \in Threads : Hand(r)' = Hand(r)
    BY <1>0, <1>2 DEF beginPop, acquire, checkFirst, goto, Hand, listVars
  <2>2. QED
    BY <2>1, SameHands
<1>3. ASSUME NEW p \in Threads, checkEmpty(p) PROVE UNCHANGED Fifo!vars
  <2>1. node[p] = NULL
    BY <1>3 DEF checkEmpty, goto, QueueInv, Owned
  <2>2. list' = list /\ \A r \in Threads : Hand(r)' = Hand(r)
    BY <1>0, <1>3, <2>1 DEF checkEmpty, goto, Hand, listVars
  <2>3. QED
    BY <2>2, SameHands
<1>4. ASSUME NEW p \in Threads, casClear(p) PROVE UNCHANGED Fifo!vars
  <2>1. list' = list /\ \A r \in Threads : Hand(r)' = Hand(r)
    BY <1>0, <1>4 DEF casClear, goto, Hand
  <2>2. QED
    BY <2>1, SameHands
<1>5. ASSUME NEW p \in Threads, casOnly(p) PROVE [Fifo!Next]_(Fifo!vars)
  <2>1. CASE TailNode = NextNode[HeadNode]
    <3>1. Fifo!Pop(p)
      BY <1>5, <2>1, TakingMaps DEF casOnly, goto
    <3>2. QED
      BY <3>1 DEF Fifo!Next
  <2>2. CASE TailNode # NextNode[HeadNode]
    <3>1. list' = list /\ \A r \in Threads : Hand(r)' = Hand(r)
      BY <1>0, <1>5, <2>2 DEF casOnly, goto, Hand
    <3>2. QED
      BY <3>1, SameHands
  <2>3. QED
    BY <2>1, <2>2
<1>6. ASSUME NEW p \in Threads, takeFirst(p) PROVE Fifo!Next
  <2>1. Fifo!Pop(p)
    BY <1>6, TakingMaps DEF takeFirst, goto
  <2>2. QED
    BY <2>1 DEF Fifo!Next
<1>7. ASSUME NEW p \in Threads, fasTail(p) PROVE Fifo!Next
  BY <1>7, FasTailMaps DEF Fifo!Next
<1>8. CASE UNCHANGED vars
  <2>1. list' = list /\ \A r \in Threads : Hand(r)' = Hand(r)
    BY <1>8 DEF vars, listVars, Hand
  <2>2. QED
    BY <2>1, SameHands
<1>9. QED
  BY <1>1, <1>2, <1>3, <1>4, <1>5, <1>6, <1>7, <1>8, ReleaseMaps DEF Next, push, pop

(* The ready queue is linearizable: for any number of threads and nodes it *)
(* is a FIFO in which the FAS on Tail pushes, and the CAS on Tail or the   *)
(* store to the sentinel's link pops.                                      *)
THEOREM ImplementsFifoHolds == Spec => ImplementsFifo
<1>1. Init => Fifo!Init
  <2> SUFFICES ASSUME Init PROVE Fifo!Init
    OBVIOUS
  <2>1. \A r \in Threads : Hand(r) = NULL
    BY DEF Init, Hand
  <2>2. [r \in Threads |-> Hand(r)] = [r \in Threads |-> NULL]
    BY <2>1
  <2>3. QED
    BY <2>2 DEF Init, Fifo!Init, Hand
<1>2. QED
  BY <1>1, FifoStep, QueueInvHolds, PTL DEF Spec, Fifo!Spec, ImplementsFifo
=============================================================================

------------------------- MODULE ResizableRCQ_proofs -------------------------
(***************************************************************************)
(* The resizable queue keeps the discipline of its two RCLocks, and what   *)
(* they promise makes every change of the layout an exclusive one.  From   *)
(* that follows that growing, compacting and shrinking keep every element  *)
(* in its place, and that the queue keeps the contract of                  *)
(* ReserveCommitSpec, until one of two steps is taken: a pop is granted by *)
(* a size that is not the ring's, or data are moved to end at the last     *)
(* slot.  The code can take both: PromptSize and SkipExactFit, which rule  *)
(* them out in TLC's run, are not assumed here.                            *)
(***************************************************************************)
EXTENDS ResizableRCQ, RingIndex_proofs, TLAPS

-----------------------------------------------------------------------------
(* The two locks of RCLockSpec, whoever uses them, for any threads and any *)
(* sides: each is held by one thread at a time, and both go round in the   *)
(* order of the line.                                                      *)

(* The line begins empty.                                                  *)
LEMMA LineBegins == LockInit => LineInv
BY DEF LockInit, LineInv, LineType, AheadInLine, LineIsTotal, NoOvertaking, Stages, line

(* A thread that enters comes last.                                        *)
LEMMA EnterKeepsLine ==
  ASSUME LineInv, NEW s \in Sides, NEW p \in Procs, Enter(s, p)
  PROVE  LineInv'
<1> USE DEF LineInv, LineType
<1>1. /\ stage[s][p] = "out"
      /\ stage' = [stage EXCEPT ![s][p] = IF line(s) = {} THEN "holding" ELSE "waiting"]
      /\ ahead' = [ahead EXCEPT ![s][p] = line(s)]
  BY DEF Enter, setStage
<1>2. LineType'
  BY <1>1 DEF line, Stages
<1>3. /\ \A t \in Sides \ {s} : line(t)' = line(t)
      /\ line(s)' = line(s) \cup {p} /\ p \notin line(s)
  BY <1>1 DEF line, Stages
<1>4. AheadInLine'
  <2> SUFFICES ASSUME NEW t \in Sides, NEW q \in Procs
               PROVE  /\ ahead[t][q]' \subseteq line(t)' \ {q}
                      /\ stage[t][q]' = "out" => ahead[t][q]' = {}
    BY DEF AheadInLine
  <2>1. CASE t = s /\ q = p
    BY <2>1, <1>1, <1>3, <1>2 DEF Stages
  <2>2. CASE ~(t = s /\ q = p)
    BY <2>2, <1>1, <1>3 DEF AheadInLine
  <2>3. QED
    BY <2>1, <2>2
<1>5. LineIsTotal'
  <2> SUFFICES ASSUME NEW t \in Sides, NEW q \in line(t)', NEW r \in line(t)', q # r
               PROVE  q \in ahead[t][r]' <=> r \notin ahead[t][q]'
    BY DEF LineIsTotal
  <2>1. q \in Procs /\ r \in Procs
    BY DEF line
  <2>2. CASE t = s /\ r = p
    BY <2>1, <2>2, <1>1, <1>3 DEF AheadInLine
  <2>3. CASE t = s /\ q = p
    BY <2>1, <2>3, <1>1, <1>3 DEF AheadInLine
  <2>4. CASE t # s \/ (q # p /\ r # p)
    BY <2>1, <2>4, <1>1, <1>3 DEF LineIsTotal
  <2>5. QED
    BY <2>2, <2>3, <2>4
<1>6. NoOvertaking'
  <2> SUFFICES ASSUME NEW t \in Sides, NEW q \in Procs, NEW r \in ahead[t][q]',
                      stage[t][q]' \in {"holding", "released"}
               PROVE  stage[t][r]' = "released"
    BY DEF NoOvertaking
  <2>1. CASE t = s /\ q = p
    BY <2>1, <1>1
  <2>2. CASE ~(t = s /\ q = p)
    <3>1. r \in ahead[t][q] /\ stage[t][q] \in {"holding", "released"}
      BY <2>2, <1>1
    <3>2. r \in Procs /\ stage[t][r] = "released"
      BY <3>1 DEF NoOvertaking
    <3>3. QED
      BY <3>2, <1>1
  <2>3. QED
    BY <2>1, <2>2
<1>7. QED
  BY <1>2, <1>4, <1>5, <1>6

(* Take and Release leave the line as it is.                               *)
LEMMA PassKeepsLine ==
  ASSUME LineInv, NEW s \in Sides, NEW p \in Procs, Take(s, p) \/ Release(s, p)
  PROVE  LineInv'
<1> USE DEF LineInv, LineType
<1>1. PICK to \in {"holding", "released"} :
        /\ stage[s][p] \in {"waiting", "holding"}
        /\ stage' = [stage EXCEPT ![s][p] = to]
        /\ \A q \in ahead[s][p] : stage[s][q] = "released"
        /\ ahead' = ahead
  BY DEF Take, Release, setStage, NoOvertaking
<1>2. LineType'
  BY <1>1 DEF Stages
<1>3. \A t \in Sides : line(t)' = line(t)
  BY <1>1 DEF line, Stages
<1>4. AheadInLine' /\ LineIsTotal'
  BY <1>1, <1>3 DEF AheadInLine, LineIsTotal
<1>5. NoOvertaking'
  BY <1>1 DEF NoOvertaking
<1>6. QED
  BY <1>2, <1>4, <1>5

(* The first of the line leaves.                                           *)
LEMMA LeaveKeepsLine ==
  ASSUME LineInv, NEW s \in Sides, NEW p \in Procs, Leave(s, p)
  PROVE  LineInv'
<1> USE DEF LineInv, LineType
<1>1. /\ ahead[s][p] = {} /\ stage[s][p] = "released"
      /\ stage' = [stage EXCEPT ![s][p] = "out"]
      /\ ahead' = [ahead EXCEPT ![s] = [q \in Procs |-> ahead[s][q] \ {p}]]
  BY DEF Leave, HoldsCommit, setStage
<1>2. LineType'
  BY <1>1 DEF Stages
<1>3. /\ \A t \in Sides \ {s} : line(t)' = line(t)
      /\ line(s)' = line(s) \ {p}
  BY <1>1 DEF line, Stages
<1>4. \A t \in Sides : \A q \in Procs :
        ahead[t][q]' = IF t = s THEN ahead[t][q] \ {p} ELSE ahead[t][q]
  BY <1>1
<1>5. AheadInLine'
  BY <1>1, <1>3, <1>4 DEF AheadInLine
<1>6. LineIsTotal'
  <2> SUFFICES ASSUME NEW t \in Sides, NEW q \in line(t)', NEW r \in line(t)', q # r
               PROVE  q \in ahead[t][r]' <=> r \notin ahead[t][q]'
    BY DEF LineIsTotal
  <2>1. q \in line(t) /\ r \in line(t) /\ (t = s => q # p /\ r # p)
    BY <1>3
  <2>2. q \in Procs /\ r \in Procs
    BY <2>1 DEF line
  <2>3. q \in ahead[t][r] <=> r \notin ahead[t][q]
    BY <2>1 DEF LineIsTotal
  <2>4. QED
    BY <2>1, <2>2, <2>3, <1>4
<1>7. NoOvertaking'
  BY <1>1, <1>4 DEF NoOvertaking
<1>8. QED
  BY <1>2, <1>5, <1>6, <1>7

(* The line and its order are kept by every step.                          *)
LEMMA LineStep == LineInv /\ [LockNext]_lockVars => LineInv'
<1> SUFFICES ASSUME LineInv, [LockNext]_lockVars PROVE LineInv'
  OBVIOUS
<1>1. CASE UNCHANGED lockVars
  BY <1>1 DEF lockVars, LineInv, LineType, AheadInLine, LineIsTotal, NoOvertaking, line
<1>2. QED
  BY <1>1, EnterKeepsLine, PassKeepsLine, LeaveKeepsLine DEF LockNext

(* The inductive invariant: the threads stand in one line, and what they   *)
(* hold follows from their place in it.                                    *)
THEOREM LineHolds == LockSpec => []LineInv
BY LineBegins, LineStep, PTL DEF LockSpec

(* In a line that is kept, both locks have one holder.                     *)
LEMMA LineExcludes == LineInv => ReserveMutex /\ CommitMutex
<1> SUFFICES ASSUME LineInv PROVE ReserveMutex /\ CommitMutex
  OBVIOUS
<1>1. ReserveMutex
  <2> SUFFICES ASSUME NEW s \in Sides, NEW p \in Procs, NEW q \in Procs,
                      stage[s][p] = "holding", stage[s][q] = "holding", p # q
               PROVE  FALSE
    BY DEF ReserveMutex
  <2>1. p \in ahead[s][q] \/ q \in ahead[s][p]
    BY DEF LineInv, LineIsTotal, line
  <2>2. QED
    BY <2>1 DEF LineInv, NoOvertaking
<1>2. CommitMutex
  BY DEF CommitMutex, HoldsCommit, LineInv, LineIsTotal
<1>3. QED
  BY <1>1, <1>2

(* acquireReserveLock excludes: a side has one reservation at a time.      *)
THEOREM OneReserver == LockSpec => []ReserveMutex
BY LineHolds, LineExcludes, PTL

(* acquireCommitLock excludes: a side has one commit at a time.            *)
THEOREM OneCommitter == LockSpec => []CommitMutex
BY LineHolds, LineExcludes, PTL

(* Reservations are made in the order of the line: nobody is behind a      *)
(* thread whose reservation is still to come.                              *)
THEOREM ReservesInOrder == LockSpec => []NoOvertaking
<1>1. LineInv => NoOvertaking
  BY DEF LineInv
<1>2. QED
  BY <1>1, LineHolds, PTL

-----------------------------------------------------------------------------
other(p) == IF p \in Pushers THEN "pop" ELSE "push"

(* What a thread holds at each place: of the lock of its own side, and of  *)
(* the other one.                                                          *)
ownStage(c) ==
  CASE c = "idle" -> "out"
    [] c = "queued" -> "waiting"
    [] c \in {"reserved", "leave"} -> "released"
    [] OTHER -> "holding"
otherStage(c) ==
  CASE c = "shrinkqueued" -> "waiting"
    [] c \in {"compacting", "compacted", "shrinking", "shrunk"} -> "holding"
    [] c \in {"compactleave", "shrinkleave"} -> "released"
    [] OTHER -> "out"

PushPlaces ==
  {"grow", "compact", "compacting", "compacted", "compactleave", "resize", "grown",
   "recheck"}
PopPlaces == {"sized", "shrink", "shrinkqueued", "shrinking", "shrunk", "shrinkleave"}

(* A thread is where its locks say.                                        *)
PlacesMatch ==
  /\ pc \in [Procs -> PCs]
  /\ stage \in [Sides -> [Procs -> Stages]]
  /\ \A p \in Procs :
       /\ stage[side(p)][p] = ownStage(pc[p])
       /\ stage[other(p)][p] = otherStage(pc[p])
       /\ pc[p] \in PushPlaces => p \in Pushers
       /\ pc[p] \in PopPlaces => p \in Poppers

(* A thread moves from place to place and its locks go with it.            *)
LEMMA Moves ==
  ASSUME PlacesMatch, NEW p \in Procs, NEW to \in PCs,
         pc' = [pc EXCEPT ![p] = to],
         to \in PushPlaces => p \in Pushers,
         to \in PopPlaces => p \in Poppers,
         stage' = [s \in Sides |-> [q \in Procs |->
                    IF q # p THEN stage[s][q]
                    ELSE IF s = side(p) THEN ownStage(to) ELSE otherStage(to)]]
  PROVE  PlacesMatch'
<1>1. pc' \in [Procs -> PCs]
  BY DEF PlacesMatch
<1>2. stage' \in [Sides -> [Procs -> Stages]]
  BY DEF PlacesMatch, Stages, ownStage, otherStage
<1>3. ASSUME NEW q \in Procs
      PROVE  /\ stage'[side(q)][q] = ownStage(pc'[q])
             /\ stage'[other(q)][q] = otherStage(pc'[q])
             /\ pc'[q] \in PushPlaces => q \in Pushers
             /\ pc'[q] \in PopPlaces => q \in Poppers
  <2>1. side(q) \in Sides /\ other(q) \in Sides /\ side(q) # other(q)
    BY DEF side, other, Sides
  <2>2. CASE q = p
    BY <2>1, <2>2 DEF PlacesMatch
  <2>3. CASE q # p
    BY <2>1, <2>3 DEF PlacesMatch
  <2>4. QED
    BY <2>2, <2>3
<1>4. QED
  BY <1>1, <1>2, <1>3 DEF PlacesMatch

(* Of which the locks are left alone, or one of them goes along.           *)
Legal(p, to) ==
  /\ to \in PCs
  /\ to \in PushPlaces => p \in Pushers
  /\ to \in PopPlaces => p \in Poppers

(* Neither lock moves.                                                     *)
LEMMA MovesAlone ==
  ASSUME PlacesMatch, NEW p \in Procs, NEW from, NEW to, goto(p, from, to), Legal(p, to),
         ownStage(to) = ownStage(from), otherStage(to) = otherStage(from),
         UNCHANGED stage
  PROVE  PlacesMatch'
<1>1. side(p) \in Sides /\ other(p) \in Sides /\ side(p) # other(p)
      /\ Sides = {side(p), other(p)}
  BY DEF side, other, Sides
<1>2. stage' = [s \in Sides |-> [q \in Procs |->
                    IF q # p THEN stage[s][q]
                    ELSE IF s = side(p) THEN ownStage(to) ELSE otherStage(to)]]
  BY <1>1 DEF PlacesMatch, goto
<1>3. QED
  BY <1>2, Moves DEF Legal, goto

(* The lock of the own side moves along.                                   *)
LEMMA MovesWithOwn ==
  ASSUME PlacesMatch, NEW p \in Procs, NEW from, NEW to, goto(p, from, to), Legal(p, to),
         otherStage(to) = otherStage(from),
         stage' = [stage EXCEPT ![side(p)][p] = ownStage(to)]
  PROVE  PlacesMatch'
<1>1. side(p) \in Sides /\ other(p) \in Sides /\ side(p) # other(p)
      /\ Sides = {side(p), other(p)}
  BY DEF side, other, Sides
<1>2. stage' = [s \in Sides |-> [q \in Procs |->
                    IF q # p THEN stage[s][q]
                    ELSE IF s = side(p) THEN ownStage(to) ELSE otherStage(to)]]
  BY <1>1 DEF PlacesMatch, goto
<1>3. QED
  BY <1>2, Moves DEF Legal, goto

(* The lock of the other side moves along.                                 *)
LEMMA MovesWithOther ==
  ASSUME PlacesMatch, NEW p \in Procs, NEW from, NEW to, goto(p, from, to), Legal(p, to),
         ownStage(to) = ownStage(from),
         stage' = [stage EXCEPT ![other(p)][p] = otherStage(to)]
  PROVE  PlacesMatch'
<1>1. side(p) \in Sides /\ other(p) \in Sides /\ side(p) # other(p)
      /\ Sides = {side(p), other(p)}
  BY DEF side, other, Sides
<1>2. stage' = [s \in Sides |-> [q \in Procs |->
                    IF q # p THEN stage[s][q]
                    ELSE IF s = side(p) THEN ownStage(to) ELSE otherStage(to)]]
  BY <1>1 DEF PlacesMatch, goto
<1>3. QED
  BY <1>2, Moves DEF Legal, goto

(* The steps that leave the locks alone.                                   *)
LEMMA AloneSteps ==
  ASSUME PlacesMatch, NEW p \in Procs,
         \/ reservePush(p) \/ growQueue(p) \/ compactQueue(p) \/ storeNumElm(p)
         \/ recheckRoom(p) \/ commitPush(p) \/ readNumElm(p) \/ reservePeekPop(p)
         \/ shrinkQueue(p) \/ commitPeekPop(p)
  PROVE  PlacesMatch' /\ UNCHANGED lock
<1> USE DEF Legal, PCs, PushPlaces, PopPlaces, ownStage, otherStage, lock
<1>1. CASE reservePush(p)
  BY <1>1, MovesAlone DEF reservePush
<1>2. CASE growQueue(p)
  BY <1>2, MovesAlone DEF growQueue, goto, PlacesMatch
<1>3. CASE compactQueue(p)
  BY <1>3, MovesAlone DEF compactQueue, goto, PlacesMatch
<1>4. CASE storeNumElm(p)
  BY <1>4, MovesAlone DEF storeNumElm, goto, PlacesMatch
<1>5. CASE recheckRoom(p)
  BY <1>5, MovesAlone DEF recheckRoom
<1>6. CASE commitPush(p) \/ commitPeekPop(p)
  BY <1>6, MovesAlone DEF commitPush, commitPeekPop
<1>7. CASE readNumElm(p)
  BY <1>7, MovesAlone DEF readNumElm
<1>8. CASE reservePeekPop(p)
  BY <1>8, MovesAlone DEF reservePeekPop, goto, PlacesMatch
<1>9. CASE shrinkQueue(p)
  BY <1>9, MovesAlone DEF shrinkQueue, goto, PlacesMatch
<1>10. QED
  BY <1>1, <1>2, <1>3, <1>4, <1>5, <1>6, <1>7, <1>8, <1>9

(* The steps that go through one of the locks.                             *)
LEMMA LockSteps ==
  ASSUME PlacesMatch, NEW p \in Procs,
         \/ (p \in Pushers /\ callPush(p)) \/ (p \in Poppers /\ callPeekPop(p))
         \/ takeReserveLock(p) \/ releaseReserveLock(p) \/ releaseCommitLock(p)
         \/ tryAcquireReserveLock(p) \/ compacted(p) \/ testShrink(p) \/ endShrink(p)
  PROVE  PlacesMatch' /\ [LockNext]_lock
<1> USE DEF Legal, PCs, PushPlaces, PopPlaces, ownStage, otherStage
<1>0. /\ p \in Pushers => side(p) = "push" /\ other(p) = "pop"
      /\ p \in Poppers => side(p) = "pop" /\ other(p) = "push"
      /\ {side(p), other(p)} \subseteq Sides
  BY RequestAssumption DEF side, other, Sides
<1>1. ASSUME NEW s \in Sides, Enter(s, p) \/ Take(s, p) \/ Release(s, p) \/ Leave(s, p)
      PROVE  [LockNext]_lock
  BY <1>1 DEF LockNext
<1>2. CASE p \in Pushers /\ callPush(p)
  <2>1. Enter("push", p) /\ (goto(p, "idle", "queued") \/ goto(p, "idle", "locked"))
    BY <1>2 DEF callPush, acquireReserveLock
  <2>2. PICK to \in {"queued", "locked"} :
          goto(p, "idle", to) /\ stage' = [stage EXCEPT !["push"][p] = ownStage(to)]
    BY <1>2 DEF callPush, acquireReserveLock, Enter, setStage
  <2>3. QED
    BY <2>1, <2>2, <1>0, <1>1, <1>2, MovesWithOwn
<1>3. CASE p \in Poppers /\ callPeekPop(p)
  <2>1. CASE UNCHANGED vars
    BY <2>1 DEF vars, lock, PlacesMatch
  <2>2. CASE acquireReserveLock(p, "pop", "idle", "queued", "locked")
    <3>1. PICK to \in {"queued", "locked"} :
            goto(p, "idle", to) /\ stage' = [stage EXCEPT !["pop"][p] = ownStage(to)]
      BY <2>2 DEF acquireReserveLock, Enter, setStage
    <3>2. QED
      BY <2>2, <3>1, <1>0, <1>1, <1>3, MovesWithOwn DEF acquireReserveLock
  <2>3. QED
    BY <1>3, <2>1, <2>2 DEF callPeekPop
<1>4. CASE takeReserveLock(p)
  <2>1. goto(p, "queued", "locked") /\ Take(side(p), p)
        /\ stage' = [stage EXCEPT ![side(p)][p] = "holding"]
    BY <1>4 DEF takeReserveLock, Take, setStage
  <2>2. QED
    BY <2>1, <1>0, <1>1, MovesWithOwn
<1>5. CASE releaseReserveLock(p)
  <2>1. /\ goto(p, "unlock", "reserved") \/ goto(p, "cancel", "leave")
        /\ Release(side(p), p)
        /\ stage' = [stage EXCEPT ![side(p)][p] = "released"]
    BY <1>5 DEF releaseReserveLock, Release, setStage
  <2>2. QED
    BY <2>1, <1>0, <1>1, MovesWithOwn
<1>6. CASE releaseCommitLock(p)
  <2>1. /\ goto(p, "leave", "idle") /\ Leave(side(p), p)
        /\ stage' = [stage EXCEPT ![side(p)][p] = "out"]
    BY <1>6 DEF releaseCommitLock, Leave, setStage
  <2>2. QED
    BY <2>1, <1>0, <1>1, MovesWithOwn
<1>7. CASE tryAcquireReserveLock(p)
  <2>0. p \in Pushers
    BY <1>7 DEF tryAcquireReserveLock, goto, PlacesMatch
  <2>1. CASE goto(p, "compact", "compacting") /\ TryEnter("pop", p)
    <3>1. Enter("pop", p) /\ stage' = [stage EXCEPT !["pop"][p] = "holding"]
      BY <2>1 DEF TryEnter, Enter, setStage
    <3>2. QED
      BY <2>0, <2>1, <3>1, <1>0, <1>1, MovesWithOther
  <2>2. CASE goto(p, "compact", "recheck") /\ UNCHANGED lock
    BY <2>0, <2>2, MovesAlone DEF lock
  <2>3. QED
    BY <1>7, <2>1, <2>2 DEF tryAcquireReserveLock
<1>8. CASE compacted(p)
  <2>0. p \in Pushers
    BY <1>8 DEF compacted, goto, PlacesMatch
  <2>1. CASE goto(p, "compacted", "compactleave") /\ Release("pop", p)
    <3>1. stage' = [stage EXCEPT !["pop"][p] = "released"]
      BY <2>1 DEF Release, setStage
    <3>2. QED
      BY <2>0, <2>1, <3>1, <1>0, <1>1, MovesWithOther
  <2>2. CASE goto(p, "compactleave", "resize") /\ Leave("pop", p)
    <3>1. stage' = [stage EXCEPT !["pop"][p] = "out"]
      BY <2>2 DEF Leave, setStage
    <3>2. QED
      BY <2>0, <2>2, <3>1, <1>0, <1>1, MovesWithOther
  <2>3. QED
    BY <1>8, <2>1, <2>2 DEF compacted
<1>9. CASE testShrink(p)
  <2>0. p \in Poppers
    BY <1>9 DEF testShrink, acquireReserveLock, goto, PlacesMatch
  <2>1. CASE goto(p, "shrink", "unlock") /\ UNCHANGED lock
    BY <2>0, <2>1, MovesAlone DEF lock
  <2>2. CASE acquireReserveLock(p, "push", "shrink", "shrinkqueued", "shrinking")
    <3>1. PICK to \in {"shrinkqueued", "shrinking"} :
            goto(p, "shrink", to) /\ stage' = [stage EXCEPT !["push"][p] = otherStage(to)]
      BY <2>2 DEF acquireReserveLock, Enter, setStage
    <3>2. QED
      BY <2>0, <2>2, <3>1, <1>0, <1>1, MovesWithOther DEF acquireReserveLock
  <2>3. CASE Take("push", p) /\ goto(p, "shrinkqueued", "shrinking")
    <3>1. stage' = [stage EXCEPT !["push"][p] = "holding"]
      BY <2>3 DEF Take, setStage
    <3>2. QED
      BY <2>0, <2>3, <3>1, <1>0, <1>1, MovesWithOther
  <2>4. QED
    BY <1>9, <2>1, <2>2, <2>3 DEF testShrink
<1>10. CASE endShrink(p)
  <2>0. p \in Poppers
    BY <1>10 DEF endShrink, goto, PlacesMatch
  <2>1. CASE goto(p, "shrunk", "shrinkleave") /\ Release("push", p)
    <3>1. stage' = [stage EXCEPT !["push"][p] = "released"]
      BY <2>1 DEF Release, setStage
    <3>2. QED
      BY <2>0, <2>1, <3>1, <1>0, <1>1, MovesWithOther
  <2>2. CASE goto(p, "shrinkleave", "unlock") /\ Leave("push", p)
    <3>1. stage' = [stage EXCEPT !["push"][p] = "out"]
      BY <2>2 DEF Leave, setStage
    <3>2. QED
      BY <2>0, <2>2, <3>1, <1>0, <1>1, MovesWithOther
  <2>3. QED
    BY <1>10, <2>1, <2>2 DEF endShrink
<1>11. QED
  BY <1>2, <1>3, <1>4, <1>5, <1>6, <1>7, <1>8, <1>9, <1>10

(* Every step of the queue is a step of one of its locks or none.          *)
LEMMA StepOfLocks ==
  ASSUME PlacesMatch, [Next]_vars
  PROVE  PlacesMatch' /\ [LockNext]_lock
<1>1. CASE UNCHANGED vars
  BY <1>1 DEF vars, lock, PlacesMatch
<1>2. ASSUME NEW p \in Procs, step(p) PROVE PlacesMatch' /\ [LockNext]_lock
  BY <1>2, AloneSteps, LockSteps DEF step
<1>3. ASSUME NEW p \in Pushers, callPush(p) PROVE PlacesMatch' /\ [LockNext]_lock
  BY <1>3, LockSteps DEF Procs
<1>4. ASSUME NEW p \in Poppers, callPeekPop(p) PROVE PlacesMatch' /\ [LockNext]_lock
  BY <1>4, LockSteps DEF Procs
<1>5. QED
  BY <1>1, <1>2, <1>3, <1>4 DEF Next

(* Everybody is idle and out of both locks.                                *)
LEMMA QueueBegins == Init => PlacesMatch /\ LockInit
BY DEF Init, PlacesMatch, LockInit, PCs, Stages, ownStage, otherStage, PushPlaces,
       PopPlaces, side, other, Sides

(* The queue uses its RCLocks as RCLockSpec says.                          *)
THEOREM UsesLocks == Spec => [](PlacesMatch) /\ LockSpec
<1>1. [LockNext]_lock => [LockNext]_lockVars
  BY DEF lock, lockVars
<1>2. QED
  BY <1>1, QueueBegins, StepOfLocks, PTL DEF Spec, LockSpec

(* Whoever compacts is the first of the pop line: it joined an empty one.  *)
CompactsFirst ==
  \A p \in Procs : pc[p] \in {"compacting", "compacted"} => ahead["pop"][p] = {}

(* A compaction begins with the pop lock, tried for.                       *)
LEMMA CompactionBegins ==
  ASSUME PlacesMatch, [Next]_vars, NEW p \in Procs, pc'[p] \in {"compacting", "compacted"},
         pc[p] \notin {"compacting", "compacted"}
  PROVE  tryAcquireReserveLock(p) /\ TryEnter("pop", p)
<1> USE DEF goto, PlacesMatch
<1>1. CASE UNCHANGED vars
  BY <1>1 DEF vars
<1>2. ASSUME NEW q \in Procs,
             \/ takeReserveLock(q) \/ releaseReserveLock(q) \/ releaseCommitLock(q)
             \/ reservePush(q) \/ growQueue(q) \/ compactQueue(q) \/ compacted(q)
             \/ storeNumElm(q) \/ recheckRoom(q) \/ commitPush(q)
      PROVE  FALSE
  BY <1>2 DEF takeReserveLock, releaseReserveLock, releaseCommitLock, reservePush,
              growQueue, compactQueue, compacted, storeNumElm, recheckRoom, commitPush
<1>3. ASSUME NEW q \in Procs,
             \/ readNumElm(q) \/ reservePeekPop(q) \/ testShrink(q) \/ shrinkQueue(q)
             \/ endShrink(q) \/ commitPeekPop(q) \/ callPush(q) \/ callPeekPop(q)
      PROVE  FALSE
  BY <1>3 DEF readNumElm, reservePeekPop, testShrink, shrinkQueue, endShrink,
              commitPeekPop, callPush, callPeekPop, acquireReserveLock, vars
<1>4. ASSUME NEW q \in Procs, tryAcquireReserveLock(q)
      PROVE  q = p /\ TryEnter("pop", p)
  BY <1>4 DEF tryAcquireReserveLock
<1>5. QED
  BY <1>1, <1>2, <1>3, <1>4 DEF Next, step, Procs

(* While it compacts nobody gets before it.                                *)
LEMMA CompactsFirstStep ==
  ASSUME PlacesMatch, LineInv, CompactsFirst, [Next]_vars
  PROVE  CompactsFirst'
<1> SUFFICES ASSUME NEW p \in Procs, pc'[p] \in {"compacting", "compacted"}
             PROVE  ahead'["pop"][p] = {}
  BY DEF CompactsFirst
<1>0. "pop" \in Sides /\ ahead \in [Sides -> [Procs -> SUBSET Procs]]
  BY DEF LineInv, LineType, Sides
<1>1. CASE pc[p] \in {"compacting", "compacted"}
  <2>1. ahead["pop"][p] = {} /\ p \in Pushers
    BY <1>1 DEF CompactsFirst, PlacesMatch, PushPlaces
  <2>2. stage["pop"][p] = "holding"
    BY <1>1, <2>1 DEF PlacesMatch, other, otherStage
  <2>3. CASE UNCHANGED lock
    BY <2>1, <2>3 DEF lock
  <2>4. ASSUME NEW s \in Sides, NEW q \in Procs,
               Enter(s, q) \/ Take(s, q) \/ Release(s, q) \/ Leave(s, q)
        PROVE  ahead'["pop"][p] = {}
    BY <2>4, <1>0, <2>1, <2>2 DEF Enter, Take, Release, Leave, setStage
  <2>5. QED
    BY <2>3, <2>4, StepOfLocks DEF LockNext
<1>2. CASE pc[p] \notin {"compacting", "compacted"}
  <2>1. TryEnter("pop", p)
    BY <1>2, CompactionBegins
  <2>2. QED
    BY <2>1, <1>0 DEF TryEnter, Enter
<1>3. QED
  BY <1>1, <1>2

(* The push lock keeps pushers and resizers apart, the pop lock poppers    *)
(* and a compaction.                                                       *)
LEMMA LocksSuffice ==
  ASSUME PlacesMatch, LineInv, CompactsFirst
  PROVE  LayoutAlone
<1>0. {"push", "pop"} \subseteq Sides
  BY DEF Sides
<1>1. ASSUME NEW p \in Procs, NEW q \in Procs, Resizing(p), Resizing(q) \/ Reserving(q)
      PROVE  p = q
  <2>1. stage["push"][p] = "holding" /\ stage["push"][q] = "holding"
    <3>1. \A r \in Procs : Resizing(r) \/ Reserving(r) => stage["push"][r] = "holding"
      <4> SUFFICES ASSUME NEW r \in Procs, Resizing(r) \/ Reserving(r)
                   PROVE  stage["push"][r] = "holding"
        OBVIOUS
      <4>1. CASE r \in Pushers
        BY <4>1 DEF PlacesMatch, Resizing, Reserving, side, ownStage, PopPlaces
      <4>2. CASE r \notin Pushers
        BY <4>2 DEF PlacesMatch, Resizing, Reserving, other, otherStage, PushPlaces
      <4>3. QED
        BY <4>1, <4>2
    <3>2. QED
      BY <3>1, <1>1
  <2>2. QED
    BY <1>0, <2>1, LineExcludes DEF ReserveMutex
<1>2. ASSUME NEW p \in Procs, pc[p] \in {"compacting", "compacted"}, NEW q \in Poppers
      PROVE  pc[q] \in {"idle", "queued"}
  <2>1. p \in Pushers /\ q \in Procs /\ q \notin Pushers
    BY <1>2, RequestAssumption DEF PlacesMatch, PushPlaces, Procs
  <2>2. stage["pop"][p] = "holding" /\ ahead["pop"][p] = {} /\ p # q
    BY <1>2, <2>1 DEF PlacesMatch, other, otherStage, CompactsFirst
  <2>3. stage["pop"][q] \notin {"holding", "released"}
    <3> SUFFICES ASSUME stage["pop"][q] \in {"holding", "released"} PROVE FALSE
      OBVIOUS
    <3>1. p \in ahead["pop"][q]
      BY <1>0, <2>1, <2>2 DEF LineInv, LineIsTotal, line
    <3>2. QED
      BY <1>0, <2>1, <2>2, <3>1 DEF LineInv, NoOvertaking
  <2>4. stage["pop"][q] = ownStage(pc[q]) /\ pc[q] \in PCs
    BY <2>1 DEF PlacesMatch, side
  <2>5. QED
    BY <2>3, <2>4 DEF ownStage, PCs
<1>3. QED
  BY <1>1, <1>2 DEF LayoutAlone

(* Every change of the layout is an exclusive one: whoever resizes is      *)
(* alone on the push side, whoever compacts has the pop side to itself.    *)
THEOREM LayoutIsAlone == Spec => []LayoutAlone
<1>1. Spec => []PlacesMatch /\ []LineInv
  BY UsesLocks, LineHolds, PTL
<1>2. Init => CompactsFirst
  BY DEF Init, CompactsFirst
<1>3. Spec => []CompactsFirst
  BY <1>1, <1>2, CompactsFirstStep, PTL DEF Spec
<1>4. QED
  BY <1>1, <1>3, LocksSuffice, PTL

(* What resize returns.                                                    *)
LEMMA WholePages ==
  ASSUME NEW a \in Nat, NEW b \in Nat \ {0}
  PROVE  ((a + b - 1) \div b) * b \in Nat /\ ((a + b - 1) \div b) * b >= a
<1> DEFINE q == (a + b - 1) \div b
<1>1. q \in Int /\ a + b - 1 = b * q + ((a + b - 1) % b) /\ (a + b - 1) % b \in 0 .. b - 1
  OBVIOUS
<1>2. q * b \in Int /\ q * b = b * q
  BY <1>1
<1>3. q * b >= a
  BY <1>1, <1>2
<1>4. QED
  BY <1>2, <1>3

(* resize returns a legal size, one that is large enough if there is any.  *)
LEMMA ResizeBounds ==
  ASSUME NEW n \in Nat
  PROVE  /\ resize(n) \in MinNum .. MaxNum
         /\ n <= MaxNum => n <= resize(n)
         /\ MaxNum <= n => resize(n) = MaxNum
<1> DEFINE wanted == smaller(larger(n, MinNum), MaxNum)
           whole == ((wanted + ElementsPerPage - 1) \div ElementsPerPage) * ElementsPerPage
<1>0. MinNum \in Nat /\ MaxNum \in Nat /\ ElementsPerPage \in Nat \ {0} /\ MinNum <= MaxNum
  BY SizeAssumption
<1>1. wanted \in MinNum .. MaxNum /\ (n <= MaxNum => n <= wanted)
      /\ (MaxNum <= n => wanted = MaxNum)
  BY <1>0 DEF smaller, larger
<1>2. whole \in Nat /\ whole >= wanted
  BY <1>0, <1>1, WholePages
<1>3. resize(n) = smaller(whole, MaxNum)
  BY DEF resize
<1>4. QED
  BY <1>0, <1>1, <1>2, <1>3 DEF smaller

(* A queue that is asked to grow asks for more than it has.                *)
LEMMA GrownBounds ==
  ASSUME NEW size \in Nat, NEW n \in Nat
  PROVE  calcGrownQSize(size, n) \in Nat /\ calcGrownQSize(size, n) > size
<1> DEFINE m == size + n + 1
           e == m * GrowthPercent
<1>0. GrowthPercent \in Nat /\ m \in Nat
  BY SizeAssumption
<1>1. e \in Nat
  BY <1>0
<1>2. m * (100 + GrowthPercent) = 100 * m + e
  BY <1>0, <1>1
<1>3. (100 * m + e) \div 100 \in Nat /\ (100 * m + e) \div 100 >= m
  <2> HIDE DEF m, e
  <2>1. QED
    BY <1>0, <1>1
<1>4. calcGrownQSize(size, n) = (100 * m + e) \div 100
  BY <1>2 DEF calcGrownQSize
<1>5. QED
  BY <1>0, <1>3, <1>4

(* A queue that shrinks keeps a slot behind its reserved tail.             *)
LEMMA ShrunkBounds ==
  ASSUME NumElm \in MinNum .. MaxNum, ReservedTail \in 0 .. NumElm - 1
  PROVE  shrunkSize \in MinNum .. MaxNum /\ ReservedTail < shrunkSize
<1>0. MinNum \in Nat /\ MaxNum \in Nat /\ MinNum <= MaxNum /\ ShrinkPercent \in Nat
  BY SizeAssumption
<1>1. shrunkBy \in Nat
  <2> DEFINE x == NumElm * ShrinkPercent
  <2>1. x \in Nat
    BY <1>0
  <2>2. x \div 100 \in Nat
    <3> HIDE DEF x
    <3>1. QED
      BY <2>1
  <2>3. QED
    BY <2>2 DEF shrunkBy
<1>2. larger(ReservedTail + 1, NumElm - shrunkBy) \in ReservedTail + 1 .. MaxNum
  <2> HIDE DEF shrunkBy
  <2>1. QED
    BY <1>0, <1>1 DEF larger
<1>3. larger(ReservedTail + 1, NumElm - shrunkBy) \in Nat
  BY <1>2
<1>4. QED
  BY <1>2, <1>3, ResizeBounds DEF shrunkSize

-----------------------------------------------------------------------------
(* Sizes, offsets and windows                                              *)

(* Moving(p): p has moved the data or is about to store the size they      *)
(* belong to.                                                              *)
Moving(p) == pc[p] \in {"compacted", "compactleave", "resize"}

(* Offsets: how far an index is from Head.                                 *)
off(x) == Dist(Head, x)
base(s) == IF s = "push" THEN off(Tail) ELSE 0
top(s) == IF s = "push" THEN off(ReservedTail) ELSE off(ReservedHead)
end(p) == off(NewIndex[p])
first(p) == end(p) - num[p]

Typed ==
  /\ NumElm \in MinNum .. MaxNum
  /\ \A p \in Procs : Moving(p) => numelm[p] \in MinNum .. MaxNum
  /\ {Head, ReservedHead, Tail, ReservedTail} \subseteq 0 .. Size - 1
  /\ \A p \in Procs : HasWindow(p) => NewIndex[p] \in 0 .. Size - 1
  /\ NewIndex \in [Procs -> 0 .. MaxNum]
  /\ num \in [Procs -> 0 .. MaxNum]
  /\ peek \in [Procs -> 0 .. MaxNum]
  /\ numelm \in [Procs -> 0 .. MaxNum]
  /\ r_tail \in [Procs -> 0 .. MaxNum]
  /\ head \in [Procs -> 0 .. MaxNum]
  /\ DOMAIN win = Procs

(* A call knows what was asked for.                                        *)
Requests(p) ==
  pc[p] # "idle" =>
    /\ num[p] \in 1 .. MinNum - 1
    /\ p \in Pushers => num[p] \in PushNums
    /\ p \in Poppers => \E r \in PopRequests : peek[p] = r[1] /\ num[p] = r[2]

Requested == \A p \in Procs : Requests(p)

(* The open windows of a side lie one behind the other in the order of the *)
(* line, and fill it from the committed to the reserved index.             *)
Windows(s) == { p \in Procs : side(p) = s /\ HasWindow(p) }

Tiled(s) ==
  /\ base(s) <= top(s)
  /\ \A p \in Windows(s) :
       /\ base(s) <= first(p) /\ end(p) <= top(s)
       /\ \A q \in Windows(s) : q \in ahead[s][p] => end(q) <= first(p)
       /\ first(p) = base(s)
          \/ \E q \in Windows(s) : q \in ahead[s][p] /\ end(q) = first(p)
  /\ top(s) = base(s) \/ \E p \in Windows(s) : end(p) = top(s)

(* Head, ReservedHead, Tail and ReservedTail lie in this order round the   *)
(* ring, with the windows between them.                                    *)
Ordered ==
  /\ off(ReservedHead) <= off(Tail)
  /\ \A s \in Sides : Tiled(s)
  /\ \A p \in Poppers : HasWindow(p) => first(p) + peek[p] <= off(Tail)

(* The elements lie in the slots that the indices name, and each window    *)
(* where its thread was told.                                              *)
Placed ==
  /\ slots = [k \in 0 .. off(ReservedTail) - 1 |-> advance(Size, Head, k)]
  /\ \A p \in Procs : HasWindow(p) =>
       win[p] = [k \in 0 .. (IF p \in Pushers THEN num[p] ELSE peek[p]) - 1 |-> slots[first(p) + k]]

(* What the locals of a call remember is still true: a snapshot that found *)
(* no room in one piece of data may be out of date only on the safe side,  *)
(* one of data that wrap around will find no room again, whatever the size.*)
Remembers(p) ==
  /\ pc[p] \in {"grow", "grown"} =>
       \/ head[p] <= Head /\ Head <= ReservedTail /\ r_tail[p] = ReservedTail
       \/ r_tail[p] < head[p] /\ head[p] <= r_tail[p] + num[p]
  /\ pc[p] \in {"compact", "compacting", "compacted", "compactleave", "resize", "recheck"} =>
       r_tail[p] < head[p] /\ head[p] <= r_tail[p] + num[p]
  /\ pc[p] \in {"compact", "compacting"} => Tail = ReservedTail

Remembered == \A p \in Procs : Remembers(p)

LayoutInv == Typed /\ Requested /\ Ordered /\ Placed /\ Remembered

(* What breaks it: a popper is granted data by the NumElm it read, which   *)
(* is no longer, or not yet, the size that the indices belong to ...       *)
GrantsByOtherSize ==
  \E p \in Procs : /\ reservePeekPop(p) /\ numelm[p] # Size
                   /\ haveEnoughData(numelm[p], ReservedHead, Tail, peek[p])

(* ... or compactQueue appends the front block and Tail becomes the size,  *)
(* which is no slot.                                                       *)
FillsExactly == \E p \in Procs : compactQueue(p) /\ ~isResizable /\ exactFit(p)

(* What the locks already give.                                            *)
Locked == PlacesMatch /\ LineInv /\ LayoutAlone

(* Constants and sides.                                                    *)
LEMMA Numbers ==
  /\ MinNum \in Nat /\ MaxNum \in Nat /\ 2 <= MinNum /\ MinNum <= MaxNum
  /\ PushNums \subseteq 1 .. (MinNum - 1)
  /\ \A r \in PopRequests : r[1] \in 1 .. (MinNum - 1) /\ r[2] \in 1 .. r[1]
  /\ \A p \in Procs : side(p) \in Sides
  /\ \A p \in Pushers : p \in Procs /\ p \notin Poppers /\ side(p) = "push"
  /\ \A p \in Poppers : p \in Procs /\ p \notin Pushers /\ side(p) = "pop"
  /\ \A p \in Procs : p \in Pushers \/ p \in Poppers
BY SizeAssumption, RequestAssumption DEF side, Sides, Procs

(* The size is the one that has been computed, until it is stored.         *)
SizeBelongs ==
  /\ (\A p \in Procs : ~Moving(p)) => Size = NumElm
  /\ \A p \in Procs : Moving(p) => Size = numelm[p]

(* Nobody else resizes while a new size is not yet stored.                 *)
LEMMA SizeIs == LayoutAlone => SizeBelongs
<1> SUFFICES ASSUME LayoutAlone PROVE SizeBelongs
  OBVIOUS
<1>1. CASE \A p \in Procs : ~Moving(p)
  <2>1. ~ \E p \in Procs : pc[p] \in {"compacted", "compactleave", "resize"}
    BY <1>1 DEF Moving
  <2>2. QED
    BY <1>1, <2>1 DEF Size, SizeBelongs
<1>2. ASSUME NEW p \in Procs, Moving(p)
      PROVE  Size = numelm[p]
  <2>1. \A q \in Procs : pc[q] \in {"compacted", "compactleave", "resize"} => q = p
    BY <1>2 DEF LayoutAlone, Moving, Resizing
  <2>2. (CHOOSE q \in Procs : pc[q] \in {"compacted", "compactleave", "resize"}) = p
    BY <1>2, <2>1 DEF Moving
  <2>3. QED
    BY <1>2, <2>2 DEF Size, Moving
<1>3. QED
  BY <1>1, <1>2 DEF SizeBelongs

(* The same after a step.                                                  *)
LEMMA SizeIsNext == LayoutAlone' => SizeBelongs'
  BY SizeIs, PTL

(* The size that the indices belong to is a legal one.                     *)
LEMMA SizeType ==
  ASSUME LayoutAlone, Typed
  PROVE  Size \in MinNum .. MaxNum /\ Size \in Nat
BY SizeIs, Numbers DEF Typed, SizeBelongs

(* Offsets of the indices.                                                 *)
LEMMA OffsetType ==
  ASSUME LayoutAlone, Typed
  PROVE  /\ off(ReservedHead) \in 0 .. Size - 1 /\ off(Tail) \in 0 .. Size - 1
         /\ off(ReservedTail) \in 0 .. Size - 1 /\ off(Head) = 0
         /\ \A s \in Sides : base(s) \in 0 .. Size - 1 /\ top(s) \in 0 .. Size - 1
         /\ \A p \in Procs : HasWindow(p) =>
              end(p) \in 0 .. Size - 1 /\ num[p] \in Int /\ first(p) = end(p) - num[p]
<1>1. Size \in Nat /\ {Head, ReservedHead, Tail, ReservedTail} \subseteq 0 .. Size - 1
  BY SizeType DEF Typed
<1>2. \A x \in 0 .. Size - 1 : off(x) \in 0 .. Size - 1
  BY <1>1, DistType DEF off, Dist
<1>3. off(Head) = 0
  BY <1>1, DistZero DEF off, Dist
<1>4. \A p \in Procs : num[p] \in 0 .. MaxNum
  BY DEF Typed
<1>5. QED
  BY <1>1, <1>2, <1>3, <1>4 DEF base, top, end, first, Typed, Sides

(* Data in one piece: an index is an offset away from Head.                *)
LEMMA OnePiece ==
  ASSUME LayoutAlone, Typed, isResizable, NEW x \in 0 .. Size - 1, off(x) <= off(ReservedTail)
  PROVE  Head <= x /\ x <= ReservedTail /\ off(x) = x - Head
BY SizeType DEF Typed, off, Dist, getNumFilledElements, isResizable

(* All windows of a side but one's own are before one's own.               *)
LEMMA AllBefore ==
  ASSUME Locked, NEW p \in Procs, stage[side(p)][p] = "holding",
         NEW q \in Windows(side(p)), q # p
  PROVE  q \in ahead[side(p)][p] /\ p \notin ahead[side(p)][q]
<1>0. side(p) \in Sides /\ q \in Procs /\ side(q) = side(p) /\ HasWindow(q)
  BY Numbers DEF Windows
<1>1. stage[side(q)][q] = ownStage(pc[q]) /\ pc[q] \in PCs
  BY <1>0 DEF Locked, PlacesMatch
<1>2. stage[side(q)][q] \in {"holding", "released"}
  BY <1>0, <1>1 DEF HasWindow, ownStage
<1>3. stage[side(p)][q] = "released"
  BY <1>0, <1>2, LineExcludes DEF Locked, ReserveMutex
<1>4. p \notin ahead[side(p)][q]
  BY <1>0, <1>3 DEF Locked, LineInv, NoOvertaking
<1>5. p \in line(side(p)) /\ q \in line(side(p))
  BY <1>0, <1>3 DEF line
<1>6. QED
  BY <1>0, <1>4, <1>5 DEF Locked, LineInv, LineIsTotal

(* The first of a side is before all other windows of the side.            *)
LEMMA FirstBefore ==
  ASSUME Locked, NEW s \in Sides, NEW p \in Windows(s), ahead[s][p] = {},
         NEW q \in Windows(s), q # p
  PROVE  p \in ahead[s][q]
<1>0. p \in Procs /\ q \in Procs /\ side(p) = s /\ side(q) = s /\ HasWindow(p) /\ HasWindow(q)
  BY DEF Windows
<1>1. \A r \in Procs : stage[side(r)][r] = ownStage(pc[r]) /\ pc[r] \in PCs
  BY DEF Locked, PlacesMatch
<1>2. stage[s][q] # "out" /\ stage[s][p] # "out"
  BY <1>0, <1>1 DEF HasWindow, ownStage
<1>3. p \in line(s) /\ q \in line(s)
  BY <1>0, <1>2 DEF line
<1>4. QED
  BY <1>0, <1>3 DEF Locked, LineInv, LineIsTotal

(* A window has an element at least.                                       *)
LEMMA WindowNum ==
  ASSUME LayoutAlone, Typed, Requested, NEW p \in Procs, HasWindow(p)
  PROVE  /\ num[p] \in 1 .. MinNum - 1 /\ num[p] \in Nat
         /\ end(p) \in 0 .. Size - 1 /\ first(p) \in Int /\ end(p) = first(p) + num[p]
         /\ p \in Poppers => peek[p] \in 1 .. MinNum - 1 /\ num[p] <= peek[p]
<1>1. pc[p] # "idle"
  BY DEF HasWindow
<1>2. num[p] \in 1 .. MinNum - 1
  BY <1>1 DEF Requested, Requests
<1>3. p \in Poppers => peek[p] \in 1 .. MinNum - 1 /\ num[p] <= peek[p]
  <2> SUFFICES ASSUME p \in Poppers PROVE peek[p] \in 1 .. MinNum - 1 /\ num[p] <= peek[p]
    OBVIOUS
  <2>1. PICK r \in PopRequests : peek[p] = r[1] /\ num[p] = r[2]
    BY <1>1 DEF Requested, Requests
  <2>2. r[1] \in 1 .. MinNum - 1 /\ r[2] \in 1 .. r[1]
    BY Numbers
  <2>3. QED
    BY <2>1, <2>2
<1>4. end(p) \in 0 .. Size - 1
  BY OffsetType
<1>5. QED
  BY <1>2, <1>3, <1>4, Numbers, SizeType DEF first

-----------------------------------------------------------------------------
(* The order of the windows                                                *)

(* Nothing moves: the windows of a side stay where they are.               *)
LEMMA TilesRest ==
  ASSUME NEW s \in Sides, Tiled(s), base(s)' = base(s), top(s)' = top(s),
         Windows(s)' = Windows(s),
         \A p \in Windows(s) : first(p)' = first(p) /\ end(p)' = end(p),
         \A p, q \in Windows(s) : q \in ahead'[s][p] <=> q \in ahead[s][p]
  PROVE  Tiled(s)'
BY DEF Tiled

(* A new window at the top, behind all others of its side.                 *)
LEMMA TilesGrow ==
  ASSUME NEW s \in Sides, Tiled(s), NEW p \in Procs, NEW n \in Nat,
         base(s) \in Int, top(s) \in Int,
         base(s)' = base(s), top(s)' = top(s) + n,
         p \notin Windows(s), Windows(s)' = Windows(s) \cup {p},
         \A q \in Windows(s) : first(q) \in Int /\ end(q) \in Int,
         \A q \in Windows(s) : first(q)' = first(q) /\ end(q)' = end(q),
         first(p)' = top(s), end(p)' = top(s) + n,
         ahead' = ahead, p \notin ahead[s][p],
         \A q \in Windows(s) : q \in ahead[s][p] /\ p \notin ahead[s][q]
  PROVE  Tiled(s)'
<1>1. base(s)' <= top(s)'
  BY DEF Tiled
<1>2. ASSUME NEW q \in Windows(s)
      PROVE  /\ base(s)' <= first(q)' /\ end(q)' <= top(s)'
             /\ \A r \in Windows(s)' : r \in ahead'[s][q] => end(r)' <= first(q)'
             /\ first(q)' = base(s)'
                \/ \E r \in Windows(s)' : r \in ahead'[s][q] /\ end(r)' = first(q)'
  BY <1>2 DEF Tiled
<1>3. /\ base(s)' <= first(p)' /\ end(p)' <= top(s)'
      /\ \A r \in Windows(s)' : r \in ahead'[s][p] => end(r)' <= first(p)'
      /\ first(p)' = base(s)'
         \/ \E r \in Windows(s)' : r \in ahead'[s][p] /\ end(r)' = first(p)'
  BY DEF Tiled
<1>4. QED
  BY <1>1, <1>2, <1>3 DEF Tiled

(* The first window of a side is committed; the other windows keep their   *)
(* slots, which are d closer to Head.                                      *)
LEMMA TilesShrink ==
  ASSUME NEW s \in Sides, Tiled(s), NEW p \in Windows(s), NEW d \in Nat,
         base(s) \in Int, top(s) \in Int,
         base(s)' = end(p) - d, top(s)' = top(s) - d,
         Windows(s)' = Windows(s) \ {p},
         \A q \in Windows(s) : first(q) \in Int /\ end(q) \in Int,
         first(p) < end(p),
         \A q \in Windows(s) \ {p} : first(q)' = first(q) - d /\ end(q)' = end(q) - d,
         ahead' = ahead,
         \A q \in Windows(s) \ {p} : p \in ahead[s][q]
  PROVE  Tiled(s)'
<1>1. base(s)' <= top(s)'
  BY DEF Tiled
<1>2. ASSUME NEW q \in Windows(s)'
      PROVE  /\ base(s)' <= first(q)' /\ end(q)' <= top(s)'
             /\ \A r \in Windows(s)' : r \in ahead'[s][q] => end(r)' <= first(q)'
             /\ first(q)' = base(s)'
                \/ \E r \in Windows(s)' : r \in ahead'[s][q] /\ end(r)' = first(q)'
  <2>1. q \in Windows(s) \ {p} /\ end(p) <= first(q) /\ base(s) <= first(p)
    BY <1>2 DEF Tiled
  <2>2. first(q) # base(s)
    BY <2>1
  <2>3. PICK r \in Windows(s) : r \in ahead[s][q] /\ end(r) = first(q)
    BY <2>1, <2>2 DEF Tiled
  <2>4. first(q)' = base(s)'
        \/ \E t \in Windows(s)' : t \in ahead'[s][q] /\ end(t)' = first(q)'
    BY <2>1, <2>3
  <2>5. QED
    BY <1>2, <2>1, <2>4 DEF Tiled
<1>3. top(s)' = base(s)' \/ \E q \in Windows(s)' : end(q)' = top(s)'
  <2>1. base(s) <= first(p) /\ end(p) <= top(s)
    BY DEF Tiled
  <2>2. PICK r \in Windows(s) : end(r) = top(s)
    BY <2>1 DEF Tiled
  <2>3. QED
    BY <2>2
<1>4. QED
  BY <1>1, <1>2, <1>3 DEF Tiled

(* A side that has no window is committed up to its reserved index.        *)
LEMMA NoWindows ==
  ASSUME NEW s \in Sides, Tiled(s), Windows(s) = {}
  PROVE  top(s) = base(s)
BY DEF Tiled

-----------------------------------------------------------------------------
(* Steps that leave the layout alone                                       *)

(* Seen from Head, every index and every window stays where it is.         *)
Unmoved ==
  /\ off(ReservedHead)' = off(ReservedHead) /\ off(Tail)' = off(Tail)
  /\ off(ReservedTail)' = off(ReservedTail)
  /\ \A p \in Procs : HasWindow(p)' <=> HasWindow(p)
  /\ \A p \in Procs : HasWindow(p) => first(p)' = first(p) /\ num'[p] = num[p]

(* Elements, windows and indices stay where they are.                      *)
LEMMA QuietStep ==
  ASSUME Ordered, Placed, UNCHANGED <<indices, slots>>, Size' = Size,
         \A p \in Procs : HasWindow(p)' <=> HasWindow(p),
         \A p \in Procs : HasWindow(p) =>
           /\ NewIndex'[p] = NewIndex[p] /\ num'[p] = num[p]
           /\ peek'[p] = peek[p] /\ win'[p] = win[p],
         \A s \in Sides : \A p, q \in Windows(s) : q \in ahead'[s][p] <=> q \in ahead[s][p]
  PROVE  Ordered' /\ Placed' /\ Unmoved
<1>1. /\ off(ReservedHead)' = off(ReservedHead) /\ off(Tail)' = off(Tail)
      /\ off(ReservedTail)' = off(ReservedTail)
  BY DEF indices, off, Dist
<1>2. \A s \in Sides : base(s)' = base(s) /\ top(s)' = top(s) /\ Windows(s)' = Windows(s)
  BY <1>1 DEF base, top, Windows
<1>3. \A p \in Procs : HasWindow(p) => end(p)' = end(p) /\ first(p)' = first(p)
  BY DEF indices, off, Dist, end, first
<1>4. \A s \in Sides : Tiled(s)'
  BY <1>2, <1>3, TilesRest DEF Ordered, Windows
<1>5. \A p \in Poppers : HasWindow(p)' => first(p)' + peek'[p] <= off(Tail)'
  BY <1>1, <1>3 DEF Ordered, Procs
<1>6. slots' = [k \in 0 .. off(ReservedTail)' - 1 |-> advance(Size', Head', k)]
  BY <1>1 DEF Placed, indices
<1>7. \A p \in Procs : HasWindow(p)' =>
        win'[p] = [k \in 0 .. (IF p \in Pushers THEN num'[p] ELSE peek'[p]) - 1 |->
                     slots'[first(p)' + k]]
  BY <1>3 DEF Placed
<1>8. QED
  BY <1>1, <1>3, <1>4, <1>5, <1>6, <1>7 DEF Ordered, Placed, Unmoved

(* While a thread resizes, the others leave size and reserved tail alone.  *)
LEMMA NobodyResizes ==
  ASSUME Locked, Locked', NEW q \in Procs, Resizing(q), NEW p \in Procs, p # q,
         step(p) \/ callPush(p) \/ callPeekPop(p)
  PROVE  /\ NumElm' = NumElm /\ ReservedTail' = ReservedTail
         /\ Tail' = Tail \/ commitPush(p)
         /\ Head' = Head \/ commitPeekPop(p)
<1>1. ~Resizing(p) /\ ~Reserving(p)
  BY DEF Locked, LayoutAlone
<1> USE DEF goto, Resizing, Reserving, indices, vars
<1>2. CASE callPush(p) \/ callPeekPop(p)
  BY <1>2 DEF callPush, callPeekPop
<1>3. CASE takeReserveLock(p) \/ releaseReserveLock(p) \/ releaseCommitLock(p)
  BY <1>3 DEF takeReserveLock, releaseReserveLock, releaseCommitLock
<1>4. CASE reservePush(p)
  BY <1>1, <1>4 DEF reservePush
<1>5. CASE growQueue(p) \/ tryAcquireReserveLock(p) \/ compactQueue(p)
  BY <1>1, <1>5 DEF growQueue, tryAcquireReserveLock, compactQueue
<1>6. CASE compacted(p) \/ storeNumElm(p) \/ recheckRoom(p)
  BY <1>1, <1>6 DEF compacted, storeNumElm, recheckRoom
<1>7. CASE commitPush(p)
  BY <1>7 DEF commitPush
<1>8. CASE readNumElm(p) \/ reservePeekPop(p) \/ testShrink(p) \/ endShrink(p)
  BY <1>8 DEF readNumElm, reservePeekPop, testShrink, endShrink
<1>9. CASE shrinkQueue(p)
  BY <1>1, <1>9 DEF shrinkQueue
<1>10. CASE commitPeekPop(p)
  BY <1>10 DEF commitPeekPop
<1>11. QED
  BY <1>2, <1>3, <1>4, <1>5, <1>6, <1>7, <1>8, <1>9, <1>10 DEF step

(* A thread's step leaves the locals of the others alone.                  *)
LEMMA OwnLocals ==
  ASSUME Locked, Typed, NEW q \in Procs, NEW p \in Procs, p # q,
         step(p) \/ callPush(p) \/ callPeekPop(p)
  PROVE  /\ pc'[q] = pc[q] /\ num'[q] = num[q] /\ peek'[q] = peek[q] /\ win'[q] = win[q]
         /\ NewIndex'[q] = NewIndex[q]
         /\ numelm'[q] = numelm[q] /\ r_tail'[q] = r_tail[q] /\ head'[q] = head[q]
<1> USE DEF goto, request, locals, vars, Typed, Locked, PlacesMatch
<1>1. CASE callPush(p)
  BY <1>1 DEF callPush, acquireReserveLock
<1>2. CASE callPeekPop(p)
  BY <1>2 DEF callPeekPop, acquireReserveLock
<1>3. CASE takeReserveLock(p) \/ releaseReserveLock(p) \/ releaseCommitLock(p)
  BY <1>3 DEF takeReserveLock, releaseReserveLock, releaseCommitLock
<1>4. CASE reservePush(p)
  BY <1>4 DEF reservePush, setReservedTail
<1>5. CASE growQueue(p) \/ tryAcquireReserveLock(p)
  BY <1>5 DEF growQueue, tryAcquireReserveLock
<1>12. CASE compactQueue(p)
  BY <1>12 DEF compactQueue
<1>6. CASE compacted(p) \/ storeNumElm(p)
  BY <1>6 DEF compacted, storeNumElm
<1>13. CASE recheckRoom(p)
  BY <1>13 DEF recheckRoom, setReservedTail
<1>7. CASE commitPush(p)
  BY <1>7 DEF commitPush
<1>8. CASE readNumElm(p) \/ testShrink(p) \/ endShrink(p)
  BY <1>8 DEF readNumElm, testShrink, endShrink, acquireReserveLock
<1>14. CASE reservePeekPop(p)
  BY <1>14 DEF reservePeekPop
<1>9. CASE shrinkQueue(p)
  BY <1>9 DEF shrinkQueue
<1>10. CASE commitPeekPop(p)
  BY <1>10 DEF commitPeekPop
<1>11. QED
  BY <1>1, <1>2, <1>3, <1>4, <1>5, <1>6, <1>7, <1>8, <1>9, <1>10, <1>12, <1>13, <1>14 DEF step

-----------------------------------------------------------------------------
(* What a call remembers, while others move                                *)

(* Every step moves a thread on, but for a pop that finds no data.         *)
LEMMA StepsMove ==
  ASSUME NEW p \in Procs, step(p) \/ callPush(p) \/ callPeekPop(p)
  PROVE  (\E from, to : goto(p, from, to)) \/ UNCHANGED vars
<1>1. CASE callPush(p) \/ callPeekPop(p)
  BY <1>1 DEF callPush, callPeekPop, acquireReserveLock
<1>2. CASE takeReserveLock(p) \/ releaseReserveLock(p) \/ releaseCommitLock(p)
           \/ reservePush(p) \/ growQueue(p) \/ tryAcquireReserveLock(p)
  BY <1>2 DEF takeReserveLock, releaseReserveLock, releaseCommitLock, reservePush, growQueue,
              tryAcquireReserveLock
<1>3. CASE compactQueue(p) \/ compacted(p) \/ storeNumElm(p) \/ recheckRoom(p) \/ commitPush(p)
  BY <1>3 DEF compactQueue, compacted, storeNumElm, recheckRoom, commitPush
<1>4. CASE readNumElm(p) \/ reservePeekPop(p) \/ shrinkQueue(p) \/ endShrink(p) \/ commitPeekPop(p)
  BY <1>4 DEF readNumElm, reservePeekPop, shrinkQueue, endShrink, commitPeekPop
<1>5. CASE testShrink(p)
  BY <1>5 DEF testShrink, acquireReserveLock
<1>6. QED
  BY <1>1, <1>2, <1>3, <1>4, <1>5 DEF step

(* The window whose commit lock has been reached is the first of its side. *)
LEMMA CommitsFirst ==
  ASSUME LayoutAlone, Typed, Requested, NEW s \in Sides, Tiled(s), NEW p \in Windows(s),
         ahead[s][p] = {}
  PROVE  first(p) = base(s) /\ base(s) < end(p) /\ end(p) <= top(s)
<1>1. first(p) = base(s) /\ end(p) <= top(s)
  BY DEF Tiled
<1>2. p \in Procs /\ HasWindow(p)
  BY DEF Windows
<1>3. QED
  BY <1>1, <1>2, WindowNum

(* A push is committed when its window is the first behind Tail.           *)
LEMMA CommitPushFacts ==
  ASSUME Locked, LayoutInv, NEW p \in Procs, commitPush(p)
  PROVE  /\ p \in Pushers /\ HasWindow(p) /\ p \in Windows("push") /\ "push" \in Sides
         /\ ahead["push"][p] = {} /\ Tiled("push")
         /\ first(p) = off(Tail) /\ off(Tail) < end(p) /\ end(p) <= off(ReservedTail)
<1>1. p \in Pushers /\ HasWindow(p) /\ p \in Windows("push") /\ "push" \in Sides
  BY Numbers DEF commitPush, goto, HasWindow, Windows, Sides
<1>2. ahead["push"][p] = {} /\ Tiled("push")
  BY <1>1 DEF commitPush, HoldsCommit, LayoutInv, Ordered
<1>3. QED
  BY <1>1, <1>2, CommitsFirst DEF Locked, LayoutInv, base, top

(* A pop is committed when its window is the first behind Head.            *)
LEMMA CommitPopFacts ==
  ASSUME Locked, LayoutInv, NEW p \in Procs, commitPeekPop(p)
  PROVE  /\ p \in Poppers /\ HasWindow(p) /\ p \in Windows("pop") /\ "pop" \in Sides
         /\ ahead["pop"][p] = {} /\ Tiled("pop")
         /\ first(p) = 0 /\ end(p) = num[p] /\ 0 < end(p) /\ end(p) <= off(ReservedHead)
         /\ off(ReservedHead) <= off(Tail) /\ off(Tail) <= off(ReservedTail)
<1>1. p \in Poppers /\ HasWindow(p) /\ p \in Windows("pop") /\ "pop" \in Sides /\ "push" \in Sides
  BY Numbers DEF commitPeekPop, goto, HasWindow, Windows, Sides
<1>2. ahead["pop"][p] = {} /\ Tiled("pop") /\ Tiled("push")
  BY <1>1 DEF commitPeekPop, HoldsCommit, LayoutInv, Ordered
<1>3. first(p) = 0 /\ 0 < end(p) /\ end(p) <= off(ReservedHead)
  BY <1>1, <1>2, CommitsFirst DEF Locked, LayoutInv, base, top
<1>4. end(p) = first(p) + num[p] /\ num[p] \in Nat
  BY <1>1, WindowNum DEF Locked, LayoutInv
<1>5. off(ReservedHead) <= off(Tail) /\ off(Tail) <= off(ReservedTail)
  BY <1>2 DEF LayoutInv, Ordered, Tiled, base, top
<1>6. QED
  BY <1>1, <1>2, <1>3, <1>4, <1>5

(* Where Head can go: onwards, up to the reserved tail.                    *)
LEMMA HeadMovesOn ==
  ASSUME Locked, LayoutInv, NEW p \in Procs, commitPeekPop(p)
  PROVE  /\ Head <= ReservedTail => Head <= Head' /\ Head' <= ReservedTail
         /\ ReservedTail < Head => Head <= Head' \/ Head' <= ReservedTail
<1>1. HasWindow(p) /\ 0 < end(p) /\ end(p) <= off(ReservedTail) /\ Head' = NewIndex[p]
  <2>1. \A x \in Int, a \in Int, b \in Int, c \in Int : x <= a /\ a <= b /\ b <= c => x <= c
    OBVIOUS
  <2>2. off(ReservedHead) \in Int /\ off(Tail) \in Int /\ off(ReservedTail) \in Int /\ end(p) \in Int
    BY CommitPopFacts, OffsetType DEF Locked, LayoutInv
  <2>3. QED
    BY <2>1, <2>2, CommitPopFacts DEF commitPeekPop
<1>2. NewIndex[p] \in 0 .. Size - 1 /\ Head \in 0 .. Size - 1 /\ ReservedTail \in 0 .. Size - 1
  BY <1>1 DEF LayoutInv, Typed
<1>3. Size \in Nat
  BY SizeType DEF Locked, LayoutInv
<1>4. QED
  BY <1>1, <1>2, <1>3 DEF end, off, Dist, getNumFilledElements

(* What a call remembers stays true while others move.                     *)
LEMMA OthersRemember ==
  ASSUME Locked, Locked', LayoutInv, NEW q \in Procs, NEW p \in Procs, p # q,
         step(p) \/ callPush(p) \/ callPeekPop(p)
  PROVE  Remembers(q)'
<1>0. Remembers(q) /\ Typed
  BY DEF LayoutInv, Remembered
<1>1. /\ pc'[q] = pc[q] /\ num'[q] = num[q]
      /\ numelm'[q] = numelm[q] /\ r_tail'[q] = r_tail[q] /\ head'[q] = head[q]
  BY <1>0, OwnLocals
<1>2. CASE ~Resizing(q)
  BY <1>1, <1>2 DEF Remembers, Resizing
<1>3. CASE Resizing(q)
  <2>1. /\ NumElm' = NumElm /\ ReservedTail' = ReservedTail
        /\ Tail' = Tail \/ commitPush(p)
        /\ Head' = Head \/ commitPeekPop(p)
    BY <1>3, NobodyResizes
  <2>2. /\ Head \in Int /\ ReservedTail \in Int /\ NumElm \in Int
        /\ r_tail[q] \in Int /\ head[q] \in Int /\ num[q] \in Int
    BY <1>0, SizeType, Numbers DEF Locked, Typed
  <2>3. Head' \in Int
    <3>1. CASE commitPeekPop(p)
      BY <1>0, <3>1, Numbers DEF commitPeekPop, Typed
    <3>2. QED
      BY <2>1, <2>2, <3>1
  <2>4. /\ Head <= ReservedTail => Head <= Head' /\ Head' <= ReservedTail
        /\ ReservedTail < Head => Head <= Head' \/ Head' <= ReservedTail
    BY <2>1, <2>2, <2>3, HeadMovesOn
  <2>5. pc[q] \in {"compact", "compacting"} => Tail' = ReservedTail'
    <3> SUFFICES ASSUME pc[q] \in {"compact", "compacting"} PROVE Tail' = Tail
      BY <1>0, <2>1 DEF Remembers
    <3>1. ~commitPush(p)
      <4> SUFFICES ASSUME commitPush(p) PROVE FALSE
        OBVIOUS
      <4>1. off(Tail) < end(p) /\ end(p) <= off(ReservedTail) /\ HasWindow(p)
        BY CommitPushFacts
      <4>2. off(Tail) = off(ReservedTail)
        BY <1>0 DEF Remembers
      <4>3. off(Tail) \in Int /\ end(p) \in Int
        BY <4>1, OffsetType DEF Locked, LayoutInv
      <4>4. QED
        BY <4>1, <4>2, <4>3
    <3>2. QED
      BY <2>1, <3>1
  <2>6. \/ head[q] <= Head /\ Head <= ReservedTail /\ r_tail[q] = ReservedTail
        \/ r_tail[q] < head[q] /\ head[q] <= r_tail[q] + num[q]
        => (\/ head[q] <= Head /\ Head <= ReservedTail /\ r_tail[q] = ReservedTail
            \/ r_tail[q] < head[q] /\ head[q] <= r_tail[q] + num[q])'
    BY <1>1, <2>1, <2>2, <2>4, <2>3
  <2>7. QED
    BY <1>0, <1>1, <2>5, <2>6 DEF Remembers
<1>4. QED
  BY <1>2, <1>3

-----------------------------------------------------------------------------
(* Steps that move no element and no index                                 *)

(* Where a thread has an open window, and where a layout was changed       *)
(* whose size is not stored.                                               *)
WindowPCs == {"unlock", "reserved", "shrink", "shrinkqueued", "shrinking", "shrunk",
              "shrinkleave"}
MovingPCs == {"compacted", "compactleave", "resize"}

(* Who computes no size and stores none leaves the size alone.             *)
LEMMA SizeKept ==
  ASSUME Locked, Locked', \A q \in Procs : Moving(q)' <=> Moving(q),
         \A q \in Procs : Moving(q) => numelm'[q] = numelm[q],
         (\A q \in Procs : ~Moving(q)) => NumElm' = NumElm
  PROVE  Size' = Size
<1>1. CASE \A q \in Procs : ~Moving(q)
  BY <1>1, SizeIs, SizeIsNext DEF Locked, SizeBelongs
<1>2. ASSUME NEW q \in Procs, Moving(q) PROVE Size' = Size
  BY <1>2, SizeIs, SizeIsNext DEF Locked, SizeBelongs
<1>3. QED
  BY <1>1, <1>2

(* Who joins or leaves a line has no window there.                         *)
LEMMA AheadKept ==
  ASSUME Locked, NEW s \in Sides, NEW p \in Procs, Enter(s, p) \/ Leave(s, p), p \notin Windows(s)
  PROVE  \A t \in Sides : \A q, r \in Windows(t) : r \in ahead'[t][q] <=> r \in ahead[t][q]
<1>1. ahead \in [Sides -> [Procs -> SUBSET Procs]] /\ \A t \in Sides : Windows(t) \subseteq Procs
  BY DEF Locked, LineInv, LineType, Windows
<1>2. CASE Enter(s, p)
  BY <1>1, <1>2 DEF Enter
<1>3. CASE Leave(s, p)
  BY <1>1, <1>3 DEF Leave
<1>4. QED
  BY <1>2, <1>3

(* A thread goes on; its window, if it has one, stays.                     *)
LEMMA QuietMove ==
  ASSUME Locked, Locked', LayoutInv, NEW p \in Procs, NEW from, NEW to,
         goto(p, from, to), step(p) \/ callPush(p) \/ callPeekPop(p),
         UNCHANGED <<indices, NumElm, slots>>,
         from \in WindowPCs <=> to \in WindowPCs, from \in MovingPCs <=> to \in MovingPCs,
         from \in WindowPCs => /\ NewIndex'[p] = NewIndex[p] /\ num'[p] = num[p]
                               /\ peek'[p] = peek[p] /\ win'[p] = win[p],
         from \in MovingPCs => numelm'[p] = numelm[p],
         \A s \in Sides : \A q, r \in Windows(s) : r \in ahead'[s][q] <=> r \in ahead[s][q],
         NewIndex' \in [Procs -> 0 .. MaxNum], num' \in [Procs -> 0 .. MaxNum],
         peek' \in [Procs -> 0 .. MaxNum], numelm' \in [Procs -> 0 .. MaxNum],
         r_tail' \in [Procs -> 0 .. MaxNum], head' \in [Procs -> 0 .. MaxNum],
         DOMAIN win' = Procs,
         Requests(p)', Remembers(p)'
  PROVE  LayoutInv' /\ Unmoved
<1>0. Typed /\ Requested /\ Ordered /\ Placed
  BY DEF LayoutInv
<1>1. \A q \in Procs : q # p =>
        /\ pc'[q] = pc[q] /\ num'[q] = num[q] /\ peek'[q] = peek[q] /\ win'[q] = win[q]
        /\ NewIndex'[q] = NewIndex[q] /\ numelm'[q] = numelm[q]
  BY <1>0, OwnLocals
<1>2. pc[p] = from /\ pc'[p] = to
  BY DEF goto, Locked, PlacesMatch
<1>3. \A q \in Procs : /\ HasWindow(q)' <=> HasWindow(q)
                       /\ Moving(q)' <=> Moving(q)
                       /\ Moving(q) => numelm'[q] = numelm[q]
                       /\ HasWindow(q) => /\ NewIndex'[q] = NewIndex[q] /\ num'[q] = num[q]
                                          /\ peek'[q] = peek[q] /\ win'[q] = win[q]
  <2> SUFFICES ASSUME NEW q \in Procs
               PROVE  /\ HasWindow(q)' <=> HasWindow(q)
                      /\ Moving(q)' <=> Moving(q)
                      /\ Moving(q) => numelm'[q] = numelm[q]
                      /\ HasWindow(q) => /\ NewIndex'[q] = NewIndex[q] /\ num'[q] = num[q]
                                         /\ peek'[q] = peek[q] /\ win'[q] = win[q]
    OBVIOUS
  <2>1. CASE q = p
    BY <1>2, <2>1 DEF HasWindow, Moving, WindowPCs, MovingPCs
  <2>2. CASE q # p
    BY <1>1, <2>2 DEF HasWindow, Moving
  <2>3. QED
    BY <2>1, <2>2
<1>4. Size' = Size
  BY <1>3, SizeKept
<1>5. Ordered' /\ Placed' /\ Unmoved
  BY <1>0, <1>3, <1>4, QuietStep
<1>6. Typed'
  BY <1>0, <1>3, <1>4 DEF Typed, indices
<1>7. Requested'
  BY <1>0, <1>1 DEF Requested, Requests
<1>8. Remembered'
  BY OthersRemember DEF Remembered
<1>9. QED
  BY <1>5, <1>6, <1>7, <1>8 DEF LayoutInv

-----------------------------------------------------------------------------
(* The quiet steps                                                         *)

(* A push takes its place in the line.                                     *)
LEMMA CallPushStep ==
  ASSUME Locked, Locked', LayoutInv, NEW p \in Pushers, callPush(p)
  PROVE  LayoutInv' /\ Unmoved
<1>0. p \in Procs /\ p \notin Poppers /\ side(p) = "push" /\ "push" \in Sides /\ Typed
  BY Numbers DEF Sides, LayoutInv
<1>1. PICK to \in {"queued", "locked"} : goto(p, "idle", to) /\ Enter("push", p)
  BY DEF callPush, acquireReserveLock
<1>2. PICK n \in PushNums : num' = [num EXCEPT ![p] = n]
  BY DEF callPush
<1>3. n \in 1 .. MinNum - 1 /\ n \in 0 .. MaxNum
  BY Numbers
<1>4. UNCHANGED <<indices, NumElm, NewIndex, peek, win, locals, slots>>
  BY DEF callPush
<1>5. num' \in [Procs -> 0 .. MaxNum] /\ num'[p] = n
  BY <1>0, <1>2, <1>3 DEF Typed
<1>6. pc[p] = "idle" /\ pc'[p] = to
  BY <1>0, <1>1 DEF goto, Locked, PlacesMatch
<1>7. \A s \in Sides : \A q, r \in Windows(s) : r \in ahead'[s][q] <=> r \in ahead[s][q]
  BY <1>0, <1>1, <1>6, AheadKept DEF Windows, HasWindow
<1>8. Requests(p)'
  BY <1>0, <1>3, <1>5 DEF Requests
<1>9. Remembers(p)'
  BY <1>1, <1>6 DEF Remembers
<1>10. UNCHANGED <<indices, NumElm, slots>> /\ UNCHANGED <<NewIndex, peek, win, numelm, r_tail, head>>
  BY <1>4 DEF locals
<1>11. "idle" \notin WindowPCs /\ "idle" \notin MovingPCs /\ to \notin WindowPCs /\ to \notin MovingPCs
  BY <1>1 DEF WindowPCs, MovingPCs
<1>12. QED
  BY <1>0, <1>1, <1>5, <1>7, <1>8, <1>9, <1>10, <1>11, QuietMove DEF Typed

(* A pop takes its place in the line.                                      *)
LEMMA CallPeekPopStep ==
  ASSUME Locked, Locked', LayoutInv, NEW p \in Poppers, callPeekPop(p), ~UNCHANGED vars
  PROVE  LayoutInv' /\ Unmoved
<1>0. p \in Procs /\ p \notin Pushers /\ side(p) = "pop" /\ "pop" \in Sides /\ Typed
  BY Numbers DEF Sides, LayoutInv
<1>1. PICK r \in PopRequests :
        /\ acquireReserveLock(p, "pop", "idle", "queued", "locked")
        /\ num' = [num EXCEPT ![p] = r[2]]
        /\ peek' = [peek EXCEPT ![p] = r[1]]
        /\ UNCHANGED <<indices, NumElm, NewIndex, win, locals, slots>>
  BY DEF callPeekPop
<1>2. PICK to \in {"queued", "locked"} : goto(p, "idle", to) /\ Enter("pop", p)
  BY <1>1 DEF acquireReserveLock
<1>3. r[1] \in 1 .. MinNum - 1 /\ r[2] \in 1 .. r[1]
  BY Numbers
<1>4. r[2] \in 1 .. MinNum - 1 /\ r[2] \in 0 .. MaxNum /\ r[1] \in 0 .. MaxNum
  BY <1>3, Numbers
<1>5. /\ num' \in [Procs -> 0 .. MaxNum] /\ num'[p] = r[2]
      /\ peek' \in [Procs -> 0 .. MaxNum] /\ peek'[p] = r[1]
  BY <1>0, <1>1, <1>4 DEF Typed
<1>6. pc[p] = "idle" /\ pc'[p] = to
  BY <1>0, <1>2 DEF goto, Locked, PlacesMatch
<1>7. \A s \in Sides : \A q, t \in Windows(s) : t \in ahead'[s][q] <=> t \in ahead[s][q]
  BY <1>0, <1>2, <1>6, AheadKept DEF Windows, HasWindow
<1>8. Requests(p)'
  BY <1>0, <1>4, <1>5 DEF Requests
<1>9. Remembers(p)'
  BY <1>2, <1>6 DEF Remembers
<1>10. UNCHANGED <<indices, NumElm, slots>> /\ UNCHANGED <<NewIndex, win, numelm, r_tail, head>>
  BY <1>1 DEF locals
<1>11. "idle" \notin WindowPCs /\ "idle" \notin MovingPCs /\ to \notin WindowPCs /\ to \notin MovingPCs
  BY <1>2 DEF WindowPCs, MovingPCs
<1>12. QED
  BY <1>0, <1>2, <1>5, <1>7, <1>8, <1>9, <1>10, <1>11, QuietMove DEF Typed

(* The steps that only lock, unlock or test.                               *)
LEMMA OnlyMoves ==
  ASSUME Locked, Locked', LayoutInv, NEW p \in Procs, NEW from, NEW to,
         goto(p, from, to), step(p), from # "idle",
         UNCHANGED <<indices, NumElm, request, locals, slots>>,
         from \in WindowPCs <=> to \in WindowPCs, from \in MovingPCs <=> to \in MovingPCs,
         ahead' = ahead
         \/ (\E s \in Sides : (Enter(s, p) \/ Leave(s, p)) /\ p \notin Windows(s)),
         Remembers(p)'
  PROVE  LayoutInv' /\ Unmoved
<1>0. Typed /\ Requests(p)
  BY DEF LayoutInv, Requested
<1>1. UNCHANGED <<NewIndex, num, peek, win, numelm, r_tail, head>>
  BY DEF request, locals
<1>2. \A s \in Sides : \A q, r \in Windows(s) : r \in ahead'[s][q] <=> r \in ahead[s][q]
  BY AheadKept
<1>3. Requests(p)'
  BY <1>0, <1>1 DEF Requests, goto, Locked, PlacesMatch
<1>4. UNCHANGED <<indices, NumElm, slots>>
  OBVIOUS
<1>5. QED
  BY <1>0, <1>1, <1>2, <1>3, <1>4, QuietMove DEF Typed

(* A step of a lock, or a test.                                            *)
LEMMA LockingSteps ==
  ASSUME Locked, Locked', LayoutInv, NEW p \in Procs,
         takeReserveLock(p) \/ releaseReserveLock(p) \/ tryAcquireReserveLock(p)
         \/ compacted(p) \/ testShrink(p) \/ endShrink(p)
  PROVE  LayoutInv' /\ Unmoved
<1>0. step(p) /\ Remembers(p) /\ pc \in [Procs -> PCs]
  BY DEF step, LayoutInv, Remembered, Locked, PlacesMatch
<1>1. UNCHANGED <<indices, NumElm, request, locals, slots>>
  BY DEF takeReserveLock, releaseReserveLock, tryAcquireReserveLock, compacted, testShrink,
         endShrink
<1>2. PICK from, to : goto(p, from, to)
  BY <1>0, StepsMove, <1>1 DEF takeReserveLock, releaseReserveLock, tryAcquireReserveLock,
         compacted, testShrink, endShrink, acquireReserveLock
<1>3. pc[p] = from /\ pc'[p] = to
  BY <1>0, <1>2 DEF goto
<1> DEFINE pairs == {<<"queued", "locked">>, <<"unlock", "reserved">>, <<"cancel", "leave">>,
                     <<"compact", "compacting">>, <<"compact", "recheck">>,
                     <<"compacted", "compactleave">>, <<"compactleave", "resize">>,
                     <<"shrink", "unlock">>, <<"shrink", "shrinkqueued">>,
                     <<"shrink", "shrinking">>, <<"shrinkqueued", "shrinking">>,
                     <<"shrunk", "shrinkleave">>, <<"shrinkleave", "unlock">>}
<1>4. <<from, to>> \in pairs
  BY <1>0, <1>3 DEF takeReserveLock, releaseReserveLock, tryAcquireReserveLock, compacted, testShrink,
         endShrink, acquireReserveLock, goto
<1>5. /\ from # "idle"
      /\ from \in WindowPCs <=> to \in WindowPCs
      /\ from \in MovingPCs <=> to \in MovingPCs
  BY <1>4 DEF WindowPCs, MovingPCs
<1>6. Remembers(p)'
  <2>1. UNCHANGED <<Head, Tail, ReservedTail, NumElm, num, numelm, r_tail, head>>
    BY <1>1 DEF indices, request, locals
  <2>2. to \in {"compact", "compacting"} => from = "compact"
    BY <1>4
  <2>3. to \in {"compact", "compacting", "compacted", "compactleave", "resize", "recheck"}
        => from \in {"compact", "compacting", "compacted", "compactleave", "resize", "recheck"}
    BY <1>4
  <2>4. to \notin {"grow", "grown"}
    BY <1>4
  <2>5. QED
    BY <1>0, <1>3, <2>1, <2>2, <2>3, <2>4 DEF Remembers
<1>7. ahead' = ahead \/ (\E s \in Sides : (Enter(s, p) \/ Leave(s, p)) /\ p \notin Windows(s))
  <2>1. "push" \in Sides /\ "pop" \in Sides
    BY DEF Sides
  <2>2. CASE takeReserveLock(p) \/ releaseReserveLock(p)
    BY <2>2 DEF takeReserveLock, releaseReserveLock, Take, Release
  <2>3. CASE tryAcquireReserveLock(p)
    <3>1. p \notin Windows("pop")
      BY <1>0, <2>3 DEF tryAcquireReserveLock, goto, Windows, HasWindow
    <3>2. QED
      BY <2>1, <2>3, <3>1 DEF tryAcquireReserveLock, TryEnter, lock
  <2>4. CASE compacted(p)
    <3>1. p \notin Windows("pop")
      BY <1>0, <2>4 DEF compacted, goto, Windows, HasWindow
    <3>2. QED
      BY <2>1, <2>4, <3>1 DEF compacted, Release
  <2>5. CASE testShrink(p) \/ endShrink(p)
    <3>1. from \in PopPlaces
      BY <1>3, <2>5 DEF testShrink, endShrink, acquireReserveLock, goto, PopPlaces
    <3>2. p \notin Windows("push")
      BY <1>3, <3>1, Numbers DEF Locked, PlacesMatch, Windows
    <3>3. QED
      BY <2>1, <2>5, <3>2 DEF testShrink, endShrink, acquireReserveLock, Take, Release, lock
  <2>6. QED
    BY <2>2, <2>3, <2>4, <2>5
<1>8. QED
  BY <1>0, <1>1, <1>2, <1>5, <1>6, <1>7, OnlyMoves

(* A call returns.                                                         *)
LEMMA ReleaseCommitLockStep ==
  ASSUME Locked, Locked', LayoutInv, NEW p \in Procs, releaseCommitLock(p)
  PROVE  LayoutInv' /\ Unmoved
<1>0. step(p) /\ Typed /\ side(p) \in Sides /\ pc \in [Procs -> PCs] /\ 0 \in 0 .. MaxNum
  BY Numbers DEF step, LayoutInv, Locked, PlacesMatch
<1>1. goto(p, "leave", "idle") /\ Leave(side(p), p)
  BY DEF releaseCommitLock
<1>2. pc[p] = "leave" /\ pc'[p] = "idle"
  BY <1>0, <1>1 DEF goto
<1>3. \A s \in Sides : \A q, r \in Windows(s) : r \in ahead'[s][q] <=> r \in ahead[s][q]
  BY <1>0, <1>1, <1>2, AheadKept DEF Windows, HasWindow
<1>4. /\ NewIndex' \in [Procs -> 0 .. MaxNum] /\ num' \in [Procs -> 0 .. MaxNum]
      /\ peek' \in [Procs -> 0 .. MaxNum] /\ DOMAIN win' = Procs
  BY <1>0 DEF releaseCommitLock, Typed
<1>5. UNCHANGED <<indices, NumElm, slots>> /\ UNCHANGED <<numelm, r_tail, head>>
  BY DEF releaseCommitLock, locals
<1>6. Requests(p)' /\ Remembers(p)'
  BY <1>2 DEF Requests, Remembers
<1>7. "leave" \notin WindowPCs /\ "leave" \notin MovingPCs /\ "idle" \notin WindowPCs /\ "idle" \notin MovingPCs
  BY DEF WindowPCs, MovingPCs
<1>8. QED
  BY <1>0, <1>1, <1>3, <1>4, <1>5, <1>6, <1>7, QuietMove DEF Typed

(* A popper reads the size.                                                *)
LEMMA ReadNumElmStep ==
  ASSUME Locked, Locked', LayoutInv, NEW p \in Procs, readNumElm(p)
  PROVE  LayoutInv' /\ Unmoved
<1>0. /\ step(p) /\ Typed /\ pc \in [Procs -> PCs] /\ NumElm \in 0 .. MaxNum
      /\ Requests(p) /\ p \in Poppers /\ p \notin Pushers
  BY Numbers DEF step, LayoutInv, Locked, PlacesMatch, Typed, Requested, readNumElm
<1>1. goto(p, "locked", "sized")
  BY DEF readNumElm
<1>2. pc[p] = "locked" /\ pc'[p] = "sized"
  BY <1>0, <1>1 DEF goto
<1>3. numelm' \in [Procs -> 0 .. MaxNum] /\ numelm'[p] = NumElm
  BY <1>0 DEF readNumElm, Typed
<1>4. UNCHANGED <<indices, NumElm, slots>> /\ UNCHANGED <<NewIndex, num, peek, win, r_tail, head, ahead>>
  BY DEF readNumElm, lock, request
<1>5. Requests(p)'
  BY <1>0, <1>2, <1>4 DEF Requests
<1>6. Remembers(p)'
  BY <1>2 DEF Remembers
<1>7. "locked" \notin WindowPCs /\ "locked" \notin MovingPCs /\ "sized" \notin WindowPCs /\ "sized" \notin MovingPCs
  BY DEF WindowPCs, MovingPCs
<1>8. QED
  BY <1>0, <1>1, <1>3, <1>4, <1>5, <1>6, <1>7, QuietMove DEF Typed

(* A pusher finds no room and remembers what it saw.                       *)
LEMMA NoRoomStep ==
  ASSUME Locked, Locked', LayoutInv, NEW p \in Procs, reservePush(p),
         ~haveEnoughRoom(NumElm, ReservedTail, Head, num[p])
  PROVE  LayoutInv' /\ Unmoved
<1>0. /\ step(p) /\ Typed /\ pc \in [Procs -> PCs]
      /\ Requests(p) /\ Head \in 0 .. Size - 1 /\ ReservedTail \in 0 .. Size - 1
      /\ Size \in MinNum .. MaxNum /\ num[p] \in 0 .. MaxNum
  BY SizeType DEF step, LayoutInv, Locked, PlacesMatch, Typed, Requested
<1>1. goto(p, "locked", "grow")
  BY DEF reservePush
<1>2. pc[p] = "locked" /\ pc'[p] = "grow"
  BY <1>0, <1>1 DEF goto
<1>3. /\ r_tail' = [r_tail EXCEPT ![p] = ReservedTail] /\ head' = [head EXCEPT ![p] = Head]
      /\ UNCHANGED <<indices, NumElm, slots>>
      /\ UNCHANGED <<NewIndex, num, peek, win, numelm, ahead>>
  BY DEF reservePush, lock, indices
<1>4. Head \in 0 .. MaxNum /\ ReservedTail \in 0 .. MaxNum /\ num[p] \in Nat
  BY <1>0, Numbers
<1>5. /\ r_tail' \in [Procs -> 0 .. MaxNum] /\ head' \in [Procs -> 0 .. MaxNum]
      /\ r_tail'[p] = ReservedTail /\ head'[p] = Head
  BY <1>0, <1>3, <1>4 DEF Typed
<1>6. Requests(p)'
  BY <1>0, <1>2, <1>3 DEF Requests
<1>7. \/ Head <= ReservedTail
      \/ ReservedTail < Head /\ Head <= ReservedTail + num[p]
  BY <1>4 DEF haveEnoughRoom
<1>8. Remembers(p)'
  BY <1>2, <1>3, <1>4, <1>5, <1>7 DEF Remembers, indices
<1>9. "locked" \notin WindowPCs /\ "locked" \notin MovingPCs /\ "grow" \notin WindowPCs /\ "grow" \notin MovingPCs
  BY DEF WindowPCs, MovingPCs
<1>10. QED
  BY <1>0, <1>1, <1>3, <1>5, <1>6, <1>8, <1>9, QuietMove DEF Typed

(* The ring is not grown, or is to be compacted first.                     *)
LEMMA NotGrownStep ==
  ASSUME Locked, Locked', LayoutInv, NEW p \in Procs, growQueue(p), ~isResizable
  PROVE  LayoutInv' /\ Unmoved
<1>0. /\ step(p) /\ Typed /\ pc \in [Procs -> PCs] /\ Remembers(p)
      /\ Head \in 0 .. Size - 1 /\ ReservedTail \in 0 .. Size - 1 /\ Size \in Nat
  BY SizeType DEF step, LayoutInv, Locked, PlacesMatch, Typed, Remembered
<1>1. UNCHANGED <<indices, NumElm, request, locals, slots>> /\ UNCHANGED lock
  BY DEF growQueue
<1>2. \/ goto(p, "grow", "recheck")
      \/ goto(p, "grow", "compact") /\ Tail = ReservedTail
  BY DEF growQueue
<1>3. PICK to \in {"recheck", "compact"} :
        /\ goto(p, "grow", to)
        /\ to = "compact" => Tail = ReservedTail
  BY <1>2
<1>4. pc[p] = "grow" /\ pc'[p] = to
  BY <1>0, <1>3 DEF goto
<1>5. r_tail[p] < head[p] /\ head[p] <= r_tail[p] + num[p]
  BY <1>0, <1>4 DEF Remembers, isResizable
<1>6. UNCHANGED <<Head, Tail, ReservedTail, NumElm, num, numelm, r_tail, head, ahead>>
  BY <1>1 DEF indices, request, locals, lock
<1>7. Remembers(p)'
  BY <1>3, <1>4, <1>5, <1>6 DEF Remembers
<1>8. "grow" \notin WindowPCs /\ "grow" \notin MovingPCs /\ to \notin WindowPCs /\ to \notin MovingPCs
  BY <1>3 DEF WindowPCs, MovingPCs
<1>9. QED
  BY <1>0, <1>1, <1>3, <1>6, <1>7, <1>8, OnlyMoves

(* After all there is no room: the call gives up.                          *)
LEMMA StillNoRoomStep ==
  ASSUME Locked, Locked', LayoutInv, NEW p \in Procs, recheckRoom(p),
         ~haveEnoughRoom(NumElm, r_tail[p], head[p], num[p])
  PROVE  LayoutInv' /\ Unmoved
<1>0. step(p) /\ Typed /\ pc \in [Procs -> PCs] /\ Requests(p) /\ 0 \in 0 .. MaxNum
  BY Numbers DEF step, LayoutInv, Locked, PlacesMatch, Requested
<1>1. PICK from \in {"grown", "recheck"} : goto(p, from, "cancel")
  BY DEF recheckRoom
<1>2. pc[p] = from /\ pc'[p] = "cancel"
  BY <1>0, <1>1 DEF goto
<1>3. /\ r_tail' = [r_tail EXCEPT ![p] = 0] /\ head' = [head EXCEPT ![p] = 0]
      /\ UNCHANGED <<indices, NumElm, slots>>
      /\ UNCHANGED <<NewIndex, num, peek, win, numelm, ahead>>
  BY DEF recheckRoom, lock, indices
<1>4. r_tail' \in [Procs -> 0 .. MaxNum] /\ head' \in [Procs -> 0 .. MaxNum]
  BY <1>0, <1>3 DEF Typed
<1>5. Requests(p)' /\ Remembers(p)'
  BY <1>0, <1>1, <1>2, <1>3 DEF Requests, Remembers
<1>6. "cancel" \notin WindowPCs /\ "cancel" \notin MovingPCs /\ from \notin WindowPCs /\ from \notin MovingPCs
  BY <1>1 DEF WindowPCs, MovingPCs
<1>7. QED
  BY <1>0, <1>1, <1>3, <1>4, <1>5, <1>6, QuietMove DEF Typed

(* A popper finds too few elements: the call gives up.                     *)
LEMMA NoDataStep ==
  ASSUME Locked, Locked', LayoutInv, NEW p \in Procs, reservePeekPop(p),
         ~haveEnoughData(numelm[p], ReservedHead, Tail, peek[p])
  PROVE  LayoutInv' /\ Unmoved
<1>0. step(p) /\ Typed /\ pc \in [Procs -> PCs] /\ Requests(p) /\ 0 \in 0 .. MaxNum
  BY Numbers DEF step, LayoutInv, Locked, PlacesMatch, Requested
<1>1. goto(p, "sized", "cancel")
  BY DEF reservePeekPop
<1>2. pc[p] = "sized" /\ pc'[p] = "cancel"
  BY <1>0, <1>1 DEF goto
<1>3. /\ numelm' = [numelm EXCEPT ![p] = 0]
      /\ UNCHANGED <<indices, NumElm, slots>>
      /\ UNCHANGED <<NewIndex, num, peek, win, r_tail, head, ahead>>
  BY DEF reservePeekPop, lock, indices
<1>4. numelm' \in [Procs -> 0 .. MaxNum]
  BY <1>0, <1>3 DEF Typed
<1>5. Requests(p)' /\ Remembers(p)'
  BY <1>0, <1>2, <1>3 DEF Requests, Remembers
<1>6. "cancel" \notin WindowPCs /\ "cancel" \notin MovingPCs /\ "sized" \notin WindowPCs /\ "sized" \notin MovingPCs
  BY DEF WindowPCs, MovingPCs
<1>7. QED
  BY <1>0, <1>1, <1>3, <1>4, <1>5, <1>6, QuietMove DEF Typed

-----------------------------------------------------------------------------
(* Steps that change the size                                              *)

(* Every index in use is at or before the reserved tail.                   *)
LEMMA InUse ==
  ASSUME Locked, LayoutInv
  PROVE  /\ off(ReservedHead) <= off(ReservedTail) /\ off(Tail) <= off(ReservedTail)
         /\ \A p \in Procs : HasWindow(p) => end(p) <= off(ReservedTail)
<1>1. /\ off(ReservedHead) \in Int /\ off(Tail) \in Int /\ off(ReservedTail) \in Int
      /\ \A p \in Procs : HasWindow(p) => end(p) \in Int
  BY OffsetType DEF Locked, LayoutInv
<1>2. Tiled("push") /\ Tiled("pop") /\ off(ReservedHead) <= off(Tail)
  BY DEF LayoutInv, Ordered, Sides
<1>3. off(Tail) <= off(ReservedTail)
  BY <1>2 DEF Tiled, base, top
<1>4. ASSUME NEW p \in Procs, HasWindow(p) PROVE end(p) <= off(ReservedTail)
  <2>1. CASE p \in Windows("push")
    BY <1>2, <2>1 DEF Tiled, top
  <2>2. CASE p \in Windows("pop")
    <3>1. end(p) <= off(ReservedHead)
      BY <1>2, <2>2 DEF Tiled, top
    <3>2. QED
      BY <1>1, <1>2, <1>3, <1>4, <3>1
  <2>3. QED
    BY <1>4, <2>1, <2>2, Numbers DEF Windows, Sides
<1>5. QED
  BY <1>1, <1>2, <1>3, <1>4

(* A window lies within the slots in use.                                  *)
LEMMA WindowsFit ==
  ASSUME Locked, LayoutInv, NEW p \in Procs, HasWindow(p)
  PROVE  LET n == IF p \in Pushers THEN num[p] ELSE peek[p]
         IN  /\ n \in Nat /\ first(p) \in Nat /\ first(p) + n <= off(ReservedTail)
             /\ p \in Poppers => first(p) + n <= off(Tail)
             /\ num[p] <= n /\ end(p) <= off(ReservedTail)
<1>0. /\ Typed /\ Requested /\ Tiled("push") /\ Tiled("pop") /\ LayoutAlone
      /\ off(ReservedHead) <= off(Tail)
      /\ \A q \in Poppers : HasWindow(q) => first(q) + peek[q] <= off(Tail)
  BY DEF LayoutInv, Ordered, Locked, Sides
<1>1. /\ num[p] \in 1 .. MinNum - 1 /\ num[p] \in Nat /\ first(p) \in Int
      /\ end(p) \in Int /\ end(p) = first(p) + num[p]
      /\ p \in Poppers => peek[p] \in 1 .. MinNum - 1 /\ num[p] <= peek[p]
  BY <1>0, WindowNum
<1>2. off(Tail) \in Nat /\ off(ReservedTail) \in Nat /\ off(ReservedHead) \in Nat
  BY <1>0, OffsetType, SizeType
<1>3. off(Tail) <= off(ReservedTail) /\ end(p) <= off(ReservedTail)
  BY InUse
<1>4. CASE p \in Pushers
  <2>1. p \in Windows("push") /\ p \notin Poppers
    BY <1>4, Numbers DEF Windows
  <2>2. off(Tail) <= first(p)
    BY <1>0, <2>1 DEF Tiled, base
  <2>3. QED
    BY <1>1, <1>2, <1>3, <1>4, <2>1, <2>2
<1>5. CASE p \notin Pushers
  <2>1. p \in Windows("pop") /\ p \in Poppers
    BY <1>5, Numbers DEF Windows
  <2>2. 0 <= first(p)
    BY <1>0, <2>1 DEF Tiled, base
  <2>3. peek[p] \in Nat /\ first(p) + peek[p] <= off(Tail)
    BY <1>0, <1>1, <2>1, Numbers
  <2>4. QED
    BY <1>1, <1>2, <1>3, <1>5, <2>1, <2>2, <2>3
<1>6. QED
  BY <1>4, <1>5

(* Data in one piece do not care for the size of the ring behind them.     *)
LEMMA Stretch ==
  ASSUME Locked, LayoutInv, isResizable, UNCHANGED <<indices, slots, ahead>>,
         NEW N \in Nat, Size' = N, ReservedTail < N,
         \A p \in Procs : HasWindow(p)' <=> HasWindow(p),
         \A p \in Procs : HasWindow(p) =>
           /\ NewIndex'[p] = NewIndex[p] /\ num'[p] = num[p]
           /\ peek'[p] = peek[p] /\ win'[p] = win[p]
  PROVE  /\ Ordered' /\ Placed' /\ Unmoved
         /\ {Head, ReservedHead, Tail, ReservedTail} \subseteq 0 .. N - 1
         /\ \A p \in Procs : HasWindow(p) => NewIndex[p] \in 0 .. N - 1
<1>0. Typed /\ Ordered /\ Placed /\ Size \in Nat
  BY SizeType DEF LayoutInv, Locked
<1> DEFINE inUse(x) == x \in 0 .. Size - 1 /\ off(x) <= off(ReservedTail)
<1>1. inUse(Head) /\ inUse(ReservedHead) /\ inUse(Tail) /\ inUse(ReservedTail)
  BY <1>0, InUse, OffsetType DEF Locked, Typed
<1>2. \A p \in Procs : HasWindow(p) => inUse(NewIndex[p])
  BY <1>0, InUse DEF Typed, end
<1>3. ASSUME NEW x, inUse(x)
      PROVE  x \in 0 .. N - 1 /\ off(x) = getNumFilledElements(N, Head, x)
  <2>1. Head <= x /\ x <= ReservedTail /\ off(x) = x - Head
    BY <1>0, <1>3, OnePiece DEF Locked
  <2>2. Head \in Int /\ ReservedTail \in Int /\ x \in Int /\ 0 <= x
    BY <1>0, <1>1, <1>3
  <2>3. QED
    BY <2>1, <2>2 DEF getNumFilledElements
<1>4. /\ off(ReservedHead)' = off(ReservedHead) /\ off(Tail)' = off(Tail)
      /\ off(ReservedTail)' = off(ReservedTail)
  BY <1>1, <1>3 DEF indices, off, Dist
<1>5. \A s \in Sides : base(s)' = base(s) /\ top(s)' = top(s) /\ Windows(s)' = Windows(s)
  BY <1>4 DEF base, top, Windows
<1>6. \A p \in Procs : HasWindow(p) => end(p)' = end(p) /\ first(p)' = first(p)
  <2> SUFFICES ASSUME NEW p \in Procs, HasWindow(p)
               PROVE  end(p)' = end(p) /\ first(p)' = first(p)
    OBVIOUS
  <2>1. off(NewIndex[p]) = getNumFilledElements(N, Head, NewIndex[p])
    BY <1>2, <1>3
  <2>2. end(p)' = end(p)
    BY <2>1 DEF indices, end, off, Dist
  <2>3. QED
    BY <2>2 DEF first
<1>7. \A s \in Sides : Tiled(s)'
  BY <1>0, <1>5, <1>6, TilesRest DEF Ordered, Windows
<1>8. \A p \in Poppers : HasWindow(p)' => first(p)' + peek'[p] <= off(Tail)'
  BY <1>0, <1>4, <1>6 DEF Ordered, Procs
<1>9. \A k \in 0 .. off(ReservedTail) - 1 : advance(N, Head, k) = advance(Size, Head, k)
  <2>1. off(ReservedTail) = ReservedTail - Head /\ Head \in Int /\ ReservedTail \in 0 .. Size - 1
    BY <1>0, <1>1, OnePiece DEF Locked, inUse
  <2>2. ASSUME NEW k \in 0 .. off(ReservedTail) - 1 PROVE advance(N, Head, k) = advance(Size, Head, k)
    <3>1. k \in Int /\ Head + k < ReservedTail /\ Size \in Int /\ ReservedTail < Size
      BY <1>0, <2>1
    <3>2. QED
      BY <2>1, <3>1 DEF advance
  <2>3. QED
    BY <2>2
<1>10. slots' = [k \in 0 .. off(ReservedTail)' - 1 |-> advance(Size', Head', k)]
  BY <1>0, <1>4, <1>9 DEF Placed, indices
<1>11. \A p \in Procs : HasWindow(p)' =>
         win'[p] = [k \in 0 .. (IF p \in Pushers THEN num'[p] ELSE peek'[p]) - 1 |->
                      slots'[first(p)' + k]]
  <2> SUFFICES ASSUME NEW p \in Procs, HasWindow(p)
               PROVE  win'[p] = [k \in 0 .. (IF p \in Pushers THEN num'[p] ELSE peek'[p]) - 1 |->
                                   slots'[first(p)' + k]]
    OBVIOUS
  <2>1. first(p)' = first(p) /\ slots' = slots
    BY <1>6
  <2>2. win[p] = [k \in 0 .. (IF p \in Pushers THEN num[p] ELSE peek[p]) - 1 |->
                   slots[first(p) + k]]
    BY <1>0 DEF Placed
  <2>3. QED
    BY <2>1, <2>2
<1>12. Ordered' /\ Placed' /\ Unmoved
  BY <1>0, <1>4, <1>6, <1>7, <1>8, <1>10, <1>11 DEF Ordered, Placed, Unmoved
<1>13. QED
  BY <1>1, <1>2, <1>3, <1>12

(* The size that belongs to the moved data is stored.                      *)
LEMMA StoreNumElmStep ==
  ASSUME Locked, Locked', LayoutInv, NEW p \in Procs, storeNumElm(p)
  PROVE  LayoutInv' /\ Unmoved
<1>0. /\ step(p) /\ Typed /\ Requested /\ Ordered /\ Placed /\ Remembers(p)
      /\ pc \in [Procs -> PCs] /\ 0 \in 0 .. MaxNum
  BY Numbers DEF step, LayoutInv, Locked, PlacesMatch, Remembered
<1>1. goto(p, "resize", "recheck") /\ pc[p] = "resize" /\ pc'[p] = "recheck"
  BY <1>0 DEF storeNumElm, goto
<1>2. /\ NumElm' = numelm[p] /\ numelm' = [numelm EXCEPT ![p] = 0]
      /\ UNCHANGED <<indices, slots>>
      /\ UNCHANGED <<NewIndex, num, peek, win, r_tail, head, ahead>>
  BY DEF storeNumElm, lock, request
<1>3. \A q \in Procs : q # p => pc'[q] = pc[q]
  BY <1>0, <1>1 DEF goto
<1>4. Moving(p) /\ numelm[p] \in MinNum .. MaxNum /\ numelm' \in [Procs -> 0 .. MaxNum]
  BY <1>0, <1>1, <1>2 DEF Moving, Typed
<1>5. \A q \in Procs : ~Moving(q)'
  BY <1>1, <1>3 DEF Moving, Locked, LayoutAlone, Resizing
<1>6. Size' = Size
  BY <1>2, <1>4, <1>5, SizeIs, SizeIsNext DEF Locked, SizeBelongs
<1>7. \A q \in Procs : HasWindow(q)' <=> HasWindow(q)
  BY <1>1, <1>3 DEF HasWindow
<1>8. Ordered' /\ Placed' /\ Unmoved
  BY <1>0, <1>2, <1>6, <1>7, QuietStep
<1>9. Typed'
  BY <1>0, <1>2, <1>4, <1>5, <1>6, <1>7 DEF Typed, indices
<1>10. Requested'
  BY <1>0, <1>1, <1>2, <1>3 DEF Requested, Requests
<1>11. Remembers(p)'
  BY <1>0, <1>1, <1>2 DEF Remembers
<1>12. Remembered'
  BY <1>0, <1>11, OthersRemember DEF Remembered
<1>13. QED
  BY <1>8, <1>9, <1>10, <1>12 DEF LayoutInv

(* Another size for data in one piece.                                     *)
LEMMA ResizeInOnePiece ==
  ASSUME Locked, Locked', LayoutInv, NEW p \in Procs, isResizable,
         NEW from, NEW to, goto(p, from, to), step(p),
         UNCHANGED <<indices, lock, request, r_tail, head, slots>>,
         from # "idle", from \in WindowPCs <=> to \in WindowPCs, from \notin MovingPCs,
         Resizing(p), NEW N \in MinNum .. MaxNum, ReservedTail < N,
         \/ to \notin MovingPCs /\ NumElm' = N /\ UNCHANGED numelm
         \/ to \in MovingPCs /\ numelm' = [numelm EXCEPT ![p] = N] /\ UNCHANGED NumElm,
         Remembers(p)'
  PROVE  LayoutInv' /\ Unmoved
<1>0. /\ Typed /\ Requested /\ Ordered /\ Placed /\ pc \in [Procs -> PCs]
      /\ N \in Nat /\ N \in 0 .. MaxNum
  BY Numbers DEF LayoutInv, Locked, PlacesMatch
<1>1. pc[p] = from /\ pc'[p] = to /\ \A q \in Procs : q # p => pc'[q] = pc[q]
  BY <1>0 DEF goto
<1>2. \A q \in Procs : Moving(q)' => q = p
  BY <1>1 DEF Moving, Locked, LayoutAlone, Resizing
<1>3. Size' = N
  <2>1. CASE to \notin MovingPCs
    <3>1. \A q \in Procs : ~Moving(q)'
      BY <1>1, <1>2, <2>1 DEF Moving, MovingPCs
    <3>2. QED
      BY <2>1, <3>1, SizeIsNext DEF Locked, SizeBelongs
  <2>2. CASE to \in MovingPCs
    <3>1. Moving(p)' /\ numelm'[p] = N
      BY <1>0, <1>1, <2>2 DEF Moving, MovingPCs, Typed
    <3>2. QED
      BY <3>1, SizeIsNext DEF Locked, SizeBelongs
  <2>3. QED
    BY <2>1, <2>2
<1>4. \A q \in Procs : HasWindow(q)' <=> HasWindow(q)
  BY <1>1 DEF HasWindow, WindowPCs
<1>5. UNCHANGED <<NewIndex, num, peek, win, ahead>> /\ UNCHANGED <<indices, slots, ahead>>
  BY DEF request, lock
<1>6. /\ Ordered' /\ Placed' /\ Unmoved
      /\ {Head, ReservedHead, Tail, ReservedTail} \subseteq 0 .. N - 1
      /\ \A q \in Procs : HasWindow(q) => NewIndex[q] \in 0 .. N - 1
  BY <1>0, <1>3, <1>4, <1>5, Stretch
<1>7. Typed'
  <2>1. NumElm' \in MinNum .. MaxNum /\ numelm' \in [Procs -> 0 .. MaxNum]
    BY <1>0 DEF Typed
  <2>2. \A q \in Procs : Moving(q)' => numelm'[q] \in MinNum .. MaxNum
    <3> SUFFICES ASSUME Moving(p)' PROVE numelm'[p] \in MinNum .. MaxNum
      BY <1>2
    <3>1. to \in MovingPCs
      BY <1>1 DEF Moving, MovingPCs
    <3>2. QED
      BY <1>0, <3>1 DEF Typed
  <2>3. {Head, ReservedHead, Tail, ReservedTail}' \subseteq 0 .. Size' - 1
    BY <1>3, <1>6 DEF indices
  <2>4. \A q \in Procs : HasWindow(q)' => NewIndex'[q] \in 0 .. Size' - 1
    BY <1>3, <1>4, <1>5, <1>6
  <2>5. QED
    BY <1>0, <1>5, <2>1, <2>2, <2>3, <2>4 DEF Typed
<1>8. Requested'
  BY <1>0, <1>1, <1>5 DEF Requested, Requests
<1>9. Remembered'
  BY OthersRemember DEF Remembered
<1>10. QED
  BY <1>6, <1>7, <1>8, <1>9 DEF LayoutInv

(* Only the thread that resizes can have a size of its own.                *)
LEMMA NoneMoving ==
  ASSUME Locked, LayoutInv, NEW p \in Procs, Resizing(p), ~Moving(p)
  PROVE  (\A q \in Procs : ~Moving(q)) /\ Size = NumElm
<1>1. \A q \in Procs : ~Moving(q)
  BY DEF Moving, Locked, LayoutAlone, Resizing
<1>2. QED
  BY <1>1, SizeIs DEF Locked, SizeBelongs

(* A grown ring holds what the ring held.                                  *)
LEMMA GrownSize ==
  ASSUME NumElm \in MinNum .. MaxNum, NEW n \in Nat
  PROVE  LET size == resize(calcGrownQSize(NumElm, n))
         IN  size \in MinNum .. MaxNum /\ NumElm <= size
<1>1. NumElm \in Nat
  BY Numbers
<1>2. calcGrownQSize(NumElm, n) \in Nat /\ calcGrownQSize(NumElm, n) > NumElm
  BY <1>1, GrownBounds
<1> DEFINE c == calcGrownQSize(NumElm, n)
<1>3. /\ resize(c) \in MinNum .. MaxNum
      /\ c <= MaxNum => c <= resize(c)
      /\ MaxNum <= c => resize(c) = MaxNum
  BY <1>2, ResizeBounds
<1>4. QED
  BY <1>1, <1>2, <1>3, Numbers

(* The ring is grown behind data in one piece.                             *)
LEMMA GrowStep ==
  ASSUME Locked, Locked', LayoutInv, NEW p \in Procs, growQueue(p), isResizable
  PROVE  LayoutInv' /\ Unmoved
<1>0. /\ step(p) /\ Typed /\ pc \in [Procs -> PCs] /\ Remembers(p) /\ isResizable
  BY DEF step, LayoutInv, Locked, PlacesMatch, Remembered
<1>1. /\ goto(p, "grow", "grown") /\ pc[p] = "grow" /\ pc'[p] = "grown"
      /\ NumElm' = resize(calcGrownQSize(NumElm, num[p]))
      /\ UNCHANGED <<indices, lock, request, locals, slots>>
  BY <1>0 DEF growQueue, goto
<1>2. Resizing(p) /\ ~Moving(p)
  BY <1>1 DEF Resizing, Moving
<1>3. Size = NumElm /\ ReservedTail \in 0 .. NumElm - 1 /\ NumElm \in MinNum .. MaxNum
      /\ num[p] \in Nat
  BY <1>0, <1>2, NoneMoving, Numbers DEF Typed
<1>4. NumElm' \in MinNum .. MaxNum /\ ReservedTail < NumElm'
  <2> DEFINE N == resize(calcGrownQSize(NumElm, num[p]))
  <2>1. N \in MinNum .. MaxNum /\ NumElm <= N
    BY <1>3, GrownSize
  <2>2. N \in MinNum .. MaxNum /\ ReservedTail < N
    <3> HIDE DEF N
    <3>1. QED
      BY <1>3, <2>1, Numbers
  <2>3. QED
    BY <1>1, <2>2
<1>5. Remembers(p)'
  BY <1>0, <1>1 DEF Remembers, indices, request, locals
<1>6. "grow" \notin WindowPCs /\ "grown" \notin WindowPCs /\ "grow" \notin MovingPCs
      /\ "grown" \notin MovingPCs
  BY DEF WindowPCs, MovingPCs
<1>7. UNCHANGED <<indices, lock, request, r_tail, head, slots>> /\ UNCHANGED numelm
  BY <1>1 DEF locals
<1>8. QED
  BY <1>0, <1>1, <1>2, <1>4, <1>5, <1>6, <1>7, ResizeInOnePiece

(* The ring is cut behind data in one piece.                               *)
LEMMA ShrinkStep ==
  ASSUME Locked, Locked', LayoutInv, NEW p \in Procs, shrinkQueue(p)
  PROVE  LayoutInv' /\ Unmoved
<1>0. step(p) /\ Typed /\ pc \in [Procs -> PCs]
  BY DEF step, LayoutInv, Locked, PlacesMatch
<1>1. /\ goto(p, "shrinking", "shrunk") /\ pc[p] = "shrinking" /\ pc'[p] = "shrunk"
      /\ UNCHANGED <<indices, lock, request, locals, slots>>
  BY <1>0 DEF shrinkQueue, goto
<1>2. Resizing(p) /\ ~Moving(p)
  BY <1>1 DEF Resizing, Moving
<1>3. Size = NumElm /\ ReservedTail \in 0 .. NumElm - 1 /\ NumElm \in MinNum .. MaxNum
  BY <1>0, <1>2, NoneMoving DEF Typed
<1>4. Remembers(p)'
  BY <1>1 DEF Remembers
<1>5. "shrinking" \in WindowPCs /\ "shrunk" \in WindowPCs /\ "shrinking" \notin MovingPCs
      /\ "shrunk" \notin MovingPCs
  BY DEF WindowPCs, MovingPCs
<1>6. CASE requireShrinkQueue
  <2>1. NumElm' = shrunkSize /\ isResizable
    BY <1>6 DEF shrinkQueue, requireShrinkQueue
  <2>2. NumElm' \in MinNum .. MaxNum /\ ReservedTail < NumElm'
    BY <1>3, <2>1, ShrunkBounds
  <2>3. UNCHANGED <<indices, lock, request, r_tail, head, slots>> /\ UNCHANGED numelm
    BY <1>1 DEF locals
  <2>4. QED
    BY <1>0, <1>1, <1>2, <1>4, <1>5, <2>1, <2>2, <2>3, ResizeInOnePiece
<1>7. CASE ~requireShrinkQueue
  <2>1. NumElm' = NumElm
    BY <1>7 DEF shrinkQueue
  <2>2. ahead' = ahead /\ UNCHANGED <<indices, NumElm, request, locals, slots>>
    BY <1>1, <2>1 DEF lock
  <2>3. QED
    BY <1>0, <1>1, <1>4, <1>5, <2>2, OnlyMoves
<1>8. QED
  BY <1>6, <1>7

(* compactQueue finds the data in one piece: it computes a size for them.  *)
LEMMA NothingToCompact ==
  ASSUME Locked, Locked', LayoutInv, NEW p \in Procs, compactQueue(p), isResizable
  PROVE  LayoutInv' /\ Unmoved
<1>0. step(p) /\ Typed /\ pc \in [Procs -> PCs] /\ Remembers(p)
  BY DEF step, LayoutInv, Locked, PlacesMatch, Remembered
<1> DEFINE N == resize(calcGrownQSize(NumElm, num[p] + 0))
<1>1. /\ goto(p, "compacting", "compacted") /\ pc[p] = "compacting" /\ pc'[p] = "compacted"
      /\ numelm' = [numelm EXCEPT ![p] = N]
      /\ UNCHANGED <<indices, slots>>
      /\ UNCHANGED <<NumElm, lock, request, r_tail, head>>
  BY <1>0 DEF compactQueue, goto
<1>2. Resizing(p) /\ ~Moving(p)
  BY <1>1 DEF Resizing, Moving
<1>3. Size = NumElm /\ ReservedTail \in 0 .. NumElm - 1 /\ NumElm \in MinNum .. MaxNum
      /\ num[p] + 0 \in Nat
  BY <1>0, <1>2, NoneMoving, Numbers DEF Typed
<1>4. N \in MinNum .. MaxNum /\ NumElm <= N
  BY <1>3, GrownSize
<1>5. Remembers(p)'
  BY <1>0, <1>1 DEF Remembers, request
<1>6. "compacting" \notin WindowPCs /\ "compacted" \notin WindowPCs /\ "compacting" \notin MovingPCs
      /\ "compacted" \in MovingPCs
  BY DEF WindowPCs, MovingPCs
<1>7. UNCHANGED <<indices, lock, request, r_tail, head, slots>> /\ UNCHANGED NumElm
  BY <1>1
<1> HIDE DEF N
<1>8. ReservedTail < N
  BY <1>3, <1>4, Numbers
<1>9. QED
  BY <1>0, <1>1, <1>2, <1>4, <1>5, <1>6, <1>7, <1>8, ResizeInOnePiece

-----------------------------------------------------------------------------
(* Data that wrap around are moved                                         *)

(* The front block behind the block at the end.                            *)
LEMMA FrontMoves ==
  ASSUME NEW S \in Nat, NEW N \in Nat, NEW h \in 0 .. S - 1, NEW rt \in 0 .. S - 1,
         rt < h, S + rt < N, NEW k \in 0 .. getNumFilledElements(S, h, rt) - 1
  PROVE  (IF advance(S, h, k) \in 0 .. rt - 1 THEN advance(S, h, k) + S ELSE advance(S, h, k))
           = advance(N, h, k)
<1>1. k \in Int /\ 0 <= k /\ h + k < S + rt
  BY DEF getNumFilledElements
<1>2. CASE h + k < S
  BY <1>1, <1>2 DEF advance
<1>3. CASE h + k >= S
  BY <1>1, <1>3 DEF advance
<1>4. QED
  BY <1>1, <1>2, <1>3

(* The block at the end to the new end.                                    *)
LEMMA EndMoves ==
  ASSUME NEW S \in Nat, NEW N \in Nat, NEW h \in 0 .. S - 1, NEW rt \in 0 .. S - 1,
         rt < h, S <= N, NEW k \in 0 .. getNumFilledElements(S, h, rt) - 1
  PROVE  (IF advance(S, h, k) \in h .. S - 1 THEN advance(S, h, k) + (N - S) ELSE advance(S, h, k))
           = advance(N, N - S + h, k)
<1>1. k \in Int /\ 0 <= k /\ h + k < S + rt
  BY DEF getNumFilledElements
<1>2. CASE h + k < S
  BY <1>1, <1>2 DEF advance
<1>3. CASE h + k >= S
  BY <1>1, <1>3 DEF advance
<1>4. QED
  BY <1>1, <1>2, <1>3

(* The data move when no window is open, and Head and the reserved head    *)
(* are one, and so are the tails.                                          *)
LEMMA NobodyInside ==
  ASSUME Locked, LayoutInv, NEW p \in Procs, pc[p] = "compacting", Tail = ReservedTail
  PROVE  (\A q \in Procs : ~HasWindow(q)) /\ ReservedHead = Head
<1>0. /\ Typed /\ Requested /\ Tiled("push") /\ Tiled("pop") /\ LayoutAlone
      /\ "push" \in Sides /\ "pop" \in Sides
  BY DEF LayoutInv, Ordered, Locked, Sides
<1>1. ASSUME NEW q \in Windows("push") PROVE FALSE
  <2>1. q \in Procs /\ HasWindow(q)
    BY DEF Windows
  <2>2. off(Tail) <= first(q) /\ end(q) <= off(Tail)
    BY <1>0 DEF Tiled, base, top
  <2>3. /\ off(Tail) \in Int /\ first(q) \in Int /\ num[q] \in 1 .. MinNum - 1
        /\ end(q) \in Int /\ end(q) = first(q) + num[q]
    BY <1>0, <2>1, WindowNum, OffsetType
  <2>4. QED
    BY <2>2, <2>3
<1>2. ASSUME NEW q \in Windows("pop") PROVE FALSE
  <2>1. q \in Poppers /\ HasWindow(q)
    BY Numbers DEF Windows
  <2>2. QED
    BY <1>0, <2>1 DEF LayoutAlone, HasWindow
<1>3. \A q \in Procs : ~HasWindow(q)
  BY <1>1, <1>2, Numbers DEF Windows, Sides
<1>4. off(ReservedHead) = 0
  <2>1. Windows("pop") = {}
    BY <1>2
  <2>2. QED
    BY <1>0, <2>1, NoWindows DEF base, top
<1>5. ReservedHead = Head
  BY <1>0, <1>4, DistZero, SizeType DEF off, Dist, Typed
<1>6. QED
  BY <1>3, <1>5

(* The data have been moved into a ring of N slots.                        *)
LEMMA MovedData ==
  ASSUME Locked, Locked', LayoutInv, NEW p \in Procs, compactQueue(p),
         \A q \in Procs : ~HasWindow(q), NEW N \in MinNum .. MaxNum,
         numelm' = [numelm EXCEPT ![p] = N],
         ReservedHead' = Head', Tail' = ReservedTail',
         Head' \in 0 .. N - 1, ReservedTail' \in 0 .. N - 1,
         slots' = [k \in 0 .. getNumFilledElements(N, Head', ReservedTail') - 1 |->
                     advance(N, Head', k)],
         ReservedHead = Head, Tail = ReservedTail,
         getNumFilledElements(N, Head', ReservedTail') = off(ReservedTail)
  PROVE  LayoutInv' /\ Unmoved
<1>0. /\ step(p) /\ Typed /\ Requested /\ Ordered /\ Placed /\ Remembers(p)
      /\ pc \in [Procs -> PCs] /\ N \in Nat /\ N \in 0 .. MaxNum
  BY Numbers DEF step, LayoutInv, Locked, PlacesMatch, Remembered
<1>1. /\ goto(p, "compacting", "compacted") /\ pc[p] = "compacting" /\ pc'[p] = "compacted"
      /\ UNCHANGED <<NumElm, lock, request, r_tail, head>>
  BY <1>0 DEF compactQueue, goto
<1>2. \A q \in Procs : q # p => pc'[q] = pc[q]
  BY <1>0, <1>1 DEF goto
<1>3. numelm'[p] = N /\ numelm' \in [Procs -> 0 .. MaxNum] /\ Moving(p)'
  BY <1>0, <1>1 DEF Typed, Moving
<1>4. Size' = N
  BY <1>3, SizeIsNext DEF Locked, SizeBelongs
<1>5. \A q \in Procs : ~HasWindow(q)'
  BY <1>1, <1>2 DEF HasWindow
<1>6. \A q \in Procs : Moving(q)' => q = p
  BY <1>1, <1>2 DEF Moving, Locked, LayoutAlone, Resizing
<1>7. Typed'
  <2>1. {Head, ReservedHead, Tail, ReservedTail}' \subseteq 0 .. Size' - 1
    BY <1>4
  <2>2. UNCHANGED <<NumElm, NewIndex, num, peek, win, r_tail, head>>
    BY <1>1 DEF request
  <2>3. QED
    BY <1>0, <1>3, <1>5, <1>6, <2>1, <2>2 DEF Typed
<1>8. off(ReservedHead)' = 0 /\ off(Tail)' = off(ReservedTail)' /\ off(Tail)' \in 0 .. N - 1
      /\ off(ReservedTail)' = getNumFilledElements(N, Head', ReservedTail')
  <2>1. getNumFilledElements(N, Head', ReservedTail') \in 0 .. N - 1
    BY <1>0, DistType
  <2>2. getNumFilledElements(N, Head', Head') = 0
    BY <1>0, DistZero
  <2>3. QED
    BY <1>4, <2>1, <2>2 DEF off, Dist
<1>9. \A s \in Sides : Windows(s)' = {} /\ base(s)' = top(s)' /\ base(s)' \in Int
  BY <1>5, <1>8 DEF Windows, base, top
<1>10. Ordered'
  <2>1. \A s \in Sides : Tiled(s)'
    BY <1>9 DEF Tiled
  <2>2. QED
    BY <1>5, <1>8, <2>1, Numbers DEF Ordered
<1>11. Placed'
  BY <1>4, <1>5, <1>8 DEF Placed
<1>12. Requested'
  BY <1>0, <1>1, <1>2 DEF Requested, Requests, request
<1>13. Remembers(p)'
  BY <1>0, <1>1 DEF Remembers, request
<1>14. Remembered'
  BY <1>0, <1>13, OthersRemember DEF Remembered
<1>15. Unmoved
  <2>1. off(Head) = 0
    BY <1>0, OffsetType DEF Locked
  <2>2. off(ReservedHead) = 0 /\ off(Tail) = off(ReservedTail)
    BY <2>1
  <2>3. QED
    BY <1>5, <1>8, <2>2 DEF Unmoved
<1>16. QED
  BY <1>7, <1>10, <1>11, <1>12, <1>14, <1>15 DEF LayoutInv

(* compactQueue: one block, or none, is moved, and a slot stays free.      *)
LEMMA CompactStep ==
  ASSUME Locked, Locked', LayoutInv, NEW p \in Procs, compactQueue(p), ~FillsExactly
  PROVE  LayoutInv' /\ Unmoved
<1>0. /\ step(p) /\ Typed /\ Placed /\ Remembers(p) /\ pc \in [Procs -> PCs]
  BY DEF step, LayoutInv, Locked, PlacesMatch, Remembered
<1>1. CASE isResizable
  BY <1>1, NothingToCompact
<1>2. CASE ~isResizable
  <2> DEFINE fits == ReservedTail <= NumElm - Head
             move_num == IF fits THEN ReservedTail ELSE NumElm - Head
             N == resize(calcGrownQSize(NumElm, num[p] + move_num))
             D == getNumFilledElements(NumElm, Head, ReservedTail)
  <2>1. /\ pc[p] = "compacting" /\ numelm' = [numelm EXCEPT ![p] = N]
        /\ IF fits /\ N >= NumElm + move_num THEN appendTailBlock(N) ELSE moveHeadBlock(N)
    BY <1>0, <1>2 DEF compactQueue, goto
  <2>2. Resizing(p) /\ ~Moving(p)
    BY <2>1 DEF Resizing, Moving
  <2>3. Size = NumElm /\ NumElm \in MinNum .. MaxNum /\ NumElm \in Nat /\ num[p] \in Nat
        /\ Head \in 0 .. NumElm - 1 /\ ReservedTail \in 0 .. NumElm - 1
    BY <1>0, <2>2, NoneMoving, Numbers DEF Typed
  <2>4. ReservedTail < Head
    BY <1>2, <2>3 DEF isResizable
  <2>5. Tail = ReservedTail /\ ~exactFit(p)
    BY <1>0, <1>2, <2>1 DEF Remembers, FillsExactly
  <2>6. (\A q \in Procs : ~HasWindow(q)) /\ ReservedHead = Head
    BY <2>1, <2>5, NobodyInside
  <2>7. move_num \in Nat /\ num[p] + move_num \in Nat
    BY <2>3
  <2>8. N \in MinNum .. MaxNum /\ NumElm <= N
    BY <2>3, <2>7, GrownSize
  <2>9. N \in Nat
    BY <2>8, Numbers
  <2>10. slots = [k \in 0 .. D - 1 |-> advance(NumElm, Head, k)]
    BY <1>0, <2>3 DEF Placed, off, Dist
  <2>14. D = off(ReservedTail)
    BY <2>3 DEF off, Dist
  <2>11. CASE fits /\ N >= NumElm + move_num
    <3>1. N # NumElm + ReservedTail
      BY <2>5, <2>11 DEF exactFit
    <3>2. NumElm + ReservedTail < N
      <4> HIDE DEF N
      <4>1. QED
        BY <2>3, <2>9, <2>11, <3>1
    <3>3. /\ Tail' = NumElm + ReservedTail /\ ReservedTail' = NumElm + ReservedTail
          /\ Head' = Head /\ ReservedHead' = Head
          /\ slots' = [k \in DOMAIN slots |->
                         IF slots[k] \in 0 .. ReservedTail - 1 THEN slots[k] + NumElm ELSE slots[k]]
      BY <2>1, <2>6, <2>11 DEF appendTailBlock, move
    <3> HIDE DEF N
    <3>4. getNumFilledElements(N, Head', ReservedTail') = D
      BY <2>3, <2>4, <3>3 DEF getNumFilledElements
    <3>5. \A k \in 0 .. D - 1 :
            (IF advance(NumElm, Head, k) \in 0 .. ReservedTail - 1
             THEN advance(NumElm, Head, k) + NumElm ELSE advance(NumElm, Head, k))
              = advance(N, Head, k)
      BY <2>3, <2>4, <2>9, <3>2, FrontMoves
    <3>6. slots' = [k \in 0 .. D - 1 |-> advance(N, Head, k)]
      <4> HIDE DEF D
      <4>1. QED
        BY <2>10, <3>3, <3>5
    <3>7. Head' \in 0 .. N - 1 /\ ReservedTail' \in 0 .. N - 1
      BY <2>3, <2>8, <2>9, <3>2, <3>3
    <3>8. QED
      BY <2>1, <2>5, <2>6, <2>8, <2>14, <3>3, <3>4, <3>6, <3>7, MovedData
  <2>12. CASE ~(fits /\ N >= NumElm + move_num)
    <3>1. /\ Head' = N - NumElm + Head /\ ReservedHead' = Head'
          /\ Tail' = ReservedTail /\ ReservedTail' = ReservedTail
          /\ slots' = [k \in DOMAIN slots |->
                         IF slots[k] \in Head .. NumElm - 1 THEN slots[k] + (N - NumElm)
                                                            ELSE slots[k]]
      BY <2>1, <2>5, <2>12 DEF moveHeadBlock, move
    <3> HIDE DEF N
    <3>2. getNumFilledElements(N, Head', ReservedTail') = D
      BY <2>3, <2>4, <2>8, <2>9, <3>1 DEF getNumFilledElements
    <3>3. \A k \in 0 .. D - 1 :
            (IF advance(NumElm, Head, k) \in Head .. NumElm - 1
             THEN advance(NumElm, Head, k) + (N - NumElm) ELSE advance(NumElm, Head, k))
              = advance(N, N - NumElm + Head, k)
      BY <2>3, <2>4, <2>8, <2>9, EndMoves
    <3>4. slots' = [k \in 0 .. D - 1 |-> advance(N, Head', k)]
      <4> HIDE DEF D
      <4>1. QED
        BY <2>10, <3>1, <3>3
    <3>5. Head' \in 0 .. N - 1 /\ ReservedTail' \in 0 .. N - 1
      BY <2>3, <2>8, <2>9, <3>1
    <3>6. QED
      BY <2>1, <2>5, <2>6, <2>8, <2>14, <3>1, <3>2, <3>4, <3>5, MovedData
  <2>13. QED
    BY <2>11, <2>12
<1>3. QED
  BY <1>1, <1>2

-----------------------------------------------------------------------------
(* Reservations                                                            *)

(* p, and nobody else, gets a window; nothing else moves.                  *)
Opens(p) ==
  /\ ~HasWindow(p) /\ pc[p] # "idle"
  /\ \A q \in Procs : HasWindow(q)' <=> (HasWindow(q) \/ q = p)
  /\ \A q \in Procs : HasWindow(q) => first(q)' = first(q) /\ num'[q] = num[q]
  /\ num'[p] = num[p] /\ off(Tail)' = off(Tail)

(* The window of a push begins at ReservedTail, which moves to its end.    *)
PushReserved(p) ==
  /\ p \in Pushers /\ Opens(p)
  /\ first(p)' = off(ReservedTail) /\ off(ReservedTail)' = off(ReservedTail) + num[p]
  /\ off(ReservedHead)' = off(ReservedHead)

(* The window of a pop begins at ReservedHead, which moves to its end.     *)
PopReserved(p) ==
  /\ p \in Poppers /\ Opens(p)
  /\ off(ReservedHead) + peek[p] <= off(Tail)
  /\ first(p)' = off(ReservedHead) /\ off(ReservedHead)' = off(ReservedHead) + num[p]
  /\ off(ReservedTail)' = off(ReservedTail)

(* As many slots are in use as the indices say.                            *)
LEMMA OccupiedIs ==
  ASSUME NEW n \in 0 .. MaxNum, DOMAIN slots = 0 .. n - 1
  PROVE  occupied = n
<1>1. \A m \in 0 .. MaxNum : DOMAIN slots = 0 .. m - 1 => m = n
  <2> SUFFICES ASSUME NEW m \in 0 .. MaxNum, 0 .. m - 1 = 0 .. n - 1 PROVE m = n
    OBVIOUS
  <2>1. m \in Nat /\ n \in Nat
    BY Numbers
  <2>2. CASE m < n
    <3>1. m \in 0 .. n - 1 /\ m \notin 0 .. m - 1
      BY <2>1, <2>2
    <3>2. QED
      BY <3>1
  <2>3. CASE n < m
    <3>1. n \in 0 .. m - 1 /\ n \notin 0 .. n - 1
      BY <2>1, <2>3
    <3>2. QED
      BY <3>1
  <2>4. QED
    BY <2>1, <2>2, <2>3
<1>2. QED
  BY <1>1 DEF occupied

(* A window of w elements at the top of n slots in order.                  *)
LEMMA WindowInOrder ==
  ASSUME NEW S \in Nat, NEW h \in 0 .. S - 1, NEW x \in 0 .. S - 1, NEW k \in Nat,
         getNumFilledElements(S, h, x) + k < S
  PROVE  advance(S, x, k) = advance(S, h, getNumFilledElements(S, h, x) + k)
<1>1. CASE h <= x
  BY <1>1 DEF advance, getNumFilledElements
<1>2. CASE x < h
  BY <1>2 DEF advance, getNumFilledElements
<1>3. QED
  BY <1>1, <1>2

(* A granted push: num[p] slots behind the reserved tail.                  *)
LEMMA GrantPush ==
  ASSUME Locked, Locked', LayoutInv, NEW p \in Pushers, step(p),
         NEW from \in {"locked", "grown", "recheck"}, goto(p, from, "unlock"),
         setReservedTail(p, NumElm, ReservedTail),
         off(ReservedTail) + num[p] < NumElm,
         UNCHANGED <<Head, ReservedHead, Tail, NumElm, lock, num, peek, numelm>>,
         r_tail' \in [Procs -> 0 .. MaxNum], head' \in [Procs -> 0 .. MaxNum]
  PROVE  LayoutInv' /\ PushReserved(p)
<1>0. /\ Typed /\ Requested /\ Ordered /\ Placed /\ Requests(p)
      /\ pc \in [Procs -> PCs] /\ p \in Procs /\ p \notin Poppers /\ side(p) = "push"
      /\ "push" \in Sides /\ "pop" \in Sides
  BY Numbers DEF LayoutInv, Locked, PlacesMatch, Requested, Sides
<1>1. /\ pc[p] = from /\ pc'[p] = "unlock" /\ \A q \in Procs : q # p => pc'[q] = pc[q]
  BY <1>0 DEF goto
<1>2. /\ \A q \in Procs : ~Moving(q)
      /\ \A q \in Procs : ~Moving(q)'
  <2>1. LayoutAlone /\ LayoutAlone'
    BY DEF Locked
  <2>2. (Resizing(p) \/ Reserving(p)) /\ ~Moving(p) /\ Reserving(p)' /\ ~Moving(p)'
    BY <1>1 DEF Resizing, Reserving, Moving
  <2>3. \A q \in Procs : (Moving(q) => Resizing(q)) /\ (Moving(q)' => Resizing(q)')
    BY DEF Moving, Resizing
  <2>4. ASSUME NEW q \in Procs PROVE ~Moving(q)
    BY <1>0, <2>1, <2>2, <2>3 DEF LayoutAlone
  <2>5. ASSUME NEW q \in Procs PROVE ~Moving(q)'
    BY <1>0, <2>1, <2>2, <2>3 DEF LayoutAlone
  <2>6. QED
    BY <2>4, <2>5
<1>3. Size = NumElm /\ Size' = NumElm /\ NumElm \in MinNum .. MaxNum /\ NumElm \in Nat
      /\ MaxNum \in Nat
  BY <1>0, <1>2, SizeIs, SizeIsNext, Numbers DEF Locked, SizeBelongs, Typed
<1>4. /\ num[p] \in 1 .. MinNum - 1 /\ num[p] \in Nat
      /\ Head \in 0 .. NumElm - 1 /\ ReservedTail \in 0 .. NumElm - 1
      /\ ReservedHead \in 0 .. NumElm - 1 /\ Tail \in 0 .. NumElm - 1
      /\ num[p] \in 0 .. NumElm - 1
  <2>1. num[p] \in 1 .. MinNum - 1
    BY <1>0, <1>1 DEF Requests
  <2>2. /\ Head \in 0 .. NumElm - 1 /\ ReservedTail \in 0 .. NumElm - 1
        /\ ReservedHead \in 0 .. NumElm - 1 /\ Tail \in 0 .. NumElm - 1
    BY <1>0, <1>3 DEF Typed
  <2>3. num[p] \in 0 .. NumElm - 1 /\ num[p] \in Nat
    BY <1>3, <2>1, Numbers
  <2>4. QED
    BY <2>1, <2>2, <2>3
<1> DEFINE d == off(ReservedTail)
           w == windowAt(NumElm, ReservedTail, num[p])
<1>5. d = getNumFilledElements(NumElm, Head, ReservedTail) /\ d \in 0 .. NumElm - 1
      /\ d + num[p] < NumElm
  BY <1>3, <1>4, DistType DEF off, Dist
<1>6. /\ win' = [win EXCEPT ![p] = w] /\ slots' = appended(w, num[p])
      /\ ReservedTail' = advance(NumElm, ReservedTail, num[p])
      /\ NewIndex' = [NewIndex EXCEPT ![p] = ReservedTail']
  BY <1>0 DEF setReservedTail, Typed
<1>7. ReservedTail' \in 0 .. NumElm - 1
  BY <1>3, <1>4, <1>6, AdvanceInRing
<1>8. off(ReservedTail)' = d + num[p]
  <2>2. getNumFilledElements(NumElm, Head, advance(NumElm, ReservedTail, num[p])) = d + num[p]
    BY <1>3, <1>4, <1>5, DistGrow
  <2>3. QED
    BY <1>3, <1>6, <2>2 DEF off, Dist
<1>9. off(ReservedHead)' = off(ReservedHead) /\ off(Tail)' = off(Tail)
  BY <1>3 DEF off, Dist
<1>10. NewIndex'[p] = ReservedTail' /\ end(p)' = d + num[p] /\ first(p)' = d
  <2>1. NewIndex'[p] = ReservedTail'
    BY <1>0, <1>6 DEF Typed
  <2>2. end(p)' = off(ReservedTail)'
    BY <2>1 DEF end, off, Dist
  <2>3. QED
    BY <1>4, <1>5, <1>8, <2>1, <2>2 DEF first
<1>11. /\ ~HasWindow(p) /\ HasWindow(p)' /\ \A q \in Procs : q # p => (HasWindow(q)' <=> HasWindow(q))
       /\ \A q \in Procs : q # p => /\ NewIndex'[q] = NewIndex[q] /\ num'[q] = num[q]
                                    /\ peek'[q] = peek[q] /\ win'[q] = win[q]
  BY <1>0, <1>1, <1>6 DEF HasWindow, Typed
<1>12. \A q \in Procs : HasWindow(q) => end(q)' = end(q) /\ first(q)' = first(q)
  <2> SUFFICES ASSUME NEW q \in Procs, HasWindow(q) PROVE end(q)' = end(q) /\ first(q)' = first(q)
    OBVIOUS
  <2>1. NewIndex'[q] = NewIndex[q] /\ num'[q] = num[q]
    BY <1>11
  <2>2. end(q)' = end(q)
    BY <1>3, <2>1 DEF end, off, Dist
  <2>3. QED
    BY <2>1, <2>2 DEF first
<1>13. Typed'
  <2>1. NewIndex' \in [Procs -> 0 .. MaxNum]
    BY <1>0, <1>3, <1>6, <1>7 DEF Typed
  <2>2. {Head, ReservedHead, Tail, ReservedTail}' \subseteq 0 .. Size' - 1
    BY <1>3, <1>4, <1>7
  <2>3. \A q \in Procs : HasWindow(q)' => NewIndex'[q] \in 0 .. Size' - 1
    BY <1>0, <1>3, <1>7, <1>10, <1>11 DEF Typed
  <2>4. DOMAIN win' = Procs
    BY <1>0, <1>6 DEF Typed
  <2>5. QED
    BY <1>0, <1>2, <2>1, <2>2, <2>3, <2>4 DEF Typed
<1>14. Tiled("push")'
  <2>1. base("push")' = base("push") /\ top("push") = d /\ top("push")' = top("push") + num[p]
        /\ base("push") \in Int
    BY <1>0, <1>8, <1>9, OffsetType DEF base, top, Locked
  <2>2. p \notin Windows("push") /\ Windows("push")' = Windows("push") \cup {p}
    BY <1>0, <1>11 DEF Windows
  <2>3. \A q \in Windows("push") : /\ first(q) \in Int /\ end(q) \in Int
                                   /\ first(q)' = first(q) /\ end(q)' = end(q)
    BY <1>0, <1>12, WindowNum DEF Windows, Locked
  <2>4. ahead' = ahead /\ p \notin ahead["push"][p]
    BY <1>0 DEF lock, Locked, LineInv, AheadInLine
  <2>5. stage["push"][p] = "holding"
    BY <1>0, <1>1 DEF Locked, PlacesMatch, ownStage
  <2>6. \A q \in Windows("push") : q \in ahead["push"][p] /\ p \notin ahead["push"][q]
    BY <1>0, <2>2, <2>5, AllBefore
  <2>7. Tiled("push") /\ d \in Int
    BY <1>0, <1>5 DEF Ordered
  <2>8. QED
    BY <1>0, <1>4, <1>10, <2>1, <2>2, <2>3, <2>4, <2>6, <2>7, TilesGrow
<1>15. Tiled("pop")'
  <2>1. base("pop")' = base("pop") /\ top("pop")' = top("pop") /\ Windows("pop")' = Windows("pop")
    BY <1>0, <1>9, <1>11, Numbers DEF base, top, Windows
  <2>2. \A q \in Windows("pop") : first(q)' = first(q) /\ end(q)' = end(q)
    BY <1>12 DEF Windows
  <2>3. QED
    BY <1>0, <2>1, <2>2, TilesRest DEF Ordered, lock
<1>16. Ordered'
  <2>1. \A q \in Poppers : HasWindow(q)' => first(q)' + peek'[q] <= off(Tail)'
    BY <1>0, <1>9, <1>11, <1>12, Numbers DEF Ordered
  <2>2. QED
    BY <1>0, <1>9, <1>14, <1>15, <2>1 DEF Ordered, Sides
<1>17. /\ slots' = [k \in 0 .. d + num[p] - 1 |-> advance(NumElm, Head, k)]
       /\ slots = [k \in 0 .. d - 1 |-> advance(NumElm, Head, k)]
  <2>1. slots = [k \in 0 .. d - 1 |-> advance(NumElm, Head, k)]
    BY <1>0, <1>3 DEF Placed
  <2>2. occupied = d
    <3>1. d \in 0 .. MaxNum /\ DOMAIN slots = 0 .. d - 1
      BY <1>3, <1>5, <2>1
    <3>2. QED
      BY <3>1, OccupiedIs
  <2>3. \A k \in 0 .. num[p] - 1 : w[k] = advance(NumElm, Head, d + k)
    <3> SUFFICES ASSUME NEW k \in 0 .. num[p] - 1 PROVE w[k] = advance(NumElm, Head, d + k)
      OBVIOUS
    <3>1. w[k] = advance(NumElm, ReservedTail, k)
      BY DEF windowAt
    <3>2. k \in Nat /\ d + k < NumElm
      <4> HIDE DEF d, w
      <4>1. QED
        BY <1>3, <1>4, <1>5
    <3>3. QED
      BY <1>3, <1>4, <1>5, <3>1, <3>2, WindowInOrder
  <2>4. slots' = [k \in 0 .. d + num[p] - 1 |-> IF k < d THEN slots[k] ELSE w[k - d]]
    BY <1>6, <2>2 DEF appended
  <2>5. ASSUME NEW k \in 0 .. d + num[p] - 1
        PROVE  (IF k < d THEN slots[k] ELSE w[k - d]) = advance(NumElm, Head, k)
    <3> HIDE DEF d, w
    <3>1. CASE k < d
      BY <1>4, <1>5, <2>1, <3>1
    <3>2. CASE ~(k < d)
      <4>1. k - d \in 0 .. num[p] - 1 /\ d + (k - d) = k
        BY <1>4, <1>5, <3>2
      <4>2. QED
        BY <2>3, <3>2, <4>1
    <3>3. QED
      BY <3>1, <3>2
  <2>6. QED
    BY <2>1, <2>4, <2>5
<1>18. Placed'
  <2>1. slots' = [k \in 0 .. off(ReservedTail)' - 1 |-> advance(Size', Head', k)]
    <3>1. off(ReservedTail)' = d + num[p] /\ Size' = NumElm /\ Head' = Head
      BY <1>3, <1>8
    <3>2. slots' = [k \in 0 .. d + num[p] - 1 |-> advance(NumElm, Head, k)]
      BY <1>17
    <3> HIDE DEF d
    <3>3. d \in Int /\ num[p] \in Int /\ off(ReservedTail)' \in Int
      BY <1>3, <1>4, <1>5, <3>1
    <3>4. 0 .. off(ReservedTail)' - 1 = 0 .. d + num[p] - 1
      BY <3>1, <3>3
    <3>5. [k \in 0 .. off(ReservedTail)' - 1 |-> advance(Size', Head', k)]
            = [k \in 0 .. d + num[p] - 1 |-> advance(NumElm, Head, k)]
      BY <3>1, <3>4
    <3>6. QED
      BY <3>2, <3>5
  <2>2. ASSUME NEW q \in Procs, HasWindow(q)'
        PROVE  win'[q] = [k \in 0 .. (IF q \in Pushers THEN num'[q] ELSE peek'[q]) - 1 |->
                            slots'[first(q)' + k]]
    <3>1. CASE q = p
      <4>1. win'[p] = w /\ num'[p] = num[p]
        BY <1>0, <1>6 DEF Typed
      <4>2. \A k \in 0 .. num[p] - 1 : slots'[first(p)' + k] = advance(NumElm, ReservedTail, k)
        <5> SUFFICES ASSUME NEW k \in 0 .. num[p] - 1
                     PROVE  slots'[first(p)' + k] = advance(NumElm, ReservedTail, k)
          OBVIOUS
        <5>1. k \in Nat /\ d + k < NumElm /\ d + k \in 0 .. d + num[p] - 1
          <6> HIDE DEF d, w
          <6>1. QED
            BY <1>3, <1>4, <1>5
        <5>2. slots'[d + k] = advance(NumElm, Head, d + k)
          BY <1>17, <5>1
        <5>3. QED
          BY <1>3, <1>4, <1>5, <1>10, <5>1, <5>2, WindowInOrder
      <4>3. QED
        BY <3>1, <4>1, <4>2 DEF windowAt
    <3>2. CASE q # p
      <4>1. HasWindow(q) /\ first(q)' = first(q) /\ win'[q] = win[q] /\ num'[q] = num[q]
            /\ peek'[q] = peek[q]
        BY <1>11, <1>12, <2>2, <3>2
      <4> DEFINE n == IF q \in Pushers THEN num[q] ELSE peek[q]
      <4>2. win[q] = [k \in 0 .. n - 1 |-> slots[first(q) + k]]
        BY <1>0, <4>1 DEF Placed
      <4>3. n \in Nat /\ first(q) \in Nat /\ first(q) + n <= d
        BY <1>0, <4>1, WindowsFit DEF Locked
      <4>4. \A k \in 0 .. n - 1 : slots'[first(q) + k] = slots[first(q) + k]
        <5> HIDE DEF n, d
        <5> SUFFICES ASSUME NEW k \in 0 .. n - 1
                     PROVE  slots'[first(q) + k] = slots[first(q) + k]
          OBVIOUS
        <5>1. first(q) + k \in 0 .. d - 1 /\ first(q) + k \in 0 .. d + num[p] - 1
          BY <1>4, <1>5, <4>3
        <5>2. QED
          BY <1>17, <5>1
      <4>5. QED
        BY <4>1, <4>2, <4>4
    <3>3. QED
      BY <3>1, <3>2
  <2>3. QED
    BY <2>1, <2>2 DEF Placed
<1>19. Requested'
  BY <1>0, <1>1 DEF Requested, Requests
<1>20. Remembers(p)'
  BY <1>1 DEF Remembers
<1>21. Remembered'
  BY <1>0, <1>20, OthersRemember DEF Remembered
<1>22. PushReserved(p)
  <2>1. pc[p] # "idle"
    BY <1>1
  <2>2. num'[p] = num[p] /\ \A q \in Procs : num'[q] = num[q]
    OBVIOUS
  <2>3. Opens(p)
    BY <1>9, <1>11, <1>12, <2>1, <2>2 DEF Opens
  <2>4. QED
    BY <1>8, <1>9, <1>10, <2>3 DEF PushReserved
<1>23. QED
  BY <1>13, <1>16, <1>18, <1>19, <1>21, <1>22 DEF LayoutInv

(* There is room at once.                                                  *)
LEMMA RoomStep ==
  ASSUME Locked, Locked', LayoutInv, NEW p \in Procs, reservePush(p),
         haveEnoughRoom(NumElm, ReservedTail, Head, num[p])
  PROVE  LayoutInv' /\ PushReserved(p)
<1>0. /\ step(p) /\ Typed /\ pc \in [Procs -> PCs] /\ Requests(p) /\ p \in Pushers
  BY DEF step, LayoutInv, Locked, PlacesMatch, Requested, reservePush
<1>1. /\ goto(p, "locked", "unlock") /\ setReservedTail(p, NumElm, ReservedTail)
      /\ UNCHANGED <<r_tail, head>>
      /\ UNCHANGED <<Head, ReservedHead, Tail, NumElm, lock, num, peek, numelm>>
  BY DEF reservePush
<1>2. pc[p] = "locked" /\ num[p] \in 1 .. MinNum - 1
  BY <1>0, <1>1 DEF goto, Requests
<1>3. \A q \in Procs : ~Moving(q)
  <2>1. Reserving(p) /\ ~Moving(p)
    BY <1>0, <1>2 DEF Reserving, Moving
  <2>2. \A q \in Procs : Moving(q) => Resizing(q)
    BY DEF Moving, Resizing
  <2>3. QED
    BY <2>1, <2>2 DEF Locked, LayoutAlone
<1>4. Size = NumElm
  BY <1>3, SizeIs DEF Locked, SizeBelongs
<1>5. NumElm \in Nat /\ Head \in 0 .. NumElm - 1 /\ ReservedTail \in 0 .. NumElm - 1
      /\ num[p] \in Nat \ {0}
  BY <1>0, <1>2, <1>4, Numbers DEF Typed
<1>6. off(ReservedTail) + num[p] < NumElm
  BY <1>4, <1>5, RoomIsDistance DEF off, Dist
<1>7. r_tail' \in [Procs -> 0 .. MaxNum] /\ head' \in [Procs -> 0 .. MaxNum]
  BY <1>0, <1>1 DEF Typed
<1>8. QED
  BY <1>0, <1>1, <1>6, <1>7, GrantPush

(* There is room in the ring that has been grown behind its data, whatever *)
(* Head was when the call looked.                                          *)
LEMMA RoomAtLastStep ==
  ASSUME Locked, Locked', LayoutInv, NEW p \in Procs, recheckRoom(p),
         haveEnoughRoom(NumElm, r_tail[p], head[p], num[p])
  PROVE  LayoutInv' /\ PushReserved(p)
<1>0. /\ step(p) /\ Typed /\ pc \in [Procs -> PCs] /\ Requests(p) /\ Remembers(p)
      /\ 0 \in 0 .. MaxNum
  BY Numbers DEF step, LayoutInv, Locked, PlacesMatch, Requested, Remembered
<1>1. PICK from \in {"grown", "recheck"} : goto(p, from, "unlock")
  BY DEF recheckRoom
<1>2. /\ setReservedTail(p, NumElm, r_tail[p])
      /\ r_tail' = [r_tail EXCEPT ![p] = 0] /\ head' = [head EXCEPT ![p] = 0]
      /\ UNCHANGED <<Head, ReservedHead, Tail, NumElm, lock, num, peek, numelm>>
  BY DEF recheckRoom
<1>3. pc[p] = from /\ num[p] \in 1 .. MinNum - 1
  BY <1>0, <1>1 DEF goto, Requests
<1>4. Resizing(p) /\ ~Moving(p)
  BY <1>1, <1>3 DEF Resizing, Moving
<1>5. Size = NumElm
  BY <1>4, NoneMoving
<1>6. /\ NumElm \in Nat /\ Head \in 0 .. NumElm - 1 /\ ReservedTail \in 0 .. NumElm - 1
      /\ num[p] \in Nat /\ r_tail[p] \in Nat /\ head[p] \in Nat
  BY <1>0, <1>3, <1>5, Numbers DEF Typed
<1>7. ~(r_tail[p] < head[p] /\ head[p] <= r_tail[p] + num[p])
  BY <1>6 DEF haveEnoughRoom
<1>8. head[p] <= Head /\ Head <= ReservedTail /\ r_tail[p] = ReservedTail
  BY <1>0, <1>1, <1>3, <1>6, <1>7 DEF Remembers
<1>9. off(ReservedTail) + num[p] < NumElm
  <2>1. off(ReservedTail) = ReservedTail - Head
    BY <1>5, <1>8 DEF off, Dist, getNumFilledElements
  <2>2. ReservedTail - Head + num[p] < NumElm
    BY <1>6, <1>8 DEF haveEnoughRoom
  <2>3. QED
    BY <2>1, <2>2
<1>10. p \in Pushers
  BY <1>1, <1>3 DEF Locked, PlacesMatch, PushPlaces
<1>11. r_tail' \in [Procs -> 0 .. MaxNum] /\ head' \in [Procs -> 0 .. MaxNum]
  BY <1>0, <1>2 DEF Typed
<1>12. QED
  BY <1>0, <1>1, <1>2, <1>8, <1>9, <1>10, <1>11, GrantPush

(* A granted pop: num[p] slots behind the reserved head, peek[p] to look   *)
(* at.                                                                     *)
LEMMA DataStep ==
  ASSUME Locked, Locked', LayoutInv, NEW p \in Procs, reservePeekPop(p), numelm[p] = Size,
         haveEnoughData(numelm[p], ReservedHead, Tail, peek[p])
  PROVE  LayoutInv' /\ PopReserved(p)
<1>0. /\ step(p) /\ Typed /\ Requested /\ Ordered /\ Placed /\ Requests(p)
      /\ Remembers(p) /\ pc \in [Procs -> PCs] /\ 0 \in 0 .. MaxNum
      /\ "push" \in Sides /\ "pop" \in Sides
  BY Numbers DEF step, LayoutInv, Locked, PlacesMatch, Requested, Remembered, Sides
<1>1. /\ goto(p, "sized", "shrink") /\ pc[p] = "sized" /\ pc'[p] = "shrink"
      /\ \A q \in Procs : q # p => pc'[q] = pc[q]
  BY <1>0 DEF reservePeekPop, goto
<1>2. p \in Poppers /\ p \notin Pushers /\ side(p) = "pop"
  BY <1>1, Numbers DEF Locked, PlacesMatch, PopPlaces
<1>3. \A q \in Procs : Moving(q)' <=> Moving(q)
  BY <1>1 DEF Moving
<1>4. /\ win' = [win EXCEPT ![p] = windowAt(Size, ReservedHead, peek[p])]
      /\ ReservedHead' = advance(Size, ReservedHead, num[p])
      /\ NewIndex' = [NewIndex EXCEPT ![p] = ReservedHead']
      /\ numelm' = [numelm EXCEPT ![p] = 0]
      /\ UNCHANGED <<Head, Tail, ReservedTail, NumElm, num, peek, r_tail, head, slots, ahead>>
  BY DEF reservePeekPop, lock
<1>5. Size' = Size /\ Size \in MinNum .. MaxNum /\ Size \in Nat /\ MaxNum \in Nat
  <2>1. \A q \in Procs : Moving(q) => numelm'[q] = numelm[q]
    BY <1>0, <1>1, <1>4 DEF Moving, Typed
  <2>2. Size' = Size
    BY <1>3, <1>4, <2>1, SizeKept
  <2>3. QED
    BY <1>0, <2>2, SizeType, Numbers DEF Locked
<1>6. /\ Head \in 0 .. Size - 1 /\ ReservedTail \in 0 .. Size - 1
      /\ ReservedHead \in 0 .. Size - 1 /\ Tail \in 0 .. Size - 1
  BY <1>0, <1>5 DEF Typed
<1>7. /\ num[p] \in 1 .. peek[p] /\ peek[p] \in 1 .. MinNum - 1 /\ peek[p] \in Nat /\ num[p] \in Nat
      /\ num[p] \in 0 .. Size - 1
  <2>1. PICK r \in PopRequests : peek[p] = r[1] /\ num[p] = r[2]
    BY <1>0, <1>1, <1>2 DEF Requests
  <2>2. r[1] \in 1 .. MinNum - 1 /\ r[2] \in 1 .. r[1]
    BY Numbers
  <2>3. QED
    BY <1>5, <2>1, <2>2, Numbers
<1> DEFINE e == off(ReservedHead)
           t == off(Tail)
           w == windowAt(Size, ReservedHead, peek[p])
<1>8. /\ e = getNumFilledElements(Size, Head, ReservedHead) /\ e \in 0 .. Size - 1
      /\ t = getNumFilledElements(Size, Head, Tail) /\ t \in 0 .. Size - 1
      /\ e <= t
  BY <1>0, <1>5, <1>6, DistType DEF off, Dist, Ordered
<1>9. e + peek[p] <= t
  <2>1. getNumFilledElements(Size, ReservedHead, Tail) = t - e
    BY <1>5, <1>6, <1>8, DistBetween
  <2>2. getNumFilledElements(Size, ReservedHead, Tail) >= peek[p]
    <3>1. peek[p] \in Nat \ {0}
      BY <1>7
    <3>2. QED
      BY <1>3, <1>5, <1>6, <3>1, DataIsDistance
  <2> HIDE DEF e, t
  <2>3. QED
    BY <1>5, <1>7, <1>8, <2>1, <2>2
<1>10. off(ReservedTail) \in 0 .. Size - 1 /\ t <= off(ReservedTail)
  BY <1>5, <1>6, DistType, InUse DEF off, Dist
<1>11. ReservedHead' \in 0 .. Size - 1
  BY <1>4, <1>5, <1>6, <1>7, AdvanceInRing
<1>12. off(ReservedHead)' = e + num[p] /\ e + num[p] <= t
  <2>1. e + num[p] <= t /\ e + num[p] < Size
    <3> HIDE DEF e, t
    <3>1. QED
      BY <1>5, <1>7, <1>8, <1>9
  <2>2. getNumFilledElements(Size, Head, advance(Size, ReservedHead, num[p])) = e + num[p]
    BY <1>5, <1>6, <1>7, <1>8, <2>1, DistGrow
  <2>3. QED
    BY <1>4, <1>5, <2>1, <2>2 DEF off, Dist
<1>13. off(Tail)' = off(Tail) /\ off(ReservedTail)' = off(ReservedTail)
  BY <1>4, <1>5 DEF off, Dist
<1>14. NewIndex'[p] = ReservedHead' /\ end(p)' = e + num[p] /\ first(p)' = e
  <2>1. NewIndex'[p] = ReservedHead'
    BY <1>0, <1>4 DEF Typed
  <2>2. end(p)' = off(ReservedHead)'
    BY <2>1 DEF end, off, Dist
  <2>3. QED
    BY <1>4, <1>7, <1>8, <1>12, <2>1, <2>2 DEF first
<1>15. /\ ~HasWindow(p) /\ HasWindow(p)' /\ \A q \in Procs : q # p => (HasWindow(q)' <=> HasWindow(q))
       /\ \A q \in Procs : q # p => /\ NewIndex'[q] = NewIndex[q] /\ num'[q] = num[q]
                                    /\ peek'[q] = peek[q] /\ win'[q] = win[q]
  BY <1>0, <1>1, <1>4 DEF HasWindow, Typed
<1>16. \A q \in Procs : HasWindow(q) => end(q)' = end(q) /\ first(q)' = first(q)
  <2> SUFFICES ASSUME NEW q \in Procs, HasWindow(q) PROVE end(q)' = end(q) /\ first(q)' = first(q)
    OBVIOUS
  <2>1. NewIndex'[q] = NewIndex[q] /\ num'[q] = num[q]
    BY <1>15
  <2>2. end(q)' = end(q)
    BY <1>4, <1>5, <2>1 DEF end, off, Dist
  <2>3. QED
    BY <2>1, <2>2 DEF first
<1>17. Typed'
  <2>1. NewIndex' \in [Procs -> 0 .. MaxNum] /\ numelm' \in [Procs -> 0 .. MaxNum]
    BY <1>0, <1>4, <1>5, <1>11 DEF Typed
  <2>2. {Head, ReservedHead, Tail, ReservedTail}' \subseteq 0 .. Size' - 1
    BY <1>4, <1>5, <1>6, <1>11
  <2>3. \A q \in Procs : HasWindow(q)' => NewIndex'[q] \in 0 .. Size' - 1
    BY <1>0, <1>5, <1>11, <1>14, <1>15 DEF Typed
  <2>4. DOMAIN win' = Procs
    BY <1>0, <1>4 DEF Typed
  <2>5. \A q \in Procs : Moving(q)' => numelm'[q] \in MinNum .. MaxNum
    BY <1>0, <1>1, <1>3, <1>4 DEF Moving, Typed
  <2>6. QED
    BY <1>0, <1>4, <2>1, <2>2, <2>3, <2>4, <2>5 DEF Typed
<1>18. Tiled("pop")'
  <2>1. base("pop")' = base("pop") /\ top("pop") = e /\ top("pop")' = top("pop") + num[p]
        /\ base("pop") \in Int
    BY <1>0, <1>12, OffsetType DEF base, top, Locked
  <2>2. p \notin Windows("pop") /\ Windows("pop")' = Windows("pop") \cup {p}
    BY <1>0, <1>2, <1>15 DEF Windows
  <2>3. \A q \in Windows("pop") : /\ first(q) \in Int /\ end(q) \in Int
                                  /\ first(q)' = first(q) /\ end(q)' = end(q)
    BY <1>0, <1>16, WindowNum DEF Windows, Locked
  <2>4. ahead' = ahead /\ p \notin ahead["pop"][p]
    BY <1>0, <1>4 DEF Locked, LineInv, AheadInLine
  <2>5. stage["pop"][p] = "holding"
    BY <1>0, <1>1, <1>2 DEF Locked, PlacesMatch, ownStage
  <2>6. \A q \in Windows("pop") : q \in ahead["pop"][p] /\ p \notin ahead["pop"][q]
    BY <1>0, <1>2, <2>2, <2>5, AllBefore
  <2>7. Tiled("pop") /\ e \in Int
    BY <1>0, <1>8 DEF Ordered
  <2>8. QED
    BY <1>0, <1>7, <1>14, <2>1, <2>2, <2>3, <2>4, <2>6, <2>7, TilesGrow
<1>19. Tiled("push")'
  <2>1. base("push")' = base("push") /\ top("push")' = top("push") /\ Windows("push")' = Windows("push")
    BY <1>0, <1>2, <1>13, <1>15, Numbers DEF base, top, Windows
  <2>2. \A q \in Windows("push") : first(q)' = first(q) /\ end(q)' = end(q)
    BY <1>16 DEF Windows
  <2>3. QED
    BY <1>0, <1>4, <2>1, <2>2, TilesRest DEF Ordered
<1>20. Ordered'
  <2>1. ASSUME NEW q \in Poppers, HasWindow(q)' PROVE first(q)' + peek'[q] <= off(Tail)'
    <3>1. CASE q = p
      BY <1>4, <1>9, <1>13, <1>14, <3>1
    <3>2. CASE q # p
      BY <1>0, <1>13, <1>15, <1>16, <2>1, <3>2, Numbers DEF Ordered
    <3>3. QED
      BY <3>1, <3>2
  <2>2. \A s \in Sides : Tiled(s)'
    BY <1>18, <1>19 DEF Sides
  <2>3. QED
    BY <1>12, <1>13, <2>1, <2>2 DEF Ordered
<1>21. Placed'
  <2>1. slots = [k \in 0 .. off(ReservedTail) - 1 |-> advance(Size, Head, k)]
    BY <1>0, <1>5 DEF Placed
  <2>2. slots' = [k \in 0 .. off(ReservedTail)' - 1 |-> advance(Size', Head', k)]
    BY <1>4, <1>5, <1>13, <2>1
  <2>3. ASSUME NEW q \in Procs, HasWindow(q)'
        PROVE  win'[q] = [k \in 0 .. (IF q \in Pushers THEN num'[q] ELSE peek'[q]) - 1 |->
                            slots'[first(q)' + k]]
    <3>1. CASE q = p
      <4>1. win'[p] = w /\ peek'[p] = peek[p] /\ first(p)' = e /\ slots' = slots
        BY <1>0, <1>4, <1>14 DEF Typed
      <4>2. \A k \in 0 .. peek[p] - 1 : slots[e + k] = advance(Size, ReservedHead, k)
        <5> SUFFICES ASSUME NEW k \in 0 .. peek[p] - 1
                     PROVE  slots[e + k] = advance(Size, ReservedHead, k)
          OBVIOUS
        <5>1. k \in Nat /\ e + k < Size /\ e + k \in 0 .. off(ReservedTail) - 1
          <6> HIDE DEF e, t
          <6>1. QED
            BY <1>5, <1>7, <1>8, <1>9, <1>10
        <5>2. slots[e + k] = advance(Size, Head, e + k)
          BY <2>1, <5>1
        <5>3. QED
          BY <1>5, <1>6, <1>8, <5>1, <5>2, WindowInOrder
      <4>3. QED
        BY <1>2, <3>1, <4>1, <4>2 DEF windowAt
    <3>2. CASE q # p
      <4>1. HasWindow(q) /\ first(q)' = first(q) /\ win'[q] = win[q] /\ num'[q] = num[q]
            /\ peek'[q] = peek[q] /\ slots' = slots
        BY <1>4, <1>15, <1>16, <2>3, <3>2
      <4>2. win[q] = [k \in 0 .. (IF q \in Pushers THEN num[q] ELSE peek[q]) - 1 |->
                        slots[first(q) + k]]
        BY <1>0, <4>1 DEF Placed
      <4>3. QED
        BY <4>1, <4>2
    <3>3. QED
      BY <3>1, <3>2
  <2>4. QED
    BY <2>2, <2>3 DEF Placed
<1>22. Requested'
  BY <1>0, <1>1, <1>4 DEF Requested, Requests
<1>23. Remembers(p)'
  BY <1>1 DEF Remembers
<1>24. Remembered'
  BY <1>0, <1>23, OthersRemember DEF Remembered
<1>25. PopReserved(p)
  <2>1. pc[p] # "idle" /\ \A q \in Procs : num'[q] = num[q]
    BY <1>1, <1>4
  <2>2. Opens(p)
    BY <1>0, <1>13, <1>15, <1>16, <2>1, Numbers DEF Opens
  <2>3. QED
    BY <1>2, <1>9, <1>12, <1>13, <1>14, <2>2 DEF PopReserved
<1>26. QED
  BY <1>17, <1>20, <1>21, <1>22, <1>24, <1>25 DEF LayoutInv

-----------------------------------------------------------------------------
(* Commits                                                                 *)

(* All windows of a side come d closer to Head.                            *)
LEMMA TilesShift ==
  ASSUME NEW s \in Sides, Tiled(s), NEW d \in Nat,
         base(s) \in Int, top(s) \in Int,
         base(s)' = base(s) - d, top(s)' = top(s) - d,
         Windows(s)' = Windows(s),
         \A q \in Windows(s) : first(q) \in Int /\ end(q) \in Int,
         \A q \in Windows(s) : first(q)' = first(q) - d /\ end(q)' = end(q) - d,
         ahead' = ahead
  PROVE  Tiled(s)'
<1>1. base(s)' <= top(s)'
  BY DEF Tiled
<1>2. ASSUME NEW q \in Windows(s)'
      PROVE  /\ base(s)' <= first(q)' /\ end(q)' <= top(s)'
             /\ \A r \in Windows(s)' : r \in ahead'[s][q] => end(r)' <= first(q)'
             /\ first(q)' = base(s)'
                \/ \E r \in Windows(s)' : r \in ahead'[s][q] /\ end(r)' = first(q)'
  BY <1>2 DEF Tiled
<1>3. top(s)' = base(s)' \/ \E q \in Windows(s)' : end(q)' = top(s)'
  BY DEF Tiled
<1>4. QED
  BY <1>1, <1>2, <1>3 DEF Tiled

(* The window of p, the first of its side, is closed.                      *)
Closes(p) ==
  /\ HasWindow(p)
  /\ \A q \in Procs : HasWindow(q)' <=> (HasWindow(q) /\ q # p)
  /\ \A q \in Procs : HasWindow(q) => num'[q] = num[q]

(* A push is committed: Tail moves to the end of its window.               *)
PushCommitted(p) ==
  /\ p \in Pushers /\ Closes(p)
  /\ first(p) = off(Tail) /\ off(Tail)' = off(Tail) + num[p]
  /\ \A q \in Procs : HasWindow(q)' => first(q)' = first(q)
  /\ off(ReservedHead)' = off(ReservedHead) /\ off(ReservedTail)' = off(ReservedTail)

(* A pop is committed: Head moves to the end of its window, so that all    *)
(* other distances are shorter.                                            *)
PopCommitted(p) ==
  /\ p \in Poppers /\ Closes(p)
  /\ first(p) = 0
  /\ \A q \in Procs : HasWindow(q)' => first(q)' = first(q) - num[p]
  /\ off(ReservedHead)' = off(ReservedHead) - num[p] /\ off(Tail)' = off(Tail) - num[p]
  /\ off(ReservedTail)' = off(ReservedTail) - num[p]

(* What both commits do.                                                   *)
LEMMA CommitMoves ==
  ASSUME Locked, Locked', NEW p \in Procs, goto(p, "reserved", "leave"),
         UNCHANGED <<NumElm, request, locals>>
  PROVE  /\ Size' = Size /\ ~HasWindow(p)'
         /\ \A q \in Procs : q # p => (HasWindow(q)' <=> HasWindow(q))
         /\ \A q \in Procs : Moving(q)' <=> Moving(q)
         /\ \A s \in Sides : Windows(s)' = Windows(s) \ {p}
<1>1. /\ pc[p] = "reserved" /\ pc'[p] = "leave" /\ \A q \in Procs : q # p => pc'[q] = pc[q]
  BY DEF goto, Locked, PlacesMatch
<1>2. \A q \in Procs : Moving(q)' <=> Moving(q)
  BY <1>1 DEF Moving
<1>3. Size' = Size
  BY <1>2, SizeKept DEF locals
<1>4. ~HasWindow(p)' /\ \A q \in Procs : q # p => (HasWindow(q)' <=> HasWindow(q))
  BY <1>1 DEF HasWindow
<1>5. QED
  BY <1>2, <1>3, <1>4 DEF Windows

(* A push is committed: its elements are behind Tail no more.              *)
LEMMA CommitPushStep ==
  ASSUME Locked, Locked', LayoutInv, NEW p \in Procs, commitPush(p)
  PROVE  LayoutInv' /\ PushCommitted(p)
<1>0. /\ step(p) /\ Typed /\ Requested /\ Ordered /\ Placed /\ LayoutAlone
      /\ pc \in [Procs -> PCs] /\ Size \in Nat
      /\ "push" \in Sides /\ "pop" \in Sides
  BY SizeType DEF step, LayoutInv, Locked, PlacesMatch, Sides
<1>1. /\ goto(p, "reserved", "leave") /\ pc[p] = "reserved" /\ pc'[p] = "leave"
      /\ Tail' = NewIndex[p]
      /\ UNCHANGED <<Head, ReservedHead, ReservedTail, NumElm, lock, request, locals, slots>>
  BY <1>0 DEF commitPush, goto
<1>2. UNCHANGED <<NewIndex, num, peek, win, numelm, r_tail, head, ahead>>
  BY <1>1 DEF request, locals, lock
<1>3. /\ Size' = Size /\ ~HasWindow(p)'
      /\ \A q \in Procs : q # p => (HasWindow(q)' <=> HasWindow(q))
      /\ \A q \in Procs : Moving(q)' <=> Moving(q)
      /\ \A s \in Sides : Windows(s)' = Windows(s) \ {p}
  BY <1>1, CommitMoves
<1>4. /\ p \in Pushers /\ HasWindow(p) /\ p \in Windows("push")
      /\ ahead["push"][p] = {} /\ Tiled("push") /\ Tiled("pop")
      /\ first(p) = off(Tail) /\ off(Tail) < end(p) /\ end(p) <= off(ReservedTail)
  BY <1>0, CommitPushFacts DEF Ordered
<1>5. /\ off(Tail)' = end(p) /\ off(ReservedHead)' = off(ReservedHead)
      /\ off(ReservedTail)' = off(ReservedTail)
  BY <1>1, <1>3 DEF off, Dist, end
<1>6. \A q \in Procs : end(q)' = end(q) /\ first(q)' = first(q)
  BY <1>1, <1>2, <1>3 DEF off, Dist, end, first
<1>7. /\ off(Tail) \in Int /\ off(ReservedTail) \in Int /\ off(ReservedHead) \in Int
      /\ end(p) \in Int
  BY <1>0, <1>4, OffsetType
<1>8. Typed'
  <2>1. {Head, ReservedHead, Tail, ReservedTail}' \subseteq 0 .. Size' - 1
    BY <1>0, <1>1, <1>3, <1>4 DEF Typed
  <2>2. \A q \in Procs : HasWindow(q)' => NewIndex'[q] \in 0 .. Size' - 1
    BY <1>0, <1>2, <1>3 DEF Typed
  <2>3. QED
    BY <1>0, <1>1, <1>2, <1>3, <2>1, <2>2 DEF Typed
<1>9. Tiled("push")'
  <2>1. base("push") \in Int /\ top("push") \in Int
        /\ base("push")' = end(p) - 0 /\ top("push")' = top("push") - 0
    BY <1>0, <1>5, <1>7 DEF base, top
  <2>2. Windows("push")' = Windows("push") \ {p}
    BY <1>0, <1>3
  <2>3. \A q \in Windows("push") : first(q) \in Int /\ end(q) \in Int
    BY <1>0, WindowNum DEF Windows
  <2>4. \A q \in Windows("push") \ {p} : first(q)' = first(q) - 0 /\ end(q)' = end(q) - 0
    BY <1>6, <2>3 DEF Windows
  <2>5. \A q \in Windows("push") \ {p} : p \in ahead["push"][q]
    BY <1>0, <1>4, FirstBefore
  <2>6. first(p) < end(p) /\ 0 \in Nat
    BY <1>4
  <2>7. QED
    BY <1>0, <1>2, <1>4, <2>1, <2>2, <2>3, <2>4, <2>5, <2>6, TilesShrink
<1>10. Tiled("pop")'
  <2>1. p \notin Windows("pop")
    BY <1>4, Numbers DEF Windows
  <2>2. Windows("pop")' = Windows("pop") /\ base("pop")' = base("pop") /\ top("pop")' = top("pop")
    BY <1>0, <1>3, <1>5, <2>1 DEF base, top
  <2>3. \A q \in Windows("pop") : first(q)' = first(q) /\ end(q)' = end(q)
    BY <1>6 DEF Windows
  <2>4. QED
    BY <1>0, <1>2, <1>4, <2>2, <2>3, TilesRest
<1>11. Ordered'
  <2>1. off(ReservedHead)' <= off(Tail)'
    BY <1>0, <1>4, <1>5, <1>7 DEF Ordered
  <2>2. ASSUME NEW q \in Poppers, HasWindow(q)' PROVE first(q)' + peek'[q] <= off(Tail)'
    <3>1. q \in Procs /\ HasWindow(q) /\ first(q) + peek[q] <= off(Tail)
      BY <1>0, <1>3, <2>2, Numbers DEF Ordered
    <3>2. first(q) \in Int /\ peek[q] \in Int
      BY <1>0, <2>2, <3>1, WindowNum, Numbers
    <3>3. QED
      BY <1>2, <1>4, <1>5, <1>6, <1>7, <3>1, <3>2
  <2>3. QED
    BY <1>9, <1>10, <2>1, <2>2 DEF Ordered, Sides
<1>12. Placed'
  <2>1. slots' = [k \in 0 .. off(ReservedTail)' - 1 |-> advance(Size', Head', k)]
    BY <1>0, <1>1, <1>3, <1>5 DEF Placed
  <2>2. ASSUME NEW q \in Procs, HasWindow(q)'
        PROVE  win'[q] = [k \in 0 .. (IF q \in Pushers THEN num'[q] ELSE peek'[q]) - 1 |->
                            slots'[first(q)' + k]]
    <3>1. win[q] = [k \in 0 .. (IF q \in Pushers THEN num[q] ELSE peek[q]) - 1 |->
                      slots[first(q) + k]]
      BY <1>0, <1>3, <2>2 DEF Placed
    <3>2. first(q)' = first(q) /\ slots' = slots /\ num'[q] = num[q] /\ peek'[q] = peek[q]
          /\ win'[q] = win[q]
      BY <1>1, <1>2, <1>6
    <3>3. QED
      BY <3>1, <3>2
  <2>3. QED
    BY <2>1, <2>2 DEF Placed
<1>13. Requested'
  <2>1. \A q \in Procs : pc'[q] # "idle" => pc[q] # "idle"
    BY <1>0, <1>1 DEF goto
  <2>2. QED
    BY <1>0, <1>2, <2>1 DEF Requested, Requests
<1>14. Remembers(p)'
  BY <1>1 DEF Remembers
<1>15. Remembered'
  BY <1>0, <1>14, OthersRemember DEF Remembered
<1>16. PushCommitted(p)
  <2>1. Closes(p)
    BY <1>2, <1>3, <1>4 DEF Closes
  <2>2. end(p) = first(p) + num[p]
    BY <1>0, <1>4, WindowNum
  <2>3. QED
    BY <1>4, <1>5, <1>6, <2>1, <2>2 DEF PushCommitted
<1>17. QED
  BY <1>8, <1>11, <1>12, <1>13, <1>15, <1>16 DEF LayoutInv

(* A pop is committed: its elements leave the front.                       *)
LEMMA CommitPopStep ==
  ASSUME Locked, Locked', LayoutInv, NEW p \in Procs, commitPeekPop(p)
  PROVE  LayoutInv' /\ PopCommitted(p)
<1>0. /\ step(p) /\ Typed /\ Requested /\ Ordered /\ Placed /\ LayoutAlone
      /\ pc \in [Procs -> PCs] /\ Size \in Nat /\ Size \in MinNum .. MaxNum /\ MaxNum \in Nat
      /\ "push" \in Sides /\ "pop" \in Sides
  BY SizeType, Numbers DEF step, LayoutInv, Locked, PlacesMatch, Sides
<1>1. /\ goto(p, "reserved", "leave") /\ pc[p] = "reserved" /\ pc'[p] = "leave"
      /\ Head' = NewIndex[p]
      /\ slots' = [k \in 0 .. occupied - num[p] - 1 |-> slots[k + num[p]]]
      /\ UNCHANGED <<ReservedHead, Tail, ReservedTail, NumElm, lock, request, locals>>
  BY <1>0 DEF commitPeekPop, goto
<1>2. UNCHANGED <<NewIndex, num, peek, win, numelm, r_tail, head, ahead>>
  BY <1>1 DEF request, locals, lock
<1>3. /\ Size' = Size /\ ~HasWindow(p)'
      /\ \A q \in Procs : q # p => (HasWindow(q)' <=> HasWindow(q))
      /\ \A q \in Procs : Moving(q)' <=> Moving(q)
      /\ \A s \in Sides : Windows(s)' = Windows(s) \ {p}
  BY <1>1, CommitMoves
<1>4. /\ p \in Poppers /\ HasWindow(p) /\ p \in Windows("pop")
      /\ ahead["pop"][p] = {} /\ Tiled("push") /\ Tiled("pop")
      /\ first(p) = 0 /\ end(p) = num[p] /\ 0 < end(p) /\ end(p) <= off(ReservedHead)
      /\ off(ReservedHead) <= off(Tail) /\ off(Tail) <= off(ReservedTail)
  BY <1>0, CommitPopFacts DEF Ordered
<1>5. /\ off(Tail) \in 0 .. Size - 1 /\ off(ReservedTail) \in 0 .. Size - 1
      /\ off(ReservedHead) \in 0 .. Size - 1 /\ end(p) \in 0 .. Size - 1
      /\ num[p] \in Nat /\ num[p] \in 0 .. Size - 1
  BY <1>0, <1>4, OffsetType
<1>6. /\ Head \in 0 .. Size - 1 /\ Head' \in 0 .. Size - 1
      /\ getNumFilledElements(Size, Head, Head') = num[p]
  BY <1>0, <1>1, <1>4 DEF Typed, end, off, Dist
<1>7. ASSUME NEW x \in 0 .. Size - 1, num[p] <= off(x)
      PROVE  getNumFilledElements(Size, Head', x) = off(x) - num[p]
  BY <1>0, <1>6, <1>7, DistBetween DEF off, Dist
<1>8. /\ off(Tail)' = off(Tail) - num[p] /\ off(ReservedHead)' = off(ReservedHead) - num[p]
      /\ off(ReservedTail)' = off(ReservedTail) - num[p]
  <2>1. /\ num[p] <= off(Tail) /\ num[p] <= off(ReservedHead) /\ num[p] <= off(ReservedTail)
    BY <1>4, <1>5
  <2>2. {ReservedHead, Tail, ReservedTail} \subseteq 0 .. Size - 1
    BY <1>0 DEF Typed
  <2>3. QED
    BY <1>1, <1>3, <1>7, <2>1, <2>2 DEF off, Dist
<1>9. ASSUME NEW q \in Procs, HasWindow(q), q # p
      PROVE  /\ num[p] <= first(q) /\ first(q) \in Int /\ end(q) \in Int
             /\ end(q)' = end(q) - num[p] /\ first(q)' = first(q) - num[p]
  <2>1. /\ num[q] \in Nat /\ end(q) \in 0 .. Size - 1 /\ first(q) \in Int
        /\ end(q) = first(q) + num[q]
    BY <1>0, <1>9, WindowNum
  <2>2. num[p] <= first(q)
    <3>1. CASE q \in Windows("pop")
      <4>1. p \in ahead["pop"][q]
        BY <1>0, <1>4, <1>9, <3>1, FirstBefore
      <4>2. QED
        BY <1>4, <3>1, <4>1 DEF Tiled
    <3>2. CASE q \in Windows("push")
      <4>1. off(Tail) <= first(q)
        BY <1>4, <3>2 DEF Tiled, base
      <4>2. QED
        BY <1>4, <1>5, <2>1, <4>1
    <3>3. QED
      BY <1>9, <3>1, <3>2, Numbers DEF Windows, Sides
  <2>3. num[p] <= end(q)
    BY <1>5, <2>1, <2>2
  <2>4. NewIndex[q] \in 0 .. Size - 1 /\ end(q) = off(NewIndex[q])
    BY <1>0, <1>9 DEF Typed, end
  <2>5. end(q)' = end(q) - num[p]
    <3>1. getNumFilledElements(Size, Head', NewIndex[q]) = end(q) - num[p]
      BY <1>7, <2>3, <2>4
    <3>2. QED
      BY <1>2, <1>3, <3>1 DEF end, off, Dist
  <2>6. first(q)' = first(q) - num[p]
    BY <1>2, <1>5, <2>1, <2>5 DEF first
  <2>7. QED
    BY <2>1, <2>2, <2>5, <2>6
<1>10. Typed'
  <2>1. {Head, ReservedHead, Tail, ReservedTail}' \subseteq 0 .. Size' - 1
    BY <1>0, <1>1, <1>3, <1>6 DEF Typed
  <2>2. \A q \in Procs : HasWindow(q)' => NewIndex'[q] \in 0 .. Size' - 1
    BY <1>0, <1>2, <1>3 DEF Typed
  <2>3. QED
    BY <1>0, <1>1, <1>2, <1>3, <2>1, <2>2 DEF Typed
<1>11. Tiled("pop")'
  <2>1. base("pop") \in Int /\ top("pop") \in Int
        /\ base("pop")' = end(p) - num[p] /\ top("pop")' = top("pop") - num[p]
    BY <1>4, <1>5, <1>8 DEF base, top
  <2>2. Windows("pop")' = Windows("pop") \ {p}
    BY <1>0, <1>3
  <2>3. \A q \in Windows("pop") : first(q) \in Int /\ end(q) \in Int
    BY <1>0, WindowNum DEF Windows
  <2>4. \A q \in Windows("pop") \ {p} : first(q)' = first(q) - num[p] /\ end(q)' = end(q) - num[p]
    BY <1>9 DEF Windows
  <2>5. \A q \in Windows("pop") \ {p} : p \in ahead["pop"][q]
    BY <1>0, <1>4, FirstBefore
  <2>6. first(p) < end(p)
    BY <1>4
  <2>7. QED
    BY <1>0, <1>2, <1>4, <1>5, <2>1, <2>2, <2>3, <2>4, <2>5, <2>6, TilesShrink
<1>12. Tiled("push")'
  <2>1. p \notin Windows("push")
    BY <1>4, Numbers DEF Windows
  <2>2. /\ base("push") \in Int /\ top("push") \in Int
        /\ base("push")' = base("push") - num[p] /\ top("push")' = top("push") - num[p]
    BY <1>5, <1>8 DEF base, top
  <2>3. Windows("push")' = Windows("push")
    BY <1>0, <1>3, <2>1
  <2>4. \A q \in Windows("push") : first(q) \in Int /\ end(q) \in Int
    BY <1>0, WindowNum DEF Windows
  <2>5. \A q \in Windows("push") : first(q)' = first(q) - num[p] /\ end(q)' = end(q) - num[p]
    BY <1>9, <2>1 DEF Windows
  <2>6. QED
    BY <1>0, <1>2, <1>4, <1>5, <2>2, <2>3, <2>4, <2>5, TilesShift
<1>13. Ordered'
  <2>1. off(ReservedHead)' <= off(Tail)'
    BY <1>4, <1>5, <1>8
  <2>2. ASSUME NEW q \in Poppers, HasWindow(q)' PROVE first(q)' + peek'[q] <= off(Tail)'
    <3>1. q \in Procs /\ q # p /\ HasWindow(q) /\ first(q) + peek[q] <= off(Tail)
      BY <1>0, <1>3, <2>2, Numbers DEF Ordered
    <3>2. first(q) \in Int /\ peek[q] \in Int /\ first(q)' = first(q) - num[p]
      BY <1>0, <1>9, <2>2, <3>1, WindowNum, Numbers
    <3>3. QED
      BY <1>2, <1>5, <1>8, <3>1, <3>2
  <2>3. QED
    BY <1>11, <1>12, <2>1, <2>2 DEF Ordered, Sides
<1> DEFINE d == off(ReservedTail)
<1>14. /\ slots = [k \in 0 .. d - 1 |-> advance(Size, Head, k)]
       /\ slots' = [k \in 0 .. d - num[p] - 1 |-> slots[k + num[p]]]
       /\ d \in 0 .. Size - 1
  <2>1. slots = [k \in 0 .. d - 1 |-> advance(Size, Head, k)] /\ d \in 0 .. MaxNum
    BY <1>0, <1>5 DEF Placed
  <2>2. occupied = d
    BY <2>1, OccupiedIs
  <2>3. QED
    BY <1>1, <1>5, <2>1, <2>2
<1>15. Placed'
  <2>1. ASSUME NEW k \in 0 .. d - num[p] - 1
        PROVE  slots[k + num[p]] = advance(Size, Head', k)
    <3> HIDE DEF d
    <3>1. k \in Nat /\ k + num[p] \in 0 .. d - 1 /\ num[p] + k < Size /\ num[p] + k = k + num[p]
      BY <1>0, <1>5, <1>14
    <3>2. slots[k + num[p]] = advance(Size, Head, num[p] + k)
      BY <1>14, <3>1
    <3>3. advance(Size, Head', k) = advance(Size, Head, num[p] + k)
      BY <1>0, <1>6, <3>1, WindowInOrder
    <3>4. QED
      BY <3>2, <3>3
  <2>2. slots' = [k \in 0 .. off(ReservedTail)' - 1 |-> advance(Size', Head', k)]
    <3>1. off(ReservedTail)' = d - num[p] /\ Size' = Size
      BY <1>3, <1>8
    <3>2. slots' = [k \in 0 .. d - num[p] - 1 |-> advance(Size, Head', k)]
      <4> HIDE DEF d
      <4>1. QED
        BY <1>14, <2>1
    <3>3. [k \in 0 .. off(ReservedTail)' - 1 |-> advance(Size', Head', k)]
            = [k \in 0 .. d - num[p] - 1 |-> advance(Size, Head', k)]
      <4> HIDE DEF d
      <4>1. d \in Int /\ num[p] \in Int /\ off(ReservedTail)' \in Int
        BY <1>0, <1>5, <1>14, <3>1
      <4>2. 0 .. off(ReservedTail)' - 1 = 0 .. d - num[p] - 1
        BY <3>1, <4>1
      <4>3. QED
        BY <3>1, <4>2
    <3>4. QED
      BY <3>2, <3>3
  <2>3. ASSUME NEW q \in Procs, HasWindow(q)'
        PROVE  win'[q] = [k \in 0 .. (IF q \in Pushers THEN num'[q] ELSE peek'[q]) - 1 |->
                            slots'[first(q)' + k]]
    <3> DEFINE n == IF q \in Pushers THEN num[q] ELSE peek[q]
    <3>1. q # p /\ HasWindow(q) /\ num'[q] = num[q] /\ peek'[q] = peek[q] /\ win'[q] = win[q]
      BY <1>2, <1>3, <2>3
    <3>2. win[q] = [k \in 0 .. n - 1 |-> slots[first(q) + k]]
      BY <1>0, <3>1 DEF Placed
    <3>3. n \in Nat /\ first(q) \in Nat /\ first(q) + n <= d
      BY <1>0, <3>1, WindowsFit
    <3>4. num[p] <= first(q) /\ first(q)' = first(q) - num[p]
      BY <1>9, <3>1
    <3>5. \A k \in 0 .. n - 1 : slots'[first(q)' + k] = slots[first(q) + k]
      <4> HIDE DEF n, d
      <4> SUFFICES ASSUME NEW k \in 0 .. n - 1
                   PROVE  slots'[first(q)' + k] = slots[first(q) + k]
        OBVIOUS
      <4> DEFINE i == first(q) - num[p] + k
      <4>0. /\ first(q) \in Int /\ n \in Int /\ d \in Int /\ num[p] \in Int /\ k \in Int
            /\ 0 <= k /\ k < n /\ first(q) + n <= d /\ num[p] <= first(q)
        BY <1>0, <1>5, <1>14, <3>3, <3>4
      <4>1. i \in 0 .. d - num[p] - 1 /\ i + num[p] = first(q) + k
        BY <4>0
      <4> HIDE DEF i
      <4>2. slots'[i] = slots[first(q) + k]
        BY <1>14, <4>1
      <4>3. QED
        BY <3>4, <4>2 DEF i
    <3>6. QED
      BY <3>1, <3>2, <3>5
  <2>4. QED
    BY <2>2, <2>3 DEF Placed
<1>16. Requested'
  <2>1. \A q \in Procs : pc'[q] # "idle" => pc[q] # "idle"
    BY <1>0, <1>1 DEF goto
  <2>2. QED
    BY <1>0, <1>2, <2>1 DEF Requested, Requests
<1>17. Remembers(p)'
  BY <1>1 DEF Remembers
<1>18. Remembered'
  BY <1>0, <1>17, OthersRemember DEF Remembered
<1>19. PopCommitted(p)
  <2>1. Closes(p)
    BY <1>2, <1>3, <1>4 DEF Closes
  <2>2. \A q \in Procs : HasWindow(q)' => first(q)' = first(q) - num[p]
    BY <1>3, <1>9
  <2>3. QED
    BY <1>4, <1>8, <2>1, <2>2 DEF PopCommitted
<1>20. QED
  BY <1>10, <1>13, <1>15, <1>16, <1>18, <1>19 DEF LayoutInv

-----------------------------------------------------------------------------
(* The invariant                                                           *)

(* The empty queue is in order.                                            *)
LEMMA LayoutBegins == Init => LayoutInv
<1> SUFFICES ASSUME Init PROVE LayoutInv
  OBVIOUS
<1>1. \A p \in Procs : pc[p] = "idle" /\ ~Moving(p) /\ ~HasWindow(p)
  BY DEF Init, Moving, HasWindow
<1>2. Size = MinNum /\ NumElm = MinNum /\ MinNum \in MinNum .. MaxNum /\ 0 \in 0 .. MinNum - 1
      /\ 0 \in 0 .. MaxNum /\ MinNum \in Nat
  BY <1>1, Numbers DEF Size, Init, Moving
<1>3. Head = 0 /\ ReservedHead = 0 /\ Tail = 0 /\ ReservedTail = 0
  BY DEF Init
<1>4. Typed
  BY <1>1, <1>2, <1>3 DEF Typed, Init
<1>5. Requested
  BY <1>1 DEF Requested, Requests
<1>6. off(ReservedHead) = 0 /\ off(Tail) = 0 /\ off(ReservedTail) = 0
  BY <1>2, <1>3 DEF off, Dist, getNumFilledElements
<1>7. \A s \in Sides : Windows(s) = {} /\ base(s) = 0 /\ top(s) = 0
  BY <1>1, <1>6 DEF Windows, base, top
<1>8. Ordered
  <2>1. \A s \in Sides : Tiled(s)
    BY <1>7 DEF Tiled
  <2>2. QED
    BY <1>1, <1>6, <2>1, Numbers DEF Ordered
<1>9. Placed
  <2>1. slots = [k \in 0 .. off(ReservedTail) - 1 |-> advance(Size, Head, k)]
    <3>1. slots = <<>> /\ 0 .. off(ReservedTail) - 1 = {}
      BY <1>6 DEF Init
    <3>2. <<>> = [k \in {} |-> advance(Size, Head, k)]
      OBVIOUS
    <3>3. QED
      BY <3>1, <3>2
  <2>2. QED
    BY <1>1, <2>1 DEF Placed
<1>10. Remembered
  BY <1>1 DEF Remembered, Remembers
<1>11. QED
  BY <1>4, <1>5, <1>8, <1>9, <1>10 DEF LayoutInv

(* Nothing happens.                                                        *)
LEMMA LayoutRests == LayoutInv /\ UNCHANGED vars => LayoutInv' /\ Unmoved
<1> SUFFICES ASSUME LayoutInv, UNCHANGED vars PROVE LayoutInv' /\ Unmoved
  OBVIOUS
<1> USE DEF vars, indices, lock, request, locals
<1>1. Size' = Size
  BY DEF Size
<1>2. \A p \in Procs : (HasWindow(p)' <=> HasWindow(p)) /\ (Moving(p)' <=> Moving(p))
  BY DEF HasWindow, Moving
<1>3. Ordered' /\ Placed' /\ Unmoved
  BY <1>1, <1>2, QuietStep DEF LayoutInv
<1>4. Typed'
  BY <1>1, <1>2 DEF LayoutInv, Typed
<1>5. Requested'
  BY DEF LayoutInv, Requested, Requests
<1>6. Remembered'
  BY <1>2 DEF LayoutInv, Remembered, Remembers, isResizable
<1>7. QED
  BY <1>3, <1>4, <1>5, <1>6 DEF LayoutInv

(* What a step can do to the layout, seen from Head.                       *)
Effect ==
  \/ Unmoved
  \/ \E p \in Procs : PushReserved(p) \/ PopReserved(p) \/ PushCommitted(p) \/ PopCommitted(p)

(* Either of the two steps that the layout does not survive.               *)
LayoutFault == GrantsByOtherSize \/ FillsExactly

(* The invariant is inductive, given the locks, but for the two.           *)
LEMMA LayoutStep ==
  ASSUME Locked, Locked', LayoutInv, [Next /\ ~LayoutFault]_vars
  PROVE  LayoutInv' /\ Effect
<1> USE DEF Effect
<1>1. CASE UNCHANGED vars
  BY <1>1, LayoutRests
<1>2. ASSUME NEW p \in Procs, step(p), ~LayoutFault PROVE LayoutInv' /\ Effect
  <2>1. CASE takeReserveLock(p) \/ releaseReserveLock(p) \/ tryAcquireReserveLock(p)
             \/ compacted(p) \/ testShrink(p) \/ endShrink(p)
    BY <2>1, LockingSteps
  <2>2. CASE releaseCommitLock(p)
    BY <2>2, ReleaseCommitLockStep
  <2>3. CASE reservePush(p)
    BY <2>3, RoomStep, NoRoomStep
  <2>4. CASE growQueue(p)
    BY <2>4, GrowStep, NotGrownStep
  <2>5. CASE compactQueue(p)
    BY <1>2, <2>5, CompactStep DEF LayoutFault
  <2>6. CASE storeNumElm(p)
    BY <2>6, StoreNumElmStep
  <2>7. CASE recheckRoom(p)
    BY <2>7, RoomAtLastStep, StillNoRoomStep
  <2>8. CASE commitPush(p)
    BY <2>8, CommitPushStep
  <2>9. CASE readNumElm(p)
    BY <2>9, ReadNumElmStep
  <2>10. CASE reservePeekPop(p)
    <3>1. CASE haveEnoughData(numelm[p], ReservedHead, Tail, peek[p])
      <4>1. numelm[p] = Size
        BY <1>2, <2>10, <3>1 DEF LayoutFault, GrantsByOtherSize
      <4>2. QED
        BY <2>10, <3>1, <4>1, DataStep
    <3>2. CASE ~haveEnoughData(numelm[p], ReservedHead, Tail, peek[p])
      BY <2>10, <3>2, NoDataStep
    <3>3. QED
      BY <3>1, <3>2
  <2>11. CASE shrinkQueue(p)
    BY <2>11, ShrinkStep
  <2>12. CASE commitPeekPop(p)
    BY <2>12, CommitPopStep
  <2>13. QED
    BY <1>2, <2>1, <2>2, <2>3, <2>4, <2>5, <2>6, <2>7, <2>8, <2>9, <2>10, <2>11, <2>12 DEF step
<1>3. ASSUME NEW p \in Pushers, callPush(p) PROVE LayoutInv' /\ Effect
  BY <1>3, CallPushStep
<1>4. ASSUME NEW p \in Poppers, callPeekPop(p) PROVE LayoutInv' /\ Effect
  BY <1>1, <1>4, CallPeekPopStep
<1>5. QED
  BY <1>1, <1>2, <1>3, <1>4 DEF Next

(* Data that fill the ring exactly leave an index that is no slot.         *)
LEMMA ExactFitBreaks ==
  ASSUME Locked, Locked', LayoutInv, FillsExactly
  PROVE  ~SlotsInOrder'
<1>1. PICK p \in Procs : compactQueue(p) /\ ~isResizable /\ exactFit(p)
  BY DEF FillsExactly
<1> DEFINE N == resize(calcGrownQSize(NumElm, num[p] + ReservedTail))
<1>2. /\ pc[p] = "compacting" /\ pc'[p] = "compacted" /\ numelm' = [numelm EXCEPT ![p] = N]
      /\ ReservedTail <= NumElm - Head /\ N = NumElm + ReservedTail
      /\ NumElm \in Nat /\ ReservedTail \in Nat
  <2>1. goto(p, "compacting", "compacted") /\ pc \in [Procs -> PCs]
    BY <1>1 DEF compactQueue, Locked, PlacesMatch
  <2>2. pc[p] = "compacting" /\ pc'[p] = "compacted"
    BY <2>1 DEF goto
  <2>3. ReservedTail <= NumElm - Head /\ N = NumElm + ReservedTail
    BY <1>1 DEF exactFit
  <2>4. numelm' = [numelm EXCEPT ![p] = N]
    BY <1>1, <2>3 DEF compactQueue
  <2>5. NumElm \in Nat /\ ReservedTail \in Nat
    BY SizeType, Numbers DEF LayoutInv, Locked, Typed
  <2>6. QED
    BY <2>2, <2>3, <2>4, <2>5
<1> HIDE DEF N
<1>3. Tail' = N
  <2>1. N >= NumElm + ReservedTail
    BY <1>2
  <2>2. appendTailBlock(N)
    BY <1>1, <1>2, <2>1 DEF compactQueue, N
  <2>3. QED
    BY <1>2, <2>2 DEF appendTailBlock
<1>4. Size' = N
  <2>1. Moving(p)' /\ numelm'[p] = N
    BY <1>2 DEF Moving, LayoutInv, Typed
  <2>2. QED
    BY <2>1, SizeIsNext DEF Locked, SizeBelongs
<1>5. Tail' \notin 0 .. Size' - 1
  BY <1>2, <1>3, <1>4
<1>6. QED
  BY <1>5 DEF SlotsInOrder, TypeOK

(* The inductive invariant, and the locks' facts it rests on: no run loses *)
(* it but by a pop granted by a size that is not the ring's, or by moved   *)
(* data that fill the new ring exactly; and the latter always loses it.    *)
THEOREM LayoutIsKept ==
  Spec => /\ [](LayoutInv /\ Locked) \/ <><<LayoutFault>>_vars
          /\ [][LayoutInv /\ FillsExactly => ~SlotsInOrder']_vars
<1>1. Spec => []PlacesMatch /\ []LineInv /\ []LayoutAlone
  BY UsesLocks, LineHolds, LayoutIsAlone, PTL
<1>2. PlacesMatch /\ LineInv /\ LayoutAlone => Locked
  BY DEF Locked
<1>3. Spec => []Locked
  BY <1>1, <1>2, PTL
<1>4. LayoutInv /\ Locked /\ Locked' /\ [Next]_vars /\ [~LayoutFault]_vars => LayoutInv'
  <2>1. LayoutInv /\ Locked /\ Locked' /\ Next /\ ~LayoutFault => LayoutInv'
    BY LayoutStep
  <2>2. LayoutInv /\ UNCHANGED vars => LayoutInv'
    BY LayoutRests
  <2>3. QED
    BY <2>1, <2>2
<1>5. Locked /\ Locked' => (LayoutInv /\ FillsExactly => ~SlotsInOrder')
  BY ExactFitBreaks
<1>6. QED
  BY <1>3, <1>4, <1>5, LayoutBegins, PTL DEF Spec

(* A window lies on the elements at its offset.                            *)
LEMMA WindowsLie ==
  ASSUME Locked, LayoutInv
  PROVE  WindowsInPlace
<1> SUFFICES ASSUME NEW p \in Procs, HasWindow(p), NEW k \in DOMAIN win[p]
             PROVE  first(p) + k \in DOMAIN slots /\ win[p][k] = slots[first(p) + k]
  BY DEF WindowsInPlace, first, end, off
<1> DEFINE n == IF p \in Pushers THEN num[p] ELSE peek[p]
<1>1. win[p] = [j \in 0 .. n - 1 |-> slots[first(p) + j]]
      /\ slots = [j \in 0 .. off(ReservedTail) - 1 |-> advance(Size, Head, j)]
  BY DEF LayoutInv, Placed
<1>2. n \in Nat /\ first(p) \in Nat /\ first(p) + n <= off(ReservedTail)
  BY WindowsFit
<1>3. off(ReservedTail) \in Int
  BY OffsetType DEF Locked, LayoutInv
<1> HIDE DEF n
<1>4. k \in 0 .. n - 1
  BY <1>1
<1>5. first(p) + k \in 0 .. off(ReservedTail) - 1
  BY <1>2, <1>3, <1>4
<1>6. QED
  BY <1>1, <1>4, <1>5

(* Types, and where the elements are.                                      *)
LEMMA SlotsLie ==
  ASSUME Locked, LayoutInv
  PROVE  SlotsInOrder
<1>0. Typed /\ Placed /\ LayoutAlone /\ PlacesMatch
  BY DEF LayoutInv, Locked
<1>1. slots = [k \in 0 .. Dist(Head, ReservedTail) - 1 |-> advance(Size, Head, k)]
  BY <1>0 DEF Placed, off
<1>2. /\ Size \in Nat /\ Size \in MinNum .. MaxNum /\ MaxNum \in Nat
      /\ Head \in 0 .. Size - 1 /\ off(ReservedTail) \in 0 .. Size - 1
  BY <1>0, SizeType, OffsetType, Numbers DEF Typed
<1>3. \A k \in DOMAIN slots : slots[k] \in 0 .. MaxNum - 1
  <2> SUFFICES ASSUME NEW k \in 0 .. off(ReservedTail) - 1
               PROVE  advance(Size, Head, k) \in 0 .. MaxNum - 1
    BY <1>1 DEF off
  <2>1. k \in 0 .. Size - 1
    BY <1>2
  <2>2. advance(Size, Head, k) \in 0 .. Size - 1
    BY <1>2, <2>1, AdvanceInRing
  <2>3. QED
    BY <1>2, <2>2
<1>4. ahead \in [Sides -> [Procs -> SUBSET Procs]] /\ stage \in [Sides -> [Procs -> Stages]]
      /\ pc \in [Procs -> PCs]
  BY DEF Locked, PlacesMatch, LineInv, LineType
<1>5. TypeOK
  BY <1>0, <1>3, <1>4 DEF TypeOK, Typed
<1>6. QED
  BY <1>1, <1>5 DEF SlotsInOrder

(* What the code asserts of the indices.                                   *)
LEMMA AssertionsFollow ==
  ASSUME Locked, LayoutInv
  PROVE  AssertionsHold
<1>0. Typed /\ LayoutAlone /\ Size \in Nat
  BY SizeType DEF LayoutInv, Locked
<1>1. ASSUME NEW p \in Procs, pc[p] \in {"grown", "shrunk"}, isResizable
      PROVE  /\ Head <= ReservedHead /\ ReservedHead <= Tail /\ Tail <= ReservedTail
             /\ ReservedTail < NumElm
  <2>1. Resizing(p) /\ ~Moving(p)
    BY <1>1 DEF Resizing, Moving
  <2>2. Size = NumElm
    BY <2>1, NoneMoving
  <2>3. {Head, ReservedHead, Tail, ReservedTail} \subseteq 0 .. NumElm - 1 /\ NumElm \in Nat
    BY <1>0, <2>2 DEF Typed
  <2>4. off(ReservedHead) <= off(ReservedTail) /\ off(Tail) <= off(ReservedTail)
        /\ off(ReservedHead) <= off(Tail)
    BY InUse DEF LayoutInv, Ordered
  <2>5. /\ Head <= ReservedHead /\ off(ReservedHead) = ReservedHead - Head
        /\ Tail <= ReservedTail /\ off(Tail) = Tail - Head
    BY <1>0, <1>1, <2>2, <2>3, <2>4, OnePiece
  <2>6. QED
    BY <2>3, <2>4, <2>5
<1>2. ASSUME NEW p \in Procs, pc[p] = "compacting", ~isResizable
      PROVE  /\ Head = ReservedHead /\ Head < NumElm
             /\ Tail = ReservedTail /\ Tail < Head
  <2>1. Resizing(p) /\ ~Moving(p)
    BY <1>2 DEF Resizing, Moving
  <2>2. Size = NumElm
    BY <2>1, NoneMoving
  <2>3. {Head, ReservedTail} \subseteq 0 .. NumElm - 1 /\ NumElm \in Nat
    BY <1>0, <2>2 DEF Typed
  <2>4. Tail = ReservedTail
    BY <1>2 DEF LayoutInv, Remembered, Remembers
  <2>5. ReservedHead = Head
    BY <1>2, <2>4, NobodyInside
  <2>6. QED
    BY <1>2, <2>3, <2>4, <2>5 DEF isResizable
<1>3. QED
  BY <1>1, <1>2 DEF AssertionsHold

(* Growing, compacting and shrinking lose and disorder no element, and     *)
(* every index is one of the size in use, whatever sizes, ratios and       *)
(* requests: ResizableRCQ keeps SlotsInOrder until a fault.                *)
THEOREM SlotsStayInOrder == Spec => []SlotsInOrder \/ <><<LayoutFault>>_vars
BY LayoutIsKept, SlotsLie, PTL

(* The elements of a reservation are not moved before it is committed.     *)
THEOREM WindowsStayInPlace == Spec => []WindowsInPlace \/ <><<LayoutFault>>_vars
BY LayoutIsKept, WindowsLie, PTL

(* The assertions of growQueue, shrinkQueueIfNeeded and compactQueue hold. *)
THEOREM AssertionsAlwaysHold == Spec => []AssertionsHold \/ <><<LayoutFault>>_vars
BY LayoutIsKept, AssertionsFollow, PTL

-----------------------------------------------------------------------------
(* The contract                                                            *)

(* How far behind the committed index of its side a window begins, and the *)
(* values of the contract's variables open, ahead and size.                *)
before(p) == first(p) - (IF p \in Pushers THEN off(Tail) ELSE 0)
opened == [p \in Procs |-> HasWindow(p)]
behind == [p \in Procs |->
             IF ~HasWindow(p) THEN 0
             ELSE Dist(IF p \in Pushers THEN Tail ELSE Head, NewIndex[p]) - num[p]]
asked == [p \in Procs |-> IF HasWindow(p) THEN num[p] ELSE 0]

(* In distances from Head.                                                 *)
Mapping ==
  /\ off(ReservedHead) \in Int /\ off(Tail) \in Int /\ off(ReservedTail) \in Int
  /\ off(ReservedTail) <= MaxNum - 1
  /\ Dist(Head, ReservedHead) = off(ReservedHead)
  /\ Dist(ReservedHead, Tail) = off(Tail) - off(ReservedHead)
  /\ Dist(Tail, ReservedTail) = off(ReservedTail) - off(Tail)
  /\ \A p \in Procs : HasWindow(p) => first(p) \in Int /\ num[p] \in Int
  /\ behind = [p \in Procs |-> IF HasWindow(p) THEN before(p) ELSE 0]

(* The contract's variables are distances.                                 *)
LEMMA MappingIs == Locked /\ LayoutInv => Mapping
<1> SUFFICES ASSUME Locked, LayoutInv PROVE Mapping
  OBVIOUS
<1>0. /\ Typed /\ Requested /\ Ordered /\ LayoutAlone /\ Tiled("push") /\ Tiled("pop")
  BY DEF LayoutInv, Locked, Ordered, Sides
<1>1. /\ Size \in Nat /\ Size \in MinNum .. MaxNum /\ MaxNum \in Nat
      /\ {Head, ReservedHead, Tail, ReservedTail} \subseteq 0 .. Size - 1
  BY <1>0, SizeType, Numbers DEF Typed
<1>2. /\ off(ReservedHead) \in 0 .. Size - 1 /\ off(Tail) \in 0 .. Size - 1
      /\ off(ReservedTail) \in 0 .. Size - 1
  BY <1>0, OffsetType
<1>3. off(ReservedTail) <= MaxNum - 1
  BY <1>1, <1>2
<1>4. off(ReservedHead) <= off(Tail) /\ off(Tail) <= off(ReservedTail)
  BY <1>0 DEF Ordered, Tiled, base, top
<1>5. /\ Dist(ReservedHead, Tail) = off(Tail) - off(ReservedHead)
      /\ Dist(Tail, ReservedTail) = off(ReservedTail) - off(Tail)
  BY <1>1, <1>4, DistBetween DEF off, Dist
<1>6. ASSUME NEW p \in Procs, HasWindow(p)
      PROVE  /\ first(p) \in Int /\ num[p] \in Int
             /\ Dist(IF p \in Pushers THEN Tail ELSE Head, NewIndex[p]) - num[p] = before(p)
  <2>1. /\ num[p] \in Nat /\ end(p) \in 0 .. Size - 1 /\ first(p) \in Int
        /\ end(p) = first(p) + num[p]
    BY <1>0, <1>6, WindowNum
  <2>2. CASE p \in Pushers
    <3>1. off(Tail) <= first(p)
      BY <1>0, <1>6, <2>2, Numbers DEF Windows, Tiled, base
    <3>2. off(Tail) <= end(p)
      BY <1>2, <2>1, <3>1
    <3>3. NewIndex[p] \in 0 .. Size - 1
      BY <1>0, <1>6 DEF Typed
    <3>4. Dist(Tail, NewIndex[p]) = end(p) - off(Tail)
      BY <1>1, <3>2, <3>3, DistBetween DEF end, off, Dist
    <3>5. end(p) - off(Tail) - num[p] = first(p) - off(Tail)
      BY <1>2, <2>1
    <3>6. QED
      BY <2>1, <2>2, <3>4, <3>5 DEF before
  <2>3. CASE p \notin Pushers
    BY <2>1, <2>3 DEF before, end, off
  <2>4. QED
    BY <2>2, <2>3
<1>7. behind = [p \in Procs |-> IF HasWindow(p) THEN before(p) ELSE 0]
  BY <1>6 DEF behind
<1>8. QED
  BY <1>2, <1>3, <1>5, <1>6, <1>7 DEF Mapping, off

(* The same after a step.                                                  *)
LEMMA MappingNext == Locked' /\ LayoutInv' => Mapping'
BY MappingIs, PTL

(* A new value for p only.                                                 *)
LEMMA PutOpen ==
  ASSUME NEW p \in Procs, NEW b \in BOOLEAN, HasWindow(p)' = b,
         \A q \in Procs : q # p => (HasWindow(q)' <=> HasWindow(q))
  PROVE  opened' = [opened EXCEPT ![p] = b]
<1>1. \A q \in Procs : q # p => HasWindow(q)' = HasWindow(q)
  BY DEF HasWindow
<1>2. \A q \in Procs : HasWindow(q)' = (IF q = p THEN b ELSE HasWindow(q))
  BY <1>1
<1>3. opened' = [q \in Procs |-> IF q = p THEN b ELSE HasWindow(q)]
  BY <1>2 DEF opened
<1>4. QED
  BY <1>3 DEF opened

(* What leaves the layout alone is invisible.                              *)
LEMMA UnmovedMaps ==
  ASSUME Mapping, Mapping', Unmoved
  PROVE  UNCHANGED Abs!vars
<1>1. /\ Dist(Head, ReservedHead)' = Dist(Head, ReservedHead)
      /\ Dist(ReservedHead, Tail)' = Dist(ReservedHead, Tail)
      /\ Dist(Tail, ReservedTail)' = Dist(Tail, ReservedTail)
  BY DEF Mapping, Unmoved
<1>2. opened' = opened
  <2>1. \A q \in Procs : HasWindow(q)' = HasWindow(q)
    BY DEF Unmoved, HasWindow
  <2>2. QED
    BY <2>1 DEF opened
<1>3. behind' = behind
  <2>1. \A q \in Procs : HasWindow(q) => before(q)' = before(q)
    BY DEF Unmoved, before
  <2>2. behind' = [q \in Procs |-> IF HasWindow(q)' THEN before(q)' ELSE 0]
        /\ behind = [q \in Procs |-> IF HasWindow(q) THEN before(q) ELSE 0]
    BY DEF Mapping
  <2>3. \A q \in Procs : HasWindow(q)' <=> HasWindow(q)
    BY DEF Unmoved
  <2>4. QED
    BY <2>1, <2>2, <2>3
<1>4. asked' = asked
  BY DEF Unmoved, asked
<1>5. QED
  BY <1>1, <1>2, <1>3, <1>4 DEF Abs!vars, opened, behind, asked

(* A new window of the contract, b slots behind the committed index.       *)
LEMMA OpenMaps ==
  ASSUME Mapping, Mapping', NEW p \in Procs, Opens(p), NEW b,
         before(p)' = b,
         \A q \in Procs : HasWindow(q) => before(q)' = before(q)
  PROVE  Abs!Open(p, b, num[p])
<1>0. p \in Abs!Procs /\ Abs!Procs = Procs
  BY DEF Procs, Abs!Procs
<1>1. /\ ~HasWindow(p) /\ HasWindow(p)' /\ num'[p] = num[p]
      /\ \A q \in Procs : q # p => (HasWindow(q)' <=> HasWindow(q))
      /\ \A q \in Procs : HasWindow(q) => num'[q] = num[q]
  BY DEF Opens
<1>2. ~opened[p]
  BY <1>1 DEF opened
<1>3. opened' = [opened EXCEPT ![p] = TRUE]
  <2>1. HasWindow(p)' = TRUE
    BY <1>1 DEF HasWindow
  <2>2. QED
    BY <1>1, <2>1, PutOpen
<1>4. behind' = [behind EXCEPT ![p] = b]
  <2>1. behind' = [q \in Procs |-> IF HasWindow(q)' THEN before(q)' ELSE 0]
        /\ behind = [q \in Procs |-> IF HasWindow(q) THEN before(q) ELSE 0]
    BY DEF Mapping
  <2>2. ASSUME NEW q \in Procs
        PROVE  (IF HasWindow(q)' THEN before(q)' ELSE 0) = IF q = p THEN b ELSE behind[q]
    <3>1. behind[q] = IF HasWindow(q) THEN before(q) ELSE 0
      BY <2>1
    <3>2. QED
      BY <1>1, <3>1
  <2>3. QED
    BY <2>1, <2>2
<1>5. asked' = [asked EXCEPT ![p] = num[p]]
  <2>1. ASSUME NEW q \in Procs
        PROVE  (IF HasWindow(q)' THEN num'[q] ELSE 0) = IF q = p THEN num[p] ELSE asked[q]
    <3>1. asked[q] = IF HasWindow(q) THEN num[q] ELSE 0
      BY DEF asked
    <3>2. QED
      BY <1>1, <3>1
  <2>2. asked' = [q \in Procs |-> IF q = p THEN num[p] ELSE asked[q]]
    BY <2>1 DEF asked
  <2>3. QED
    BY <2>2 DEF asked
<1>6. QED
  BY <1>2, <1>3, <1>4, <1>5 DEF Abs!Open, opened, behind, asked

(* A granted push is the reservation of the contract.                      *)
LEMMA PushReservedMaps ==
  ASSUME Mapping, Mapping', LayoutInv, NEW p \in Procs, PushReserved(p)
  PROVE  num[p] \in PushNums /\ Abs!ReservePush(p, num[p])
<1>0. /\ p \in Pushers /\ Opens(p) /\ Requests(p)
      /\ first(p)' = off(ReservedTail) /\ off(ReservedTail)' = off(ReservedTail) + num[p]
      /\ off(ReservedHead)' = off(ReservedHead) /\ off(Tail)' = off(Tail)
  BY DEF PushReserved, Opens, LayoutInv, Requested
<1>1. num[p] \in PushNums /\ num[p] \in Int
  BY <1>0, Numbers DEF Opens, Requests
<1>2. /\ off(ReservedHead) \in Int /\ off(Tail) \in Int /\ off(ReservedTail) \in Int
      /\ off(ReservedTail)' <= MaxNum - 1
      /\ Dist(Head, ReservedHead) = off(ReservedHead)
      /\ Dist(ReservedHead, Tail) = off(Tail) - off(ReservedHead)
      /\ Dist(Tail, ReservedTail) = off(ReservedTail) - off(Tail)
      /\ Dist(Head, ReservedHead)' = off(ReservedHead)'
      /\ Dist(ReservedHead, Tail)' = off(Tail)' - off(ReservedHead)'
      /\ Dist(Tail, ReservedTail)' = off(ReservedTail)' - off(Tail)'
  BY DEF Mapping
<1>3. Dist(Head, ReservedHead) + Dist(ReservedHead, Tail) + Dist(Tail, ReservedTail) + num[p]
        <= MaxNum - 1
  BY <1>0, <1>1, <1>2, Numbers
<1>4. /\ Dist(Tail, ReservedTail)' = Dist(Tail, ReservedTail) + num[p]
      /\ Dist(ReservedHead, Tail)' = Dist(ReservedHead, Tail)
      /\ Dist(Head, ReservedHead)' = Dist(Head, ReservedHead)
  BY <1>0, <1>1, <1>2
<1>5. Abs!Open(p, Dist(Tail, ReservedTail), num[p])
  <2>1. before(p)' = Dist(Tail, ReservedTail)
    BY <1>0, <1>2 DEF before
  <2>2. \A q \in Procs : HasWindow(q) => before(q)' = before(q)
    BY <1>0 DEF Opens, before
  <2>3. QED
    BY <1>0, <2>1, <2>2, OpenMaps
<1>6. QED
  BY <1>1, <1>3, <1>4, <1>5 DEF Abs!ReservePush

(* A granted pop is the reservation of a popper.                           *)
LEMMA PopReservedMaps ==
  ASSUME Mapping, Mapping', LayoutInv, NEW p \in Procs, PopReserved(p)
  PROVE  \E r \in PopRequests : Abs!ReservePeekPop(p, r[1], r[2])
<1>0. /\ p \in Poppers /\ p \notin Pushers /\ Opens(p) /\ Requests(p)
      /\ off(ReservedHead) + peek[p] <= off(Tail)
      /\ first(p)' = off(ReservedHead) /\ off(ReservedHead)' = off(ReservedHead) + num[p]
      /\ off(ReservedTail)' = off(ReservedTail) /\ off(Tail)' = off(Tail)
  BY Numbers DEF PopReserved, Opens, LayoutInv, Requested
<1>1. PICK r \in PopRequests : peek[p] = r[1] /\ num[p] = r[2]
  BY <1>0 DEF Opens, Requests
<1>2. num[p] \in Int /\ peek[p] \in Int
  BY <1>1, Numbers
<1>3. /\ off(ReservedHead) \in Int /\ off(Tail) \in Int /\ off(ReservedTail) \in Int
      /\ Dist(Head, ReservedHead) = off(ReservedHead)
      /\ Dist(ReservedHead, Tail) = off(Tail) - off(ReservedHead)
      /\ Dist(Tail, ReservedTail) = off(ReservedTail) - off(Tail)
      /\ Dist(Head, ReservedHead)' = off(ReservedHead)'
      /\ Dist(ReservedHead, Tail)' = off(Tail)' - off(ReservedHead)'
      /\ Dist(Tail, ReservedTail)' = off(ReservedTail)' - off(Tail)'
  BY DEF Mapping
<1>4. /\ Dist(ReservedHead, Tail) >= peek[p]
      /\ Dist(Head, ReservedHead)' = Dist(Head, ReservedHead) + num[p]
      /\ Dist(ReservedHead, Tail)' = Dist(ReservedHead, Tail) - num[p]
      /\ Dist(Tail, ReservedTail)' = Dist(Tail, ReservedTail)
  BY <1>0, <1>2, <1>3
<1>5. Abs!Open(p, Dist(Head, ReservedHead), num[p])
  <2>1. before(p)' = Dist(Head, ReservedHead)
    BY <1>0, <1>3 DEF before
  <2>2. \A q \in Procs : HasWindow(q) => before(q)' = before(q)
    BY <1>0 DEF Opens, before
  <2>3. QED
    BY <1>0, <2>1, <2>2, OpenMaps
<1>6. Abs!ReservePeekPop(p, peek[p], num[p])
  BY <1>4, <1>5 DEF Abs!ReservePeekPop
<1>7. QED
  BY <1>1, <1>6

(* A window of the contract is closed; the others of its side move up.     *)
LEMMA CloseMaps ==
  ASSUME Mapping, Mapping', NEW S \in {Pushers, Poppers}, NEW p \in S, p \in Procs, Closes(p),
         before(p) = 0,
         \A q \in S : HasWindow(q)' => before(q)' = before(q) - num[p],
         \A q \in Procs \ S : HasWindow(q)' => before(q)' = before(q)
  PROVE  Abs!Close(S, p)
<1>0. p \in Abs!Procs /\ Abs!Procs = Procs
  BY DEF Procs, Abs!Procs
<1>1. /\ HasWindow(p) /\ ~HasWindow(p)'
      /\ \A q \in Procs : q # p => (HasWindow(q)' <=> HasWindow(q))
      /\ \A q \in Procs : HasWindow(q) => num'[q] = num[q]
  BY DEF Closes
<1>2. /\ behind' = [q \in Procs |-> IF HasWindow(q)' THEN before(q)' ELSE 0]
      /\ behind = [q \in Procs |-> IF HasWindow(q) THEN before(q) ELSE 0]
      /\ opened = [q \in Procs |-> HasWindow(q)]
      /\ asked = [q \in Procs |-> IF HasWindow(q) THEN num[q] ELSE 0]
  BY DEF Mapping, opened, asked
<1>3. opened[p] /\ behind[p] = 0 /\ asked[p] = num[p]
  BY <1>1, <1>2
<1>4. opened' = [opened EXCEPT ![p] = FALSE]
  <2>1. HasWindow(p)' = FALSE
    BY <1>1 DEF HasWindow
  <2>2. QED
    BY <1>1, <2>1, PutOpen
<1>5. behind' = [q \in Procs |->
                   IF q \in S \ {p} /\ opened[q] THEN behind[q] - asked[p] ELSE behind[q]]
  <2>1. ASSUME NEW q \in Procs
        PROVE  (IF HasWindow(q)' THEN before(q)' ELSE 0)
                 = IF q \in S \ {p} /\ opened[q] THEN behind[q] - asked[p] ELSE behind[q]
    <3>1. (opened[q] <=> HasWindow(q)) /\ behind[q] = IF HasWindow(q) THEN before(q) ELSE 0
      BY <1>2
    <3>2. QED
      BY <1>1, <1>3, <3>1
  <2>2. QED
    BY <1>2, <2>1
<1>6. asked' = [asked EXCEPT ![p] = 0]
  <2>1. ASSUME NEW q \in Procs
        PROVE  (IF HasWindow(q)' THEN num'[q] ELSE 0) = IF q = p THEN 0 ELSE asked[q]
    <3>1. asked[q] = IF HasWindow(q) THEN num[q] ELSE 0
      BY <1>2
    <3>2. QED
      BY <1>1, <3>1
  <2>2. asked' = [q \in Procs |-> IF q = p THEN 0 ELSE asked[q]]
    BY <2>1 DEF asked
  <2>3. QED
    BY <2>2 DEF asked
<1>7. QED
  BY <1>0, <1>3, <1>4, <1>5, <1>6 DEF Abs!Close, opened, behind, asked

(* A committed push is the commit of a pusher.                             *)
LEMMA PushCommittedMaps ==
  ASSUME Mapping, Mapping', NEW p \in Procs, PushCommitted(p)
  PROVE  p \in Pushers /\ Abs!CommitPush(p)
<1>0. /\ p \in Pushers /\ Closes(p) /\ HasWindow(p)
      /\ \A q \in Procs : HasWindow(q)' => HasWindow(q) /\ first(q)' = first(q)
      /\ first(p) = off(Tail) /\ off(Tail)' = off(Tail) + num[p]
      /\ off(ReservedHead)' = off(ReservedHead) /\ off(ReservedTail)' = off(ReservedTail)
  BY DEF PushCommitted, Closes
<1>1. /\ off(ReservedHead) \in Int /\ off(Tail) \in Int /\ off(ReservedTail) \in Int
      /\ Dist(Head, ReservedHead) = off(ReservedHead)
      /\ Dist(ReservedHead, Tail) = off(Tail) - off(ReservedHead)
      /\ Dist(Tail, ReservedTail) = off(ReservedTail) - off(Tail)
      /\ Dist(Head, ReservedHead)' = off(ReservedHead)'
      /\ Dist(ReservedHead, Tail)' = off(Tail)' - off(ReservedHead)'
      /\ Dist(Tail, ReservedTail)' = off(ReservedTail)' - off(Tail)'
      /\ \A q \in Procs : HasWindow(q) => first(q) \in Int /\ num[q] \in Int
  BY DEF Mapping
<1>2. /\ Dist(Tail, ReservedTail)' = Dist(Tail, ReservedTail) - num[p]
      /\ Dist(ReservedHead, Tail)' = Dist(ReservedHead, Tail) + num[p]
      /\ Dist(Head, ReservedHead)' = Dist(Head, ReservedHead)
  BY <1>0, <1>1
<1>3. before(p) = 0
  BY <1>0, <1>1 DEF before
<1>4. ASSUME NEW q \in Pushers, HasWindow(q)' PROVE before(q)' = before(q) - num[p]
  <2>1. /\ q \in Procs /\ first(q)' = first(q) /\ first(q) \in Int /\ num[p] \in Int
    BY <1>0, <1>1, <1>4, Numbers
  <2>2. before(q) = first(q) - off(Tail) /\ before(q)' = first(q)' - off(Tail)'
    BY DEF before
  <2>3. QED
    BY <1>0, <1>1, <2>1, <2>2
<1>5. ASSUME NEW q \in Procs \ Pushers, HasWindow(q)' PROVE before(q)' = before(q)
  BY <1>0, <1>1, <1>5 DEF before
<1>6. Abs!Close(Pushers, p)
  BY <1>0, <1>3, <1>4, <1>5, CloseMaps
<1>7. asked[p] = num[p]
  BY <1>0 DEF asked
<1>8. QED
  BY <1>0, <1>2, <1>6, <1>7 DEF Abs!CommitPush, asked

(* A committed pop is the commit of a popper.                              *)
LEMMA PopCommittedMaps ==
  ASSUME Mapping, Mapping', NEW p \in Procs, PopCommitted(p)
  PROVE  p \in Poppers /\ Abs!CommitPeekPop(p)
<1>0. /\ p \in Poppers /\ p \notin Pushers /\ Closes(p) /\ HasWindow(p)
      /\ \A q \in Procs : HasWindow(q)' => HasWindow(q) /\ first(q)' = first(q) - num[p]
      /\ first(p) = 0 /\ off(Tail)' = off(Tail) - num[p]
      /\ off(ReservedHead)' = off(ReservedHead) - num[p]
      /\ off(ReservedTail)' = off(ReservedTail) - num[p]
  BY Numbers DEF PopCommitted, Closes
<1>1. /\ off(ReservedHead) \in Int /\ off(Tail) \in Int /\ off(ReservedTail) \in Int
      /\ Dist(Head, ReservedHead) = off(ReservedHead)
      /\ Dist(ReservedHead, Tail) = off(Tail) - off(ReservedHead)
      /\ Dist(Tail, ReservedTail) = off(ReservedTail) - off(Tail)
      /\ Dist(Head, ReservedHead)' = off(ReservedHead)'
      /\ Dist(ReservedHead, Tail)' = off(Tail)' - off(ReservedHead)'
      /\ Dist(Tail, ReservedTail)' = off(ReservedTail)' - off(Tail)'
      /\ \A q \in Procs : HasWindow(q) => first(q) \in Int /\ num[q] \in Int
  BY DEF Mapping
<1>2. /\ Dist(Head, ReservedHead)' = Dist(Head, ReservedHead) - num[p]
      /\ Dist(ReservedHead, Tail)' = Dist(ReservedHead, Tail)
      /\ Dist(Tail, ReservedTail)' = Dist(Tail, ReservedTail)
  BY <1>0, <1>1
<1>3. before(p) = 0
  BY <1>0 DEF before
<1>4. ASSUME NEW q \in Poppers, HasWindow(q)' PROVE before(q)' = before(q) - num[p]
  <2>1. /\ q \in Procs /\ q \notin Pushers /\ first(q)' = first(q) - num[p]
        /\ first(q) \in Int /\ num[p] \in Int
    BY <1>0, <1>1, <1>4, Numbers
  <2>2. before(q) = first(q) - 0 /\ before(q)' = first(q)' - 0
    BY <2>1 DEF before
  <2>3. QED
    BY <2>1, <2>2
<1>5. ASSUME NEW q \in Procs \ Poppers, HasWindow(q)' PROVE before(q)' = before(q)
  <2>1. /\ q \in Pushers /\ first(q)' = first(q) - num[p]
        /\ first(q) \in Int /\ num[p] \in Int
    BY <1>0, <1>1, <1>5, Numbers
  <2>2. before(q) = first(q) - off(Tail) /\ before(q)' = first(q)' - off(Tail)'
    BY <2>1 DEF before
  <2>3. QED
    BY <1>0, <1>1, <2>1, <2>2
<1>6. Abs!Close(Poppers, p)
  BY <1>0, <1>3, <1>4, <1>5, CloseMaps
<1>7. asked[p] = num[p]
  BY <1>0 DEF asked
<1>8. QED
  BY <1>0, <1>2, <1>6, <1>7 DEF Abs!CommitPeekPop, asked

(* Every other step is one of the contract or invisible to it.             *)
LEMMA StepMaps ==
  ASSUME Locked, Locked', LayoutInv, [Next /\ ~LayoutFault]_vars
  PROVE  [Abs!Next]_(Abs!vars)
<1>1. LayoutInv' /\ Effect
  BY LayoutStep
<1>2. Mapping /\ Mapping'
  BY <1>1, MappingIs, MappingNext
<1>3. CASE Unmoved
  BY <1>2, <1>3, UnmovedMaps
<1>4. ASSUME NEW p \in Procs,
             PushReserved(p) \/ PopReserved(p) \/ PushCommitted(p) \/ PopCommitted(p)
      PROVE  Abs!Next
  <2>1. CASE PushReserved(p)
    <3>1. p \in Pushers /\ num[p] \in PushNums /\ Abs!ReservePush(p, num[p])
      BY <1>2, <2>1, PushReservedMaps DEF PushReserved
    <3>2. QED
      BY <3>1 DEF Abs!Next
  <2>2. CASE PopReserved(p)
    <3>1. p \in Poppers /\ \E r \in PopRequests : Abs!ReservePeekPop(p, r[1], r[2])
      BY <1>2, <2>2, PopReservedMaps DEF PopReserved
    <3>2. QED
      BY <3>1 DEF Abs!Next
  <2>3. CASE PushCommitted(p)
    BY <1>2, <2>3, PushCommittedMaps DEF Abs!Next
  <2>4. CASE PopCommitted(p)
    BY <1>2, <2>4, PopCommittedMaps DEF Abs!Next
  <2>5. QED
    BY <1>4, <2>1, <2>2, <2>3, <2>4
<1>5. QED
  BY <1>1, <1>3, <1>4 DEF Effect

(* The empty queue is the contract's.                                      *)
LEMMA BeginMaps == Init => Abs!Init
<1> SUFFICES ASSUME Init PROVE Abs!Init
  OBVIOUS
<1>1. Dist(Head, ReservedHead) = 0 /\ Dist(ReservedHead, Tail) = 0 /\ Dist(Tail, ReservedTail) = 0
  BY DEF Init, Dist, getNumFilledElements
<1>2. \A p \in Procs : ~HasWindow(p)
  BY DEF Init, HasWindow
<1>3. opened = [p \in Procs |-> FALSE]
  <2>1. \A p \in Procs : HasWindow(p) = FALSE
    BY <1>2 DEF HasWindow
  <2>2. QED
    BY <2>1 DEF opened
<1>4. behind = [p \in Procs |-> 0] /\ asked = [p \in Procs |-> 0]
  BY <1>2 DEF behind, asked
<1>5. Abs!Procs = Procs
  BY DEF Procs, Abs!Procs
<1>6. QED
  BY <1>1, <1>3, <1>4, <1>5 DEF Abs!Init, opened, behind, asked

(* Growing, compacting and shrinking are invisible to the kernels: every   *)
(* run without a fault is one of the FIFO reserve/commit contract of the   *)
(* largest size, ReserveCommitSpec, step by step.                          *)
THEOREM ImplementsContract ==
  Spec /\ [][~LayoutFault]_vars => ImplementsReserveCommit
<1>1. Spec /\ [][~LayoutFault]_vars => [](LayoutInv /\ Locked)
  BY LayoutIsKept, PTL
<1>2. LayoutInv /\ Locked /\ Locked' /\ [Next]_vars /\ [~LayoutFault]_vars
      => [Abs!Next]_(Abs!vars)
  BY StepMaps
<1>3. QED
  BY <1>1, <1>2, BeginMaps, PTL DEF Spec, Abs!Spec, ImplementsReserveCommit
=============================================================================

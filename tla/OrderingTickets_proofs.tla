------------------------ MODULE OrderingTickets_proofs ------------------------
(***************************************************************************)
(* The tickets, for any number of threads, slots and pops of any sizes.    *)
(* First what is needed of division by the number of slots, which is a     *)
(* constant without a value here.  Then the server: the turn goes from     *)
(* ticket to ticket, round the slots, and one thread has it.  Then the     *)
(* issuer: one pop at a time draws, and its ticket is its number in the    *)
(* order of the pops, so that the pushes follow that order, until a pop    *)
(* takes an index left in its slot by an earlier lap for that of the pop   *)
(* before it (TakesOldIndex).  That step is the only way to lose the       *)
(* order.  It cannot happen with one slot for all, nor with pops of one    *)
(* element and a ring with room for the waiting pops between two writes    *)
(* of a slot; with several slots and pops of several sizes it can.         *)
(***************************************************************************)
EXTENDS OrderingTickets, RingIndex_proofs

(* By name: with EXTENDS the operator Head of the sequences would come in. *)
FS == INSTANCE FiniteSetTheorems

-----------------------------------------------------------------------------
(* Division by the number of slots                                         *)

(* Division with rest: quotient and rest, in range.                        *)
LEMMA DivMod ==
  ASSUME NEW C \in Nat \ {0}, NEW x \in Int
  PROVE  /\ x \div C \in Int /\ x % C \in 0 .. C - 1
         /\ x = C * (x \div C) + (x % C)
<1>1. x \div C \in Int /\ x % C \in 0 .. C - 1
  OBVIOUS
<1>2. x = C * (x \div C) + (x % C)
  OBVIOUS
<1>3. QED
  BY <1>1, <1>2

(* A multiple that is nearer to zero than C is zero.                       *)
LEMMA SmallMultiple ==
  ASSUME NEW C \in Nat \ {0}, NEW k \in Int, -C < C * k, C * k < C
  PROVE  k = 0
<1>1. CASE k >= 1
  <2>1. C * k >= C
    BY <1>1
  <2>2. QED
    BY <2>1
<1>2. CASE k <= -1
  <2>1. C * k <= -C
    BY <1>2
  <2>2. QED
    BY <2>1
<1>3. QED
  BY <1>1, <1>2

(* Numbers of one slot that are nearer to each other than C are equal.     *)
LEMMA SameSlot ==
  ASSUME NEW C \in Nat \ {0}, NEW x \in Int, NEW y \in Int,
         x % C = y % C, -C < x - y, x - y < C
  PROVE  x = y
<1> DEFINE k == (x \div C) - (y \div C)
<1>1. k \in Int /\ x - y = C * k
  BY DivMod
<1>2. k = 0
  BY <1>1, SmallMultiple
<1>3. QED
  BY <1>1, <1>2

(* C further on is the same slot.                                          *)
LEMMA NextLap ==
  ASSUME NEW C \in Nat \ {0}, NEW x \in Int
  PROVE  (x + C) % C = x % C
<1> DEFINE k == ((x + C) \div C) - (x \div C) - 1
           r == x % C
           q == (x + C) % C
<1>1. k \in Int /\ r - q = C * k
  BY DivMod
<1>2. r \in 0 .. C - 1 /\ q \in 0 .. C - 1
  BY DivMod
<1>3. q = r
  <2> HIDE DEF k, r, q
  <2>1. k = 0
    BY <1>1, <1>2, SmallMultiple
  <2>2. QED
    BY <1>1, <1>2, <2>1
<1>4. QED
  BY <1>3

(* A number below C is its own slot.                                       *)
LEMMA OwnSlot ==
  ASSUME NEW C \in Nat \ {0}, NEW x \in 0 .. C - 1
  PROVE  x % C = x
<1> DEFINE k == x \div C
           r == x % C
<1>1. k \in Int /\ r \in 0 .. C - 1 /\ x = C * k + r
  BY DivMod
<1>2. r = x
  <2> HIDE DEF k, r
  <2>1. k = 0
    BY <1>1, SmallMultiple
  <2>2. QED
    BY <1>1, <2>1
<1>3. QED
  BY <1>2

-----------------------------------------------------------------------------
(* The server: one turn                                                    *)

(* The tickets that are drawn and not yet consumed are different numbers   *)
(* below the next one.                                                     *)
TicketsDiffer ==
  /\ IssuedTicket \in Nat
  /\ \A p \in Threads : HasTicket(p) => Ticket[p] \in 0 .. IssuedTicket - 1
  /\ \A p, q \in Threads :
       HasTicket(p) /\ HasTicket(q) /\ Ticket[p] = Ticket[q] => p = q

(* One ticket t is served: the slots hold the last Cores numbers up to t,  *)
(* each in its place; none below t is held, and who has the turn has t.    *)
Serves(t) ==
  /\ t \in 0 .. IssuedTicket
  /\ ServingTicketArray \in [Slots -> Int]
  /\ \A s \in Slots : /\ ServingTicketArray[s] \in t - Cores + 1 .. t
                       /\ ServingTicketArray[s] % Cores = s
  /\ \A p \in Threads : HasTicket(p) => t <= Ticket[p]
  /\ \A p \in Threads : pc[p] \in {"turn", "consume"} => Ticket[p] = t

TurnInv ==
  /\ pc \in [Threads -> PCs] /\ Ticket \in [Threads -> Int]
  /\ TicketsDiffer
  /\ \E t \in Nat : Serves(t)

(* The first ticket is 0, and its slot serves it.                          *)
LEMMA TurnBegins == Init => TurnInv
<1> SUFFICES ASSUME Init PROVE TurnInv
  OBVIOUS
<1>1. ~\E p \in Threads : HasTicket(p)
  BY DEF Init, HasTicket
<1>2. ASSUME NEW s \in Slots
      PROVE  /\ ServingTicketArray[s] \in 0 - Cores + 1 .. 0
             /\ ServingTicketArray[s] % Cores = s
  <2>1. s \in 0 .. Cores - 1 /\ Cores \in Nat \ {0}
    BY TicketAssumption DEF Slots
  <2>2. s % Cores = s
    BY <2>1, OwnSlot
  <2>3. CASE s = 0
    BY <2>1, <2>2, <2>3 DEF Init
  <2>4. CASE s # 0
    <3>1. ServingTicketArray[s] = s - Cores
      BY <2>4 DEF Init
    <3>2. (s - Cores) % Cores = s
      <4>1. ((s - Cores) + Cores) % Cores = (s - Cores) % Cores
        <5>1. s - Cores \in Int
          BY <2>1
        <5>2. QED
          BY <2>1, <5>1, NextLap, Zenon
      <4>2. (s - Cores) + Cores = s
        BY <2>1
      <4>3. QED
        BY <4>1, <4>2, <2>2
    <3>3. QED
      BY <2>1, <2>4, <3>1, <3>2
  <2>5. QED
    BY <2>3, <2>4
<1>3. Serves(0)
  BY <1>1, <1>2, TicketAssumption DEF Init, Serves, HasTicket, Slots
<1>4. QED
  BY <1>1, <1>3 DEF Init, TurnInv, TicketsDiffer, PCs

(* Steps that neither draw a ticket nor ask for a turn nor consume one.    *)
LEMMA QuietStep ==
  ASSUME TurnInv, UNCHANGED <<ServingTicketArray, IssuedTicket>>,
         pc' \in [Threads -> PCs], Ticket' \in [Threads -> Int],
         \A p \in Threads : HasTicket(p)' => HasTicket(p) /\ Ticket'[p] = Ticket[p],
         \A p \in Threads : pc'[p] \in {"turn", "consume"} => pc[p] \in {"turn", "consume"}
  PROVE  TurnInv'
<1>1. TicketsDiffer'
  BY DEF TurnInv, TicketsDiffer
<1>2. PICK t \in Nat : Serves(t)
  BY DEF TurnInv
<1>3. Serves(t)'
  <2>1. \A p \in Threads : pc'[p] \in {"turn", "consume"} => Ticket'[p] = t
    BY <1>2 DEF Serves, HasTicket
  <2>2. \A p \in Threads : HasTicket(p)' => t <= Ticket'[p]
    BY <1>2 DEF Serves
  <2>3. QED
    BY <1>2, <2>1, <2>2 DEF Serves
<1>4. QED
  BY <1>1, <1>3 DEF TurnInv

LEMMA QuietSteps ==
  ASSUME TurnInv, NEW p \in Threads,
         \/ reservePop(p) \/ awaitPreviousPop(p) \/ publishIndex(p) \/ commitPop(p)
         \/ pushInTurn(p)
  PROVE  TurnInv'
<1>1. /\ UNCHANGED <<ServingTicketArray, IssuedTicket>>
      /\ \/ UNCHANGED Ticket
         \/ pc'[p] = "idle" /\ Ticket' = [Ticket EXCEPT ![p] = 0]
      /\ \/ \E c \in {"issue", "number", "idle"} : pc' = [pc EXCEPT ![p] = c]
         \/ pc[p] = "publish" /\ pc' = [pc EXCEPT ![p] = "held"]
         \/ pc[p] = "turn" /\ pc' = [pc EXCEPT ![p] = "consume"]
         \/ UNCHANGED pc
  BY DEF reservePop, awaitPreviousPop, publishIndex, commitPop, pushInTurn, goto, issuer,
         locals, forgetCall, TurnInv
<1>2. pc' \in [Threads -> PCs] /\ Ticket' \in [Threads -> Int]
  BY <1>1 DEF TurnInv, PCs
<1>3. \A q \in Threads : HasTicket(q)' => HasTicket(q) /\ Ticket'[q] = Ticket[q]
  BY <1>1 DEF TurnInv, HasTicket
<1>4. \A q \in Threads : pc'[q] \in {"turn", "consume"} => pc[q] \in {"turn", "consume"}
  BY <1>1 DEF TurnInv
<1>5. QED
  BY <1>1, <1>2, <1>3, <1>4, QuietStep

(* The ticket drawn is a new one, and later than all.                      *)
LEMMA DrawStep ==
  ASSUME TurnInv, NEW p \in Threads, drawTicket(p)
  PROVE  TurnInv'
<1>1. /\ UNCHANGED ServingTicketArray /\ IssuedTicket' = IssuedTicket + 1
      /\ Ticket' = [Ticket EXCEPT ![p] = IssuedTicket]
      /\ pc' = [pc EXCEPT ![p] = "publish"]
  BY DEF drawTicket, goto
<1>2. IssuedTicket \in Nat /\ pc \in [Threads -> PCs] /\ Ticket \in [Threads -> Int]
  BY DEF TurnInv, TicketsDiffer
<1>3. \A q \in Threads \ {p} : /\ HasTicket(q)' <=> HasTicket(q)
                              /\ Ticket'[q] = Ticket[q] /\ pc'[q] = pc[q]
  BY <1>1, <1>2 DEF HasTicket
<1>4. Ticket'[p] = IssuedTicket /\ pc'[p] = "publish"
  BY <1>1, <1>2
<1>5. TicketsDiffer'
  <2>1. \A q \in Threads : HasTicket(q)' => Ticket'[q] \in 0 .. IssuedTicket' - 1
    BY <1>1, <1>2, <1>3, <1>4 DEF TurnInv, TicketsDiffer
  <2>2. \A q \in Threads \ {p} : HasTicket(q)' => Ticket'[q] # Ticket'[p]
    BY <1>2, <1>3, <1>4 DEF TurnInv, TicketsDiffer
  <2>3. \A q, r \in Threads \ {p} :
          HasTicket(q)' /\ HasTicket(r)' /\ Ticket'[q] = Ticket'[r] => q = r
    BY <1>3 DEF TurnInv, TicketsDiffer
  <2>4. QED
    BY <1>1, <1>2, <2>1, <2>2, <2>3 DEF TicketsDiffer
<1>6. PICK t \in Nat : Serves(t)
  BY DEF TurnInv
<1>7. Serves(t)'
  <2>1. t \in 0 .. IssuedTicket'
    BY <1>1, <1>2, <1>6 DEF Serves
  <2>2. \A q \in Threads : HasTicket(q)' => t <= Ticket'[q]
    BY <1>2, <1>3, <1>4, <1>6 DEF Serves
  <2>3. \A q \in Threads : pc'[q] \in {"turn", "consume"} => Ticket'[q] = t
    BY <1>3, <1>4, <1>6 DEF Serves
  <2>4. QED
    BY <1>1, <1>6, <2>1, <2>2, <2>3 DEF Serves
<1>8. pc' \in [Threads -> PCs] /\ Ticket' \in [Threads -> Int]
  BY <1>1, <1>2 DEF PCs
<1>9. QED
  BY <1>5, <1>7, <1>8 DEF TurnInv

(* A slot only says yes to the ticket that is served: the others hold      *)
(* numbers below it, which nobody has any more.                            *)
LEMMA TurnStep ==
  ASSUME TurnInv, NEW p \in Threads, isMyTurn(p)
  PROVE  TurnInv'
<1>1. /\ UNCHANGED <<ServingTicketArray, IssuedTicket, Ticket>>
      /\ pc' = [pc EXCEPT ![p] = "turn"] /\ pc[p] = "held"
      /\ ServingTicketArray[Ticket[p] % Cores] = Ticket[p]
  BY DEF isMyTurn, goto, issuer, locals
<1>2. pc \in [Threads -> PCs] /\ Ticket \in [Threads -> Int]
  BY DEF TurnInv
<1>3. \A q \in Threads : HasTicket(q)' <=> HasTicket(q)
  BY <1>1, <1>2 DEF HasTicket
<1>4. TicketsDiffer'
  BY <1>1, <1>3 DEF TurnInv, TicketsDiffer
<1>5. PICK t \in Nat : Serves(t)
  BY DEF TurnInv
<1>6. Ticket[p] = t
  <2>1. Ticket[p] % Cores \in Slots
    BY <1>2, TicketAssumption, DivMod DEF Slots
  <2>2. ServingTicketArray[Ticket[p] % Cores] \in t - Cores + 1 .. t
    BY <1>5, <2>1 DEF Serves
  <2>3. Ticket[p] <= t
    BY <1>1, <2>2, TicketAssumption
  <2>4. t <= Ticket[p]
    BY <1>1, <1>5 DEF Serves, HasTicket
  <2>5. QED
    BY <1>2, <2>3, <2>4
<1>7. Serves(t)'
  <2>1. \A q \in Threads : pc'[q] \in {"turn", "consume"} => Ticket'[q] = t
    BY <1>1, <1>2, <1>5, <1>6 DEF Serves
  <2>2. QED
    BY <1>1, <1>3, <1>5, <2>1 DEF Serves
<1>8. pc' \in [Threads -> PCs]
  BY <1>1, <1>2 DEF PCs
<1>9. QED
  BY <1>1, <1>2, <1>4, <1>7, <1>8 DEF TurnInv

(* The slot after the one that is served gets the number that comes next;  *)
(* all other slots are less than a lap behind it.                          *)
LEMMA SlotsMoveOn ==
  ASSUME NEW t \in Nat, Serves(t),
         ServingTicketArray' =
           [ServingTicketArray EXCEPT ![(t + 1) % Cores] = @ + Cores]
  PROVE  /\ ServingTicketArray' \in [Slots -> Int]
         /\ \A s \in Slots : /\ ServingTicketArray'[s] \in (t + 1) - Cores + 1 .. t + 1
                              /\ ServingTicketArray'[s] % Cores = s
<1> DEFINE slot == (t + 1) % Cores
<1>1. Cores \in Nat \ {0} /\ slot \in Slots
  BY TicketAssumption, DivMod DEF Slots
<1>2. \A s \in Slots : /\ ServingTicketArray[s] \in t - Cores + 1 .. t
                       /\ ServingTicketArray[s] % Cores = s
  BY DEF Serves
<1>3. ((t + 1 - Cores) + Cores) % Cores = (t + 1 - Cores) % Cores
  <2>1. t + 1 - Cores \in Int
    BY <1>1
  <2>2. QED
    BY <1>1, <2>1, NextLap, Zenon
<1>4. (t + 1 - Cores) % Cores = slot
  <2>1. (t + 1 - Cores) + Cores = t + 1
    BY <1>1
  <2>2. QED
    BY <1>3, <2>1
<1>5. ServingTicketArray[slot] = t + 1 - Cores
  <2> DEFINE a == ServingTicketArray[slot]
             b == t + 1 - Cores
  <2>1. a \in Int /\ b \in Int /\ a % Cores = b % Cores
    BY <1>1, <1>2, <1>4
  <2>2. -Cores < a - b /\ a - b < Cores
    BY <1>1, <1>2
  <2>3. a = b
    <3> HIDE DEF a, b
    <3>1. QED
      BY <1>1, <2>1, <2>2, SameSlot
  <2>4. QED
    BY <2>3
<1>6. ServingTicketArray \in [Slots -> Int]
  BY DEF Serves
<1>7. ServingTicketArray'[slot] = t + 1
  BY <1>1, <1>5, <1>6
<1>8. \A s \in Slots \ {slot} :
        ServingTicketArray'[s] = ServingTicketArray[s] /\ ServingTicketArray[s] # t + 1 - Cores
  BY <1>1, <1>2, <1>4, <1>6
<1>9. \A s \in Slots : ServingTicketArray'[s] \in (t + 1) - Cores + 1 .. t + 1
  <2> SUFFICES ASSUME NEW s \in Slots
               PROVE  ServingTicketArray'[s] \in (t + 1) - Cores + 1 .. t + 1
    OBVIOUS
  <2> HIDE DEF slot
  <2>1. CASE s = slot
    BY <1>1, <1>7, <2>1
  <2>2. CASE s # slot
    BY <1>1, <1>2, <1>8, <2>2
  <2>3. QED
    BY <2>1, <2>2
<1>10. \A s \in Slots : ServingTicketArray'[s] % Cores = s
  BY <1>2, <1>7, <1>8
<1>11. ServingTicketArray' \in [Slots -> Int]
  BY <1>1, <1>6
<1>12. QED
  BY <1>9, <1>10, <1>11

(* consume_safe passes the turn on from ticket t to ticket t + 1.          *)
LEMMA ConsumeStep ==
  ASSUME TurnInv, NEW p \in Threads, consume_safe(p)
  PROVE  TurnInv'
<1>1. /\ UNCHANGED IssuedTicket /\ pc[p] = "consume"
      /\ ServingTicketArray' =
           [ServingTicketArray EXCEPT ![(Ticket[p] + 1) % Cores] = @ + Cores]
      /\ \/ UNCHANGED Ticket /\ pc' = [pc EXCEPT ![p] = "pushed"]
         \/ Ticket' = [Ticket EXCEPT ![p] = 0] /\ pc' = [pc EXCEPT ![p] = "idle"]
  BY DEF consume_safe, serveAt, goto, forgetCall, locals, issuer
<1>2. pc \in [Threads -> PCs] /\ Ticket \in [Threads -> Int]
  BY DEF TurnInv
<1>3. pc' \in [Threads -> PCs] /\ Ticket' \in [Threads -> Int]
  BY <1>1, <1>2 DEF PCs
<1>4. \A q \in Threads : HasTicket(q)' =>
        q # p /\ HasTicket(q) /\ Ticket'[q] = Ticket[q] /\ pc'[q] = pc[q]
  BY <1>1, <1>2 DEF HasTicket
<1>5. TicketsDiffer'
  BY <1>1, <1>4 DEF TurnInv, TicketsDiffer
<1>6. PICK t \in Nat : Serves(t)
  BY DEF TurnInv
<1>7. Ticket[p] = t /\ HasTicket(p)
  BY <1>1, <1>6 DEF Serves, HasTicket
<1>8. Serves(t + 1)'
  <2>1. t + 1 \in 0 .. IssuedTicket'
    BY <1>1, <1>7 DEF TurnInv, TicketsDiffer
  <2>2. \A q \in Threads : HasTicket(q)' => t + 1 <= Ticket'[q]
    BY <1>2, <1>4, <1>6, <1>7 DEF TurnInv, TicketsDiffer, Serves
  <2>3. \A q \in Threads : pc'[q] \notin {"turn", "consume"}
    <3> SUFFICES ASSUME NEW q \in Threads, pc'[q] \in {"turn", "consume"} PROVE FALSE
      OBVIOUS
    <3>1. HasTicket(q)'
      BY DEF HasTicket
    <3>2. q # p /\ Ticket[q] = t /\ HasTicket(q)
      BY <1>4, <1>6, <3>1 DEF Serves
    <3>3. QED
      BY <1>7, <3>2 DEF TurnInv, TicketsDiffer
  <2>4. /\ ServingTicketArray' \in [Slots -> Int]
        /\ \A s \in Slots : /\ ServingTicketArray'[s] \in (t + 1) - Cores + 1 .. t + 1
                             /\ ServingTicketArray'[s] % Cores = s
    BY <1>1, <1>6, <1>7, SlotsMoveOn
  <2>5. QED
    BY <2>1, <2>2, <2>3, <2>4 DEF Serves
<1>9. QED
  BY <1>3, <1>5, <1>8 DEF TurnInv

LEMMA TicketsStep == TurnInv /\ [Next]_vars => TurnInv'
<1> SUFFICES ASSUME TurnInv, [Next]_vars PROVE TurnInv'
  OBVIOUS
<1>1. CASE UNCHANGED vars
  <2>1. UNCHANGED <<ServingTicketArray, IssuedTicket, Ticket, pc>>
    BY <1>1 DEF vars, issuer, locals
  <2>2. QED
    BY <2>1, QuietStep DEF TurnInv, HasTicket
<1>2. ASSUME NEW p \in Threads, reservePop(p) \/ proceed(p) PROVE TurnInv'
  BY <1>2, QuietSteps, DrawStep, TurnStep, ConsumeStep DEF proceed, issue
<1>3. QED
  BY <1>1, <1>2 DEF Next, streamEnds

(* The inductive invariant of the ticket server: one ticket is served, and *)
(* who has the turn holds it.                                              *)
THEOREM OneTicketIsServed == Spec => []TurnInv
BY TurnBegins, TicketsStep, PTL DEF Spec

(* For every number of threads and of slots: between isMyTurn and          *)
(* consume_safe a thread is alone.                                         *)
THEOREM OneTurnHolds == Spec => []OneTurn
<1>1. TurnInv => OneTurn
  BY DEF TurnInv, TicketsDiffer, Serves, OneTurn, HasTicket
<1>2. QED
  BY <1>1, OneTicketIsServed, PTL

-----------------------------------------------------------------------------
(* The order of the tickets                                                *)

(* Index of a place in the input stream, and its slot of the arrays.       *)
idx(x) == x % NumElm
slot(x) == idx(x) % Cores

(* Every pop has a number of its own.                                      *)
ClaimsDiffer ==
  /\ claims \in 0 .. MaxClaims
  /\ \A p \in Threads :
       IF pc[p] = "idle" THEN claim[p] = 0 ELSE claim[p] \in 1 .. claims
  /\ \A p, q \in Threads : claim[p] = claim[q] /\ claim[p] # 0 => p = q

(* The first n pops have published their index and have tickets in order.  *)
Published(n) ==
  /\ \A p \in Threads :
       /\ pc[p] = "issue" => claim[p] > n
       /\ pc[p] \in {"number", "publish"} => claim[p] = n + 1
       /\ pc[p] \in {"held", "turn", "consume", "pushed"} => claim[p] <= n
       /\ HasTicket(p) => Ticket[p] = claim[p] - 1
       /\ pc[p] = "number" => IssuedTicket = n
       /\ pc[p] = "publish" => IssuedTicket = n + 1
  /\ \A c \in n + 1 .. claims : \E p \in Threads : claim[p] = c
  /\ IssuedTicket # n => \E p \in Threads : pc[p] = "publish"

(* place[c] elements of the stream belong to the first c pops.             *)
Places(place) ==
  /\ \A c, d \in 0 .. claims : c < d => place[c] < place[d]
  /\ PopNums = {1} => \A c \in 0 .. claims : place[c] = c
  /\ ReservedHead = idx(place[claims])
  /\ \A p \in Threads : pc[p] # "idle" =>
       OldIndex[p] = idx(place[claim[p] - 1]) /\ NewIndex(p) = idx(place[claim[p]])

(* The last index published in slot s is that of pop c.                    *)
Latest(place, s, c, n) ==
  /\ LastIndexArray[s] = idx(place[c]) /\ slot(place[c]) = s
  /\ \A d \in c + 1 .. n : slot(place[d]) # s

Written(place, n) ==
  \A s \in Slots : LastIndexArray[s] = -1 \/ \E c \in 0 .. n : Latest(place, s, c, n)

(* The first h pops are committed, all others that are reserved are open.  *)
Committed(place, h) ==
  /\ place[claims] - place[h] < NumElm /\ Head = idx(place[h])
  /\ \A p \in Threads : uncommitted[p] => claim[p] > h

Order(place, n, h) ==
  Places(place) /\ Published(n) /\ Written(place, n) /\ Committed(place, h)

OrderInv ==
  /\ ClaimsDiffer
  /\ \E place \in [0 .. claims -> Int], n \in 0 .. claims :
       \E h \in 0 .. n : Order(place, n, h)

(* A pop goes on to draw although an earlier one has not published yet:    *)
(* the index it waits for was left in the slot by a pop of another lap.    *)
TakesOldIndex ==
  \E p, q \in Threads :
    /\ awaitPreviousPop(p)
    /\ claim[q] \in 1 .. claim[p] - 1 /\ pc[q] \in {"issue", "number", "publish"}

(* The rest is the only number in its range at a multiple's distance.      *)
LEMMA ModIs ==
  ASSUME NEW C \in Nat \ {0}, NEW k \in Int, NEW r \in 0 .. C - 1
  PROVE  (C * k + r) % C = r
<1> DEFINE x == C * k + r
           j == (x \div C) - k
           m == x % C
<1>1. x \in Int /\ C * k \in Int
  OBVIOUS
<1>2. m \in 0 .. C - 1 /\ j \in Int /\ r - m = C * j
  <2>1. x \div C \in Int /\ m \in 0 .. C - 1 /\ x = C * (x \div C) + m
    BY <1>1, DivMod
  <2> DEFINE y == x \div C
  <2>2. y \in Int /\ x = C * y + m
    BY <2>1
  <2>3. r - m = C * (y - k)
    <3> HIDE DEF y, m
    <3>1. QED
      BY <2>1, <2>2
  <2>4. QED
    BY <2>1, <2>3
<1>3. j = 0
  <2> HIDE DEF j, m, x
  <2>1. -C < C * j /\ C * j < C
    BY <1>2
  <2>2. QED
    BY <1>2, <2>1, SmallMultiple
<1>4. QED
  BY <1>2, <1>3

(* Every number has its slot.                                              *)
LEMMA SlotType == ASSUME NEW x \in Int PROVE x % Cores \in Slots
BY TicketAssumption, DivMod DEF Slots

(* Indices are in the ring, slots in the arrays.                           *)
LEMMA IdxType ==
  ASSUME NEW c \in Int PROVE idx(c) \in 0 .. NumElm - 1 /\ slot(c) \in Slots
BY TicketAssumption, DivMod DEF idx, slot, Slots

(* Elements less than a ring apart have different indices.                 *)
LEMMA SameIdx ==
  ASSUME NEW a \in Int, NEW b \in Int, idx(a) = idx(b), -NumElm < a - b, a - b < NumElm
  PROVE  a = b
BY SameSlot, TicketAssumption DEF idx

(* The index k elements further.                                           *)
LEMMA Further ==
  ASSUME NEW x \in Int, NEW k \in 1 .. NumElm - 1
  PROVE  advance(NumElm, idx(x), k) = idx(x + k)
<1> DEFINE q == x \div NumElm
           r == idx(x)
<1>1. NumElm \in Nat \ {0} /\ NumElm >= 2
  BY TicketAssumption
<1>2. q \in Int /\ r \in 0 .. NumElm - 1 /\ x = NumElm * q + r
  BY <1>1, DivMod DEF idx
<1> HIDE DEF q, r
<1>3. CASE r + k < NumElm
  <2>1. x + k = NumElm * q + (r + k) /\ r + k \in 0 .. NumElm - 1
    BY <1>1, <1>2, <1>3
  <2>2. idx(x + k) = r + k
    <3>1. (NumElm * q + (r + k)) % NumElm = r + k
      BY <1>1, <1>2, <2>1, ModIs, Zenon
    <3>2. QED
      BY <2>1, <3>1, Zenon DEF idx
  <2>3. advance(NumElm, r, k) = r + k
    BY <1>1, <1>2, <1>3 DEF advance
  <2>4. QED
    BY <2>2, <2>3 DEF r
<1>4. CASE ~(r + k < NumElm)
  <2> DEFINE m == r + k - NumElm
  <2>1. m \in 0 .. NumElm - 1 /\ q + 1 \in Int
    BY <1>1, <1>2, <1>4
  <2>2. x + k = NumElm * (q + 1) + m
    BY <1>1, <1>2
  <2>3. advance(NumElm, r, k) = m
    BY <1>1, <1>2, <1>4 DEF advance
  <2> HIDE DEF m
  <2>4. idx(x + k) = m
    <3>1. (NumElm * (q + 1) + m) % NumElm = m
      BY <1>1, <2>1, ModIs, Zenon
    <3>2. QED
      BY <2>2, <3>1, Zenon DEF idx
  <2>5. QED
    BY <2>3, <2>4 DEF r
<1>5. QED
  BY <1>3, <1>4

-----------------------------------------------------------------------------
(* Types                                                                   *)

Undrawn == { p \in Threads : pc[p] \in {"issue", "number"} }

(* A ticket is drawn for each pop, once: as many are issued as there were  *)
(* pops, less those that have not drawn yet.                               *)
TypeInv ==
  /\ TypeOK
  /\ LastIndexArray \in [Slots -> Int] /\ ServingTicketArray \in [Slots -> Int]
  /\ claim \in [Threads -> Int] /\ claims \in 0 .. MaxClaims
  /\ FS!IsFiniteSet(Undrawn) /\ IssuedTicket + FS!Cardinality(Undrawn) = claims

LEMMA TypesBegin == Init => TypeInv
<1> SUFFICES ASSUME Init PROVE TypeInv
  OBVIOUS
<1>1. NumElm \in Nat /\ NumElm >= 2 /\ Cores \in Nat \ {0} /\ MaxClaims \in Nat
  BY TicketAssumption
<1>2. Undrawn = {}
  BY DEF Init, Undrawn
<1>3. \A s \in Slots : s \in 0 .. Cores - 1 /\ s % Cores = s
  BY <1>1, OwnSlot DEF Slots
<1>4. \A s \in Slots :
        LastIndexArray[s] \in {-1} \cup { i \in 0 .. (NumElm - 1) : i % Cores = s }
  BY <1>1, <1>3 DEF Init
<1>5. \A s \in Slots : ServingTicketArray[s] % Cores = s
  BY TurnBegins DEF TurnInv, Serves
<1>6. LastIndexArray \in [Slots -> Int] /\ ServingTicketArray \in [Slots -> Int]
  BY <1>1, <1>3 DEF Init
<1>7. TypeOK
  BY <1>1, <1>4, <1>5 DEF TypeOK, Init, PCs
<1>8. QED
  BY <1>1, <1>2, <1>6, <1>7, FS!FS_EmptySet DEF TypeInv, Init

(* The indices a pop works with are in the ring.                           *)
LEMMA NewIndexType ==
  ASSUME TypeInv, NEW p \in Threads
  PROVE  NewIndex(p) \in 0 .. NumElm - 1 /\ NewIndex(p) % Cores \in Slots
<1>1. OldIndex[p] \in 0 .. NumElm - 1 /\ num[p] \in 0 .. NumElm - 1 /\ NumElm \in Nat
  BY TicketAssumption DEF TypeInv, TypeOK
<1>2. NewIndex(p) \in 0 .. NumElm - 1
  BY <1>1, AdvanceInRing DEF NewIndex
<1>3. QED
  BY <1>2, SlotType

(* Steps that neither start a pop nor draw a ticket nor write an array.    *)
LEMMA QuietTypes ==
  ASSUME TypeInv, UNCHANGED <<IssuedTicket, claims, LastIndexArray, ServingTicketArray>>,
         Head' \in 0 .. NumElm - 1, UNCHANGED ReservedHead, Undrawn' = Undrawn,
         OldIndex' \in [Threads -> 0 .. (NumElm - 1)],
         num' \in [Threads -> 1 .. (NumElm - 1)],
         Ticket' \in [Threads -> 0 .. MaxClaims],
         uncommitted' \in [Threads -> BOOLEAN],
         pc' \in [Threads -> PCs], claim' \in [Threads -> Int]
  PROVE  TypeInv'
<1>1. TypeOK'
  BY DEF TypeInv, TypeOK
<1>2. QED
  BY <1>1 DEF TypeInv

(* One more pop, and one more that has to draw.                            *)
LEMMA TypesReserve ==
  ASSUME TypeInv, NEW p \in Threads, reservePop(p)
  PROVE  TypeInv'
<1>1. PICK k \in PopNums :
        /\ claims < MaxClaims /\ pc[p] = "idle" /\ pc' = [pc EXCEPT ![p] = "issue"]
        /\ OldIndex' = [OldIndex EXCEPT ![p] = ReservedHead]
        /\ num' = [num EXCEPT ![p] = k]
        /\ ReservedHead' = advance(NumElm, ReservedHead, k)
        /\ uncommitted' = [uncommitted EXCEPT ![p] = TRUE]
        /\ claims' = claims + 1 /\ claim' = [claim EXCEPT ![p] = claims + 1]
        /\ UNCHANGED <<Head, IssuedTicket, LastIndexArray, ServingTicketArray, Ticket>>
  BY DEF reservePop, goto, issuer
<1>2. NumElm \in Nat /\ NumElm >= 2 /\ k \in 1 .. (NumElm - 1) /\ MaxClaims \in Nat
  BY TicketAssumption
<1>3. ReservedHead' \in 0 .. NumElm - 1
  BY <1>1, <1>2, AdvanceInRing DEF TypeInv, TypeOK
<1>4. TypeOK'
  BY <1>1, <1>2, <1>3 DEF TypeInv, TypeOK, PCs
<1>5. Undrawn' = Undrawn \cup {p} /\ p \notin Undrawn
  BY <1>1 DEF TypeInv, TypeOK, Undrawn
<1>6. /\ FS!IsFiniteSet(Undrawn') /\ FS!Cardinality(Undrawn) \in Nat
      /\ FS!Cardinality(Undrawn') = FS!Cardinality(Undrawn) + 1
  BY <1>5, FS!FS_AddElement, FS!FS_CardinalityType DEF TypeInv
<1>7. QED
  BY <1>1, <1>2, <1>4, <1>6 DEF TypeInv, TypeOK

(* One ticket more, and one pop less that has to draw.                     *)
LEMMA TypesDraw ==
  ASSUME TypeInv, NEW p \in Threads, drawTicket(p)
  PROVE  TypeInv'
<1>1. /\ pc[p] = "number" /\ pc' = [pc EXCEPT ![p] = "publish"]
      /\ Ticket' = [Ticket EXCEPT ![p] = IssuedTicket] /\ IssuedTicket' = IssuedTicket + 1
      /\ UNCHANGED <<Head, ReservedHead, LastIndexArray, ServingTicketArray, OldIndex, num,
                     uncommitted, claims, claim>>
  BY DEF drawTicket, goto, queue, history
<1>2. MaxClaims \in Nat
  BY TicketAssumption
<1>3. Undrawn' = Undrawn \ {p} /\ p \in Undrawn
  BY <1>1 DEF TypeInv, TypeOK, Undrawn
<1>4. /\ FS!IsFiniteSet(Undrawn') /\ FS!Cardinality(Undrawn) \in Nat
      /\ FS!Cardinality(Undrawn') \in Nat
      /\ FS!Cardinality(Undrawn') = FS!Cardinality(Undrawn) - 1
  BY <1>3, FS!FS_RemoveElement, FS!FS_CardinalityType DEF TypeInv
<1>5. IssuedTicket + FS!Cardinality(Undrawn) = claims /\ claims \in 0 .. MaxClaims
      /\ IssuedTicket \in Nat
  BY <1>2 DEF TypeInv, TypeOK
<1>6. IssuedTicket' \in 0 .. MaxClaims
  BY <1>1, <1>2, <1>4, <1>5
<1>7. TypeOK'
  BY <1>1, <1>6 DEF TypeInv, TypeOK, PCs
<1>8. IssuedTicket' + FS!Cardinality(Undrawn') = claims'
  BY <1>1, <1>4, <1>5
<1>9. QED
  BY <1>1, <1>4, <1>7, <1>8 DEF TypeInv

(* The index goes to the slot it hashes to.                                *)
LEMMA TypesPublish ==
  ASSUME TypeInv, NEW p \in Threads, publishIndex(p)
  PROVE  TypeInv'
<1> DEFINE k == NewIndex(p)
           s == k % Cores
<1>1. /\ pc[p] = "publish" /\ pc' = [pc EXCEPT ![p] = "held"]
      /\ LastIndexArray' = [LastIndexArray EXCEPT ![s] = k]
      /\ UNCHANGED <<Head, ReservedHead, IssuedTicket, ServingTicketArray, OldIndex, num,
                     Ticket, uncommitted, claims, claim>>
  BY DEF publishIndex, goto, queue, locals, history
<1>2. k \in 0 .. NumElm - 1 /\ s \in Slots
  BY NewIndexType
<1>3. \A r \in Slots :
        LastIndexArray'[r] \in {-1} \cup { i \in 0 .. (NumElm - 1) : i % Cores = r }
  <2> SUFFICES ASSUME NEW r \in Slots
               PROVE  LastIndexArray'[r]
                        \in {-1} \cup { i \in 0 .. (NumElm - 1) : i % Cores = r }
    OBVIOUS
  <2>1. LastIndexArray'[r] = IF r = s THEN k ELSE LastIndexArray[r]
    BY <1>1, <1>2 DEF TypeInv
  <2>2. QED
    BY <1>2, <2>1 DEF TypeInv, TypeOK
<1>4. TypeOK'
  BY <1>1, <1>3 DEF TypeInv, TypeOK, PCs
<1>5. LastIndexArray' \in [Slots -> Int]
  BY <1>1, <1>2 DEF TypeInv
<1>6. Undrawn' = Undrawn
  BY <1>1 DEF TypeInv, TypeOK, Undrawn
<1>7. QED
  BY <1>1, <1>4, <1>5, <1>6 DEF TypeInv

(* A slot moves by a whole lap and keeps its place.                        *)
LEMMA TypesConsume ==
  ASSUME TypeInv, NEW p \in Threads, consume_safe(p)
  PROVE  TypeInv'
<1> DEFINE s == (Ticket[p] + 1) % Cores
<1>1. /\ pc[p] = "consume"
      /\ \/ pc' = [pc EXCEPT ![p] = "pushed"] /\ UNCHANGED <<OldIndex, num, Ticket, claim>>
         \/ /\ pc' = [pc EXCEPT ![p] = "idle"]
            /\ OldIndex' = [OldIndex EXCEPT ![p] = 0] /\ num' = [num EXCEPT ![p] = 1]
            /\ Ticket' = [Ticket EXCEPT ![p] = 0] /\ claim' = [claim EXCEPT ![p] = 0]
      /\ ServingTicketArray' = [ServingTicketArray EXCEPT ![s] = @ + Cores]
      /\ UNCHANGED <<Head, ReservedHead, IssuedTicket, LastIndexArray, uncommitted, claims>>
  BY DEF consume_safe, serveAt, goto, queue, issuer, locals, forgetCall
<1>2. /\ NumElm \in Nat /\ NumElm >= 2 /\ Cores \in Nat \ {0} /\ MaxClaims \in Nat
      /\ s \in Slots
  <2>1. Ticket[p] + 1 \in Int
    BY TicketAssumption DEF TypeInv, TypeOK
  <2>2. s \in Slots
    BY <2>1, SlotType
  <2>3. QED
    BY <2>2, TicketAssumption
<1>3. \A r \in Slots : ServingTicketArray'[r] % Cores = r
  <2> SUFFICES ASSUME NEW r \in Slots PROVE ServingTicketArray'[r] % Cores = r
    OBVIOUS
  <2> DEFINE a == ServingTicketArray[r]
  <2>1. a \in Int /\ a % Cores = r
    BY DEF TypeInv, TypeOK
  <2>2. (a + Cores) % Cores = r
    <3> HIDE DEF a
    <3>1. QED
      BY <1>2, <2>1, NextLap
  <2>3. ServingTicketArray'[r] = a \/ ServingTicketArray'[r] = a + Cores
    BY <1>1, <1>2 DEF TypeInv
  <2>4. QED
    BY <2>1, <2>2, <2>3
<1>4. ServingTicketArray' \in [Slots -> Int]
  <2> HIDE DEF s
  <2>1. QED
    BY <1>1, <1>2 DEF TypeInv
<1>5. /\ OldIndex' \in [Threads -> 0 .. (NumElm - 1)]
      /\ num' \in [Threads -> 1 .. (NumElm - 1)]
      /\ Ticket' \in [Threads -> 0 .. MaxClaims]
      /\ pc' \in [Threads -> PCs] /\ claim' \in [Threads -> Int]
  BY <1>1, <1>2 DEF TypeInv, TypeOK, PCs
<1>6. TypeOK'
  BY <1>1, <1>3, <1>5 DEF TypeInv, TypeOK
<1>7. Undrawn' = Undrawn
  BY <1>1 DEF TypeInv, TypeOK, Undrawn
<1>8. QED
  BY <1>1, <1>4, <1>5, <1>6, <1>7 DEF TypeInv

LEMMA TypesQuietSteps ==
  ASSUME TypeInv, NEW p \in Threads,
         awaitPreviousPop(p) \/ commitPop(p) \/ isMyTurn(p) \/ pushInTurn(p)
  PROVE  TypeInv'
<1>1. /\ UNCHANGED <<IssuedTicket, claims, LastIndexArray, ServingTicketArray, ReservedHead>>
      /\ Head' \in {Head, NewIndex(p)}
      /\ \/ pc[p] = "issue" /\ pc' = [pc EXCEPT ![p] = "number"]
         \/ pc[p] = "held" /\ pc' = [pc EXCEPT ![p] = "turn"]
         \/ pc[p] = "turn" /\ pc' = [pc EXCEPT ![p] = "consume"]
         \/ pc[p] = "pushed" /\ pc' = [pc EXCEPT ![p] = "idle"]
         \/ UNCHANGED pc
      /\ UNCHANGED uncommitted \/ uncommitted' = [uncommitted EXCEPT ![p] = FALSE]
      /\ \/ UNCHANGED <<OldIndex, num, Ticket, claim>>
         \/ /\ OldIndex' = [OldIndex EXCEPT ![p] = 0] /\ num' = [num EXCEPT ![p] = 1]
            /\ Ticket' = [Ticket EXCEPT ![p] = 0] /\ claim' = [claim EXCEPT ![p] = 0]
  BY DEF awaitPreviousPop, commitPop, isMyTurn, pushInTurn, goto, queue, issuer, locals,
         history, forgetCall
<1>2. NumElm \in Nat /\ NumElm >= 2 /\ MaxClaims \in Nat
  BY TicketAssumption
<1>3. Head' \in 0 .. NumElm - 1
  BY <1>1, NewIndexType DEF TypeInv, TypeOK
<1>4. Undrawn' = Undrawn
  BY <1>1 DEF TypeInv, TypeOK, Undrawn
<1>5. /\ OldIndex' \in [Threads -> 0 .. (NumElm - 1)]
      /\ num' \in [Threads -> 1 .. (NumElm - 1)]
      /\ Ticket' \in [Threads -> 0 .. MaxClaims]
      /\ claim' \in [Threads -> Int]
  BY <1>1, <1>2 DEF TypeInv, TypeOK
<1>6. pc' \in [Threads -> PCs] /\ uncommitted' \in [Threads -> BOOLEAN]
  BY <1>1 DEF TypeInv, TypeOK, PCs
<1>7. QED
  BY <1>1, <1>3, <1>4, <1>5, <1>6, QuietTypes

LEMMA TypesStep == TypeInv /\ [Next]_vars => TypeInv'
<1> SUFFICES ASSUME TypeInv, [Next]_vars PROVE TypeInv'
  OBVIOUS
<1>1. CASE UNCHANGED vars
  <2>1. UNCHANGED <<Head, ReservedHead, IssuedTicket, LastIndexArray, ServingTicketArray,
                    OldIndex, num, Ticket, uncommitted, pc, claims, claim>>
    BY <1>1 DEF vars, queue, issuer, locals, history
  <2>2. TypeOK' /\ Undrawn' = Undrawn
    BY <2>1 DEF TypeInv, TypeOK, Undrawn
  <2>3. QED
    BY <2>1, <2>2 DEF TypeInv
<1>2. ASSUME NEW p \in Threads, reservePop(p) \/ proceed(p) PROVE TypeInv'
  BY <1>2, TypesReserve, TypesDraw, TypesPublish, TypesConsume, TypesQuietSteps
     DEF proceed, issue
<1>3. QED
  BY <1>1, <1>2 DEF Next, streamEnds

(* The types and the count of tickets are an invariant.                    *)
THEOREM TypesHold == Spec => []TypeInv
BY TypesBegin, TypesStep, PTL DEF Spec

(* For every number of threads, slots and pops, and pops of every size:    *)
(* the types hold, each array slot holds values of its own slot, and no    *)
(* more tickets are drawn than there were pops.                            *)
THEOREM TypeOKHolds == Spec => []TypeOK
<1>1. TypeInv => TypeOK
  BY DEF TypeInv
<1>2. QED
  BY <1>1, TypesHold, PTL

-----------------------------------------------------------------------------
(* The order is kept                                                       *)

(* Elements less than a ring apart: their distance round the ring.         *)
LEMMA DistOfIdx ==
  ASSUME NEW a \in Int, NEW b \in Int, a <= b, b - a < NumElm
  PROVE  getNumFilledElements(NumElm, idx(a), idx(b)) = b - a
<1>1. NumElm \in Nat \ {0}
  BY TicketAssumption
<1>2. PICK j \in Int, x \in 0 .. NumElm - 1 : a = NumElm * j + x /\ idx(a) = x
  BY <1>1, DivMod DEF idx
<1>3. PICK k \in Int, y \in 0 .. NumElm - 1 : b = NumElm * k + y /\ idx(b) = y
  BY <1>1, DivMod DEF idx
<1>4. NumElm * (k - j) = (b - a) + (x - y)
  BY <1>1, <1>2, <1>3
<1>5. k - j \in {0, 1}
  <2>1. CASE k - j <= -1
    <3>1. NumElm * (k - j) <= -NumElm
      BY <1>1, <2>1
    <3>2. QED
      BY <1>1, <1>4, <3>1
  <2>2. CASE k - j >= 2
    <3>1. NumElm * (k - j) >= 2 * NumElm
      BY <1>1, <2>2
    <3>2. QED
      BY <1>1, <1>4, <3>1
  <2>3. QED
    BY <2>1, <2>2
<1>6. CASE k - j = 0
  <2>1. b - a = y - x
    BY <1>1, <1>4, <1>6
  <2>2. QED
    BY <1>1, <1>2, <1>3, <2>1 DEF getNumFilledElements
<1>7. CASE k - j = 1
  <2>1. b - a = NumElm - (x - y)
    BY <1>1, <1>4, <1>7
  <2>2. QED
    BY <1>1, <1>2, <1>3, <2>1 DEF getNumFilledElements
<1>8. QED
  BY <1>5, <1>6, <1>7

LEMMA OrderBegins == Init => OrderInv
<1> SUFFICES ASSUME Init PROVE OrderInv
  OBVIOUS
<1>1. NumElm \in Nat /\ NumElm >= 2 /\ MaxClaims \in Nat /\ Cores \in Nat \ {0}
  BY TicketAssumption
<1>2. idx(0) = 0 /\ slot(0) = 0
  BY <1>1, OwnSlot DEF idx, slot
<1> DEFINE place == [c \in 0 .. 0 |-> 0]
<1>3. place \in [0 .. claims -> Int] /\ place[0] = 0 /\ claims = 0
  BY DEF Init
<1> HIDE DEF place
<1>4. ClaimsDiffer
  BY <1>1 DEF Init, ClaimsDiffer
<1>5. Published(0)
  BY DEF Init, Published, HasTicket
<1>6. Places(place)
  BY <1>2, <1>3 DEF Init, Places
<1>7. Written(place, 0)
  <2>1. \A s \in Slots : LastIndexArray[s] = -1 \/ Latest(place, s, 0, 0)
    BY <1>1, <1>2, <1>3 DEF Init, Latest
  <2>2. QED
    BY <2>1 DEF Written
<1>8. Committed(place, 0)
  BY <1>1, <1>2, <1>3 DEF Init, Committed
<1>9. QED
  BY <1>3, <1>4, <1>5, <1>6, <1>7, <1>8 DEF OrderInv, Order

(* A thread keeps its pop, or is done with it.                             *)
Keeps(p) ==
  /\ claim'[p] = claim[p] /\ OldIndex'[p] = OldIndex[p] /\ num'[p] = num[p]
  /\ pc'[p] = "idle" <=> pc[p] = "idle"

Forgets(p) == pc'[p] = "idle" /\ claim'[p] = 0

LEMMA SameClaims ==
  ASSUME ClaimsDiffer, UNCHANGED <<claims, ReservedHead>>,
         \A p \in Threads : Keeps(p) \/ Forgets(p)
  PROVE  /\ ClaimsDiffer'
         /\ \A place \in [0 .. claims -> Int] : Places(place) => Places(place)'
<1>1. ClaimsDiffer'
  <2>1. \A p \in Threads :
          IF pc'[p] = "idle" THEN claim'[p] = 0 ELSE claim'[p] \in 1 .. claims'
    BY DEF ClaimsDiffer, Keeps, Forgets
  <2>2. \A p, q \in Threads : claim'[p] = claim'[q] /\ claim'[p] # 0 => p = q
    BY DEF ClaimsDiffer, Keeps, Forgets
  <2>3. QED
    BY <2>1, <2>2 DEF ClaimsDiffer
<1>2. ASSUME NEW place \in [0 .. claims -> Int], Places(place)
      PROVE  Places(place)'
  <2>1. ASSUME NEW p \in Threads, pc'[p] # "idle"
        PROVE  /\ OldIndex'[p] = idx(place[claim'[p] - 1])
               /\ NewIndex(p)' = idx(place[claim'[p]])
    <3>1. Keeps(p)
      BY <2>1 DEF Forgets
    <3>2. NewIndex(p)' = NewIndex(p)
      BY <3>1 DEF Keeps, NewIndex
    <3>3. QED
      BY <1>2, <2>1, <3>1, <3>2 DEF Places, Keeps
  <2>2. QED
    BY <1>2, <2>1 DEF Places
<1>3. QED
  BY <1>1, <1>2

Behind == {"held", "turn", "consume", "pushed"}

(* Only threads that have their ticket and published their index move.     *)
LEMMA SamePublished ==
  ASSUME NEW n \in Nat, Published(n), n <= claims, claims \in Nat,
         UNCHANGED <<claims, IssuedTicket>>,
         \A p \in Threads :
           \/ pc'[p] = pc[p] /\ claim'[p] = claim[p] /\ Ticket'[p] = Ticket[p]
           \/ /\ pc[p] \in Behind /\ pc'[p] \in Behind
              /\ claim'[p] = claim[p] /\ Ticket'[p] = Ticket[p]
              /\ HasTicket(p)' => HasTicket(p)
           \/ pc[p] \in Behind /\ Forgets(p)
  PROVE  Published(n)'
<1>1. \A p \in Threads :
        /\ pc'[p] = "issue" => claim'[p] > n
        /\ pc'[p] \in {"number", "publish"} => claim'[p] = n + 1
        /\ pc'[p] \in Behind => claim'[p] <= n
        /\ HasTicket(p)' => Ticket'[p] = claim'[p] - 1
        /\ pc'[p] = "number" => IssuedTicket' = n
        /\ pc'[p] = "publish" => IssuedTicket' = n + 1
  <2> SUFFICES ASSUME NEW p \in Threads
      PROVE  /\ pc'[p] = "issue" => claim'[p] > n
             /\ pc'[p] \in {"number", "publish"} => claim'[p] = n + 1
             /\ pc'[p] \in Behind => claim'[p] <= n
             /\ HasTicket(p)' => Ticket'[p] = claim'[p] - 1
             /\ pc'[p] = "number" => IssuedTicket' = n
             /\ pc'[p] = "publish" => IssuedTicket' = n + 1
    OBVIOUS
  <2>1. CASE pc'[p] = pc[p] /\ claim'[p] = claim[p] /\ Ticket'[p] = Ticket[p]
    BY <2>1 DEF Published, HasTicket, Behind
  <2>2. CASE /\ pc[p] \in Behind /\ pc'[p] \in Behind
             /\ claim'[p] = claim[p] /\ Ticket'[p] = Ticket[p]
             /\ HasTicket(p)' => HasTicket(p)
    BY <2>2 DEF Published, Behind
  <2>3. CASE pc[p] \in Behind /\ Forgets(p)
    BY <2>3 DEF Forgets, HasTicket, Behind
  <2>4. QED
    BY <2>1, <2>2, <2>3
<1>2. \A c \in n + 1 .. claims' : \E p \in Threads : claim'[p] = c
  <2> SUFFICES ASSUME NEW c \in n + 1 .. claims PROVE \E p \in Threads : claim'[p] = c
    OBVIOUS
  <2>1. PICK p \in Threads : claim[p] = c
    BY DEF Published
  <2>2. pc[p] \notin Behind
    BY <2>1 DEF Published, Behind
  <2>3. QED
    BY <2>1, <2>2
<1>3. IssuedTicket' # n => \E p \in Threads : pc'[p] = "publish"
  BY DEF Published, Behind
<1>4. QED
  BY <1>1, <1>2, <1>3 DEF Published, Behind

(* Steps that write neither the array nor the indices of the queue.        *)
LEMMA SameWritten ==
  ASSUME NEW place, NEW n, UNCHANGED LastIndexArray
  PROVE  Written(place, n) => Written(place, n)'
BY DEF Written, Latest

LEMMA SameCommitted ==
  ASSUME NEW place, NEW h, UNCHANGED <<claims, Head>>,
         \A p \in Threads : uncommitted'[p] => uncommitted[p] /\ claim'[p] = claim[p]
  PROVE  Committed(place, h) => Committed(place, h)'
BY DEF Committed

(* What the invariant says of a thread that goes on.                       *)
LEMMA OrderFacts ==
  ASSUME ClaimsDiffer, TypeInv
  PROVE  /\ claims \in Nat /\ NumElm \in Nat \ {0} /\ NumElm >= 2 /\ Cores \in Nat \ {0}
         /\ \A p \in Threads : /\ claim[p] \in Int
                               /\ pc[p] # "idle" => claim[p] \in 1 .. claims
BY TicketAssumption DEF ClaimsDiffer, TypeInv

(* The three parts that may change together make up the invariant.         *)
LEMMA OrderIs ==
  ASSUME ClaimsDiffer', NEW place \in [0 .. claims' -> Int], NEW n \in 0 .. claims',
         NEW h \in 0 .. n, Places(place)', Published(n)', Written(place, n)',
         Committed(place, h)'
  PROVE  OrderInv'
BY DEF OrderInv, Order

(* reservePop: k elements more are claimed, behind all others.             *)
LEMMA OrderReserve ==
  ASSUME OrderInv, TypeInv, NEW p \in Threads, reservePop(p)
  PROVE  OrderInv'
<1> DEFINE c == claims + 1
<1>1. PICK k \in PopNums :
      /\ getNumFilledElements(NumElm, Head, ReservedHead) + k < NumElm
      /\ claims < MaxClaims /\ pc[p] = "idle" /\ pc' = [pc EXCEPT ![p] = "issue"]
      /\ OldIndex' = [OldIndex EXCEPT ![p] = ReservedHead]
      /\ num' = [num EXCEPT ![p] = k]
      /\ ReservedHead' = advance(NumElm, ReservedHead, k)
      /\ uncommitted' = [uncommitted EXCEPT ![p] = TRUE]
      /\ claims' = c /\ claim' = [claim EXCEPT ![p] = c]
      /\ UNCHANGED <<Head, IssuedTicket, LastIndexArray, Ticket>>
  BY DEF reservePop, goto, issuer
<1>2. ClaimsDiffer /\ claims \in Nat /\ NumElm \in Nat /\ MaxClaims \in Nat
      /\ k \in 1 .. NumElm - 1
  BY OrderFacts, TicketAssumption DEF OrderInv
<1>3. /\ claim'[p] = c /\ pc'[p] = "issue" /\ OldIndex'[p] = ReservedHead /\ num'[p] = k
      /\ uncommitted'[p] = TRUE /\ Ticket'[p] = Ticket[p] /\ c - 1 = claims
      /\ \A q \in Threads \ {p} :
           /\ claim'[q] = claim[q] /\ pc'[q] = pc[q] /\ OldIndex'[q] = OldIndex[q]
           /\ num'[q] = num[q] /\ uncommitted'[q] = uncommitted[q] /\ Ticket'[q] = Ticket[q]
  BY <1>1, <1>2 DEF TypeInv, TypeOK, ClaimsDiffer
<1>4. \A q \in Threads : claim[q] \in Int /\ claim[q] <= claims
  BY <1>2 DEF ClaimsDiffer
<1>5. ClaimsDiffer'
  <2>1. c \in 0 .. MaxClaims
    BY <1>1, <1>2
  <2>2. \A q \in Threads :
          IF pc'[q] = "idle" THEN claim'[q] = 0 ELSE claim'[q] \in 1 .. c
    <3> SUFFICES ASSUME NEW q \in Threads
        PROVE  IF pc'[q] = "idle" THEN claim'[q] = 0 ELSE claim'[q] \in 1 .. c
      OBVIOUS
    <3>1. CASE q = p
      BY <1>2, <1>3, <3>1
    <3>2. CASE q # p
      BY <1>2, <1>3, <3>2 DEF ClaimsDiffer
    <3>3. QED
      BY <3>1, <3>2
  <2>3. \A q, r \in Threads : claim'[q] = claim'[r] /\ claim'[q] # 0 => q = r
    BY <1>2, <1>3, <1>4 DEF ClaimsDiffer
  <2>4. QED
    BY <1>1, <2>1, <2>2, <2>3 DEF ClaimsDiffer
<1>6. PICK place \in [0 .. claims -> Int], n \in 0 .. claims :
        \E h \in 0 .. n : Order(place, n, h)
  BY DEF OrderInv
<1>7. PICK h \in 0 .. n : Order(place, n, h)
  BY <1>6
<1>8. Places(place) /\ Published(n) /\ Written(place, n) /\ Committed(place, h)
  BY <1>7 DEF Order
<1>9. n \in Int /\ h \in Int /\ 0 <= h /\ h <= n /\ n <= claims /\ c = claims + 1 /\ c \in Nat
  BY <1>2
<1>10. PICK next \in [0 .. claims' -> Int] :
         /\ next[c] = place[claims] + k
         /\ \A d \in 0 .. claims : next[d] = place[d] /\ d # c /\ place[d] \in Int
  <2> DEFINE longer == [d \in 0 .. c |-> IF d = c THEN place[claims] + k ELSE place[d]]
  <2>1. /\ longer \in [0 .. claims' -> Int] /\ longer[c] = place[claims] + k
        /\ \A d \in 0 .. claims : longer[d] = place[d] /\ d # c /\ place[d] \in Int
    BY <1>1, <1>2
  <2> HIDE DEF longer
  <2>2. QED
    BY <2>1
<1>11. claims \in 0 .. claims /\ c \in 0 .. c /\ h \in 0 .. claims
  BY <1>2, <1>9
<1> HIDE DEF c
<1>12. Places(next)'
  <2>1. ASSUME NEW d \in 0 .. c, NEW e \in 0 .. c, d < e PROVE next[d] < next[e]
    <3>1. d \in 0 .. claims
      BY <1>2, <1>9, <2>1
    <3>2. CASE e = c
      <4>1. place[d] <= place[claims]
        BY <1>2, <1>8, <1>10, <1>11, <3>1 DEF Places
      <4>2. QED
        BY <1>2, <1>10, <1>11, <3>1, <3>2, <4>1
    <3>3. CASE e # c
      <4>1. e \in 0 .. claims
        BY <1>2, <1>9, <3>3
      <4>2. QED
        BY <1>8, <1>10, <2>1, <3>1, <4>1 DEF Places
    <3>4. QED
      BY <3>2, <3>3
  <2>2. ASSUME PopNums = {1}, NEW d \in 0 .. c PROVE next[d] = d
    <3>1. CASE d = c
      <4>1. place[claims] = claims /\ k = 1
        BY <1>8, <1>11, <2>2 DEF Places
      <4>2. QED
        BY <1>9, <1>10, <3>1, <4>1
    <3>2. CASE d # c
      <4>1. d \in 0 .. claims
        BY <1>2, <1>9, <3>2
      <4>2. QED
        BY <1>8, <1>10, <2>2, <4>1 DEF Places
    <3>3. QED
      BY <3>1, <3>2
  <2>3. ReservedHead' = idx(next[c])
    <3>1. ReservedHead = idx(place[claims]) /\ place[claims] \in Int
      BY <1>8, <1>10, <1>11 DEF Places
    <3>2. QED
      BY <1>1, <1>2, <1>10, <3>1, Further
  <2>4. ASSUME NEW q \in Threads, pc'[q] # "idle"
        PROVE  /\ OldIndex'[q] = idx(next[claim'[q] - 1])
               /\ NewIndex(q)' = idx(next[claim'[q]])
    <3>1. CASE q = p
      <4>1. OldIndex'[p] = ReservedHead /\ NewIndex(p)' = ReservedHead'
        BY <1>1, <1>3 DEF NewIndex
      <4>2. ReservedHead = idx(next[c - 1])
        BY <1>3, <1>8, <1>10, <1>11 DEF Places
      <4>3. QED
        BY <1>3, <2>3, <3>1, <4>1, <4>2
    <3>2. CASE q # p
      <4>1. pc[q] # "idle" /\ OldIndex'[q] = OldIndex[q] /\ NewIndex(q)' = NewIndex(q)
        BY <1>3, <2>4, <3>2 DEF NewIndex
      <4>2. claim[q] \in 0 .. claims /\ claim[q] - 1 \in 0 .. claims
        BY <1>2, <4>1 DEF ClaimsDiffer
      <4>3. QED
        BY <1>3, <1>8, <1>10, <3>2, <4>1, <4>2 DEF Places
    <3>3. QED
      BY <3>1, <3>2
  <2>5. claims' = c
    BY <1>1
  <2>6. \A d, e \in 0 .. claims' : d < e => next[d] < next[e]
    BY <2>1, <2>5
  <2>7. PopNums = {1} => \A d \in 0 .. claims' : next[d] = d
    BY <2>2, <2>5
  <2>8. ReservedHead' = idx(next[claims'])
    BY <2>3, <2>5
  <2>9. \A q \in Threads : pc'[q] # "idle" =>
          /\ OldIndex'[q] = idx(next[claim'[q] - 1])
          /\ NewIndex(q)' = idx(next[claim'[q]])
    BY <2>4
  <2>10. QED
    BY <2>6, <2>7, <2>8, <2>9, Zenon DEF Places
<1>13. Published(n)'
  <2>1. \A q \in Threads :
          /\ pc'[q] = "issue" => claim'[q] > n
          /\ pc'[q] \in {"number", "publish"} => claim'[q] = n + 1
          /\ pc'[q] \in {"held", "turn", "consume", "pushed"} => claim'[q] <= n
          /\ HasTicket(q)' => Ticket'[q] = claim'[q] - 1
          /\ pc'[q] = "number" => IssuedTicket' = n
          /\ pc'[q] = "publish" => IssuedTicket' = n + 1
    <3> SUFFICES ASSUME NEW q \in Threads
        PROVE  /\ pc'[q] = "issue" => claim'[q] > n
               /\ pc'[q] \in {"number", "publish"} => claim'[q] = n + 1
               /\ pc'[q] \in {"held", "turn", "consume", "pushed"} => claim'[q] <= n
               /\ HasTicket(q)' => Ticket'[q] = claim'[q] - 1
               /\ pc'[q] = "number" => IssuedTicket' = n
               /\ pc'[q] = "publish" => IssuedTicket' = n + 1
      OBVIOUS
    <3>1. CASE q = p
      BY <1>2, <1>3, <1>9, <3>1 DEF HasTicket
    <3>2. CASE q # p
      BY <1>1, <1>3, <1>8, <3>2 DEF Published, HasTicket
    <3>3. QED
      BY <3>1, <3>2
  <2>2. \A d \in n + 1 .. claims' : \E q \in Threads : claim'[q] = d
    <3> SUFFICES ASSUME NEW d \in n + 1 .. claims' PROVE \E q \in Threads : claim'[q] = d
      OBVIOUS
    <3>1. CASE d = c
      BY <1>3, <3>1
    <3>2. CASE d # c
      <4>1. d \in n + 1 .. claims
        BY <1>1, <1>2, <1>3, <1>9, <3>2
      <4>2. PICK q \in Threads : claim[q] = d
        BY <1>8, <4>1 DEF Published
      <4>3. q # p
        BY <1>1, <1>2, <1>9, <4>1, <4>2 DEF ClaimsDiffer
      <4>4. QED
        BY <1>3, <4>2, <4>3
    <3>3. QED
      BY <3>1, <3>2
  <2>3. IssuedTicket' # n => \E q \in Threads : pc'[q] = "publish"
    BY <1>1, <1>3, <1>8 DEF Published
  <2>4. QED
    BY <2>1, <2>2, <2>3 DEF Published
<1>14. Written(next, n)'
  <2> SUFFICES ASSUME NEW s \in Slots, LastIndexArray[s] # -1
               PROVE  \E d \in 0 .. n : Latest(next, s, d, n)'
    BY <1>1 DEF Written
  <2>1. PICK d \in 0 .. n : Latest(place, s, d, n)
    BY <1>8 DEF Written
  <2>2. \A e \in d .. n : next[e] = place[e]
    BY <1>2, <1>9, <1>10
  <2>3. d \in d .. n /\ d + 1 .. n \subseteq d .. n
    BY <1>9
  <2>4. LastIndexArray'[s] = idx(next[d]) /\ slot(next[d]) = s
    BY <1>1, <2>1, <2>2, <2>3 DEF Latest
  <2>5. \A e \in d + 1 .. n : slot(next[e]) # s
    BY <2>1, <2>2, <2>3 DEF Latest
  <2>6. Latest(next, s, d, n)'
    BY <2>4, <2>5 DEF Latest
  <2>7. QED
    BY <2>6
<1>15. Committed(next, h)'
  <2>1. place[claims] - place[h] < NumElm /\ Head = idx(place[h])
        /\ ReservedHead = idx(place[claims])
    BY <1>8 DEF Committed, Places
  <2>2. place[h] <= place[claims] /\ place[h] \in Int /\ place[claims] \in Int
    BY <1>2, <1>8, <1>9, <1>10, <1>11 DEF Places
  <2>3. getNumFilledElements(NumElm, Head, ReservedHead) = place[claims] - place[h]
    BY <2>1, <2>2, DistOfIdx
  <2>4. next[c] - next[h] < NumElm /\ next[h] = place[h]
    <3>1. next[h] = place[h] /\ next[c] = place[claims] + k
      BY <1>10, <1>11
    <3>2. (place[claims] - place[h]) + k < NumElm
      BY <1>1, <2>3
    <3>3. QED
      BY <1>2, <2>2, <3>1, <3>2
  <2>5. \A q \in Threads : uncommitted'[q] => claim'[q] > h
    <3> SUFFICES ASSUME NEW q \in Threads, uncommitted'[q] PROVE claim'[q] > h
      OBVIOUS
    <3>1. CASE q = p
      BY <1>2, <1>3, <1>9, <3>1
    <3>2. CASE q # p
      BY <1>3, <1>8, <3>2 DEF Committed
    <3>3. QED
      BY <3>1, <3>2
  <2>6. QED
    BY <1>1, <2>1, <2>4, <2>5 DEF Committed
<1>16. n \in 0 .. claims'
  BY <1>1, <1>2, <1>3, <1>9
<1>17. QED
  BY <1>5, <1>12, <1>13, <1>14, <1>15, <1>16, OrderIs

(* awaitPreviousPop: the pop before this one has published, so it is this  *)
(* one's turn to draw.                                                     *)
LEMMA OrderAwait ==
  ASSUME OrderInv, TypeInv, NEW p \in Threads, awaitPreviousPop(p), ~TakesOldIndex
  PROVE  OrderInv'
<1>1. /\ pc[p] = "issue" /\ pc' = [pc EXCEPT ![p] = "number"]
      /\ UNCHANGED <<Head, ReservedHead, IssuedTicket, LastIndexArray, OldIndex, num, Ticket,
                     uncommitted, claims, claim>>
  BY DEF awaitPreviousPop, goto, queue, issuer, locals, history
<1>2. ClaimsDiffer /\ claims \in Nat
  BY OrderFacts DEF OrderInv
<1>3. pc'[p] = "number" /\ \A q \in Threads \ {p} : pc'[q] = pc[q]
  BY <1>1 DEF TypeInv, TypeOK
<1>4. ClaimsDiffer' /\ \A place \in [0 .. claims -> Int] : Places(place) => Places(place)'
  BY <1>1, <1>2, <1>3, SameClaims DEF Keeps
<1>5. PICK place \in [0 .. claims -> Int], n \in 0 .. claims :
        \E h \in 0 .. n : Order(place, n, h)
  BY DEF OrderInv
<1>6. PICK h \in 0 .. n : Order(place, n, h)
  BY <1>5
<1>7. Places(place) /\ Published(n) /\ Written(place, n) /\ Committed(place, h)
  BY <1>6 DEF Order
<1>8. claim[p] = n + 1
  <2>1. n \in Int /\ n >= 0 /\ claim[p] \in 1 .. claims /\ claim[p] > n
    BY <1>1, <1>2, <1>7 DEF ClaimsDiffer, Published
  <2> SUFFICES ASSUME claim[p] # n + 1 PROVE FALSE
    OBVIOUS
  <2>2. n + 1 \in n + 1 .. claims /\ n + 1 \in 1 .. claim[p] - 1
    BY <1>2, <2>1
  <2>3. PICK q \in Threads : claim[q] = n + 1
    BY <1>7, <2>2 DEF Published
  <2>4. pc[q] # "idle" /\ pc[q] \notin {"held", "turn", "consume", "pushed"}
    BY <1>2, <1>7, <2>1, <2>3 DEF ClaimsDiffer, Published
  <2>5. pc[q] \in {"issue", "number", "publish"}
    BY <2>4 DEF TypeInv, TypeOK, PCs
  <2>6. QED
    BY <2>2, <2>3, <2>5 DEF TakesOldIndex
<1>9. IssuedTicket = n
  <2> SUFFICES ASSUME IssuedTicket # n PROVE FALSE
    OBVIOUS
  <2>1. PICK q \in Threads : pc[q] = "publish"
    BY <1>7 DEF Published
  <2>2. claim[q] = n + 1 /\ q # p
    BY <1>1, <1>7, <2>1 DEF Published
  <2>3. n + 1 # 0
    BY <1>2
  <2>4. QED
    BY <1>2, <1>8, <2>2, <2>3 DEF ClaimsDiffer
<1>10. Published(n)'
  <2>1. \A q \in Threads :
          /\ pc'[q] = "issue" => claim'[q] > n
          /\ pc'[q] \in {"number", "publish"} => claim'[q] = n + 1
          /\ pc'[q] \in {"held", "turn", "consume", "pushed"} => claim'[q] <= n
          /\ HasTicket(q)' => Ticket'[q] = claim'[q] - 1
          /\ pc'[q] = "number" => IssuedTicket' = n
          /\ pc'[q] = "publish" => IssuedTicket' = n + 1
    BY <1>1, <1>3, <1>7, <1>8, <1>9 DEF Published, HasTicket
  <2>2. IssuedTicket' # n => \E q \in Threads : pc'[q] = "publish"
    BY <1>1, <1>9
  <2>3. QED
    BY <1>1, <1>7, <2>1, <2>2 DEF Published
<1>11. Written(place, n)' /\ Committed(place, h)'
  BY <1>1, <1>7, SameWritten, SameCommitted
<1>12. QED
  BY <1>1, <1>4, <1>7, <1>10, <1>11, OrderIs

(* A pop that takes an old index draws out of its order.                   *)
LEMMA OldIndexBreaks == ASSUME TypeInv, TakesOldIndex PROVE ~OrderInv'
<1> SUFFICES ASSUME OrderInv' PROVE FALSE
  OBVIOUS
<1>1. PICK p \in Threads, q \in Threads :
        /\ awaitPreviousPop(p)
        /\ claim[q] \in 1 .. claim[p] - 1 /\ pc[q] \in {"issue", "number", "publish"}
  BY DEF TakesOldIndex
<1>2. pc' = [pc EXCEPT ![p] = "number"] /\ UNCHANGED claim
  BY <1>1 DEF awaitPreviousPop, goto, history
<1>3. claim[p] \in Int /\ claim[q] \in Int /\ claim[q] < claim[p] /\ q # p
  BY <1>1 DEF TypeInv
<1>4. pc'[p] = "number" /\ pc'[q] = pc[q]
  BY <1>2, <1>3 DEF TypeInv, TypeOK
<1>5. PICK n \in 0 .. claims' : Published(n)'
  BY DEF OrderInv, Order
<1>6. claim[p] = n + 1 /\ n \in Int
  BY <1>2, <1>4, <1>5, TicketAssumption DEF Published, OrderInv, ClaimsDiffer
<1>7. claim[q] > n
  BY <1>1, <1>2, <1>4, <1>5, <1>6 DEF Published
<1>8. QED
  BY <1>3, <1>6, <1>7

(* drawTicket: the ticket is the pop's number.                             *)
LEMMA OrderDraw ==
  ASSUME OrderInv, TypeInv, NEW p \in Threads, drawTicket(p)
  PROVE  OrderInv'
<1>1. /\ pc[p] = "number" /\ pc' = [pc EXCEPT ![p] = "publish"]
      /\ Ticket' = [Ticket EXCEPT ![p] = IssuedTicket] /\ IssuedTicket' = IssuedTicket + 1
      /\ UNCHANGED <<Head, ReservedHead, LastIndexArray, OldIndex, num, uncommitted, claims,
                     claim>>
  BY DEF drawTicket, goto, queue, history
<1>2. ClaimsDiffer /\ claims \in Nat
  BY OrderFacts DEF OrderInv
<1>3. /\ pc'[p] = "publish" /\ Ticket'[p] = IssuedTicket
      /\ \A q \in Threads \ {p} : pc'[q] = pc[q] /\ Ticket'[q] = Ticket[q]
  BY <1>1 DEF TypeInv, TypeOK
<1>4. ClaimsDiffer' /\ \A place \in [0 .. claims -> Int] : Places(place) => Places(place)'
  BY <1>1, <1>2, <1>3, SameClaims DEF Keeps
<1>5. PICK place \in [0 .. claims -> Int], n \in 0 .. claims :
        \E h \in 0 .. n : Order(place, n, h)
  BY DEF OrderInv
<1>6. PICK h \in 0 .. n : Order(place, n, h)
  BY <1>5
<1>7. Places(place) /\ Published(n) /\ Written(place, n) /\ Committed(place, h)
  BY <1>6 DEF Order
<1>8. claim[p] = n + 1 /\ IssuedTicket = n /\ n \in Int
  BY <1>1, <1>2, <1>7 DEF Published
<1>9. \A q \in Threads \ {p} : claim[q] # n + 1
  BY <1>2, <1>8 DEF ClaimsDiffer
<1>10. Published(n)'
  <2>1. \A q \in Threads :
          /\ pc'[q] = "issue" => claim'[q] > n
          /\ pc'[q] \in {"number", "publish"} => claim'[q] = n + 1
          /\ pc'[q] \in {"held", "turn", "consume", "pushed"} => claim'[q] <= n
          /\ HasTicket(q)' => Ticket'[q] = claim'[q] - 1
          /\ pc'[q] = "number" => IssuedTicket' = n
          /\ pc'[q] = "publish" => IssuedTicket' = n + 1
    <3> SUFFICES ASSUME NEW q \in Threads
        PROVE  /\ pc'[q] = "issue" => claim'[q] > n
               /\ pc'[q] \in {"number", "publish"} => claim'[q] = n + 1
               /\ pc'[q] \in {"held", "turn", "consume", "pushed"} => claim'[q] <= n
               /\ HasTicket(q)' => Ticket'[q] = claim'[q] - 1
               /\ pc'[q] = "number" => IssuedTicket' = n
               /\ pc'[q] = "publish" => IssuedTicket' = n + 1
      OBVIOUS
    <3>1. CASE q = p
      BY <1>1, <1>3, <1>8, <3>1
    <3>2. CASE q # p
      BY <1>1, <1>3, <1>7, <1>9, <3>2 DEF Published, HasTicket
    <3>3. QED
      BY <3>1, <3>2
  <2>2. \E q \in Threads : pc'[q] = "publish"
    BY <1>3
  <2>3. QED
    BY <1>1, <1>7, <2>1, <2>2 DEF Published
<1>11. Written(place, n)' /\ Committed(place, h)'
  BY <1>1, <1>7, SameWritten, SameCommitted
<1>12. QED
  BY <1>1, <1>4, <1>7, <1>10, <1>11, OrderIs

(* publishIndex: the next pop may draw.                                    *)
LEMMA OrderPublish ==
  ASSUME OrderInv, TypeInv, NEW p \in Threads, publishIndex(p)
  PROVE  OrderInv'
<1>1. /\ pc[p] = "publish" /\ pc' = [pc EXCEPT ![p] = "held"]
      /\ LastIndexArray' = [LastIndexArray EXCEPT ![NewIndex(p) % Cores] = NewIndex(p)]
      /\ UNCHANGED <<Head, ReservedHead, IssuedTicket, OldIndex, num, Ticket, uncommitted,
                     claims, claim>>
  BY DEF publishIndex, goto, queue, locals, history
<1>2. ClaimsDiffer /\ claims \in Nat
  BY OrderFacts DEF OrderInv
<1>3. pc'[p] = "held" /\ \A q \in Threads \ {p} : pc'[q] = pc[q]
  BY <1>1 DEF TypeInv, TypeOK
<1>4. ClaimsDiffer' /\ \A place \in [0 .. claims -> Int] : Places(place) => Places(place)'
  BY <1>1, <1>2, <1>3, SameClaims DEF Keeps
<1>5. PICK place \in [0 .. claims -> Int], n \in 0 .. claims :
        \E h \in 0 .. n : Order(place, n, h)
  BY DEF OrderInv
<1>6. PICK h \in 0 .. n : Order(place, n, h)
  BY <1>5
<1>7. Places(place) /\ Published(n) /\ Written(place, n) /\ Committed(place, h)
  BY <1>6 DEF Order
<1>8. /\ claim[p] = n + 1 /\ IssuedTicket = n + 1 /\ n \in Int /\ n >= 0
      /\ n + 1 \in 0 .. claims /\ NewIndex(p) = idx(place[n + 1])
  BY <1>1, <1>2, <1>7, OrderFacts DEF Published, Places
<1>9. \A q \in Threads \ {p} : claim[q] # n + 1
  BY <1>2, <1>8 DEF ClaimsDiffer
<1>10. Published(n + 1)'
  <2>1. \A q \in Threads :
          /\ pc'[q] = "issue" => claim'[q] > n + 1
          /\ pc'[q] \in {"number", "publish"} => claim'[q] = n + 2
          /\ pc'[q] \in {"held", "turn", "consume", "pushed"} => claim'[q] <= n + 1
          /\ HasTicket(q)' => Ticket'[q] = claim'[q] - 1
          /\ pc'[q] = "number" => IssuedTicket' = n + 1
          /\ pc'[q] = "publish" => IssuedTicket' = n + 2
    <3> SUFFICES ASSUME NEW q \in Threads
        PROVE  /\ pc'[q] = "issue" => claim'[q] > n + 1
               /\ pc'[q] \in {"number", "publish"} => claim'[q] = n + 2
               /\ pc'[q] \in {"held", "turn", "consume", "pushed"} => claim'[q] <= n + 1
               /\ HasTicket(q)' => Ticket'[q] = claim'[q] - 1
               /\ pc'[q] = "number" => IssuedTicket' = n + 1
               /\ pc'[q] = "publish" => IssuedTicket' = n + 2
      OBVIOUS
    <3>1. CASE q = p
      BY <1>1, <1>3, <1>7, <1>8, <3>1 DEF Published, HasTicket
    <3>2. CASE q # p
      <4>1. claim[q] \in Int
        BY DEF TypeInv
      <4>2. QED
        BY <1>1, <1>3, <1>7, <1>8, <1>9, <3>2, <4>1 DEF Published, HasTicket
    <3>3. QED
      BY <3>1, <3>2
  <2>2. \A d \in n + 2 .. claims' : \E q \in Threads : claim'[q] = d
    BY <1>1, <1>2, <1>7, <1>8 DEF Published
  <2>3. IssuedTicket' # n + 1 => \E q \in Threads : pc'[q] = "publish"
    BY <1>1, <1>8
  <2>4. (n + 1) + 1 = n + 2
    BY <1>8
  <2>5. QED
    BY <2>1, <2>2, <2>3, <2>4 DEF Published
<1>11. Written(place, n + 1)'
  <2> DEFINE x == place[n + 1]
  <2> SUFFICES ASSUME NEW s \in Slots, LastIndexArray'[s] # -1
               PROVE  \E d \in 0 .. n + 1 : Latest(place, s, d, n + 1)'
    BY DEF Written
  <2>1. LastIndexArray' = [LastIndexArray EXCEPT ![slot(x)] = idx(x)]
    BY <1>1, <1>8 DEF slot
  <2> HIDE DEF x
  <2>2. CASE s = slot(x)
    <3>1. LastIndexArray'[s] = idx(x)
      BY <2>1, <2>2 DEF TypeInv
    <3>2. Latest(place, s, n + 1, n + 1)'
      BY <1>8, <2>2, <3>1 DEF Latest, x
    <3>3. QED
      BY <1>8, <3>2
  <2>3. CASE s # slot(x)
    <3>1. LastIndexArray'[s] = LastIndexArray[s]
      BY <2>1, <2>3 DEF TypeInv
    <3>2. PICK d \in 0 .. n : Latest(place, s, d, n)
      BY <1>7, <3>1 DEF Written
    <3>3. \A e \in d + 1 .. n + 1 : slot(place[e]) # s
      <4> SUFFICES ASSUME NEW e \in d + 1 .. n + 1 PROVE slot(place[e]) # s
        OBVIOUS
      <4>1. e = n + 1 \/ e \in d + 1 .. n
        BY <1>8
      <4>2. QED
        BY <2>3, <3>2, <4>1 DEF Latest, x
    <3>4. Latest(place, s, d, n + 1)'
      BY <3>1, <3>2, <3>3 DEF Latest
    <3>5. d \in 0 .. n + 1
      BY <1>8
    <3>6. QED
      BY <3>4, <3>5
  <2>4. QED
    BY <2>2, <2>3
<1>12. Committed(place, h)' /\ h \in 0 .. n + 1
  BY <1>1, <1>7, <1>8, SameCommitted
<1>13. QED
  BY <1>1, <1>4, <1>7, <1>8, <1>10, <1>11, <1>12, OrderIs

(* isMyTurn and the push itself disturb nothing.                           *)
LEMMA OrderTurn ==
  ASSUME OrderInv, TypeInv, NEW p \in Threads, isMyTurn(p) \/ pushInTurn(p)
  PROVE  OrderInv'
<1>1. /\ \/ pc[p] = "held" /\ pc' = [pc EXCEPT ![p] = "turn"]
         \/ pc[p] = "turn" /\ pc' = [pc EXCEPT ![p] = "consume"]
      /\ UNCHANGED <<Head, ReservedHead, IssuedTicket, LastIndexArray, OldIndex, num, Ticket,
                     uncommitted, claims, claim>>
  BY DEF isMyTurn, pushInTurn, goto, queue, issuer, locals, history
<1>2. ClaimsDiffer /\ claims \in Nat
  BY OrderFacts DEF OrderInv
<1>3. /\ pc[p] \in {"held", "turn"} /\ pc'[p] \in {"turn", "consume"}
      /\ \A q \in Threads \ {p} : pc'[q] = pc[q]
  BY <1>1 DEF TypeInv, TypeOK
<1>4. ClaimsDiffer' /\ \A place \in [0 .. claims -> Int] : Places(place) => Places(place)'
  BY <1>1, <1>2, <1>3, SameClaims DEF Keeps
<1>5. PICK place \in [0 .. claims -> Int], n \in 0 .. claims :
        \E h \in 0 .. n : Order(place, n, h)
  BY DEF OrderInv
<1>6. PICK h \in 0 .. n : Order(place, n, h)
  BY <1>5
<1>7. Places(place) /\ Published(n) /\ Written(place, n) /\ Committed(place, h)
  BY <1>6 DEF Order
<1>8. Published(n)'
  BY <1>1, <1>2, <1>3, <1>7, SamePublished DEF Behind, HasTicket
<1>9. Written(place, n)' /\ Committed(place, h)'
  BY <1>1, <1>7, SameWritten, SameCommitted
<1>10. QED
  BY <1>1, <1>4, <1>7, <1>8, <1>9, OrderIs

(* consume_safe: the pop is done, unless its window is still open.         *)
LEMMA OrderConsume ==
  ASSUME OrderInv, TypeInv, NEW p \in Threads, consume_safe(p)
  PROVE  OrderInv'
<1>1. /\ pc[p] = "consume"
      /\ \/ pc' = [pc EXCEPT ![p] = "pushed"] /\ UNCHANGED <<OldIndex, num, Ticket, claim>>
         \/ /\ ~uncommitted[p] /\ pc' = [pc EXCEPT ![p] = "idle"]
            /\ OldIndex' = [OldIndex EXCEPT ![p] = 0] /\ num' = [num EXCEPT ![p] = 1]
            /\ Ticket' = [Ticket EXCEPT ![p] = 0] /\ claim' = [claim EXCEPT ![p] = 0]
      /\ UNCHANGED <<Head, ReservedHead, IssuedTicket, LastIndexArray, uncommitted, claims>>
  BY DEF consume_safe, serveAt, goto, queue, issuer, locals, forgetCall
<1>2. ClaimsDiffer /\ claims \in Nat
  BY OrderFacts DEF OrderInv
<1>3. \A q \in Threads \ {p} :
        /\ pc'[q] = pc[q] /\ OldIndex'[q] = OldIndex[q] /\ num'[q] = num[q]
        /\ Ticket'[q] = Ticket[q] /\ claim'[q] = claim[q]
  BY <1>1 DEF TypeInv, TypeOK
<1>4. \/ /\ pc'[p] = "pushed" /\ OldIndex'[p] = OldIndex[p] /\ num'[p] = num[p]
         /\ Ticket'[p] = Ticket[p] /\ claim'[p] = claim[p]
      \/ ~uncommitted[p] /\ Forgets(p)
  BY <1>1 DEF TypeInv, TypeOK, Forgets
<1>5. ClaimsDiffer' /\ \A place \in [0 .. claims -> Int] : Places(place) => Places(place)'
  BY <1>1, <1>2, <1>3, <1>4, SameClaims DEF Keeps
<1>6. PICK place \in [0 .. claims -> Int], n \in 0 .. claims :
        \E h \in 0 .. n : Order(place, n, h)
  BY DEF OrderInv
<1>7. PICK h \in 0 .. n : Order(place, n, h)
  BY <1>6
<1>8. Places(place) /\ Published(n) /\ Written(place, n) /\ Committed(place, h)
  BY <1>7 DEF Order
<1>9. Published(n)'
  BY <1>1, <1>2, <1>3, <1>4, <1>8, SamePublished DEF Behind, HasTicket
<1>10. \A q \in Threads : uncommitted'[q] => uncommitted[q] /\ claim'[q] = claim[q]
  BY <1>1, <1>3, <1>4
<1>11. Written(place, n)' /\ Committed(place, h)'
  BY <1>1, <1>8, <1>10, SameWritten, SameCommitted
<1>12. QED
  BY <1>1, <1>5, <1>8, <1>9, <1>11, OrderIs

(* commitPop: windows are committed in order, so it is the oldest one.     *)
LEMMA OrderCommit ==
  ASSUME OrderInv, TypeInv, NEW p \in Threads, commitPop(p)
  PROVE  OrderInv'
<1>1. /\ uncommitted[p] /\ Head = OldIndex[p] /\ Head' = NewIndex(p)
      /\ uncommitted' = [uncommitted EXCEPT ![p] = FALSE]
      /\ \/ pc[p] = "held" /\ UNCHANGED <<pc, OldIndex, num, Ticket, claim>>
         \/ /\ pc[p] = "pushed" /\ pc' = [pc EXCEPT ![p] = "idle"]
            /\ OldIndex' = [OldIndex EXCEPT ![p] = 0] /\ num' = [num EXCEPT ![p] = 1]
            /\ Ticket' = [Ticket EXCEPT ![p] = 0] /\ claim' = [claim EXCEPT ![p] = 0]
      /\ UNCHANGED <<ReservedHead, IssuedTicket, LastIndexArray, claims>>
  BY DEF commitPop, goto, issuer, locals, forgetCall
<1>2. /\ ClaimsDiffer /\ claims \in Nat /\ NumElm \in Nat
      /\ claim[p] \in 1 .. claims
  <2>1. ClaimsDiffer /\ pc[p] # "idle"
    BY <1>1 DEF OrderInv
  <2>2. QED
    BY <2>1, OrderFacts
<1>3. \A q \in Threads \ {p} :
        /\ pc'[q] = pc[q] /\ OldIndex'[q] = OldIndex[q] /\ num'[q] = num[q]
        /\ Ticket'[q] = Ticket[q] /\ claim'[q] = claim[q] /\ uncommitted'[q] = uncommitted[q]
  BY <1>1 DEF TypeInv, TypeOK
<1>4. /\ ~uncommitted'[p]
      /\ \/ /\ pc'[p] = pc[p] /\ OldIndex'[p] = OldIndex[p] /\ num'[p] = num[p]
            /\ Ticket'[p] = Ticket[p] /\ claim'[p] = claim[p]
         \/ Forgets(p) /\ pc[p] = "pushed"
  BY <1>1 DEF TypeInv, TypeOK, Forgets
<1>5. ClaimsDiffer' /\ \A place \in [0 .. claims -> Int] : Places(place) => Places(place)'
  BY <1>1, <1>2, <1>3, <1>4, SameClaims DEF Keeps
<1>6. PICK place \in [0 .. claims -> Int], n \in 0 .. claims :
        \E h \in 0 .. n : Order(place, n, h)
  BY DEF OrderInv
<1>7. PICK h \in 0 .. n : Order(place, n, h)
  BY <1>6
<1>8. Places(place) /\ Published(n) /\ Written(place, n) /\ Committed(place, h)
  BY <1>7 DEF Order
<1>9. Published(n)' /\ Written(place, n)'
  BY <1>1, <1>2, <1>3, <1>4, <1>8, SamePublished, SameWritten DEF Behind
<1>10. /\ n \in Int /\ h \in Int /\ 0 <= h /\ h <= n /\ n <= claims /\ claim[p] \in Int
       /\ \A d \in 0 .. claims : place[d] \in Int
  BY <1>2
<1>11. claim[p] > h /\ Head = idx(place[h]) /\ place[claims] - place[h] < NumElm
  BY <1>1, <1>8 DEF Committed
<1>12. OldIndex[p] = idx(place[claim[p] - 1]) /\ NewIndex(p) = idx(place[claim[p]])
  BY <1>1, <1>8 DEF Places
<1>13. claim[p] = h + 1
  <2> SUFFICES ASSUME claim[p] # h + 1 PROVE FALSE
    OBVIOUS
  <2>1. h \in 0 .. claims /\ claim[p] - 1 \in 0 .. claims /\ h < claim[p] - 1
        /\ claims \in 0 .. claims /\ claim[p] - 1 < claims
    <3>1. /\ claims \in Int /\ n \in Int /\ h \in Int /\ claim[p] \in Int
          /\ 0 <= h /\ h <= n /\ n <= claims
      BY <1>2, <1>10
    <3>2. claim[p] > h /\ claim[p] <= claims
      BY <1>2, <1>11
    <3>3. QED
      BY <3>1, <3>2
  <2>2. place[h] < place[claim[p] - 1] /\ place[claim[p] - 1] < place[claims]
    BY <1>8, <2>1 DEF Places
  <2>3. place[h] \in Int /\ place[claim[p] - 1] \in Int /\ place[claims] \in Int
    BY <1>10, <2>1
  <2>4. /\ -NumElm < place[h] - place[claim[p] - 1]
        /\ place[h] - place[claim[p] - 1] < NumElm
    <3>1. NumElm \in Int /\ place[claims] - place[h] < NumElm
      BY <1>2, <1>11
    <3>2. QED
      BY <2>2, <2>3, <3>1
  <2>5. idx(place[h]) = idx(place[claim[p] - 1])
    BY <1>1, <1>11, <1>12
  <2>6. place[h] = place[claim[p] - 1]
    BY <2>3, <2>4, <2>5, SameIdx
  <2>7. QED
    BY <2>2, <2>3, <2>6
<1>14. h + 1 \in 0 .. n
  <2>1. claim[p] <= n
    BY <1>1, <1>8 DEF Published
  <2>2. QED
    BY <1>10, <1>13, <2>1
<1>15. Committed(place, h + 1)'
  <2>1. place[claims] - place[h + 1] < NumElm
    <3>1. h \in 0 .. claims /\ h + 1 \in 0 .. claims /\ h < h + 1
          /\ claims \in 0 .. claims
      BY <1>2, <1>10, <1>14
    <3>2. place[h] < place[h + 1]
      BY <1>8, <3>1 DEF Places
    <3>3. QED
      BY <1>2, <1>10, <1>11, <3>1, <3>2
  <2>2. \A q \in Threads : uncommitted'[q] => claim'[q] > h + 1
    <3> SUFFICES ASSUME NEW q \in Threads, uncommitted'[q] PROVE claim'[q] > h + 1
      OBVIOUS
    <3>1. q # p /\ uncommitted[q] /\ claim'[q] = claim[q] /\ claim[q] \in Int
      BY <1>3, <1>4 DEF TypeInv
    <3>2. claim[q] > h
      BY <1>8, <3>1 DEF Committed
    <3>3. claim[q] # claim[p]
      BY <1>2, <3>1 DEF ClaimsDiffer
    <3>4. QED
      BY <1>10, <1>13, <3>1, <3>2, <3>3
  <2>3. QED
    BY <1>1, <1>12, <1>13, <2>1, <2>2 DEF Committed
<1>16. QED
  BY <1>1, <1>5, <1>8, <1>9, <1>14, <1>15, OrderIs

LEMMA OrderSame == OrderInv /\ UNCHANGED vars => OrderInv'
<1> SUFFICES ASSUME OrderInv, UNCHANGED vars PROVE OrderInv'
  OBVIOUS
<1>1. UNCHANGED <<Head, ReservedHead, IssuedTicket, LastIndexArray, OldIndex, num, Ticket,
                  uncommitted, pc, claims, claim>>
  BY DEF vars, queue, issuer, locals, history
<1>2. ClaimsDiffer
  BY DEF OrderInv
<1>3. ClaimsDiffer' /\ \A place \in [0 .. claims -> Int] : Places(place) => Places(place)'
  BY <1>1, <1>2, SameClaims DEF Keeps
<1>4. PICK place \in [0 .. claims -> Int], n \in 0 .. claims :
        \E h \in 0 .. n : Order(place, n, h)
  BY DEF OrderInv
<1>5. PICK h \in 0 .. n : Order(place, n, h)
  BY <1>4
<1>6. Places(place) /\ Published(n) /\ Written(place, n) /\ Committed(place, h)
  BY <1>5 DEF Order
<1>7. Published(n)'
  BY <1>1, <1>6 DEF Published, HasTicket
<1>8. Written(place, n)' /\ Committed(place, h)'
  BY <1>1, <1>6, SameWritten, SameCommitted
<1>9. QED
  BY <1>1, <1>3, <1>6, <1>7, <1>8, OrderIs

LEMMA OrderStep ==
  ASSUME OrderInv, TypeInv, Next, ~TakesOldIndex
  PROVE  OrderInv'
<1>1. CASE streamEnds
  BY <1>1, OrderSame DEF streamEnds
<1>2. ASSUME NEW p \in Threads, reservePop(p) \/ proceed(p) PROVE OrderInv'
  BY <1>2, OrderReserve, OrderAwait, OrderDraw, OrderPublish, OrderTurn, OrderConsume,
     OrderCommit DEF proceed, issue
<1>3. QED
  BY <1>1, <1>2 DEF Next

(* The inductive invariant of the ticket issuer: there is one pop whose    *)
(* turn it is to draw, and its ticket will be its number.  It is lost by   *)
(* the steps that take an old index, and by no others.                     *)
THEOREM OneDrawsAtATime ==
  Spec => /\ []OrderInv \/ <><<TakesOldIndex>>_vars
          /\ [][OrderInv => (OrderInv' <=> ~TakesOldIndex)]_vars
<1>1. Init => OrderInv
  BY OrderBegins
<1>2. OrderInv /\ UNCHANGED vars => OrderInv'
  BY OrderSame
<1>3. OrderInv /\ TypeInv /\ Next /\ ~TakesOldIndex => OrderInv'
  BY OrderStep
<1>4. TypeInv /\ TakesOldIndex => ~OrderInv'
  BY OldIndexBreaks
<1>5. QED
  BY <1>1, <1>2, <1>3, <1>4, TypesHold, PTL DEF Spec

(* For any number of threads, slots and pops of any sizes: tickets are     *)
(* drawn in the order in which the windows were reserved, unless a pop     *)
(* takes an old index for that of the pop before it.                       *)
THEOREM TicketsFollowClaimsHolds ==
  Spec => []TicketsFollowClaims \/ <><<TakesOldIndex>>_vars
<1>1. OrderInv /\ TypeInv => TicketsFollowClaims
  <2> SUFFICES ASSUME OrderInv, TypeInv, NEW p \in Threads, NEW q \in Threads,
                      HasTicket(q), claim[p] \in 1 .. (claim[q] - 1), pc[p] # "pushed"
               PROVE  HasTicket(p) /\ Ticket[p] < Ticket[q]
    BY DEF TicketsFollowClaims
  <2>1. PICK n \in 0 .. claims : Published(n)
    BY DEF OrderInv, Order
  <2>2. /\ claims \in Nat /\ n \in Int /\ claim[q] \in Int /\ claim[p] \in Int
        /\ claim[p] < claim[q] /\ claim[p] # 0
    BY DEF OrderInv, ClaimsDiffer, TypeInv
  <2>3. claim[q] <= n + 1 /\ Ticket[q] = claim[q] - 1
    BY <2>1, <2>2 DEF Published, HasTicket
  <2>4. pc[p] \notin {"idle", "issue", "number"}
    BY <2>1, <2>2, <2>3 DEF OrderInv, ClaimsDiffer, Published
  <2>5. HasTicket(p)
    BY <2>4 DEF TypeInv, TypeOK, PCs, HasTicket
  <2>6. Ticket[p] = claim[p] - 1
    BY <2>1, <2>5 DEF Published
  <2>7. QED
    BY <2>2, <2>3, <2>5, <2>6
<1>2. QED
  BY <1>1, OneDrawsAtATime, TypesHold, PTL

(* Nobody who still has to push is behind what was pushed last, and no     *)
(* ticket that is still to be drawn either.                                *)
PushedInOrder ==
  /\ lastPushed \in Int /\ lastPushed <= IssuedTicket
  /\ \A p \in Threads : HasTicket(p) => lastPushed <= Ticket[p] + 1

LEMMA PushedInOrderStep ==
  ASSUME PushedInOrder, OrderInv, TypeInv, TurnInv, [Next]_vars
  PROVE  PushedInOrder' /\ (UNCHANGED lastPushed \/ lastPushed' >= lastPushed)
<1>1. IssuedTicket \in Int
  BY TicketAssumption DEF TypeInv, TypeOK
<1>2. CASE \E p \in Threads : pushInTurn(p)
  <2>1. PICK p \in Threads : pushInTurn(p)
    BY <1>2
  <2>2. /\ pc[p] = "turn" /\ pc' = [pc EXCEPT ![p] = "consume"]
        /\ lastPushed' \in {claim[p], lastPushed} /\ UNCHANGED <<IssuedTicket, Ticket>>
    BY <2>1 DEF pushInTurn, goto, issuer, locals
  <2>3. \A q \in Threads : HasTicket(q)' => HasTicket(q)
    BY <2>2 DEF HasTicket, TypeInv, TypeOK
  <2>4. PICK n \in 0 .. claims : Published(n)
    BY DEF OrderInv, Order
  <2>5. HasTicket(p) /\ claim[p] \in Int /\ Ticket[p] = claim[p] - 1
    BY <2>2, <2>4 DEF Published, HasTicket, TypeInv
  <2>6. PICK t \in Nat : Serves(t)
    BY DEF TurnInv
  <2>7. Ticket[p] = t /\ \A q \in Threads : HasTicket(q) => t <= Ticket[q]
    BY <2>2, <2>6 DEF Serves
  <2>8. \A q \in Threads : HasTicket(q) => Ticket[q] \in 0 .. IssuedTicket - 1
    BY DEF TurnInv, TicketsDiffer
  <2>9. claim[p] = t + 1
    BY <2>5, <2>7
  <2>10. lastPushed <= t + 1 /\ t + 1 <= IssuedTicket
    BY <1>1, <2>5, <2>7, <2>8 DEF PushedInOrder
  <2>11. \A q \in Threads : HasTicket(q) => t + 1 <= Ticket[q] + 1 /\ Ticket[q] \in Int
    BY <1>1, <2>7, <2>8
  <2>12. lastPushed' \in Int /\ lastPushed' <= t + 1 /\ lastPushed' >= lastPushed
    BY <2>2, <2>9, <2>10 DEF PushedInOrder
  <2>13. QED
    BY <1>1, <2>2, <2>3, <2>10, <2>11, <2>12 DEF PushedInOrder
<1>3. CASE \E p \in Threads : drawTicket(p)
  <2>1. PICK p \in Threads : drawTicket(p)
    BY <1>3
  <2>2. /\ pc[p] = "number" /\ pc' = [pc EXCEPT ![p] = "publish"]
        /\ Ticket' = [Ticket EXCEPT ![p] = IssuedTicket] /\ IssuedTicket' = IssuedTicket + 1
        /\ UNCHANGED lastPushed
    BY <2>1 DEF drawTicket, goto, history
  <2>3. /\ Ticket'[p] = IssuedTicket
        /\ \A q \in Threads \ {p} : Ticket'[q] = Ticket[q] /\ (HasTicket(q)' => HasTicket(q))
    BY <2>2 DEF TypeInv, TypeOK, HasTicket
  <2>4. QED
    BY <1>1, <2>2, <2>3 DEF PushedInOrder
<1>4. CASE \E p \in Threads : reservePop(p) \/ awaitPreviousPop(p) \/ publishIndex(p)
                              \/ commitPop(p) \/ isMyTurn(p) \/ consume_safe(p)
  <2>1. PICK p \in Threads : reservePop(p) \/ awaitPreviousPop(p) \/ publishIndex(p)
                             \/ commitPop(p) \/ isMyTurn(p) \/ consume_safe(p)
    BY <1>4
  <2>2. /\ UNCHANGED <<IssuedTicket, lastPushed>>
        /\ \/ UNCHANGED Ticket
           \/ pc'[p] = "idle" /\ Ticket' = [Ticket EXCEPT ![p] = 0]
        /\ \/ \E c \in {"issue", "number", "idle", "pushed"} : pc' = [pc EXCEPT ![p] = c]
           \/ HasTicket(p) /\ \E c \in PCs : pc' = [pc EXCEPT ![p] = c]
           \/ UNCHANGED pc
    BY <2>1 DEF reservePop, awaitPreviousPop, publishIndex, commitPop, isMyTurn, consume_safe,
                serveAt, goto, issuer, locals, history, forgetCall, HasTicket, PCs,
                TypeInv, TypeOK
  <2>3. \A q \in Threads : HasTicket(q)' => HasTicket(q) /\ Ticket'[q] = Ticket[q]
    BY <2>2 DEF TypeInv, TypeOK, HasTicket
  <2>4. QED
    BY <2>2, <2>3 DEF PushedInOrder
<1>5. CASE UNCHANGED vars
  BY <1>5 DEF PushedInOrder, HasTicket, vars, issuer, locals, history
<1>6. QED
  BY <1>2, <1>3, <1>4, <1>5 DEF Next, streamEnds, proceed, issue

(* For any number of threads, slots and pops of any sizes: what is pushed  *)
(* follows the order of what was popped, unless a pop takes an old index   *)
(* for that of the pop before it.                                          *)
THEOREM OutputFollowsInputHolds ==
  Spec => OutputFollowsInput \/ <><<TakesOldIndex>>_vars
<1>1. Init => PushedInOrder
  BY DEF Init, PushedInOrder, HasTicket
<1>2. PushedInOrder /\ OrderInv /\ TypeInv /\ TurnInv /\ [Next]_vars => PushedInOrder'
  BY PushedInOrderStep
<1>3. PushedInOrder /\ OrderInv /\ TypeInv /\ TurnInv /\ [Next]_vars
        => [lastPushed' >= lastPushed]_vars
  <2> SUFFICES ASSUME PushedInOrder, OrderInv, TypeInv, TurnInv, [Next]_vars
               PROVE  lastPushed' >= lastPushed
    OBVIOUS
  <2>1. UNCHANGED lastPushed \/ lastPushed' >= lastPushed
    BY PushedInOrderStep
  <2>2. QED
    BY <2>1 DEF PushedInOrder
<1>4. QED
  BY <1>1, <1>2, <1>3, OneDrawsAtATime, TypesHold, OneTicketIsServed, PTL
     DEF Spec, OutputFollowsInput

-----------------------------------------------------------------------------
(* Where no old index is taken                                             *)

(* With pops of one element an index published in a slot is at most `gap`  *)
(* pops old when the slot is written again.  The ring has room for the     *)
(* pops that may be waiting behind that, as many as there are threads and  *)
(* less than the ring has slots, before the same index comes again.        *)
gap == Cores + (NumElm % Cores)

RoomForSlots ==
  \/ gap <= 2
  \/ FS!IsFiniteSet(Threads) /\ FS!Cardinality(Threads) + gap <= NumElm + 1

(* One slot for all, as in SingleOrderingTicketIssuer, which is written by *)
(* every pop; or slots enough for pops of one element.                     *)
SlotsEnough == Cores = 1 \/ (PopNums = {1} /\ RoomForSlots)

(* The slot of an index comes again, at the latest a lap and the rest of   *)
(* the ring later.                                                         *)
LEMMA SlotAgain ==
  ASSUME NEW c \in Int
  PROVE  \E d \in c + 1 .. c + gap : slot(d) = slot(c)
<1>1. NumElm \in Nat \ {0} /\ Cores \in Nat \ {0}
  BY TicketAssumption
<1>2. PICK k \in Int, r \in 0 .. NumElm - 1 : c = NumElm * k + r /\ idx(c) = r
  BY <1>1, DivMod DEF idx
<1>3. PICK y \in Int, m \in 0 .. Cores - 1 : r = Cores * y + m /\ r % Cores = m
  <2>1. r \in Int
    OBVIOUS
  <2>2. r \div Cores \in Int /\ r % Cores \in 0 .. Cores - 1
        /\ r = Cores * (r \div Cores) + (r % Cores)
    BY <1>1, <2>1, DivMod, Zenon
  <2>3. QED
    BY <2>2, Zenon
<1>4. m <= r
  <2>1. y >= 0
    <3> SUFFICES ASSUME y <= -1 PROVE FALSE
      OBVIOUS
    <3>1. Cores * y <= -Cores
      BY <1>1
    <3>2. QED
      BY <1>1, <1>3, <3>1
  <2>2. Cores * y >= 0
    BY <1>1, <2>1
  <2>3. QED
    BY <1>1, <1>3, <2>2
<1>5. PICK z \in Int, rest \in 0 .. Cores - 1 :
        NumElm = Cores * z + rest /\ gap = Cores + rest
  <2>1. NumElm \in Int
    BY <1>1
  <2>2. NumElm \div Cores \in Int /\ NumElm % Cores \in 0 .. Cores - 1
        /\ NumElm = Cores * (NumElm \div Cores) + (NumElm % Cores)
    BY <1>1, <2>1, DivMod, Zenon
  <2>3. QED
    BY <2>2 DEF gap
<1>6. CASE r + Cores < NumElm
  <2>1. c + Cores = NumElm * k + (r + Cores) /\ r + Cores \in 0 .. NumElm - 1
    BY <1>1, <1>2, <1>6
  <2>2. idx(c + Cores) = r + Cores
    <3>1. (NumElm * k + (r + Cores)) % NumElm = r + Cores
      BY <1>1, <1>2, <2>1, ModIs, Zenon
    <3>2. QED
      BY <2>1, <3>1, Zenon DEF idx
  <2>3. (r + Cores) % Cores = r % Cores
    <3>1. r \in Int
      OBVIOUS
    <3>2. QED
      BY <1>1, <3>1, NextLap, Zenon
  <2>4. slot(c + Cores) = slot(c)
    BY <1>2, <2>2, <2>3 DEF slot
  <2>5. c + Cores \in c + 1 .. c + gap
    BY <1>1, <1>5
  <2>6. QED
    BY <2>4, <2>5
<1>7. CASE ~(r + Cores < NumElm)
  <2> DEFINE d == c + (NumElm - r) + m
  <2>1. d = NumElm * (k + 1) + m /\ k + 1 \in Int /\ m \in 0 .. NumElm - 1
    BY <1>1, <1>2, <1>4
  <2>2. idx(d) = m
    <3>1. (NumElm * (k + 1) + m) % NumElm = m
      BY <1>1, <2>1, ModIs, Zenon
    <3>2. QED
      BY <2>1, <3>1, Zenon DEF idx
  <2>3. slot(d) = slot(c)
    BY <1>1, <1>2, <1>3, <2>2, OwnSlot DEF slot
  <2>4. d - c = Cores * (z - y) + rest
    BY <1>1, <1>3, <1>5
  <2>5. z - y <= 1
    <3> SUFFICES ASSUME z - y >= 2 PROVE FALSE
      OBVIOUS
    <3>1. Cores * (z - y) >= 2 * Cores
      BY <1>1
    <3>2. QED
      BY <1>1, <1>3, <1>5, <1>7, <3>1
  <2>6. Cores * (z - y) <= Cores
    BY <1>1, <2>5
  <2>7. d \in c + 1 .. c + gap
    <3> HIDE DEF d
    <3>1. d \in Int /\ d > c
      BY <1>1 DEF d
    <3>2. QED
      BY <1>1, <1>5, <2>4, <2>6, <3>1
  <2>8. QED
    BY <2>3, <2>7
<1>8. QED
  BY <1>6, <1>7

(* The pops that wait or are about to publish are with different threads.  *)
LEMMA FewWait ==
  ASSUME ClaimsDiffer, NEW n \in 0 .. claims, Published(n),
         FS!IsFiniteSet(Threads)
  PROVE  claims - n <= FS!Cardinality(Threads)
<1> DEFINE S == n + 1 .. claims
           f == [c \in S |-> CHOOSE p \in Threads : claim[p] = c]
<1>1. n \in Int /\ claims \in Int /\ n <= claims
  BY TicketAssumption DEF ClaimsDiffer
<1>2. \A c \in S : f[c] \in Threads /\ claim[f[c]] = c
  BY DEF Published
<1>3. f \in FS!Injection(S, Threads)
  BY <1>2 DEF FS!Injection, FS!IsInjective
<1>4. FS!Cardinality(S) <= FS!Cardinality(Threads)
  <2> HIDE DEF f, S
  <2>1. QED
    BY <1>3, FS!FS_Injection
<1>5. FS!Cardinality(n + 1 .. claims) = claims - n
  <2>1. FS!Cardinality(n + 1 .. claims)
          = IF n + 1 > claims THEN 0 ELSE claims - (n + 1) + 1
    BY <1>1, FS!FS_Interval
  <2>2. QED
    BY <1>1, <2>1
<1>6. QED
  BY <1>4, <1>5

(* awaitPreviousPop: what it waits for in its slot is not left over from   *)
(* an earlier lap.                                                         *)
LEMMA PreviousIsLast ==
  ASSUME SlotsEnough, OrderInv, TypeInv, NEW p \in Threads, awaitPreviousPop(p)
  PROVE  \E n \in 0 .. claims : Published(n) /\ claim[p] = n + 1
<1> DEFINE c == claim[p]
<1>1. /\ ClaimsDiffer /\ NumElm \in Nat \ {0} /\ NumElm >= 2 /\ Cores \in Nat \ {0}
      /\ claims \in Nat
  BY OrderFacts DEF OrderInv
<1>2. pc[p] = "issue" /\ LastIndexArray[OldIndex[p] % Cores] = OldIndex[p]
  BY DEF awaitPreviousPop, goto
<1>3. PICK place \in [0 .. claims -> Int], n \in 0 .. claims :
        \E h \in 0 .. n : Order(place, n, h)
  BY DEF OrderInv
<1>4. PICK h \in 0 .. n : Order(place, n, h)
  BY <1>3
<1>5. Places(place) /\ Published(n) /\ Written(place, n) /\ Committed(place, h)
  BY <1>4 DEF Order
<1>6. n \in Int /\ n >= 0 /\ n <= claims /\ h \in Int /\ h >= 0 /\ h <= n
  BY <1>1
<1>7. c \in Int /\ c \in 1 .. claims /\ c > n /\ OldIndex[p] = idx(place[c - 1])
  BY <1>1, <1>2, <1>5 DEF ClaimsDiffer, Published, Places
<1> HIDE DEF c
<1>8. /\ c - 1 \in 0 .. claims /\ n \in 0 .. claims /\ h \in 0 .. claims
      /\ claims \in 0 .. claims
  BY <1>1, <1>6, <1>7
<1>9. \A d \in 0 .. claims : place[d] \in Int
  OBVIOUS
<1> DEFINE s == slot(place[c - 1])
<1>10. idx(place[c - 1]) >= 0 /\ s \in Slots /\ LastIndexArray[s] = idx(place[c - 1])
  <2>1. place[c - 1] \in Int
    BY <1>8, <1>9
  <2>2. idx(place[c - 1]) \in 0 .. NumElm - 1 /\ s \in Slots
    BY <2>1, IdxType
  <2>3. LastIndexArray[s] = idx(place[c - 1])
    BY <1>2, <1>7 DEF slot
  <2>4. QED
    BY <1>1, <2>2, <2>3
<1>11. PICK b \in 0 .. n : Latest(place, s, b, n)
  <2>1. LastIndexArray[s] # -1
    BY <1>10
  <2>2. QED
    BY <1>5, <1>10, <2>1 DEF Written
<1>12. /\ b \in Int /\ b >= 0 /\ b <= n /\ b \in 0 .. claims
       /\ idx(place[b]) = idx(place[c - 1])
       /\ slot(place[b]) = s /\ \A d \in b + 1 .. n : slot(place[d]) # s
  <2> HIDE DEF s
  <2>1. b \in Int /\ b >= 0 /\ b <= n /\ b \in 0 .. claims
    BY <1>1, <1>6
  <2>2. QED
    BY <1>10, <1>11, <2>1 DEF Latest
<1> HIDE DEF s
<1>13. c = n + 1
  <2> SUFFICES ASSUME c # n + 1 PROVE FALSE
    OBVIOUS
  <2>1. b < c - 1 /\ n < c - 1 /\ h < c - 1 /\ c - 1 < claims
    BY <1>1, <1>6, <1>7, <1>12
  <2>2. /\ place[b] < place[c - 1] /\ place[n] < place[c - 1]
        /\ place[c - 1] < place[claims]
    BY <1>5, <1>8, <1>12, <2>1 DEF Places
  <2>3. place[claims] - place[h] < NumElm
    BY <1>5 DEF Committed
  <2>4. /\ place[b] \in Int /\ place[c - 1] \in Int /\ place[claims] \in Int
        /\ place[h] \in Int /\ place[n] \in Int
    BY <1>8, <1>9, <1>12
  <2>5. place[c - 1] - place[b] >= NumElm
    <3> SUFFICES ASSUME place[c - 1] - place[b] < NumElm PROVE FALSE
      BY <1>1, <2>4
    <3>1. -NumElm < place[b] - place[c - 1] /\ place[b] - place[c - 1] < NumElm
      BY <1>1, <2>2, <2>4
    <3>2. place[b] = place[c - 1]
      BY <1>12, <2>4, <3>1, SameIdx
    <3>3. QED
      BY <2>2, <2>4, <3>2
  <2>6. CASE Cores = 1
    <3>1. place[h] <= place[n]
      BY <1>5, <1>6, <1>8, <2>4 DEF Places
    <3>2. b # n
      BY <1>1, <2>2, <2>3, <2>4, <2>5, <3>1
    <3>3. n \in b + 1 .. n
      BY <1>6, <1>12, <3>2
    <3>4. slot(place[n]) \in Slots /\ slot(place[b]) \in Slots
      BY <2>4, IdxType
    <3>5. slot(place[n]) = 0 /\ slot(place[b]) = 0
      BY <2>6, <3>4 DEF Slots
    <3>6. QED
      BY <1>12, <3>3, <3>5
  <2>7. CASE PopNums = {1} /\ RoomForSlots
    <3>1. \A d \in 0 .. claims : place[d] = d
      BY <1>5, <2>7 DEF Places
    <3>2. (c - 1) - b >= NumElm /\ claims - h < NumElm
      BY <1>8, <1>12, <2>3, <2>5, <3>1
    <3>3. gap \in Int
      BY <1>1, DivMod DEF gap
    <3>4. n >= b + gap
      <4>1. CASE gap <= 2
        BY <1>1, <1>6, <1>7, <1>12, <3>2, <3>3, <4>1
      <4>2. CASE FS!IsFiniteSet(Threads) /\ FS!Cardinality(Threads) + gap <= NumElm + 1
        <5>1. PICK T \in Nat : T = FS!Cardinality(Threads) /\ claims - n <= T
          BY <1>1, <1>5, <4>2, FewWait, FS!FS_CardinalityType
        <5>2. T + gap <= NumElm + 1
          BY <4>2, <5>1
        <5>3. QED
          BY <1>1, <1>6, <1>7, <1>12, <3>2, <3>3, <5>1, <5>2
      <4>3. QED
        BY <2>7, <4>1, <4>2 DEF RoomForSlots
    <3>5. PICK d \in b + 1 .. b + gap : slot(d) = slot(b)
      BY <1>12, SlotAgain
    <3>6. d \in b + 1 .. n /\ d \in 0 .. claims
      BY <1>1, <1>6, <1>12, <3>3, <3>4, <3>5
    <3>7. place[d] = d /\ place[b] = b
      BY <1>12, <3>1, <3>6
    <3>8. QED
      BY <1>12, <3>5, <3>6, <3>7
  <2>8. QED
    BY <2>6, <2>7 DEF SlotsEnough
<1>14. QED
  BY <1>5, <1>8, <1>13 DEF c

(* With one slot for all, for pops of any sizes, and with slots enough     *)
(* for pops of one element, no pop takes an old index: the tickets and     *)
(* the output keep the order of the input.                                 *)
THEOREM OrderIsKept ==
  ASSUME Cores = 1 \/ (PopNums = {1} /\ RoomForSlots)
  PROVE  Spec => /\ [][~TakesOldIndex]_vars
                 /\ []TicketsFollowClaims
                 /\ OutputFollowsInput
<1>1. OrderInv /\ TypeInv => ~TakesOldIndex
  <2> SUFFICES ASSUME OrderInv, TypeInv, NEW p \in Threads, NEW q \in Threads,
                      awaitPreviousPop(p), claim[q] \in 1 .. claim[p] - 1,
                      pc[q] \in {"issue", "number", "publish"}
               PROVE  FALSE
    BY DEF TakesOldIndex
  <2>1. SlotsEnough
    BY DEF SlotsEnough
  <2>2. PICK n \in 0 .. claims : Published(n) /\ claim[p] = n + 1
    BY <2>1, PreviousIsLast
  <2>3. claim[q] > n /\ claims \in Nat
    BY <2>2, OrderFacts DEF Published, OrderInv
  <2>4. QED
    BY <2>2, <2>3
<1>2. Spec => []OrderInv \/ <><<TakesOldIndex>>_vars
  BY OneDrawsAtATime
<1>3. Init => OrderInv
  BY OrderBegins
<1>4. OrderInv /\ UNCHANGED vars => OrderInv'
  BY OrderSame
<1>5. OrderInv /\ TypeInv /\ Next => OrderInv'
  BY <1>1, OrderStep
<1>6. Spec => []OrderInv
  BY <1>3, <1>4, <1>5, TypesHold, PTL DEF Spec
<1>7. QED
  BY <1>1, <1>6, TypesHold, TicketsFollowClaimsHolds, OutputFollowsInputHolds, PTL
=============================================================================

-------------------------- MODULE OrderingTickets --------------------------
(***************************************************************************)
(* Ticket ordering: the pops of one queue draw tickets in the order of     *)
(* their reservations (a ticket issuer), and the pushes into another queue *)
(* happen in the order of the tickets (a ticket server), so that a         *)
(* parallel kernel keeps the order of its stream.                          *)
(*                                                                         *)
(* PerCPUOrderingTicketIssuer and -Server, the default, spread their       *)
(* counters over one slot per hardware thread.  With Cores = 1 they are    *)
(* SingleOrderingTicketIssuer and -Server, word for word.  The input queue *)
(* is reduced to its two pop indices: data is always there, a claim fails  *)
(* only for lack of it, and windows are committed in order of their index. *)
(***************************************************************************)
EXTENDS RingIndex

CONSTANTS Threads,      \* threads of the kernel between the two queues
          NumElm,       \* slots of the input queue
          Cores,        \* hardware threads, hence slots of the arrays
          PopNums,      \* numbers of elements that one pop reserves
          MaxClaims     \* pops until the input stream ends

ASSUME TicketAssumption ==
  /\ NumElm \in Nat /\ NumElm >= 2
  /\ Cores \in Nat \ {0}
  /\ PopNums \subseteq 1 .. (NumElm - 1)
  /\ MaxClaims \in Nat

VARIABLES
  Head, ReservedHead,    \* committed and reserved pop index of the input
  IssuedTicket, LastIndexArray,      \* the issuer
  ServingTicketArray,                \* the server
  OldIndex, num, Ticket,             \* locals of a thread
  uncommitted,                       \* its input window is not yet committed
  pc,
  claims, claim,         \* history: pops so far, and the number of p's pop
  lastPushed             \* history: number of the pop whose results went last

queue == <<Head, ReservedHead>>
issuer == <<IssuedTicket, LastIndexArray>>
locals == <<OldIndex, num, Ticket>>
history == <<claims, claim, lastPushed>>
vars == <<queue, issuer, ServingTicketArray, locals, uncommitted, pc, history>>

Slots == 0 .. (Cores - 1)

(* "issue": waits for the issuer; "number", "publish": inside issue;       *)
(* "held": has a ticket; "turn": isMyTurn said yes; "consume": has pushed; *)
(* "pushed": the ticket is consumed, the input window still open.          *)
PCs == {"idle", "issue", "number", "publish", "held", "turn", "consume", "pushed"}

Init ==
  /\ Head = 0 /\ ReservedHead = 0
  /\ IssuedTicket = 0
  /\ LastIndexArray = [s \in Slots |-> IF s = 0 THEN 0 ELSE -1]
  /\ ServingTicketArray = [s \in Slots |-> IF s = 0 THEN 0 ELSE s - Cores]
  /\ OldIndex = [p \in Threads |-> 0]
  /\ num = [p \in Threads |-> 1]
  /\ Ticket = [p \in Threads |-> 0]
  /\ uncommitted = [p \in Threads |-> FALSE]
  /\ pc = [p \in Threads |-> "idle"]
  /\ claims = 0 /\ claim = [p \in Threads |-> 0] /\ lastPushed = 0

NewIndex(p) == advance(NumElm, OldIndex[p], num[p])

goto(p, from, to) == pc[p] = from /\ pc' = [pc EXCEPT ![p] = to]

-----------------------------------------------------------------------------
(* The CAS of reservePopN on ReservedHead, for at most NumElm - 1 slots.   *)
reservePop(p) ==
  \E n \in PopNums :
    /\ claims < MaxClaims
    /\ getNumFilledElements(NumElm, Head, ReservedHead) + n < NumElm
    /\ goto(p, "idle", "issue")
    /\ OldIndex' = [OldIndex EXCEPT ![p] = ReservedHead]
    /\ num' = [num EXCEPT ![p] = n]
    /\ ReservedHead' = advance(NumElm, ReservedHead, n)
    /\ uncommitted' = [uncommitted EXCEPT ![p] = TRUE]
    /\ claims' = claims + 1
    /\ claim' = [claim EXCEPT ![p] = claims + 1]
    /\ UNCHANGED <<Head, issuer, ServingTicketArray, Ticket, lastPushed>>

(* Slip: issue does not wait for the previous pop.                         *)
issueAtOnce(p) ==
  /\ goto(p, "issue", "number")
  /\ UNCHANGED <<queue, issuer, ServingTicketArray, locals, uncommitted, history>>

(* issue: while (!casInt(&LastIndexArray[OldSlot], OldIndex, OldIndex));   *)
awaitPreviousPop(p) ==
  /\ LastIndexArray[OldIndex[p] % Cores] = OldIndex[p]
  /\ goto(p, "issue", "number")
  /\ UNCHANGED <<queue, issuer, ServingTicketArray, locals, uncommitted, history>>

(* issue: *Ticket = atomicIntInc(&IssuedTicket) - 1                        *)
drawTicket(p) ==
  /\ goto(p, "number", "publish")
  /\ Ticket' = [Ticket EXCEPT ![p] = IssuedTicket]
  /\ IssuedTicket' = IssuedTicket + 1
  /\ UNCHANGED <<queue, LastIndexArray, ServingTicketArray, OldIndex, num,
                 uncommitted, history>>

(* Slip: the new index goes to the slot of the old one.                    *)
publishInOldSlot(p) ==
  /\ goto(p, "publish", "held")
  /\ LastIndexArray' = [LastIndexArray EXCEPT ![OldIndex[p] % Cores] = NewIndex(p)]
  /\ UNCHANGED <<queue, IssuedTicket, ServingTicketArray, locals, uncommitted, history>>

(* issue: LastIndexArray[NewSlot] = NewIndex                               *)
publishIndex(p) ==
  /\ goto(p, "publish", "held")
  /\ LastIndexArray' = [LastIndexArray EXCEPT ![NewIndex(p) % Cores] = NewIndex(p)]
  /\ UNCHANGED <<queue, IssuedTicket, ServingTicketArray, locals, uncommitted, history>>

(* A call is over when its ticket is consumed and its window committed.    *)
forgetCall(p) ==
  /\ OldIndex' = [OldIndex EXCEPT ![p] = 0]
  /\ num' = [num EXCEPT ![p] = 1]
  /\ Ticket' = [Ticket EXCEPT ![p] = 0]
  /\ claim' = [claim EXCEPT ![p] = 0]

(* commitPop of the input window, in index order, before or after the push. *)
commitPop(p) ==
  /\ uncommitted[p] /\ Head = OldIndex[p]
  /\ Head' = NewIndex(p)
  /\ uncommitted' = [uncommitted EXCEPT ![p] = FALSE]
  /\ \/ pc[p] = "held" /\ UNCHANGED <<pc, locals, claim>>
     \/ goto(p, "pushed", "idle") /\ forgetCall(p)
  /\ UNCHANGED <<ReservedHead, issuer, ServingTicketArray, claims, lastPushed>>

(* Slip: everybody's turn.                                                 *)
takeTurn(p) ==
  /\ goto(p, "held", "turn")
  /\ UNCHANGED <<queue, issuer, ServingTicketArray, locals, uncommitted, history>>

(* casInt(&ServingTicketArray[Slot], Ticket, Ticket): asked by reservePushN *)
(* until it is true, and by consume in a loop.                             *)
isMyTurn(p) ==
  /\ ServingTicketArray[Ticket[p] % Cores] = Ticket[p]
  /\ goto(p, "held", "turn")
  /\ UNCHANGED <<queue, issuer, ServingTicketArray, locals, uncommitted, history>>

(* reservePushN moves ReservedTail of the output queue, or the kernel has  *)
(* nothing to push and called consumePushTicket.                           *)
pushInTurn(p) ==
  /\ goto(p, "turn", "consume")
  /\ lastPushed' \in {claim[p], lastPushed}
  /\ UNCHANGED <<queue, issuer, ServingTicketArray, locals, uncommitted, claims, claim>>

(* ServingTicketArray[slot] += Cores, then on with or without the commit.  *)
serveAt(p, slot) ==
  /\ ServingTicketArray' = [ServingTicketArray EXCEPT ![slot] = @ + Cores]
  /\ \/ uncommitted[p] /\ goto(p, "consume", "pushed") /\ UNCHANGED <<locals, claim>>
     \/ ~uncommitted[p] /\ goto(p, "consume", "idle") /\ forgetCall(p)
  /\ UNCHANGED <<queue, issuer, uncommitted, claims, lastPushed>>

(* Slip: the slot of the consumed ticket is advanced, not the next one.    *)
consumeOwnSlot(p) == serveAt(p, Ticket[p] % Cores)

(* consume_safe: the slot of the next ticket is advanced by Cores.         *)
consume_safe(p) == serveAt(p, (Ticket[p] + 1) % Cores)

(* The input stream has ended and every thread is done.                    *)
streamEnds ==
  /\ claims = MaxClaims /\ \A p \in Threads : pc[p] = "idle"
  /\ UNCHANGED vars

issue(p) == awaitPreviousPop(p) \/ drawTicket(p) \/ publishIndex(p)

proceed(p) ==
  issue(p) \/ commitPop(p) \/ isMyTurn(p) \/ pushInTurn(p) \/ consume_safe(p)

Next == (\E p \in Threads : reservePop(p) \/ proceed(p)) \/ streamEnds

Spec == Init /\ [][Next]_vars

(* Threads run until their call is over; they need not start another one.  *)
FairSpec == Spec /\ \A p \in Threads : WF_vars(proceed(p))

-----------------------------------------------------------------------------
(* Properties                                                              *)

(* The variables have their types; a slot of either array only ever holds  *)
(* values that hash to it.                                                 *)
TypeOK ==
  /\ {Head, ReservedHead} \subseteq 0 .. (NumElm - 1)
  /\ IssuedTicket \in 0 .. MaxClaims
  /\ \A s \in Slots :
       /\ LastIndexArray[s] \in {-1} \cup { i \in 0 .. (NumElm - 1) : i % Cores = s }
       /\ ServingTicketArray[s] % Cores = s
  /\ OldIndex \in [Threads -> 0 .. (NumElm - 1)]
  /\ num \in [Threads -> 1 .. (NumElm - 1)]
  /\ Ticket \in [Threads -> 0 .. MaxClaims]
  /\ uncommitted \in [Threads -> BOOLEAN]
  /\ pc \in [Threads -> PCs]

HasTicket(p) == pc[p] \in {"publish", "held", "turn", "consume"}

(* "Wait until previous pop() finish to issue a ticket": tickets are drawn *)
(* in the order in which the windows were reserved.                        *)
TicketsFollowClaims ==
  \A p, q \in Threads :
    (HasTicket(q) /\ claim[p] \in 1 .. (claim[q] - 1) /\ pc[p] # "pushed")
      => HasTicket(p) /\ Ticket[p] < Ticket[q]

(* The server serves one ticket at a time: between isMyTurn and            *)
(* consume_safe a thread is alone.                                         *)
OneTurn ==
  \A p, q \in Threads :
    (pc[p] \in {"turn", "consume"} /\ pc[q] \in {"turn", "consume"}) => p = q

(* What is pushed follows the order of what was popped.                    *)
OutputFollowsInput == [][lastPushed' >= lastPushed]_vars

(* No ticket is lost between issuer and server: whoever reserved gets a    *)
(* ticket, its turn and its commit.                                        *)
TicketsServed == \A p \in Threads : pc[p] = "issue" ~> pc[p] = "idle"
=============================================================================

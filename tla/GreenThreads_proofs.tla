------------------------- MODULE GreenThreads_proofs -------------------------
(***************************************************************************)
(* Green threads, for any number of native and of green threads, both      *)
(* policies, and any order of their steps: no two native threads run on    *)
(* one stack, a thread is switched to only when its context is in memory,  *)
(* an ended one is run no more, and none is forgotten.  The adapter drops  *)
(* a thread in the recycle bin while it is still on its stack; one step,   *)
(* RecycledOnStack, breaks these properties, and no other does.  PromptEnd *)
(* may be FALSE: nothing here assumes it.                                  *)
(***************************************************************************)
EXTENDS GreenThreads, FiniteSetTheorems, SequenceTheorems, TLAPS

(* The threads in a queue.                                                 *)
InQueue(q) == { q[i] : i \in 1 .. Len(q) }
Distinct(q) == \A i, j \in 1 .. Len(q) : q[i] = q[j] => i = j

Ready == InQueue(ReadyQueue)
Bin == InQueue(RecycleBin)

(* Which of the two pointers a native thread has, by the place it is at.   *)
Pointers ==
  \A w \in Workers :
    /\ at[w] \in {"begin", "run", "switch", "callback", "mark", "leave"} <=> stack[w] # NULL
    /\ at[w] \in {"start", "switch", "callback"} <=> Next_[w] # NULL

(* A green thread is in one place only: ready, in the bin, chosen by a     *)
(* native thread or running on one.  Only one that ends is on its stack    *)
(* and in the bin.                                                         *)
Apart ==
  /\ Distinct(ReadyQueue) /\ Distinct(RecycleBin) /\ Ready \cap Bin = {}
  /\ \A w \in Workers : Next_[w] \notin Ready \cup Bin
  /\ \A v, w \in Workers : Next_[w] # NULL => stack[v] # Next_[w]
  /\ \A v, w \in Workers : Next_[w] # NULL /\ Next_[v] = Next_[w] => v = w
  /\ \A w \in Workers : /\ stack[w] \notin Ready
                        /\ stack[w] \in Bin => Recycling /\ ending(w)
  /\ \A v, w \in Workers : stack[w] # NULL /\ stack[v] = stack[w] => v = w

(* The context of a thread that may be switched to is in memory, and one   *)
(* that has been interrupted has not ended.                                *)
Resumable(t) == SP[t] = "fresh" \/ (SP[t] = "saved" /\ ~Terminated[t])

Contexts ==
  /\ \A t \in Ready : Resumable(t)
  /\ \A t \in Bin : SP[t] # "none"
  /\ \A w \in Workers : Next_[w] # NULL => Resumable(Next_[w])
  /\ \A w \in Workers : stack[w] # NULL =>
       /\ SP[stack[w]] = IF at[w] = "callback" THEN "saved" ELSE "loaded"
       /\ Terminated[stack[w]] => at[w] \in {"begin", "leave"}
       /\ at[w] = "leave" => Terminated[stack[w]]

(* No thread of the FIFO policy is forgotten.                              *)
Accounted ==
  ~Recycling => \A t \in Threads :
    \/ t \in Ready
    \/ \E w \in Workers : t \in {Next_[w], stack[w]}
    \/ Terminated[t]

StackInv == TypeOK /\ Pointers /\ Apart /\ Contexts /\ Accounted

(* newGreenThread takes a thread from the recycle bin while a native       *)
(* thread is still on its stack, between the push to the bin and the       *)
(* return to the native stack.                                             *)
RecycledOnStack ==
  \E w \in Workers :
    /\ newGreenThread(w)
    /\ RecycleBin # <<>> /\ \E v \in Workers : stack[v] = Head(RecycleBin)

-----------------------------------------------------------------------------
(* Queues without duplicates                                               *)

LEMMA EmptyQueue ==
  ASSUME NEW S
  PROVE  <<>> \in Seq(S) /\ Distinct(<<>>) /\ InQueue(<<>>) = {}
<1>1. <<>> \in Seq(S) /\ Len(<<>>) = 0
  BY EmptySeq
<1>2. 1 .. Len(<<>>) = {}
  BY <1>1
<1>3. QED
  BY <1>1, <1>2 DEF Distinct, InQueue

LEMMA QueueSet ==
  ASSUME NEW S, NEW q \in Seq(S)
  PROVE  InQueue(q) \subseteq S /\ (q = <<>> <=> InQueue(q) = {})
<1>1. Len(q) \in Nat /\ \A i \in 1 .. Len(q) : q[i] \in S
  BY LenProperties
<1>2. q # <<>> => 1 \in 1 .. Len(q)
  BY <1>1, EmptySeq
<1>3. InQueue(<<>>) = {}
  BY EmptyQueue
<1>4. q # <<>> => InQueue(q) # {}
  BY <1>2 DEF InQueue
<1>5. InQueue(q) \subseteq S
  BY <1>1 DEF InQueue
<1>6. QED
  BY <1>3, <1>4, <1>5

LEMMA PopFront ==
  ASSUME NEW S, NEW q \in Seq(S), q # <<>>, Distinct(q)
  PROVE  /\ Head(q) \in InQueue(q) /\ Head(q) \in S
         /\ Tail(q) \in Seq(S) /\ Distinct(Tail(q))
         /\ InQueue(Tail(q)) = InQueue(q) \ {Head(q)}
<1>1. /\ Len(q) \in Nat \ {0} /\ Head(q) = q[1] /\ Tail(q) \in Seq(S)
      /\ Len(Tail(q)) = Len(q) - 1 /\ \A i \in 1 .. Len(Tail(q)) : Tail(q)[i] = q[i + 1]
      /\ \A i \in 1 .. Len(q) : q[i] \in S
  BY HeadTailProperties, LenProperties, EmptySeq
<1>2. 1 \in 1 .. Len(q)
  BY <1>1
<1>3. Distinct(Tail(q))
  <2> SUFFICES ASSUME NEW i \in 1 .. Len(Tail(q)), NEW j \in 1 .. Len(Tail(q)),
                      Tail(q)[i] = Tail(q)[j]
               PROVE  i = j
    BY DEF Distinct
  <2>1. q[i + 1] = q[j + 1] /\ i + 1 \in 1 .. Len(q) /\ j + 1 \in 1 .. Len(q)
    BY <1>1
  <2>2. i + 1 = j + 1
    BY <2>1 DEF Distinct
  <2>3. QED
    BY <1>1, <2>2
<1>4. InQueue(Tail(q)) \subseteq InQueue(q) \ {Head(q)}
  <2> SUFFICES ASSUME NEW i \in 1 .. Len(Tail(q))
               PROVE  Tail(q)[i] \in InQueue(q) \ {Head(q)}
    BY DEF InQueue
  <2>1. Tail(q)[i] = q[i + 1] /\ i + 1 \in 1 .. Len(q) /\ i + 1 # 1
    BY <1>1
  <2>2. q[i + 1] # q[1]
    BY <1>2, <2>1 DEF Distinct
  <2>3. QED
    BY <1>1, <2>1, <2>2 DEF InQueue
<1>5. InQueue(q) \ {Head(q)} \subseteq InQueue(Tail(q))
  <2> SUFFICES ASSUME NEW i \in 1 .. Len(q), q[i] # q[1] PROVE q[i] \in InQueue(Tail(q))
    BY <1>1 DEF InQueue
  <2>1. i - 1 \in 1 .. Len(Tail(q)) /\ (i - 1) + 1 = i
    BY <1>1
  <2>2. Tail(q)[i - 1] = q[i]
    BY <1>1, <2>1
  <2>3. QED
    BY <2>1, <2>2 DEF InQueue
<1>6. Head(q) \in InQueue(q)
  BY <1>1, <1>2 DEF InQueue
<1>7. QED
  BY <1>1, <1>2, <1>3, <1>4, <1>5, <1>6

LEMMA PushBack ==
  ASSUME NEW S, NEW q \in Seq(S), NEW t \in S, Distinct(q), t \notin InQueue(q)
  PROVE  /\ Append(q, t) \in Seq(S) /\ Distinct(Append(q, t))
         /\ InQueue(Append(q, t)) = InQueue(q) \cup {t}
<1> DEFINE r == Append(q, t)
<1>1. /\ r \in Seq(S) /\ Len(q) \in Nat /\ Len(r) = Len(q) + 1
      /\ \A i \in 1 .. Len(q) : r[i] = q[i]
      /\ r[Len(q) + 1] = t
  BY AppendProperties, LenProperties
<1> HIDE DEF r
<1>2. \A i \in 1 .. Len(r) : i \in 1 .. Len(q) \/ i = Len(q) + 1
  BY <1>1
<1>3. \A i \in 1 .. Len(q) : q[i] # t
  BY DEF InQueue
<1>4. Distinct(r)
  BY <1>1, <1>2, <1>3 DEF Distinct
<1>5. InQueue(r) \subseteq InQueue(q) \cup {t}
  BY <1>1, <1>2 DEF InQueue
<1>6. InQueue(q) \cup {t} \subseteq InQueue(r)
  <2>1. Len(q) + 1 \in 1 .. Len(r) /\ \A i \in 1 .. Len(q) : i \in 1 .. Len(r)
    BY <1>1
  <2>2. QED
    BY <1>1, <2>1 DEF InQueue
<1>7. QED
  BY <1>1, <1>4, <1>5, <1>6 DEF r

LEMMA ConcatOne ==
  ASSUME NEW S, NEW q \in Seq(S), NEW t
  PROVE  q \o <<t>> = Append(q, t)
BY AppendProperties, ConcatProperties

-----------------------------------------------------------------------------
(* The beginning                                                           *)

LEMMA InvBegins == Init => StackInv
<1> SUFFICES ASSUME Init PROVE StackInv
  OBVIOUS
<1>1. /\ SchedulePolicy \in Policies /\ RecycleBin = <<>>
      /\ NULL \notin Threads /\ IsFiniteSet(Threads)
      /\ Policies \subseteq {"Fifo", "Adapter"}
  BY PolicyAssumption DEF Init
<1>2. Bin = {} /\ Distinct(RecycleBin) /\ RecycleBin \in Seq(Threads)
  <2>1. <<>> \in Seq(Threads) /\ Distinct(<<>>) /\ InQueue(<<>>) = {}
    BY EmptyQueue
  <2>2. QED
    BY <1>1, <2>1 DEF Bin
<1>3. /\ ReadyQueue \in Seq(Threads) /\ Distinct(ReadyQueue)
      /\ Ready = IF Recycling THEN {} ELSE Threads
  <2>1. CASE Recycling
    <3>1. ReadyQueue = <<>>
      BY <2>1 DEF Init
    <3>2. <<>> \in Seq(Threads) /\ Distinct(<<>>) /\ InQueue(<<>>) = {}
      BY EmptyQueue
    <3>3. QED
      BY <2>1, <3>1, <3>2 DEF Ready
  <2>2. CASE ~Recycling
    <3> DEFINE n == Cardinality(Threads)
    <3>1. n \in Nat
      BY <1>1, FS_CardinalityType, Zenon
    <3>2. /\ ReadyQueue \in [1 .. n -> Threads]
          /\ \A i, j \in 1 .. n : i # j => ReadyQueue[i] # ReadyQueue[j]
      BY <2>2 DEF Init, SetToSeqs
    <3>3. ReadyQueue \in Injection(1 .. n, Threads)
      BY <3>2 DEF Injection, IsInjective
    <3>4. Cardinality(1 .. n) = n
      <4>1. Cardinality(1 .. n) = IF 1 > n THEN 0 ELSE n - 1 + 1
        BY <3>1, FS_Interval
      <4>2. QED
        BY <3>1, <4>1
    <3>5. ReadyQueue \in Surjection(1 .. n, Threads)
      BY <1>1, <3>3, <3>4, FS_Injection
    <3>6. ReadyQueue \in Seq(Threads) /\ Len(ReadyQueue) = n
      BY <3>1, <3>2
    <3>7. \A t \in Threads : \E i \in 1 .. n : ReadyQueue[i] = t
      BY <3>5 DEF Surjection
    <3>8. Ready = Threads
      BY <3>2, <3>6, <3>7 DEF Ready, InQueue
    <3>9. QED
      BY <2>2, <3>2, <3>6, <3>8 DEF Distinct
  <2>3. QED
    BY <2>1, <2>2
<1>4. TypeOK
  BY <1>1, <1>2, <1>3 DEF TypeOK, Init
<1>5. Pointers
  BY DEF Init, Pointers
<1>6. Apart
  BY <1>1, <1>2, <1>3 DEF Init, Apart, ending
<1>7. Contexts
  BY <1>1, <1>2, <1>3 DEF Init, Contexts, Resumable
<1>8. Accounted
  BY <1>3 DEF Accounted
<1>9. QED
  BY <1>4, <1>5, <1>6, <1>7, <1>8 DEF StackInv

-----------------------------------------------------------------------------
(* The steps                                                               *)

(* A thread's step leaves the others where they are.                       *)
LEMMA Goes ==
  ASSUME TypeOK, NEW w \in Workers, NEW from, NEW to, goto(w, from, to)
  PROVE  /\ at[w] = from /\ at' = [at EXCEPT ![w] = to] /\ at'[w] = to
         /\ \A v \in Workers \ {w} : at'[v] = at[v]
         /\ SchedulePolicy' = SchedulePolicy /\ (Recycling' <=> Recycling)
BY DEF goto, TypeOK, Recycling

LEMMA NextQueues ==
  /\ Ready' = InQueue(ReadyQueue') /\ (Distinct(ReadyQueue)' <=> Distinct(ReadyQueue'))
  /\ Bin' = InQueue(RecycleBin') /\ (Distinct(RecycleBin)' <=> Distinct(RecycleBin'))
BY DEF Ready, Bin, Distinct, InQueue

(* A thread t that nobody has is chosen by w.                              *)
LEMMA Chosen ==
  ASSUME StackInv, NEW w \in Workers, NEW t \in Threads, selected(w, t)
  PROVE  /\ at[w] \in {"main", "run"} /\ at'[w] \in {"start", "switch"}
         /\ at[w] = "main" <=> at'[w] = "start"
         /\ \A v \in Workers \ {w} : at'[v] = at[v] /\ Next_'[v] = Next_[v]
         /\ Next_'[w] = t /\ Next_' \in [Workers -> Threads \cup {NULL}]
         /\ SchedulePolicy' = SchedulePolicy /\ (Recycling' <=> Recycling)
         /\ \A v \in Workers : ending(v)' <=> ending(v)
         /\ at' \in [Workers -> {"main", "start", "begin", "run", "switch", "callback",
                                  "mark", "leave", "exited"}]
<1>1. Next_' = [Next_ EXCEPT ![w] = t]
  BY DEF selected
<1>2. Next_'[w] = t /\ \A v \in Workers \ {w} : Next_'[v] = Next_[v]
  BY <1>1 DEF StackInv, TypeOK
<1>3. \E to \in {"start", "switch"} :
        /\ at[w] \in {"main", "run"} /\ (at[w] = "main" <=> to = "start")
        /\ at' = [at EXCEPT ![w] = to] /\ at'[w] = to
        /\ \A v \in Workers \ {w} : at'[v] = at[v]
        /\ SchedulePolicy' = SchedulePolicy /\ (Recycling' <=> Recycling)
  <2>1. CASE goto(w, "main", "start")
    BY <2>1, Goes DEF StackInv
  <2>2. CASE goto(w, "run", "switch")
    BY <2>2, Goes DEF StackInv
  <2>3. QED
    BY <2>1, <2>2 DEF selected
<1>4. \A v \in Workers : ending(v)' <=> ending(v)
  BY <1>3 DEF ending
<1>5. Next_' \in [Workers -> Threads \cup {NULL}]
  BY <1>1 DEF StackInv, TypeOK
<1>6. at' \in [Workers -> {"main", "start", "begin", "run", "switch", "callback",
                            "mark", "leave", "exited"}]
  BY <1>3 DEF StackInv, TypeOK
<1>7. QED
  BY <1>2, <1>3, <1>4, <1>5, <1>6

(* selectNext takes a thread that is nowhere else.                         *)
LEMMA Selection ==
  ASSUME StackInv, NEW w \in Workers, NEW t \in Threads, selected(w, t),
         UNCHANGED <<Terminated, stack>>, SP' \in [Threads -> {"none", "fresh", "saved", "loaded"}],
         \A u \in Threads \ {t} : SP'[u] = SP[u], Resumable(t)',
         ReadyQueue' \in Seq(Threads), RecycleBin' \in Seq(Threads),
         Distinct(ReadyQueue'), Distinct(RecycleBin'),
         Ready' = Ready \ {t}, Bin' = Bin \ {t},
         \A v \in Workers : Next_[v] # t /\ stack[v] # t
  PROVE  StackInv'
<1>0. /\ at[w] \in {"main", "run"} /\ at'[w] \in {"start", "switch"}
      /\ at[w] = "main" <=> at'[w] = "start"
      /\ \A v \in Workers \ {w} : at'[v] = at[v] /\ Next_'[v] = Next_[v]
      /\ Next_'[w] = t /\ Next_' \in [Workers -> Threads \cup {NULL}]
      /\ SchedulePolicy' = SchedulePolicy /\ (Recycling' <=> Recycling)
      /\ \A v \in Workers : ending(v)' <=> ending(v)
      /\ at' \in [Workers -> {"main", "start", "begin", "run", "switch", "callback",
                               "mark", "leave", "exited"}]
      /\ Terminated' = Terminated /\ stack' = stack
  BY Chosen
<1>1. NULL \notin Threads /\ Ready \subseteq Threads /\ Bin \subseteq Threads
  BY PolicyAssumption, QueueSet DEF StackInv, TypeOK, Ready, Bin
<1>2. TypeOK'
  BY <1>0 DEF StackInv, TypeOK
<1>3. Pointers'
  <2> SUFFICES ASSUME NEW v \in Workers
               PROVE  /\ at'[v] \in {"begin", "run", "switch", "callback", "mark", "leave"}
                           <=> stack'[v] # NULL
                      /\ at'[v] \in {"start", "switch", "callback"} <=> Next_'[v] # NULL
    BY DEF Pointers
  <2>1. CASE v = w
    BY <1>0, <1>1, <2>1 DEF StackInv, Pointers
  <2>2. CASE v # w
    BY <1>0, <2>2 DEF StackInv, Pointers
  <2>3. QED
    BY <2>1, <2>2
<1>4. Apart'
  <2>1. Distinct(ReadyQueue') /\ Distinct(RecycleBin') /\ Ready' \cap Bin' = {}
    BY <1>0, <1>1 DEF StackInv, Apart
  <2>2. \A v \in Workers : Next_'[v] \notin Ready' \cup Bin'
    BY <1>0, <1>1 DEF StackInv, Apart
  <2>3. \A v, x \in Workers : Next_'[x] # NULL => stack'[v] # Next_'[x]
    BY <1>0, <1>1 DEF StackInv, Apart
  <2>4. \A v, x \in Workers : Next_'[x] # NULL /\ Next_'[v] = Next_'[x] => v = x
    BY <1>0, <1>1 DEF StackInv, Apart
  <2>5. \A v \in Workers : stack'[v] \notin Ready'
                           /\ (stack'[v] \in Bin' => Recycling' /\ ending(v)')
    BY <1>0, <1>1 DEF StackInv, Apart
  <2>6. \A v, x \in Workers : stack'[x] # NULL /\ stack'[v] = stack'[x] => v = x
    BY <1>0, <1>1 DEF StackInv, Apart
  <2>7. QED
    BY <2>1, <2>2, <2>3, <2>4, <2>5, <2>6, NextQueues DEF Apart
<1>5. Contexts'
  <2>1. \A u \in Threads \ {t} : Resumable(u)' <=> Resumable(u)
    BY <1>0 DEF Resumable
  <2>2. (\A u \in Ready' : Resumable(u)') /\ (\A u \in Bin' : SP'[u] # "none")
    BY <1>1, <2>1 DEF StackInv, Contexts
  <2>3. \A v \in Workers : Next_'[v] # NULL => Resumable(Next_[v])'
    <3> SUFFICES ASSUME NEW v \in Workers, Next_'[v] # NULL PROVE Resumable(Next_[v])'
      OBVIOUS
    <3>1. CASE v = w
      BY <1>0, <3>1 DEF Resumable
    <3>2. CASE v # w
      <4>1. Next_'[v] = Next_[v] /\ Next_[v] \in Threads \ {t} /\ Resumable(Next_[v])
        BY <1>0, <3>2 DEF StackInv, Contexts, TypeOK
      <4>2. QED
        BY <1>0, <2>1, <4>1 DEF Resumable
    <3>3. QED
      BY <3>1, <3>2
  <2>4. \A v \in Workers : stack'[v] # NULL =>
          /\ SP'[stack'[v]] = IF at'[v] = "callback" THEN "saved" ELSE "loaded"
          /\ Terminated'[stack'[v]] => at'[v] \in {"begin", "leave"}
          /\ at'[v] = "leave" => Terminated'[stack'[v]]
    <3> SUFFICES ASSUME NEW v \in Workers, stack[v] # NULL
        PROVE  /\ SP'[stack[v]] = IF at'[v] = "callback" THEN "saved" ELSE "loaded"
               /\ Terminated[stack[v]] => at'[v] \in {"begin", "leave"}
               /\ at'[v] = "leave" => Terminated[stack[v]]
      BY <1>0
    <3>1. stack[v] \in Threads \ {t} /\ SP'[stack[v]] = SP[stack[v]]
      BY DEF StackInv, TypeOK
    <3>2. /\ SP[stack[v]] = IF at[v] = "callback" THEN "saved" ELSE "loaded"
          /\ Terminated[stack[v]] => at[v] \in {"begin", "leave"}
          /\ at[v] = "leave" => Terminated[stack[v]]
      BY DEF StackInv, Contexts
    <3>3. CASE v = w
      BY <1>0, <3>1, <3>2, <3>3
    <3>4. CASE v # w
      BY <1>0, <3>1, <3>2, <3>4
    <3>5. QED
      BY <3>3, <3>4
  <2>5. QED
    BY <2>2, <2>3, <2>4 DEF Contexts
<1>6. Accounted'
  <2> SUFFICES ASSUME ~Recycling, NEW u \in Threads
               PROVE  u \in Ready' \/ (\E v \in Workers : u \in {Next_'[v], stack'[v]})
                        \/ Terminated'[u]
    BY <1>0 DEF Accounted
  <2>1. CASE u = t
    BY <1>0, <2>1
  <2>2. CASE u # t
    <3>1. u \in Ready \/ (\E v \in Workers : u \in {Next_[v], stack[v]}) \/ Terminated[u]
      BY DEF StackInv, Accounted
    <3>2. Next_[w] = NULL
      BY <1>0 DEF StackInv, Pointers
    <3>3. QED
      BY <1>0, <1>1, <2>2, <3>1, <3>2
  <2>3. QED
    BY <2>1, <2>2
<1>7. QED
  BY <1>2, <1>3, <1>4, <1>5, <1>6 DEF StackInv

LEMMA PopReadyStep ==
  ASSUME StackInv, NEW w \in Workers, popReady(w)
  PROVE  StackInv'
<1>1. ReadyQueue \in Seq(Threads) /\ RecycleBin \in Seq(Threads) /\ Distinct(ReadyQueue)
      /\ Distinct(RecycleBin) /\ SP \in [Threads -> {"none", "fresh", "saved", "loaded"}]
  BY DEF StackInv, TypeOK, Apart
<1>2. ReadyQueue # <<>> /\ UNCHANGED <<RecycleBin, SP, Terminated, stack>>
  BY DEF popReady
<1>3. PICK t \in Threads :
        /\ selected(w, t) /\ t \in Ready
        /\ ReadyQueue' \in Seq(Threads) /\ Distinct(ReadyQueue') /\ Ready' = Ready \ {t}
  BY <1>1, PopFront, NextQueues DEF Ready, popReady
<1>4. Bin' = Bin \ {t} /\ Distinct(RecycleBin')
  BY <1>1, <1>2, <1>3, NextQueues DEF StackInv, Apart, Bin
<1>5. \A v \in Workers : Next_[v] # t /\ stack[v] # t
  BY <1>3 DEF StackInv, Apart
<1>6. Resumable(t)'
  BY <1>2, <1>3 DEF StackInv, Contexts, Resumable
<1>7. QED
  BY <1>1, <1>2, <1>3, <1>4, <1>5, <1>6, Selection

LEMMA NewThreadStep ==
  ASSUME StackInv, NEW w \in Workers, newGreenThread(w), ~RecycledOnStack
  PROVE  StackInv'
<1>1. PICK t \in Threads :
        /\ \/ RecycleBin # <<>> /\ t = Head(RecycleBin) /\ RecycleBin' = Tail(RecycleBin)
           \/ RecycleBin = <<>> /\ SP[t] = "none" /\ UNCHANGED RecycleBin
        /\ SP' = [SP EXCEPT ![t] = "fresh"]
        /\ selected(w, t)
  BY DEF newGreenThread
<1>2. Recycling /\ UNCHANGED <<ReadyQueue, Terminated, stack>>
  BY DEF newGreenThread
<1>3. ReadyQueue \in Seq(Threads) /\ RecycleBin \in Seq(Threads) /\ Distinct(ReadyQueue)
      /\ Distinct(RecycleBin) /\ SP \in [Threads -> {"none", "fresh", "saved", "loaded"}]
      /\ Ready \cap Bin = {}
  BY DEF StackInv, TypeOK, Apart
<1>4. Ready' = Ready /\ Distinct(ReadyQueue')
  BY <1>2, <1>3, NextQueues DEF Ready
<1>5. /\ SP' \in [Threads -> {"none", "fresh", "saved", "loaded"}] /\ SP'[t] = "fresh"
      /\ \A u \in Threads \ {t} : SP'[u] = SP[u]
  BY <1>1, <1>3
<1>6. Resumable(t)'
  BY <1>5 DEF Resumable
<1>7. RecycleBin # <<>> => \A v \in Workers : stack[v] # Head(RecycleBin)
  BY DEF RecycledOnStack
<1>8. CASE RecycleBin # <<>> /\ t = Head(RecycleBin) /\ RecycleBin' = Tail(RecycleBin)
  <2>1. /\ t \in Bin /\ RecycleBin' \in Seq(Threads) /\ Distinct(RecycleBin')
        /\ Bin' = Bin \ {t}
    BY <1>3, <1>8, PopFront, NextQueues DEF Bin
  <2>2. \A v \in Workers : Next_[v] # t /\ stack[v] # t
    BY <1>7, <1>8, <2>1 DEF StackInv, Apart
  <2>3. Ready' = Ready \ {t}
    BY <1>3, <1>4, <2>1
  <2>4. QED
    BY <1>1, <1>2, <1>3, <1>4, <1>5, <1>6, <2>1, <2>2, <2>3, Selection
<1>9. CASE RecycleBin = <<>> /\ SP[t] = "none" /\ UNCHANGED RecycleBin
  <2>1. t \notin Ready /\ t \notin Bin
    BY <1>9 DEF StackInv, Contexts, Resumable
  <2>2. \A v \in Workers : Next_[v] # t /\ stack[v] # t
    BY <1>9, PolicyAssumption DEF StackInv, Contexts, Resumable
  <2>3. Bin' = Bin /\ Distinct(RecycleBin') /\ RecycleBin' \in Seq(Threads)
    BY <1>3, <1>9, NextQueues DEF Bin
  <2>4. Ready' = Ready \ {t} /\ Bin' = Bin \ {t}
    BY <1>4, <2>1, <2>3
  <2>5. QED
    BY <1>1, <1>2, <1>3, <1>4, <1>5, <1>6, <2>2, <2>3, <2>4, Selection
<1>10. QED
  BY <1>1, <1>8, <1>9

LEMMA SelectNothingStep ==
  ASSUME StackInv, NEW w \in Workers, selectNothing(w)
  PROVE  StackInv'
<1>1. UNCHANGED <<ReadyQueue, RecycleBin, SP, Terminated, stack, Next_>>
  BY DEF selectNothing
<1>2. \E to \in {"exited", "run"} :
        /\ at[w] = IF to = "run" THEN "run" ELSE "main"
        /\ at' = [at EXCEPT ![w] = to] /\ at'[w] = to
        /\ \A v \in Workers \ {w} : at'[v] = at[v]
        /\ SchedulePolicy' = SchedulePolicy /\ (Recycling' <=> Recycling)
  <2>1. CASE goto(w, "main", "exited")
    BY <2>1, Goes DEF StackInv
  <2>2. CASE goto(w, "run", "run")
    BY <2>2, Goes DEF StackInv
  <2>3. QED
    BY <2>1, <2>2 DEF selectNothing
<1>3. Ready' = Ready /\ Bin' = Bin /\ Distinct(ReadyQueue') /\ Distinct(RecycleBin')
  BY <1>1, NextQueues DEF Ready, Bin, StackInv, Apart
<1>4. TypeOK'
  BY <1>1, <1>2 DEF StackInv, TypeOK
<1>5. Pointers'
  BY <1>1, <1>2 DEF StackInv, Pointers
<1>6. \A v \in Workers : ending(v)' <=> ending(v)
  BY <1>2 DEF ending
<1>7. Apart'
  BY <1>1, <1>2, <1>3, <1>6, NextQueues DEF StackInv, Apart
<1>8. Contexts'
  <2>1. \A v \in Workers : at[v] \in {"begin", "leave", "callback"} => at'[v] = at[v]
    BY <1>2
  <2>2. \A v \in Workers : at'[v] \in {"begin", "leave", "callback"} => at'[v] = at[v]
    BY <1>2
  <2>3. QED
    BY <1>1, <1>3, <2>1, <2>2 DEF StackInv, Contexts, Resumable
<1>9. Accounted'
  BY <1>1, <1>2, <1>3 DEF StackInv, Accounted
<1>10. QED
  BY <1>4, <1>5, <1>7, <1>8, <1>9 DEF StackInv

(* A native thread enters the thread it has chosen; the one it ran, if     *)
(* any, is ready again.                                                    *)
LEMMA Entering ==
  ASSUME StackInv, NEW w \in Workers, NEW from \in {"start", "callback"},
         enter(w, from), load(w), Next_' = [Next_ EXCEPT ![w] = NULL],
         UNCHANGED <<RecycleBin, Terminated>>,
         ReadyQueue' \in Seq(Threads), Distinct(ReadyQueue'),
         Ready' = Ready \cup ({stack[w]} \ {NULL})
  PROVE  StackInv'
<1> DEFINE to == IF SP[Next_[w]] = "fresh" THEN "begin" ELSE "run"
<1>1. PICK t \in Threads : Next_[w] = t /\ t # NULL
  BY PolicyAssumption DEF enter, goto, StackInv, TypeOK, Pointers
<1>2. /\ at[w] = from /\ at' = [at EXCEPT ![w] = to] /\ at'[w] = to
      /\ \A v \in Workers \ {w} : at'[v] = at[v]
      /\ SchedulePolicy' = SchedulePolicy /\ (Recycling' <=> Recycling)
  BY Goes DEF StackInv, enter
<1>3. /\ to \in {"begin", "run"} /\ (to = "run" => ~Terminated[t])
      /\ SP[t] \in {"fresh", "saved"}
  BY <1>1 DEF StackInv, Contexts, Resumable
<1> HIDE DEF to
<1>4. /\ stack' \in [Workers -> Threads \cup {NULL}] /\ stack'[w] = t
      /\ \A v \in Workers \ {w} : stack'[v] = stack[v]
      /\ Next_' \in [Workers -> Threads \cup {NULL}] /\ Next_'[w] = NULL
      /\ \A v \in Workers \ {w} : Next_'[v] = Next_[v]
      /\ SP' \in [Threads -> {"none", "fresh", "saved", "loaded"}] /\ SP'[t] = "loaded"
      /\ \A u \in Threads \ {t} : SP'[u] = SP[u]
  BY <1>1 DEF load, StackInv, TypeOK
<1>5. Bin' = Bin /\ Distinct(RecycleBin') /\ UNCHANGED <<RecycleBin, Terminated>>
  BY NextQueues DEF Bin, StackInv, Apart
<1>6. /\ t \notin Ready /\ t \notin Bin /\ \A v \in Workers : stack[v] # t
      /\ \A v \in Workers \ {w} : Next_[v] # t
  BY <1>1 DEF StackInv, Apart
<1>7. NULL \notin Threads /\ Ready \subseteq Threads /\ Bin \subseteq Threads
  BY PolicyAssumption, QueueSet DEF StackInv, TypeOK, Ready, Bin
<1>8. stack[w] # NULL => from = "callback" /\ stack[w] \in Threads /\ stack[w] \notin Bin
  <2>1. at[w] \in {"start", "callback"} /\ ~ending(w)
    BY <1>2 DEF ending
  <2>2. stack[w] # NULL => at[w] = "callback"
    BY <2>1 DEF StackInv, Pointers
  <2>3. stack[w] # NULL => stack[w] \in Threads
    BY DEF StackInv, TypeOK
  <2>4. stack[w] \notin Bin
    BY <2>1 DEF StackInv, Apart
  <2>5. QED
    BY <1>2, <2>2, <2>3, <2>4
<1>9. TypeOK'
  BY <1>2, <1>3, <1>4, <1>5 DEF StackInv, TypeOK
<1>10. Pointers'
  BY <1>1, <1>2, <1>3, <1>4 DEF StackInv, Pointers
<1>11. \A v \in Workers : ending(v)' <=> ending(v)
  BY <1>2, <1>3 DEF ending
<1>12. Apart'
  <2>1. Ready' \cap Bin' = {}
    BY <1>5, <1>8 DEF StackInv, Apart
  <2>2. \A v \in Workers : Next_'[v] \notin Ready' \cup Bin'
    BY <1>4, <1>5, <1>7, <1>8 DEF StackInv, Apart
  <2>3. \A v, x \in Workers : Next_'[x] # NULL => stack'[v] # Next_'[x]
    BY <1>4, <1>6 DEF StackInv, Apart
  <2>4. \A v, x \in Workers : Next_'[x] # NULL /\ Next_'[v] = Next_'[x] => v = x
    BY <1>4 DEF StackInv, Apart
  <2>5. \A v \in Workers : stack'[v] \notin Ready'
    BY <1>1, <1>4, <1>6 DEF StackInv, Apart
  <2>6. \A v \in Workers : stack'[v] \in Bin' => Recycling' /\ ending(v)'
    BY <1>2, <1>4, <1>5, <1>6, <1>11 DEF StackInv, Apart
  <2>7. \A v, x \in Workers : stack'[x] # NULL /\ stack'[v] = stack'[x] => v = x
    BY <1>4, <1>6 DEF StackInv, Apart
  <2>8. QED
    BY <1>5, <2>1, <2>2, <2>3, <2>4, <2>5, <2>6, <2>7, NextQueues DEF Apart
<1>13. Contexts'
  <2>1. \A u \in Threads \ {t} : Resumable(u)' <=> Resumable(u)
    BY <1>4, <1>5 DEF Resumable
  <2>2. stack[w] # NULL => Resumable(stack[w])
    BY <1>2, <1>8 DEF StackInv, Contexts, Resumable
  <2>3. \A u \in Ready' : Resumable(u)'
    BY <1>6, <1>7, <1>8, <2>1, <2>2 DEF StackInv, Contexts
  <2>4. \A u \in Bin' : SP'[u] # "none"
    BY <1>4, <1>5, <1>6, <1>7 DEF StackInv, Contexts
  <2>5. \A v \in Workers : Next_'[v] # NULL => Resumable(Next_[v])'
    BY <1>4, <1>5, <1>6 DEF StackInv, TypeOK, Contexts, Resumable
  <2>6. \A v \in Workers : stack'[v] # NULL =>
          /\ SP'[stack'[v]] = IF at'[v] = "callback" THEN "saved" ELSE "loaded"
          /\ Terminated'[stack'[v]] => at'[v] \in {"begin", "leave"}
          /\ at'[v] = "leave" => Terminated'[stack'[v]]
    <3> SUFFICES ASSUME NEW v \in Workers, stack'[v] # NULL
        PROVE  /\ SP'[stack'[v]] = IF at'[v] = "callback" THEN "saved" ELSE "loaded"
               /\ Terminated'[stack'[v]] => at'[v] \in {"begin", "leave"}
               /\ at'[v] = "leave" => Terminated'[stack'[v]]
      OBVIOUS
    <3>1. CASE v = w
      BY <1>2, <1>3, <1>4, <1>5, <3>1
    <3>2. CASE v # w
      <4>1. /\ stack'[v] = stack[v] /\ stack[v] # NULL /\ at'[v] = at[v]
            /\ SP'[stack[v]] = SP[stack[v]] /\ Terminated' = Terminated
        BY <1>2, <1>4, <1>5, <1>6, <3>2 DEF StackInv, TypeOK
      <4>2. QED
        BY <4>1 DEF StackInv, Contexts
    <3>3. QED
      BY <3>1, <3>2
  <2>7. QED
    BY <2>3, <2>4, <2>5, <2>6 DEF Contexts
<1>14. Accounted'
  <2> SUFFICES ASSUME ~Recycling, NEW u \in Threads
               PROVE  u \in Ready' \/ (\E v \in Workers : u \in {Next_'[v], stack'[v]})
                        \/ Terminated'[u]
    BY <1>2 DEF Accounted
  <2>1. u \in Ready \/ (\E v \in Workers : u \in {Next_[v], stack[v]}) \/ Terminated[u]
    BY DEF StackInv, Accounted
  <2>2. CASE u = t
    BY <1>4, <2>2
  <2>3. CASE u # t
    BY <1>1, <1>4, <1>5, <1>7, <2>1, <2>3
  <2>4. QED
    BY <2>2, <2>3
<1>15. QED
  BY <1>9, <1>10, <1>12, <1>13, <1>14 DEF StackInv

LEMMA StartThreadStep ==
  ASSUME StackInv, NEW w \in Workers, startThread(w)
  PROVE  StackInv'
<1>1. stack[w] = NULL
  BY DEF startThread, enter, goto, StackInv, Pointers
<1>2. ReadyQueue' = ReadyQueue /\ ReadyQueue \in Seq(Threads) /\ Distinct(ReadyQueue)
  BY DEF startThread, StackInv, TypeOK, Apart
<1>3. Ready' = Ready \cup ({stack[w]} \ {NULL})
  BY <1>1, <1>2, NextQueues DEF Ready
<1>4. QED
  BY <1>2, <1>3, Entering DEF startThread

LEMMA SwitchToStep ==
  ASSUME StackInv, NEW w \in Workers, switchTo(w, <<stack[w]>>)
  PROVE  StackInv'
<1>1. at[w] = "callback"
  BY DEF switchTo, enter, goto
<1>2. stack[w] \in Threads /\ stack[w] # NULL /\ stack[w] \notin Ready
  BY <1>1 DEF StackInv, TypeOK, Pointers, Apart
<1>3. ReadyQueue \in Seq(Threads) /\ Distinct(ReadyQueue)
  BY DEF StackInv, TypeOK, Apart
<1>4. ReadyQueue' = Append(ReadyQueue, stack[w])
  BY <1>3, ConcatOne DEF switchTo
<1>5. ReadyQueue' \in Seq(Threads) /\ Distinct(ReadyQueue') /\ Ready' = Ready \cup {stack[w]}
  BY <1>2, <1>3, <1>4, PushBack, NextQueues DEF Ready
<1>6. QED
  BY <1>2, <1>5, Entering DEF switchTo

LEMMA BeginStep ==
  ASSUME StackInv, NEW w \in Workers, begin(w)
  PROVE  StackInv'
<1>1. /\ at[w] = "begin" /\ at' = [at EXCEPT ![w] = "run"] /\ at'[w] = "run"
      /\ \A v \in Workers \ {w} : at'[v] = at[v]
      /\ SchedulePolicy' = SchedulePolicy /\ (Recycling' <=> Recycling)
  BY Goes DEF StackInv, begin
<1>2. UNCHANGED <<ReadyQueue, RecycleBin, SP, stack, Next_>>
  BY DEF begin
<1>3. PICK t \in Threads : stack[w] = t /\ t # NULL
  BY <1>1, PolicyAssumption DEF StackInv, TypeOK, Pointers
<1>4. /\ Terminated' \in [Threads -> BOOLEAN] /\ ~Terminated'[t]
      /\ \A u \in Threads \ {t} : Terminated'[u] <=> Terminated[u]
  BY <1>3 DEF begin, StackInv, TypeOK
<1>5. Ready' = Ready /\ Bin' = Bin /\ Distinct(ReadyQueue') /\ Distinct(RecycleBin')
  BY <1>2, NextQueues DEF Ready, Bin, StackInv, Apart
<1>6. TypeOK'
  BY <1>1, <1>2, <1>4 DEF StackInv, TypeOK
<1>7. Pointers'
  BY <1>1, <1>2 DEF StackInv, Pointers
<1>8. \A v \in Workers : ending(v)' <=> ending(v)
  BY <1>1 DEF ending
<1>9. Apart'
  BY <1>1, <1>2, <1>5, <1>8, NextQueues DEF StackInv, Apart
<1>10. Contexts'
  <2>1. \A u \in Threads : Resumable(u) => Resumable(u)'
    BY <1>2, <1>4 DEF Resumable
  <2>2. \A u \in Ready' : Resumable(u)'
    <3>1. Ready \subseteq Threads
      BY QueueSet DEF Ready, StackInv, TypeOK
    <3>2. QED
      BY <1>5, <2>1, <3>1 DEF StackInv, Contexts
  <2>3. \A v \in Workers : Next_'[v] # NULL => Resumable(Next_[v])'
    BY <1>2, <1>4 DEF StackInv, TypeOK, Contexts, Resumable
  <2>4. \A v \in Workers : stack'[v] # NULL =>
          /\ SP'[stack'[v]] = IF at'[v] = "callback" THEN "saved" ELSE "loaded"
          /\ Terminated'[stack'[v]] => at'[v] \in {"begin", "leave"}
          /\ at'[v] = "leave" => Terminated'[stack'[v]]
    <3> SUFFICES ASSUME NEW v \in Workers, stack[v] # NULL
        PROVE  /\ SP[stack[v]] = IF at'[v] = "callback" THEN "saved" ELSE "loaded"
               /\ Terminated'[stack[v]] => at'[v] \in {"begin", "leave"}
               /\ at'[v] = "leave" => Terminated'[stack[v]]
      BY <1>2
    <3>1. CASE v = w
      BY <1>1, <1>3, <1>4, <3>1 DEF StackInv, Contexts
    <3>2. CASE v # w
      <4>1. stack[v] \in Threads \ {t} /\ at'[v] = at[v]
        BY <1>1, <1>3, <3>2 DEF StackInv, TypeOK, Apart
      <4>2. QED
        BY <1>4, <4>1 DEF StackInv, Contexts
    <3>3. QED
      BY <3>1, <3>2
  <2>5. QED
    BY <1>2, <1>5, <2>2, <2>3, <2>4 DEF StackInv, Contexts
<1>11. Accounted'
  BY <1>1, <1>2, <1>3, <1>4, <1>5 DEF StackInv, Accounted
<1>12. QED
  BY <1>6, <1>7, <1>9, <1>10, <1>11 DEF StackInv

LEMMA SaveContextStep ==
  ASSUME StackInv, NEW w \in Workers, saveContext(w)
  PROVE  StackInv'
<1>1. /\ at[w] = "switch" /\ at' = [at EXCEPT ![w] = "callback"] /\ at'[w] = "callback"
      /\ \A v \in Workers \ {w} : at'[v] = at[v]
      /\ SchedulePolicy' = SchedulePolicy /\ (Recycling' <=> Recycling)
  BY Goes DEF StackInv, saveContext
<1>2. UNCHANGED <<ReadyQueue, RecycleBin, Terminated, stack, Next_>>
  BY DEF saveContext
<1>3. PICK t \in Threads : stack[w] = t /\ t # NULL
  BY <1>1, PolicyAssumption DEF StackInv, TypeOK, Pointers
<1>4. /\ SP' \in [Threads -> {"none", "fresh", "saved", "loaded"}] /\ SP'[t] = "saved"
      /\ \A u \in Threads \ {t} : SP'[u] = SP[u]
  BY <1>3 DEF saveContext, StackInv, TypeOK
<1>5. Ready' = Ready /\ Bin' = Bin /\ Distinct(ReadyQueue') /\ Distinct(RecycleBin')
  BY <1>2, NextQueues DEF Ready, Bin, StackInv, Apart
<1>6. TypeOK'
  BY <1>1, <1>2, <1>4 DEF StackInv, TypeOK
<1>7. Pointers'
  BY <1>1, <1>2 DEF StackInv, Pointers
<1>8. \A v \in Workers : ending(v)' <=> ending(v)
  BY <1>1 DEF ending
<1>9. Apart'
  BY <1>1, <1>2, <1>5, <1>8, NextQueues DEF StackInv, Apart
<1>10. Contexts'
  <2>1. /\ t \notin Ready /\ \A v \in Workers : Next_[v] # t
        /\ \A v \in Workers \ {w} : stack[v] # t
    BY <1>3 DEF StackInv, Apart
  <2>2. \A u \in Threads \ {t} : Resumable(u)' <=> Resumable(u)
    BY <1>2, <1>4 DEF Resumable
  <2>3. Ready \subseteq Threads /\ Bin \subseteq Threads
    BY QueueSet DEF Ready, Bin, StackInv, TypeOK
  <2>4. (\A u \in Ready' : Resumable(u)') /\ \A u \in Bin' : SP'[u] # "none"
    BY <1>4, <1>5, <2>1, <2>2, <2>3 DEF StackInv, Contexts
  <2>5. \A v \in Workers : Next_'[v] # NULL => Resumable(Next_[v])'
    BY <1>2, <1>4, <2>1 DEF StackInv, TypeOK, Contexts, Resumable
  <2>6. \A v \in Workers : stack'[v] # NULL =>
          /\ SP'[stack'[v]] = IF at'[v] = "callback" THEN "saved" ELSE "loaded"
          /\ Terminated'[stack'[v]] => at'[v] \in {"begin", "leave"}
          /\ at'[v] = "leave" => Terminated'[stack'[v]]
    <3> SUFFICES ASSUME NEW v \in Workers, stack[v] # NULL
        PROVE  /\ SP'[stack[v]] = IF at'[v] = "callback" THEN "saved" ELSE "loaded"
               /\ Terminated[stack[v]] => at'[v] \in {"begin", "leave"}
               /\ at'[v] = "leave" => Terminated[stack[v]]
      BY <1>2
    <3>1. CASE v = w
      BY <1>1, <1>3, <1>4, <3>1 DEF StackInv, Contexts
    <3>2. CASE v # w
      <4>1. stack[v] \in Threads \ {t} /\ at'[v] = at[v]
        BY <1>1, <2>1, <3>2 DEF StackInv, TypeOK
      <4>2. QED
        BY <1>4, <4>1 DEF StackInv, Contexts
    <3>3. QED
      BY <3>1, <3>2
  <2>7. QED
    BY <2>4, <2>5, <2>6 DEF Contexts
<1>11. Accounted'
  BY <1>1, <1>2, <1>5 DEF StackInv, Accounted
<1>12. QED
  BY <1>6, <1>7, <1>9, <1>10, <1>11 DEF StackInv

LEMMA DeregisterStep ==
  ASSUME StackInv, NEW w \in Workers, deregisterThread(w)
  PROVE  StackInv'
<1>1. /\ at[w] = "run" /\ at' = [at EXCEPT ![w] = "mark"] /\ at'[w] = "mark"
      /\ \A v \in Workers \ {w} : at'[v] = at[v]
      /\ SchedulePolicy' = SchedulePolicy /\ (Recycling' <=> Recycling)
  BY Goes DEF StackInv, deregisterThread
<1>2. UNCHANGED <<ReadyQueue, SP, Terminated, stack, Next_>>
  BY DEF deregisterThread
<1>3. PICK t \in Threads : stack[w] = t /\ t # NULL
  BY <1>1, PolicyAssumption DEF StackInv, TypeOK, Pointers
<1>4. Ready' = Ready /\ Distinct(ReadyQueue')
  BY <1>2, NextQueues DEF Ready, StackInv, Apart
<1>5. /\ t \notin Ready /\ t \notin Bin /\ \A v \in Workers : Next_[v] # t
      /\ \A v \in Workers \ {w} : stack[v] # t
  BY <1>1, <1>3 DEF StackInv, Apart, ending
<1>6. /\ RecycleBin' \in Seq(Threads) /\ Distinct(RecycleBin')
      /\ Bin' = IF Recycling THEN Bin \cup {t} ELSE Bin
  <2>1. RecycleBin \in Seq(Threads) /\ Distinct(RecycleBin) /\ t \notin InQueue(RecycleBin)
    BY <1>5 DEF StackInv, TypeOK, Apart, Bin
  <2>2. CASE Recycling
    <3>1. RecycleBin' = Append(RecycleBin, t)
      BY <1>3, <2>2 DEF deregisterThread
    <3>2. QED
      BY <2>1, <2>2, <3>1, PushBack, NextQueues DEF Bin
  <2>3. CASE ~Recycling
    BY <2>1, <2>3, NextQueues DEF deregisterThread, Bin
  <2>4. QED
    BY <2>2, <2>3
<1>7. TypeOK'
  BY <1>1, <1>2, <1>6 DEF StackInv, TypeOK
<1>8. Pointers'
  BY <1>1, <1>2 DEF StackInv, Pointers
<1>9. /\ ending(w)' /\ \A v \in Workers \ {w} : ending(v)' <=> ending(v)
  BY <1>1 DEF ending
<1>10. Apart'
  <2>1. Ready' \cap Bin' = {}
    BY <1>4, <1>5, <1>6 DEF StackInv, Apart
  <2>2. \A v \in Workers : Next_'[v] \notin Ready' \cup Bin'
    BY <1>2, <1>4, <1>5, <1>6 DEF StackInv, Apart
  <2>3. \A v \in Workers : stack'[v] \notin Ready'
    BY <1>2, <1>4 DEF StackInv, Apart
  <2>4. \A v \in Workers : stack'[v] \in Bin' => Recycling' /\ ending(v)'
    <3> SUFFICES ASSUME NEW v \in Workers, stack[v] \in Bin' PROVE Recycling /\ ending(v)'
      BY <1>1, <1>2
    <3>1. CASE v = w
      BY <1>3, <1>5, <1>6, <1>9, <3>1
    <3>2. CASE v # w
      BY <1>5, <1>6, <1>9, <3>2 DEF StackInv, Apart
    <3>3. QED
      BY <3>1, <3>2
  <2>5. /\ \A v, x \in Workers : Next_'[x] # NULL => stack'[v] # Next_'[x]
        /\ \A v, x \in Workers : Next_'[x] # NULL /\ Next_'[v] = Next_'[x] => v = x
        /\ \A v, x \in Workers : stack'[x] # NULL /\ stack'[v] = stack'[x] => v = x
    BY <1>2 DEF StackInv, Apart
  <2>6. QED
    BY <1>4, <1>6, <2>1, <2>2, <2>3, <2>4, <2>5, NextQueues DEF Apart
<1>11. Contexts'
  <2>1. SP[t] = "loaded" /\ ~Terminated[t]
    BY <1>1, <1>3 DEF StackInv, Contexts
  <2>2. \A u \in Bin' : SP'[u] # "none"
    BY <1>2, <1>6, <2>1 DEF StackInv, Contexts
  <2>3. \A v \in Workers : stack'[v] # NULL =>
          /\ SP'[stack'[v]] = IF at'[v] = "callback" THEN "saved" ELSE "loaded"
          /\ Terminated'[stack'[v]] => at'[v] \in {"begin", "leave"}
          /\ at'[v] = "leave" => Terminated'[stack'[v]]
    BY <1>1, <1>2, <1>3, <2>1 DEF StackInv, Contexts
  <2>4. /\ \A u \in Ready' : Resumable(u)'
        /\ \A v \in Workers : Next_'[v] # NULL => Resumable(Next_[v])'
    BY <1>2, <1>4 DEF StackInv, Contexts, Resumable
  <2>5. QED
    BY <2>2, <2>3, <2>4 DEF Contexts
<1>12. Accounted'
  BY <1>1, <1>2, <1>4 DEF StackInv, Accounted
<1>13. QED
  BY <1>7, <1>8, <1>10, <1>11, <1>12 DEF StackInv

LEMMA MarkTerminatedStep ==
  ASSUME StackInv, NEW w \in Workers, markTerminated(w)
  PROVE  StackInv'
<1>1. /\ at[w] = "mark" /\ at' = [at EXCEPT ![w] = "leave"] /\ at'[w] = "leave"
      /\ \A v \in Workers \ {w} : at'[v] = at[v]
      /\ SchedulePolicy' = SchedulePolicy /\ (Recycling' <=> Recycling)
  BY Goes DEF StackInv, markTerminated
<1>2. UNCHANGED <<ReadyQueue, RecycleBin, SP, stack, Next_>>
  BY DEF markTerminated
<1>3. PICK t \in Threads : stack[w] = t /\ t # NULL
  BY <1>1, PolicyAssumption DEF StackInv, TypeOK, Pointers
<1>4. /\ Terminated' \in [Threads -> BOOLEAN] /\ Terminated'[t]
      /\ \A u \in Threads \ {t} : Terminated'[u] <=> Terminated[u]
  BY <1>3 DEF markTerminated, StackInv, TypeOK
<1>5. Ready' = Ready /\ Bin' = Bin /\ Distinct(ReadyQueue') /\ Distinct(RecycleBin')
  BY <1>2, NextQueues DEF Ready, Bin, StackInv, Apart
<1>6. TypeOK'
  BY <1>1, <1>2, <1>4 DEF StackInv, TypeOK
<1>7. Pointers'
  BY <1>1, <1>2 DEF StackInv, Pointers
<1>8. \A v \in Workers : ending(v)' <=> ending(v)
  BY <1>1 DEF ending
<1>9. Apart'
  BY <1>1, <1>2, <1>5, <1>8, NextQueues DEF StackInv, Apart
<1>10. Contexts'
  <2>1. /\ t \notin Ready /\ \A v \in Workers : Next_[v] # t
        /\ \A v \in Workers \ {w} : stack[v] # t
    BY <1>3 DEF StackInv, Apart
  <2>2. \A u \in Threads \ {t} : Resumable(u)' <=> Resumable(u)
    BY <1>2, <1>4 DEF Resumable
  <2>3. Ready \subseteq Threads
    BY QueueSet DEF Ready, StackInv, TypeOK
  <2>4. (\A u \in Ready' : Resumable(u)') /\ \A u \in Bin' : SP'[u] # "none"
    BY <1>2, <1>5, <2>1, <2>2, <2>3 DEF StackInv, Contexts
  <2>5. \A v \in Workers : Next_'[v] # NULL => Resumable(Next_[v])'
    BY <1>2, <1>4, <2>1 DEF StackInv, TypeOK, Contexts, Resumable
  <2>6. \A v \in Workers : stack'[v] # NULL =>
          /\ SP'[stack'[v]] = IF at'[v] = "callback" THEN "saved" ELSE "loaded"
          /\ Terminated'[stack'[v]] => at'[v] \in {"begin", "leave"}
          /\ at'[v] = "leave" => Terminated'[stack'[v]]
    <3> SUFFICES ASSUME NEW v \in Workers, stack[v] # NULL
        PROVE  /\ SP[stack[v]] = IF at'[v] = "callback" THEN "saved" ELSE "loaded"
               /\ Terminated'[stack[v]] => at'[v] \in {"begin", "leave"}
               /\ at'[v] = "leave" => Terminated'[stack[v]]
      BY <1>2
    <3>1. CASE v = w
      BY <1>1, <1>3, <1>4, <3>1 DEF StackInv, Contexts
    <3>2. CASE v # w
      <4>1. stack[v] \in Threads \ {t} /\ at'[v] = at[v]
        BY <1>1, <2>1, <3>2 DEF StackInv, TypeOK
      <4>2. QED
        BY <1>4, <4>1 DEF StackInv, Contexts
    <3>3. QED
      BY <3>1, <3>2
  <2>7. QED
    BY <2>4, <2>5, <2>6 DEF Contexts
<1>11. Accounted'
  BY <1>1, <1>2, <1>4, <1>5 DEF StackInv, Accounted
<1>12. QED
  BY <1>6, <1>7, <1>9, <1>10, <1>11 DEF StackInv

LEMMA LeaveStackStep ==
  ASSUME StackInv, NEW w \in Workers, leaveStack(w)
  PROVE  StackInv'
<1>1. /\ at[w] = "leave" /\ at' = [at EXCEPT ![w] = "main"] /\ at'[w] = "main"
      /\ \A v \in Workers \ {w} : at'[v] = at[v]
      /\ SchedulePolicy' = SchedulePolicy /\ (Recycling' <=> Recycling)
  BY Goes DEF StackInv, leaveStack
<1>2. UNCHANGED <<ReadyQueue, RecycleBin, SP, Terminated, Next_>>
  BY DEF leaveStack
<1>3. /\ stack' \in [Workers -> Threads \cup {NULL}] /\ stack'[w] = NULL
      /\ \A v \in Workers \ {w} : stack'[v] = stack[v]
  BY DEF leaveStack, StackInv, TypeOK
<1>4. Ready' = Ready /\ Bin' = Bin /\ Distinct(ReadyQueue') /\ Distinct(RecycleBin')
  BY <1>2, NextQueues DEF Ready, Bin, StackInv, Apart
<1>5. NULL \notin Threads /\ Ready \subseteq Threads /\ Bin \subseteq Threads
  BY PolicyAssumption, QueueSet DEF StackInv, TypeOK, Ready, Bin
<1>6. TypeOK'
  BY <1>1, <1>2, <1>3 DEF StackInv, TypeOK
<1>7. Pointers'
  BY <1>1, <1>2, <1>3 DEF StackInv, Pointers
<1>8. ~ending(w)' /\ \A v \in Workers \ {w} : ending(v)' <=> ending(v)
  BY <1>1 DEF ending
<1>9. Apart'
  <2>1. \A v \in Workers : stack'[v] = stack[v] \/ stack'[v] = NULL
    BY <1>3
  <2>2. \A v \in Workers : stack'[v] \notin Ready'
    BY <1>4, <1>5, <2>1 DEF StackInv, Apart
  <2>3. \A v \in Workers : stack'[v] \in Bin' => Recycling' /\ ending(v)'
    BY <1>1, <1>3, <1>4, <1>5, <1>8 DEF StackInv, Apart
  <2>4. /\ \A v, x \in Workers : Next_'[x] # NULL => stack'[v] # Next_'[x]
        /\ \A v, x \in Workers : stack'[x] # NULL /\ stack'[v] = stack'[x] => v = x
    BY <1>2, <2>1 DEF StackInv, Apart
  <2>5. QED
    BY <1>2, <1>4, <2>2, <2>3, <2>4, NextQueues DEF StackInv, Apart
<1>10. Contexts'
  <2>1. \A v \in Workers : stack'[v] # NULL => v # w /\ stack'[v] = stack[v] /\ at'[v] = at[v]
    BY <1>1, <1>3
  <2>2. QED
    BY <1>2, <1>4, <2>1 DEF StackInv, Contexts, Resumable
<1>11. Accounted'
  <2>1. Terminated[stack[w]]
    BY <1>1 DEF StackInv, Pointers, Contexts
  <2>2. QED
    BY <1>1, <1>2, <1>3, <1>4, <2>1 DEF StackInv, Accounted
<1>12. QED
  BY <1>6, <1>7, <1>9, <1>10, <1>11 DEF StackInv

-----------------------------------------------------------------------------
(* The invariant and what follows from it                                  *)

LEMMA StackStep == StackInv /\ [Next]_vars /\ ~RecycledOnStack => StackInv'
<1>1. ASSUME StackInv, NEW w \in Workers, step(w), ~RecycledOnStack PROVE StackInv'
  BY <1>1, PopReadyStep, NewThreadStep, SelectNothingStep, StartThreadStep, BeginStep,
     SaveContextStep, SwitchToStep, DeregisterStep, MarkTerminatedStep, LeaveStackStep
     DEF step, switchContext
<1>2. ASSUME StackInv, UNCHANGED vars PROVE StackInv'
  <2>1. UNCHANGED <<SchedulePolicy, ReadyQueue, RecycleBin, SP, Terminated, stack, Next_, at>>
    BY <1>2 DEF vars
  <2>2. Ready' = Ready /\ Bin' = Bin /\ Distinct(ReadyQueue') /\ Distinct(RecycleBin')
    BY <1>2, <2>1, NextQueues DEF Ready, Bin, StackInv, Apart
  <2>3. (Recycling' <=> Recycling) /\ \A v \in Workers : ending(v)' <=> ending(v)
    BY <2>1 DEF Recycling, ending
  <2>4. TypeOK' /\ Pointers'
    BY <1>2, <2>1 DEF StackInv, TypeOK, Pointers
  <2>5. Apart'
    BY <1>2, <2>1, <2>2, <2>3, NextQueues DEF StackInv, Apart
  <2>6. Contexts' /\ Accounted'
    BY <1>2, <2>1, <2>2, <2>3 DEF StackInv, Contexts, Resumable, Accounted
  <2>7. QED
    BY <2>4, <2>5, <2>6 DEF StackInv
<1>3. QED
  BY <1>1, <1>2 DEF Next, finished

(* After that step the thread is chosen and on a stack at once.            *)
LEMMA RecycledBreaks == StackInv /\ RecycledOnStack => ~StackInv'
<1> SUFFICES ASSUME StackInv, RecycledOnStack PROVE ~StackInv'
  OBVIOUS
<1>1. PICK w \in Workers, v \in Workers :
        newGreenThread(w) /\ RecycleBin # <<>> /\ stack[v] = Head(RecycleBin)
  BY DEF RecycledOnStack
<1>2. PICK t \in Threads : t = Head(RecycleBin) /\ selected(w, t)
  BY <1>1 DEF newGreenThread
<1>3. Next_'[w] = t /\ t # NULL
  BY <1>2, Chosen, PolicyAssumption
<1>4. stack'[v] = t
  BY <1>1, <1>2 DEF newGreenThread
<1>5. QED
  BY <1>3, <1>4 DEF StackInv, Apart

(* A green thread is in one place, and its context is in memory when it is *)
(* ready or chosen: so it begins, and a step breaks it exactly when it     *)
(* recycles a thread that is still on a stack.                             *)
THEOREM StackInvHolds ==
  Spec => StackInv /\ [][StackInv => (StackInv' <=> ~RecycledOnStack)]_vars
<1>1. [Next]_vars => [StackInv => (StackInv' <=> ~RecycledOnStack)]_vars
  BY StackStep, RecycledBreaks
<1>2. QED
  BY <1>1, InvBegins, PTL DEF Spec

(* As long as no thread is recycled on its stack the invariant holds.      *)
THEOREM StackInvUntil == Spec => []StackInv \/ <><<RecycledOnStack>>_vars
<1>1. StackInv /\ UNCHANGED vars => StackInv'
  BY StackStep, RecycledBreaks DEF vars, RecycledOnStack, newGreenThread, selected, goto
<1>2. QED
  BY <1>1, StackInvHolds, PTL

(* Two native threads never run on one stack, unless a thread is recycled  *)
(* on its stack.                                                           *)
THEOREM StackExclusiveHolds == Spec => []StackExclusive \/ <><<RecycledOnStack>>_vars
<1>1. StackInv => StackExclusive
  BY DEF StackInv, Apart, StackExclusive
<1>2. QED
  BY <1>1, StackInvUntil, PTL

(* danbi_ContextSwitchWithCallback and danbi_StartGreenThread load only a  *)
(* context that is in memory, of a thread that runs nowhere, unless a      *)
(* thread is recycled on its stack.                                        *)
THEOREM SwitchesToSavedHolds == Spec => []SwitchesToSaved \/ <><<RecycledOnStack>>_vars
<1>1. StackInv => SwitchesToSaved
  BY DEF StackInv, Apart, Contexts, Resumable, SwitchesToSaved
<1>2. QED
  BY <1>1, StackInvUntil, PTL

(* A thread marked Terminated only leaves its stack, or starts anew,       *)
(* unless a thread is recycled on its stack.                               *)
THEOREM TerminatedIsDoneHolds == Spec => []TerminatedIsDone \/ <><<RecycledOnStack>>_vars
<1>1. StackInv => TerminatedIsDone
  BY DEF StackInv, Contexts, TerminatedIsDone
<1>2. QED
  BY <1>1, StackInvUntil, PTL

(* FIFOSchedulePolicy recycles nothing.                                    *)
FifoInv == ~Recycling => StackInv

LEMMA FifoInvHolds == Spec => []FifoInv
<1>1. Init => FifoInv
  BY InvBegins DEF FifoInv
<1>2. FifoInv /\ [Next]_vars => FifoInv'
  <2> SUFFICES ASSUME FifoInv, [Next]_vars, ~Recycling' PROVE StackInv'
    BY DEF FifoInv
  <2>1. SchedulePolicy' = SchedulePolicy
    BY DEF Next, step, popReady, newGreenThread, selectNothing, startThread, begin, switchContext,
       saveContext, switchTo, deregisterThread, markTerminated, leaveStack, selected, enter, goto,
       finished, vars
  <2>2. ~Recycling /\ StackInv
    BY <2>1 DEF Recycling, FifoInv
  <2>3. ~RecycledOnStack
    BY <2>2 DEF RecycledOnStack, newGreenThread
  <2>4. QED
    BY <2>2, <2>3, StackStep
<1>3. QED
  BY <1>1, <1>2, PTL DEF Spec

(* Under FIFOSchedulePolicy the three hold always.                         *)
THEOREM FifoIsSafe ==
  Spec => [](~Recycling => StackExclusive /\ SwitchesToSaved /\ TerminatedIsDone)
<1>1. FifoInv => (~Recycling => StackExclusive /\ SwitchesToSaved /\ TerminatedIsDone)
  BY DEF FifoInv, StackInv, Apart, Contexts, Resumable, StackExclusive, SwitchesToSaved,
     TerminatedIsDone
<1>2. QED
  BY <1>1, FifoInvHolds, PTL

-----------------------------------------------------------------------------
(* What holds whatever is recycled                                         *)

(* The last native thread leaves main when it finds none ready.            *)
NoneReady ==
  Workers # {} /\ (\A w \in Workers : at[w] = "exited") => ReadyQueue = <<>>

(* The types, the pointers of each place, and the end.                     *)
Base == TypeOK /\ Pointers /\ NoneReady

LEMMA BaseBegins == Init => Base
BY InvBegins DEF Init, StackInv, Base, NoneReady

LEMMA BaseStep == Base /\ [Next]_vars => Base'
<1> SUFFICES ASSUME Base, [Next]_vars PROVE Base'
  OBVIOUS
<1> USE PolicyAssumption
<1>1. ASSUME NEW w \in Workers, NEW t \in Threads, selected(w, t),
             ReadyQueue' \in Seq(Threads), RecycleBin' \in Seq(Threads),
             SP' \in [Threads -> {"none", "fresh", "saved", "loaded"}],
             UNCHANGED <<Terminated, stack>>
      PROVE  Base'
  <2>1. PICK from, to : /\ goto(w, from, to)
                        /\ \/ from = "main" /\ to = "start"
                           \/ from = "run" /\ to = "switch"
    BY <1>1 DEF selected
  <2>2. TypeOK' /\ Pointers'
    BY <1>1, <2>1 DEF Base, TypeOK, Pointers, goto, selected
  <2>3. QED
    BY <1>1, <2>1, <2>2 DEF Base, TypeOK, NoneReady, goto
<1>2. ASSUME NEW w \in Workers, popReady(w) PROVE Base'
  <2>1. Head(ReadyQueue) \in Threads /\ Tail(ReadyQueue) \in Seq(Threads)
    BY <1>2, HeadTailProperties DEF popReady, Base, TypeOK
  <2>2. QED
    BY <1>1, <1>2, <2>1 DEF popReady, Base, TypeOK
<1>3. ASSUME NEW w \in Workers, newGreenThread(w) PROVE Base'
  <2>1. RecycleBin # <<>> => Tail(RecycleBin) \in Seq(Threads)
    BY HeadTailProperties DEF Base, TypeOK
  <2>2. QED
    BY <1>1, <1>3, <2>1 DEF newGreenThread, Base, TypeOK
<1>4. ASSUME NEW w \in Workers, selectNothing(w) PROVE Base'
  BY <1>4 DEF selectNothing, goto, Base, TypeOK, Pointers, NoneReady
<1>5. ASSUME NEW w \in Workers, startThread(w) PROVE Base'
  <2>1. Next_[w] \in Threads /\ Next_[w] # NULL
    BY <1>5 DEF startThread, enter, goto, Base, TypeOK, Pointers
  <2>2. QED
    BY <1>5, <2>1 DEF startThread, enter, load, goto, Base, TypeOK, Pointers, NoneReady
<1>6. ASSUME NEW w \in Workers, begin(w) PROVE Base'
  BY <1>6 DEF begin, goto, Base, TypeOK, Pointers, NoneReady
<1>7. ASSUME NEW w \in Workers, saveContext(w) PROVE Base'
  BY <1>7 DEF saveContext, goto, Base, TypeOK, Pointers, NoneReady
<1>8. ASSUME NEW w \in Workers, switchTo(w, <<stack[w]>>) PROVE Base'
  <2>1. Next_[w] \in Threads /\ Next_[w] # NULL /\ stack[w] \in Threads
    BY <1>8 DEF switchTo, enter, goto, Base, TypeOK, Pointers
  <2>2. ReadyQueue' \in Seq(Threads)
    BY <1>8, <2>1, ConcatOne, AppendProperties DEF switchTo, Base, TypeOK
  <2>3. QED
    BY <1>8, <2>1, <2>2 DEF switchTo, enter, load, goto, Base, TypeOK, Pointers, NoneReady
<1>9. ASSUME NEW w \in Workers, deregisterThread(w) PROVE Base'
  <2>1. stack[w] \in Threads
    BY <1>9 DEF deregisterThread, goto, Base, TypeOK, Pointers
  <2>2. RecycleBin' \in Seq(Threads)
    BY <1>9, <2>1, AppendProperties DEF deregisterThread, Base, TypeOK
  <2>3. QED
    BY <1>9, <2>2 DEF deregisterThread, goto, Base, TypeOK, Pointers, NoneReady
<1>10. ASSUME NEW w \in Workers, markTerminated(w) PROVE Base'
  BY <1>10 DEF markTerminated, goto, Base, TypeOK, Pointers, NoneReady
<1>11. ASSUME NEW w \in Workers, leaveStack(w) PROVE Base'
  BY <1>11 DEF leaveStack, goto, Base, TypeOK, Pointers, NoneReady
<1>12. CASE UNCHANGED vars
  BY <1>12 DEF vars, Base, TypeOK, Pointers, NoneReady
<1>13. QED
  BY <1>2, <1>3, <1>4, <1>5, <1>6, <1>7, <1>8, <1>9, <1>10, <1>11, <1>12
     DEF Next, step, switchContext, finished

(* The variables have their types.                                         *)
THEOREM TypeOKHolds == Spec => []TypeOK
<1>1. Base => TypeOK
  BY DEF Base
<1>2. QED
  BY <1>1, BaseBegins, BaseStep, PTL DEF Spec

(* The native threads leave main when no thread is ready, of either        *)
(* policy, and every thread of the FIFO policy has ended: none is          *)
(* forgotten in a switch.                                                  *)
THEOREM AllThreadsEndHolds == ASSUME Workers # {} PROVE Spec => []AllThreadsEnd
<1>1. Spec => []Base
  BY BaseBegins, BaseStep, PTL DEF Spec
<1>2. Base /\ FifoInv => AllThreadsEnd
  <2> SUFFICES ASSUME Base, FifoInv, \A w \in Workers : at[w] = "exited"
               PROVE  ReadyQueue = <<>> /\ (~Recycling => \A t \in Threads : Terminated[t])
    BY DEF AllThreadsEnd
  <2>1. ReadyQueue = <<>> /\ Ready = {}
    BY EmptyQueue DEF Base, NoneReady, Ready
  <2>2. \A w \in Workers : stack[w] = NULL /\ Next_[w] = NULL
    BY DEF Base, Pointers
  <2>3. QED
    BY <2>1, <2>2, PolicyAssumption DEF FifoInv, StackInv, Accounted
<1>3. QED
  BY <1>1, <1>2, FifoInvHolds, PTL
=============================================================================

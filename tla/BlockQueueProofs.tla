-------------------------- MODULE BlockQueueProofs --------------------------
(***************************************************************************)
(* Proofs about BlockQueue, for any threads, any items and any m_max_size. *)
(*                                                                         *)
(* The inductive invariant QueueInv says what the mutex protects.  The     *)
(* indexes of a circular buffer are related modulo m_max_size; IndexInv    *)
(* says it without the modulus, as "equal, or one turn apart", which is    *)
(* true of this code although m_front and m_back start at -1 and clear()   *)
(* sets them back to it.                                                   *)
(***************************************************************************)
EXTENDS BlockQueue, SequenceTheorems, TLAPS

\* A thread inside a critical section holds m_mutex.
MutexInv == \A t \in Threads : pc[t] \in {"body", "commit"} => m_mutex = t

\* m_cond holds exactly the threads inside pthread_cond_wait().
WaitInv == \A t \in Threads : t \in m_cond <=> pc[t] = "wait"

\* What a thread's item is at each place.
ItemInv ==
    \A t \in Threads :
        /\ pc[t] = "idle" => item[t] = NoItem
        /\ pc[t] \in {"lock", "body", "commit", "wait"} /\ op[t] = "push" =>
              item[t] \in Items
        /\ pc[t] \in {"lock", "body", "wait"} /\ op[t] # "push" =>
              item[t] = NoItem
        /\ pc[t] = "commit" => op[t] # "clear"

\* m_back is m_size slots after m_front, with d more for a push() or a pop()
\* that has moved one of them already.
Apart(d) == m_front + m_size + d - m_back \in {0, MaxSize}

IndexInv ==
    /\ (\A t \in Threads : pc[t] # "commit") => Apart(0)
    /\ \A t \in Threads :
          /\ pc[t] = "commit" /\ op[t] = "push" =>
                /\ Apart(1)
                /\ m_size < MaxSize /\ m_back >= 0
                /\ m_array[m_back] = item[t]
          /\ pc[t] = "commit" /\ op[t] \in {"pop", "timed"} =>
                /\ Apart(-1)
                /\ m_size > 0 /\ m_front >= 0
                /\ item[t] = m_array[m_front]

QueueInv ==
    /\ TypeOK /\ MutexInv /\ WaitInv /\ ItemInv /\ IndexInv
    /\ NobodySleepsOverItem

-----------------------------------------------------------------------------
\* The slot of a number that is not far from the range of the slots.
LEMMA SlotFacts ==
    ASSUME NEW a \in Int
    PROVE  /\ a \in 0 .. MaxSize - 1 => a % MaxSize = a
           /\ a \in MaxSize .. 2 * MaxSize - 1 => a % MaxSize = a - MaxSize
           /\ a \in 2 * MaxSize .. 3 * MaxSize - 1 =>
                 a % MaxSize = a - 2 * MaxSize
<1> DEFINE q == a \div MaxSize
           r == a % MaxSize
<1>1. r \in 0 .. MaxSize - 1 /\ a = MaxSize * q + r /\ q \in Int
  BY QueueAssumption
<1> HIDE DEF q, r
<1>2. a \in 0 .. MaxSize - 1 => r = a
  BY <1>1, QueueAssumption
<1>3. a \in MaxSize .. 2 * MaxSize - 1 => r = a - MaxSize
  BY <1>1, QueueAssumption
<1>4. a \in 2 * MaxSize .. 3 * MaxSize - 1 => r = a - 2 * MaxSize
  BY <1>1, QueueAssumption
<1> QED
  BY <1>2, <1>3, <1>4 DEF r

\* An index is moved to the next slot, from the last one to slot 0.
LEMMA NextSlot ==
    ASSUME NEW i \in -1 .. MaxSize - 1
    PROVE  /\ (i + 1) % MaxSize \in Slots
           /\ (i + 1) % MaxSize = IF i = MaxSize - 1 THEN 0 ELSE i + 1
<1> DEFINE a == i + 1
<1>1. a \in Int /\ (a \in 0 .. MaxSize - 1 \/ a = MaxSize)
  BY QueueAssumption
<1> HIDE DEF a
<1>2. /\ a \in 0 .. MaxSize - 1 => a % MaxSize = a
      /\ a = MaxSize => a % MaxSize = 0
  BY <1>1, QueueAssumption, SlotFacts
<1> QED
  BY <1>1, <1>2, QueueAssumption DEF a, Slots

-----------------------------------------------------------------------------
\* The initial state satisfies the inductive invariant.
LEMMA QueueInvInit == Init => QueueInv
  BY QueueAssumption
  DEF Init, QueueInv, TypeOK, MutexInv, WaitInv, ItemInv, IndexInv, Apart,
      NobodySleepsOverItem, Slots, Ops

\* What the mutex gives a thread inside its critical section: no other thread
\* is inside one.
LEMMA Alone ==
    ASSUME QueueInv, NEW t \in Threads, pc[t] \in {"body", "commit"}
    PROVE  /\ m_mutex = t
           /\ \A u \in Threads \ {t} : pc[u] \notin {"body", "commit"}
  BY DEF QueueInv, MutexInv

\* The steps that leave the buffer alone.
LEMMA OutsideStep ==
    ASSUME QueueInv, NEW t \in Threads,
           \/ \E x \in Items : CallPush(t, x)
           \/ CallPop(t) \/ CallTimedPop(t) \/ CallClear(t) \/ Return(t)
           \/ Lock(t) \/ PopWait(t) \/ PopWaitFails(t) \/ PopGiveUp(t)
           \/ SpuriousWakeup(t) \/ TimeOut(t)
    PROVE  QueueInv'
<1> USE DEF QueueInv, TypeOK, MutexInv, WaitInv, ItemInv, IndexInv, Apart,
            NobodySleepsOverItem, Ops, indexVars
<1>1. ASSUME NEW x \in Items, CallPush(t, x) PROVE QueueInv'
  BY <1>1 DEF CallPush
<1>2. CASE CallPop(t) \/ CallTimedPop(t) \/ CallClear(t)
  BY <1>2 DEF CallPop, CallTimedPop, CallClear
<1>3. CASE Return(t)
  BY <1>3 DEF Return
<1>4. CASE Lock(t)
  BY <1>4, QueueAssumption DEF Lock
<1>5. CASE PopWait(t)
  BY <1>5, Alone DEF PopWait
<1>6. CASE PopWaitFails(t) \/ PopGiveUp(t)
  BY <1>6, Alone DEF PopWaitFails, PopGiveUp
<1>7. CASE SpuriousWakeup(t)
  BY <1>7 DEF SpuriousWakeup
<1>8. CASE TimeOut(t)
  BY <1>8 DEF TimeOut
<1> QED
  BY <1>1, <1>2, <1>3, <1>4, <1>5, <1>6, <1>7, <1>8

\* The steps of push(), pop() and clear() that move something.
LEMMA InsideStep ==
    ASSUME QueueInv, NEW t \in Threads,
           \/ PushFull(t) \/ PushStore(t) \/ PushCommit(t)
           \/ PopTake(t) \/ PopCommit(t) \/ Clear(t)
    PROVE  QueueInv'
<1> USE QueueAssumption
    DEF QueueInv, TypeOK, MutexInv, WaitInv, ItemInv, IndexInv, Apart,
        NobodySleepsOverItem, Ops, indexVars
<1>1. CASE PushFull(t)
  BY <1>1, Alone DEF PushFull, Broadcast
<1>2. CASE PushStore(t)
  <2>1. /\ m_back' = IF m_back = MaxSize - 1 THEN 0 ELSE m_back + 1
        /\ m_back' \in Slots
    BY <1>2, NextSlot DEF PushStore
  <2>2. m_size < MaxSize /\ Apart(0)
    BY <1>2, Alone DEF PushStore, Full
  <2>3. Apart(1)'
    BY <1>2, <2>1, <2>2 DEF PushStore
  <2>4. /\ m_array' \in [Slots -> Items \union {NoItem}]
        /\ m_array'[m_back'] = item[t]
    BY <1>2, <2>1 DEF PushStore
  <2> QED
    BY <1>2, <2>1, <2>2, <2>3, <2>4, Alone DEF PushStore, Slots
<1>3. CASE PushCommit(t)
  BY <1>3, Alone DEF PushCommit, Broadcast
<1>4. CASE PopTake(t)
  <2>1. /\ m_front' = IF m_front = MaxSize - 1 THEN 0 ELSE m_front + 1
        /\ m_front' \in Slots
    BY <1>4, NextSlot DEF PopTake
  <2>2. m_size > 0 /\ Apart(0)
    BY <1>4, Alone DEF PopTake
  <2>3. Apart(-1)'
    BY <1>4, <2>1, <2>2 DEF PopTake
  <2> QED
    BY <1>4, <2>1, <2>2, <2>3, Alone DEF PopTake, Slots
<1>5. CASE PopCommit(t)
  BY <1>5, Alone DEF PopCommit
<1>6. CASE Clear(t)
  BY <1>6, Alone DEF Clear
<1> QED
  BY <1>1, <1>2, <1>3, <1>4, <1>5, <1>6

\* QueueInv holds in every reachable state of the queue.
LEMMA QueueInvariant == Spec => []QueueInv
<1>1. QueueInv /\ [Next]_vars => QueueInv'
  <2> SUFFICES ASSUME QueueInv, [Next]_vars PROVE QueueInv'
    OBVIOUS
  <2>1. CASE UNCHANGED vars
    BY <2>1
    DEF vars, QueueInv, TypeOK, MutexInv, WaitInv, ItemInv, IndexInv, Apart,
        NobodySleepsOverItem
  <2> QED
    BY <2>1, OutsideStep, InsideStep DEF Next, Inside
<1> QED
  BY <1>1, QueueInvInit, PTL DEF Spec

(***************************************************************************)
(* Type correctness: in particular m_size stays between 0 and m_max_size,  *)
(* and the indexes stay inside the array, for any mixture of calls.        *)
(***************************************************************************)
THEOREM TypeCorrect == Spec => []TypeOK
<1>1. QueueInv => TypeOK
  BY DEF QueueInv
<1> QED
  BY <1>1, QueueInvariant, PTL

(***************************************************************************)
(* No wake-up is lost: a thread waits on m_cond only while the queue is    *)
(* empty, for any number of threads, time-outs and spurious wake-ups.      *)
(***************************************************************************)
THEOREM NobodySleeps == Spec => []NobodySleepsOverItem
<1>1. QueueInv => NobodySleepsOverItem
  BY DEF QueueInv
<1> QED
  BY <1>1, QueueInvariant, PTL

-----------------------------------------------------------------------------
(***************************************************************************)
(* The refinement of Fifo                                                  *)
(***************************************************************************)

Values == Items \union {NoItem}

\* The items threads have been handed, as the refinement mapping has them.
Got == [t \in Threads |-> IF pc[t] = "return" THEN item[t] ELSE NoItem]

\* A function on 1 .. n is a sequence; what the operations of Fifo make of it.
LEMMA SeqFacts ==
    ASSUME NEW n \in Nat, NEW s \in [1 .. n -> Values]
    PROVE  /\ s \in Seq(Values) /\ Len(s) = n
           /\ \A x \in Values : Append(s, x) =
                  [i \in 1 .. n + 1 |-> IF i = n + 1 THEN x ELSE s[i]]
           /\ n > 0 => /\ s # <<>>
                       /\ Head(s) = s[1]
                       /\ Tail(s) = [i \in 1 .. n - 1 |-> s[i + 1]]
<1>1. s \in Seq(Values) /\ Len(s) = n
  BY SeqDef
<1>2. ASSUME NEW x \in Values
      PROVE  Append(s, x) =
                [i \in 1 .. n + 1 |-> IF i = n + 1 THEN x ELSE s[i]]
  <2>1. Append(s, x) \in [1 .. n + 1 -> Values]
    BY <1>1, AppendProperties, LenProperties
  <2>2. \A i \in 1 .. n + 1 :
           Append(s, x)[i] = IF i = n + 1 THEN x ELSE s[i]
    BY <1>1, AppendProperties
  <2> QED
    BY <2>1, <2>2
<1>3. ASSUME n > 0
      PROVE  /\ s # <<>>
             /\ Head(s) = s[1]
             /\ Tail(s) = [i \in 1 .. n - 1 |-> s[i + 1]]
  <2>1. s # <<>> /\ Head(s) = s[1]
    BY <1>1, <1>3, EmptySeq
  <2>2. Tail(s) \in [1 .. n - 1 -> Values]
    BY <1>1, <2>1, HeadTailProperties, LenProperties
  <2>3. \A i \in 1 .. n - 1 : Tail(s)[i] = s[i + 1]
    BY <1>1, <2>1, HeadTailProperties
  <2> QED
    BY <2>1, <2>2, <2>3
<1> QED
  BY <1>1, <1>2, <1>3

\* The slot of number k, counted from slot 0 and past the end of the array.
Wrap(k) == IF k < MaxSize THEN k ELSE k - MaxSize

\* Where Contents looks for its i-th item.
LEMMA ItemSlot ==
    ASSUME NEW f \in -1 .. MaxSize - 1, NEW i \in 1 .. MaxSize
    PROVE  /\ (f + 1 + i - 1) % MaxSize = Wrap(f + i)
           /\ Wrap(f + i) \in Slots
           /\ f >= 0 => /\ (f + MaxSize + i - 1) % MaxSize = Wrap(f + i - 1)
                        /\ Wrap(f + i - 1) \in Slots
<1> USE QueueAssumption DEF Wrap
<1> DEFINE a == f + 1 + i - 1
           b == f + MaxSize + i - 1
<1>1. a \in Int /\ a = f + i /\ a \in 0 .. 2 * MaxSize - 1
  OBVIOUS
<1>2. b \in Int /\ b = f + i - 1 + MaxSize
      /\ (f >= 0 => b \in MaxSize .. 3 * MaxSize - 1)
  OBVIOUS
<1>3. a % MaxSize = Wrap(f + i)
  <2> HIDE DEF a
  <2> QED
    BY <1>1, SlotFacts
<1>4. ASSUME f >= 0 PROVE b % MaxSize = Wrap(f + i - 1)
  <2> HIDE DEF b
  <2> QED
    BY <1>2, <1>4, SlotFacts
<1> QED
  BY <1>3, <1>4 DEF Slots

\* Contents is a sequence of m_size items; where they are in the array.
ContentsAre ==
    /\ Contents \in [1 .. m_size -> Values]
    /\ \A i \in 1 .. m_size :
          Contents[i] = m_array[IF MidPop THEN Wrap(m_front + i - 1)
                                          ELSE Wrap(m_front + i)]

\* It is so in every state that satisfies the inductive invariant.
LEMMA ContentsFacts == QueueInv => ContentsAre
<1> SUFFICES ASSUME QueueInv PROVE ContentsAre
  OBVIOUS
<1> USE QueueAssumption DEF QueueInv, TypeOK, Values
<1>1. MidPop => m_front >= 0
  BY DEF MidPop, IndexInv
<1>2. ASSUME NEW i \in 1 .. m_size
      PROVE  /\ Contents[i] \in Values
             /\ Contents[i] = m_array[IF MidPop THEN Wrap(m_front + i - 1)
                                                ELSE Wrap(m_front + i)]
  <2>1. /\ (m_front + 1 + i - 1) % MaxSize = Wrap(m_front + i)
        /\ Wrap(m_front + i) \in Slots
        /\ MidPop => /\ (m_front + MaxSize + i - 1) % MaxSize
                           = Wrap(m_front + i - 1)
                     /\ Wrap(m_front + i - 1) \in Slots
    <3>1. i \in 1 .. MaxSize
      OBVIOUS
    <3> QED
      BY <1>1, <3>1, ItemSlot
  <2>2. CASE MidPop
    <3>1. Contents[i] = m_array[(m_front + MaxSize + i - 1) % MaxSize]
      BY <2>2 DEF Contents
    <3> QED
      BY <2>1, <2>2, <3>1
  <2>3. CASE ~MidPop
    <3>1. Contents[i] = m_array[(m_front + 1 + i - 1) % MaxSize]
      BY <2>3 DEF Contents
    <3> QED
      BY <2>1, <2>3, <3>1
  <2> QED
    BY <2>2, <2>3
<1> QED
  BY <1>2 DEF Contents, ContentsAre

\* A step that leaves the buffer alone leaves the contents alone.
LEMMA ContentsSame ==
    ASSUME UNCHANGED <<m_array, m_size, m_front>>, MidPop' = MidPop
    PROVE  Contents' = Contents
  BY DEF Contents

\* Every step of the queue is a step of Fifo or changes nothing there.
LEMMA FifoStep ==
    ASSUME QueueInv, QueueInv', [Next]_vars
    PROVE  [Promise!Next]_(Promise!vars)
<1> USE QueueAssumption DEF QueueInv, TypeOK, Ops, indexVars
<1>0. SUFFICES ASSUME ~(Contents' = Contents /\ Got' = Got)
               PROVE  Promise!Next
  BY DEF Got, Promise!vars
<1>1. ASSUME NEW t \in Threads, NEW x \in Items, CallPush(t, x) PROVE FALSE
  BY <1>0, <1>1, ContentsSame DEF CallPush, Got, MidPop
<1>2. ASSUME NEW t \in Threads,
             CallPop(t) \/ CallTimedPop(t) \/ CallClear(t)
      PROVE  FALSE
  BY <1>0, <1>2, ContentsSame DEF CallPop, CallTimedPop, CallClear, Got, MidPop
<1>3. ASSUME NEW t \in Threads, Return(t) PROVE Promise!Next
  <2>1. Contents' = Contents
    BY <1>3, ContentsSame DEF Return, MidPop
  <2>2. Got' = [Got EXCEPT ![t] = NoItem]
    BY <1>3 DEF Return, Got
  <2>3. Got[t] # NoItem
    <3>1. ASSUME Got[t] = NoItem PROVE Got' = Got
      BY <1>3, <3>1 DEF Return, Got
    <3> QED
      BY <1>0, <2>1, <3>1
  <2>4. Promise!Use(t)
    BY <2>1, <2>2, <2>3 DEF Got, Promise!Use
  <2> QED
    BY <2>4 DEF Promise!Next
<1>4. ASSUME NEW t \in Threads,
             \/ Lock(t) \/ PushFull(t) \/ PopWait(t) \/ PopWaitFails(t)
             \/ PopGiveUp(t) \/ SpuriousWakeup(t) \/ TimeOut(t)
      PROVE  FALSE
  <2>1. CASE Lock(t) \/ PopWait(t) \/ SpuriousWakeup(t) \/ TimeOut(t)
    BY <1>0, <2>1, ContentsSame
    DEF Lock, PopWait, SpuriousWakeup, TimeOut, Got, MidPop
  <2>2. CASE PopWaitFails(t) \/ PopGiveUp(t)
    BY <1>0, <2>2, ContentsSame
    DEF PopWaitFails, PopGiveUp, Got, MidPop, ItemInv
  <2>3. CASE PushFull(t)
    BY <1>0, <2>3, ContentsSame
    DEF PushFull, Broadcast, Got, MidPop, WaitInv
  <2> QED
    BY <1>4, <2>1, <2>2, <2>3
<1>5. ContentsAre /\ ContentsAre'
  <2>1. QueueInv' => ContentsAre'
    BY ContentsFacts, PTL
  <2> QED
    BY <2>1, ContentsFacts
<1>6. ASSUME NEW t \in Threads, PushStore(t) PROVE FALSE
  <2>1. ~MidPop /\ ~MidPop'
    BY <1>6, Alone DEF PushStore, MidPop
  <2>2. /\ m_back' \in Slots
        /\ Apart(1)'
        /\ m_size < MaxSize
    BY <1>6 DEF PushStore, IndexInv, Slots
  <2>3. ASSUME NEW i \in 1 .. m_size PROVE Contents'[i] = Contents[i]
    <3>1. Wrap(m_front + i) # m_back' /\ Wrap(m_front + i) \in Slots
      BY <1>6, <2>2 DEF PushStore, Wrap, Apart, Slots
    <3> QED
      BY <1>5, <1>6, <2>1, <3>1 DEF PushStore, ContentsAre
  <2>4. Contents' = Contents
    BY <1>5, <1>6, <2>3 DEF PushStore, ContentsAre
  <2> QED
    BY <1>0, <1>6, <2>4 DEF PushStore, Got
<1>7. ASSUME NEW t \in Threads, PushCommit(t) PROVE Promise!Next
  <2>1. ~MidPop /\ ~MidPop'
    BY <1>7, Alone DEF PushCommit, Broadcast, MidPop
  <2>2. /\ Apart(1) /\ m_size < MaxSize
        /\ m_back \in Slots /\ m_array[m_back] = item[t]
        /\ item[t] \in Items
    BY <1>7 DEF PushCommit, IndexInv, ItemInv, Slots
  <2>3. Wrap(m_front + m_size + 1) = m_back
    BY <2>2 DEF Wrap, Apart, Slots
  <2>4. Contents' = [i \in 1 .. m_size + 1 |->
                        IF i = m_size + 1 THEN item[t] ELSE Contents[i]]
    <3>1. Contents' \in [1 .. m_size + 1 -> Values]
      BY <1>5, <1>7 DEF PushCommit, ContentsAre
    <3>2. Contents'[m_size + 1] = item[t]
      <4> DEFINE n == m_size + 1
      <4>1. \A i \in 1 .. n : Contents'[i] = m_array[Wrap(m_front + i)]
        BY <1>5, <1>7, <2>1 DEF PushCommit, ContentsAre, Wrap
      <4>2. n \in 1 .. n /\ Wrap(m_front + n) = m_back
        BY <2>3 DEF Wrap
      <4> HIDE DEF n
      <4>3. Contents'[n] = m_array[m_back]
        BY <4>1, <4>2
      <4> QED
        BY <2>2, <4>3 DEF n
    <3>3. \A i \in 1 .. m_size : Contents'[i] = Contents[i]
      BY <1>5, <1>7, <2>1 DEF PushCommit, ContentsAre, Wrap
    <3> QED
      BY <3>1, <3>2, <3>3
  <2>5. Contents' = Append(Contents, item[t]) /\ Len(Contents) = m_size
    BY <1>5, <2>4, SeqFacts DEF ContentsAre
  <2>6. Got' = Got
    BY <1>7 DEF PushCommit, Broadcast, Got, WaitInv
  <2>7. Promise!Put(item[t])
    BY <2>2, <2>5, <2>6 DEF Got, Promise!Put
  <2> QED
    BY <2>2, <2>7 DEF Promise!Next
<1>8. ASSUME NEW t \in Threads, PopTake(t) PROVE FALSE
  <2>1. ~MidPop /\ MidPop'
    BY <1>8, Alone DEF PopTake, MidPop
  <2>2. m_front' = Wrap(m_front + 1)
    BY <1>8, NextSlot DEF PopTake, Wrap
  <2>3. ASSUME NEW i \in 1 .. m_size PROVE Contents'[i] = Contents[i]
    <3>1. Wrap(m_front' + i - 1) = Wrap(m_front + i)
      BY <1>8, <2>2 DEF PopTake, Wrap
    <3> QED
      BY <1>5, <1>8, <2>1, <3>1 DEF PopTake, ContentsAre, Wrap
  <2>4. Contents' = Contents
    BY <1>5, <1>8, <2>3 DEF PopTake, ContentsAre
  <2> QED
    BY <1>0, <1>8, <2>4 DEF PopTake, Got
<1>9. ASSUME NEW t \in Threads, PopCommit(t) PROVE Promise!Next
  <2>1. MidPop /\ ~MidPop'
    BY <1>9, Alone DEF PopCommit, MidPop
  <2>2. /\ m_size > 0 /\ m_front \in Slots
        /\ item[t] = m_array[m_front]
    BY <1>9 DEF PopCommit, IndexInv, Slots
  <2>3. Contents' = [i \in 1 .. m_size - 1 |-> Contents[i + 1]]
    <3>1. Contents' \in [1 .. m_size - 1 -> Values]
      BY <1>5, <1>9 DEF PopCommit, ContentsAre
    <3>2. \A i \in 1 .. m_size - 1 : Contents'[i] = Contents[i + 1]
      BY <1>5, <1>9, <2>1 DEF PopCommit, ContentsAre, Wrap
    <3> QED
      BY <3>1, <3>2
  <2>4. item[t] = Contents[1]
    BY <1>5, <2>1, <2>2 DEF ContentsAre, Wrap, Slots
  <2>5. /\ Contents # <<>> /\ Head(Contents) = item[t]
        /\ Contents' = Tail(Contents)
    <3>1. m_size \in Nat /\ Contents \in [1 .. m_size -> Values]
      BY <1>5 DEF ContentsAre
    <3> HIDE DEF QueueInv, TypeOK
    <3> QED
      BY <2>2, <2>3, <2>4, <3>1, SeqFacts
  <2>6. Got[t] = NoItem /\ Got' = [Got EXCEPT ![t] = item[t]]
    BY <1>9 DEF PopCommit, Got
  <2>7. Promise!Take(t)
    BY <2>5, <2>6 DEF Got, Promise!Take
  <2> QED
    BY <2>7 DEF Promise!Next
<1>10. ASSUME NEW t \in Threads, Clear(t) PROVE Promise!Next
  <2>1. Contents' = <<>>
    BY <1>10 DEF Clear, Contents
  <2>2. Got' = Got
    BY <1>10 DEF Clear, Got, ItemInv
  <2>3. Promise!Clear
    BY <2>1, <2>2 DEF Got, Promise!Clear
  <2> QED
    BY <2>3 DEF Promise!Next
<1>11. CASE UNCHANGED vars
  BY <1>0, <1>11 DEF vars, Contents, MidPop, Got
<1> QED
  BY <1>1, <1>2, <1>3, <1>4, <1>6, <1>7, <1>8, <1>9, <1>10, <1>11
  DEF Next, Inside

(***************************************************************************)
(* The circular buffer implements Fifo: items leave in the order in which  *)
(* they came, each exactly once, for any m_max_size, across the wrap of    *)
(* the indexes and the reset that clear() makes.                           *)
(***************************************************************************)
THEOREM QueueImplementsFifo == Spec => ImplementsFifo
<1>1. Init => Promise!Init
  BY DEF Init, Promise!Init, Contents
<1> QED
  BY <1>1, QueueInvariant, FifoStep, PTL
  DEF Spec, ImplementsFifo, Promise!Spec
=============================================================================

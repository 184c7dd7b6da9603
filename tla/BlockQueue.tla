----------------------------- MODULE BlockQueue -----------------------------
(***************************************************************************)
(* The log's blocking queue, src/src/server/log/block_queue.h: a circular  *)
(* array with a mutex and a condition variable.  Any thread may call any   *)
(* operation.  An operation is modelled as the steps between which another *)
(* thread could act if the mutex did not keep it out: indexes and array    *)
(* first, m_size with the wake-up and the unlock second.                   *)
(***************************************************************************)
EXTENDS Integers, Sequences, FiniteSets

CONSTANTS
    Threads,
    Items,
    NoItem,     \* contents of a slot or a variable never assigned
    NoThread,   \* "m_mutex is free"
    MaxSize     \* m_max_size

ASSUME QueueAssumption ==
    /\ IsFiniteSet(Threads)
    /\ NoThread \notin Threads
    /\ NoItem \notin Items
    /\ MaxSize \in Nat \ {0}

VARIABLES
    m_array, m_size, m_front, m_back,
    m_mutex,    \* the thread that holds it, or NoThread
    m_cond,     \* the threads waiting on it
    pc,         \* where each thread is
    op,         \* which operation it runs
    item,       \* push()'s argument, pop()'s result
    woke        \* how pthread_cond_timedwait() returned

indexVars == <<m_array, m_size, m_front, m_back>>
vars == <<m_array, m_size, m_front, m_back, m_mutex, m_cond, pc, op, item,
          woke>>

Ops == {"push", "pop", "timed", "clear"}
Slots == 0 .. MaxSize - 1

Init ==
    /\ m_array = [i \in Slots |-> NoItem]
    /\ m_size = 0 /\ m_front = -1 /\ m_back = -1
    /\ m_mutex = NoThread
    /\ m_cond = {}
    /\ pc = [t \in Threads |-> "idle"]
    /\ op = [t \in Threads |-> "clear"]
    /\ item = [t \in Threads |-> NoItem]
    /\ woke = [t \in Threads |-> "no"]

-----------------------------------------------------------------------------
CallPush(t, x) ==
    /\ pc[t] = "idle"
    /\ pc' = [pc EXCEPT ![t] = "lock"]
    /\ op' = [op EXCEPT ![t] = "push"]
    /\ item' = [item EXCEPT ![t] = x]
    /\ UNCHANGED <<indexVars, m_mutex, m_cond, woke>>

CallPop(t) ==
    /\ pc[t] = "idle"
    /\ pc' = [pc EXCEPT ![t] = "lock"]
    /\ op' = [op EXCEPT ![t] = "pop"]
    /\ UNCHANGED <<indexVars, m_mutex, m_cond, item, woke>>

\* When the deadline is to come is left open: see TimeOut.
CallTimedPop(t) ==
    /\ pc[t] = "idle"
    /\ pc' = [pc EXCEPT ![t] = "lock"]
    /\ op' = [op EXCEPT ![t] = "timed"]
    /\ UNCHANGED <<indexVars, m_mutex, m_cond, item, woke>>

CallClear(t) ==
    /\ pc[t] = "idle"
    /\ pc' = [pc EXCEPT ![t] = "lock"]
    /\ op' = [op EXCEPT ![t] = "clear"]
    /\ UNCHANGED <<indexVars, m_mutex, m_cond, item, woke>>

\* Fault: an operation does not take the mutex.
Lock_NoMutex(t) ==
    /\ pc[t] = "lock"
    /\ pc' = [pc EXCEPT ![t] = "body"]
    /\ UNCHANGED <<indexVars, m_mutex, m_cond, op, item, woke>>

\* pthread_mutex_lock(), and the lock taken again when a wait returns.
Lock(t) ==
    /\ pc[t] = "lock"
    /\ m_mutex = NoThread
    /\ m_mutex' = t
    /\ pc' = [pc EXCEPT ![t] = "body"]
    /\ UNCHANGED <<indexVars, m_cond, op, item, woke>>

\* Fault: nobody is woken.
Broadcast_None(t) ==
    /\ m_mutex' = NoThread
    /\ pc' = [pc EXCEPT ![t] = "return"]
    /\ UNCHANGED <<m_cond, woke>>

\* pthread_cond_broadcast() and the end of t's operation: every waiting
\* thread has to get the mutex again.
Broadcast(t) ==
    /\ m_cond' = {}
    /\ pc' = [u \in Threads |-> IF u = t THEN "return"
                                ELSE IF u \in m_cond THEN "lock" ELSE pc[u]]
    /\ woke' = [u \in Threads |-> IF u \in m_cond THEN "signal" ELSE woke[u]]
    /\ m_mutex' = NoThread

-----------------------------------------------------------------------------
(***************************************************************************)
(* push(), with the tests that full() and empty() make                     *)
(***************************************************************************)

Full == m_size >= MaxSize
Empty == m_size = 0

PushFull(t) ==
    /\ pc[t] = "body" /\ op[t] = "push"
    /\ Full
    /\ Broadcast(t)
    /\ item' = [item EXCEPT ![t] = NoItem]
    /\ UNCHANGED <<indexVars, op>>

\* Fault: the test for a full queue is off by one.
PushStore_OffByOne(t) ==
    /\ pc[t] = "body" /\ op[t] = "push"
    /\ m_size <= MaxSize
    /\ m_back' = (m_back + 1) % MaxSize
    /\ m_array' = [m_array EXCEPT ![m_back'] = item[t]]
    /\ pc' = [pc EXCEPT ![t] = "commit"]
    /\ UNCHANGED <<m_size, m_front, m_mutex, m_cond, op, item, woke>>

PushStore(t) ==
    /\ pc[t] = "body" /\ op[t] = "push"
    /\ ~Full
    /\ m_back' = (m_back + 1) % MaxSize
    /\ m_array' = [m_array EXCEPT ![m_back'] = item[t]]
    /\ pc' = [pc EXCEPT ![t] = "commit"]
    /\ UNCHANGED <<m_size, m_front, m_mutex, m_cond, op, item, woke>>

PushCommit(t) ==
    /\ pc[t] = "commit" /\ op[t] = "push"
    /\ m_size' = m_size + 1
    /\ Broadcast(t)
    /\ item' = [item EXCEPT ![t] = NoItem]
    /\ UNCHANGED <<m_array, m_front, m_back, op>>

-----------------------------------------------------------------------------
(***************************************************************************)
(* pop(), with and without a timeout                                       *)
(***************************************************************************)

\* The queue is empty: pop() waits, again and again; a timed pop() waits once.
PopWait(t) ==
    /\ pc[t] = "body"
    /\ op[t] = "pop" \/ (op[t] = "timed" /\ woke[t] = "no")
    /\ m_size <= 0
    /\ m_cond' = m_cond \union {t}
    /\ m_mutex' = NoThread
    /\ pc' = [pc EXCEPT ![t] = "wait"]
    /\ UNCHANGED <<indexVars, op, item, woke>>

\* The wait fails and returns at once, with the mutex held.
PopWaitFails(t) ==
    /\ pc[t] = "body"
    /\ op[t] = "pop" \/ (op[t] = "timed" /\ woke[t] = "no")
    /\ m_size <= 0
    /\ m_mutex' = NoThread
    /\ pc' = [pc EXCEPT ![t] = "return"]
    /\ UNCHANGED <<indexVars, m_cond, op, item, woke>>

\* A wait may return although nobody has woken the thread.
SpuriousWakeup(t) ==
    /\ pc[t] = "wait"
    /\ m_cond' = m_cond \ {t}
    /\ woke' = [woke EXCEPT ![t] = "signal"]
    /\ pc' = [pc EXCEPT ![t] = "lock"]
    /\ UNCHANGED <<indexVars, m_mutex, op, item>>

TimeOut(t) ==
    /\ pc[t] = "wait" /\ op[t] = "timed"
    /\ m_cond' = m_cond \ {t}
    /\ woke' = [woke EXCEPT ![t] = "timeout"]
    /\ pc' = [pc EXCEPT ![t] = "lock"]
    /\ UNCHANGED <<indexVars, m_mutex, op, item>>

\* A timed pop() returns false when its time is up, whatever the queue holds
\* by now, and when it was woken and finds the queue empty.
PopGiveUp(t) ==
    /\ pc[t] = "body" /\ op[t] = "timed"
    /\ woke[t] = "timeout" \/ (woke[t] = "signal" /\ m_size <= 0)
    /\ m_mutex' = NoThread
    /\ pc' = [pc EXCEPT ![t] = "return"]
    /\ UNCHANGED <<indexVars, m_cond, op, item, woke>>

PopTake(t) ==
    /\ pc[t] = "body"
    /\ op[t] = "pop" \/ (op[t] = "timed" /\ woke[t] # "timeout")
    /\ m_size > 0
    /\ m_front' = (m_front + 1) % MaxSize
    /\ item' = [item EXCEPT ![t] = m_array[m_front']]
    /\ pc' = [pc EXCEPT ![t] = "commit"]
    /\ UNCHANGED <<m_array, m_size, m_back, m_mutex, m_cond, op, woke>>

PopCommit(t) ==
    /\ pc[t] = "commit" /\ op[t] \in {"pop", "timed"}
    /\ m_size' = m_size - 1
    /\ m_mutex' = NoThread
    /\ pc' = [pc EXCEPT ![t] = "return"]
    /\ UNCHANGED <<m_array, m_front, m_back, m_cond, op, item, woke>>

-----------------------------------------------------------------------------
Clear(t) ==
    /\ pc[t] = "body" /\ op[t] = "clear"
    /\ m_size' = 0 /\ m_front' = -1 /\ m_back' = -1
    /\ m_mutex' = NoThread
    /\ pc' = [pc EXCEPT ![t] = "return"]
    /\ UNCHANGED <<m_array, m_cond, op, item, woke>>

\* The caller goes on and calls again some time.
Return(t) ==
    /\ pc[t] = "return"
    /\ pc' = [pc EXCEPT ![t] = "idle"]
    /\ item' = [item EXCEPT ![t] = NoItem]
    /\ woke' = [woke EXCEPT ![t] = "no"]
    /\ UNCHANGED <<indexVars, m_mutex, m_cond, op>>

Inside(t) ==
    \/ Lock(t) \/ PushFull(t) \/ PushStore(t) \/ PushCommit(t) \/ PopWait(t)
    \/ PopWaitFails(t) \/ PopGiveUp(t) \/ PopTake(t) \/ PopCommit(t) \/ Clear(t)

Next ==
    \E t \in Threads :
        \/ \E x \in Items : CallPush(t, x)
        \/ CallTimedPop(t)
        \/ CallPop(t) \/ CallClear(t) \/ Return(t)
        \/ Inside(t) \/ SpuriousWakeup(t) \/ TimeOut(t)

Spec == Init /\ [][Next]_vars

-----------------------------------------------------------------------------
(***************************************************************************)
(* Properties                                                              *)
(***************************************************************************)

TypeOK ==
    /\ m_array \in [Slots -> Items \union {NoItem}]
    /\ m_size \in 0 .. MaxSize
    /\ m_front \in -1 .. MaxSize - 1
    /\ m_back \in -1 .. MaxSize - 1
    /\ m_mutex \in Threads \union {NoThread}
    /\ m_cond \in SUBSET Threads
    /\ pc \in [Threads -> {"idle", "lock", "body", "commit", "wait", "return"}]
    /\ op \in [Threads -> Ops]
    /\ item \in [Threads -> Items \union {NoItem}]
    /\ woke \in [Threads -> {"no", "signal", "timeout"}]

\* The thread between the two steps of pop() has moved m_front already.
MidPop == \E t \in Threads : pc[t] = "commit" /\ op[t] \in {"pop", "timed"}

\* The items in the buffer, oldest first.
Contents ==
    LET first == IF MidPop THEN m_front + MaxSize ELSE m_front + 1 IN
    [i \in 1 .. m_size |-> m_array[(first + i - 1) % MaxSize]]

\* The Fifo that the buffer stands for.
Promise ==
    INSTANCE Fifo WITH
        queue <- Contents,
        got   <- [t \in Threads |->
                     IF pc[t] = "return" THEN item[t] ELSE NoItem]

(***************************************************************************)
(* The circular buffer implements a bounded FIFO: items come out in the    *)
(* order they went in, each once, across the wrap of the indexes and the   *)
(* reset of clear(), for any mixture of concurrent calls.                  *)
(***************************************************************************)
ImplementsFifo == Promise!Spec

(***************************************************************************)
(* Nobody sleeps over an item: a thread waits on m_cond only while the     *)
(* queue is empty, so no wake-up is ever lost, whether a waiting thread is *)
(* woken, wakes by itself or runs into its timeout.                        *)
(***************************************************************************)
NobodySleepsOverItem == m_cond # {} => m_size = 0
=============================================================================

-------------------------- MODULE ClientPoolProofs --------------------------
(***************************************************************************)
(* Proofs about ClientPool, for any finite sets of workers and callers.    *)
(*                                                                         *)
(* The inductive invariant PoolInv adds to the types what m_lock protects: *)
(* a worker about to fall asleep has seen an empty queue, and it is empty  *)
(* still; and where a task is on its way through the pool.                 *)
(***************************************************************************)
EXTENDS ClientPool, FiniteSetTheorems, SequenceTheorems, TLAPS

\* m_lock is held from the predicate to the wait, so nothing is queued there;
\* and nobody queues behind a worker's back what that worker then sleeps over.
SleepInv == \A w \in Workers : wpc[w] = "sleep" => tasks = <<>>

\* A worker has a task exactly from take to finish, and takes from a queue
\* that is not empty, unless the pool was stopped.
TaskInv ==
    \A w \in Workers :
        /\ wpc[w] \in {"start", "run"} <=> task[w] # NoTask
        /\ wpc[w] = "take" => stoped \/ tasks # <<>>
        /\ cpc[w] = "idle" \/ wpc[w] = "run"

\* A caller has a task from the call to the push.
ArgInv == \A c \in Threads : cpc[c] = "lock" <=> arg[c] # NoTask

\* No task is twice in the queue, or queued while it is being committed.
UniqueInv ==
    /\ \A i, j \in 1 .. Len(tasks) : tasks[i] = tasks[j] => i = j
    /\ \A i \in 1 .. Len(tasks), c \in Threads : tasks[i] # arg[c]
    /\ \A c, d \in Threads : arg[c] = arg[d] /\ arg[c] # NoTask => c = d

\* The destructor has begun when, and only when, the pool is stopped.
StopInv == stoped <=> dpc # "none"

PoolInv == TypeOK /\ SleepInv /\ TaskInv /\ ArgInv /\ UniqueInv /\ StopInv

-----------------------------------------------------------------------------
\* Adding a thread to, or removing one from, a set of threads.
LEMMA CountThreads ==
    ASSUME NEW S, IsFiniteSet(S), NEW T \in SUBSET S, NEW t \in S
    PROVE  /\ Cardinality(T) \in Nat
           /\ t \notin T => Cardinality(T \union {t}) = Cardinality(T) + 1
           /\ t \in T => Cardinality(T \ {t}) = Cardinality(T) - 1
<1>1. IsFiniteSet(T)
  BY FS_Subset
<1> QED
  BY <1>1, FS_CardinalityType, FS_AddElement, FS_RemoveElement

\* The workers that idlThrNum counts.
Idle == {w \in Workers : wpc[w] # "run"}

\* TypeOK but for the count of idle workers.
Types ==
    /\ tasks \in Seq(Tasks)
    /\ m_lock \in Workers \union {NoThread}
    /\ \A w \in Workers : m_lock = w <=> wpc[w] \in Holders
    /\ stoped \in BOOLEAN
    /\ wpc \in [Workers -> Holders \union
                   {"check", "lock", "asleep", "start", "run", "exited"}]
    /\ task \in [Workers -> Tasks \union {NoTask}]
    /\ cpc \in [Threads -> {"idle", "lock", "notify"}]
    /\ arg \in [Threads -> Tasks \union {NoTask}]
    /\ dpc \in {"none", "notify", "join", "done"}

\* The initial state satisfies the inductive invariant.
LEMMA PoolInvInit == Init => PoolInv
<1> SUFFICES ASSUME Init PROVE PoolInv
  OBVIOUS
<1>1. Idle = Workers
  BY DEF Init, Idle
<1>2. idlThrNum = Cardinality(Idle)
  BY <1>1 DEF Init
<1>3. Types
  <2>1. stoped \in BOOLEAN
    BY Zenon DEF Init
  <2> QED
    BY <2>1, ClientPoolAssumption DEF Init, Types, Holders, Threads
<1>4. SleepInv /\ TaskInv /\ ArgInv /\ UniqueInv /\ StopInv
  BY DEF Init, SleepInv, TaskInv, ArgInv, UniqueInv, StopInv, Threads
<1> QED
  BY <1>2, <1>3, <1>4 DEF PoolInv, TypeOK, Types, Idle

\* idlThrNum is the number of workers that run no task.
LEMMA IdleStep ==
    ASSUME PoolInv, [Next]_vars
    PROVE  (idlThrNum = Cardinality(Idle))'
<1> USE DEF PoolInv, TypeOK, commitVars, workerVars
<1>1. idlThrNum = Cardinality(Idle)
  BY DEF Idle
<1>2. CASE Idle' = Idle /\ idlThrNum' = idlThrNum
  BY <1>1, <1>2
<1>3. ASSUME NEW w \in Workers, Start(w)
      PROVE  (idlThrNum = Cardinality(Idle))'
  <2>1. Idle' = Idle \ {w} /\ w \in Idle
    BY <1>3 DEF Start, Idle
  <2>2. Cardinality(Idle') = Cardinality(Idle) - 1
    BY <2>1, CountThreads, ClientPoolAssumption DEF Idle
  <2> QED
    BY <1>1, <1>3, <2>2 DEF Start
<1>4. ASSUME NEW w \in Workers, Finish(w)
      PROVE  (idlThrNum = Cardinality(Idle))'
  <2>1. Idle' = Idle \union {w} /\ w \notin Idle
    BY <1>4 DEF Finish, Idle
  <2>2. Cardinality(Idle') = Cardinality(Idle) + 1
    BY <2>1, CountThreads, ClientPoolAssumption DEF Idle
  <2> QED
    BY <1>1, <1>4, <2>2 DEF Finish
<1>5. ASSUME NEW w \in Workers,
             \/ Check(w) \/ Lock(w) \/ Pred(w) \/ Sleep(w) \/ Leave(w)
             \/ Take(w) \/ WakeUp(w)
      PROVE  Idle' = Idle /\ idlThrNum' = idlThrNum
  BY <1>5 DEF Check, Lock, Pred, Sleep, Leave, Take, WakeUp, Idle, Holders
<1>6. ASSUME NEW c \in Threads,
             CommitStep(c) \/ \E t \in Tasks : Commit(c, t)
      PROVE  Idle' = Idle /\ idlThrNum' = idlThrNum
  <2>1. CASE Push(c) \/ \E t \in Tasks : Commit(c, t)
    BY <2>1 DEF Push, Commit, Idle
  <2>2. CASE NotifyOne(c)
    BY <2>2 DEF NotifyOne, Idle, Asleep
  <2> QED
    BY <1>6, <2>1, <2>2 DEF CommitStep
<1>7. CASE Stop \/ Destroy
  BY <1>2, <1>7 DEF Stop, Destroy, NotifyAll, Join, Idle, Asleep
<1>8. CASE UNCHANGED vars
  BY <1>2, <1>8 DEF vars, Idle
<1> QED
  BY <1>2, <1>3, <1>4, <1>5, <1>6, <1>7, <1>8 DEF Next, WorkerStep

\* A worker's step preserves the rest of the inductive invariant.
LEMMA WorkerInv ==
    ASSUME PoolInv, NEW w \in Workers, WorkerStep(w) \/ WakeUp(w)
    PROVE  (Types /\ SleepInv /\ TaskInv /\ ArgInv /\ UniqueInv /\ StopInv)'
<1> USE ClientPoolAssumption
    DEF PoolInv, TypeOK, Types, SleepInv, TaskInv, ArgInv, UniqueInv, StopInv,
        Holders, Threads, commitVars, workerVars
<1>1. CASE Check(w)
  BY <1>1 DEF Check
<1>2. CASE Lock(w)
  BY <1>2 DEF Lock
<1>3. CASE Pred(w)
  BY <1>3 DEF Pred, Predicate
<1>4. CASE Sleep(w)
  BY <1>4 DEF Sleep
<1>5. CASE WakeUp(w)
  BY <1>5 DEF WakeUp
<1>6. CASE Leave(w)
  BY <1>6 DEF Leave
<1>7. CASE Take(w)
  <2>1. /\ Head(tasks) \in Tasks
        /\ tasks' \in Seq(Tasks)
        /\ Len(tasks) \in Nat /\ Len(tasks') = Len(tasks) - 1
        /\ \A i \in 1 .. Len(tasks') : tasks'[i] = tasks[i + 1]
    BY <1>7, HeadTailProperties, LenProperties DEF Take
  <2>2. UniqueInv'
    BY <1>7, <2>1 DEF Take
  <2>3. \A v \in Workers \ {w} : wpc[v] \notin Holders
    BY <1>7 DEF Take
  <2>4. (Types /\ SleepInv /\ TaskInv /\ ArgInv /\ StopInv)'
    BY <1>7, <2>1, <2>3 DEF Take
  <2> QED
    BY <2>2, <2>4
<1>8. CASE Start(w)
  BY <1>8 DEF Start
<1>9. CASE Finish(w)
  BY <1>9 DEF Finish
<1> QED
  BY <1>1, <1>2, <1>3, <1>4, <1>5, <1>6, <1>7, <1>8, <1>9 DEF WorkerStep

\* So does a step of commit(), and one of the destructor.
LEMMA CommitInv ==
    ASSUME PoolInv,
           \/ \E c \in Threads : CommitStep(c) \/ \E t \in Tasks : Commit(c, t)
           \/ Stop \/ Destroy
    PROVE  (Types /\ SleepInv /\ TaskInv /\ ArgInv /\ UniqueInv /\ StopInv)'
<1> USE ClientPoolAssumption
    DEF PoolInv, TypeOK, Types, SleepInv, TaskInv, ArgInv, UniqueInv, StopInv,
        Holders, Threads, commitVars, workerVars
<1>1. ASSUME NEW c \in Threads, NEW t \in Tasks, Commit(c, t)
      PROVE  (Types /\ SleepInv /\ TaskInv /\ ArgInv /\ UniqueInv /\ StopInv)'
  <2>1. /\ \A i \in 1 .. Len(tasks) : tasks[i] # t
        /\ \A d \in Threads : arg[d] # t
    BY <1>1 DEF Commit, InPool
  <2>2. UniqueInv'
    BY <1>1, <2>1 DEF Commit
  <2> QED
    BY <1>1, <2>2 DEF Commit
<1>2. ASSUME NEW c \in Threads, Push(c)
      PROVE  (Types /\ SleepInv /\ TaskInv /\ ArgInv /\ UniqueInv /\ StopInv)'
  <2>1. arg[c] \in Tasks /\ cpc[c] = "lock" /\ m_lock = NoThread
    BY <1>2 DEF Push
  <2>2. /\ tasks' \in Seq(Tasks) /\ tasks' # <<>>
        /\ Len(tasks) \in Nat /\ Len(tasks') = Len(tasks) + 1
        /\ \A i \in 1 .. Len(tasks) : tasks'[i] = tasks[i]
        /\ tasks'[Len(tasks) + 1] = arg[c]
    BY <1>2, <2>1, AppendProperties, LenProperties DEF Push
  <2>3. arg' = [arg EXCEPT ![c] = NoTask]
    BY <1>2 DEF Push
  <2>4. UniqueInv'
    <3>1. ASSUME NEW i \in 1 .. Len(tasks'), NEW d \in Threads
          PROVE  tasks'[i] # arg'[d]
      BY <2>1, <2>2, <2>3, <3>1
    <3>2. ASSUME NEW i \in 1 .. Len(tasks'), NEW j \in 1 .. Len(tasks'),
                 tasks'[i] = tasks'[j]
          PROVE  i = j
      BY <2>1, <2>2, <3>2
    <3> QED
      BY <2>3, <3>1, <3>2
  <2>5. SleepInv'
    BY <1>2, <2>1 DEF Push
  <2>6. (Types /\ TaskInv /\ ArgInv /\ StopInv)'
    BY <1>2, <2>1, <2>2, <2>3 DEF Push
  <2> QED
    BY <2>4, <2>5, <2>6
<1>3. ASSUME NEW c \in Threads, NotifyOne(c)
      PROVE  (Types /\ SleepInv /\ TaskInv /\ ArgInv /\ UniqueInv /\ StopInv)'
  BY <1>3 DEF NotifyOne, Asleep
<1>4. CASE Stop
  BY <1>4 DEF Stop
<1>5. CASE NotifyAll
  BY <1>5 DEF NotifyAll, Asleep
<1>6. CASE Join
  <2>1. tasks' \in Seq(Tasks) /\ Len(tasks') = 0
    BY <1>6, EmptySeq DEF Join
  <2> QED
    BY <1>6, <2>1 DEF Join
<1> QED
  BY <1>1, <1>2, <1>3, <1>4, <1>5, <1>6 DEF CommitStep, Destroy

\* PoolInv holds in every reachable state of the pool.
LEMMA PoolInvariant == Spec => []PoolInv
<1>1. PoolInv /\ [Next]_vars => PoolInv'
  <2> SUFFICES ASSUME PoolInv, [Next]_vars PROVE PoolInv'
    OBVIOUS
  <2>1. (Types /\ SleepInv /\ TaskInv /\ ArgInv /\ UniqueInv /\ StopInv)'
    <3>1. CASE UNCHANGED vars
      BY <3>1
      DEF vars, PoolInv, TypeOK, Types, SleepInv, TaskInv, ArgInv, UniqueInv,
          StopInv
    <3> QED
      BY <3>1, WorkerInv, CommitInv DEF Next
  <2>2. (idlThrNum = Cardinality(Idle))'
    BY IdleStep
  <2> QED
    BY <2>1, <2>2 DEF PoolInv, TypeOK, Types, Idle
<1> QED
  BY <1>1, PoolInvInit, PTL DEF Spec

(***************************************************************************)
(* Type correctness: m_lock has one holder, the worker between taking and  *)
(* giving it back, and idlThrNum is the number of workers that run no      *)
(* task, for any number of workers.                                        *)
(***************************************************************************)
THEOREM TypeCorrect == Spec => []TypeOK
<1>1. PoolInv => TypeOK
  BY DEF PoolInv
<1> QED
  BY <1>1, PoolInvariant, PTL

-----------------------------------------------------------------------------
(***************************************************************************)
(* A taker for each task                                                   *)
(***************************************************************************)

\* The workers on their way to the queue, the callers about to wake one.
Takers == {w \in Workers : wpc[w] \in {"lock", "pred", "take", "check"}}
Wakers == {c \in Threads : cpc[c] = "notify"}

\* TaskHasTaker is preserved: what takes a task or ends a wake-up is counted
\* on the other side of the inequality.
LEMMA TakerStep ==
    ASSUME PoolInv, PoolInv', TaskHasTaker, [Next]_vars
    PROVE  TaskHasTaker'
<1> DEFINE T == Cardinality(Takers)
           K == Cardinality(Wakers)
           L == Len(tasks)
           T1 == Cardinality(Takers')
           K1 == Cardinality(Wakers')
           L1 == Len(tasks')
<1> USE DEF PoolInv, TypeOK, Holders, commitVars, workerVars
<1>1. IsFiniteSet(Workers) /\ IsFiniteSet(Threads)
  BY ClientPoolAssumption, FS_Union DEF Threads
<1>2. /\ T \in Nat /\ K \in Nat /\ L \in Nat
      /\ T1 \in Nat /\ K1 \in Nat /\ L1 \in Nat
  <2>1. /\ IsFiniteSet(Takers) /\ IsFiniteSet(Wakers)
        /\ IsFiniteSet(Takers') /\ IsFiniteSet(Wakers')
    BY <1>1, FS_Subset DEF Takers, Wakers
  <2> QED
    BY <2>1, FS_CardinalityType, LenProperties
<1>3. ~stoped /\ Asleep # {} => L <= T + K
  BY DEF TaskHasTaker, Takers, Wakers
<1>4. SUFFICES ASSUME ~stoped', Asleep' # {} PROVE L1 <= T1 + K1
  BY DEF TaskHasTaker, Takers, Wakers
<1>5. ASSUME wpc' = wpc PROVE T1 = T /\ Asleep' = Asleep
  BY <1>5 DEF Takers, Asleep
<1>6. ASSUME cpc' = cpc PROVE K1 = K
  BY <1>6 DEF Wakers
<1>7. ASSUME tasks' = tasks PROVE L1 = L
  BY <1>7
<1>8. ASSUME NEW t \in Workers, Takers' = Takers \union {t}, t \notin Takers
      PROVE  T1 = T + 1
  <2>1. Takers \in SUBSET Workers
    BY DEF Takers
  <2>2. Cardinality(Takers \union {t}) = T + 1
    BY <1>1, <1>8, <2>1, CountThreads
  <2> QED
    BY <1>8, <2>2
<1>9. ASSUME NEW t \in Workers, Takers' = Takers \ {t}, t \in Takers
      PROVE  T1 = T - 1
  <2>1. Takers \in SUBSET Workers
    BY DEF Takers
  <2>2. t \in Takers
    BY <1>9
  <2>3. Cardinality(Takers \ {t}) = Cardinality(Takers) - 1
    <3> HIDE DEF PoolInv, TypeOK, Holders
    <3> QED
      BY <1>1, <2>1, <2>2, CountThreads
  <2> QED
    BY <1>9, <2>3, Zenon
<1> HIDE DEF T, K, L, T1, K1, L1
<1>10. ASSUME NEW w \in Workers, Check(w) \/ Lock(w) PROVE L1 <= T1 + K1
  <2>1. Takers' = Takers /\ Asleep' = Asleep /\ ~stoped
    BY <1>4, <1>10 DEF Check, Lock, Takers, Asleep
  <2> QED
    BY <1>2, <1>3, <1>4, <1>6, <1>7, <1>10, <2>1 DEF Check, Lock, T, T1
<1>11. ASSUME NEW w \in Workers, Pred(w) PROVE L1 <= T1 + K1
  <2>1. CASE Predicate
    <3>1. Takers' = Takers /\ Asleep' = Asleep /\ ~stoped
      BY <1>4, <1>11, <2>1 DEF Pred, Takers, Asleep
    <3> QED
      BY <1>2, <1>3, <1>4, <1>6, <1>7, <1>11, <3>1 DEF Pred, T, T1
  <2>2. CASE ~Predicate
    <3>1. L1 = 0
      BY <1>11, <2>2 DEF Pred, Predicate, L, L1
    <3> QED
      BY <1>2, <3>1
  <2> QED
    BY <2>1, <2>2
<1>12. ASSUME NEW w \in Workers, Sleep(w) PROVE L1 <= T1 + K1
  <2>1. L1 = 0
    BY <1>12 DEF Sleep, SleepInv, L, L1
  <2> QED
    BY <1>2, <2>1
<1>13. ASSUME NEW w \in Workers, WakeUp(w) PROVE L1 <= T1 + K1
  <2>1. /\ Takers' = Takers \union {w} /\ w \notin Takers
        /\ Asleep # {} /\ ~stoped
    BY <1>4, <1>13 DEF WakeUp, Takers, Asleep
  <2> QED
    BY <1>2, <1>3, <1>6, <1>7, <1>8, <1>13, <2>1 DEF WakeUp
<1>14. ASSUME NEW w \in Workers, Leave(w) PROVE FALSE
  BY <1>4, <1>14 DEF Leave
<1>15. ASSUME NEW w \in Workers, Take(w) PROVE L1 <= T1 + K1
  <2>1. /\ Takers' = Takers \ {w} /\ w \in Takers
        /\ Asleep' = Asleep /\ ~stoped
    BY <1>4, <1>15 DEF Take, Takers, Asleep
  <2>2. L1 = L - 1
    BY <1>15, HeadTailProperties DEF Take, L, L1
  <2> QED
    BY <1>2, <1>3, <1>4, <1>6, <1>9, <1>15, <2>1, <2>2 DEF Take
<1>16. ASSUME NEW w \in Workers, Start(w) PROVE L1 <= T1 + K1
  <2>1. Takers' = Takers /\ Asleep' = Asleep /\ ~stoped
    BY <1>4, <1>16 DEF Start, Takers, Asleep
  <2> QED
    BY <1>2, <1>3, <1>4, <1>6, <1>7, <1>16, <2>1 DEF Start, T, T1
<1>17. ASSUME NEW w \in Workers, Finish(w) PROVE L1 <= T1 + K1
  <2>1. /\ Takers' = Takers \union {w} /\ w \notin Takers
        /\ Asleep' = Asleep /\ ~stoped
    BY <1>4, <1>17 DEF Finish, Takers, Asleep
  <2> QED
    BY <1>2, <1>3, <1>4, <1>6, <1>7, <1>8, <1>17, <2>1 DEF Finish
<1>18. ASSUME NEW c \in Threads, NEW t \in Tasks, Commit(c, t)
       PROVE  L1 <= T1 + K1
  <2>1. Wakers' = Wakers
    BY <1>18 DEF Commit, Wakers
  <2> QED
    BY <1>2, <1>3, <1>4, <1>5, <1>7, <1>18, <2>1 DEF Commit, K, K1
<1>19. ASSUME NEW c \in Threads, Push(c) PROVE L1 <= T1 + K1
  <2>1. Wakers' = Wakers \union {c} /\ c \notin Wakers
    BY <1>19 DEF Push, Wakers
  <2>2. K1 = K + 1
    <3>1. Wakers \in SUBSET Threads
      BY DEF Wakers
    <3> QED
      BY <1>1, <2>1, <3>1, CountThreads DEF K, K1
  <2>3. arg[c] \in Tasks
    BY <1>19 DEF Push, ArgInv
  <2>4. L1 = L + 1
    BY <1>19, <2>3, AppendProperties DEF Push, L, L1
  <2> QED
    BY <1>2, <1>3, <1>4, <1>5, <1>19, <2>2, <2>4 DEF Push
<1>20. ASSUME NEW c \in Threads, NotifyOne(c) PROVE L1 <= T1 + K1
  <2>1. Wakers' = Wakers \ {c} /\ c \in Wakers
    BY <1>20 DEF NotifyOne, Wakers
  <2>2. K1 = K - 1
    <3>1. Wakers \in SUBSET Threads
      BY DEF Wakers
    <3> QED
      BY <1>1, <2>1, <3>1, CountThreads DEF K, K1
  <2>3. Asleep # {}
    BY <1>4, <1>20 DEF NotifyOne, Asleep
  <2>4. PICK w \in Asleep : wpc' = [wpc EXCEPT ![w] = "lock"]
    BY <1>20, <2>3 DEF NotifyOne
  <2>5. Takers' = Takers \union {w} /\ w \notin Takers /\ w \in Workers
    BY <2>4 DEF Takers, Asleep
  <2> QED
    BY <1>2, <1>3, <1>4, <1>7, <1>8, <1>20, <2>2, <2>3, <2>5
    DEF NotifyOne
<1>21. CASE Stop
  BY <1>4, <1>21 DEF Stop
<1>22. CASE NotifyAll
  BY <1>4, <1>22 DEF NotifyAll, Asleep
<1>23. CASE Join
  <2>1. L1 = 0
    BY <1>23 DEF Join, L, L1
  <2> QED
    BY <1>2, <2>1
<1>24. CASE UNCHANGED vars
  BY <1>2, <1>3, <1>4, <1>5, <1>6, <1>7, <1>24 DEF vars
<1> QED
  BY <1>10, <1>11, <1>12, <1>13, <1>14, <1>15, <1>16, <1>17, <1>18, <1>19,
     <1>20, <1>21, <1>22, <1>23, <1>24
  DEF Next, WorkerStep, CommitStep, Destroy

(***************************************************************************)
(* No lost wake-up: while a worker sleeps, there are as many workers on    *)
(* their way to the queue, or callers about to notify one, as there are    *)
(* tasks, for any numbers of both and any spurious wake-ups.               *)
(***************************************************************************)
THEOREM TaskAlwaysHasTaker == Spec => []TaskHasTaker
<1>1. Init => TaskHasTaker
  BY DEF Init, TaskHasTaker, Asleep
<1> QED
  BY <1>1, PoolInvariant, TakerStep, PTL DEF Spec

-----------------------------------------------------------------------------
(***************************************************************************)
(* The refinement of TaskPool                                              *)
(***************************************************************************)

\* Tasks wait at most once each, so that the queue has room for one that is
\* being committed.
LEMMA RoomForTask ==
    ASSUME PoolInv, IsFiniteSet(Tasks), NEW c \in Threads, cpc[c] = "lock"
    PROVE  Len(tasks) < Cardinality(Tasks) /\ arg[c] \in Tasks
<1> DEFINE n == Len(tasks)
           rest == Tasks \ {arg[c]}
<1>1. arg[c] \in Tasks
  BY DEF PoolInv, TypeOK, ArgInv
<1>2. n \in Nat /\ tasks \in [1 .. n -> Tasks]
  BY LenProperties DEF PoolInv, TypeOK
<1>3. tasks \in Injection(1 .. n, rest)
  BY <1>2 DEF PoolInv, UniqueInv, Injection, IsInjective
<1>4. IsFiniteSet(rest) /\ Cardinality(rest) = Cardinality(Tasks) - 1
  BY <1>1, FS_RemoveElement
<1>5. Cardinality(1 .. n) = n
  BY <1>2, FS_Interval
<1>6. Cardinality(1 .. n) <= Cardinality(rest)
  BY <1>3, <1>4, FS_Injection
<1> QED
  BY <1>1, <1>2, <1>4, <1>5, <1>6, FS_CardinalityType

\* Every step of the pool is a step of TaskPool or changes nothing there.
LEMMA PoolSpecStep ==
    ASSUME PoolInv, IsFiniteSet(Tasks), [Next]_vars
    PROVE  [Pool!Next]_(Pool!vars)
<1> USE DEF Pool!vars, commitVars, workerVars
<1>0. SUFFICES ASSUME ~(tasks' = tasks /\ task' = task /\ stoped' = stoped)
               PROVE  Pool!Next
  OBVIOUS
<1>1. ASSUME NEW w \in Workers, WorkerStep(w) \/ WakeUp(w) PROVE Pool!Next
  <2>1. CASE Take(w)
    <3>1. Pool!Take(w)
      BY <2>1 DEF Take, Pool!Take, PoolInv, TaskInv
    <3> QED
      BY <3>1 DEF Pool!Next
  <2>2. CASE Finish(w)
    <3>1. Pool!Finish(w)
      BY <2>2 DEF Finish, Pool!Finish, PoolInv, TaskInv
    <3> QED
      BY <3>1 DEF Pool!Next
  <2> QED
    BY <1>0, <1>1, <2>1, <2>2
    DEF WorkerStep, Check, Lock, Pred, Sleep, Leave, Start, WakeUp
<1>2. ASSUME NEW c \in Threads, Push(c) PROVE Pool!Next
  <2>1. Pool!Submit(arg[c]) /\ arg[c] \in Tasks
    BY <1>2, RoomForTask DEF Push, Pool!Submit
  <2> QED
    BY <2>1 DEF Pool!Next
<1>3. CASE Stop
  <2>1. Pool!Stop
    BY <1>3 DEF Stop, Pool!Stop
  <2> QED
    BY <2>1 DEF Pool!Next
<1>4. CASE Join
  <2>1. Pool!Discard
    BY <1>4 DEF Join, Pool!Discard, PoolInv, StopInv
  <2> QED
    BY <2>1 DEF Pool!Next
<1> QED
  BY <1>0, <1>1, <1>2, <1>3, <1>4
  DEF Next, CommitStep, NotifyOne, Commit, Destroy, NotifyAll, vars

(***************************************************************************)
(* The pool implements TaskPool: until the destructor frees the queue, a   *)
(* task leaves it only as its oldest one and for exactly one worker.       *)
(* Tasks is finite, or TaskPool's bound on the queue, their number, would  *)
(* mean nothing.                                                           *)
(***************************************************************************)
THEOREM PoolImplementsTaskPool ==
    ASSUME IsFiniteSet(Tasks)
    PROVE  Spec => PoolSpec
<1>1. Init => Pool!Init
  BY DEF Init, Pool!Init
<1>2. PoolInv /\ [Next]_vars => [Pool!Next]_(Pool!vars)
  BY PoolSpecStep
<1> QED
  BY <1>1, <1>2, PoolInvariant, PTL DEF Spec, PoolSpec, Pool!Spec
=============================================================================

-------------------------- MODULE ThreadPoolProofs --------------------------
(***************************************************************************)
(* Proofs about ThreadPool, for any finite sets of workers and callers,    *)
(* any requests and any m_max_requests.                                    *)
(*                                                                         *)
(* The inductive invariant is PoolInv.  Beside the types it says what the  *)
(* mutex protects: only its holder is between lock() and unlock(); the     *)
(* request a worker has read is still the front when it removes it; and a  *)
(* caller past the size test still finds the queue short enough when it    *)
(* pushes.  QueueBound and the refinement of TaskPool follow from it.      *)
(***************************************************************************)
EXTENDS ThreadPool, FiniteSetTheorems, SequenceTheorems, TLAPS

\* A thread inside a critical section holds m_queuelocker.
MutexInv ==
    /\ \A w \in Workers : wpc[w] \in {"front", "pop"} => m_queuelocker = w
    /\ \A a \in Callers : apc[a] \in {"test", "push"} => m_queuelocker = a

\* What a worker knows between front() and pop_front(), and about its local
\* request elsewhere.
RequestInv ==
    \A w \in Workers :
        /\ wpc[w] = "pop" => /\ m_workqueue # <<>>
                             /\ wreq[w] = Head(m_workqueue)
        /\ wpc[w] = "process" => wreq[w] # Null
        /\ wpc[w] \notin {"pop", "process"} => wreq[w] = Null

\* What a caller knows between the size test and push_back().
AdmitInv == \A a \in Callers : apc[a] = "push" => ~TooLong

PoolInv == TypeOK /\ MutexInv /\ RequestInv /\ AdmitInv /\ QueueBound

-----------------------------------------------------------------------------
\* The initial state satisfies the inductive invariant.
LEMMA PoolInvInit == Init => PoolInv
<1> SUFFICES ASSUME Init PROVE PoolInv
  OBVIOUS
<1>1. TypeOK
  <2>1. m_stop \in BOOLEAN
    BY Zenon DEF Init
  <2> QED
    BY <2>1 DEF Init, TypeOK, Tasks, WorkerPC, CallerPC
<1>2. MutexInv /\ RequestInv /\ AdmitInv
  BY DEF Init, MutexInv, RequestInv, AdmitInv
<1>3. QueueBound
  BY PoolAssumption DEF Init, QueueBound
<1> QED
  BY <1>1, <1>2, <1>3 DEF PoolInv

\* Every step of a caller inside append() preserves the inductive invariant.
LEMMA PoolInvCaller ==
    ASSUME PoolInv, NEW a \in Callers, CallerStep(a)
    PROVE  PoolInv'
<1> USE PoolAssumption DEF PoolInv, TypeOK, MutexInv, RequestInv, AdmitInv,
        QueueBound, TooLong, WorkerPC, CallerPC, Threads, poolVars,
        workerVars, callerVars
<1>1. CASE AppendLock(a)
  BY <1>1 DEF AppendLock
<1>2. CASE AppendRefuse(a)
  BY <1>2 DEF AppendRefuse, Tasks
<1>3. CASE AppendAdmit(a)
  BY <1>3 DEF AppendAdmit
<1>4. CASE AppendPush(a)
  <2>1. /\ m_workqueue' \in Seq(Tasks)
        /\ Len(m_workqueue') = Len(m_workqueue) + 1
    BY <1>4, AppendProperties DEF AppendPush
  <2>2. QueueBound'
    BY <1>4, <2>1 DEF AppendPush
  <2>3. \A w \in Workers : wpc[w] # "pop"
    BY <1>4 DEF AppendPush
  <2>4. \A b \in Callers : apc'[b] # "push"
    BY <1>4 DEF AppendPush
  <2> QED
    BY <1>4, <2>1, <2>2, <2>3, <2>4 DEF AppendPush
<1>5. CASE AppendPost(a)
  BY <1>5 DEF AppendPost, Tasks
<1> QED
  BY <1>1, <1>2, <1>3, <1>4, <1>5 DEF CallerStep

\* Every step of a worker preserves the inductive invariant.
LEMMA PoolInvWorker ==
    ASSUME PoolInv, NEW w \in Workers,
           WorkerStep(w) \/ SemWaitFails(w) \/ ProcessReturns(w)
    PROVE  PoolInv'
<1> USE PoolAssumption DEF PoolInv, TypeOK, MutexInv, RequestInv, AdmitInv,
        QueueBound, TooLong, WorkerPC, CallerPC, Threads, poolVars,
        workerVars, callerVars
<1>1. CASE LoopTest(w)
  BY <1>1 DEF LoopTest
<1>2. CASE SemWait(w)
  BY <1>2 DEF SemWait
<1>3. CASE SemWaitFails(w)
  BY <1>3 DEF SemWaitFails
<1>4. CASE WorkerLock(w)
  BY <1>4 DEF WorkerLock
<1>5. CASE FindEmpty(w)
  BY <1>5 DEF FindEmpty
<1>6. CASE ReadFront(w)
  <2>1. Head(m_workqueue) \in Tasks
    BY <1>6, HeadTailProperties DEF ReadFront
  <2> QED
    BY <1>6, <2>1 DEF ReadFront
<1>7. CASE PopFront(w)
  <2>1. m_workqueue # <<>> /\ m_queuelocker = w
    BY <1>7 DEF PopFront
  <2>2. /\ m_workqueue' \in Seq(Tasks)
        /\ Len(m_workqueue') = Len(m_workqueue) - 1
    BY <1>7, <2>1, HeadTailProperties DEF PopFront
  <2>3. \A v \in Workers : wpc'[v] \notin {"front", "pop"}
    BY <1>7, <2>1 DEF PopFront
  <2>4. \A a \in Callers : apc'[a] \notin {"test", "push"}
    BY <1>7, <2>1 DEF PopFront
  <2>5. TypeOK'
    BY <1>7, <2>2 DEF PopFront
  <2>6. QueueBound'
    BY <2>2
  <2>7. RequestInv'
    BY <1>7, <2>3 DEF PopFront
  <2> QED
    BY <2>3, <2>4, <2>5, <2>6, <2>7
<1>8. CASE ProcessReturns(w)
  BY <1>8 DEF ProcessReturns, Tasks
<1> QED
  BY <1>1, <1>2, <1>3, <1>4, <1>5, <1>6, <1>7, <1>8 DEF WorkerStep

\* Every step of the pool preserves the inductive invariant.
LEMMA PoolInvStep == PoolInv /\ [Next]_vars => PoolInv'
<1> SUFFICES ASSUME PoolInv, [Next]_vars
             PROVE  PoolInv'
  OBVIOUS
<1> USE PoolAssumption DEF PoolInv, TypeOK, MutexInv, RequestInv, AdmitInv,
        QueueBound, TooLong, WorkerPC, CallerPC, Threads, poolVars,
        workerVars, callerVars
<1>1. ASSUME NEW w \in Workers, CreateWorker(w) PROVE PoolInv'
  BY <1>1 DEF CreateWorker
<1>2. CASE CreateFails
  BY <1>2 DEF CreateFails
<1>3. CASE Delete
  BY <1>3 DEF Delete
<1>4. ASSUME NEW a \in Callers, NEW r \in Tasks, AppendCall(a, r)
      PROVE  PoolInv'
  BY <1>4 DEF AppendCall
<1>5. CASE UNCHANGED vars
  BY <1>5 DEF vars
<1> QED
  BY <1>1, <1>2, <1>3, <1>4, <1>5, PoolInvCaller, PoolInvWorker DEF Next

\* PoolInv holds in every reachable state of the pool.
LEMMA PoolInvariant == Spec => []PoolInv
  BY PoolInvInit, PoolInvStep, PTL DEF Spec

(***************************************************************************)
(* Type correctness: every field of the pool and every thread of it stays  *)
(* within its type.  It needs the mutex: without it a worker could remove  *)
(* the front of a list that another worker has just emptied.               *)
(***************************************************************************)
THEOREM TypeCorrect == Spec => []TypeOK
<1>1. PoolInv => TypeOK
  BY DEF PoolInv
<1> QED
  BY <1>1, PoolInvariant, PTL

(***************************************************************************)
(* However many callers race in append(), the queue never holds more than  *)
(* m_max_requests + 1 requests.                                            *)
(***************************************************************************)
THEOREM QueueBounded == Spec => []QueueBound
<1>1. PoolInv => QueueBound
  BY DEF PoolInv
<1> QED
  BY <1>1, PoolInvariant, PTL

-----------------------------------------------------------------------------
(***************************************************************************)
(* No stranded request                                                     *)
(***************************************************************************)

\* Adding a thread to, or removing one from, a set of threads.
LEMMA CountThreads ==
    ASSUME NEW S, IsFiniteSet(S), NEW T \in SUBSET S, NEW t \in S
    PROVE  /\ Cardinality(T) \in Nat
           /\ t \notin T => Cardinality(T \union {t}) = Cardinality(T) + 1
           /\ t \in T => Cardinality(T \ {t}) = Cardinality(T) - 1
<1>1. IsFiniteSet(T)
  BY FS_Subset
<1> QED
  BY <1>1, FS_CardinalityType, FS_AddElement, FS_RemoveElement

\* A worker's step changes Holding only at that worker, and Posting not at
\* all; a caller's step the other way round.
LEMMA StrandedStep ==
    ASSUME PoolInv, NoStrandedRequest, [Next]_vars
    PROVE  NoStrandedRequest'
<1> DEFINE H == Cardinality(Holding)
           P == Cardinality(Posting)
           L == Len(m_workqueue)
<1>1. /\ H \in Nat /\ P \in Nat /\ L \in Nat /\ m_queuestat \in Nat
      /\ L <= m_queuestat + H + P
  <2>1. IsFiniteSet(Holding) /\ IsFiniteSet(Posting)
    BY PoolAssumption, FS_Subset DEF Holding, Posting
  <2>2. H \in Nat /\ P \in Nat
    BY <2>1, FS_CardinalityType
  <2> QED
    BY <2>2, LenProperties DEF PoolInv, TypeOK, NoStrandedRequest
<1> HIDE DEF H, P, L
<1> SUFFICES L' <= m_queuestat' + H' + P'
  BY DEF NoStrandedRequest, H, P, L
<1> USE DEF PoolInv, TypeOK, WorkerPC, CallerPC, poolVars, workerVars,
            callerVars
<1>2. ASSUME wpc' = wpc PROVE H' = H
  BY <1>2 DEF H, Holding
<1>3. ASSUME apc' = apc PROVE P' = P
  BY <1>3 DEF P, Posting
<1>4. ASSUME m_workqueue' = m_workqueue PROVE L' = L
  BY <1>4 DEF L
<1>5. ASSUME NEW w \in Workers, CreateWorker(w) \/ LoopTest(w)
      PROVE  L' <= m_queuestat' + H' + P'
  <2>1. Holding' = Holding
    BY <1>5 DEF CreateWorker, LoopTest, Holding
  <2>2. H' = H
    BY <2>1 DEF H
  <2> QED
    BY <1>1, <1>3, <1>4, <1>5, <2>2 DEF CreateWorker, LoopTest
<1>6. CASE CreateFails
  BY <1>1, <1>2, <1>3, <1>4, <1>6 DEF CreateFails
<1>7. CASE Delete
  <2>1. L' = 0
    BY <1>7 DEF Delete, L
  <2> QED
    BY <1>1, <1>2, <1>3, <1>7, <2>1 DEF Delete
<1>8. ASSUME NEW a \in Callers, NEW r \in Tasks, AppendCall(a, r)
      PROVE  L' <= m_queuestat' + H' + P'
  <2>1. Posting' = Posting
    BY <1>8 DEF AppendCall, Posting
  <2>2. P' = P
    BY <2>1 DEF P
  <2> QED
    BY <1>1, <1>2, <1>4, <1>8, <2>2 DEF AppendCall
<1>9. ASSUME NEW a \in Callers, CallerStep(a)
      PROVE  L' <= m_queuestat' + H' + P'
  <2>1. CASE AppendLock(a) \/ AppendRefuse(a) \/ AppendAdmit(a)
    <3>1. Posting' = Posting
      BY <2>1 DEF AppendLock, AppendRefuse, AppendAdmit, Posting
    <3>2. P' = P
      BY <3>1 DEF P
    <3> QED
      BY <1>1, <1>2, <1>4, <2>1, <3>2
      DEF AppendLock, AppendRefuse, AppendAdmit
  <2>2. CASE AppendPush(a)
    <3>1. Posting' = Posting \union {a} /\ a \notin Posting
      BY <2>2 DEF AppendPush, Posting
    <3>2. P' = P + 1
      BY <3>1, CountThreads, PoolAssumption DEF P, Posting
    <3>3. L' = L + 1
      BY <2>2, AppendProperties DEF AppendPush, L
    <3> QED
      BY <1>1, <1>2, <2>2, <3>2, <3>3 DEF AppendPush
  <2>3. CASE AppendPost(a)
    <3>1. Posting' = Posting \ {a} /\ a \in Posting
      BY <2>3 DEF AppendPost, Posting
    <3>2. P' = P - 1
      BY <3>1, CountThreads, PoolAssumption DEF P, Posting
    <3> QED
      BY <1>1, <1>2, <1>4, <2>3, <3>2 DEF AppendPost
  <2> QED
    BY <1>9, <2>1, <2>2, <2>3 DEF CallerStep
<1>10. ASSUME NEW w \in Workers, SemWait(w) \/ SemWaitFails(w)
       PROVE  L' <= m_queuestat' + H' + P'
  <2>1. Holding' = Holding \union {w} /\ w \notin Holding
    BY <1>10 DEF SemWait, SemWaitFails, Holding
  <2>2. H' = H + 1
    BY <2>1, CountThreads, PoolAssumption DEF H, Holding
  <2> QED
    BY <1>1, <1>3, <1>4, <1>10, <2>2 DEF SemWait, SemWaitFails
<1>11. ASSUME NEW w \in Workers, WorkerLock(w) \/ ReadFront(w)
       PROVE  L' <= m_queuestat' + H' + P'
  <2>1. Holding' = Holding
    BY <1>11 DEF WorkerLock, ReadFront, Holding
  <2>2. H' = H
    BY <2>1 DEF H
  <2> QED
    BY <1>1, <1>3, <1>4, <1>11, <2>2 DEF WorkerLock, ReadFront
<1>12. ASSUME NEW w \in Workers, FindEmpty(w) \/ PopFront(w)
       PROVE  L' <= m_queuestat' + H' + P'
  <2>1. Holding' = Holding \ {w} /\ w \in Holding
    BY <1>12 DEF FindEmpty, PopFront, Holding
  <2>2. H' = H - 1
    BY <2>1, CountThreads, PoolAssumption DEF H, Holding
  <2>3. H' \in Nat
    BY <2>1, PoolAssumption, CountThreads DEF H, Holding
  <2>4. CASE FindEmpty(w)
    <3>1. L = 0
      BY <2>4 DEF FindEmpty, L
    <3> QED
      BY <1>1, <1>3, <1>4, <2>2, <2>3, <2>4, <3>1 DEF FindEmpty
  <2>5. CASE PopFront(w)
    <3>1. L' = L - 1
      BY <2>5, HeadTailProperties DEF PopFront, L, RequestInv
    <3> QED
      BY <1>1, <1>3, <2>2, <2>5, <3>1 DEF PopFront
  <2> QED
    BY <1>12, <2>4, <2>5
<1>13. ASSUME NEW w \in Workers, ProcessReturns(w)
       PROVE  L' <= m_queuestat' + H' + P'
  <2>1. Holding' = Holding
    BY <1>13 DEF ProcessReturns, Holding
  <2>2. H' = H
    BY <2>1 DEF H
  <2> QED
    BY <1>1, <1>3, <1>4, <1>13, <2>2 DEF ProcessReturns
<1>14. CASE UNCHANGED vars
  BY <1>1, <1>2, <1>3, <1>4, <1>14 DEF vars
<1> QED
  BY <1>5, <1>6, <1>7, <1>8, <1>9, <1>10, <1>11, <1>12, <1>13, <1>14
  DEF Next, WorkerStep

(***************************************************************************)
(* No lost wake-up: a queued request is always matched by a semaphore      *)
(* count, by a worker on its way to the queue or by a caller about to      *)
(* post, for any number of threads and of failed sem_wait() calls.         *)
(***************************************************************************)
THEOREM NoRequestStranded == Spec => []NoStrandedRequest
<1>1. Init => NoStrandedRequest
  <2> SUFFICES ASSUME Init PROVE NoStrandedRequest
    OBVIOUS
  <2>1. Holding = {} /\ Posting = {}
    BY DEF Init, Holding, Posting
  <2> QED
    BY <2>1, FS_EmptySet DEF Init, NoStrandedRequest
<1> QED
  BY <1>1, PoolInvariant, StrandedStep, PTL DEF Spec

-----------------------------------------------------------------------------
(***************************************************************************)
(* The refinement                                                          *)
(***************************************************************************)

\* What each worker serves, as the refinement mapping computes it.
Serving == [w \in Workers |-> IF wpc[w] = "process" THEN wreq[w] ELSE Null]

\* A step that leaves the queue alone and changes no worker that enters or
\* leaves process() is a stuttering step of TaskPool.
LEMMA ServingSame ==
    ASSUME NEW w \in Workers, wpc \in [Workers -> WorkerPC],
           NEW p \in WorkerPC, wpc' = [wpc EXCEPT ![w] = p],
           wpc[w] # "process", p # "process",
           \A v \in Workers : v # w => wreq'[v] = wreq[v]
    PROVE  Serving' = Serving
  BY DEF Serving

\* Every step of the pool is a step of TaskPool or changes nothing there.
LEMMA TaskPoolStep ==
    ASSUME PoolInv, [Next]_vars
    PROVE  [Promise!Next]_(Promise!vars)
<1> USE DEF Promise!vars
<1>0. SUFFICES ASSUME ~(/\ m_workqueue' = m_workqueue /\ Serving' = Serving
                         /\ m_stop' = m_stop)
               PROVE  Promise!Next
  BY DEF Serving
<1>1. wpc \in [Workers -> WorkerPC]
  BY DEF PoolInv, TypeOK
<1>2. ASSUME NEW w \in Workers, CreateWorker(w) PROVE FALSE
  BY <1>0, <1>1, <1>2, ServingSame DEF CreateWorker, poolVars, WorkerPC
<1>3. CASE CreateFails
  BY <1>0, <1>3 DEF CreateFails, Serving, poolVars, workerVars
<1>4. CASE Delete
  <2>1. Promise!Discard
    BY <1>4 DEF Delete, Promise!Discard, workerVars
  <2> QED
    BY <2>1 DEF Promise!Next
<1>5. ASSUME NEW a \in Callers, NEW r \in Tasks, AppendCall(a, r)
      PROVE  FALSE
  BY <1>0, <1>5 DEF AppendCall, Serving, poolVars, workerVars
<1>6. ASSUME NEW a \in Callers, CallerStep(a) PROVE Promise!Next
  <2>1. CASE AppendLock(a) \/ AppendRefuse(a) \/ AppendAdmit(a)
             \/ AppendPost(a)
    BY <1>0, <2>1
    DEF AppendLock, AppendRefuse, AppendAdmit, AppendPost, Serving,
        poolVars, workerVars
  <2>2. CASE AppendPush(a)
    <3>1. Len(m_workqueue) < MaxRequests + 1 /\ areq[a] \in Tasks
      BY <2>2, PoolAssumption, LenProperties
      DEF AppendPush, PoolInv, AdmitInv, TooLong, TypeOK
    <3>2. Promise!Submit(areq[a])
      BY <2>2, <3>1 DEF AppendPush, Promise!Submit, workerVars
    <3>3. areq[a] \in Requests \union {Null}
      BY <3>1 DEF Tasks
    <3> QED
      BY <3>2, <3>3 DEF Promise!Next, Tasks
  <2> QED
    BY <1>6, <2>1, <2>2 DEF CallerStep
<1>7. ASSUME NEW w \in Workers,
             \/ LoopTest(w) \/ SemWait(w) \/ SemWaitFails(w)
             \/ WorkerLock(w) \/ FindEmpty(w) \/ ReadFront(w)
      PROVE  FALSE
  <2>1. CASE \/ LoopTest(w) \/ SemWait(w) \/ SemWaitFails(w)
             \/ WorkerLock(w) \/ FindEmpty(w)
    BY <1>0, <1>1, <2>1, ServingSame
    DEF LoopTest, SemWait, SemWaitFails, WorkerLock, FindEmpty, poolVars,
        WorkerPC
  <2>2. CASE ReadFront(w)
    <3>1. \A v \in Workers : v # w => wreq'[v] = wreq[v]
      BY <2>2 DEF ReadFront, PoolInv, TypeOK
    <3> QED
      BY <1>0, <1>1, <2>2, <3>1, ServingSame
      DEF ReadFront, poolVars, WorkerPC
  <2> QED
    BY <1>7, <2>1, <2>2
<1>8. ASSUME NEW w \in Workers, PopFront(w) PROVE Promise!Next
  <2>1. /\ m_workqueue # <<>>
        /\ wreq[w] = Head(m_workqueue)
        /\ wpc[w] = "pop"
    BY <1>8 DEF PopFront, PoolInv, RequestInv
  <2>2. /\ m_workqueue' = Tail(m_workqueue)
        /\ wreq' = wreq
        /\ wpc' = [wpc EXCEPT ![w] = IF wreq[w] = Null THEN "check"
                                                       ELSE "process"]
        /\ m_stop' = m_stop
    BY <1>8 DEF PopFront
  <2>3. Serving' = [Serving EXCEPT ![w] = Head(m_workqueue)]
    BY <1>1, <2>1, <2>2 DEF Serving
  <2>4. Promise!Take(w)
    BY <2>1, <2>2, <2>3 DEF Serving, Promise!Take
  <2> QED
    BY <2>4 DEF Promise!Next
<1>9. ASSUME NEW w \in Workers, ProcessReturns(w) PROVE Promise!Next
  <2>1. wpc[w] = "process" /\ wreq[w] # Null
    BY <1>9 DEF ProcessReturns, PoolInv, RequestInv
  <2>2. Serving' = [Serving EXCEPT ![w] = Null]
    BY <1>1, <1>9 DEF ProcessReturns, Serving, PoolInv, TypeOK
  <2>3. Promise!Finish(w)
    BY <1>9, <2>1, <2>2
    DEF ProcessReturns, Serving, Promise!Finish, poolVars
  <2> QED
    BY <2>3 DEF Promise!Next
<1>10. CASE UNCHANGED vars
  BY <1>0, <1>10 DEF vars, Serving
<1> QED
  BY <1>2, <1>3, <1>4, <1>5, <1>6, <1>7, <1>8, <1>9, <1>10
  DEF Next, WorkerStep

(***************************************************************************)
(* The pool implements TaskPool: whatever the threads' interleaving, no    *)
(* request leaves the queue of a pool that is not being destroyed but as   *)
(* its oldest one, given to exactly one worker.                            *)
(***************************************************************************)
THEOREM PoolImplementsTaskPool == Spec => ImplementsTaskPool
<1>1. Init => Promise!Init
  BY DEF Init, Promise!Init
<1> QED
  BY <1>1, PoolInvariant, TaskPoolStep, PTL
  DEF Spec, ImplementsTaskPool, Promise!Spec
=============================================================================

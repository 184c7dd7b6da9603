----------------------------- MODULE ThreadPool -----------------------------
(***************************************************************************)
(* The server's thread pool, src/src/server/threadpool/threadpool.h, with  *)
(* the semaphore and mutex wrappers of src/src/server/RAII/locker.h.       *)
(*                                                                         *)
(* Threads are the workers the constructor creates, each running run(),    *)
(* and the callers of append().  One action stands for the code between    *)
(* two points where another thread can act: the lock is taken, the queue   *)
(* is read, the queue is changed and the lock given back, the semaphore is *)
(* posted.  Reading the front and removing it are separate steps, as in    *)
(* run(), so that only the mutex keeps two workers off the same request.   *)
(***************************************************************************)
EXTENDS Integers, Sequences, FiniteSets

CONSTANTS
    Workers,        \* the threads m_threads describes
    Callers,        \* threads that call append()
    Requests,       \* non-null T* a caller passes
    Null,           \* the null T*
    NoThread,       \* "m_queuelocker is free"
    MaxRequests,    \* m_max_requests
    MaxInterrupts   \* bound: how many sem_wait() calls may fail

ASSUME PoolAssumption ==
    /\ IsFiniteSet(Workers) /\ IsFiniteSet(Callers)
    /\ Workers \intersect Callers = {}
    /\ NoThread \notin Workers \union Callers
    /\ Null \notin Requests
    /\ MaxRequests \in Nat \ {0}
    /\ MaxInterrupts \in Nat

VARIABLES
    life,           \* "constructing", "live", "failed" or "deleted"
    m_workqueue,
    m_queuelocker,  \* the thread that holds it, or NoThread
    m_queuestat,    \* value of the semaphore
    m_stop,
    wpc,            \* where each worker is in run()
    wreq,           \* run()'s local request, Null outside its scope
    apc,            \* where each caller is in append()
    areq,           \* append()'s argument, Null outside a call
    interrupts      \* failed sem_wait() calls so far

poolVars == <<m_workqueue, m_queuelocker, m_queuestat>>
workerVars == <<wpc, wreq>>
callerVars == <<apc, areq>>
vars == <<life, m_workqueue, m_queuelocker, m_queuestat, m_stop,
          wpc, wreq, apc, areq, interrupts>>

Tasks == Requests \union {Null}
Threads == Workers \union Callers

WorkerPC == {"none", "check", "wait", "lock", "front", "pop", "process",
             "exited"}
CallerPC == {"idle", "lock", "test", "push", "post"}

Init ==
    /\ life = "constructing"
    /\ m_workqueue = <<>>
    /\ m_queuelocker = NoThread
    /\ m_queuestat = 0
    /\ m_stop = FALSE
    /\ wpc = [w \in Workers |-> "none"]
    /\ wreq = [w \in Workers |-> Null]
    /\ apc = [a \in Callers |-> "idle"]
    /\ areq = [a \in Callers |-> Null]
    /\ interrupts = 0

\* The object exists: main() leaves the process as soon as the constructor
\* throws, so nothing runs after a failed construction.
Exists == life # "failed"

-----------------------------------------------------------------------------
(***************************************************************************)
(* Constructor and destructor                                              *)
(***************************************************************************)

\* pthread_create and pthread_detach succeed; the worker starts at once,
\* before the remaining ones exist.
CreateWorker(w) ==
    /\ life = "constructing"
    /\ wpc[w] = "none"
    /\ wpc' = [wpc EXCEPT ![w] = "check"]
    /\ life' = IF \A v \in Workers \ {w} : wpc[v] # "none"
               THEN "live" ELSE "constructing"
    /\ UNCHANGED <<poolVars, m_stop, wreq, callerVars, interrupts>>

\* pthread_create or pthread_detach fails: the constructor throws.
CreateFails ==
    /\ life = "constructing"
    /\ life' = "failed"
    /\ UNCHANGED <<poolVars, m_stop, workerVars, callerVars, interrupts>>

\* The owner deletes the pool.  It may not do so while somebody is inside
\* append() or holds the mutex that is about to be destroyed.  The detached
\* workers are not joined; the memory of the pool is taken to keep its last
\* contents for them, the outcome in which they can still see m_stop.
Delete ==
    /\ life = "live"
    /\ \A a \in Callers : apc[a] = "idle"
    /\ m_queuelocker = NoThread
    /\ life' = "deleted"
    /\ m_stop' = TRUE
    /\ m_workqueue' = <<>>
    /\ UNCHANGED <<m_queuelocker, m_queuestat, workerVars, callerVars,
                   interrupts>>

-----------------------------------------------------------------------------
(***************************************************************************)
(* append()                                                                *)
(***************************************************************************)

AppendCall(a, r) ==
    /\ life = "live"
    /\ apc[a] = "idle"
    /\ apc' = [apc EXCEPT ![a] = "lock"]
    /\ areq' = [areq EXCEPT ![a] = r]
    /\ UNCHANGED <<life, poolVars, m_stop, workerVars, interrupts>>

AppendLock(a) ==
    /\ apc[a] = "lock"
    /\ m_queuelocker = NoThread
    /\ m_queuelocker' = a
    /\ apc' = [apc EXCEPT ![a] = "test"]
    /\ UNCHANGED <<life, m_workqueue, m_queuestat, m_stop, workerVars, areq,
                   interrupts>>

\* Fault: the size test is off by one more.
TooLong_Later == Len(m_workqueue) > MaxRequests + 1

\* The size test as the code writes it: it refuses only when the queue is
\* already longer than m_max_requests.
TooLong == Len(m_workqueue) > MaxRequests

\* Fault: the early return forgets to unlock.
AppendRefuse_KeepsMutex(a) ==
    /\ apc[a] = "test"
    /\ TooLong
    /\ apc' = [apc EXCEPT ![a] = "idle"]
    /\ areq' = [areq EXCEPT ![a] = Null]
    /\ UNCHANGED <<life, poolVars, m_stop, workerVars, interrupts>>

AppendRefuse(a) ==
    /\ apc[a] = "test"
    /\ TooLong
    /\ m_queuelocker' = NoThread
    /\ apc' = [apc EXCEPT ![a] = "idle"]
    /\ areq' = [areq EXCEPT ![a] = Null]
    /\ UNCHANGED <<life, m_workqueue, m_queuestat, m_stop, workerVars,
                   interrupts>>

AppendAdmit(a) ==
    /\ apc[a] = "test"
    /\ ~TooLong
    /\ apc' = [apc EXCEPT ![a] = "push"]
    /\ UNCHANGED <<life, poolVars, m_stop, workerVars, areq, interrupts>>

\* Fault: push_front() instead of push_back().
AppendPush_Front(a) ==
    /\ apc[a] = "push"
    /\ m_workqueue' = <<areq[a]>> \o m_workqueue
    /\ m_queuelocker' = NoThread
    /\ apc' = [apc EXCEPT ![a] = "post"]
    /\ UNCHANGED <<life, m_queuestat, m_stop, workerVars, areq, interrupts>>

AppendPush(a) ==
    /\ apc[a] = "push"
    /\ m_workqueue' = Append(m_workqueue, areq[a])
    /\ m_queuelocker' = NoThread
    /\ apc' = [apc EXCEPT ![a] = "post"]
    /\ UNCHANGED <<life, m_queuestat, m_stop, workerVars, areq, interrupts>>

\* Fault: the semaphore is posted only when it is zero.
AppendPost_WhenZero(a) ==
    /\ apc[a] = "post"
    /\ m_queuestat' = IF m_queuestat = 0 THEN 1 ELSE m_queuestat
    /\ apc' = [apc EXCEPT ![a] = "idle"]
    /\ areq' = [areq EXCEPT ![a] = Null]
    /\ UNCHANGED <<life, m_workqueue, m_queuelocker, m_stop, workerVars,
                   interrupts>>

\* The semaphore is posted after the lock has been given back.
AppendPost(a) ==
    /\ apc[a] = "post"
    /\ m_queuestat' = m_queuestat + 1
    /\ apc' = [apc EXCEPT ![a] = "idle"]
    /\ areq' = [areq EXCEPT ![a] = Null]
    /\ UNCHANGED <<life, m_workqueue, m_queuelocker, m_stop, workerVars,
                   interrupts>>

-----------------------------------------------------------------------------
(***************************************************************************)
(* run()                                                                   *)
(***************************************************************************)

LoopTest(w) ==
    /\ Exists
    /\ wpc[w] = "check"
    /\ wpc' = [wpc EXCEPT ![w] = IF m_stop THEN "exited" ELSE "wait"]
    /\ UNCHANGED <<life, poolVars, m_stop, wreq, callerVars, interrupts>>

\* Fault: the count is taken without waiting for it.
SemWait_NoBlock(w) ==
    /\ Exists
    /\ wpc[w] = "wait"
    /\ m_queuestat' = m_queuestat - 1
    /\ wpc' = [wpc EXCEPT ![w] = "lock"]
    /\ UNCHANGED <<life, m_workqueue, m_queuelocker, m_stop, wreq,
                   callerVars, interrupts>>

SemWait(w) ==
    /\ Exists
    /\ wpc[w] = "wait"
    /\ m_queuestat > 0
    /\ m_queuestat' = m_queuestat - 1
    /\ wpc' = [wpc EXCEPT ![w] = "lock"]
    /\ UNCHANGED <<life, m_workqueue, m_queuelocker, m_stop, wreq,
                   callerVars, interrupts>>

\* sem::wait() reports a failed sem_wait() by returning false; run() does not
\* look at the result and goes on without having taken a count.
SemWaitFails(w) ==
    /\ Exists
    /\ wpc[w] = "wait"
    /\ interrupts < MaxInterrupts
    /\ interrupts' = interrupts + 1
    /\ wpc' = [wpc EXCEPT ![w] = "lock"]
    /\ UNCHANGED <<life, poolVars, m_stop, wreq, callerVars>>

WorkerLock(w) ==
    /\ Exists
    /\ wpc[w] = "lock"
    /\ m_queuelocker = NoThread
    /\ m_queuelocker' = w
    /\ wpc' = [wpc EXCEPT ![w] = "front"]
    /\ UNCHANGED <<life, m_workqueue, m_queuestat, m_stop, wreq, callerVars,
                   interrupts>>

\* Nothing queued: unlock and go round again.
FindEmpty(w) ==
    /\ Exists
    /\ wpc[w] = "front"
    /\ m_workqueue = <<>>
    /\ m_queuelocker' = NoThread
    /\ wpc' = [wpc EXCEPT ![w] = "check"]
    /\ UNCHANGED <<life, m_workqueue, m_queuestat, m_stop, wreq, callerVars,
                   interrupts>>

ReadFront(w) ==
    /\ Exists
    /\ wpc[w] = "front"
    /\ m_workqueue # <<>>
    /\ wreq' = [wreq EXCEPT ![w] = Head(m_workqueue)]
    /\ wpc' = [wpc EXCEPT ![w] = "pop"]
    /\ UNCHANGED <<life, poolVars, m_stop, callerVars, interrupts>>

\* pop_front(), unlock(), and a null request is skipped.
PopFront(w) ==
    /\ Exists
    /\ wpc[w] = "pop"
    /\ m_workqueue' = Tail(m_workqueue)
    /\ m_queuelocker' = NoThread
    /\ wpc' = [wpc EXCEPT ![w] = IF wreq[w] = Null THEN "check"
                                                   ELSE "process"]
    /\ UNCHANGED <<life, m_queuestat, m_stop, wreq, callerVars, interrupts>>

\* request->process() returns.
ProcessReturns(w) ==
    /\ Exists
    /\ wpc[w] = "process"
    /\ wpc' = [wpc EXCEPT ![w] = "check"]
    /\ wreq' = [wreq EXCEPT ![w] = Null]
    /\ UNCHANGED <<life, poolVars, m_stop, callerVars, interrupts>>

-----------------------------------------------------------------------------
WorkerStep(w) ==
    \/ LoopTest(w) \/ SemWait(w) \/ WorkerLock(w) \/ FindEmpty(w)
    \/ ReadFront(w) \/ PopFront(w)

CallerStep(a) ==
    \/ AppendLock(a) \/ AppendRefuse(a) \/ AppendAdmit(a) \/ AppendPush(a)
    \/ AppendPost(a)

Next ==
    \/ \E w \in Workers : CreateWorker(w)
    \/ CreateFails
    \/ Delete
    \/ \E a \in Callers, r \in Tasks : AppendCall(a, r)
    \/ \E a \in Callers : CallerStep(a)
    \/ \E w \in Workers : WorkerStep(w) \/ SemWaitFails(w) \/ ProcessReturns(w)

Spec == Init /\ [][Next]_vars

(***************************************************************************)
(* A runnable thread runs, and a thread that keeps asking for the mutex    *)
(* gets it.  Nothing is assumed of callers that are not inside append(),   *)
(* of process(), or of the constructor.                                    *)
(***************************************************************************)
Fairness ==
    /\ \A w \in Workers : WF_vars(WorkerStep(w)) /\ SF_vars(WorkerLock(w))
    /\ \A a \in Callers : WF_vars(CallerStep(a)) /\ SF_vars(AppendLock(a))

FairSpec == Spec /\ Fairness

-----------------------------------------------------------------------------
(***************************************************************************)
(* Properties                                                              *)
(***************************************************************************)

TypeOK ==
    /\ life \in {"constructing", "live", "failed", "deleted"}
    /\ m_workqueue \in Seq(Tasks)
    /\ m_queuelocker \in Threads \union {NoThread}
    /\ m_queuestat \in Nat
    /\ m_stop \in BOOLEAN
    /\ wpc \in [Workers -> WorkerPC]
    /\ wreq \in [Workers -> Tasks]
    /\ apc \in [Callers -> CallerPC]
    /\ areq \in [Callers -> Tasks]
    /\ interrupts \in Nat

\* Workers that came out of m_queuestat.wait() and have not yet looked at the
\* queue's front for good, and callers between unlock() and post().
Holding == {w \in Workers : wpc[w] \in {"lock", "front", "pop"}}
Posting == {a \in Callers : apc[a] = "post"}

(***************************************************************************)
(* No request is stranded: every queued request is matched by a semaphore  *)
(* count, by a worker already on its way to the queue, or by a caller that *)
(* has yet to post.  append() posts outside the mutex and run() ignores a  *)
(* failed wait(), so the count alone lags behind and runs ahead of the     *)
(* queue; a request without a match would sleep there until the next       *)
(* append().                                                               *)
(***************************************************************************)
NoStrandedRequest ==
    Len(m_workqueue) <=
        m_queuestat + Cardinality(Holding) + Cardinality(Posting)

(***************************************************************************)
(* The queue never holds more than one request above m_max_requests,       *)
(* however many callers race in append(): the size test and the push_back  *)
(* are one critical section. (The comment on m_max_requests calls it "the  *)
(* largest number of requests allowed"; append() tests size() >            *)
(* m_max_requests and lets one more in.)                                   *)
(***************************************************************************)
QueueBound == Len(m_workqueue) <= MaxRequests + 1

\* The TaskPool that the pool stands for.
Promise ==
    INSTANCE TaskPool WITH
        Capacity <- MaxRequests + 1,
        stopped  <- m_stop,
        pending  <- m_workqueue,
        serving  <- [w \in Workers |->
                        IF wpc[w] = "process" THEN wreq[w] ELSE Null]

(***************************************************************************)
(* The pool implements TaskPool: until the destructor drops the queue      *)
(* (threadpool.h:69-74), a request leaves it only by being taken, in the   *)
(* order of the append()s and by exactly one worker.                       *)
(***************************************************************************)
ImplementsTaskPool == Promise!Spec

Queued(r) == \E i \in 1..Len(m_workqueue) : m_workqueue[i] = r

(***************************************************************************)
(* Every request in the queue reaches a worker, as long as process() keeps *)
(* returning and the pool is not deleted.  A worker inside process() takes *)
(* nothing, so without the first condition the pool may starve.            *)
(***************************************************************************)
QueuedIsServed ==
    (\A w \in Workers : []<>(wpc[w] # "process")) =>
        \A r \in Requests :
            Queued(r) ~> (m_stop \/ \E w \in Workers : wreq[w] = r)
=============================================================================

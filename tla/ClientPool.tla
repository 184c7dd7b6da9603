----------------------------- MODULE ClientPool -----------------------------
(***************************************************************************)
(* The thread pool of src/src/client/threadpool.hpp, where workers sleep   *)
(* on the condition variable cv_task.  (No other file includes it: the     *)
(* client starts a thread per block instead.)                              *)
(*                                                                         *)
(* A wait with a predicate is modelled as the loop it stands for: the      *)
(* predicate is evaluated with m_lock held, and a worker that finds it     *)
(* false gives up the lock and falls asleep in one step.  A worker may     *)
(* wake up for no reason.  A task may itself commit a task.                *)
(***************************************************************************)
EXTENDS Integers, Sequences, FiniteSets

CONSTANTS
    Workers,    \* the threads of pool
    Callers,    \* other threads that call commit()
    Tasks,      \* each is in the pool at most once at a time
    NoTask,
    NoThread    \* "m_lock is free"

ASSUME ClientPoolAssumption ==
    /\ Workers # {} /\ IsFiniteSet(Workers) /\ IsFiniteSet(Callers)
    /\ Workers \intersect Callers = {}
    /\ NoThread \notin Workers \union Callers
    /\ NoTask \notin Tasks

VARIABLES
    tasks, m_lock, stoped, idlThrNum,
    wpc,        \* where each worker is
    task,       \* the task it has taken
    cpc,        \* where each thread is in commit()
    arg,        \* its argument
    dpc         \* where the owner is in the destructor

workerVars == <<wpc, task>>
commitVars == <<cpc, arg>>
vars == <<tasks, m_lock, stoped, idlThrNum, wpc, task, cpc, arg, dpc>>

Threads == Workers \union Callers

\* The constructor has started every worker.
Init ==
    /\ tasks = <<>> /\ m_lock = NoThread
    /\ stoped = FALSE
    /\ idlThrNum = Cardinality(Workers)
    /\ wpc = [w \in Workers |-> "check"]
    /\ task = [w \in Workers |-> NoTask]
    /\ cpc = [c \in Threads |-> "idle"]
    /\ arg = [c \in Threads |-> NoTask]
    /\ dpc = "none"

-----------------------------------------------------------------------------
(***************************************************************************)
(* A worker                                                                *)
(***************************************************************************)

Check(w) ==
    /\ wpc[w] = "check"
    /\ wpc' = [wpc EXCEPT ![w] = IF stoped THEN "exited" ELSE "lock"]
    /\ UNCHANGED <<tasks, m_lock, stoped, idlThrNum, task, commitVars, dpc>>

\* m_lock is taken, at first and after waking up.
Lock(w) ==
    /\ wpc[w] = "lock"
    /\ m_lock = NoThread
    /\ m_lock' = w
    /\ wpc' = [wpc EXCEPT ![w] = "pred"]
    /\ UNCHANGED <<tasks, stoped, idlThrNum, task, commitVars, dpc>>

\* Fault: the predicate does not look at the queue.
Predicate_NoQueue == stoped

Predicate == stoped \/ tasks # <<>>

Pred(w) ==
    /\ wpc[w] = "pred"
    /\ wpc' = [wpc EXCEPT ![w] = IF Predicate THEN "take" ELSE "sleep"]
    /\ UNCHANGED <<tasks, m_lock, stoped, idlThrNum, task, commitVars, dpc>>

Sleep(w) ==
    /\ wpc[w] = "sleep"
    /\ m_lock' = NoThread
    /\ wpc' = [wpc EXCEPT ![w] = "asleep"]
    /\ UNCHANGED <<tasks, stoped, idlThrNum, task, commitVars, dpc>>

WakeUp(w) ==
    /\ wpc[w] = "asleep"
    /\ wpc' = [wpc EXCEPT ![w] = "lock"]
    /\ UNCHANGED <<tasks, m_lock, stoped, idlThrNum, task, commitVars, dpc>>

\* The queue is empty and the pool stopped: the thread returns.
Leave(w) ==
    /\ wpc[w] = "take"
    /\ stoped /\ tasks = <<>>
    /\ m_lock' = NoThread
    /\ wpc' = [wpc EXCEPT ![w] = "exited"]
    /\ UNCHANGED <<tasks, stoped, idlThrNum, task, commitVars, dpc>>

\* Fault: the lock is given back before the task is removed.
Take_Unlocked(w) ==
    /\ wpc[w] = "take"
    /\ tasks # <<>>
    /\ task' = [task EXCEPT ![w] = Head(tasks)]
    /\ m_lock' = NoThread
    /\ wpc' = [wpc EXCEPT ![w] = "run"]
    /\ idlThrNum' = idlThrNum - 1
    /\ UNCHANGED <<tasks, stoped, commitVars, dpc>>

Take(w) ==
    /\ wpc[w] = "take"
    /\ tasks # <<>>
    /\ task' = [task EXCEPT ![w] = Head(tasks)]
    /\ tasks' = Tail(tasks)
    /\ m_lock' = NoThread
    /\ wpc' = [wpc EXCEPT ![w] = "start"]
    /\ UNCHANGED <<stoped, idlThrNum, commitVars, dpc>>

Start(w) ==
    /\ wpc[w] = "start"
    /\ idlThrNum' = idlThrNum - 1
    /\ wpc' = [wpc EXCEPT ![w] = "run"]
    /\ UNCHANGED <<tasks, m_lock, stoped, task, commitVars, dpc>>

\* Fault: the thread is not counted as idle again.
Finish_Busy(w) ==
    /\ wpc[w] = "run" /\ cpc[w] = "idle"
    /\ task' = [task EXCEPT ![w] = NoTask]
    /\ wpc' = [wpc EXCEPT ![w] = "check"]
    /\ UNCHANGED <<tasks, m_lock, stoped, idlThrNum, commitVars, dpc>>

\* task() returns: a packaged_task keeps its exceptions.
Finish(w) ==
    /\ wpc[w] = "run" /\ cpc[w] = "idle"
    /\ task' = [task EXCEPT ![w] = NoTask]
    /\ idlThrNum' = idlThrNum + 1
    /\ wpc' = [wpc EXCEPT ![w] = "check"]
    /\ UNCHANGED <<tasks, m_lock, stoped, commitVars, dpc>>

-----------------------------------------------------------------------------
(***************************************************************************)
(* commit()                                                                *)
(***************************************************************************)

InPool(t) ==
    \/ \E i \in 1 .. Len(tasks) : tasks[i] = t
    \/ \E w \in Workers : task[w] = t
    \/ \E c \in Threads : arg[c] = t

\* A thread of its own while the pool is in use, or a running task.  When
\* stoped is set, the call throws.
Commit(c, t) ==
    /\ cpc[c] = "idle" /\ ~InPool(t)
    /\ IF c \in Workers THEN wpc[c] = "run" ELSE dpc = "none"
    /\ ~stoped
    /\ cpc' = [cpc EXCEPT ![c] = "lock"]
    /\ arg' = [arg EXCEPT ![c] = t]
    /\ UNCHANGED <<tasks, m_lock, stoped, idlThrNum, workerVars, dpc>>

\* tasks.emplace() between lock and unlock.
Push(c) ==
    /\ cpc[c] = "lock"
    /\ m_lock = NoThread
    /\ tasks' = Append(tasks, arg[c])
    /\ arg' = [arg EXCEPT ![c] = NoTask]
    /\ cpc' = [cpc EXCEPT ![c] = "notify"]
    /\ UNCHANGED <<m_lock, stoped, idlThrNum, workerVars, dpc>>

Asleep == {w \in Workers : wpc[w] = "asleep"}

\* Fault: only the first task in the queue wakes a worker.
NotifyOne_First(c) ==
    /\ cpc[c] = "notify"
    /\ cpc' = [cpc EXCEPT ![c] = "idle"]
    /\ IF Asleep = {} \/ Len(tasks) # 1
       THEN UNCHANGED wpc
       ELSE \E w \in Asleep : wpc' = [wpc EXCEPT ![w] = "lock"]
    /\ UNCHANGED <<tasks, m_lock, stoped, idlThrNum, task, arg, dpc>>

NotifyOne(c) ==
    /\ cpc[c] = "notify"
    /\ cpc' = [cpc EXCEPT ![c] = "idle"]
    /\ IF Asleep = {}
       THEN UNCHANGED wpc
       ELSE \E w \in Asleep : wpc' = [wpc EXCEPT ![w] = "lock"]
    /\ UNCHANGED <<tasks, m_lock, stoped, idlThrNum, task, arg, dpc>>

-----------------------------------------------------------------------------
(***************************************************************************)
(* The destructor                                                          *)
(***************************************************************************)

\* No thread of its own is inside commit().  m_lock is not taken.
Stop ==
    /\ dpc = "none"
    /\ \A c \in Callers : cpc[c] = "idle"
    /\ stoped' = TRUE
    /\ dpc' = "notify"
    /\ UNCHANGED <<tasks, m_lock, idlThrNum, workerVars, commitVars>>

\* Fault: one worker is woken.
NotifyAll_One ==
    /\ dpc = "notify"
    /\ IF Asleep = {}
       THEN UNCHANGED wpc
       ELSE \E w \in Asleep : wpc' = [wpc EXCEPT ![w] = "lock"]
    /\ dpc' = "join"
    /\ UNCHANGED <<tasks, m_lock, stoped, idlThrNum, task, commitVars>>

NotifyAll ==
    /\ dpc = "notify"
    /\ wpc' = [w \in Workers |-> IF w \in Asleep THEN "lock" ELSE wpc[w]]
    /\ dpc' = "join"
    /\ UNCHANGED <<tasks, m_lock, stoped, idlThrNum, task, commitVars>>

\* Every thread has been joined; the members are destroyed.
Join ==
    /\ dpc = "join"
    /\ \A w \in Workers : wpc[w] = "exited"
    /\ tasks' = <<>>
    /\ dpc' = "done"
    /\ UNCHANGED <<m_lock, stoped, idlThrNum, workerVars, commitVars>>

WorkerStep(w) ==
    \/ Check(w) \/ Lock(w) \/ Pred(w) \/ Sleep(w) \/ Leave(w) \/ Take(w)
    \/ Start(w) \/ Finish(w)
CommitStep(c) == Push(c) \/ NotifyOne(c)
Destroy == NotifyAll \/ Join

Next ==
    \/ \E w \in Workers : WorkerStep(w) \/ WakeUp(w)
    \/ \E c \in Threads : CommitStep(c) \/ \E t \in Tasks : Commit(c, t)
    \/ Stop \/ Destroy

Spec == Init /\ [][Next]_vars

\* Threads run, tasks return (the destructor's comment presumes it) and m_lock
\* starves nobody.  Nobody need commit, stop the pool or wake up by himself.
FairSpec ==
    /\ Spec
    /\ \A w \in Workers : SF_vars(WorkerStep(w))
    /\ \A c \in Threads : SF_vars(CommitStep(c))
    /\ WF_vars(Destroy)

-----------------------------------------------------------------------------
(***************************************************************************)
(* Properties                                                              *)
(***************************************************************************)

Holders == {"pred", "sleep", "take"}

TypeOK ==
    /\ tasks \in Seq(Tasks)
    /\ m_lock \in Workers \union {NoThread}
    /\ \A w \in Workers : m_lock = w <=> wpc[w] \in Holders
    /\ stoped \in BOOLEAN
    /\ idlThrNum = Cardinality({w \in Workers : wpc[w] # "run"})
    /\ wpc \in [Workers -> Holders \union
                   {"check", "lock", "asleep", "start", "run", "exited"}]
    /\ task \in [Workers -> Tasks \union {NoTask}]
    /\ cpc \in [Threads -> {"idle", "lock", "notify"}]
    /\ arg \in [Threads -> Tasks \union {NoTask}]
    /\ dpc \in {"none", "notify", "join", "done"}

(***************************************************************************)
(* The pool is a FIFO: until the destructor destroys the queue after the   *)
(* joins, a task leaves it only by being taken, in the order of the        *)
(* commit()s and by exactly one worker.                                    *)
(***************************************************************************)
Pool == INSTANCE TaskPool
            WITH Null <- NoTask, Capacity <- Cardinality(Tasks),
                 pending <- tasks, serving <- task, stopped <- stoped
PoolSpec == Pool!Spec

(***************************************************************************)
(* While a worker sleeps, there are as many workers on their way to the    *)
(* queue, or callers about to wake one, as there are tasks: notify_one()   *)
(* after the unlock, and a wake-up that another worker's task consumed,    *)
(* leave no task without a taker.                                          *)
(***************************************************************************)
TaskHasTaker ==
    ~stoped /\ Asleep # {} =>
        Len(tasks) <=
            Cardinality({w \in Workers : wpc[w] \in {"lock", "pred", "take",
                                                     "check"}})
            + Cardinality({c \in Threads : cpc[c] = "notify"})

(***************************************************************************)
(* A committed task is run, unless the pool is stopped: then a worker that *)
(* finishes its task does not look at the queue again.                     *)
(***************************************************************************)
TaskTaken ==
    \A t \in Tasks :
        (\E c \in Threads : arg[c] = t)
            ~> (stoped \/ \E w \in Workers : task[w] = t)

(***************************************************************************)
(* The destructor returns, if no worker that had found the predicate false *)
(* was still to fall asleep when stoped was set.  Setting it and           *)
(* notify_all() do not take m_lock, and such a worker may miss both: then  *)
(* it is woken only by chance.                                             *)
(***************************************************************************)
JoinReturns ==
    (dpc = "notify" /\ \A w \in Workers : wpc[w] # "sleep") ~> (dpc = "done")
=============================================================================

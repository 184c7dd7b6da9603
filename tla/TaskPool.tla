------------------------------ MODULE TaskPool ------------------------------
(***************************************************************************)
(* What the server's thread pool promises, with the locks, the semaphore   *)
(* and the loops of its threads left out: a FIFO of submitted tasks, from  *)
(* which a free worker takes the oldest task and serves it until it is     *)
(* finished.  While the pool is not stopped, a task leaves the queue only  *)
(* as its head and only to one worker; a pool that is being destroyed may  *)
(* drop what nobody took.                                                  *)
(*                                                                         *)
(* ThreadPool and ClientPool refine this module; Server uses its actions   *)
(* as the pool the event loop hands connections to.                        *)
(***************************************************************************)
EXTENDS Integers, Sequences

CONSTANTS
    Workers,    \* threads of the pool
    Tasks,      \* tasks a caller may submit
    Null,       \* the null task: accepted, but never served
    Capacity    \* length the queue never exceeds

VARIABLES
    pending,    \* submitted tasks, oldest first
    serving,    \* the task each worker serves, Null when it serves none
    stopped     \* the destructor has told the workers to stop

vars == <<pending, serving, stopped>>

Init ==
    /\ pending = <<>>
    /\ serving = [w \in Workers |-> Null]
    /\ stopped = FALSE

\* A task is accepted as long as the queue has room.
Submit(t) ==
    /\ Len(pending) < Capacity
    /\ pending' = Append(pending, t)
    /\ stopped' = stopped
    /\ UNCHANGED serving

\* A free worker takes the oldest task; the null task leaves it free.
Take(w) ==
    /\ serving[w] = Null
    /\ pending # <<>>
    /\ pending' = Tail(pending)
    /\ serving' = [serving EXCEPT ![w] = Head(pending)]
    /\ stopped' = stopped

Finish(w) ==
    /\ serving[w] # Null
    /\ serving' = [serving EXCEPT ![w] = Null]
    /\ stopped' = stopped
    /\ UNCHANGED pending

\* The destructor stops the pool.
Stop ==
    /\ stopped' = TRUE
    /\ UNCHANGED <<pending, serving>>

\* The destructor frees the queue of the pool it has stopped, or stops in this
\* very step: tasks nobody took are dropped.
Discard ==
    /\ stopped' = TRUE
    /\ pending' = <<>>
    /\ UNCHANGED serving

Next ==
    \/ \E t \in Tasks \union {Null} : Submit(t)
    \/ \E w \in Workers : Take(w) \/ Finish(w)
    \/ Stop \/ Discard

Spec == Init /\ [][Next]_vars
=============================================================================

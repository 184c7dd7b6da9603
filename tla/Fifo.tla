-------------------------------- MODULE Fifo --------------------------------
(***************************************************************************)
(* What the log's blocking queue promises: a bounded first-in first-out    *)
(* queue whose oldest item is handed to one thread at a time.  BlockQueue, *)
(* a circular buffer with a mutex and a condition variable, refines it.    *)
(***************************************************************************)
EXTENDS Integers, Sequences

CONSTANTS
    Threads,    \* threads that use the queue
    Items,      \* what they put into it
    NoItem,     \* "this thread has been handed nothing"
    MaxSize     \* items the queue holds at most

VARIABLES
    queue,      \* the items, oldest first
    got         \* the item each thread has been handed and not yet used

vars == <<queue, got>>

Init ==
    /\ queue = <<>>
    /\ got = [t \in Threads |-> NoItem]

Put(x) ==
    /\ Len(queue) < MaxSize
    /\ queue' = Append(queue, x)
    /\ UNCHANGED got

Take(t) ==
    /\ queue # <<>>
    /\ got[t] = NoItem
    /\ got' = [got EXCEPT ![t] = Head(queue)]
    /\ queue' = Tail(queue)

Use(t) ==
    /\ got[t] # NoItem
    /\ got' = [got EXCEPT ![t] = NoItem]
    /\ UNCHANGED queue

Clear ==
    /\ queue' = <<>>
    /\ UNCHANGED got

Next ==
    \/ \E x \in Items : Put(x)
    \/ \E t \in Threads : Take(t) \/ Use(t)
    \/ Clear

Spec == Init /\ [][Next]_vars
=============================================================================

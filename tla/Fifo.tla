-------------------------------- MODULE Fifo --------------------------------
(***************************************************************************)
(* What util/queue.h promises: independent first-in first-out queues.      *)
(***************************************************************************)
EXTENDS Sequences

CONSTANTS Queues, Items, Null

VARIABLES
    contents,   \* what each queue holds
    popped      \* what queue_pop has returned last

FifoInit ==
    /\ contents = [q \in Queues |-> <<>>]
    /\ popped = Null

Push(q, item) ==
    /\ contents' = [contents EXCEPT ![q] = Append(@, item)]
    /\ UNCHANGED popped

Pop(q) ==
    /\ contents[q] # <<>>
    /\ popped' = Head(contents[q])
    /\ contents' = [contents EXCEPT ![q] = Tail(@)]

FifoNext == \E q \in Queues : Pop(q) \/ \E item \in Items : Push(q, item)

FifoSpec == FifoInit /\ [][FifoNext]_<<contents, popped>>
=============================================================================

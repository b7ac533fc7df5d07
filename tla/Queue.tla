------------------------------- MODULE Queue -------------------------------
(***************************************************************************)
(* The queues of util/queue.c: nodes of util/list.c, linked from the head  *)
(* to the tail, that queue_push takes from malloc and queue_pop gives      *)
(* back.  The queues share the heap that the nodes come from.              *)
(***************************************************************************)
EXTENDS Integers

CONSTANTS
    Queues,     \* the owners of the queues
    Nodes,      \* bound: the nodes malloc has
    Items,      \* what is queued
    Null        \* NULL

ASSUME QueueAssumption == Null \notin Nodes

VARIABLES
    queue,      \* head, tail and size of each queue_t
    live,       \* the nodes in use
    data, next  \* the fields of the nodes, in use or not

queueVars == <<queue, live, data, next>>

Empty == [head |-> Null, tail |-> Null, size |-> 0]
Absent == [head |-> Null, tail |-> Null, size |-> -1]   \* no queue_t

QueueTypeOK ==
    /\ queue \in [Queues -> [head : Nodes \cup {Null}, tail : Nodes \cup {Null},
                             size : Int]]
    /\ live \subseteq Nodes
    /\ data \in [Nodes -> Items \cup {Null}]
    /\ next \in [Nodes -> Nodes \cup {Null}]

QueuesInit ==
    /\ queue = [q \in Queues |-> Absent]
    /\ live = {}
    /\ data = [n \in Nodes |-> Null] /\ next = [n \in Nodes |-> Null]

QueueInit(q) ==
    /\ queue' = [queue EXCEPT ![q] = Empty]
    /\ UNCHANGED <<live, data, next>>

(* Faulty variant of QueuePush: the old tail is not linked to the node.     *)
QueuePushUnlinked(q, item) ==
    \E n \in Nodes \ live :
        /\ live' = live \cup {n}
        /\ data' = [data EXCEPT ![n] = item] /\ next' = [next EXCEPT ![n] = Null]
        /\ queue' = [queue EXCEPT
            ![q] = [head |-> IF queue[q].tail = Null THEN n ELSE @.head,
                    tail |-> n, size |-> @.size + 1]]

(* queue_push with node_init, node_set_data and node_set_next.              *)
QueuePush(q, item) ==
    \E n \in Nodes \ live :
        LET tail == queue[q].tail IN
        /\ live' = live \cup {n}
        /\ data' = [data EXCEPT ![n] = item]
        /\ next' = [m \in Nodes |-> IF m = n THEN Null
                                    ELSE IF m = tail THEN n ELSE next[m]]
        /\ queue' = [queue EXCEPT
            ![q] = [head |-> IF tail = Null THEN n ELSE @.head,
                    tail |-> n, size |-> @.size + 1]]

(* free: what the node holds from now on is not defined, and Null here.     *)
NodeFree(n) ==
    /\ live' = live \ {n}
    /\ data' = [data EXCEPT ![n] = Null] /\ next' = [next EXCEPT ![n] = Null]

(* queue_pop of a queue with a node, and node_destroy; of an empty one it   *)
(* changes nothing.                                                         *)
QueuePop(q) ==
    LET n == queue[q].head IN
    /\ queue[q].size > 0
    /\ queue' = [queue EXCEPT
        ![q] = [head |-> next[n],
                tail |-> IF n = @.tail THEN Null ELSE @.tail,
                size |-> @.size - 1]]
    /\ NodeFree(n)

(* queue_destroy, which frees an empty queue only.                          *)
QueueDestroy(q) ==
    /\ queue' = [queue EXCEPT ![q] = IF @.size = 0 THEN Absent ELSE @]
    /\ UNCHANGED <<live, data, next>>

(* The nodes of a queue, by following the links as often as its size says,  *)
(* where queue_for_each goes on to NULL.                                    *)
NodesOf(q) ==
    LET at[i \in 1 .. queue[q].size] ==
            IF i = 1 THEN queue[q].head
            ELSE IF at[i - 1] = Null THEN Null ELSE next[at[i - 1]]
    IN at

NodeSet(q) == {NodesOf(q)[i] : i \in 1 .. queue[q].size}

(* A queue is a chain of its own live nodes that ends at the tail with      *)
(* NULL; no node is lost, none is in two queues and none freed is linked.   *)
QueueInv ==
    /\ \A q \in Queues :
        LET at == NodesOf(q)
            n == queue[q].size
        IN IF n <= 0 THEN queue[q] \in {Empty, Absent}
           ELSE /\ \A i \in 1 .. n : at[i] # Null
                /\ at[n] = queue[q].tail /\ next[at[n]] = Null
                /\ \A i, j \in 1 .. n : at[i] = at[j] => i = j
    /\ live = UNION {NodeSet(q) : q \in Queues}
    /\ \A q, r \in Queues : q # r => NodeSet(q) \cap NodeSet(r) = {}

(* What is queued, in order.                                                *)
ItemsIn(q) ==
    LET at == NodesOf(q)
    IN IF queue[q].size <= 0 THEN <<>>
       ELSE [i \in 1 .. queue[q].size |-> IF at[i] = Null THEN Null ELSE data[at[i]]]
=============================================================================

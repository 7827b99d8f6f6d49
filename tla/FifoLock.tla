------------------------------ MODULE FifoLock ------------------------------
(***************************************************************************)
(* What a mutex promises its callers: one owner at a time, and ownership   *)
(* in the order of the requests.  The head of the queue is the owner.      *)
(***************************************************************************)
EXTENDS Naturals, Sequences

CONSTANT Clients

VARIABLE queue

Waiting == {queue[i] : i \in 1..Len(queue)}

Init == queue = <<>>

Request(c) == c \notin Waiting /\ queue' = Append(queue, c)

Leave(c) == queue # <<>> /\ Head(queue) = c /\ queue' = Tail(queue)

Next == \E c \in Clients : Request(c) \/ Leave(c)

Spec == Init /\ [][Next]_queue
=============================================================================

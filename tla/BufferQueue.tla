------------------------------ MODULE BufferQueue ------------------------------
(***************************************************************************)
(* buffer_head of net/buffer.cpp, each operation under its spin lock.      *)
(* push_back leaves b->next as it is and pop_front does not clear it, so a *)
(* buffer goes to the back only once, as the socket server does; to the    *)
(* front it may return.                                                    *)
(***************************************************************************)
EXTENDS Naturals, Sequences

CONSTANTS Buffers, NULL

VARIABLES
    head, tail, bnext,  \* bnext[b] is b->next
    fresh, popped,      \* buffers not queued yet, and not any more
    queue               \* ghost: the buffers that are in the queue

queue_vars == <<head, tail, bnext, fresh, popped, queue>>

Init ==
    /\ head = NULL /\ tail = NULL
    /\ bnext = [b \in Buffers |-> NULL]
    /\ fresh = Buffers /\ popped = {} /\ queue = <<>>

push_front(b) ==
    /\ b \in fresh \cup popped
    /\ bnext' = [bnext EXCEPT ![b] = head]
    /\ head' = b
    /\ tail' = IF head = NULL THEN b ELSE tail
    /\ fresh' = fresh \ {b} /\ popped' = popped \ {b} /\ queue' = <<b>> \o queue

push_back(b) ==
    /\ b \in fresh
    /\ bnext' = IF head = NULL THEN bnext ELSE [bnext EXCEPT ![tail] = b]
    /\ head' = IF head = NULL THEN b ELSE head
    /\ tail' = b
    /\ fresh' = fresh \ {b} /\ queue' = Append(queue, b)
    /\ UNCHANGED popped

(* Bug: `tail` stays when the last buffer goes. *)
Bug_pop_front ==
    /\ head' = IF head = NULL THEN NULL ELSE bnext[head]
    /\ popped' = IF head = NULL THEN popped ELSE popped \cup {head}
    /\ queue' = IF queue = <<>> THEN queue ELSE Tail(queue)
    /\ UNCHANGED <<tail, bnext, fresh>>

pop_front ==
    /\ head' = IF head = NULL THEN NULL ELSE bnext[head]
    /\ tail' = IF head' = NULL THEN NULL ELSE tail
    /\ popped' = IF head = NULL THEN popped ELSE popped \cup {head}
    /\ queue' = IF queue = <<>> THEN queue ELSE Tail(queue)
    /\ UNCHANGED <<bnext, fresh>>

(* The buffers are deleted. *)
clean ==
    /\ head' = NULL /\ tail' = NULL
    /\ queue' = <<>>
    /\ UNCHANGED <<bnext, fresh, popped>>

Next == \/ \E b \in Buffers : push_front(b) \/ push_back(b)
        \/ pop_front \/ clean

Spec == Init /\ [][Next]_queue_vars

-------------------------------------------------------------------------------
(* The list from head to tail is the queue: nothing popped is still linked *)
(* in, and `tail`, where push_back links the next, is its last buffer.     *)
ListIsQueue ==
    IF queue = <<>> THEN head = NULL /\ tail = NULL
    ELSE /\ head = queue[1] /\ tail = queue[Len(queue)]
         /\ \A k \in DOMAIN queue :
                bnext[queue[k]] = IF k = Len(queue) THEN NULL ELSE queue[k + 1]
================================================================================

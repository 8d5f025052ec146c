-------------------------------- MODULE ErrMsg --------------------------------
(***************************************************************************)
(* errno_str and errno_append of net/errmsg.cpp on one bucket of the hash: *)
(* a list in the order of the error codes, searched without the lock       *)
(* first, and again with it before a node is added.  The node is linked    *)
(* before its own `next` is set, so that a reader without the lock may     *)
(* meet a list that ends there.  Node 0 is the head of the bucket.         *)
(***************************************************************************)
EXTENDS Integers, Sequences

CONSTANTS
    Threads,
    Errs,           \* codes of one bucket
    SysErrs,        \* those FormatMessage has a text for
    Defs,           \* texts of errno_append
    MaxCalls        \* bound

NoNode == -1
str == "none"       \* no text: the call is errno_str

VARIABLES
    node_next, node_err, node_msg,  \* the nodes, by number
    lock,           \* the thread that has it, or "none"
    th,             \* per thread: pc and the locals e, def, node, prev, newnode
    told,           \* ghost: <<error, text>> of every return
    made            \* bound: calls made

err_vars == <<node_next, node_err, node_msg, lock, th, told, made>>

Nodes == DOMAIN node_err
NoCall == [pc |-> "idle", e |-> 0, def |-> str, node |-> NoNode, prev |-> 0, newnode |-> 0]

Init ==
    /\ node_next = [n \in {0} |-> NoNode]
    /\ node_err = <<>> /\ node_msg = <<>>
    /\ lock = "none" /\ th = [t \in Threads |-> NoCall]
    /\ told = {} /\ made = 0

nodes == <<node_next, node_err, node_msg>>

errno_str_inner(t, e, def) ==
    /\ th[t].pc = "idle" /\ made < MaxCalls
    /\ made' = made + 1
    /\ th' = [th EXCEPT ![t] = [NoCall EXCEPT !.pc = "look", !.e = e, !.def = def,
                                              !.node = node_next[0]]]
    /\ UNCHANGED <<nodes, lock, told>>

Return(t, node) ==
    /\ told' = told \cup {<<th[t].e, node_msg[node]>>}
    /\ th' = [th EXCEPT ![t] = NoCall]

(* The search without the lock, a node at a time. *)
look(t) ==
    /\ th[t].pc = "look"
    /\ LET node == th[t].node IN
        CASE node # NoNode /\ node_err[node] < th[t].e ->
                th' = [th EXCEPT ![t].node = node_next[node], ![t].prev = node] /\ UNCHANGED told
          [] node # NoNode /\ node_err[node] = th[t].e -> Return(t, node)
          [] OTHER -> th' = [th EXCEPT ![t].pc = "lock"] /\ UNCHANGED told
    /\ UNCHANGED <<nodes, lock, made>>

LOCK(t) ==
    /\ th[t].pc = "lock" /\ lock = "none"
    /\ lock' = t
    /\ th' = [th EXCEPT ![t].pc = "search"]
    /\ UNCHANGED <<nodes, told, made>>

(* The list from node n on. *)
List(n) ==
    LET from[k \in 0 .. Len(node_err), m \in Nodes \cup {0, NoNode}] ==
            IF m = NoNode \/ k = 0 THEN <<>> ELSE <<m>> \o from[k - 1, node_next[m]]
    IN  from[Len(node_err), n]

(* Where the walk from the head stops: the node before the first whose     *)
(* code is not smaller.                                                    *)
Prev(e) ==
    LET l == <<0>> \o List(node_next[0]) IN
    l[CHOOSE k \in DOMAIN l : /\ \A j \in 2 .. k : node_err[l[j]] < e
                              /\ k < Len(l) => node_err[l[k + 1]] >= e]

(* sys_errmsg *)
sys_errmsg(e, def) == IF e \in SysErrs THEN "system" ELSE IF def = str THEN "unknown" ELSE def

Make(t, prev, node) ==
    /\ node_err' = Append(node_err, th[t].e)
    /\ node_msg' = Append(node_msg, sys_errmsg(th[t].e, th[t].def))
    /\ node_next' = [n \in DOMAIN node_next \cup {Len(node_err')} |->
                        IF n \in DOMAIN node_next THEN node_next[n] ELSE NoNode]
    /\ th' = [th EXCEPT ![t].pc = "link", ![t].prev = prev, ![t].node = node,
                        ![t].newnode = Len(node_err')]
    /\ UNCHANGED <<lock, told>>

(* Bug: the list is not searched again with the lock. *)
Bug_search(t) ==
    /\ th[t].pc = "search"
    /\ Make(t, th[t].prev, th[t].node)
    /\ UNCHANGED made

(* The search with the lock (done twice, with the same result), and a new  *)
(* node if the error is not there.                                         *)
search(t) ==
    /\ th[t].pc = "search"
    /\ LET prev == Prev(th[t].e)
           node == node_next[prev] IN
        IF node # NoNode /\ node_err[node] = th[t].e
        THEN lock' = "none" /\ Return(t, node) /\ UNCHANGED nodes
        ELSE Make(t, prev, node)
    /\ UNCHANGED made

link(t) ==
    /\ th[t].pc = "link"
    /\ node_next' = [node_next EXCEPT ![th[t].prev] = th[t].newnode]
    /\ th' = [th EXCEPT ![t].pc = "link2"]
    /\ UNCHANGED <<node_err, node_msg, lock, told, made>>

link2(t) ==
    /\ th[t].pc = "link2"
    /\ node_next' = [node_next EXCEPT ![th[t].newnode] = th[t].node]
    /\ lock' = "none"
    /\ Return(t, th[t].newnode)
    /\ UNCHANGED <<node_err, node_msg, made>>

Call(t) == \E e \in Errs, def \in Defs \cup {str} : errno_str_inner(t, e, def)

Next == \E t \in Threads :
            Call(t) \/ look(t) \/ LOCK(t) \/ search(t) \/ link(t) \/ link2(t)

-------------------------------------------------------------------------------
(* With the lock free, the bucket holds every node made, in the order of   *)
(* the codes and no code twice: nothing is lost or doubled by the readers  *)
(* that decided without the lock.                                          *)
BucketSorted ==
    lock = "none" =>
        LET l == List(node_next[0]) IN
        /\ Len(l) = Len(node_err)
        /\ \A j, k \in DOMAIN l : j < k => node_err[l[j]] < node_err[l[k]]

(* All callers are told the same text of an error, for ever: the first     *)
(* errno_append decides, also against an errno_str at the same time.       *)
OneTextPerError == \A a, b \in told : a[1] = b[1] => a[2] = b[2]
===============================================================================

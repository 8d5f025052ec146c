-------------------------- MODULE BufferQueueProofs --------------------------
(***************************************************************************)
(* Proof that the linked list of BufferQueue is its queue, for any set of  *)
(* buffers.  ListIsQueue is not inductive: push_back does not write        *)
(* b->next, and is right only because a buffer that was never queued has   *)
(* none; and a push must not touch the link of a buffer that is queued,    *)
(* so the queue holds no buffer twice and none that may still be pushed.   *)
(***************************************************************************)
EXTENDS BufferQueue, SequenceTheorems, TLAPS

Types ==
    /\ queue \in Seq(Buffers)
    /\ bnext \in [Buffers -> Buffers \cup {NULL}]
    /\ head \in Buffers \cup {NULL} /\ tail \in Buffers \cup {NULL}
    /\ fresh \subseteq Buffers /\ popped \subseteq Buffers

QueuedOnce ==
    /\ \A j, k \in 1 .. Len(queue) : queue[j] = queue[k] => j = k
    /\ \A k \in 1 .. Len(queue) : queue[k] \notin fresh \cup popped

FreshUnlinked == fresh \cap popped = {} /\ \A b \in fresh : bnext[b] = NULL

(* ListIsQueue with the domain of the queue spelt out. *)
Linked ==
    /\ queue = <<>> => head = NULL /\ tail = NULL
    /\ queue # <<>> =>
        /\ head = queue[1] /\ tail = queue[Len(queue)]
        /\ \A k \in 1 .. Len(queue) - 1 : bnext[queue[k]] = queue[k + 1]
        /\ bnext[queue[Len(queue)]] = NULL

IInv == Types /\ QueuedOnce /\ FreshUnlinked /\ Linked

-------------------------------------------------------------------------------
(* The list is empty when its head is NULL, as push_front and push_back    *)
(* take for granted.                                                       *)
LEMMA EmptyByHead ==
    ASSUME NULL \notin Buffers, IInv
    PROVE  /\ queue = <<>> <=> head = NULL
           /\ queue # <<>> => Len(queue) \in Nat \ {0} /\ head \in Buffers /\ tail \in Buffers
<1>1. queue # <<>> => Len(queue) \in Nat \ {0} /\ queue[1] \in Buffers /\ queue[Len(queue)] \in Buffers
  BY EmptySeq, LenProperties, ElementOfSeq DEF IInv, Types
<1>2. QED  BY <1>1 DEF IInv, Linked

(* The invariant gives the property of the runs. *)
LEMMA InvImplies ==
    ASSUME IInv
    PROVE  ListIsQueue
<1>1. DOMAIN queue = 1 .. Len(queue) /\ Len(queue) \in Nat
  BY LenProperties DEF IInv, Types
<1>2. QED  BY <1>1 DEF IInv, Linked, ListIsQueue

(* push_front keeps the invariant, for a new buffer and for one that has   *)
(* been popped.                                                            *)
LEMMA PushFront ==
    ASSUME NULL \notin Buffers, IInv, NEW b \in Buffers, push_front(b)
    PROVE  IInv'
<1> DEFINE n == Len(queue)
<1>1. n \in Nat /\ queue \in Seq(Buffers) /\ \A k \in 1 .. n : queue[k] \in Buffers
  BY LenProperties, ElementOfSeq DEF IInv, Types
<1>2. /\ queue' \in Seq(Buffers) /\ Len(queue') = n + 1
      /\ queue'[1] = b /\ \A k \in 2 .. n + 1 : queue'[k] = queue[k - 1]
  <2>1. <<b>> \in Seq(Buffers) /\ Len(<<b>>) = 1 /\ <<b>>[1] = b
    OBVIOUS
  <2>2. queue' = <<b>> \o queue
    BY DEF push_front
  <2>3. QED  BY <1>1, <2>1, <2>2, ConcatProperties
<1>3. queue' # <<>>
  BY <1>1, <1>2, EmptySeq
<1>4. b \in fresh \cup popped /\ b \notin fresh' \cup popped' /\ fresh' \subseteq fresh /\ popped' \subseteq popped
  BY DEF push_front
<1>5. \A k \in 1 .. n : queue[k] # b
  BY <1>4 DEF IInv, QueuedOnce
<1>6. /\ bnext'[b] = head
      /\ \A c \in Buffers \ {b} : bnext'[c] = bnext[c]
      /\ bnext' \in [Buffers -> Buffers \cup {NULL}]
      /\ head' = b /\ tail' = IF head = NULL THEN b ELSE tail
  BY DEF push_front, IInv, Types
<1>7. Types'
  BY <1>2, <1>4, <1>6 DEF Types, IInv
<1>8. QueuedOnce'
  <2>1. \A k \in 1 .. n + 1 : k # 1 => k - 1 \in 1 .. n /\ queue'[k] = queue[k - 1]
    BY <1>1, <1>2
  <2>2. \A j, k \in 1 .. n : queue[j] = queue[k] => j = k
    BY DEF IInv, QueuedOnce
  <2>3. \A j, k \in 1 .. n + 1 : queue'[j] = queue'[k] => j = k
    <3>1. TAKE j, k \in 1 .. n + 1
    <3>2. HAVE queue'[j] = queue'[k]
    <3>3. CASE j = 1 \/ k = 1
      BY <3>2, <3>3, <2>1, <1>2, <1>5
    <3>4. CASE j # 1 /\ k # 1
      <4>1. j - 1 = k - 1
        BY <3>2, <3>4, <2>1, <2>2
      <4>2. QED  BY <4>1, <1>1
    <3>5. QED  BY <3>3, <3>4
  <2>4. \A k \in 1 .. n : queue[k] \notin fresh \cup popped
    BY DEF IInv, QueuedOnce
  <2>5. \A k \in 1 .. n + 1 : queue'[k] \notin fresh' \cup popped'
    BY <2>1, <2>4, <1>2, <1>4
  <2>6. QED  BY <1>2, <2>3, <2>5 DEF QueuedOnce
<1>9. FreshUnlinked'
  BY <1>4, <1>6 DEF FreshUnlinked, IInv, Types
<1>10. Linked'
  <2>1. CASE queue = <<>>
    <3>1. n = 0 /\ head = NULL
      BY <2>1, EmptySeq DEF IInv, Linked
    <3>2. QED  BY <3>1, <1>2, <1>3, <1>6 DEF Linked
  <2>2. CASE queue # <<>>
    <3>1. n \in Nat \ {0} /\ head # NULL /\ head = queue[1] /\ tail = queue[n]
      BY <2>2, EmptyByHead DEF IInv, Linked
    <3>2. queue'[n + 1] = tail /\ tail # b /\ tail \in Buffers
      BY <1>1, <1>2, <1>5, <3>1
    <3>3. bnext'[queue'[n + 1]] = NULL
      BY <2>2, <3>1, <3>2, <1>6 DEF IInv, Linked
    <3>4. bnext'[queue'[1]] = queue'[2]
      BY <3>1, <1>2, <1>6
    <3>5. \A k \in 2 .. n : bnext'[queue'[k]] = queue'[k + 1]
      <4>1. TAKE k \in 2 .. n
      <4>2. queue'[k] = queue[k - 1] /\ queue'[k + 1] = queue[k] /\ queue[k - 1] \in Buffers \ {b}
        BY <1>1, <1>2, <1>5
      <4>3. bnext[queue[k - 1]] = queue[k]
        <5>1. k - 1 \in 1 .. n - 1 /\ (k - 1) + 1 = k
          BY <1>1
        <5>2. QED  BY <5>1, <2>2 DEF IInv, Linked
      <4>4. QED  BY <4>2, <4>3, <1>6
    <3>6. QED  BY <1>1, <1>2, <1>3, <1>6, <3>1, <3>2, <3>3, <3>4, <3>5 DEF Linked
  <2>3. QED  BY <2>1, <2>2
<1>11. QED  BY <1>7, <1>8, <1>9, <1>10 DEF IInv

(* push_back keeps the invariant: the new last buffer has no next, and the *)
(* old one is linked to it.                                                *)
LEMMA PushBack ==
    ASSUME NULL \notin Buffers, IInv, NEW b \in Buffers, push_back(b)
    PROVE  IInv'
<1> DEFINE n == Len(queue)
<1>1. n \in Nat /\ queue \in Seq(Buffers) /\ \A k \in 1 .. n : queue[k] \in Buffers
  BY LenProperties, ElementOfSeq DEF IInv, Types
<1>2. /\ queue' \in Seq(Buffers) /\ Len(queue') = n + 1 /\ queue' # <<>>
      /\ queue'[n + 1] = b /\ \A k \in 1 .. n : queue'[k] = queue[k]
  BY <1>1, AppendProperties DEF push_back
<1>3. b \in fresh /\ b \notin popped /\ fresh' = fresh \ {b} /\ popped' = popped
  BY DEF push_back, IInv, FreshUnlinked
<1>4. \A k \in 1 .. n : queue[k] # b
  BY <1>3 DEF IInv, QueuedOnce
<1>5. queue = <<>> => n = 0 /\ head = NULL
  BY EmptySeq, EmptyByHead
<1>6. queue # <<>> => n \in Nat \ {0} /\ head # NULL /\ tail \in Buffers \ fresh /\ tail = queue[n] /\ head = queue[1]
  BY <1>1, EmptyByHead DEF IInv, Linked, QueuedOnce
<1>7. /\ bnext' \in [Buffers -> Buffers \cup {NULL}]
      /\ \A c \in Buffers : c # tail => bnext'[c] = bnext[c]
      /\ queue # <<>> => bnext'[tail] = b
      /\ queue = <<>> => bnext' = bnext
  BY <1>5, <1>6 DEF push_back, IInv, Types
<1>8. Types'
  BY <1>2, <1>3, <1>7 DEF Types, IInv, push_back
<1>9. QueuedOnce'
  <2>1. \A j, k \in 1 .. n + 1 : queue'[j] = queue'[k] => j = k
    BY <1>1, <1>2, <1>4 DEF IInv, QueuedOnce
  <2>2. \A k \in 1 .. n + 1 : queue'[k] \notin fresh' \cup popped'
    BY <1>1, <1>2, <1>3 DEF IInv, QueuedOnce
  <2>3. QED  BY <1>2, <2>1, <2>2 DEF QueuedOnce
<1>10. bnext'[b] = NULL
  BY <1>3, <1>6, <1>7 DEF IInv, FreshUnlinked
<1>11. FreshUnlinked'
  BY <1>3, <1>6, <1>7 DEF IInv, FreshUnlinked, Types
<1>12. Linked'
  <2>1. CASE queue = <<>>
    BY <2>1, <1>2, <1>5, <1>10 DEF Linked, push_back
  <2>2. CASE queue # <<>>
    <3>1. head' = queue'[1] /\ tail' = queue'[n + 1]
      BY <2>2, <1>1, <1>2, <1>6 DEF push_back
    <3>2. \A k \in 1 .. n - 1 : bnext'[queue'[k]] = queue'[k + 1]
      <4>1. TAKE k \in 1 .. n - 1
      <4>2. queue[k] # queue[n]
        BY <1>1 DEF IInv, QueuedOnce
      <4>3. bnext[queue[k]] = queue[k + 1]
        BY <2>2 DEF IInv, Linked
      <4>4. QED  BY <4>2, <4>3, <1>1, <1>2, <1>6, <1>7, <2>2
    <3>3. bnext'[queue'[n]] = queue'[n + 1]
      BY <2>2, <1>2, <1>6, <1>7
    <3>4. \A k \in 1 .. n : bnext'[queue'[k]] = queue'[k + 1]
      BY <3>2, <3>3, <1>1
    <3>5. QED  BY <1>1, <1>2, <1>10, <3>1, <3>4 DEF Linked
  <2>3. QED  BY <2>1, <2>2
<1>13. QED  BY <1>8, <1>9, <1>11, <1>12 DEF IInv

(* pop_front keeps the invariant; it clears `tail` with the last buffer.   *)
LEMMA PopFront ==
    ASSUME NULL \notin Buffers, IInv, pop_front
    PROVE  IInv'
<1> DEFINE n == Len(queue)
<1>1. CASE queue = <<>>
  <2>1. UNCHANGED queue_vars
    BY <1>1, EmptyByHead DEF pop_front, queue_vars, IInv, Linked
  <2>2. QED  BY <2>1 DEF IInv, Types, QueuedOnce, FreshUnlinked, Linked, queue_vars
<1>2. CASE queue # <<>>
  <2>1. n \in Nat \ {0} /\ head \in Buffers /\ head # NULL /\ head = queue[1]
        /\ \A k \in 1 .. n : queue[k] \in Buffers
    BY <1>2, EmptyByHead, ElementOfSeq DEF IInv, Linked, Types
  <2>2. /\ queue' \in Seq(Buffers) /\ Len(queue') = n - 1
        /\ \A k \in 1 .. n - 1 : queue'[k] = queue[k + 1]
    BY <1>2, HeadTailProperties DEF pop_front, IInv, Types
  <2>3. head' = bnext[head] /\ popped' = popped \cup {head} /\ fresh' = fresh /\ bnext' = bnext
        /\ tail' = IF head' = NULL THEN NULL ELSE tail
    BY <2>1 DEF pop_front
  <2>4. Types'
    BY <2>1, <2>2, <2>3 DEF Types, IInv
  <2>5. QueuedOnce'
    <3>1. \A j, k \in 1 .. n - 1 : queue'[j] = queue'[k] => j = k
      <4>1. TAKE j, k \in 1 .. n - 1
      <4>2. HAVE queue'[j] = queue'[k]
      <4>3. j + 1 \in 1 .. n /\ k + 1 \in 1 .. n
        BY <2>1
      <4>4. queue[j + 1] = queue[k + 1]
        BY <2>2, <4>2
      <4>5. j + 1 = k + 1
        BY <4>3, <4>4 DEF IInv, QueuedOnce
      <4>6. QED  BY <4>5
    <3>2. \A k \in 1 .. n - 1 : queue'[k] \notin fresh' \cup popped'
      <4>1. TAKE k \in 1 .. n - 1
      <4>2. queue[k + 1] # queue[1] /\ queue[k + 1] \notin fresh \cup popped
        BY <2>1 DEF IInv, QueuedOnce
      <4>3. QED  BY <4>2, <2>1, <2>2, <2>3
    <3>3. QED  BY <2>2, <3>1, <3>2 DEF QueuedOnce
  <2>6. FreshUnlinked'
    BY <2>1, <2>3 DEF IInv, FreshUnlinked, QueuedOnce
  <2>7. Linked'
    <3>1. CASE n = 1
      <4>1. queue' = <<>> /\ head' = NULL
        BY <3>1, <1>2, <2>1, <2>2, <2>3, EmptySeq DEF IInv, Linked
      <4>2. QED  BY <4>1, <2>3 DEF Linked
    <3>2. CASE n # 1
      <4>1. head' = queue'[1] /\ head' # NULL
        BY <3>2, <1>2, <2>1, <2>2, <2>3 DEF IInv, Linked
      <4>2. tail' = queue'[n - 1] /\ bnext'[queue'[n - 1]] = NULL
        BY <4>1, <3>2, <1>2, <2>1, <2>2, <2>3 DEF IInv, Linked
      <4>3. \A k \in 1 .. n - 2 : bnext'[queue'[k]] = queue'[k + 1]
        <5>1. TAKE k \in 1 .. n - 2
        <5>2. bnext[queue[k + 1]] = queue[(k + 1) + 1]
          BY <1>2, <2>1 DEF IInv, Linked
        <5>3. k \in 1 .. n - 1 /\ k + 1 \in 1 .. n - 1
          BY <2>1
        <5>4. queue'[k] = queue[k + 1] /\ queue'[k + 1] = queue[(k + 1) + 1]
          BY <5>3, <2>2
        <5>5. QED  BY <5>2, <5>4, <2>3
      <4>4. QED  BY <4>1, <4>2, <4>3, <2>1, <2>2, <3>2, EmptySeq DEF Linked
    <3>3. QED  BY <3>1, <3>2
  <2>8. QED  BY <2>4, <2>5, <2>6, <2>7 DEF IInv
<1>3. QED  BY <1>1, <1>2

-------------------------------------------------------------------------------
(* For any set of buffers, and any order of pushing at either end, popping *)
(* and cleaning, the list from `head` to `tail` of buffer_head is exactly  *)
(* the queue.                                                              *)
THEOREM QueueCorrect ==
    ASSUME NULL \notin Buffers
    PROVE  Spec => []ListIsQueue
<1>1. Init => IInv
  <2>1. SUFFICES ASSUME Init PROVE IInv
    OBVIOUS
  <2>2. queue \in Seq(Buffers) /\ Len(queue) = 0
    BY <2>1, EmptySeq DEF Init
  <2>3. QED  BY <2>1, <2>2 DEF Init, IInv, Types, QueuedOnce, FreshUnlinked, Linked
<1>2. IInv /\ [Next]_queue_vars => IInv'
  <2>1. SUFFICES ASSUME IInv, [Next]_queue_vars PROVE IInv'
    OBVIOUS
  <2>2. ASSUME NEW b \in Buffers, push_front(b) PROVE IInv'
    BY <2>1, <2>2, PushFront
  <2>3. ASSUME NEW b \in Buffers, push_back(b) PROVE IInv'
    BY <2>1, <2>3, PushBack
  <2>4. CASE pop_front
    BY <2>1, <2>4, PopFront
  <2>5. CASE clean
    <3>1. queue' \in Seq(Buffers) /\ Len(queue') = 0
      BY <2>5, EmptySeq DEF clean
    <3>2. QED  BY <2>1, <2>5, <3>1 DEF clean, IInv, Types, QueuedOnce, FreshUnlinked, Linked
  <2>6. CASE UNCHANGED queue_vars
    BY <2>1, <2>6 DEF queue_vars, IInv, Types, QueuedOnce, FreshUnlinked, Linked
  <2>7. QED  BY <2>1, <2>2, <2>3, <2>4, <2>5, <2>6 DEF Next
<1>3. IInv => ListIsQueue
  BY InvImplies
<1>4. QED  BY <1>1, <1>2, <1>3, PTL DEF Spec
===============================================================================

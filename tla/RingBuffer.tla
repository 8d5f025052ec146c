------------------------------ MODULE RingBuffer ------------------------------
(***************************************************************************)
(* ring_buffer of net/ring_buffer.cpp.  A byte is the number of its        *)
(* writing.  `in` and `out` are counters of 32 bits, here of W values, and *)
(* positions are taken from them in two ways: write, read and writebuffer  *)
(* mask with size - 1, readbuffer divides by size.  init rounds a size up  *)
(* to an even number and not to a power of two, so that the two may differ *)
(* and bytes land in another place than they are looked for: the ghost     *)
(* `strayed` records that.  The buffers start_send fills once from their   *)
(* start and reads in pieces, and those of 128 bytes of receives, do not.  *)
(***************************************************************************)
EXTENDS Naturals, Sequences, Bitwise

CONSTANTS
    W,              \* values of a counter, a power of two
    Sizes,          \* sizes asked for, not 0
    MaxBytes        \* bound: bytes written to a buffer

VARIABLES
    size, in, out,
    buffer,         \* the memory
    wrote, took,    \* ghosts: bytes written and bytes taken
    got,            \* the bytes the last read returned
    strayed         \* ghost: a position was masked that is not the remainder

ring_vars == <<size, in, out, buffer, wrote, took, got, strayed>>

init(sz) == IF sz # 0 /\ sz & (sz - 1) # 0 THEN 2 * (sz \div 2 + 1) ELSE sz

Init ==
    /\ \E sz \in Sizes : size = init(sz)
    /\ in = 0 /\ out = 0
    /\ buffer = [k \in 0 .. size - 1 |-> 0]
    /\ wrote = 0 /\ took = 0 /\ got = <<>> /\ strayed = FALSE

Used == (in - out + W) % W      \* in - out, in 32 bits
Mask(x) == x & (size - 1)
Free == size - Used
Exact(x) == Mask(x) = x % size

(* The counter x goes on by n: at W its remainder jumps, unless the size   *)
(* divides W.                                                              *)
Jumps(x, n) == W % size # 0 /\ x + n >= W

(* The bytes written next, at the positions of `at`. *)
Fill(at) ==
    /\ \A k \in DOMAIN at : at[k] \in DOMAIN buffer
    /\ buffer' = [p \in DOMAIN buffer |->
                    IF \E k \in DOMAIN at : at[k] = p
                    THEN wrote + (CHOOSE k \in DOMAIN at : at[k] = p) ELSE buffer[p]]
    /\ wrote' = wrote + Len(at)
    /\ in' = (in + Len(at)) % W
    /\ strayed' = (strayed \/ ~Exact(in) \/ Jumps(in, Len(at)))
    /\ UNCHANGED <<size, out, took, got>>

(* The position of byte k of a copy that begins at position p: memcpy in   *)
(* two parts.                                                              *)
Wrapped(p, k) == IF k <= size - p THEN p + k - 1 ELSE k - (size - p) - 1

write(sz) ==
    /\ sz <= Free /\ wrote + sz <= MaxBytes
    /\ Fill([k \in 1 .. sz |-> Wrapped(Mask(in), k)])

(* writebuffer: a place for the system to write to, [ptr, sz]. *)
writebuffer ==
    LET wp == Mask(in)
        rp == Mask(out) IN
    [ptr |-> wp, sz |-> IF Free = 0 THEN 0 ELSE IF wp >= rp THEN size - wp - 1 ELSE rp - wp]

(* The system has written sz bytes to that place: write_ok, which asserts  *)
(* that there was room.                                                    *)
write_ok(sz) ==
    /\ sz <= writebuffer.sz /\ wrote + sz <= MaxBytes
    /\ sz <= Free
    /\ Fill([k \in 1 .. sz |-> writebuffer.ptr + k - 1])

(* readbuffer: the place where bytes can be read, [ptr, sz]. *)
readbuffer ==
    LET wp == in % size
        rp == out % size IN
    [ptr |-> rp, sz |-> IF Used = 0 THEN 0 ELSE IF wp > rp THEN wp - rp ELSE size - rp]

Taken(bytes) ==
    /\ got' = bytes
    /\ took' = took + Len(bytes)
    /\ out' = (out + Len(bytes)) % W
    /\ UNCHANGED <<size, in, buffer, wrote>>

(* sz of those bytes are used up; asserts that there were as many. *)
read_ok(sz) ==
    /\ sz <= readbuffer.sz /\ sz <= Used
    /\ strayed' = (strayed \/ Jumps(out, sz))
    /\ Taken([k \in 1 .. sz |-> buffer[readbuffer.ptr + k - 1]])

(* Bug: the second copy begins where the first did. *)
Bug_read(sz) ==
    /\ sz <= Used
    /\ strayed' = (strayed \/ ~Exact(out) \/ Jumps(out, sz))
    /\ Taken([k \in 1 .. sz |-> buffer[IF k <= size - Mask(out) THEN Mask(out) + k - 1
                                       ELSE Mask(out)]])

read(sz) ==
    /\ sz <= Used
    /\ strayed' = (strayed \/ ~Exact(out) \/ Jumps(out, sz))
    /\ Taken([k \in 1 .. sz |-> buffer[Wrapped(Mask(out), k)]])

clean ==
    /\ in' = 0 /\ out' = 0
    /\ took' = wrote /\ got' = <<>>
    /\ strayed' = FALSE
    /\ UNCHANGED <<size, buffer, wrote>>

Next == \/ \E sz \in 1 .. MaxBytes : write(sz) \/ write_ok(sz) \/ read(sz) \/ read_ok(sz)
        \/ clean

-------------------------------------------------------------------------------
(* Bytes come out in the order they went in, none twice and none left out, *)
(* by either way of writing and reading, also when the counters wrap, as   *)
(* long as the two ways of finding a position agree.  However they do, as  *)
(* many bytes are there to be read as were written and not taken.          *)
BytesInOrder ==
    /\ Used = wrote - took
    /\ ~strayed => \A k \in DOMAIN got : got[k] = took - Len(got) + k

(* The place writebuffer gives the system holds no byte that has still to  *)
(* be read, and lies in the buffer; the one of readbuffer holds only such. *)
(* So the assertions of write_ok and read_ok hold.                         *)
PlacesRight ==
    ~strayed =>
        /\ Exact(in) /\ Exact(out) =>
            /\ writebuffer.ptr + writebuffer.sz <= size /\ writebuffer.sz <= Free
            /\ \A k \in writebuffer.ptr .. writebuffer.ptr + writebuffer.sz - 1 :
                buffer[k] \notin took + 1 .. wrote
        /\ readbuffer.ptr + readbuffer.sz <= size
        /\ readbuffer.sz <= wrote - took /\ (wrote > took => readbuffer.sz > 0)
===============================================================================

------------------------------ MODULE RingBuf ------------------------------
(***************************************************************************)
(* The ring buffer of the utilities (tuya_ringbuf.c), called by one task   *)
(* at a time: it takes no lock. in and out are offsets into a buffer of    *)
(* RbLen bytes; in = out means empty, so one byte always stays unused.     *)
(***************************************************************************)
EXTENDS Naturals, Sequences, SequencesExt

CONSTANTS
    RbLen,    \* rbuff->len, the length the buffer was created with
    Bytes,    \* the byte values told apart
    MaxReq    \* bound on the length of one request

ASSUME RbLenAssumption == RbLen \in Nat \ {0}
ASSUME MaxReqAssumption == MaxReq \in Nat

VARIABLES
    in, out,  \* positions of input and output
    buff,     \* the buffer
    result    \* what the last call returned

vars == <<in, out, buff, result>>

Offsets == 0..(RbLen - 1)
NoData == <<>>

TypeOK ==
    /\ in \in Offsets /\ out \in Offsets
    /\ buff \in [Offsets -> Bytes]

(* tuya_ring_buff_create; what malloc left in the buffer is arbitrary.     *)
Init ==
    /\ in = 0 /\ out = 0
    /\ buff \in [Offsets -> Bytes]
    /\ result = [n |-> 0, data |-> NoData]

-----------------------------------------------------------------------------
GetMin(x, y) == IF x < y THEN x ELSE y

(* tuya_ring_buff_free_size_get, tuya_ring_buff_used_size_get. *)
FreeSize == (CASE in = out -> RbLen
               [] out > in -> out - in
               [] out < in -> RbLen - (in - out)) - 1
UsedSize == CASE in = out -> 0
              [] in > out -> in - out
              [] in < out -> RbLen - (out - in)

(* The two-part copy: tmp bytes up to the end of the buffer, the rest at   *)
(* its beginning; an offset that reached the end goes back to 0.           *)
Linear(pos, len) == GetMin(RbLen - pos, len)
Advanced(pos, len) ==
    LET tmp == Linear(pos, len)
        end == IF len > tmp THEN len - tmp ELSE pos + tmp
    IN  IF end >= RbLen THEN 0 ELSE end

Stored(data, len) ==
    LET tmp == Linear(in, len)
    IN  [i \in Offsets |->
            IF i \in in..(in + tmp - 1) THEN data[i - in + 1]
            ELSE IF i < len - tmp THEN data[tmp + i + 1]
            ELSE buff[i]]

(* Wrong variant: the second part is not read from the beginning. *)
FetchedShifted(len) ==
    LET tmp == Linear(out, len)
    IN  [i \in 1..len |-> IF i <= tmp THEN buff[out + i - 1] ELSE buff[i - 1]]

Fetched(len) ==
    LET tmp == Linear(out, len)
    IN  [i \in 1..len |-> IF i <= tmp THEN buff[out + i - 1] ELSE buff[i - tmp - 1]]

(* tuya_ring_buff_write, _read, _discard, _peek, _reset. *)
Write(data) ==
    LET n == GetMin(FreeSize, Len(data))
    IN  /\ in' = IF n = 0 THEN in ELSE Advanced(in, n)
        /\ buff' = Stored(data, n)
        /\ result' = [n |-> n, data |-> NoData]
        /\ UNCHANGED out

Read(len) ==
    LET n == GetMin(UsedSize, len)
    IN  /\ out' = IF n = 0 THEN out ELSE Advanced(out, n)
        /\ result' = [n |-> n, data |-> Fetched(n)]
        /\ UNCHANGED <<in, buff>>

Discard(len) ==
    LET n == GetMin(UsedSize, len)
    IN  /\ out' = IF n = 0 THEN out ELSE Advanced(out, n)
        /\ result' = [n |-> n, data |-> NoData]
        /\ UNCHANGED <<in, buff>>

Peek(len) ==
    LET n == GetMin(len, UsedSize)
    IN  /\ result' = [n |-> n, data |-> Fetched(n)]
        /\ UNCHANGED <<in, out, buff>>

Reset ==
    /\ in' = 0 /\ out' = 0
    /\ result' = [n |-> 0, data |-> NoData]
    /\ UNCHANGED buff

Next == \/ \E data \in SeqOf(Bytes, MaxReq) : Write(data)
        \/ \E len \in 0..MaxReq : Read(len) \/ Discard(len) \/ Peek(len)
        \/ Reset

Spec == Init /\ [][Next]_vars

-----------------------------------------------------------------------------
(* The two size queries agree with each other: together they always make   *)
(* up the capacity, one byte less than the length.                         *)
SizesAddUp == FreeSize + UsedSize = RbLen - 1

(* The k-th unread byte, and the contents a reader would get.              *)
UnreadAt(k) == buff[IF out + k >= RbLen THEN out + k - RbLen ELSE out + k]
Contents == [k \in 1..UsedSize |-> UnreadAt(k - 1)]

(* The buffer implements the queue of bytes, the results of every call     *)
(* included (tuya_ringbuf.h).                                              *)
Fifo == INSTANCE ByteFifo WITH Cap <- RbLen - 1, q <- Contents
IsFifo == Fifo!Spec
=============================================================================

------------------------------ MODULE ByteFifo ------------------------------
(***************************************************************************)
(* What a ring buffer promises its caller: a first-in first-out queue of   *)
(* at most Cap bytes. A write takes the longest prefix that fits and never *)
(* touches unread bytes (OVERFLOW_STOP_TYPE); read, peek and discard work  *)
(* on the oldest bytes, as many as there are.                              *)
(***************************************************************************)
EXTENDS Naturals, Sequences, SequencesExt

CONSTANTS Cap, Bytes, MaxReq

VARIABLES q,     \* the unread bytes, oldest first
          result \* what the last call returned: its length and the bytes it gave out

LeastOf(a, b) == IF a < b THEN a ELSE b
Prefix(s, n) == SubSeq(s, 1, n)
Rest(s, n) == SubSeq(s, n + 1, Len(s))

Init == q = <<>> /\ result = [n |-> 0, data |-> <<>>]

Write(data) ==
    LET n == LeastOf(Cap - Len(q), Len(data))
    IN  q' = q \o Prefix(data, n) /\ result' = [n |-> n, data |-> <<>>]

Read(len) ==
    LET n == LeastOf(Len(q), len)
    IN  q' = Rest(q, n) /\ result' = [n |-> n, data |-> Prefix(q, n)]

Discard(len) ==
    LET n == LeastOf(Len(q), len)
    IN  q' = Rest(q, n) /\ result' = [n |-> n, data |-> <<>>]

Peek(len) ==
    LET n == LeastOf(Len(q), len)
    IN  q' = q /\ result' = [n |-> n, data |-> Prefix(q, n)]

Reset == q' = <<>> /\ result' = [n |-> 0, data |-> <<>>]

Next == \/ \E data \in SeqOf(Bytes, MaxReq) : Write(data)
        \/ \E len \in 0..MaxReq : Read(len) \/ Discard(len) \/ Peek(len)
        \/ Reset

Spec == Init /\ [][Next]_<<q, result>>
=============================================================================

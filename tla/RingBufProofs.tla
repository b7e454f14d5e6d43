--------------------------- MODULE RingBufProofs ---------------------------
(***************************************************************************)
(* For a ring buffer of any length: the offsets never leave the buffer,    *)
(* the two size queries agree, no write touches an unread byte, and the    *)
(* whole is the queue of ByteFifo.                                         *)
(***************************************************************************)
EXTENDS RingBuf, SequenceTheorems, TLAPS

(* The sizes stay within the capacity. *)
LEMMA SizesInRange ==
    ASSUME TypeOK
    PROVE  /\ FreeSize \in 0..(RbLen - 1)
           /\ UsedSize \in 0..(RbLen - 1)
           /\ FreeSize + UsedSize = RbLen - 1
  BY RbLenAssumption DEF TypeOK, Offsets, FreeSize, UsedSize

(* Moving an offset by at most the capacity wraps it at most once. *)
LEMMA AdvancedWraps ==
    ASSUME NEW pos \in Offsets, NEW len \in 0..(RbLen - 1)
    PROVE  /\ Advanced(pos, len) \in Offsets
           /\ Advanced(pos, len) = IF pos + len >= RbLen THEN pos + len - RbLen
                                                         ELSE pos + len
           /\ Linear(pos, len) \in 0..len
           /\ pos + Linear(pos, len) <= RbLen
  BY RbLenAssumption DEF Offsets, Advanced, Linear, GetMin

(* A request is a sequence of bytes of bounded length. *)
LEMMA Requests ==
    ASSUME NEW data \in SeqOf(Bytes, MaxReq)
    PROVE  /\ Len(data) \in Nat
           /\ \A i \in 1..Len(data) : data[i] \in Bytes
  BY MaxReqAssumption DEF SeqOf

(* What is written is bytes again, and only the free area changes. *)
LEMMA StoredBytes ==
    ASSUME TypeOK, NEW data \in SeqOf(Bytes, MaxReq),
           NEW n \in Nat, n <= FreeSize, n <= Len(data)
    PROVE  /\ Stored(data, n) \in [Offsets -> Bytes]
           /\ \A k \in 0..(UsedSize - 1) :
                 LET i == IF out + k >= RbLen THEN out + k - RbLen ELSE out + k
                 IN  i \in Offsets /\ Stored(data, n)[i] = buff[i]
  <1> DEFINE tmp == Linear(in, n)
  <1>1. n \in 0..(RbLen - 1)
    BY SizesInRange, RbLenAssumption
  <1>2. tmp \in 0..n /\ in + tmp <= RbLen /\ in \in Offsets
    BY <1>1, AdvancedWraps DEF TypeOK
  <1>3. tmp < n => in + tmp = RbLen
    BY <1>1, <1>2, RbLenAssumption DEF Linear, GetMin, Offsets
  <1>4. \A i \in Offsets :
           Stored(data, n)[i] \in Bytes
    <2> SUFFICES ASSUME NEW i \in Offsets PROVE Stored(data, n)[i] \in Bytes
      OBVIOUS
    <2>1. i \in in..(in + tmp - 1) => i - in + 1 \in 1..Len(data)
      BY <1>1, <1>2, Requests, RbLenAssumption DEF Offsets
    <2>2. i < n - tmp => tmp + i + 1 \in 1..Len(data)
      BY <1>1, <1>2, Requests, RbLenAssumption DEF Offsets
    <2> HIDE DEF tmp
    <2>3. Stored(data, n)[i] = IF i \in in..(in + tmp - 1) THEN data[i - in + 1]
                               ELSE IF i < n - tmp THEN data[tmp + i + 1]
                               ELSE buff[i]
      BY DEF Stored, tmp
    <2>4. buff[i] \in Bytes
      BY DEF TypeOK
    <2> QED BY <2>1, <2>2, <2>3, <2>4, Requests
  <1>5. Stored(data, n) \in [Offsets -> Bytes]
    BY <1>4 DEF Stored
  <1>6. ASSUME NEW k \in 0..(UsedSize - 1)
        PROVE  LET i == IF out + k >= RbLen THEN out + k - RbLen ELSE out + k
               IN  i \in Offsets /\ Stored(data, n)[i] = buff[i]
    <2> DEFINE i == IF out + k >= RbLen THEN out + k - RbLen ELSE out + k
    <2>1. i \in Offsets
      BY SizesInRange, RbLenAssumption DEF TypeOK, Offsets
    <2>2. i \notin in..(in + tmp - 1) /\ ~(i < n - tmp)
      <3> HIDE DEF tmp
      <3>1. /\ in \in Int /\ out \in Int /\ RbLen \in Int /\ n \in Int /\ tmp \in Int
            /\ 0 <= in /\ in < RbLen /\ 0 <= out /\ out < RbLen
            /\ 0 <= tmp /\ tmp <= n /\ in + tmp <= RbLen
            /\ k \in Int /\ 0 <= k /\ k < UsedSize /\ n <= FreeSize
        BY <1>1, <1>2, SizesInRange, RbLenAssumption DEF TypeOK, Offsets
      <3>2. CASE in > out
        <4>1. UsedSize = in - out /\ FreeSize = RbLen - (in - out) - 1
          BY <3>1, <3>2 DEF UsedSize, FreeSize
        <4> QED BY <3>1, <3>2, <4>1, <1>3
      <3>3. CASE in < out
        <4>1. UsedSize = RbLen - (out - in) /\ FreeSize = out - in - 1
          BY <3>1, <3>3 DEF UsedSize, FreeSize
        <4> QED BY <3>1, <3>3, <4>1, <1>3
      <3>4. CASE in = out
        BY <3>1, <3>4 DEF UsedSize
      <3> QED BY <3>1, <3>2, <3>3, <3>4
    <2>3. Stored(data, n)[i] = buff[i]
      <3> HIDE DEF i
      <3> QED BY <2>1, <2>2 DEF Stored
    <2> QED BY <2>1, <2>3
  <1> QED BY <1>5, <1>6

-----------------------------------------------------------------------------
LEMMA InitTypeOK == Init => TypeOK
  BY RbLenAssumption DEF Init, TypeOK, Offsets

LEMMA NextTypeOK == TypeOK /\ [Next]_vars => TypeOK'
  <1> SUFFICES ASSUME TypeOK, [Next]_vars PROVE TypeOK'
    OBVIOUS
  <1>1. ASSUME NEW data \in SeqOf(Bytes, MaxReq), Write(data) PROVE TypeOK'
    <2> DEFINE n == GetMin(FreeSize, Len(data))
    <2>1. n \in 0..(RbLen - 1) /\ n <= FreeSize /\ n <= Len(data)
      BY SizesInRange, Requests, RbLenAssumption DEF GetMin
    <2> HIDE DEF n
    <2>2. in' \in Offsets
      BY <1>1, <2>1, AdvancedWraps DEF Write, TypeOK, n
    <2>3. buff' \in [Offsets -> Bytes]
      BY <1>1, <2>1, StoredBytes, RbLenAssumption DEF Write, n
    <2> QED BY <1>1, <2>2, <2>3 DEF Write, TypeOK
  <1>2. ASSUME NEW len \in 0..MaxReq, Read(len) \/ Discard(len) PROVE TypeOK'
    <2> DEFINE n == GetMin(UsedSize, len)
    <2>1. n \in 0..(RbLen - 1)
      BY SizesInRange, RbLenAssumption, MaxReqAssumption DEF GetMin
    <2> HIDE DEF n
    <2>2. out' \in Offsets
      BY <1>2, <2>1, AdvancedWraps DEF Read, Discard, TypeOK, n
    <2> QED BY <1>2, <2>2 DEF Read, Discard, TypeOK
  <1>3. ASSUME NEW len \in 0..MaxReq, Peek(len) PROVE TypeOK'
    BY <1>3 DEF Peek, TypeOK
  <1>4. CASE Reset
    BY <1>4, RbLenAssumption DEF Reset, TypeOK, Offsets
  <1>5. CASE UNCHANGED vars
    BY <1>5 DEF vars, TypeOK
  <1> QED BY <1>1, <1>2, <1>3, <1>4, <1>5 DEF Next

(* The offsets stay inside the buffer, whatever is written, read, peeked,  *)
(* discarded or reset (tuya_ringbuf.c): no access is out of bounds.        *)
THEOREM TypeCorrect == Spec => []TypeOK
  BY InitTypeOK, NextTypeOK, PTL DEF Spec

(* Free and used size always make up the capacity, len - 1.                *)
THEOREM SizesAgree == Spec => []SizesAddUp
  <1>1. TypeOK => SizesAddUp
    BY SizesInRange DEF SizesAddUp
  <1> QED BY <1>1, TypeCorrect, PTL

-----------------------------------------------------------------------------
(* The buffer implements the queue of ByteFifo.                            *)

(* The unread bytes form a sequence of UsedSize bytes.                     *)
LEMMA ContentsSeq ==
    ASSUME TypeOK
    PROVE  /\ Contents \in Seq(Bytes) /\ Len(Contents) = UsedSize
           /\ \A k \in 1..UsedSize : Contents[k] = UnreadAt(k - 1)
  <1>1. UsedSize \in Nat
    BY SizesInRange, RbLenAssumption
  <1>2. \A k \in 1..UsedSize : UnreadAt(k - 1) \in Bytes
    BY SizesInRange, RbLenAssumption DEF TypeOK, Offsets, UnreadAt
  <1>3. Contents \in [1..UsedSize -> Bytes]
    BY <1>2 DEF Contents
  <1> HIDE DEF Contents
  <1>4. Contents \in Seq(Bytes)
    BY <1>1, <1>3
  <1>5. Len(Contents) = UsedSize
    BY <1>1, <1>3, <1>4, LenProperties
  <1> QED BY <1>4, <1>5 DEF Contents

LEMMA ContentsSeqNext ==
    TypeOK' => /\ Contents' \in Seq(Bytes) /\ Len(Contents') = UsedSize'
               /\ \A k \in 1..UsedSize' : Contents'[k] = UnreadAt(k - 1)'
  <1> DEFINE known == /\ Contents \in Seq(Bytes) /\ Len(Contents) = UsedSize
                      /\ \A k \in 1..UsedSize : Contents[k] = UnreadAt(k - 1)
  <1>1. TypeOK => known
    BY ContentsSeq
  <1> HIDE DEF known
  <1>2. TypeOK' => known'
    BY <1>1, PTL
  <1> QED BY <1>2 DEF known

(* Sequences of the same length and elements are the same.                 *)
LEMMA SameSeq ==
    ASSUME NEW s \in Seq(Bytes), NEW t \in Seq(Bytes), Len(s) = Len(t),
           \A k \in 1..Len(s) : s[k] = t[k]
    PROVE  s = t
  BY SeqEqual

(* The bytes a read or a peek copies are the oldest n of the queue.        *)
LEMMA FetchedPrefix ==
    ASSUME TypeOK, NEW n \in 0..UsedSize
    PROVE  Fetched(n) = SubSeq(Contents, 1, n)
  <1>1. UsedSize \in 0..RbLen - 1 /\ n \in 0..RbLen - 1
    BY SizesInRange, RbLenAssumption
  <1>2. ASSUME NEW k \in 1..n PROVE Fetched(n)[k] = UnreadAt(k - 1)
    BY <1>1, RbLenAssumption DEF Fetched, Linear, GetMin, UnreadAt, TypeOK, Offsets
  <1>3. ASSUME NEW k \in 1..n PROVE UnreadAt(k - 1) \in Bytes
    BY <1>1, RbLenAssumption DEF TypeOK, Offsets, UnreadAt
  <1>4. Fetched(n) \in [1..n -> Bytes]
    <2>1. Fetched(n) = [k \in 1..n |-> Fetched(n)[k]]
      BY DEF Fetched
    <2> QED BY <1>2, <1>3, <2>1
  <1> HIDE DEF Fetched
  <1>5. Fetched(n) \in Seq(Bytes) /\ Len(Fetched(n)) = n
    BY <1>1, <1>4, LenProperties
  <1>6. /\ SubSeq(Contents, 1, n) \in Seq(Bytes) /\ Len(SubSeq(Contents, 1, n)) = n
        /\ \A k \in 1..n : SubSeq(Contents, 1, n)[k] = Contents[k]
    BY <1>1, ContentsSeq, SubSeqProperties, RbLenAssumption
  <1>7. \A k \in 1..n : Fetched(n)[k] = SubSeq(Contents, 1, n)[k]
    BY <1>1, <1>2, <1>6, ContentsSeq, RbLenAssumption
  <1> QED BY <1>5, <1>6, <1>7, SameSeq

(* Advancing out by n drops the oldest n bytes of the queue.               *)
LEMMA AdvanceDrops ==
    ASSUME TypeOK, TypeOK', NEW n \in 0..UsedSize,
           out' = IF n = 0 THEN out ELSE Advanced(out, n), UNCHANGED <<in, buff>>
    PROVE  Contents' = SubSeq(Contents, n + 1, Len(Contents))
  <1>1. UsedSize \in 0..RbLen - 1 /\ n \in 0..RbLen - 1 /\ out \in Offsets /\ in \in Offsets
    BY SizesInRange, RbLenAssumption DEF TypeOK
  <1>2. out' = IF out + n >= RbLen THEN out + n - RbLen ELSE out + n
    <2>1. CASE n = 0
      BY <1>1, <2>1, RbLenAssumption DEF Offsets
    <2>2. CASE n # 0
      BY <1>1, <2>2, AdvancedWraps
    <2> QED BY <2>1, <2>2
  <1>3. UsedSize' = UsedSize - n
    BY <1>1, <1>2, RbLenAssumption DEF UsedSize, Offsets
  <1>4. ASSUME NEW k \in 1..UsedSize - n PROVE UnreadAt(k - 1)' = UnreadAt(k + n - 1)
    BY <1>1, <1>2, RbLenAssumption DEF UnreadAt, Offsets
  <1>5. /\ Contents' \in Seq(Bytes) /\ Len(Contents') = UsedSize - n
        /\ \A k \in 1..UsedSize - n : Contents'[k] = UnreadAt(k - 1)'
    BY <1>3, ContentsSeqNext
  <1>6. /\ SubSeq(Contents, n + 1, Len(Contents)) \in Seq(Bytes)
        /\ Len(SubSeq(Contents, n + 1, Len(Contents))) = UsedSize - n
        /\ \A k \in 1..UsedSize - n : SubSeq(Contents, n + 1, Len(Contents))[k] = Contents[k + n]
    <2>1. Contents \in Seq(Bytes) /\ Len(Contents) = UsedSize
      BY ContentsSeq
    <2> HIDE DEF Contents
    <2> QED BY <1>1, <2>1, RbLenAssumption
  <1>7. \A k \in 1..UsedSize - n : Contents[k + n] = UnreadAt(k + n - 1)
    BY <1>1, ContentsSeq, RbLenAssumption
  <1> HIDE DEF Contents
  <1> QED BY <1>4, <1>5, <1>6, <1>7, SameSeq

(* A write of n bytes appends the first n of the data.                     *)
LEMMA WriteAppends ==
    ASSUME TypeOK, TypeOK', NEW data \in SeqOf(Bytes, MaxReq),
           NEW n \in Nat, n <= FreeSize, n <= Len(data),
           in' = IF n = 0 THEN in ELSE Advanced(in, n),
           buff' = Stored(data, n), out' = out
    PROVE  Contents' = Contents \o SubSeq(data, 1, n)
  <1>1. /\ UsedSize \in 0..RbLen - 1 /\ n \in 0..RbLen - 1 /\ out \in Offsets /\ in \in Offsets
        /\ FreeSize + UsedSize = RbLen - 1 /\ n + UsedSize <= RbLen - 1
    BY SizesInRange, RbLenAssumption DEF TypeOK
  <1>2. in' = IF in + n >= RbLen THEN in + n - RbLen ELSE in + n
    <2>1. CASE n = 0
      BY <1>1, <2>1, RbLenAssumption DEF Offsets
    <2>2. CASE n # 0
      BY <1>1, <2>2, AdvancedWraps
    <2> QED BY <2>1, <2>2
  <1>3. UsedSize' = UsedSize + n
    BY <1>1, <1>2, RbLenAssumption DEF UsedSize, Offsets
  <1>4. ASSUME NEW k \in 1..UsedSize PROVE UnreadAt(k - 1)' = UnreadAt(k - 1)
    <2>1. k - 1 \in 0..UsedSize - 1
      BY <1>1
    <2> QED BY <2>1, StoredBytes DEF UnreadAt
  <1>u. PICK u \in 0..RbLen - 1 : u = UsedSize
    BY <1>1
  <1>5. ASSUME NEW k \in 1..n PROVE UnreadAt(u + k - 1)' = data[k]
    <2> DEFINE j == IF in + (k - 1) >= RbLen THEN in + (k - 1) - RbLen ELSE in + (k - 1)
    <2>1. j \in Offsets
      BY <1>1, RbLenAssumption DEF Offsets
    <2>2. UnreadAt(u + k - 1)' = buff'[j]
      <3>1. j = IF out + (u + k - 1) >= RbLen THEN out + (u + k - 1) - RbLen
                ELSE out + (u + k - 1)
        BY <1>1, <1>u, RbLenAssumption DEF UsedSize, Offsets
      <3> HIDE DEF j
      <3> QED BY <3>1 DEF UnreadAt
    <2>3. Stored(data, n)[j] = data[k]
      BY <1>1, <2>1, RbLenAssumption DEF Stored, Linear, GetMin, Offsets
    <2> QED BY <2>2, <2>3
  <1>6. /\ Contents' \in Seq(Bytes) /\ Len(Contents') = UsedSize + n
        /\ \A k \in 1..UsedSize + n : Contents'[k] = UnreadAt(k - 1)'
    BY <1>3, ContentsSeqNext
  <1>7. /\ SubSeq(data, 1, n) \in Seq(Bytes) /\ Len(SubSeq(data, 1, n)) = n
        /\ \A k \in 1..n : SubSeq(data, 1, n)[k] = data[k]
    <2>1. data \in Seq(Bytes)
      BY MaxReqAssumption DEF SeqOf
    <2> QED BY <1>1, <2>1, SubSeqProperties, RbLenAssumption
  <1>8. /\ Contents \in Seq(Bytes) /\ Len(Contents) = UsedSize
        /\ \A k \in 1..UsedSize : Contents[k] = UnreadAt(k - 1)
    BY ContentsSeq
  <1> HIDE DEF Contents
  <1>9. DEFINE new == SubSeq(data, 1, n)
  <1>10. new \in Seq(Bytes) /\ Len(new) = n /\ \A k \in 1..n : new[k] = data[k]
    BY <1>7
  <1> HIDE DEF new
  <1>11. /\ Contents \o new \in Seq(Bytes) /\ Len(Contents \o new) = UsedSize + n
         /\ \A k \in 1..UsedSize + n :
               (Contents \o new)[k] = IF k <= UsedSize THEN Contents[k] ELSE new[k - UsedSize]
    BY <1>1, <1>8, <1>10, ConcatProperties
  <1>12. ASSUME NEW k \in 1..UsedSize + n PROVE Contents'[k] = (Contents \o new)[k]
    <2>1. CASE k <= UsedSize
      BY <1>1, <1>4, <1>6, <1>8, <1>11, <2>1
    <2>2. CASE k > UsedSize
      <3>1. k - UsedSize \in 1..n /\ UsedSize + (k - UsedSize) - 1 = k - 1
        BY <1>1, <2>2
      <3>2. PICK d \in 1..n : d = k - UsedSize
        BY <3>1
      <3>3. UnreadAt(k - 1)' = data[d]
        <4>1. u + d - 1 = k - 1
          BY <1>1, <1>u, <3>2, RbLenAssumption
        <4> QED BY <1>5, <4>1
      <3> QED BY <1>1, <1>6, <1>10, <1>11, <2>2, <3>2, <3>3
    <2>3. k <= UsedSize \/ k > UsedSize
      BY <1>1, RbLenAssumption
    <2> QED BY <2>1, <2>2, <2>3
  <1> QED BY <1>6, <1>11, <1>12, SameSeq DEF new

(* The ring buffer is the queue its users are promised: every call returns *)
(* what the queue would return, and leaves the bytes it would leave, for   *)
(* a buffer of any length and requests of any length.                      *)
THEOREM ImplementsFifo == Spec => IsFifo
  <1>1. Init => Fifo!Init
    <2> SUFFICES ASSUME Init PROVE Fifo!Init
      OBVIOUS
    <2>1. TypeOK /\ UsedSize = 0
      BY InitTypeOK DEF Init, UsedSize
    <2>2. Contents = <<>>
      <3>1. Contents \in Seq(Bytes) /\ Len(Contents) = 0
        BY <2>1, ContentsSeq
      <3> HIDE DEF Contents
      <3> QED BY <3>1, EmptySeq
    <2> QED BY <2>2 DEF Init, Fifo!Init, NoData
  <1>2. TypeOK /\ TypeOK' /\ [Next]_vars => [Fifo!Next]_<<Contents, result>>
    <2> SUFFICES ASSUME TypeOK, TypeOK', [Next]_vars
                 PROVE  Fifo!Next \/ UNCHANGED <<Contents, result>>
      OBVIOUS
    <2>0. UsedSize \in 0..RbLen - 1 /\ FreeSize = RbLen - 1 - UsedSize /\ Len(Contents) = UsedSize
      BY SizesInRange, ContentsSeq, RbLenAssumption
    <2>1. ASSUME NEW data \in SeqOf(Bytes, MaxReq), Write(data) PROVE Fifo!Write(data)
      <3> DEFINE n == GetMin(FreeSize, Len(data))
      <3>1. n \in Nat /\ n <= FreeSize /\ n <= Len(data)
        BY <2>0, Requests, RbLenAssumption DEF GetMin
      <3>2. n = Fifo!LeastOf(RbLen - 1 - Len(Contents), Len(data))
        BY <2>0 DEF GetMin, Fifo!LeastOf
      <3>3. /\ in' = (IF n = 0 THEN in ELSE Advanced(in, n)) /\ buff' = Stored(data, n)
            /\ out' = out /\ result' = [n |-> n, data |-> NoData]
        BY <2>1 DEF Write
      <3> HIDE DEF n
      <3>4. Contents' = Contents \o SubSeq(data, 1, n)
        BY <3>1, <3>3, WriteAppends
      <3> HIDE DEF Contents
      <3> QED BY <3>2, <3>3, <3>4 DEF Fifo!Write, Fifo!Prefix, NoData
    <2>2. ASSUME NEW len \in 0..MaxReq, Read(len) \/ Discard(len) \/ Peek(len)
          PROVE  Fifo!Read(len) \/ Fifo!Discard(len) \/ Fifo!Peek(len)
      <3> DEFINE n == GetMin(UsedSize, len)
      <3>1. n \in 0..UsedSize /\ n = GetMin(len, UsedSize)
        BY <2>0, MaxReqAssumption, RbLenAssumption DEF GetMin
      <3>2. n = Fifo!LeastOf(Len(Contents), len)
        BY <2>0 DEF GetMin, Fifo!LeastOf
      <3>3. Fetched(n) = SubSeq(Contents, 1, n)
        BY <3>1, FetchedPrefix
      <3>4. CASE Read(len)
        <4>1. /\ out' = (IF n = 0 THEN out ELSE Advanced(out, n)) /\ UNCHANGED <<in, buff>>
              /\ result' = [n |-> n, data |-> Fetched(n)]
          BY <3>4 DEF Read
        <4> HIDE DEF n
        <4>2. Contents' = SubSeq(Contents, n + 1, Len(Contents))
          BY <3>1, <4>1, AdvanceDrops
        <4> HIDE DEF Contents
        <4> QED BY <3>2, <3>3, <4>1, <4>2 DEF Fifo!Read, Fifo!Prefix, Fifo!Rest
      <3>5. CASE Discard(len)
        <4>1. /\ out' = (IF n = 0 THEN out ELSE Advanced(out, n)) /\ UNCHANGED <<in, buff>>
              /\ result' = [n |-> n, data |-> NoData]
          BY <3>5 DEF Discard
        <4> HIDE DEF n
        <4>2. Contents' = SubSeq(Contents, n + 1, Len(Contents))
          BY <3>1, <4>1, AdvanceDrops
        <4> HIDE DEF Contents
        <4> QED BY <3>2, <4>1, <4>2 DEF Fifo!Discard, Fifo!Rest, NoData
      <3>6. CASE Peek(len)
        <4>1. UNCHANGED <<in, out, buff>> /\ result' = [n |-> n, data |-> Fetched(n)]
          BY <3>1, <3>6 DEF Peek
        <4>2. Contents' = Contents
          BY <4>1 DEF Contents, UsedSize, UnreadAt
        <4> HIDE DEF n, Contents
        <4> QED BY <3>2, <3>3, <4>1, <4>2 DEF Fifo!Peek, Fifo!Prefix
      <3> QED BY <2>2, <3>4, <3>5, <3>6
    <2>3. CASE Reset
      <3>1. UsedSize' = 0 /\ result' = [n |-> 0, data |-> NoData]
        BY <2>3 DEF Reset, UsedSize
      <3>2. Contents' = <<>>
        <4>1. Contents' \in Seq(Bytes) /\ Len(Contents') = 0
          BY <3>1, ContentsSeqNext
        <4> HIDE DEF Contents
        <4> QED BY <4>1, EmptySeq
      <3> HIDE DEF Contents
      <3> QED BY <3>1, <3>2 DEF Fifo!Next, Fifo!Reset, NoData
    <2>4. CASE UNCHANGED vars
      BY <2>4 DEF vars, Contents, UsedSize, UnreadAt
    <2> HIDE DEF Contents
    <2>5. CASE \E data \in SeqOf(Bytes, MaxReq) : Write(data)
      BY <2>1, <2>5 DEF Fifo!Next, SeqOf, Fifo!SeqOf
    <2>6. CASE \E len \in 0..MaxReq : Read(len) \/ Discard(len) \/ Peek(len)
      BY <2>2, <2>6 DEF Fifo!Next
    <2> QED BY <2>3, <2>4, <2>5, <2>6 DEF Next
  <1> QED BY <1>1, <1>2, TypeCorrect, PTL DEF Spec, IsFifo, Fifo!Spec
=============================================================================

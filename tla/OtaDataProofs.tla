--------------------------- MODULE OtaDataProofs ---------------------------
(***************************************************************************)
(* Proofs about OtaData and RawFlashWrite, for any sizes of word, block,   *)
(* sector, bank, pack and image.                                           *)
(***************************************************************************)
EXTENDS OtaData, TLAPS

CellValues == Cells \cup {Erased, Stale, Junk}

(* Whole sectors, up to an address. *)
Sectors(a) == \E k \in Nat : a = ERASE_SIZE * k

(* Whatever the caller does: the count, the offset and the pack go         *)
(* together, and a pack lies inside the image.                             *)
Base ==
    /\ TypeOK
    /\ off = recv /\ total <= BankLen
    /\ rem = remainLen /\ rem <= len /\ at + len <= total

(* The zones of the bank: accounted for, erased for this image and perhaps *)
(* programmed by a write that failed, and not touched yet. Beyond the bank *)
(* nothing changes.                                                        *)
Zones ==
    \A c \in Cells :
        /\ c < recv => cells[c] = c \/ (c \in holes /\ cells[c] = Erased)
        /\ recv <= c /\ c < erased => cells[c] \in {Erased, c}
        /\ erased <= c => cells[c] # Junk
        /\ BankLen <= c => cells[c] = Stale

(* With no pack sent again: the count is the caller's position, and after  *)
(* the erase loop the rest of the pack lies in erased sectors.             *)
Sound ==
    /\ at + (len - rem) = recv
    /\ recv <= erased /\ erased <= BankLen /\ Sectors(erased)
    /\ Zones
    /\ pc = "erase" => rem = len
    /\ pc \in {"write", "last"} => recv + rem <= erased

DataInv == Base /\ (~again => Sound)

(* The numbers of the state. *)
LEMMA BaseTypes ==
    ASSUME Base
    PROVE  /\ recv \in Nat /\ off \in Nat /\ erased \in Nat /\ rem \in Nat /\ len \in Nat /\ at \in Nat
           /\ remainLen \in Nat /\ total \in Nat /\ BankLen \in Nat /\ FlashLen \in Nat
           /\ MaxPack \in Nat /\ IMAGE_WRITE_SIZE \in Nat /\ ERASE_SIZE \in Nat /\ ERASE_SIZE > 0
           /\ BankLen < FlashLen /\ cells \in [Cells -> CellValues] /\ again \in BOOLEAN
BY SizesAssumption, FlashLenAssumption DEF Base, TypeOK, CellValues

-----------------------------------------------------------------------------
(* Lemma: what programming a range of cells leaves there: nothing but data *)
(* and Junk, and the data alone if the cells were erased or held it; no    *)
(* other cell changes.                                                     *)
LEMMA ProgramCells ==
    ASSUME NEW cs \in [Cells -> CellValues], NEW from \in Int, NEW to \in Int,
           NEW data, \A c \in Cells : from <= c /\ c < to => data[c] \in CellValues
    PROVE  /\ Program(cs, from, to, data) \in [Cells -> CellValues]
           /\ \A c \in Cells :
                 IF from <= c /\ c < to
                 THEN cs[c] \in {Erased, data[c]} => Program(cs, from, to, data)[c] = data[c]
                 ELSE Program(cs, from, to, data)[c] = cs[c]
<1>1. \A c \in Cells : c \in Int
  BY FlashLenAssumption DEF Cells
<1>2. Junk \in CellValues
  BY DEF CellValues
<1> QED  BY <1>1, <1>2 DEF Program

(* Lemma: the head of a write that is longer than a word lies inside it,   *)
(* and its middle ends there.                                              *)
LEMMA PartsInside ==
    ASSUME NEW o \in Nat, NEW n \in Nat, n > Word
    PROVE  /\ o + HeadLen(o) \in Int /\ o <= o + HeadLen(o) /\ o + HeadLen(o) < o + n
           /\ o + n - TailLen(o, n) \in Int /\ o + n - TailLen(o, n) <= o + n
<1>1. o % Word \in 0..Word - 1 /\ (o + n) % Word \in 0..Word - 1
  BY WordAssumption
<1> QED  BY <1>1, WordAssumption DEF HeadLen, TailLen

(* Lemma: what raw_flash_write_fast does. The range of cells it writes is  *)
(* the only one that changes. If the cells are fit to be written, every    *)
(* cell of the range still is, or holds the data; and when the result is 0 *)
(* all of them hold it, but for those that are lost. A result of 0 means   *)
(* that the range lies in the flash.                                       *)
LEMMA WriteOutcome ==
    ASSUME NEW cs \in [Cells -> CellValues], NEW o \in Nat, NEW n \in Nat,
           NEW data, \A c \in Cells : o <= c /\ c < o + n => data[c] \in CellValues,
           NEW w \in WriteFast(cs, o, n, data)
    PROVE  /\ w.cells \in [Cells -> CellValues]
           /\ w.ok \in BOOLEAN /\ w.lost \subseteq Cells
           /\ w.ok => o + n <= FlashLen
           /\ \A c \in Cells : ~(o <= c /\ c < o + n) => w.cells[c] = cs[c]
           /\ (\A c \in Cells : o <= c /\ c < o + n => cs[c] \in {Erased, data[c]})
              => \A c \in Cells : o <= c /\ c < o + n =>
                    /\ w.cells[c] \in {Erased, data[c]}
                    /\ w.ok => w.cells[c] = data[c] \/ (c \in w.lost /\ w.cells[c] = Erased)
<1> DEFINE m1 == o + HeadLen(o)
           m2 == o + n - TailLen(o, n)
           head == Program(cs, o, m1, data)
           mid == Program(head, m1, m2, data)
           tail == Program(head, m2, o + n, data)
           all == Program(cs, o, o + n, data)
           Fit == \A c \in Cells : o <= c /\ c < o + n => cs[c] \in {Erased, data[c]}
<1>1. \/ w = [cells |-> cs, ok |-> FALSE, lost |-> {}]
      \/ /\ w = [cells |-> all, ok |-> TRUE, lost |-> {}]
         /\ ValidRange(o, n)
      \/ n > Word /\ w = [cells |-> mid, ok |-> FALSE, lost |-> {}]
      \/ n > Word /\ w = [cells |-> head, ok |-> FALSE, lost |-> {}]
      \/ n > Word /\ w = [cells |-> tail, ok |-> TRUE, lost |-> m1 .. m2 - 1] /\ ValidRange(o, n)
  BY WordAssumption DEF WriteFast
<1>2. \A c \in Cells : c \in Nat
  BY FlashLenAssumption DEF Cells
<1>3. ValidRange(o, n) => o + n <= FlashLen
  BY FlashLenAssumption DEF ValidRange
<1>4. CASE w = [cells |-> cs, ok |-> FALSE, lost |-> {}]
  BY <1>4
<1>5. CASE w = [cells |-> all, ok |-> TRUE, lost |-> {}] /\ ValidRange(o, n)
  <2>1. /\ all \in [Cells -> CellValues]
        /\ \A c \in Cells : IF o <= c /\ c < o + n
                            THEN cs[c] \in {Erased, data[c]} => all[c] = data[c]
                            ELSE all[c] = cs[c]
    BY ProgramCells
  <2> HIDE DEF all
  <2> QED  BY <1>3, <1>5, <2>1
<1>6. ASSUME n > Word
      PROVE  /\ m1 \in Int /\ o <= m1 /\ m1 < o + n /\ m2 \in Int /\ m2 <= o + n
             /\ m1 \in Nat
             /\ head \in [Cells -> CellValues]
             /\ \A c \in Cells : IF o <= c /\ c < m1
                                 THEN cs[c] \in {Erased, data[c]} => head[c] = data[c]
                                 ELSE head[c] = cs[c]
  <2>1. m1 \in Int /\ o <= m1 /\ m1 < o + n /\ m2 \in Int /\ m2 <= o + n /\ m1 \in Nat
    BY <1>6, PartsInside
  <2> HIDE DEF m1, m2
  <2>2. \A c \in Cells : o <= c /\ c < m1 => data[c] \in CellValues
    BY <1>2, <2>1
  <2>3. /\ head \in [Cells -> CellValues]
        /\ \A c \in Cells : IF o <= c /\ c < m1
                            THEN cs[c] \in {Erased, data[c]} => head[c] = data[c]
                            ELSE head[c] = cs[c]
    BY <2>1, <2>2, ProgramCells
  <2> HIDE DEF head
  <2> QED  BY <2>1, <2>3
<1>7. CASE n > Word /\ w = [cells |-> head, ok |-> FALSE, lost |-> {}]
  <2> HIDE DEF head, m1, m2
  <2> QED  BY <1>2, <1>6, <1>7
<1>8. CASE n > Word /\ w = [cells |-> mid, ok |-> FALSE, lost |-> {}]
  <2> HIDE DEF head, m1, m2
  <2>1. \A c \in Cells : m1 <= c /\ c < m2 => data[c] \in CellValues
    BY <1>2, <1>6, <1>8
  <2>2. /\ mid \in [Cells -> CellValues]
        /\ \A c \in Cells : IF m1 <= c /\ c < m2
                            THEN head[c] \in {Erased, data[c]} => mid[c] = data[c]
                            ELSE mid[c] = head[c]
    BY <1>6, <1>8, <2>1, ProgramCells
  <2> HIDE DEF mid
  <2> QED  BY <1>2, <1>6, <1>8, <2>2
<1>9. CASE n > Word /\ w = [cells |-> tail, ok |-> TRUE, lost |-> m1 .. m2 - 1] /\ ValidRange(o, n)
  <2> HIDE DEF head, m1
  <2>0. TailLen(o, n) \in Nat /\ TailLen(o, n) < Word
    BY WordAssumption DEF TailLen
  <2>1. o <= m2
    BY <1>9, <2>0, WordAssumption
  <2> HIDE DEF m2
  <2>2. \A c \in Cells : m2 <= c /\ c < o + n => data[c] \in CellValues
    BY <1>2, <1>6, <1>9, <2>1
  <2>3. /\ tail \in [Cells -> CellValues]
        /\ \A c \in Cells : IF m2 <= c /\ c < o + n
                            THEN head[c] \in {Erased, data[c]} => tail[c] = data[c]
                            ELSE tail[c] = head[c]
    BY <1>6, <1>9, <2>2, ProgramCells
  <2>4. w.lost \subseteq Cells
    BY <1>3, <1>6, <1>9, FlashLenAssumption DEF Cells
  <2> HIDE DEF tail
  <2>5. ASSUME Fit, NEW c \in Cells, o <= c, c < o + n
        PROVE  /\ tail[c] \in {Erased, data[c]}
               /\ tail[c] = data[c] \/ (c \in w.lost /\ tail[c] = Erased)
    <3>1. cs[c] \in {Erased, data[c]} /\ c \in Nat
      BY <1>2, <2>5
    <3>2. CASE c < m1
      <4>1. head[c] = data[c]
        BY <1>6, <1>9, <2>5, <3>1, <3>2
      <4> QED  BY <2>3, <4>1
    <3>3. CASE m1 <= c
      <4>1. head[c] = cs[c]
        BY <1>6, <1>9, <2>5, <3>1, <3>3
      <4>2. CASE m2 <= c
        BY <2>3, <2>5, <3>1, <4>1, <4>2
      <4>3. CASE c < m2
        <5>1. c \in w.lost
          BY <1>6, <1>9, <3>1, <3>3, <4>3
        <5>2. tail[c] = cs[c]
          BY <1>6, <1>9, <2>3, <3>1, <4>1, <4>3
        <5> QED  BY <3>1, <5>1, <5>2
      <4> QED  BY <1>6, <1>9, <3>1, <4>2, <4>3
    <3> QED  BY <1>6, <1>9, <3>1, <3>2, <3>3
  <2>6. \A c \in Cells : ~(o <= c /\ c < o + n) => tail[c] = cs[c]
    BY <1>2, <1>6, <1>9, <2>1, <2>3
  <2> QED  BY <1>3, <1>9, <2>3, <2>4, <2>5, <2>6
<1> QED  BY <1>1, <1>4, <1>5, <1>7, <1>8, <1>9

(* Lemma: an erase position inside the bank leaves room for one sector.    *)
LEMMA SectorFits ==
    ASSUME NEW a \in Nat, Sectors(a), a < BankLen
    PROVE  a + ERASE_SIZE <= BankLen /\ Sectors(a + ERASE_SIZE)
<1>1. ERASE_SIZE \in Nat /\ ERASE_SIZE > 0 /\ BankLen \in Nat /\ BankLen % ERASE_SIZE = 0
  BY SizesAssumption
<1>2. PICK k \in Nat : a = ERASE_SIZE * k
  BY DEF Sectors
<1>3. PICK b \in Int : BankLen = ERASE_SIZE * b
  BY <1>1
<1>4. k < b
  BY <1>1, <1>2, <1>3
<1>5. ERASE_SIZE * (k + 1) <= ERASE_SIZE * b
  BY <1>1, <1>4
<1>6. a + ERASE_SIZE = ERASE_SIZE * (k + 1)
  BY <1>1, <1>2
<1> QED  BY <1>3, <1>5, <1>6 DEF Sectors

-----------------------------------------------------------------------------
LEMMA DataInit == Init => DataInv
<1> SUFFICES ASSUME Init PROVE DataInv
  OBVIOUS
<1>1. TypeOK
  <2>1. cells \in [Cells -> Cells \cup {Erased, Stale, Junk}] /\ holes \subseteq Cells /\ again \in BOOLEAN
    BY DEF Init
  <2>2. 0 \in 0 .. FlashLen /\ 0 \in 0 .. BankLen /\ 0 \in 0 .. MaxPack
    BY SizesAssumption, FlashLenAssumption
  <2> QED  BY <2>1, <2>2 DEF Init, TypeOK
<1>2. Base
  BY <1>1, SizesAssumption DEF Init, Base
<1>3. Sectors(erased)
  BY SizesAssumption DEF Init, Sectors
<1>4. Zones
  BY FlashLenAssumption DEF Init, Zones, Cells, Stale, Junk
<1>5. Sound
  BY <1>3, <1>4, SizesAssumption DEF Init, Sound
<1> QED  BY <1>2, <1>5 DEF DataInv

(* Lemma: a new session, whatever the last one left behind.                *)
LEMMA StartStep == DataInv /\ StartNotify => DataInv'
<1> SUFFICES ASSUME DataInv, StartNotify PROVE DataInv'
  OBVIOUS
<1>1. TypeOK'
  <2>1. /\ cells' \in [Cells -> Cells \cup {Erased, Stale, Junk}] /\ holes' \subseteq Cells
        /\ again' \in BOOLEAN
    BY DEF StartNotify
  <2>2. 0 \in 0 .. FlashLen /\ 0 \in 0 .. BankLen /\ 0 \in 0 .. MaxPack
    BY SizesAssumption, FlashLenAssumption
  <2> QED  BY <2>1, <2>2 DEF StartNotify, TypeOK
<1>2. Base'
  BY <1>1, SizesAssumption DEF StartNotify, Base
<1>3. Sectors(erased)'
  BY SizesAssumption DEF StartNotify, Sectors
<1>4. Zones'
  BY FlashLenAssumption, SizesAssumption DEF StartNotify, Zones, Cells, Stale, Junk, Erased
<1>5. Sound'
  BY <1>3, <1>4, SizesAssumption DEF StartNotify, Sound
<1> QED  BY <1>2, <1>5 DEF DataInv

(* Lemma: a call, with the next pack or the same again.                    *)
LEMMA EnterStep ==
    ASSUME DataInv, Repeat \/ \E n \in 1 .. MaxPack : Call(n)
    PROVE  DataInv'
<1>1. Base
  BY DEF DataInv
<1>2. /\ rem' = len' /\ remainLen' = len' /\ pc' \in {"idle", "erase"} /\ ret' = "ok"
      /\ UNCHANGED <<cells, total, recv, off, erased, holes>>
  BY DEF Repeat, Call, Enter, ug
<1>3. /\ at' \in Nat /\ len' \in Nat /\ len' <= MaxPack /\ at' + len' <= total
      /\ again' \in BOOLEAN /\ (~again' => ~again /\ at' = at + (len - rem))
  <2>1. CASE Repeat
    <3>1. again' = (remainLen < len) /\ at' = at /\ len' = len /\ ~again
      BY <2>1 DEF Repeat
    <3>2. ~again' => at' = at + (len - rem)
      <4>1. ~(remainLen < len) => at = at + (len - rem)
        BY <1>1, BaseTypes DEF Base
      <4> QED  BY <3>1, <4>1
    <3>3. len <= MaxPack
      BY <1>1, BaseTypes DEF Base, TypeOK
    <3> QED  BY <1>1, <3>1, <3>2, <3>3, BaseTypes DEF Base
  <2>2. ASSUME NEW n \in 1 .. MaxPack, Call(n)
        PROVE  /\ at' \in Nat /\ len' \in Nat /\ len' <= MaxPack /\ at' + len' <= total
               /\ again' \in BOOLEAN /\ (~again' => ~again /\ at' = at + (len - rem))
    BY <1>1, <2>2, BaseTypes DEF Call, Resume, Base
  <2> QED  BY <2>1, <2>2
<1>4. at' \in 0 .. BankLen /\ len' \in 0 .. MaxPack
  BY <1>1, <1>3, BaseTypes DEF Base
<1>5. Base'
  BY <1>1, <1>2, <1>3, <1>4, BaseTypes DEF Base, TypeOK
<1>6. ~again' => Sound'
  <2> SUFFICES ASSUME ~again' PROVE Sound'
    OBVIOUS
  <2>1. Sound /\ at' = at + (len - rem)
    BY <1>3 DEF DataInv
  <2>2. Zones' /\ Sectors(erased)'
    BY <1>2, <2>1 DEF Sound, Zones, Sectors
  <2> QED  BY <1>1, <1>2, <1>3, <2>1, <2>2, BaseTypes DEF Sound
<1> QED  BY <1>5, <1>6 DEF DataInv

(* Lemma: the erase loop stays inside the bank, although it checks no      *)
(* bound, and ahead of the data, unless bytes were sent again.             *)
LEMMA EraseStep == DataInv /\ EraseSector => DataInv'
<1> SUFFICES ASSUME DataInv, EraseSector PROVE DataInv'
  OBVIOUS
<1>1. Base
  BY DEF DataInv
<1>2. UNCHANGED <<total, at, len, again, recv, off, rem, remainLen, holes>>
  BY DEF EraseSector, pack
<1>3. CASE erased' = erased /\ cells' = cells /\ pc' = "idle" /\ ret' = "failed"
  <2>1. Base'
    BY <1>1, <1>2, <1>3 DEF Base, TypeOK
  <2>2. Sound => Sound'
    BY <1>2, <1>3 DEF Sound, Zones, Sectors
  <2> QED  BY <1>2, <2>1, <2>2 DEF DataInv
<1>4. CASE /\ ValidRange(erased, ERASE_SIZE)
           /\ erased' = erased + ERASE_SIZE /\ pc' = pc /\ ret' = ret
           /\ cells' = [c \in Cells |-> IF c \in erased .. erased + ERASE_SIZE - 1
                                        THEN Erased ELSE cells[c]]
  <2>1. erased' \in 0 .. FlashLen
    BY <1>1, <1>4, BaseTypes DEF ValidRange
  <2>2. Base'
    BY <1>1, <1>2, <1>4, <2>1 DEF Base, TypeOK
  <2>3. ASSUME Sound, ~again PROVE Sound'
    <3>1. erased < BankLen
      BY <1>1, <2>3, BaseTypes DEF EraseSector, Sound, Base
    <3>2. erased + ERASE_SIZE <= BankLen /\ Sectors(erased + ERASE_SIZE)
      BY <1>1, <2>3, <3>1, SectorFits, BaseTypes DEF Sound
    <3>3. Sectors(erased)'
      BY <1>4, <3>2 DEF Sectors
    <3>4. Zones'
      <4> SUFFICES ASSUME NEW c \in Cells
                   PROVE  /\ c < recv => cells'[c] = c \/ (c \in holes /\ cells'[c] = Erased)
                          /\ recv <= c /\ c < erased' => cells'[c] \in {Erased, c}
                          /\ erased' <= c => cells'[c] # Junk
                          /\ BankLen <= c => cells'[c] = Stale
        BY <1>2 DEF Zones
      <4>1. c \in Nat
        BY FlashLenAssumption DEF Cells
      <4>2. /\ c < recv => cells[c] = c \/ (c \in holes /\ cells[c] = Erased)
            /\ recv <= c /\ c < erased => cells[c] \in {Erased, c}
            /\ erased <= c => cells[c] # Junk
            /\ BankLen <= c => cells[c] = Stale
        BY <2>3 DEF Sound, Zones
      <4>3. recv <= erased
        BY <2>3 DEF Sound
      <4> QED  BY <1>1, <1>4, <3>2, <4>1, <4>2, <4>3, BaseTypes
    <3>5. recv <= erased' /\ erased' <= BankLen
      BY <1>1, <1>4, <2>3, <3>2, BaseTypes DEF Sound
    <3>6. pc = "erase"
      BY DEF EraseSector
    <3> QED  BY <1>2, <1>4, <2>3, <3>3, <3>4, <3>5, <3>6 DEF Sound
  <2> QED  BY <1>2, <2>2, <2>3 DEF DataInv
<1> QED  BY <1>3, <1>4 DEF EraseSector, Return

(* Lemma: writing the next n bytes of the pack, successfully or not.       *)
LEMMA WriteStep ==
    ASSUME DataInv, WriteBlock \/ WriteLast
    PROVE  DataInv'
<1>1. Base
  BY DEF DataInv
<1>2. PICK n \in Nat :
        /\ n <= rem
        /\ \E w \in WriteFast(cells, off, n, Data) :
              /\ cells' = w.cells /\ holes' = holes \cup w.lost
              /\ \/ /\ w.ok
                    /\ off' = off + n /\ recv' = recv + n
                    /\ rem' = rem - n /\ remainLen' = rem'
                 \/ ~w.ok /\ pc' = "idle" /\ UNCHANGED <<off, recv, rem, remainLen>>
  BY <1>1, BaseTypes DEF WriteBlock, WriteLast, Return
<1>3. PICK w \in WriteFast(cells, off, n, Data) :
        /\ cells' = w.cells /\ holes' = holes \cup w.lost
        /\ \/ /\ w.ok
              /\ off' = off + n /\ recv' = recv + n
              /\ rem' = rem - n /\ remainLen' = rem'
           \/ ~w.ok /\ pc' = "idle" /\ UNCHANGED <<off, recv, rem, remainLen>>
  BY <1>2
<1>4. /\ UNCHANGED <<total, at, len, again, erased>> /\ pc' \in {pc, "idle"}
      /\ ret' \in {ret, "ok", "failed"} /\ (pc' = pc => pc = "write") /\ pc \in {"write", "last"}
  BY DEF WriteBlock, WriteLast, Return, pack
<1>5. \A c \in Cells : c \in Nat /\ Data[c] = at + (len - rem) + (c - off)
  BY FlashLenAssumption DEF Cells, Data
<1>6. \A c \in Cells : off <= c /\ c < off + n => Data[c] \in CellValues
  <2> SUFFICES ASSUME NEW c \in Cells, off <= c, c < off + n PROVE Data[c] \in Cells
    BY DEF CellValues
  <2>1. Data[c] = at + (len - rem) + (c - off) /\ c \in Nat
    BY <1>5
  <2> HIDE DEF Data
  <2>2. Data[c] >= 0 /\ Data[c] < FlashLen /\ Data[c] \in Int
    BY <1>1, <1>2, <2>1, BaseTypes DEF Base
  <2> QED  BY <2>2, <1>1, BaseTypes DEF Cells
<1> HIDE DEF Data
<1>7. /\ cells' \in [Cells -> CellValues]
      /\ w.lost \subseteq Cells
      /\ w.ok => off + n <= FlashLen
      /\ \A c \in Cells : ~(off <= c /\ c < off + n) => cells'[c] = cells[c]
      /\ (\A c \in Cells : off <= c /\ c < off + n => cells[c] \in {Erased, Data[c]})
         => \A c \in Cells : off <= c /\ c < off + n =>
               /\ cells'[c] \in {Erased, Data[c]}
               /\ w.ok => cells'[c] = Data[c] \/ (c \in w.lost /\ cells'[c] = Erased)
  <2>1. cells \in [Cells -> CellValues] /\ off \in Nat
    BY <1>1, BaseTypes
  <2>2. /\ w.cells \in [Cells -> CellValues]
        /\ w.lost \subseteq Cells
        /\ w.ok => off + n <= FlashLen
        /\ \A c \in Cells : ~(off <= c /\ c < off + n) => w.cells[c] = cells[c]
        /\ (\A c \in Cells : off <= c /\ c < off + n => cells[c] \in {Erased, Data[c]})
           => \A c \in Cells : off <= c /\ c < off + n =>
                 /\ w.cells[c] \in {Erased, Data[c]}
                 /\ w.ok => w.cells[c] = Data[c] \/ (c \in w.lost /\ w.cells[c] = Erased)
    BY <1>6, <2>1, WriteOutcome
  <2> QED  BY <1>3, <2>2
<1>8. Base'
  <2>1. recv' \in 0 .. FlashLen /\ off' = recv' /\ rem' \in 0 .. MaxPack /\ remainLen' = rem' /\ rem' <= len
    BY <1>1, <1>2, <1>3, <1>7, BaseTypes DEF Base, TypeOK
  <2>2. holes' \subseteq Cells
    BY <1>1, <1>3, <1>7 DEF Base, TypeOK
  <2> QED  BY <1>1, <1>4, <1>7, <2>1, <2>2 DEF Base, TypeOK, CellValues
<1>9. ASSUME Sound PROVE Sound'
  <2>1. /\ at + (len - rem) = recv /\ recv + rem <= erased /\ recv <= erased /\ erased <= BankLen
    BY <1>4, <1>9 DEF Sound
  <2>2. \A c \in Cells : Data[c] = c
    BY <1>1, <1>5, <2>1, BaseTypes DEF Base
  <2>3. \A c \in Cells : off <= c /\ c < off + n => cells[c] \in {Erased, c}
    BY <1>1, <1>2, <1>5, <1>9, <2>1, BaseTypes DEF Sound, Zones, Base
  <2>4. \A c \in Cells : off <= c /\ c < off + n =>
               /\ cells'[c] \in {Erased, c}
               /\ w.ok => cells'[c] = c \/ (c \in w.lost /\ cells'[c] = Erased)
    BY <1>7, <2>2, <2>3
  <2>5. Zones'
    <3> SUFFICES ASSUME NEW c \in Cells
                 PROVE  /\ c < recv' => cells'[c] = c \/ (c \in holes' /\ cells'[c] = Erased)
                        /\ recv' <= c /\ c < erased => cells'[c] \in {Erased, c}
                        /\ erased <= c => cells'[c] # Junk
                        /\ BankLen <= c => cells'[c] = Stale
      BY <1>4 DEF Zones
    <3>1. /\ c < recv => cells[c] = c \/ (c \in holes /\ cells[c] = Erased)
          /\ recv <= c /\ c < erased => cells[c] \in {Erased, c}
          /\ erased <= c => cells[c] # Junk
          /\ BankLen <= c => cells[c] = Stale
      BY <1>9 DEF Sound, Zones
    <3>2. recv = off /\ c \in Nat
      BY <1>1, <1>5 DEF Base
    <3>3. CASE off <= c /\ c < off + n
      <4>1. c < erased /\ c < BankLen
        BY <1>1, <1>2, <2>1, <3>2, <3>3, BaseTypes
      <4>2. cells'[c] \in {Erased, c} /\ (w.ok => cells'[c] = c \/ (c \in holes' /\ cells'[c] = Erased))
        BY <1>3, <2>4, <3>3
      <4>3. c < recv' => w.ok
        BY <1>1, <1>3, <3>2, <3>3, BaseTypes
      <4> QED  BY <1>1, <3>2, <4>1, <4>2, <4>3, BaseTypes
    <3>4. CASE ~(off <= c /\ c < off + n)
      <4>1. cells'[c] = cells[c] /\ holes \subseteq holes'
        BY <1>3, <1>7, <3>4
      <4>2. (c < recv' => c < recv) /\ (recv' <= c => recv <= c)
        BY <1>1, <1>2, <1>3, <3>2, <3>4, BaseTypes
      <4> QED  BY <3>1, <4>1, <4>2
    <3> QED  BY <3>3, <3>4
  <2>6. Sectors(erased)'
    BY <1>4, <1>9 DEF Sound, Sectors
  <2>7. /\ at' + (len' - rem') = recv' /\ recv' <= erased' /\ erased' <= BankLen
        /\ recv' + rem' <= erased'
    BY <1>1, <1>2, <1>3, <1>4, <2>1, BaseTypes DEF Base
  <2> QED  BY <1>4, <2>5, <2>6, <2>7 DEF Sound
<1> QED  BY <1>4, <1>8, <1>9 DEF DataInv

LEMMA MoveOnStep == DataInv /\ (EraseDone \/ WriteDone \/ NotLast \/ UNCHANGED vars) => DataInv'
<1> SUFFICES ASSUME DataInv, EraseDone \/ WriteDone \/ NotLast \/ UNCHANGED vars PROVE DataInv'
  OBVIOUS
<1>1. /\ UNCHANGED <<cells, total, at, len, again, recv, off, erased, rem, remainLen, holes>>
      /\ ret' \in {ret, "ok"}
  BY DEF EraseDone, WriteDone, NotLast, Return, vars, ug, pack
<1>2. pc' \in {pc, "idle"} \/ (pc' = "write" /\ recv + len <= erased) \/ (pc' = "last" /\ pc = "write")
  BY DEF EraseDone, WriteDone, NotLast, Return, vars
<1>3. Base'
  BY <1>1, <1>2 DEF DataInv, Base, TypeOK
<1>4. ASSUME Sound PROVE Sound'
  <2>1. Zones' /\ Sectors(erased)'
    BY <1>1, <1>4 DEF Sound, Zones, Sectors
  <2>2. pc' \in {"write", "last"} => recv + rem <= erased
    BY <1>2, <1>4, BaseTypes DEF Sound, DataInv, Base
  <2>3. pc' = "erase" => rem = len
    BY <1>2, <1>4 DEF Sound
  <2> QED  BY <1>1, <1>4, <2>1, <2>2, <2>3 DEF Sound
<1> QED  BY <1>1, <1>3, <1>4 DEF DataInv

(* Lemma: DataInv is an invariant, whatever flash operations fail.         *)
LEMMA DataInvariant == Spec => []DataInv
<1>1. DataInv /\ [Next]_vars => DataInv'
  BY StartStep, EnterStep, EraseStep, WriteStep, MoveOnStep DEF Next, DataProcess, Finished
<1> QED  BY <1>1, DataInit, PTL DEF Spec

(* For any sizes, packs and images, and whatever flash operations fail:    *)
(* the bytes recv_data_cnt accounts for are in the flash in their places,  *)
(* taken from the right places of the caller's packs; missing are those    *)
(* alone whose failed write returned 0, and displaced none unless a pack   *)
(* was sent again after bytes of it had been taken.                        *)
THEOREM PrefixWritten == Spec => []PrefixInFlash
<1>1. DataInv => PrefixInFlash
  <2> SUFFICES ASSUME DataInv, ~again, NEW c \in 0 .. recv - 1
               PROVE  cells[c] = c \/ (c \in holes /\ cells[c] = Erased)
    BY DEF DataInv, Base, PrefixInFlash
  <2>1. Base /\ Sound /\ recv \in 0 .. FlashLen
    BY DEF DataInv, Base, TypeOK
  <2>2. c \in Cells /\ c < recv
    BY <2>1, BaseTypes DEF Cells
  <2> QED  BY <2>1, <2>2 DEF Sound, Zones
<1> QED  BY <1>1, DataInvariant, PTL

(* Under the same conditions no cell is programmed before it was erased,   *)
(* and no step erases or programs a cell behind the bank: image_size was   *)
(* checked against the bank, and the bank is whole sectors.                *)
THEOREM BankRespected == Spec => []CellsRespected
<1>1. DataInv => CellsRespected
  <2> SUFFICES ASSUME DataInv, ~again, NEW c \in Cells
               PROVE  cells[c] # Junk /\ (c >= BankLen => cells[c] = Stale)
    BY DEF CellsRespected
  <2>1. Base /\ Sound /\ c \in Nat
    BY FlashLenAssumption DEF DataInv, Cells
  <2>2. /\ c < recv => cells[c] = c \/ (c \in holes /\ cells[c] = Erased)
        /\ recv <= c /\ c < erased => cells[c] \in {Erased, c}
        /\ erased <= c => cells[c] # Junk
        /\ BankLen <= c => cells[c] = Stale
    BY <2>1 DEF Sound, Zones
  <2> QED  BY <2>1, <2>2, BaseTypes DEF Junk, Erased
<1> QED  BY <1>1, DataInvariant, PTL
=============================================================================

--------------------------- MODULE RawFlashWrite ---------------------------
(***************************************************************************)
(* raw_flash_write_fast (raw_flash_api.c) as the set of its outcomes. A    *)
(* write is cut into an unaligned head, a word-aligned middle that is      *)
(* programmed continuously, and a tail; each part is a flash operation of  *)
(* the ROM or the FMC that may fail when its name is in Faults.            *)
(***************************************************************************)
EXTENDS Integers

CONSTANTS
    Word,      \* bytes of a flash word (4 on the chip)
    FlashLen,  \* FLASH_TOTAL_SIZE, in the model's bytes
    Faults     \* which flash operations may fail

ASSUME WordAssumption == Word \in Nat \ {0}
ASSUME FlashLenAssumption == FlashLen \in Nat
ASSUME FaultsAssumption == Faults \subseteq {"erase", "head", "mid", "tail", "whole"}

Erased == -1       \* a cell after an erase
Stale == -2        \* a cell with the contents of some earlier image
Junk == -3         \* a cell programmed twice with different data

ValidRange(off, len) == off < FlashLen /\ len > 0 /\ off + len - 1 < FlashLen

HeadLen(off) == IF off % Word = 0 THEN 0 ELSE Word - (off % Word)
TailLen(off, len) == (off + len) % Word

(* Programming can only clear bits: an erased cell takes the byte, a cell  *)
(* that already holds it keeps it, any other cell is ruined.               *)
Program(cells, from, to, data) ==
    [c \in DOMAIN cells |->
        IF c < from \/ c >= to THEN cells[c]
        ELSE IF cells[c] \in {Erased, data[c]} THEN data[c] ELSE Junk]

(* The outcomes: the cells afterwards, whether 0 was returned, and the     *)
(* cells that were not programmed although it was: the result of the       *)
(* middle is lost when there is a tail, whose result overwrites ret.       *)
WriteFast(cells, off, len, data) ==
    LET m1 == off + HeadLen(off)
        m2 == off + len - TailLen(off, len)
        end == off + len
        head == Program(cells, off, m1, data)
        mid == Program(head, m1, m2, data)
        Out(c, r) == [cells |-> c, ok |-> r, lost |-> {}]
    IN  IF ~ValidRange(off, len) THEN {Out(cells, FALSE)}
        ELSE IF len <= Word
        THEN {Out(Program(cells, off, end, data), TRUE)}
             \cup {Out(cells, FALSE) : f \in Faults \cap {"whole"}}
        ELSE {Out(Program(cells, off, end, data), TRUE)}
             \cup {Out(cells, FALSE) : f \in {g \in Faults \cap {"head"} : m1 > off}}
             \cup {Out(mid, FALSE) : f \in {g \in Faults \cap {"tail"} : m2 < end}}
             \cup {IF m2 < end
                   THEN [cells |-> Program(head, m2, end, data), ok |-> TRUE, lost |-> m1 .. m2 - 1]
                   ELSE Out(head, FALSE) : f \in Faults \cap {"mid"}}
=============================================================================

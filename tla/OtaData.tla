------------------------------ MODULE OtaData ------------------------------
(***************************************************************************)
(* tkl_ota_data_process (tkl_ota.c), byte by byte: the packs of an image   *)
(* are erased for and written into the spare bank in blocks of             *)
(* IMAGE_WRITE_SIZE, the sectors of ERASE_SIZE being erased just ahead of  *)
(* the data. Sizes are scaled down; addresses are relative to start_addr.  *)
(* Byte k of the image is the number k, wherever it is written.            *)
(*                                                                         *)
(* The caller (libtuyaos, external) goes on with the bytes of the image    *)
(* that remain_len leaves over, also after a call that failed, or then     *)
(* sends the same pack again. pack->offset tells where a pack belongs; the *)
(* code does not read it.                                                  *)
(***************************************************************************)
EXTENDS RawFlashWrite, FiniteSetsExt

CONSTANTS
    IMAGE_WRITE_SIZE,
    ERASE_SIZE,
    BankLen,       \* image_max_size, whole sectors; cells beyond are KV, UF...
    Totals,        \* image sizes offered
    MaxPack,       \* longest pack
    Uint           \* 2^32 scaled down: unsigned arithmetic wraps here

ASSUME SizesAssumption ==
    /\ IMAGE_WRITE_SIZE \in Nat \ {0} /\ ERASE_SIZE \in Nat \ {0}
    /\ BankLen \in Nat /\ BankLen % ERASE_SIZE = 0 /\ BankLen < FlashLen
    /\ Totals \subseteq Nat /\ MaxPack \in Nat
    /\ Uint \in Nat /\ 2 * FlashLen < Uint

VARIABLES
    cells,      \* the flash from the start of the bank
    total,      \* pack->total_len, the image_size given to start_notify
    recv,       \* recv_data_cnt
    off,        \* flash_offset
    erased,     \* erase_start_addr - start_addr
    pc,         \* where tkl_ota_data_process is; "idle" between calls
    at, len,    \* pack->offset, pack->len
    rem,        \* remain_length
    remainLen,  \* *remain_len as the caller will see it
    ret,        \* result of the last call
    again,      \* history: a pack was sent again of which bytes had been taken
    holes       \* history: cells not programmed by a write that returned 0

vars == <<cells, total, recv, off, erased, pc, at, len, rem, remainLen, ret, again, holes>>
ug == <<recv, off, erased>>
pack == <<total, at, len, again>>

Cells == 0 .. FlashLen - 1
USub(a, b) == (a - b) % Uint

(* Wrong variant: every write takes its bytes from the front of the pack. *)
DataFromFront == [c \in Cells |-> at + (c - off)]

(* &pack->data[pack->len - remain_length], laid over the cells from off on *)
Data == [c \in Cells |-> at + (len - rem) + (c - off)]

(* Where the caller goes on: after the bytes that were taken.              *)
Resume == at + (len - remainLen)

TypeOK ==
    /\ cells \in [Cells -> Cells \cup {Erased, Stale, Junk}]
    /\ total \in Totals
    /\ recv \in 0 .. FlashLen /\ off \in 0 .. FlashLen
    /\ erased \in 0 .. FlashLen
    /\ pc \in {"idle", "erase", "write", "last"}
    /\ at \in 0 .. BankLen
    /\ len \in 0 .. MaxPack /\ rem \in 0 .. MaxPack /\ remainLen \in 0 .. MaxPack
    /\ ret \in {"ok", "failed"}
    /\ again \in BOOLEAN /\ holes \subseteq Cells

Init ==
    /\ cells = [c \in Cells |-> Stale]
    /\ total \in {t \in Totals : t <= BankLen}
    /\ recv = 0 /\ off = 0 /\ erased = 0
    /\ pc = "idle"
    /\ at = 0 /\ len = 0 /\ rem = 0 /\ remainLen = 0
    /\ ret = "ok"
    /\ again = FALSE /\ holes = {}

(* Wrong variant: the erase position of the last session is kept. *)
StartKeepsErase ==
    /\ total' \in {t \in Totals : t # 0 /\ t <= BankLen}
    /\ cells' = [c \in Cells |-> IF cells[c] = Erased /\ c < BankLen THEN Erased ELSE Stale]
    /\ recv' = 0 /\ off' = 0
    /\ pc' = "idle" /\ at' = 0 /\ len' = 0 /\ rem' = 0 /\ remainLen' = 0 /\ ret' = "ok"
    /\ again' = FALSE /\ holes' = {}
    /\ UNCHANGED erased

(* tkl_ota_start_notify, after a reset at any moment or between two calls: *)
(* a new image; what the last one left in the bank is stale, and the cells *)
(* behind the bank are those that others keep there.                       *)
StartNotify ==
    /\ total' \in {t \in Totals : t # 0 /\ t <= BankLen}
    /\ cells' = [c \in Cells |-> IF cells[c] = Erased /\ c < BankLen THEN Erased ELSE Stale]
    /\ recv' = 0 /\ off' = 0 /\ erased' = 0
    /\ pc' = "idle" /\ at' = 0 /\ len' = 0 /\ rem' = 0 /\ remainLen' = 0 /\ ret' = "ok"
    /\ again' = FALSE /\ holes' = {}

(* Entry of tkl_ota_data_process: a pack that is too short and not the     *)
(* last is left to the caller.                                             *)
Enter ==
    /\ rem' = len' /\ remainLen' = len'
    /\ pc' = IF len' < IMAGE_WRITE_SIZE /\ recv <= USub(total, IMAGE_WRITE_SIZE)
             THEN "idle" ELSE "erase"
    /\ ret' = "ok"
    /\ UNCHANGED <<cells, total, ug, holes>>

(* The next n bytes; or, after an error, the same pack again (once in a    *)
(* session, a bound).                                                      *)
Call(n) ==
    /\ pc = "idle" /\ Resume < total /\ n <= total - Resume
    /\ at' = Resume /\ len' = n
    /\ again' = again
    /\ Enter

Repeat ==
    /\ pc = "idle" /\ ret = "failed" /\ ~again
    /\ again' = (remainLen < len)
    /\ UNCHANGED <<at, len>>
    /\ Enter

Return(result) == pc' = "idle" /\ ret' = result

EraseSector ==
    /\ pc = "erase" /\ recv + len > erased
    /\ \/ /\ ValidRange(erased, ERASE_SIZE)
          /\ cells' = [c \in Cells |-> IF c \in erased .. erased + ERASE_SIZE - 1
                                       THEN Erased ELSE cells[c]]
          /\ erased' = erased + ERASE_SIZE
          /\ UNCHANGED <<pc, ret>>
       \/ /\ ~ValidRange(erased, ERASE_SIZE) \/ "erase" \in Faults
          /\ Return("failed")
          /\ UNCHANGED <<cells, erased>>
    /\ UNCHANGED <<pack, recv, off, rem, remainLen, holes>>

EraseDone ==
    /\ pc = "erase" /\ recv + len <= erased
    /\ pc' = "write"
    /\ UNCHANGED <<cells, pack, ug, rem, remainLen, ret, holes>>

WriteBlock ==
    /\ pc = "write" /\ rem >= IMAGE_WRITE_SIZE
    /\ \E w \in WriteFast(cells, off, IMAGE_WRITE_SIZE, Data) :
          /\ cells' = w.cells /\ holes' = holes \cup w.lost
          /\ \/ /\ w.ok
                /\ off' = off + IMAGE_WRITE_SIZE
                /\ recv' = recv + IMAGE_WRITE_SIZE
                /\ rem' = rem - IMAGE_WRITE_SIZE
                /\ remainLen' = rem'
                /\ UNCHANGED <<pc, ret>>
             \/ /\ ~w.ok
                /\ Return("failed")
                /\ UNCHANGED <<off, recv, rem, remainLen>>
    /\ UNCHANGED <<pack, erased>>

WriteDone ==
    /\ pc = "write" /\ rem < IMAGE_WRITE_SIZE
    /\ pc' = "last"
    /\ UNCHANGED <<cells, pack, ug, rem, remainLen, ret, holes>>

(* Wrong variant: the last bytes must be more than what is missing. *)
LastDueStrict == recv > USub(total, IMAGE_WRITE_SIZE) /\ rem > USub(total, recv)

(* "write last remain iamge": also entered with nothing left to write, and *)
(* raw_flash_write_fast refuses a length of 0.                             *)
LastDue == recv > USub(total, IMAGE_WRITE_SIZE) /\ rem >= USub(total, recv)

WriteLast ==
    /\ pc = "last" /\ LastDue
    /\ \E w \in WriteFast(cells, off, rem, Data) :
          /\ cells' = w.cells /\ holes' = holes \cup w.lost
          /\ \/ /\ w.ok
                /\ off' = off + rem
                /\ recv' = recv + rem
                /\ rem' = 0 /\ remainLen' = 0
                /\ Return("ok")
             \/ /\ ~w.ok
                /\ Return("failed")
                /\ UNCHANGED <<off, recv, rem, remainLen>>
    /\ UNCHANGED <<pack, erased>>

NotLast ==
    /\ pc = "last" /\ ~LastDue
    /\ Return("ok")
    /\ UNCHANGED <<cells, pack, ug, rem, remainLen, holes>>

(* The caller stops once every byte was taken. *)
Finished == pc = "idle" /\ Resume >= total /\ UNCHANGED vars

DataProcess == EraseSector \/ EraseDone \/ WriteBlock \/ WriteDone
                 \/ WriteLast \/ NotLast
Next == StartNotify \/ (\E n \in 1 .. MaxPack : Call(n)) \/ Repeat \/ DataProcess \/ Finished

Spec == Init /\ [][Next]_vars

(* The caller goes on with its image, offering now and then as much as it  *)
(* can (a pack that is full or the rest of the image), and a flash         *)
(* operation tried again and again succeeds now and then.                  *)
FullCall == Call(Min({MaxPack, total - Resume}))
FairSpec == /\ Spec /\ WF_vars(DataProcess)
            /\ SF_vars(FullCall) /\ <>[][~StartNotify]_vars
            /\ SF_vars(DataProcess /\ ug' # ug)

-----------------------------------------------------------------------------
(* The bytes recv_data_cnt accounts for are in the flash, in order, as the *)
(* image has them: nothing lost, repeated, shifted or written over cells   *)
(* that were not erased, across failed calls and new sessions; but for     *)
(* what a write lost without saying so, and unless the caller repeats a    *)
(* pack that was taken in part. The types are part of it.                  *)
PrefixInFlash ==
    /\ TypeOK
    /\ off = recv
    /\ ~again => \A c \in 0 .. recv - 1 : cells[c] = c \/ (c \in holes /\ cells[c] = Erased)

(* A cell is programmed only after it was erased; and the image never      *)
(* reaches past its bank into the partitions behind it, although           *)
(* data_process itself checks no bound: start_notify's check of image_size *)
(* and the sector rounding suffice, unless bytes already taken are sent    *)
(* again.                                                                  *)
CellsRespected ==
    \A c \in Cells :
        ~again => cells[c] # Junk /\ (c >= BankLen => cells[c] = Stale)

(* The whole image is taken in the end and the last call says so, but for  *)
(* an image of whole blocks, whose last call fails after its last byte,    *)
(* and one smaller than a block, of which no byte is ever taken.           *)
Completes ==
    <>[]\/ recv = total /\ (ret = "ok" \/ total % IMAGE_WRITE_SIZE = 0)
        \/ total < IMAGE_WRITE_SIZE
        \/ again

(* "ota pack data, write to flash addr(start_addr + offset)"               *)
(* (tuya_cloud_types.h:1294): no byte taken lies at another place than its *)
(* pack's offset says. data_process goes by its own count, so that the     *)
(* bytes of a pack sent again after an error are shifted.                  *)
AtOffset == \A c \in 0 .. recv - 1 : cells[c] \in {c, Erased}

(* "result of write flash(0: write ok, or -1: write error)"                *)
(* (raw_flash_api.c:398): no byte of an accepted write is missing. The     *)
(* tail's result overwrites the middle's.                                  *)
AcceptedWritten == \A c \in 0 .. recv - 1 : cells[c] # Erased

(* "OPRT_OK on success" (tkl_ota.c:140): the call that takes the last byte *)
(* of the image does not report an error. After the last whole block       *)
(* data_process also writes the 0 bytes left, which is refused.            *)
EndsOk == pc = "idle" /\ recv = total /\ ~again => ret = "ok"

(* "write last remain iamge" (tkl_ota.c:183): the rest of every image is   *)
(* written, also when it is the whole of a small one. The difference       *)
(* total_len - IMAGE_WRITE_SIZE wraps then, and every pack is put off.     *)
SmallToo == <>[](recv = total \/ again)
=============================================================================

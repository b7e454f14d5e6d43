------------------------------ MODULE OtaBoot ------------------------------
(***************************************************************************)
(* Firmware upgrade and boot of the GD32VW553: the TKL OTA adapter         *)
(* (tkl_ota.c) that streams an image into the bank that is not running and *)
(* then flips the image flags, and the main boot loader (mbl.c,            *)
(* mbl_image_validate.c) that reads those flags after every reset.         *)
(*                                                                         *)
(* The flags, the running-image index and the version counter are entries  *)
(* of the ROM's system status, whose two flash blocks (ping and pong) make *)
(* one write atomic under power loss; each write is a step of its own      *)
(* here, so a crash can fall between any two of them. A write at a site in *)
(* FailSites may also fail and leave the entry as it was. The ROM and the  *)
(* application that calls the adapter are outside the repository.          *)
(*                                                                         *)
(* What differs from one device to the next and does not change while it   *)
(* runs is its setting: whether images are validated, which accesses of    *)
(* the status may fail, and how the application calls the adapter.         *)
(***************************************************************************)
EXTENDS Naturals

CONSTANTS
    Versions,      \* firmware versions a package may carry
    FactoryVer,    \* the version programmed into image 0 by ISP
    Settings       \* the settings of the devices considered

Sites == {"isp", "stat_read", "run_read", "mark_fail", "mark_ok", "set_run",
          "fw_ver", "end1", "end2", "end3"}

EndSites == {"end1", "end2", "end3"}

ASSUME VersionsAssumption == Versions \subseteq Nat /\ FactoryVer \in Versions
ASSUME SettingsAssumption ==
    Settings \subseteq [verify : BOOLEAN, fail : SUBSET Sites, disciplined : BOOLEAN]

VARIABLES
    setting,     \* the device's setting, the same in every state
    flags,       \* SYS_IMAGEx_STATUS of each image
    runningImg,  \* SYS_RUNNING_IMG, or NoImg while it was never written
    fwVer,       \* SYS_IMG_VER_COUNTER
    bank,        \* what each image bank of the flash holds
    mblIntact,   \* FALSE once the boot loader's own flash has been erased
    pc,          \* where the processor is: a boot step, the application, or hung
    bootIdx,     \* the image the boot loader picked, then the one executing
    ug,          \* ug_proc: "null", "zero" (memset, start_addr 0) or "ready"
    dl,          \* how far the caller's download has come
    endErr       \* res # 0 inside tkl_ota_end_notify

persistent == <<flags, runningImg, fwVer, bank, mblIntact>>
vars == <<setting, persistent, pc, bootIdx, ug, dl, endErr>>

Verify == setting.verify            \* ibl_opt asks for validation, or IBL_VERIFY_NONE
FailSites == setting.fail           \* the status accesses that may fail
Disciplined == setting.disciplined  \* the caller honours results and always resets

-----------------------------------------------------------------------------
Images == {0, 1}
NoImg == 2
Other(i) == 1 - i

Marks == {"none", "ok", "fail"}
Flags == [found : BOOLEAN, newer : BOOLEAN, verify : Marks, ia : Marks]
NoFlags == [found |-> FALSE, newer |-> FALSE, verify |-> "none", ia |-> "none"]

(* "partial": some sector was erased since the last complete image;        *)
(* "bad": every byte arrived but the signature or digest does not match.   *)
Kinds == {"good", "bad", "partial"}
Contents == [ver : Versions, kind : Kinds]

MblPcs == {"find", "validate", "mark_fail", "mark_ok", "set_run"}
AppPcs == {"app", "end2", "end3"}
NullUg == [st |-> "null", run |-> 0]

TypeOK ==
    /\ setting \in Settings
    /\ flags \in [Images -> Flags]
    /\ runningImg \in Images \cup {NoImg}
    /\ fwVer \in Versions \cup {0}
    /\ bank \in [Images -> Contents]
    /\ mblIntact \in BOOLEAN
    /\ pc \in MblPcs \cup AppPcs \cup {"hang"}
    /\ bootIdx \in Images
    /\ ug \in [st : {"null", "zero", "ready"}, run : Images]
    /\ dl \in {"idle", "open", "partial", "done"}
    /\ endErr \in BOOLEAN

(* A device fresh from ISP: image 0 programmed, no status entry written.   *)
Init ==
    /\ setting \in Settings
    /\ flags = [i \in Images |-> NoFlags]
    /\ runningImg = NoImg
    /\ fwVer = 0
    /\ bank = [i \in Images |-> [ver |-> FactoryVer,
                                 kind |-> IF i = 0 THEN "good" ELSE "partial"]]
    /\ mblIntact = TRUE
    /\ pc = "find"
    /\ bootIdx = 0
    /\ ug = NullUg
    /\ dl = "idle"
    /\ endErr = FALSE

-----------------------------------------------------------------------------
(* rom_sys_set_img_flag at a site: ok is its result, FALSE leaves the entry.*)
SetImgFlag(site, i, f, ok) ==
    /\ ok \/ site \in FailSites
    /\ flags' = IF ok THEN [flags EXCEPT ![i] = [f EXCEPT !.found = TRUE]]
                      ELSE flags

(* Wrong variant: a rejected image stays a candidate. *)
RejectedToo(i) == flags[i].found /\ flags[i].newer /\ flags[i].ia # "fail"

(* boot_image_find, the two kinds of candidate. *)
NewerCandidate(i) == /\ flags[i].found /\ flags[i].newer
                     /\ flags[i].verify # "fail" /\ flags[i].ia # "fail"
ProvenCandidate(i) == /\ flags[i].found
                      /\ flags[i].verify = "ok" /\ flags[i].ia = "ok"

(* Wrong variant: the proven image is looked for first. *)
ProvenFirst ==
    LET proven == {i \in Images : ProvenCandidate(i)}
        newer == {i \in Images : NewerCandidate(i)}
    IN  IF newer \cup proven = {} THEN NoImg
        ELSE IF 0 \in proven \/ (proven = {} /\ 0 \in newer) THEN 0 ELSE 1

(* The image boot_image_find returns: a NEWER candidate before a proven    *)
(* one, image 0 before image 1; NoImg stands for its results -4 and -5.    *)
FirstOf(S) == IF 0 \in S THEN 0 ELSE 1
Selected ==
    LET newer == {i \in Images : NewerCandidate(i)}
        proven == {i \in Images : ProvenCandidate(i)}
    IN  IF \/ ~flags[0].found /\ flags[1].found
           \/ newer \cup proven = {}
        THEN NoImg
        ELSE FirstOf(IF newer # {} THEN newer ELSE proven)

(* No status entry at all: ISP newly downloaded, image 0 becomes NEWER.    *)
FindFresh ==
    /\ pc = "find" /\ mblIntact
    /\ ~flags[0].found /\ ~flags[1].found
    /\ \E ok \in BOOLEAN :
          SetImgFlag("isp", 0, [flags[0] EXCEPT !.newer = TRUE], ok)
    /\ bootIdx' = 0
    /\ pc' = "validate"
    /\ UNCHANGED <<runningImg, fwVer, bank, mblIntact, ug, dl, endErr>>

FindImage ==
    /\ pc = "find" /\ mblIntact
    /\ flags[0].found \/ flags[1].found
    /\ Selected # NoImg
    /\ bootIdx' = Selected
    /\ pc' = "validate"
    /\ UNCHANGED <<persistent, ug, dl, endErr>>

(* NoImageBoot: no candidate, an unreadable status entry, or (when the     *)
(* loader itself is gone) no loader to run: while(1).                      *)
NoImageBoot ==
    /\ pc = "find"
    /\ \/ ~mblIntact
       \/ "stat_read" \in FailSites
       \/ (flags[0].found \/ flags[1].found) /\ Selected = NoImg
    /\ pc' = "hang"
    /\ UNCHANGED <<persistent, bootIdx, ug, dl, endErr>>

(* rom_cert_img_validate / rom_img_validate followed by the version        *)
(* counter: an older version is refused, a newer one is recorded.          *)
Acceptable(i) == bank[i].kind = "good" /\ bank[i].ver >= fwVer

(* Wrong variant: the counter counts upgrades, it does not hold a version. *)
VersionCounted ==
    /\ pc = "validate" /\ Acceptable(bootIdx)
    /\ fwVer' = fwVer + 1
    /\ pc' = "mark_ok"
    /\ UNCHANGED <<flags, runningImg, bank, mblIntact, bootIdx, ug, dl, endErr>>

ImageXValidate ==
    /\ pc = "validate"
    /\ \/ /\ ~Verify
          /\ pc' = "mark_ok"
          /\ UNCHANGED fwVer
       \/ /\ Verify /\ Acceptable(bootIdx)
          /\ fwVer' = bank[bootIdx].ver
          /\ pc' = "mark_ok"
       \/ /\ Verify
          /\ ~Acceptable(bootIdx) \/ "fw_ver" \in FailSites
          /\ pc' = "mark_fail"
          /\ UNCHANGED fwVer
    /\ UNCHANGED <<flags, runningImg, bank, mblIntact, bootIdx, ug, dl, endErr>>

(* VERIFY_FAIL, then SysTimer_SoftwareReset. *)
MarkFail ==
    /\ pc = "mark_fail"
    /\ \E ok \in BOOLEAN :
          SetImgFlag("mark_fail", bootIdx,
                     [flags[bootIdx] EXCEPT !.verify = "fail"], ok)
    /\ pc' = "find"
    /\ UNCHANGED <<runningImg, fwVer, bank, mblIntact, bootIdx, ug, dl, endErr>>

MarkOk ==
    /\ pc = "mark_ok"
    /\ \E ok \in BOOLEAN :
          SetImgFlag("mark_ok", bootIdx,
                     [flags[bootIdx] EXCEPT !.verify = "ok"], ok)
    /\ pc' = "set_run"
    /\ UNCHANGED <<runningImg, fwVer, bank, mblIntact, bootIdx, ug, dl, endErr>>

(* rom_sys_set_running_img, its result ignored, and the jump to the image. *)
SetRunAndJump ==
    /\ pc = "set_run"
    /\ \/ runningImg' = bootIdx
       \/ "set_run" \in FailSites /\ UNCHANGED runningImg
    /\ pc' = "app"
    /\ UNCHANGED <<flags, fwVer, bank, mblIntact, bootIdx, ug, dl, endErr>>

-----------------------------------------------------------------------------
(* tkl_ota_start_notify past its size and allocation checks (which return  *)
(* with nothing changed the first time): ug_proc is cleared, then filled   *)
(* from SYS_RUNNING_IMG. A size above the bank's is refused only after.    *)
(* Wrong variant: the caller is told OK although the running image could   *)
(* not be read.                                                            *)
StartUnchecked ==
    /\ pc = "app"
    /\ ug' = [st |-> "zero", run |-> 0]
    /\ dl' = "open"
    /\ UNCHANGED <<persistent, pc, bootIdx, endErr>>

StartNotify ==
    /\ pc = "app"
    /\ \/ /\ runningImg = NoImg \/ "run_read" \in FailSites
          /\ ug' = [st |-> "zero", run |-> 0]
          /\ dl' = "idle"
       \/ /\ runningImg # NoImg
          /\ ug' = [st |-> "ready", run |-> runningImg]
          /\ dl' \in {"open", "idle"}      \* "idle": image_size too large
    /\ UNCHANGED <<persistent, pc, bootIdx, endErr>>

(* tkl_ota_data_process seen from the boot loader: the first sector erased *)
(* makes the bank partial (start_addr is 0 while ug_proc is only zeroed),  *)
(* and a call whose data completes the image leaves it whole. A failing    *)
(* erase or write leaves it partial. OtaData models the bytes.             *)
CanProcess ==
    /\ pc = "app" /\ ug.st # "null"
    /\ Disciplined => dl \in {"open", "partial"}

DataChunk ==
    /\ CanProcess
    /\ IF ug.st = "zero"
       THEN mblIntact' = FALSE /\ UNCHANGED bank
       ELSE bank' = [bank EXCEPT ![Other(ug.run)].kind = "partial"]
            /\ UNCHANGED mblIntact
    /\ dl' = "partial"
    /\ UNCHANGED <<flags, runningImg, fwVer, pc, bootIdx, ug, endErr>>

DataLast ==
    /\ CanProcess /\ dl = "partial" /\ ug.st = "ready"
    /\ \E v \in Versions, k \in {"good", "bad"} :
          bank' = [bank EXCEPT ![Other(ug.run)] = [ver |-> v, kind |-> k]]
    /\ dl' = "done"
    /\ UNCHANGED <<flags, runningImg, fwVer, mblIntact, pc, bootIdx, ug, endErr>>

(* tkl_ota_end_notify: three flag writes, the later ones made even when an *)
(* earlier one failed, then the error return or the optional reset.        *)
OlderOnly(f) == [f EXCEPT !.newer = FALSE]   \* wrong variant: IA_OK left out
IaOkOnly(f) == [f EXCEPT !.ia = "ok"]        \* wrong variant: OLDER left out
RetiredFlags(f) == [f EXCEPT !.ia = "ok", !.newer = FALSE]

End1 ==
    /\ pc = "app" /\ ug.st # "null"
    /\ Disciplined => dl = "done"
    /\ \E ok \in BOOLEAN :
          /\ SetImgFlag("end1", ug.run, RetiredFlags(flags[ug.run]), ok)
          /\ endErr' = ~ok
    /\ pc' = "end2"
    /\ UNCHANGED <<runningImg, fwVer, bank, mblIntact, bootIdx, ug, dl>>

End2 ==
    /\ pc = "end2"
    /\ \E ok \in BOOLEAN :
          /\ SetImgFlag("end2", Other(ug.run), NoFlags, ok)
          /\ endErr' = (endErr \/ ~ok)
    /\ pc' = "end3"
    /\ UNCHANGED <<runningImg, fwVer, bank, mblIntact, bootIdx, ug, dl>>

End3 ==
    /\ pc = "end3"
    /\ \E ok \in BOOLEAN :
          /\ SetImgFlag("end3", Other(ug.run),
                        [flags[Other(ug.run)] EXCEPT !.newer = TRUE], ok)
          /\ \/ /\ ~endErr /\ ok                     \* reset == TRUE
                /\ pc' = "find" /\ ug' = NullUg /\ dl' = "idle"
             \/ /\ endErr \/ ~ok \/ ~Disciplined     \* failed, or reset == FALSE
                /\ pc' = "app" /\ UNCHANGED <<ug, dl>>
    /\ endErr' = FALSE
    /\ UNCHANGED <<runningImg, fwVer, bank, mblIntact, bootIdx>>

-----------------------------------------------------------------------------
(* Power loss or a watchdog reset, at any moment: the RAM is lost.         *)
PowerLoss ==
    /\ pc' = "find"
    /\ bootIdx' = 0
    /\ ug' = NullUg
    /\ dl' = "idle"
    /\ endErr' = FALSE
    /\ UNCHANGED persistent

Boot == /\ FindFresh \/ FindImage \/ NoImageBoot \/ ImageXValidate
           \/ MarkFail \/ MarkOk \/ SetRunAndJump
        /\ UNCHANGED setting
EndRest == (End2 \/ End3) /\ UNCHANGED setting
Ota == \/ (StartNotify \/ DataChunk \/ DataLast \/ End1) /\ UNCHANGED setting
       \/ EndRest
Reset == PowerLoss /\ UNCHANGED setting
Next == Boot \/ Ota \/ Reset

Spec == Init /\ [][Next]_vars

(* The boot loader and end_notify are straight-line code: each started     *)
(* step is eventually taken. The power supply is eventually stable.        *)
FairSpec == /\ Spec
            /\ WF_vars(Boot) /\ WF_vars(EndRest)
            /\ <>[][~Reset]_vars

-----------------------------------------------------------------------------
(* A device that validates its images, and on which the boot loader's own  *)
(* accesses of the status succeed. Those of tkl_ota_end_notify may fail.   *)
Validating == Verify /\ FailSites \subseteq EndSites

(* Once ISP has programmed image 0 of a validating device, no sequence of  *)
(* downloads, interrupted upgrades, rejected images and resets leads       *)
(* boot_image_find to NoImageBoot.                                         *)
NeverBricked == Validating => pc # "hang"

(* rom_image.h: "Only one image is set to be NEWER at the same time."      *)
AtMostOneNewer == ~(flags[0].newer /\ flags[1].newer)

(* It holds on every device whose first write of tkl_ota_end_notify, the   *)
(* one that makes the running image OLDER, does not fail: the other two    *)
(* writes are made whatever the first one returned.                        *)
OneNewerIfRetired == "end1" \notin FailSites => AtMostOneNewer

(* On a validating device the bank the processor executes from holds a     *)
(* validated image: the OTA adapter never erases the code it runs in, and  *)
(* the loader never jumps to an interrupted or rejected download. And it   *)
(* is the newest image that was ever accepted, also after a rejected       *)
(* upgrade fell back to it.                                                *)
RunsNewestAccepted ==
    Validating /\ pc \in AppPcs =>
        bank[bootIdx].kind = "good" /\ bank[bootIdx].ver = fwVer

(* A failed start_notify leaves start_addr at 0, the boot loader's own     *)
(* sectors; a caller that honours the result never erases them, whatever   *)
(* fails.                                                                  *)
LoaderIntact == Disciplined => mblIntact

(* Every reset of a validating device ends in a running image.             *)
BootsEventually == Validating /\ pc = "find" ~> pc = "app"

(* A reset after a complete end_notify of an acceptable image ends up      *)
(* running that image, and a rejected one leaves the old image running,    *)
(* on a validating device.                                                 *)
Pending(i) == /\ Validating
              /\ pc = "find" /\ flags[i].newer /\ ~flags[Other(i)].newer
              /\ flags[i].verify # "fail"
Runs(i) == pc = "app" /\ bootIdx = i /\ runningImg = i
UpgradeDecided ==
    \A i \in Images : /\ Pending(i) /\ Acceptable(i) ~> Runs(i)
                      /\ Pending(i) /\ ~Acceptable(i) ~> Runs(Other(i))
=============================================================================

--------------------------- MODULE OtaBootProofs ---------------------------
(***************************************************************************)
(* Theorems about OtaBoot, for every set of versions and of settings.      *)
(***************************************************************************)
EXTENDS OtaBoot, TLAPS

USE DEF Images, NoImg

-----------------------------------------------------------------------------
(* An image boot_image_find could choose. *)
Candidate(i) == flags[i].found /\ (NewerCandidate(i) \/ ProvenCandidate(i))

(* An image that would be chosen sooner or later and then pass validation. *)
Anchor(i) == Candidate(i) /\ Acceptable(i)

(* The device as ISP leaves it. *)
Fresh == ~flags[0].found /\ ~flags[1].found /\ Acceptable(0) /\ pc = "find"

(* Picked: what is known of the image the boot loader is working on, step  *)
(* by step, and then of the image that executes.                           *)
PickedPcs == {"mark_ok", "set_run"} \cup AppPcs
Picked ==
    /\ pc \in {"validate", "mark_fail", "mark_ok"} => Candidate(bootIdx)
    /\ pc = "mark_fail" => ~Acceptable(bootIdx)
    /\ pc \in PickedPcs => Anchor(bootIdx) /\ bank[bootIdx].ver = fwVer
    /\ pc \in PickedPcs \ {"mark_ok"} => flags[bootIdx].verify = "ok"
    /\ pc \in AppPcs => runningImg = bootIdx

(* Session: ug_proc exists only in the application and then points at the  *)
(* bank that does not execute.                                             *)
Session ==
    /\ ug.st # "zero"
    /\ ug.st = "ready" => pc \in AppPcs /\ ug.run = bootIdx
    /\ pc \in {"end2", "end3"} => ug.st = "ready"

FlagsSane ==
    /\ flags[1].found => flags[0].found
    /\ \A i \in Images : /\ flags[i].ia # "fail"
                         /\ ~flags[i].found => flags[i].verify # "fail"

BootCore ==
    /\ mblIntact
    /\ pc # "hang"
    /\ FlagsSane
    /\ Fresh \/ \E i \in Images : Anchor(i)
    /\ Picked
    /\ Session

BootInv == TypeOK /\ BootCore

(* What makes at most one image NEWER. *)
NewerInv ==
    /\ TypeOK
    /\ AtMostOneNewer
    /\ \A i \in Images : ~flags[i].found => ~flags[i].newer
    /\ pc \in {"end2", "end3"} => ~flags[ug.run].newer

-----------------------------------------------------------------------------
(* Editing one field of an image's flags gives flags again. *)
LEMMA FlagEdits ==
    ASSUME NEW f \in Flags, NEW m \in Marks
    PROVE  /\ [f EXCEPT !.newer = TRUE] \in Flags
           /\ [f EXCEPT !.verify = m] \in Flags
           /\ [f EXCEPT !.ia = m, !.newer = FALSE] \in Flags
           /\ [f EXCEPT !.found = TRUE] \in Flags
    BY DEF Flags

LEMMA NoFlagsType == NoFlags \in Flags
    BY DEF NoFlags, Flags, Marks

(* A status write leaves typed flags behind, failed or not. *)
LEMMA FlagWrite ==
    ASSUME flags \in [Images -> Flags], NEW i \in Images, NEW f \in Flags,
           NEW site, NEW ok \in BOOLEAN, SetImgFlag(site, i, f, ok)
    PROVE  flags' \in [Images -> Flags]
<1>1. [f EXCEPT !.found = TRUE] \in Flags
    BY FlagEdits DEF Marks
<1> QED
    BY <1>1 DEF SetImgFlag

(* A device keeps its setting. *)
LEMMA SettingKept ==
    ASSUME [Next]_vars
    PROVE  UNCHANGED setting
    BY DEF Next, Boot, Ota, EndRest, Reset, vars

(* Every step keeps the variables in their types. *)
LEMMA TypeStep == TypeOK /\ [Next]_vars => TypeOK'
<1> SUFFICES ASSUME TypeOK, [Next]_vars PROVE TypeOK'
    OBVIOUS
<1> USE VersionsAssumption DEF TypeOK, persistent, vars, MblPcs, AppPcs
<1>a. /\ "none" \in Marks /\ "ok" \in Marks /\ "fail" \in Marks
      /\ Other(ug.run) \in Images /\ ug.run \in Images
    BY DEF Marks, Other
<1>b. NullUg \in [st : {"null", "zero", "ready"}, run : Images]
    BY DEF NullUg
<1>0. setting' \in Settings
    BY SettingKept
<1> USE <1>0
<1>1. CASE FindFresh
  <2>1. flags' \in [Images -> Flags]
    <3>1. PICK ok \in BOOLEAN : SetImgFlag("isp", 0, [flags[0] EXCEPT !.newer = TRUE], ok)
        BY <1>1 DEF FindFresh
    <3>2. [flags[0] EXCEPT !.newer = TRUE] \in Flags
        BY <1>a, FlagEdits
    <3> QED
        BY <1>a, <3>1, <3>2, FlagWrite
  <2> QED
      BY <1>1, <2>1 DEF FindFresh
<1>2. CASE FindImage
  <2>1. Selected \in Images \cup {NoImg}
      BY DEF Selected, FirstOf
  <2> QED
      BY <1>2, <2>1 DEF FindImage
<1>3. CASE NoImageBoot
    BY <1>3 DEF NoImageBoot
<1>4. CASE ImageXValidate
    BY <1>4 DEF ImageXValidate, Contents
<1>5. CASE MarkFail
  <2>1. flags' \in [Images -> Flags]
    <3>1. PICK ok \in BOOLEAN : SetImgFlag("mark_fail", bootIdx, [flags[bootIdx] EXCEPT !.verify = "fail"], ok)
        BY <1>5 DEF MarkFail
    <3>2. [flags[bootIdx] EXCEPT !.verify = "fail"] \in Flags
        BY <1>a, FlagEdits
    <3> QED
        BY <1>a, <3>1, <3>2, FlagWrite
  <2> QED
      BY <1>5, <2>1 DEF MarkFail
<1>6. CASE MarkOk
  <2>1. flags' \in [Images -> Flags]
    <3>1. PICK ok \in BOOLEAN : SetImgFlag("mark_ok", bootIdx, [flags[bootIdx] EXCEPT !.verify = "ok"], ok)
        BY <1>6 DEF MarkOk
    <3>2. [flags[bootIdx] EXCEPT !.verify = "ok"] \in Flags
        BY <1>a, FlagEdits
    <3> QED
        BY <1>a, <3>1, <3>2, FlagWrite
  <2> QED
      BY <1>6, <2>1 DEF MarkOk
<1>7. CASE SetRunAndJump
    BY <1>7 DEF SetRunAndJump
<1>8. CASE StartNotify
    BY <1>8 DEF StartNotify
<1>9. CASE DataChunk
  <2>1. bank' \in [Images -> Contents] /\ mblIntact' \in BOOLEAN
    <3>1. CASE ug.st = "zero"
        BY <1>9, <3>1 DEF DataChunk
    <3>2. CASE ug.st # "zero"
      <4>1. [bank[Other(ug.run)] EXCEPT !.kind = "partial"] \in Contents
          BY <1>a DEF Contents, Kinds
      <4> QED
          BY <1>9, <3>2, <1>a, <4>1 DEF DataChunk
    <3> QED
        BY <3>1, <3>2
  <2> QED
      BY <1>9, <2>1 DEF DataChunk, CanProcess
<1>10. CASE DataLast
  <2>1. bank' \in [Images -> Contents]
      BY <1>10, <1>a DEF DataLast, Contents, Kinds
  <2> QED
      BY <1>10, <2>1 DEF DataLast, CanProcess
<1>11. CASE End1
  <2>1. flags' \in [Images -> Flags]
    <3>1. PICK ok \in BOOLEAN : SetImgFlag("end1", ug.run, [flags[ug.run] EXCEPT !.ia = "ok", !.newer = FALSE], ok)
        BY <1>11 DEF End1, RetiredFlags
    <3>2. [flags[ug.run] EXCEPT !.ia = "ok", !.newer = FALSE] \in Flags
        BY <1>a, FlagEdits
    <3> QED
        BY <1>a, <3>1, <3>2, FlagWrite
  <2> QED
      BY <1>11, <2>1 DEF End1, RetiredFlags
<1>12. CASE End2
  <2>1. flags' \in [Images -> Flags]
      BY <1>12, <1>a, NoFlagsType, FlagWrite DEF End2
  <2> QED
      BY <1>12, <2>1 DEF End2
<1>13. CASE End3
  <2>1. flags' \in [Images -> Flags]
    <3>1. PICK ok \in BOOLEAN : SetImgFlag("end3", Other(ug.run), [flags[Other(ug.run)] EXCEPT !.newer = TRUE], ok)
        BY <1>13 DEF End3
    <3>2. [flags[Other(ug.run)] EXCEPT !.newer = TRUE] \in Flags
        BY <1>a, FlagEdits
    <3> QED
        BY <1>a, <3>1, <3>2, FlagWrite
  <2> QED
      BY <1>13, <2>1, <1>b DEF End3
<1>14. CASE PowerLoss
    BY <1>14, <1>b DEF PowerLoss
<1>15. CASE UNCHANGED vars
    BY <1>15
<1> QED
    BY <1>0, <1>1, <1>2, <1>3, <1>4, <1>5, <1>6, <1>7, <1>8, <1>9, <1>10, <1>11,
       <1>12, <1>13, <1>14, <1>15, SettingKept DEF Next, Boot, Ota, EndRest, Reset

LEMMA TypeInit == Init => TypeOK
<1> SUFFICES ASSUME Init PROVE TypeOK
    OBVIOUS
<1>1. flags \in [Images -> Flags]
    BY NoFlagsType DEF Init
<1>2. bank \in [Images -> Contents]
    BY VersionsAssumption DEF Init, Contents, Kinds
<1> QED
    BY <1>1, <1>2 DEF Init, TypeOK, MblPcs, AppPcs, NullUg

(* The model is well typed, whatever fails and however the caller behaves. *)
THEOREM TypeCorrect == Spec => []TypeOK
    BY TypeInit, TypeStep, PTL DEF Spec

-----------------------------------------------------------------------------
(* What a status write does to each field: the named image takes the new   *)
(* fields and is found, the other image keeps its own; a failed write      *)
(* changes nothing.                                                        *)
LEMMA FlagFields ==
    ASSUME flags \in [Images -> Flags], NEW i \in Images, NEW f \in Flags,
           NEW site, NEW ok \in BOOLEAN, SetImgFlag(site, i, f, ok)
    PROVE  /\ ok => /\ flags'[i].found
                    /\ flags'[i].newer = f.newer
                    /\ flags'[i].verify = f.verify
                    /\ flags'[i].ia = f.ia
           /\ ~ok => flags' = flags /\ site \in FailSites
           /\ \A j \in Images \ {i} : flags'[j] = flags[j]
    BY DEF SetImgFlag, Flags

(* The flag writes of each action, spelled out once for the proofs below.  *)
LEMMA FindFreshFlags ==
    ASSUME TypeOK, FindFresh
    PROVE  /\ flags'[1] = flags[1]
           /\ \/ flags' = flags /\ "isp" \in FailSites
              \/ /\ flags'[0].found /\ flags'[0].newer
                 /\ flags'[0].verify = flags[0].verify
                 /\ flags'[0].ia = flags[0].ia
<1> DEFINE f == [flags[0] EXCEPT !.newer = TRUE]
<1>1. PICK ok \in BOOLEAN : SetImgFlag("isp", 0, f, ok)
    BY DEF FindFresh
<1>2. f \in Flags
    BY FlagEdits DEF TypeOK, Marks
<1>3. f.newer = TRUE /\ f.verify = flags[0].verify /\ f.ia = flags[0].ia
    BY DEF TypeOK, Flags
<1> HIDE DEF f
<1> QED
    BY <1>1, <1>2, <1>3, FlagFields DEF TypeOK

LEMMA MarkFlags ==
    ASSUME TypeOK, NEW m \in Marks, NEW site, NEW ok \in BOOLEAN,
           SetImgFlag(site, bootIdx, [flags[bootIdx] EXCEPT !.verify = m], ok)
    PROVE  /\ \A j \in Images \ {bootIdx} : flags'[j] = flags[j]
           /\ \/ flags' = flags /\ site \in FailSites
              \/ /\ flags'[bootIdx].found
                 /\ flags'[bootIdx].newer = flags[bootIdx].newer
                 /\ flags'[bootIdx].verify = m
                 /\ flags'[bootIdx].ia = flags[bootIdx].ia
<1> DEFINE f == [flags[bootIdx] EXCEPT !.verify = m]
<1>1. SetImgFlag(site, bootIdx, f, ok)
    OBVIOUS
<1>2. f \in Flags
    BY FlagEdits DEF TypeOK
<1>3. f.newer = flags[bootIdx].newer /\ f.verify = m /\ f.ia = flags[bootIdx].ia
    BY DEF TypeOK, Flags
<1> HIDE DEF f
<1> QED
    BY <1>1, <1>2, <1>3, FlagFields DEF TypeOK

LEMMA End1Flags ==
    ASSUME TypeOK, End1
    PROVE  /\ \A j \in Images \ {ug.run} : flags'[j] = flags[j]
           /\ \/ flags' = flags /\ "end1" \in FailSites
              \/ /\ flags'[ug.run].found /\ ~flags'[ug.run].newer
                 /\ flags'[ug.run].verify = flags[ug.run].verify
                 /\ flags'[ug.run].ia = "ok"
<1> DEFINE f == [flags[ug.run] EXCEPT !.ia = "ok", !.newer = FALSE]
<1>1. PICK ok \in BOOLEAN : SetImgFlag("end1", ug.run, f, ok)
    BY DEF End1, RetiredFlags
<1>2. f \in Flags /\ ug.run \in Images
    BY FlagEdits DEF TypeOK, Marks
<1>3. f.newer = FALSE /\ f.verify = flags[ug.run].verify /\ f.ia = "ok"
    BY <1>2 DEF TypeOK, Flags
<1> HIDE DEF f
<1> QED
    BY <1>1, <1>2, <1>3, FlagFields DEF TypeOK

LEMMA End2Flags ==
    ASSUME TypeOK, End2
    PROVE  /\ Other(ug.run) \in Images /\ Other(ug.run) # ug.run
           /\ flags'[ug.run] = flags[ug.run]
           /\ \/ flags' = flags /\ "end2" \in FailSites
              \/ /\ flags'[Other(ug.run)].found /\ ~flags'[Other(ug.run)].newer
                 /\ flags'[Other(ug.run)].verify = "none"
                 /\ flags'[Other(ug.run)].ia = "none"
<1>1. PICK ok \in BOOLEAN : SetImgFlag("end2", Other(ug.run), NoFlags, ok)
    BY DEF End2
<1>2. NoFlags \in Flags /\ ug.run \in Images /\ Other(ug.run) \in Images
      /\ Other(ug.run) # ug.run
    BY NoFlagsType DEF TypeOK, Other
<1>3. NoFlags.newer = FALSE /\ NoFlags.verify = "none" /\ NoFlags.ia = "none"
    BY DEF NoFlags
<1> QED
    BY <1>1, <1>2, <1>3, FlagFields DEF TypeOK

LEMMA End3Flags ==
    ASSUME TypeOK, End3
    PROVE  /\ Other(ug.run) \in Images /\ Other(ug.run) # ug.run
           /\ flags'[ug.run] = flags[ug.run]
           /\ \/ flags' = flags /\ "end3" \in FailSites
              \/ /\ flags'[Other(ug.run)].found /\ flags'[Other(ug.run)].newer
                 /\ flags'[Other(ug.run)].verify = flags[Other(ug.run)].verify
                 /\ flags'[Other(ug.run)].ia = flags[Other(ug.run)].ia
<1> DEFINE o == Other(ug.run)
           f == [flags[o] EXCEPT !.newer = TRUE]
<1>1. PICK ok \in BOOLEAN : SetImgFlag("end3", o, f, ok)
    BY DEF End3
<1>2. ug.run \in Images /\ o \in Images /\ o # ug.run
    BY DEF TypeOK, Other
<1>3. f \in Flags
    BY <1>2, FlagEdits DEF TypeOK, Marks
<1>4. f.newer = TRUE /\ f.verify = flags[o].verify /\ f.ia = flags[o].ia
    BY <1>2 DEF TypeOK, Flags
<1> HIDE DEF f, o
<1>5. /\ o \in Images /\ o # ug.run
      /\ flags'[ug.run] = flags[ug.run]
      /\ \/ flags' = flags /\ "end3" \in FailSites
         \/ /\ flags'[o].found /\ flags'[o].newer
            /\ flags'[o].verify = flags[o].verify
            /\ flags'[o].ia = flags[o].ia
    BY <1>1, <1>2, <1>3, <1>4, FlagFields DEF TypeOK
<1> QED
    BY <1>5 DEF o

-----------------------------------------------------------------------------
LEMMA NewerStep ==
    ASSUME "end1" \notin FailSites, NewerInv, [Next]_vars
    PROVE  NewerInv'
<1>1. TypeOK /\ TypeOK'
    BY TypeStep DEF NewerInv
<1>2. /\ ~(flags[0].newer /\ flags[1].newer)
      /\ \A i \in Images : ~flags[i].found => ~flags[i].newer
      /\ pc \in {"end2", "end3"} => ~flags[ug.run].newer
      /\ bootIdx \in Images /\ ug.run \in Images
    BY <1>1 DEF NewerInv, AtMostOneNewer, TypeOK
<1> SUFFICES /\ ~(flags'[0].newer /\ flags'[1].newer)
             /\ \A i \in Images : ~flags'[i].found => ~flags'[i].newer
             /\ pc' \in {"end2", "end3"} => ~flags'[ug'.run].newer
    BY <1>1 DEF NewerInv, AtMostOneNewer
<1>3. CASE FindFresh
    BY <1>1, <1>2, <1>3, FindFreshFlags DEF FindFresh
<1>4. CASE MarkFail
  <2>1. PICK ok \in BOOLEAN :
           SetImgFlag("mark_fail", bootIdx,
                      [flags[bootIdx] EXCEPT !.verify = "fail"], ok)
      BY <1>4 DEF MarkFail
  <2>2. "fail" \in Marks
      BY DEF Marks
  <2> QED
      BY <1>1, <1>2, <1>4, <2>1, <2>2, MarkFlags DEF MarkFail
<1>5. CASE MarkOk
  <2>1. PICK ok \in BOOLEAN :
           SetImgFlag("mark_ok", bootIdx,
                      [flags[bootIdx] EXCEPT !.verify = "ok"], ok)
      BY <1>5 DEF MarkOk
  <2>2. "ok" \in Marks
      BY DEF Marks
  <2> QED
      BY <1>1, <1>2, <1>5, <2>1, <2>2, MarkFlags DEF MarkOk
<1>6. CASE End1
    BY <1>1, <1>2, <1>6, End1Flags DEF End1, RetiredFlags
<1>7. CASE End2
    BY <1>1, <1>2, <1>7, End2Flags DEF End2
<1>8. CASE End3
    BY <1>1, <1>2, <1>8, End3Flags DEF End3
<1>9. CASE FindImage \/ NoImageBoot \/ ImageXValidate \/ SetRunAndJump
    BY <1>2, <1>9 DEF FindImage, NoImageBoot, ImageXValidate, SetRunAndJump,
       persistent
<1>10. CASE StartNotify \/ DataChunk \/ DataLast \/ PowerLoss
    BY <1>2, <1>10 DEF StartNotify, DataChunk, DataLast, CanProcess, PowerLoss,
       persistent
<1>11. CASE UNCHANGED vars
    BY <1>2, <1>11 DEF vars, persistent
<1> QED
    BY <1>3, <1>4, <1>5, <1>6, <1>7, <1>8, <1>9, <1>10, <1>11
    DEF Next, Boot, Ota, EndRest, Reset

(* rom_image.h's promise that only one image is NEWER at a time is kept by *)
(* every interleaving of upgrades, boots and resets, whatever else fails,  *)
(* as long as the write that makes the running image OLDER succeeds.       *)
THEOREM OneNewer == Spec => []OneNewerIfRetired
<1> DEFINE Inv == "end1" \notin FailSites => NewerInv
<1>1. Init => Inv
    BY TypeInit DEF Init, NewerInv, AtMostOneNewer, NoFlags
<1>2. Inv /\ [Next]_vars => Inv'
    BY NewerStep, SettingKept DEF FailSites
<1>3. Inv => OneNewerIfRetired
    BY DEF NewerInv, OneNewerIfRetired
<1> QED
    BY <1>1, <1>2, <1>3, PTL DEF Spec

-----------------------------------------------------------------------------
(* boot_image_find returns an image that is a candidate, and finds one     *)
(* whenever there is one.                                                  *)
LEMMA SelectedIsCandidate ==
    ASSUME Selected # NoImg
    PROVE  Selected \in Images /\ Candidate(Selected)
    BY DEF Selected, FirstOf, Candidate, NewerCandidate, ProvenCandidate

LEMMA CandidateIsSelected ==
    ASSUME FlagsSane, NEW i \in Images, Candidate(i)
    PROVE  Selected # NoImg
    BY DEF Selected, FirstOf, Candidate, NewerCandidate, ProvenCandidate, FlagsSane

LEMMA BootStep ==
    ASSUME Validating, BootInv, [Next]_vars
    PROVE  BootInv'
<1>1. TypeOK /\ TypeOK' /\ BootCore
    BY TypeStep DEF BootInv
<1> SUFFICES BootCore'
    BY <1>1 DEF BootInv
<1>2. /\ "isp" \notin FailSites /\ "stat_read" \notin FailSites
      /\ "run_read" \notin FailSites /\ "mark_fail" \notin FailSites
      /\ "mark_ok" \notin FailSites /\ "set_run" \notin FailSites
      /\ "fw_ver" \notin FailSites
      /\ Verify
    BY DEF EndSites, Validating
<1>3. /\ bootIdx \in Images /\ ug.run \in Images
      /\ ug.st \in {"null", "zero", "ready"}
      /\ \A i \in Images : bank[i].ver \in Nat
      /\ fwVer \in Nat
  <2>1. \A i \in Images : bank[i] \in Contents
      BY <1>1 DEF TypeOK
  <2>2. \A i \in Images : bank[i].ver \in Versions
      BY <2>1 DEF Contents
  <2>3. bootIdx \in Images /\ ug.run \in Images
        /\ ug.st \in {"null", "zero", "ready"}
      BY <1>1 DEF TypeOK
  <2>4. fwVer \in Nat
      BY <1>1, VersionsAssumption DEF TypeOK
  <2> QED
      BY <2>2, <2>3, <2>4, VersionsAssumption
<1> USE DEF BootCore, FlagsSane, Fresh, Anchor, Candidate, NewerCandidate,
            ProvenCandidate, Acceptable, Picked, PickedPcs, Session, AppPcs
<1>4. CASE FindFresh
    BY <1>1, <1>2, <1>3, <1>4, FindFreshFlags DEF FindFresh
<1>5. CASE FindImage
    BY <1>1, <1>2, <1>3, <1>5, SelectedIsCandidate DEF FindImage, persistent
<1>6. CASE NoImageBoot
    BY <1>1, <1>2, <1>3, <1>6, CandidateIsSelected DEF NoImageBoot
<1>7. CASE ImageXValidate
    BY <1>1, <1>2, <1>3, <1>7 DEF ImageXValidate
<1>8. CASE MarkFail
  <2>1. PICK ok \in BOOLEAN :
           SetImgFlag("mark_fail", bootIdx,
                      [flags[bootIdx] EXCEPT !.verify = "fail"], ok)
      BY <1>8 DEF MarkFail
  <2>2. "fail" \in Marks
      BY DEF Marks
  <2> QED
      BY <1>1, <1>2, <1>3, <1>8, <2>1, <2>2, MarkFlags DEF MarkFail
<1>9. CASE MarkOk
  <2>1. PICK ok \in BOOLEAN :
           SetImgFlag("mark_ok", bootIdx,
                      [flags[bootIdx] EXCEPT !.verify = "ok"], ok)
      BY <1>9 DEF MarkOk
  <2>2. "ok" \in Marks
      BY DEF Marks
  <2> QED
      BY <1>1, <1>2, <1>3, <1>9, <2>1, <2>2, MarkFlags DEF MarkOk
<1>10. CASE SetRunAndJump
    BY <1>1, <1>2, <1>3, <1>10 DEF SetRunAndJump
<1>11. CASE StartNotify
    BY <1>1, <1>2, <1>3, <1>11 DEF StartNotify, persistent
<1>12. CASE DataChunk
    BY <1>1, <1>2, <1>3, <1>12 DEF DataChunk, CanProcess, Other, TypeOK
<1>13. CASE DataLast
    BY <1>1, <1>2, <1>3, <1>13 DEF DataLast, CanProcess, Other, TypeOK
<1>14. CASE End1
    BY <1>1, <1>2, <1>3, <1>14, End1Flags DEF End1, RetiredFlags
<1>15. CASE End2
    BY <1>1, <1>2, <1>3, <1>15, End2Flags DEF End2
<1>16. CASE End3
  <2>1. /\ UNCHANGED <<runningImg, fwVer, bank, mblIntact, bootIdx>>
        /\ pc = "end3"
        /\ (pc' = "find" /\ ug'.st = "null") \/ (pc' = "app" /\ ug' = ug)
      BY <1>16 DEF End3, NullUg
  <2>2. /\ flags'[ug.run] = flags[ug.run]
        /\ \A i \in Images : /\ flags[i].found => flags'[i].found
                             /\ flags'[i].ia = flags[i].ia
                             /\ flags'[i].verify = flags[i].verify
      BY <1>1, <1>3, <1>16, End3Flags DEF Other
  <2>3. ug.run = bootIdx /\ Anchor(bootIdx) /\ flags[0].found
      BY <1>1, <1>3, <2>1
  <2>4. FlagsSane'
      BY <1>1, <2>2, <2>3
  <2>5. Anchor(bootIdx)'
      BY <1>1, <1>3, <2>1, <2>2, <2>3
  <2> QED
      BY <1>1, <1>3, <2>1, <2>2, <2>3, <2>4, <2>5
<1>17. CASE PowerLoss
    BY <1>1, <1>2, <1>3, <1>17 DEF PowerLoss, persistent, NullUg
<1>18. CASE UNCHANGED vars
    BY <1>1, <1>18 DEF vars, persistent
<1> QED
    BY <1>4, <1>5, <1>6, <1>7, <1>8, <1>9, <1>10, <1>11, <1>12, <1>13, <1>14,
       <1>15, <1>16, <1>17, <1>18 DEF Next, Boot, Ota, EndRest, Reset

(* Lemma: BootInv is an invariant of a validating device. *)
LEMMA BootInvariant == Spec => [](Validating => BootInv)
<1>1. Init => BootInv
  <2> SUFFICES ASSUME Init PROVE BootInv
      OBVIOUS
  <2>1. TypeOK
      BY TypeInit
  <2>2. BootCore
      BY VersionsAssumption
      DEF Init, BootCore, FlagsSane, Fresh, Acceptable, Picked, PickedPcs,
          Session, AppPcs, NullUg, NoFlags
  <2> QED
      BY <2>1, <2>2 DEF BootInv
<1>2. (Validating => BootInv) /\ [Next]_vars => (Validating => BootInv)'
    BY BootStep, SettingKept DEF Validating, Verify, FailSites
<1> QED
    BY <1>1, <1>2, PTL DEF Spec

(* With validation enabled, and whatever flag writes of tkl_ota_end_notify *)
(* fail, no order of downloads, calls, rejected images, resets and power   *)
(* losses leads boot_image_find to NoImageBoot. The argument: some image   *)
(* is always an Anchor, one boot_image_find still considers and validation *)
(* accepts; the executing image is one, and only accepting the other image *)
(* (which then is one) ends its role.                                      *)
THEOREM UpgradeSafety == Spec => []NeverBricked
<1>1. (Validating => BootInv) => NeverBricked
    BY DEF BootInv, BootCore, NeverBricked
<1> QED
    BY <1>1, BootInvariant, PTL

(* Under the same conditions, what executes is always a validated image, in *)
(* a bank the adapter does not touch, of the newest version ever accepted.  *)
THEOREM NewestRuns == Spec => []RunsNewestAccepted
<1>1. (Validating => BootInv) => RunsNewestAccepted
    BY DEF BootInv, BootCore, Picked, PickedPcs, Anchor, Acceptable, RunsNewestAccepted
<1> QED
    BY <1>1, BootInvariant, PTL

-----------------------------------------------------------------------------
(* While ug_proc is only zeroed, no download is open.                      *)
LoaderInv == Disciplined => mblIntact /\ (ug.st = "zero" => dl = "idle")

(* A caller that honours the result of tkl_ota_start_notify never has the  *)
(* boot loader's own sectors erased, whichever status accesses fail and    *)
(* whether or not images are validated.                                    *)
THEOREM LoaderSafe == Spec => []LoaderIntact
<1>1. Init => LoaderInv
    BY DEF Init, LoaderInv, NullUg
<1>2. LoaderInv /\ [Next]_vars => LoaderInv'
  <2> SUFFICES ASSUME LoaderInv, Disciplined, [Next]_vars PROVE LoaderInv'
      BY SettingKept DEF LoaderInv, Disciplined
  <2> USE DEF LoaderInv
  <2>1. CASE Boot
      BY <2>1 DEF Boot, FindFresh, FindImage, NoImageBoot, ImageXValidate, MarkFail,
         MarkOk, SetRunAndJump, persistent
  <2>2. CASE StartNotify
      BY <2>2 DEF StartNotify, persistent
  <2>3. CASE DataChunk
    <3>1. ug.st # "zero"
        BY <2>3 DEF DataChunk, CanProcess
    <3> QED
        BY <2>3, <3>1 DEF DataChunk
  <2>4. CASE DataLast
      BY <2>4 DEF DataLast
  <2>5. CASE End1 \/ End2
      BY <2>5 DEF End1, End2
  <2>6. CASE End3
      BY <2>6 DEF End3, NullUg
  <2>7. CASE PowerLoss
      BY <2>7 DEF PowerLoss, persistent, NullUg
  <2>8. CASE UNCHANGED vars
      BY <2>8 DEF vars, persistent
  <2> QED
      BY <2>1, <2>2, <2>3, <2>4, <2>5, <2>6, <2>7, <2>8 DEF Next, Ota, EndRest, Reset
<1>3. LoaderInv => LoaderIntact
    BY DEF LoaderInv, LoaderIntact
<1> QED
    BY <1>1, <1>2, <1>3, PTL DEF Spec
=============================================================================

----------------------------- MODULE MCOtaBoot -----------------------------
(* Instance of OtaBoot for TLC. Three versions are enough for a package to *)
(* be older than, equal to and newer than the accepted one.                *)
EXTENDS OtaBoot

MCVersions == {1, 2, 3}

(* A caller that honours the results, with images validated or not and     *)
(* failing accesses of three kinds (those of end_notify, all but the first *)
(* of these, or any); and a caller that does as it likes on a device that  *)
(* validates its images.                                                   *)
MCSettings ==
    [verify : BOOLEAN, fail : {EndSites, Sites \ {"end1"}, Sites}, disciplined : {TRUE}]
    \cup {[verify |-> TRUE, fail |-> EndSites, disciplined |-> FALSE]}
=============================================================================

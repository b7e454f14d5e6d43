------------------------------ MODULE KvStore ------------------------------
(***************************************************************************)
(* What nvds_flash.h promises of the NVDS key-value store, with the limits *)
(* the implementation really has: a call takes effect when it returns, a   *)
(* refused put has already dropped the old value, and a power loss or a    *)
(* failed flash access may cut a call short and leave the store worn.  The *)
(* call that is cut short forgets at most what it had in flight.  A worn   *)
(* store promises little until it is cleaned: an accepted put may not be   *)
(* read back and an old value may return (against nvds_flash.h, see        *)
(* AcceptedReadBack and DeletedStays of Nvds), but a key that was not put  *)
(* since the last cleaning is never found.                                 *)
(***************************************************************************)

CONSTANTS Keys, Values, NoVal

VARIABLES
    store,   \* the value nvds_data_get returns for each key
    req,     \* the call in progress, NoReq when the mutex is free
    res,     \* what the last call returned
    touched, \* the keys put since the last cleaning
    worn     \* a call was cut short and left something half done

vars == <<store, req, res, touched, worn>>

NoReq == [call |-> "none"]
Nothing == [k \in Keys |-> NoVal]

Requests == [call : {"put"}, key : Keys, val : Values]
              \cup [call : {"del"}, key : Keys] \cup {[call |-> "clean"]}

\* The stores that agree with t except for keys they have forgotten.
Forgetting(t) ==
    {u \in [Keys -> Values \cup {NoVal}] : \A k \in Keys : u[k] \in {t[k], NoVal}}

\* What a worn store may hold.
Leftovers ==
    {u \in [Keys -> Values \cup {NoVal}] : \A k \in Keys \ touched : u[k] = NoVal}

\* A sound store becomes what the call asks for.
Becomes(t) == store' \in IF worn THEN Leftovers ELSE {t}

Without == [store EXCEPT ![req.key] = NoVal]

Init ==
    /\ store = Nothing
    /\ req = NoReq
    /\ res = "none"
    /\ touched = {}
    /\ worn = FALSE

Call(r) ==
    /\ req = NoReq
    /\ req' = r
    /\ res' = "none"
    /\ touched' = IF r.call = "put" THEN touched \cup {r.key} ELSE touched
    /\ UNCHANGED <<store, worn>>

Return(rc) ==
    /\ req' = NoReq
    /\ res' = rc
    /\ UNCHANGED <<touched, worn>>

PutOk ==
    /\ req.call = "put"
    /\ Becomes([store EXCEPT ![req.key] = req.val])
    /\ Return("ok")

PutRefused ==
    /\ req.call = "put"
    /\ Becomes(Without)
    /\ Return("nospace")

\* Only a worn store holds a page or an element that a call gives up on.
GiveUp ==
    /\ req.call \in {"put", "del"}
    /\ worn
    /\ store' \in Leftovers
    /\ Return("fail")

DelOk ==
    /\ req.call = "del"
    /\ worn \/ store[req.key] # NoVal
    /\ Becomes(Without)
    /\ Return("ok")

DelNotFound ==
    /\ req.call = "del"
    /\ store[req.key] = NoVal
    /\ Return("notfound")
    /\ UNCHANGED store

\* Cleaning also makes a worn store sound.
Clean ==
    /\ req.call = "clean"
    /\ store' = Nothing
    /\ req' = NoReq
    /\ res' = "ok"
    /\ touched' = {}
    /\ worn' = FALSE

\* A call that is cut short and leaves something half done.  The put in
\* progress may already have taken effect.
CutShort ==
    /\ worn' = TRUE
    /\ \/ store' \in Forgetting(store)
       \/ req.call = "put" /\ store' \in Forgetting([store EXCEPT ![req.key] = req.val])
       \/ worn /\ store' \in Leftovers

\* A flash access fails, which the call may answer as if the store were full.
Fault ==
    /\ req # NoReq
    /\ \/ CutShort
       \/ UNCHANGED <<store, worn>>
       \/ req.call = "put" /\ Becomes(Without) /\ UNCHANGED worn
    /\ req' = NoReq
    /\ res' \in {"iofail", "nospace"}
    /\ UNCHANGED touched

\* Between calls a power loss costs a sound store nothing, if it can be read.
PowerLoss ==
    /\ \/ CutShort
       \/ req = NoReq /\ UNCHANGED <<store, worn>>
    /\ req' = NoReq
    /\ res' = "none"
    /\ UNCHANGED touched

Next ==
    \/ \E r \in Requests : Call(r)
    \/ PutOk \/ PutRefused \/ GiveUp \/ DelOk \/ DelNotFound \/ Clean
    \/ Fault \/ PowerLoss

Spec == Init /\ [][Next]_vars
=============================================================================

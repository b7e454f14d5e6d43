---------------------------- MODULE UartTxProofs ----------------------------
(***************************************************************************)
(* Proofs about UartTx, for any number of writers, writes of any length    *)
(* and every interleaving with the handler and the configuration calls:    *)
(* types, and that stop mode truncates a byte only in the windows that     *)
(* CutOnlyDisturbed names.                                                 *)
(***************************************************************************)
EXTENDS UartTx, TLAPS

(* Lemma: the history variable keeps its type.                             *)
LEMMA DisturbsType ==
    ASSUME disturbed \subseteq {"taken", "switched"},
           NEW how \in SUBSET {"taken", "switched"}, Disturbs(how)
    PROVE  disturbed' \subseteq {"taken", "switched"}
BY DEF Disturbs

(* The types are kept for every length of a write.                         *)
THEOREM TypeCorrect == Spec => []TypeOK
<1>1. Init => TypeOK
  <2> SUFFICES ASSUME Init PROVE TypeOK
    OBVIOUS
  <2>1. {open, irqOn, txEn, tcie, vote, deep} \subseteq BOOLEAN
    BY DEF Init
  <2>2. wire \in 0..Depth /\ left \in [Writers -> 0..MaxLen] /\ pc \in [Writers -> Stages]
    BY MaxLenAssumption DEF Init, Depth, Stages
  <2> QED  BY <2>1, <2>2 DEF Init, TypeOK
<1>2. TypeOK /\ [Next]_vars => TypeOK'
  <2> SUFFICES ASSUME TypeOK, [Next]_vars PROVE TypeOK'
    OBVIOUS
  <2> USE MaxLenAssumption DEF TypeOK, Depth, port
  <2>1. ASSUME NEW ok \in BOOLEAN, UartInit(ok) PROVE TypeOK'
    <3>1. disturbed' \subseteq {"taken", "switched"}
      BY <2>1, DisturbsType DEF UartInit
    <3>2. wire' = 0
      BY <2>1 DEF UartInit
    <3>3. open' \in BOOLEAN /\ tcie' \in BOOLEAN
      BY <2>1, Zenon DEF UartInit
    <3>4. wire' \in 0..Depth
      BY <3>2
    <3> QED  BY <2>1, <3>1, <3>3, <3>4, Zenon DEF UartInit
  <2>2. CASE UartDeinit
    <3>1. disturbed' \subseteq {"taken", "switched"}
      BY <2>2, DisturbsType DEF UartDeinit
    <3>2. wire' = 0
      BY <2>2 DEF UartDeinit
    <3>3. open' \in BOOLEAN /\ tcie' \in BOOLEAN
      BY <2>2, Zenon DEF UartDeinit
    <3>4. wire' \in 0..Depth
      BY <3>2
    <3> QED  BY <2>2, <3>1, <3>3, <3>4, Zenon DEF UartDeinit
  <2>3. CASE TxIrqCbReg
    <3>1. (tcie \/ open) \in BOOLEAN
      OBVIOUS
    <3> QED  BY <2>3, <3>1 DEF TxIrqCbReg
  <2>4. ASSUME NEW enable \in BOOLEAN, SetTxInt(enable) PROVE TypeOK'
    <3>1. (vote /\ enable) \in BOOLEAN /\ (enable /\ open) \in BOOLEAN
      OBVIOUS
    <3>2. disturbed' \subseteq {"taken", "switched"}
      <4>1. (IF txEn # enable THEN {"switched"} ELSE {}) \in SUBSET {"taken", "switched"}
        OBVIOUS
      <4> QED  BY <2>4, <4>1, DisturbsType DEF SetTxInt
    <3> QED  BY <2>4, <3>1, <3>2 DEF SetTxInt
  <2>5. ASSUME NEW w \in Writers, NEW n \in 1..MaxLen, WriteStart(w, n) PROVE TypeOK'
    BY <2>5 DEF WriteStart, Stages
  <2>6. ASSUME NEW w \in Writers, Write(w) PROVE TypeOK'
    <3>1. CASE HoldVote(w)
      BY <3>1 DEF HoldVote, Stages
    <3>2. CASE LoadByte(w)
      BY <3>2 DEF LoadByte
    <3>3. CASE WriteEnd(w)
      BY <3>3, DisturbsType DEF WriteEnd, Stages
    <3>4. CASE DrainEnd(w)
      BY <3>4, DisturbsType DEF DrainEnd, Stages
    <3> QED  BY <2>6, <3>1, <3>2, <3>3, <3>4 DEF Write
  <2>7. CASE ShiftOut
    BY <2>7, DisturbsType DEF ShiftOut
  <2>8. ASSUME NEW cb \in Callbacks, TcIsr(cb) PROVE TypeOK'
    <3>1. txEn' \in BOOLEAN /\ vote' \in BOOLEAN /\ wire' \in 0..Depth
      <4>1. txEn' \in {TRUE, FALSE, txEn}
        BY <2>8 DEF TcIsr
      <4>2. (cb = "write" /\ txEn) \in BOOLEAN
        OBVIOUS
      <4>3. wire' \in 1..2 \/ wire' = 0
        BY <2>8 DEF TcIsr
      <4>4. vote' \in BOOLEAN
        BY <2>8, <4>2 DEF TcIsr
      <4>5. wire' \in 0..Depth
        BY <4>3
      <4> QED  BY <4>1, <4>4, <4>5
    <3>2. disturbed' \subseteq {"taken", "switched"}
      BY <2>8, DisturbsType DEF TcIsr
    <3> QED  BY <2>8, <3>1, <3>2 DEF TcIsr
  <2>9. CASE DeepSleep \/ Wake
    BY <2>9 DEF DeepSleep, Wake
  <2>10. CASE UNCHANGED vars
    BY <2>10 DEF vars
  <2> QED
    BY <2>1, <2>2, <2>3, <2>4, <2>5, <2>6, <2>7, <2>8, <2>9, <2>10 DEF Next, Configure, Handler
<1> QED  BY <1>1, <1>2, PTL DEF Spec

-----------------------------------------------------------------------------
(* What protects the bytes of an undisturbed transmission. With the        *)
(* transmit interrupt on, a write that still has bytes to load and bytes   *)
(* on the wire have the vote, and nobody drains; with it off nobody takes  *)
(* the vote, and the bytes are out when the last writer returns.           *)
Guarded ==
    IF txEn
    THEN /\ ~TC \/ Loading => vote
         /\ \A w \in Writers : pc[w] # "drain"
    ELSE /\ \A w \in Writers : pc[w] # "hold"
         /\ AllIdle => TC

Covered ==
    /\ disturbed = {} => Guarded
    /\ deep => AllIdle /\ ~vote

(* Lemma: at rest the bytes are covered.                                   *)
LEMMA RestGuarded == AtRest' => Guarded'
BY DEF AtRest, AllIdle, TC, Guarded, Loading

(* Lemma: a transmission that is not disturbed by a step was not before.   *)
LEMMA Undisturbed ==
    ASSUME NEW how, Disturbs(how), disturbed' = {}, ~AtRest'
    PROVE  disturbed = {} /\ how = {}
BY DEF Disturbs

(* Lemma: a step of a configuration call keeps the bytes covered.          *)
LEMMA ConfigureCovered ==
    ASSUME TypeOK, Covered, Configure
    PROVE  Covered'
<1>1. ~deep /\ ~deep' /\ pc' = pc /\ left' = left
  BY DEF Configure, UartInit, UartDeinit, TxIrqCbReg, SetTxInt
<1>2. SUFFICES ASSUME disturbed' = {} PROVE Guarded'
  BY <1>1 DEF Covered
<1>3. CASE AtRest'
  BY <1>3, RestGuarded
<1>4. CASE ~AtRest'
  <2>1. ASSUME UartDeinit \/ \E ok \in BOOLEAN : UartInit(ok) PROVE Guarded'
    <3>1. disturbed = {} /\ txEn' = txEn /\ wire' = 0 /\ vote' = vote
      BY <1>2, <1>4, <2>1, Undisturbed DEF UartDeinit, UartInit
    <3> QED  BY <1>1, <3>1 DEF Covered, Guarded, Loading, AllIdle, TC
  <2>2. ASSUME TxIrqCbReg PROVE Guarded'
    BY <1>1, <1>2, <2>2 DEF TxIrqCbReg, Covered, Guarded, Loading, AllIdle, TC
  <2>3. ASSUME NEW enable \in BOOLEAN, SetTxInt(enable) PROVE Guarded'
    <3>1. disturbed = {} /\ enable = txEn
      BY <1>2, <1>4, <2>3, Undisturbed DEF SetTxInt
    <3>2. txEn' = txEn /\ wire' = wire /\ (txEn => vote' = vote)
      BY <2>3, <3>1 DEF SetTxInt, TypeOK
    <3> QED  BY <1>1, <3>1, <3>2 DEF Covered, Guarded, Loading, AllIdle, TC
  <2> QED  BY <2>1, <2>2, <2>3 DEF Configure
<1> QED  BY <1>3, <1>4

(* Lemma: a step of a writer keeps the bytes covered.                      *)
LEMMA WriterCovered ==
    ASSUME TypeOK, Covered, NEW w \in Writers,
           Write(w) \/ \E n \in 1..MaxLen : WriteStart(w, n)
    PROVE  Covered'
<1>1. ~deep /\ ~deep' /\ txEn' = txEn
  BY DEF Covered, AllIdle, Write, WriteStart, HoldVote, LoadByte, WriteEnd, DrainEnd, port
<1>2. SUFFICES ASSUME disturbed' = {} PROVE Guarded'
  BY <1>1 DEF Covered
<1> USE DEF TypeOK
<1>3. CASE HoldVote(w)
  BY <1>1, <1>2, <1>3 DEF HoldVote, Covered, Guarded, Loading, AllIdle, TC, port
<1>4. CASE LoadByte(w)
  <2>1. disturbed = {} /\ Guarded /\ vote' = vote /\ pc' = pc /\ pc[w] # "idle" /\ (txEn => vote)
    BY <1>2, <1>4 DEF LoadByte, Covered, Guarded, Loading
  <2> QED  BY <1>1, <2>1 DEF Guarded, AllIdle
<1>5. ASSUME NEW n \in 1..MaxLen, WriteStart(w, n) PROVE Guarded'
  <2>1. /\ disturbed = {} /\ wire' = wire /\ vote' = vote
        /\ pc'[w] = (IF txEn THEN "hold" ELSE "load") /\ \A u \in Writers \ {w} : pc'[u] = pc[u] /\ left'[u] = left[u]
    BY <1>2, <1>5 DEF WriteStart
  <2>2. Guarded
    BY <2>1 DEF Covered
  <2>3. CASE txEn
    <3>1. Loading' => Loading
      BY <2>1, <2>3 DEF Loading
    <3>2. \A u \in Writers : pc'[u] # "drain"
      BY <2>1, <2>2, <2>3 DEF Guarded
    <3> QED  BY <1>1, <2>1, <2>2, <2>3, <3>1, <3>2 DEF Guarded, TC
  <2>4. CASE ~txEn
    BY <1>1, <2>1, <2>2, <2>4 DEF Guarded, AllIdle
  <2> QED  BY <2>3, <2>4
<1>6. CASE WriteEnd(w) \/ DrainEnd(w)
  <2>1. CASE AtRest'
    BY <2>1, RestGuarded
  <2>2. CASE ~AtRest'
    <3>1. disturbed = {}
      BY <1>2, <1>6, <2>2, Undisturbed DEF WriteEnd, DrainEnd
    <3>2. Guarded
      BY <3>1 DEF Covered
    <3>3. /\ wire' = wire /\ vote' = vote /\ left' = left
          /\ pc'[w] \in {"idle", "drain"} /\ \A u \in Writers \ {w} : pc'[u] = pc[u]
          /\ txEn => pc'[w] = "idle"
          /\ pc'[w] = "idle" => txEn \/ TC
      BY <1>6 DEF WriteEnd, DrainEnd
    <3>4. CASE txEn
      <4>1. Loading' => Loading
        BY <3>3 DEF Loading
      <4>2. \A u \in Writers : pc'[u] # "drain"
        BY <3>2, <3>3, <3>4 DEF Guarded
      <4> QED  BY <1>1, <3>2, <3>3, <3>4, <4>1, <4>2 DEF Guarded, TC
    <3>5. CASE ~txEn
      BY <1>1, <3>2, <3>3, <3>5 DEF Guarded, AllIdle, TC
    <3> QED  BY <3>4, <3>5
  <2> QED  BY <2>1, <2>2
<1> QED  BY <1>3, <1>4, <1>5, <1>6 DEF Write

(* Lemma: the handler keeps the bytes covered.                             *)
LEMMA HandlerCovered ==
    ASSUME TypeOK, Covered, NEW cb \in Callbacks, TcIsr(cb)
    PROVE  Covered'
<1>1. ~deep /\ ~deep' /\ pc' = pc /\ left' = left /\ TC
  BY DEF TcIsr, TcRaised
<1>2. SUFFICES ASSUME disturbed' = {}, ~AtRest' PROVE Guarded'
  BY <1>1, RestGuarded DEF Covered
<1>3. disturbed = {} /\ ~Loading /\ txEn' = txEn
  <2>1. PICK how : /\ how = {x \in {"taken", "switched"} :
                                  IF x = "taken" THEN Loading ELSE txEn' # txEn}
                   /\ Disturbs(how)
    BY DEF TcIsr
  <2>2. disturbed = {} /\ how = {}
    BY <1>2, <2>1, Undisturbed
  <2> QED  BY <2>1, <2>2
<1>4. Guarded /\ ~Loading'
  BY <1>1, <1>3 DEF Covered, Loading
<1>5. CASE cb = "write" /\ txEn
  BY <1>1, <1>3, <1>4, <1>5 DEF TcIsr, Guarded
<1>6. CASE ~(cb = "write" /\ txEn)
  <2>1. wire' = 0
    BY <1>6 DEF TcIsr
  <2> QED  BY <1>1, <1>3, <1>4, <2>1 DEF Guarded, AllIdle, TC
<1> QED  BY <1>5, <1>6

(* Stop mode truncates a byte only when, since the port was last at rest,  *)
(* TC took the vote of a write with bytes to load or the transmit          *)
(* interrupt was switched: with any number of writers, writes of any       *)
(* length, and ports closed, reset and configured at any moment.           *)
THEOREM CutsAreDisturbed == Spec => []CutOnlyDisturbed
<1>1. Init => Covered
  BY DEF Init, Covered, Guarded, AllIdle, TC
<1>2. TypeOK /\ Covered /\ [Next]_vars => Covered'
  <2> SUFFICES ASSUME TypeOK, Covered, [Next]_vars PROVE Covered'
    OBVIOUS
  <2>1. CASE Configure
    BY <2>1, ConfigureCovered
  <2>2. ASSUME NEW w \in Writers, Write(w) \/ \E n \in 1..MaxLen : WriteStart(w, n) PROVE Covered'
    BY <2>2, WriterCovered
  <2>3. CASE ShiftOut
    <3>1. ~deep /\ ~deep' /\ pc' = pc /\ left' = left /\ txEn' = txEn /\ vote' = vote /\ wire > 0
      BY <2>3 DEF ShiftOut, port
    <3>2. ASSUME disturbed' = {} PROVE Guarded'
      <4>1. CASE AtRest'
        BY <4>1, RestGuarded
      <4>2. CASE ~AtRest'
        <5>1. disturbed = {}
          BY <2>3, <3>2, <4>2, Undisturbed DEF ShiftOut
        <5>2. Guarded
          BY <5>1 DEF Covered
        <5>3. ~TC
          BY <3>1 DEF TC
        <5> QED  BY <3>1, <5>2, <5>3 DEF Guarded, Loading, AllIdle, TC
      <4> QED  BY <4>1, <4>2
    <3> QED  BY <3>1, <3>2 DEF Covered
  <2>4. ASSUME NEW cb \in Callbacks, TcIsr(cb) PROVE Covered'
    BY <2>4, HandlerCovered
  <2>5. CASE DeepSleep \/ Wake
    BY <2>5 DEF DeepSleep, Wake, Covered, Guarded, Loading, AllIdle, TC, port
  <2>6. CASE UNCHANGED vars
    BY <2>6 DEF vars, Covered, Guarded, Loading, AllIdle, TC
  <2> QED  BY <2>1, <2>2, <2>3, <2>4, <2>5, <2>6 DEF Next, Handler
<1>3. TypeOK /\ Covered => CutOnlyDisturbed
  BY DEF Covered, Guarded, CutOnlyDisturbed
<1> QED  BY <1>1, <1>2, <1>3, TypeCorrect, PTL DEF Spec
=============================================================================

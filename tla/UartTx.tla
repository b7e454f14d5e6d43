------------------------------- MODULE UartTx -------------------------------
(***************************************************************************)
(* Transmission on one UART port (tkl_uart.c) against stop mode, which     *)
(* truncates a byte still on the wire. A write either waits for the        *)
(* transmit-complete flag TC or, with the transmit interrupt on, returns   *)
(* early and leaves a clock vote that the TC interrupt drops.              *)
(*                                                                         *)
(* The transmitter is external: a holding and a shift register, TC set     *)
(* while both are empty and cleared by loading a byte; its interrupt is    *)
(* raised for as long as TC and its enable bit are both set, so also on a  *)
(* wire that has been idle all along. The vote stands for what PeriBusy    *)
(* makes of it: stop mode is entered only while it is not held. Tasks may  *)
(* preempt each other between any two steps, on the same port too, and the *)
(* handler may run between any two.                                        *)
(***************************************************************************)
EXTENDS Naturals

CONSTANTS
    Writers,  \* the tasks that write to the port
    MaxLen    \* the longest write, in bytes

ASSUME MaxLenAssumption == MaxLen \in Nat \ {0}

VARIABLES
    open,     \* the port is initialised
    irqOn,    \* the port's interrupt line is enabled
    txEn,     \* uart_tx_int_en
    tcie,     \* USART_INT_TC is enabled
    wire,     \* bytes in the holding and shift registers
    left,     \* bytes each tkl_uart_write still has to load
    pc,       \* where each writer is: Stages
    vote,     \* uart_tx_vote
    deep,     \* the core is in stop mode
    disturbed \* history, since the port was last at rest: "taken", TC dropped the
              \* vote of a write with bytes to load; "switched", the transmit
              \* interrupt was switched under a transmission

vars == <<open, irqOn, txEn, tcie, wire, left, pc, vote, deep, disturbed>>
port == <<open, irqOn, txEn, tcie>>

Depth == 2   \* the holding register and the shift register
TC == wire = 0
Stages == {"idle", "hold", "load", "drain"}

TypeOK ==
    /\ open \in BOOLEAN /\ irqOn \in BOOLEAN /\ txEn \in BOOLEAN /\ tcie \in BOOLEAN
    /\ wire \in 0..Depth
    /\ left \in [Writers -> 0..MaxLen]
    /\ pc \in [Writers -> Stages]
    /\ vote \in BOOLEAN /\ deep \in BOOLEAN /\ disturbed \subseteq {"taken", "switched"}

Init ==
    /\ open = FALSE /\ irqOn = FALSE /\ txEn = FALSE /\ tcie = FALSE
    /\ wire = 0 /\ left = [w \in Writers |-> 0] /\ pc = [w \in Writers |-> "idle"]
    /\ vote = FALSE /\ deep = FALSE /\ disturbed = {}

-----------------------------------------------------------------------------
AllIdle == \A w \in Writers : pc[w] = "idle"
AtRest == AllIdle /\ TC
Loading == \E w \in Writers : pc[w] = "load" /\ left[w] > 0

(* The history variable: a step that may disturb a transmission, and the   *)
(* end of the transmission.                                                *)
Disturbs(how) == disturbed' = IF AtRest' THEN {} ELSE disturbed \cup how

(* tkl_uart_init and tkl_uart_deinit both reset the peripheral and leave   *)
(* uart_tx_int_en and the vote as they are. An init that is asked for      *)
(* other than 8 data bits gives up after the reset (ok = FALSE).           *)
UartInit(ok) ==
    /\ ~deep
    /\ open' = ok /\ tcie' = FALSE /\ wire' = 0
    /\ UNCHANGED <<irqOn, txEn, left, pc, vote, deep>>
    /\ Disturbs({})

UartDeinit ==
    /\ ~deep
    /\ open' = FALSE /\ tcie' = FALSE /\ wire' = 0
    /\ UNCHANGED <<irqOn, txEn, left, pc, vote, deep>>
    /\ Disturbs({})

(* tkl_uart_tx_irq_cb_reg. *)
TxIrqCbReg ==
    /\ ~deep
    /\ irqOn' = TRUE /\ tcie' = (tcie \/ open)
    /\ UNCHANGED <<open, txEn, wire, left, pc, vote, deep, disturbed>>

(* tkl_uart_set_tx_int. *)
SetTxInt(enable) ==
    /\ ~deep
    /\ txEn' = enable /\ tcie' = (enable /\ open)
    /\ vote' = (vote /\ enable)
    /\ UNCHANGED <<open, irqOn, wire, left, pc, deep>>
    /\ Disturbs(IF txEn # enable THEN {"switched"} ELSE {})

(* tkl_uart_write: read uart_tx_int_en, hold the vote, load byte by byte   *)
(* as TBE allows, read uart_tx_int_en again and wait for TC if it is off.  *)
WriteStart(w, n) ==
    /\ ~deep /\ open /\ pc[w] = "idle"
    /\ left' = [left EXCEPT ![w] = n]
    /\ pc' = [pc EXCEPT ![w] = IF txEn THEN "hold" ELSE "load"]
    /\ UNCHANGED <<port, wire, vote, deep, disturbed>>

(* Wrong variant: no vote is taken. *)
HoldNothing(w) ==
    /\ pc[w] = "hold"
    /\ pc' = [pc EXCEPT ![w] = "load"]
    /\ UNCHANGED <<port, wire, left, vote, deep, disturbed>>

HoldVote(w) ==
    /\ pc[w] = "hold"
    /\ vote' = TRUE
    /\ pc' = [pc EXCEPT ![w] = "load"]
    /\ UNCHANGED <<port, wire, left, deep, disturbed>>

(* A port that was reset under the write takes the bytes to nowhere.       *)
LoadByte(w) ==
    /\ pc[w] = "load" /\ left[w] > 0
    /\ wire < Depth
    /\ wire' = IF open THEN wire + 1 ELSE wire
    /\ left' = [left EXCEPT ![w] = @ - 1]
    /\ UNCHANGED <<port, pc, vote, deep, disturbed>>

WriteEnd(w) ==
    /\ pc[w] = "load" /\ left[w] = 0
    /\ pc' = [pc EXCEPT ![w] = IF txEn THEN "idle" ELSE "drain"]
    /\ UNCHANGED <<port, wire, left, vote, deep>>
    /\ Disturbs({})

DrainEnd(w) ==
    /\ pc[w] = "drain" /\ TC
    /\ pc' = [pc EXCEPT ![w] = "idle"]
    /\ UNCHANGED <<port, wire, left, vote, deep>>
    /\ Disturbs({})

(* The transmitter moves a byte out; it stands still in stop mode.         *)
ShiftOut ==
    /\ ~deep /\ wire > 0
    /\ wire' = wire - 1
    /\ UNCHANGED <<port, left, pc, vote, deep>>
    /\ Disturbs({})

(* tuya_uart_irq_hdl on TC: interrupt off, vote dropped, callback,         *)
(* interrupt on again. The callback may switch the transmit interrupt or   *)
(* write from the handler: its bytes are loaded, and the vote taken or TC  *)
(* waited for, before it returns.                                          *)
Callbacks == {"none", "on", "off", "write"}

TcRaised == ~deep /\ open /\ irqOn /\ tcie /\ TC

(* Wrong variant: the handler keeps the vote. *)
TcIsrKeepsVote(cb) ==
    /\ TcRaised /\ cb = "none"
    /\ UNCHANGED vars

TcIsr(cb) ==
    /\ TcRaised
    /\ txEn' = CASE cb = "on" -> TRUE [] cb = "off" -> FALSE [] OTHER -> txEn
    /\ vote' = (cb = "write" /\ txEn)
    /\ wire' \in IF cb = "write" /\ txEn THEN 1..Depth ELSE {0}
    /\ tcie' = TRUE
    /\ UNCHANGED <<open, irqOn, left, pc, deep>>
    /\ Disturbs({how \in {"taken", "switched"} :
                     IF how = "taken" THEN Loading ELSE txEn' # txEn})

(* The idle task runs while no writer is in a call (every loop of the      *)
(* write spins), and enters stop mode unless the vote is held.             *)
DeepSleep ==
    /\ ~deep /\ AllIdle /\ ~vote
    /\ deep' = TRUE
    /\ UNCHANGED <<port, wire, left, pc, vote, disturbed>>

Wake ==
    /\ deep
    /\ deep' = FALSE
    /\ UNCHANGED <<port, wire, left, pc, vote, disturbed>>

Configure == \/ \E ok \in BOOLEAN : UartInit(ok)
             \/ UartDeinit \/ TxIrqCbReg
             \/ \E enable \in BOOLEAN : SetTxInt(enable)
Write(w) == HoldVote(w) \/ LoadByte(w) \/ WriteEnd(w) \/ DrainEnd(w)
Handler == \E cb \in Callbacks : TcIsr(cb)

Next ==
    \/ Configure
    \/ \E w \in Writers : Write(w) \/ \E n \in 1..MaxLen : WriteStart(w, n)
    \/ ShiftOut \/ Handler
    \/ DeepSleep \/ Wake

Spec == Init /\ [][Next]_vars

(* The hardware transmits, the interrupt is served, a write runs on, and   *)
(* something wakes the core; what the application calls is up to it.       *)
FairSpec == /\ Spec
            /\ WF_vars(ShiftOut) /\ WF_vars(Handler)
            /\ \A w \in Writers : WF_vars(Write(w))
            /\ WF_vars(Wake)

-----------------------------------------------------------------------------
(* No byte is on the wire in stop mode: a write in flight is never         *)
(* truncated, since the vote stays until "the isr that sees TC"            *)
(* (tkl_uart.c:55-56). The code does not keep this: tkl_uart_set_tx_int    *)
(* drops the vote with bytes on the wire, and called in the middle of a    *)
(* write it leaves it with neither guard.                                  *)
FrameNotCut == deep => TC

(* The same where the transmit interrupt is left alone: when the handler   *)
(* drops the vote "the wire is idle now" (tkl_uart.c:545). The code does   *)
(* not keep this either: TC is also set before a write's first byte.       *)
SteadyNotCut == deep /\ ~TC => "switched" \in disturbed

(* What the code does keep: types, and that stop mode truncates a byte     *)
(* only if, during that transmission, TC dropped the vote of a write with  *)
(* bytes still to load, or the transmit interrupt was switched (the wait   *)
(* for TC and the vote of tkl_uart.c:506-521, the handler at 543-554).     *)
CutOnlyDisturbed == TypeOK /\ (deep /\ ~TC => disturbed # {})

(* From some point on no callback writes from the handler.                 *)
NoEndlessChain == <>[][~TcIsr("write")]_vars

(* A transmission that ends on an open port with its interrupt on gives    *)
(* its vote back, however it and the calls before it interleaved (the      *)
(* release in tuya_uart_irq_hdl, tkl_uart.c:546).                          *)
VoteReturns ==
    NoEndlessChain /\ <>[](AllIdle /\ open /\ irqOn /\ tcie) => []<>~vote

(* A vote is never stranded once the calls have ended: "do not strand the  *)
(* vote" (tkl_uart.c:744). The code does not keep this where the port is   *)
(* closed or set up anew, or the interrupt turned off between a writer's   *)
(* check and its hold.                                                     *)
NotStranded ==
    NoEndlessChain /\ <>[](AllIdle /\ irqOn) /\ <>[][~Configure]_vars => []<>~vote
=============================================================================

----------------------------- MODULE SpiDriver -----------------------------
(***************************************************************************)
(* The SPI driver (tkl_spi.c): one transfer at a time, moved by two DMA    *)
(* channels, ended either by interrupt handlers that report an event to    *)
(* the client's callback, or by polling when interrupts are off.           *)
(*                                                                         *)
(* op_msk, the clock vote and the hardware switches form the record drv;   *)
(* the handlers are functions of that record, because a callback they make *)
(* may start the next transfer before they go on, whatever event it is     *)
(* told of. The three handlers share one priority, so each runs to         *)
(* completion. The DMA controller and the SPI shift register are external: *)
(* transfers may fail at any point, and the TBE flag is set whenever the   *)
(* data buffer is empty, so its interrupt may come as soon as it is        *)
(* enabled. A pending interrupt is served before the task goes on. The     *)
(* client starts a transfer, or reconfigures the port, only when its last  *)
(* transfer has been concluded, and its callback starts none while it is   *)
(* stopping one; it may abort or close the port at any time.               *)
(***************************************************************************)
EXTENDS Naturals

VARIABLES
    irqEn,  \* spi_irq_en
    duplex, \* spi_env_info.role is MASTER or SLAVE, not a simplex role
    drv,    \* spi_env_info.op_msk, spi_vote and the hardware
    req,    \* the transfer the client waits for, or "none"
    pc,     \* where the calling task is
    missed  \* history: why the transfer in req may never be reported. "late",
            \* "lost": it was started in a callback after which op_msk is
            \* cleared, for DATA_LOST if "lost"; "early": the SPI interrupt
            \* came before a send had set op_msk

driverVars == <<irqEn, duplex, drv, req, pc, missed>>
config == <<irqEn, duplex>>

-----------------------------------------------------------------------------
OpBits == {"SEND", "RECV", "TRANS_SEND", "TRANS_RECV", "DMA_SEND_CMPLT"}
Channel == {"off", "busy", "ftf", "fee"}
Reqs == {"none", "send", "recv", "transfer"}

DriverTypeOK ==
    /\ drv \in [op : SUBSET OpBits, vote : BOOLEAN, on : BOOLEAN,
                tbe : BOOLEAN, err : BOOLEAN,       \* SPI interrupts enabled
                tx : Channel, rx : Channel,         \* DMA_CH4, DMA_CH0
                shifting : BOOLEAN,                 \* SPI_FLAG_TRANS
                fault : {"none", "ovr", "conf"}]    \* RXORERR, CONFERR
    /\ irqEn \in BOOLEAN /\ duplex \in BOOLEAN
    /\ req \in Reqs
    /\ pc \in {"idle", "launch_send", "launch_recv", "poll", "abort", "deinit"}
    /\ missed \in {"no", "late", "lost", "early"}

DriverInit ==
    /\ drv = [op |-> {}, vote |-> FALSE, on |-> FALSE, tbe |-> FALSE, err |-> FALSE,
              tx |-> "off", rx |-> "off", shifting |-> FALSE, fault |-> "none"]
    /\ irqEn = FALSE /\ duplex \in BOOLEAN
    /\ req = "none"
    /\ pc = "idle"
    /\ missed = "no"

-----------------------------------------------------------------------------
(* Starting: a simplex call clears old error flags and enables the SPI     *)
(* interrupts up front; the rest of the call goes from op_msk to           *)
(* spi_enable.                                                             *)
OpOf(k) == CASE k = "send" -> {"SEND"}
             [] k = "recv" -> {"RECV"}
             [] k = "transfer" -> {"TRANS_SEND", "TRANS_RECV"}

IrqsOn(d, k) == [d EXCEPT !.fault = "none",
                          !.tbe = @ \/ (irqEn /\ k = "send"),
                          !.err = @ \/ (irqEn /\ k # "transfer")]

(* Wrong variant: no vote is taken. *)
LaunchedUnvoted(d, k) ==
    [d EXCEPT !.op = OpOf(k), !.on = TRUE, !.err = @ \/ (irqEn /\ k = "transfer"),
              !.tx = IF k = "recv" THEN @ ELSE "busy",
              !.rx = IF k = "send" THEN @ ELSE "busy",
              !.shifting = FALSE, !.fault = "none"]

Launched(d, k) ==
    [d EXCEPT !.op = OpOf(k), !.vote = TRUE, !.on = TRUE,
              !.err = @ \/ (irqEn /\ k = "transfer"),
              !.tx = IF k = "recv" THEN @ ELSE "busy",
              !.rx = IF k = "send" THEN @ ELSE "busy",
              !.shifting = FALSE, !.fault = "none"]

(* A channel whose requests are off moves nothing, and is set up anew      *)
(* before it is used again; a flag it has raised stays.                    *)
Unfed(ch) == IF ch = "busy" THEN "off" ELSE ch

(* Wrong variant: the handlers keep the vote. *)
ClosedVoted(d) ==
    IF d.op # {} THEN d
    ELSE [d EXCEPT !.on = FALSE, !.tbe = FALSE, !.err = FALSE,
                   !.tx = Unfed(@), !.rx = Unfed(@)]

(* The end of every handler: with op_msk 0 everything is switched off and  *)
(* the vote goes.                                                          *)
CloseIfDone(d) ==
    IF d.op # {} THEN d
    ELSE [d EXCEPT !.on = FALSE, !.tbe = FALSE, !.err = FALSE, !.vote = FALSE,
                   !.tx = Unfed(@), !.rx = Unfed(@)]

(* The client's callback: it may start a transfer k, "none" if it does not.*)
Callback(d, k) == IF k = "none" THEN d ELSE Launched(IrqsOn(d, k), k)
Clear(ch, flag) == IF ch = flag THEN "off" ELSE ch

(* Wrong variants: the transmit side is never taken out of op_msk; op_msk  *)
(* is cleared after the callback.                                          *)
TxStaysMarked(d, k) ==
    CloseIfDone([d EXCEPT !.tx = "off",
                          !.op = IF d.tx = "fee" THEN {}
                                 ELSE IF @ \cap {"TRANS_SEND", "TRANS_RECV"} # {} THEN @
                                 ELSE @ \cup {"DMA_SEND_CMPLT"}])
RxClearsLate(d, k) ==
    LET c == IF "TRANS_SEND" \in d.op THEN d ELSE Callback(d, k)
    IN  CloseIfDone([c EXCEPT !.op = @ \cap {"TRANS_SEND"} \cap d.op,
                              !.rx = Clear(@, d.rx)])

(* What one run of a handler does to drv, and whether it makes an event.   *)
DmaTxEvent(d) == d.tx = "fee" \/ d.op = {"TRANS_SEND"}
DmaTxHandler(d, k) ==
    IF d.tx = "fee"
    THEN LET c == Callback(d, k)
         IN  CloseIfDone([c EXCEPT !.op = {}, !.tx = Clear(@, "fee")])
    ELSE IF d.op \cap {"TRANS_SEND", "TRANS_RECV"} # {}
    THEN LET e == [d EXCEPT !.op = @ \ {"TRANS_SEND"}]
             c == IF e.op = {} THEN Callback(e, k) ELSE e
         IN  CloseIfDone([c EXCEPT !.tx = Clear(@, "ftf")])
    ELSE CloseIfDone([d EXCEPT !.op = @ \cup {"DMA_SEND_CMPLT"}, !.tx = Clear(@, "ftf")])

DmaRxEvent(d) == \/ d.rx = "fee" \/ d.op = {"TRANS_RECV"}
                 \/ d.op \cap {"TRANS_SEND", "TRANS_RECV"} = {}
DmaRxHandler(d, k) ==
    IF d.rx = "fee"
    THEN LET c == Callback(d, k)
         IN  CloseIfDone([c EXCEPT !.op = {}, !.rx = Clear(@, "fee")])
    ELSE LET e == [d EXCEPT !.op = IF @ \cap {"TRANS_SEND", "TRANS_RECV"} # {}
                                   THEN @ \ {"TRANS_RECV"} ELSE {}]
             c == IF e.op = {} THEN Callback(e, k) ELSE e
         IN  CloseIfDone([c EXCEPT !.rx = Clear(@, "ftf")])

SendOver(d) == {"SEND", "DMA_SEND_CMPLT"} \subseteq d.op /\ ~d.shifting
SpiEvent(d) == \/ d.fault = "ovr" /\ d.op # {}
               \/ d.fault = "conf"
               \/ d.fault = "none" /\ SendOver(d)
SpiHandler(d, k) ==
    LET c == IF SpiEvent(d) THEN [Callback(d, k) EXCEPT !.op = {}] ELSE d
    IN  CloseIfDone([c EXCEPT !.fault = "none"])

-----------------------------------------------------------------------------
(* The transfers the role allows: tkl_spi_send and tkl_spi_recv are        *)
(* tkl_spi_transfer with one buffer missing in a duplex role.              *)
Kinds == IF duplex THEN {"transfer"} ELSE {"send", "recv"}

(* An interrupt with something to do is pending.                           *)
Pending == irqEn /\ \/ {drv.tx, drv.rx} \cap {"ftf", "fee"} # {}
                    \/ drv.err /\ drv.fault # "none"
                    \/ drv.tbe /\ SendOver(drv)

TaskRuns == ~Pending

(* tkl_spi_irq_enable and tkl_spi_irq_disable; tkl_spi_init with a role,   *)
(* which resets the SPI and zeroes spi_env_info but not the vote.          *)
SetIrq(b) ==
    /\ TaskRuns /\ pc = "idle" /\ req = "none"
    /\ irqEn' = b
    /\ drv' = IF irqEn /\ ~b THEN [drv EXCEPT !.tbe = FALSE, !.err = FALSE] ELSE drv
    /\ UNCHANGED <<duplex, req, pc, missed>>

SpiInit(r) ==
    /\ TaskRuns /\ pc = "idle" /\ req = "none"
    /\ duplex' = r
    /\ drv' = [drv EXCEPT !.op = {}, !.on = FALSE, !.tbe = FALSE, !.err = FALSE,
                          !.shifting = FALSE, !.fault = "none"]
    /\ UNCHANGED <<irqEn, req, pc, missed>>

(* tkl_spi_send, tkl_spi_recv, tkl_spi_transfer. *)
Begin(k) ==
    /\ TaskRuns /\ pc = "idle" /\ req = "none"
    /\ drv' = IrqsOn(drv, k)
    /\ pc' = IF k = "send" THEN "launch_send" ELSE "launch_recv"
    /\ UNCHANGED <<config, req, missed>>

Launch(k) ==
    /\ pc = (CASE k = "send" -> "launch_send" [] k = "recv" -> "launch_recv"
               [] k = "transfer" -> "idle")
    /\ TaskRuns /\ req = "none"
    /\ drv' = Launched(drv, k)
    /\ req' = k
    /\ pc' = IF irqEn THEN "idle" ELSE "poll"
    /\ missed' = IF k = "send" /\ irqEn /\ ~drv.tbe THEN "early" ELSE "no"
    /\ UNCHANGED config

(* The polling loop sees the transfer's flags, or an error, and closes;    *)
(* what flags stay behind raise no interrupt.                              *)
PollEnd ==
    /\ pc = "poll"
    /\ \/ "fee" \in {drv.tx, drv.rx}
       \/ req = "send" /\ drv.tx = "ftf" /\ ~drv.shifting
       \/ req = "recv" /\ drv.rx = "ftf"
       \/ req = "transfer" /\ drv.tx = "ftf" /\ drv.rx = "ftf"
    /\ drv' = [drv EXCEPT !.op = {}, !.vote = FALSE, !.on = FALSE,
                          !.tx = "off", !.rx = "off"]
    /\ req' = "none" /\ missed' = "no"
    /\ pc' = "idle"
    /\ UNCHANGED config

(* tkl_spi_abort_transfer clears op_msk after its 10 ms sleep,             *)
(* tkl_spi_deinit before; both sleeps let pending handlers run.            *)
Stopped(d) == [d EXCEPT !.on = FALSE, !.tbe = FALSE, !.err = FALSE, !.vote = FALSE,
                        !.tx = Unfed(@), !.rx = Unfed(@),
                        !.shifting = FALSE, !.fault = "none"]
AbortBegin ==
    /\ TaskRuns /\ pc = "idle" /\ drv.op # {}
    /\ drv' = Stopped(drv)
    /\ pc' = "abort"
    /\ UNCHANGED <<config, req, missed>>

(* Without a transfer in op_msk there is nothing to abort; the client      *)
(* stops waiting.                                                          *)
AbortNothing ==
    /\ TaskRuns /\ pc = "idle" /\ drv.op = {}
    /\ req' = "none" /\ missed' = "no"
    /\ UNCHANGED <<config, drv, pc>>

DeinitBegin ==
    /\ TaskRuns /\ pc = "idle"
    /\ drv' = IF drv.op # {} THEN [Stopped(drv) EXCEPT !.op = {}]
              ELSE [drv EXCEPT !.on = FALSE, !.tbe = FALSE, !.err = FALSE,
                               !.shifting = FALSE, !.fault = "none"]
    /\ pc' = "deinit"
    /\ UNCHANGED <<config, req, missed>>

SleepEnd ==
    /\ pc \in {"abort", "deinit"}
    /\ TaskRuns
    /\ drv' = IF pc = "abort" THEN [drv EXCEPT !.op = {}] ELSE drv
    /\ req' = "none" /\ missed' = "no"
    /\ pc' = "idle"
    /\ UNCHANGED config

(* The handlers. The client learns of an event; k is what its callback     *)
(* starts, which is missed where the handler clears op_msk afterwards.     *)
Deliver(event, k, how) ==
    /\ k # "none" => event /\ pc = "idle"
    /\ req' = IF event THEN k ELSE req
    /\ missed' = IF ~event THEN missed ELSE IF k # "none" THEN how ELSE "no"

DmaTxIsr(k) ==
    /\ irqEn /\ drv.tx \in {"ftf", "fee"}
    /\ drv' = DmaTxHandler(drv, k)
    /\ Deliver(DmaTxEvent(drv), k, IF drv.tx = "fee" THEN "lost" ELSE "no")
    /\ UNCHANGED <<config, pc>>

DmaRxIsr(k) ==
    /\ irqEn /\ drv.rx \in {"ftf", "fee"}
    /\ drv' = DmaRxHandler(drv, k)
    /\ Deliver(DmaRxEvent(drv), k, IF drv.rx = "fee" THEN "lost" ELSE "no")
    /\ UNCHANGED <<config, pc>>

SpiIsr(k) ==
    /\ irqEn /\ (drv.tbe \/ (drv.err /\ drv.fault # "none"))
    /\ drv' = SpiHandler(drv, k)
    /\ Deliver(SpiEvent(drv), k, IF drv.fault = "ovr" THEN "lost" ELSE "late")
    /\ UNCHANGED <<config, pc>>

(* The hardware. In a duplex transfer the last frame is in only after the  *)
(* last one was fetched for transmission; an error may come at any time.   *)
DmaTxDone(result) ==
    /\ drv.on /\ drv.tx = "busy"
    /\ drv' = [drv EXCEPT !.tx = result, !.shifting = TRUE]
    /\ UNCHANGED <<config, req, pc, missed>>

DmaRxDone(result) ==
    /\ drv.on /\ drv.rx = "busy"
    /\ result = "ftf" => drv.tx # "busy"
    /\ drv' = [drv EXCEPT !.rx = result]
    /\ UNCHANGED <<config, req, pc, missed>>

ShiftDone ==
    /\ drv.shifting
    /\ drv' = [drv EXCEPT !.shifting = FALSE]
    /\ UNCHANGED <<config, req, pc, missed>>

BusFault(f) ==
    /\ drv.on /\ drv.fault = "none"
    /\ drv' = [drv EXCEPT !.fault = f]
    /\ UNCHANGED <<config, req, pc, missed>>

Configure == \E b \in BOOLEAN : SetIrq(b) \/ SpiInit(b)
Start == \/ \E k \in Kinds \ {"transfer"} : Begin(k)
         \/ \E k \in Kinds : Launch(k)
Handlers == \E k \in Kinds \cup {"none"} : DmaTxIsr(k) \/ DmaRxIsr(k) \/ SpiIsr(k)
Hardware == \/ \E result \in {"ftf", "fee"} : DmaTxDone(result) \/ DmaRxDone(result)
            \/ ShiftDone

DriverNext == \/ Configure \/ Start \/ PollEnd
              \/ AbortBegin \/ AbortNothing \/ DeinitBegin \/ SleepEnd
              \/ Handlers \/ Hardware
              \/ \E f \in {"ovr", "conf"} : BusFault(f)

DriverSpec == DriverInit /\ [][DriverNext]_driverVars

(* The DMA and the shift register make progress, pending interrupts are    *)
(* served, and a call that was begun runs on.                              *)
FairSpec == /\ DriverSpec
            /\ WF_driverVars(\E r \in {"ftf", "fee"} : DmaTxDone(r))
            /\ WF_driverVars(\E r \in {"ftf", "fee"} : DmaRxDone(r))
            /\ WF_driverVars(ShiftDone)
            /\ \A h \in {"tx", "rx", "spi"} :
                  WF_driverVars(\E k \in Kinds \cup {"none"} :
                                   \/ h = "tx" /\ DmaTxIsr(k)
                                   \/ h = "rx" /\ DmaRxIsr(k)
                                   \/ h = "spi" /\ SpiIsr(k))
            /\ WF_driverVars(PollEnd) /\ WF_driverVars(SleepEnd)

-----------------------------------------------------------------------------
(* The vote is held for as long as a transfer is in flight                 *)
(* (tkl_spi.c:56-59), and the variables keep their types.                  *)
VoteCovers ==
    /\ DriverTypeOK
    /\ drv.on /\ (drv.shifting \/ "busy" \in {drv.tx, drv.rx}) => drv.vote

(* The client waits for a transfer that op_msk no longer names: no event   *)
(* can come.                                                               *)
Forgotten == req # "none" /\ pc \in {"idle", "poll"} /\ drv.op = {}

(* No transfer is forgotten, unless a DATA_LOST callback started it: in a  *)
(* TX_COMPLETE or MODE_FAULT callback "The driver is ready for the next    *)
(* transfer operation" (tuya_cloud_types.h:1008, 1016-1017). The code does *)
(* not keep this: those handlers, too, clear op_msk after the callback.    *)
ReadyForNext == Forgotten => missed = "lost"

(* What the code does keep: only a transfer started from a callback of     *)
(* those handlers is forgotten, never one started by a task or from        *)
(* TRANSFER_COMPLETE or RX_COMPLETE, whatever stale flags, faults, aborts  *)
(* and deinitialisations precede it (the three handlers of tkl_spi.c).     *)
ForgottenOnlyLate == Forgotten => missed \in {"late", "lost"}

EventStep == \E k \in Kinds \cup {"none"} :
                \/ DmaTxIsr(k) /\ DmaTxEvent(drv)
                \/ DmaRxIsr(k) /\ DmaRxEvent(drv)
                \/ SpiIsr(k) /\ SpiEvent(drv)
Answered == []<>(req = "none") \/ []<><<EventStep>>_driverVars

(* Every transfer is concluded, by an event, an abort or the end of the    *)
(* polling loop, also when each callback starts the next one: the client   *)
(* waits for ever only for a transfer started too late in a handler, or a  *)
(* send whose TBE interrupt was used up before op_msk was set.             *)
Concludes == Answered \/ <>[](missed # "no")

(* Every send a task starts is reported: TX_COMPLETE "Occurs after call to *)
(* tkl_spi_send to indicate that all the data has been transferred"        *)
(* (tuya_cloud_types.h:1007). The code does not keep this: the interrupt   *)
(* is enabled before op_msk is set, and a handler that finds op_msk 0      *)
(* disables it.                                                            *)
SendReported == Answered \/ <>[](missed \in {"late", "lost"})

(* Once the client starts nothing more, the vote is given back for good.   *)
VoteReturns == <>[](req = "none") => <>[]~drv.vote
=============================================================================

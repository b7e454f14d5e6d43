----------------------------- MODULE MCPeriBusy -----------------------------
(* Model-checking instance of PeriBusy: two tasks, one vote that only      *)
(* tasks use (a timer) and one that a handler drops and takes too (SPI).   *)
EXTENDS PeriBusy, TLC

CONSTANTS t1, t2, timer, spi

MCTasks == {t1, t2}
MCVotes == {timer, spi}
MCIsrVotes == {spi}
=============================================================================

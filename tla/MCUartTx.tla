------------------------------ MODULE MCUartTx ------------------------------
(* Model-checking instance of UartTx: two writers, with writes of up to    *)
(* MaxLen bytes, longer than the transmitter's two registers.              *)
EXTENDS UartTx

CONSTANTS w1, w2
MCWriters == {w1, w2}
=============================================================================

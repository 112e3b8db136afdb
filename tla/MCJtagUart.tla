----------------------------- MODULE MCJtagUart -----------------------------
(* The JTAG UART driver on small buffers.                                   *)
EXTENDS JtagUart

MCTimeouts == {1}
=============================================================================

---------------------------- MODULE MCPlcBuffer ----------------------------
(* Small instances of PlcBuffer.  The buffer of 4 bytes with 1 kept free    *)
(* grows to 16 on the request of 11 bytes and shrinks to 8 on the first     *)
(* request of 1 byte that finds it full (output) or empty (input).          *)
EXTENDS PlcBuffer

Sizes == {1, 2, 11}

\* The directions share nothing but the control: one of them is used.
OneDirection == offered = 0 \/ received = 0
=============================================================================

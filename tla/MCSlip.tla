------------------------------- MODULE MCSlip -------------------------------
(***************************************************************************)
(* Small instances of SlipLine for the model checker.  The payloads hold   *)
(* both bytes that are escaped on the line, and so do the checksums of the *)
(* first two packets, in their last byte.                                  *)
(***************************************************************************)
EXTENDS SlipLine

MCPayload == <<<<192, 7>>, <<219, 43>>, <<5>>>>

\* In order with an ACK between; a packet sent again; a packet lost by the link layer.
MCScripts == {<<1, 0, 2, 3>>, <<1, 1, 2>>, <<2, 1, 2>>}

MCNoise == {BOUNDARY_BYTE, ESCAPE_BYTE, BOUNDARY_SUBSTITUTE}
=============================================================================

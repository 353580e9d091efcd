---------------------------- MODULE MCPlacement -----------------------------
(* A ring of two devices, for Placement.                                 *)
EXTENDS Placement

MCDevices == <<1, 2>>
=============================================================================

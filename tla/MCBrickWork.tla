---------------------------- MODULE MCBrickWork ----------------------------
(* Values for the constants of BrickWork that a .cfg file cannot write: all *)
(* bricks are on one host and compete for its slot.                        *)
EXTENDS BrickWork

CONSTANT h1
MCOneHost == [b \in Bricks |-> h1]
=============================================================================

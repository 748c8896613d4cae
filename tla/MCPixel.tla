------------------------------ MODULE MCPixel ------------------------------
(* Instances of PixelTabs for TLC. *)
EXTENDS PixelTabs
CONSTANTS p1, p2, k1
=============================================================================

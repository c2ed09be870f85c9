------------------------------- MODULE MCSigning -------------------------------
(* Instances of Signing for TLC. *)
EXTENDS Signing

CONSTANTS c1, c2, r1, r2, b1, b2
===============================================================================

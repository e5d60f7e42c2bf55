-------------------------------- MODULE MCMpz --------------------------------
(* Instance of MpzCalls for TLC: limbs of two bits, so that all operands   *)
(* of two limbs can be tried.                                              *)
EXTENDS MpzCalls
=============================================================================

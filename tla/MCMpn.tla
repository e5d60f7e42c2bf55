-------------------------------- MODULE MCMpn --------------------------------
(* Instance of MpnCalls for TLC: limbs of four bits, which have halves of  *)
(* two bits and bytes of two.                                              *)
EXTENDS MpnCalls
=============================================================================

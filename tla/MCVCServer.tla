---------------------------- MODULE MCVCServer -----------------------------
(* Instances of VCServer for TLC.                                          *)
EXTENDS VCServer, TLC

CONSTANTS c1, c2

Descriptors == {4, 5}
Symmetry == Permutations(Pids)

Runs21 == c1 :> 2 @@ c2 :> 1
Runs11 == c1 :> 1 @@ c2 :> 1
Ctl01  == c1 :> 0 @@ c2 :> 1
Ctl00  == c1 :> 0 @@ c2 :> 0
=============================================================================

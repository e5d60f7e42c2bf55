---------------------------- MODULE MCVCServerWin ----------------------------
(* Instances of VCServerWin for TLC.                                       *)
EXTENDS VCServerWin, TLC

CONSTANTS c1, c2

Runs11 == c1 :> 1 @@ c2 :> 1
Ctl01  == c1 :> 0 @@ c2 :> 1
Ctl00  == c1 :> 0 @@ c2 :> 0

NoEvents    == c1 :> {} @@ c2 :> {}
TimeEvent   == c1 :> {"time_limit"} @@ c2 :> {}
MemoryEvent == c1 :> {"memory_limit"} @@ c2 :> {}
=============================================================================

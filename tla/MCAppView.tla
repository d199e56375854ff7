------------------------------ MODULE MCAppView ------------------------------
(***************************************************************************)
(* A like, a zap receipt, a profile, and a note of a kind that is no       *)
(* longer configured.                                                      *)
(***************************************************************************)
EXTENDS AppView, TLC

CONSTANTS like, zap, note, profile, w1
MCEvents == {like, zap, note, profile}
MCKindOf == (like :> 7 @@ zap :> 9735 @@ note :> 1 @@ profile :> 0)
==============================================================================

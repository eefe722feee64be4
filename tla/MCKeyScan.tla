----------------------------- MODULE MCKeyScan ------------------------------
(***************************************************************************)
(* Three keys: "a" (4) and "!" (30, shifted) are held, the third types     *)
(* "B" (5, shifted).  In the clashing layout two keys hold the same code,  *)
(* one of them shifted, and the third types it.                            *)
(***************************************************************************)
EXTENDS KeyScan, TLC

Key(c, s) == [code |-> c, shifted |-> s]

MCHolds == 0 :> Key(4, FALSE) @@ 1 :> Key(30, TRUE)
MCMacros == 2 :> <<Key(5, TRUE)>>

MCClashHolds == 0 :> Key(4, FALSE) @@ 1 :> Key(4, TRUE)
MCClashMacros == 2 :> <<Key(4, TRUE)>>

=============================================================================

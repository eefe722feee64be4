------------------------------ MODULE MCLights ------------------------------
(***************************************************************************)
(* Two pictures: the default has two frames of one row each (like       *)
(* sdcard/default.png, which has 400 of them); the other is               *)
(* an animation of width 4 with two frames of three rows, so that a row     *)
(* chosen for the one picture is out of the other.                         *)
(***************************************************************************)
EXTENDS Lights, TLC

MCPictures == {"default", "anim"}
MCWidthOf == "default" :> 12 @@ "anim" :> 4
MCHeightOf == "default" :> 2 @@ "anim" :> 6

=============================================================================

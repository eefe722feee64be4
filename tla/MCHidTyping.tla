---------------------------- MODULE MCHidTyping -----------------------------
(***************************************************************************)
(* Texts with a doubled letter, with the same letter as a capital and as a *)
(* small one, and with a character that has no key.                        *)
(***************************************************************************)
EXTENDS HidTyping

MCCharacters == {65, 97, 98, 33}
MCTexts == {<<97, 97>>, <<97, 65, 33, 98>>}

=============================================================================

---------------------------- MODULE MCHidReports ----------------------------
(***************************************************************************)
(* Small instances of HidReports: two or three key codes, one modifier,    *)
(* one media key and texts that mix capitals, small letters and a          *)
(* character without a key (33).  The codes of "A" and "a" (4) and of "b"  *)
(* (5) are also codes that handlers press.                                 *)
(***************************************************************************)
EXTENDS HidReports

MCCharacters == {65, 97, 98, 33}
MCTexts == {<<65, 97>>, <<98, 33>>}
MCShortTexts == {<<65, 33>>}

=============================================================================

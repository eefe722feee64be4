------------------------------ MODULE HidTyping -----------------------------
(***************************************************************************)
(* What a person at the host sees typed.  The host types a character when  *)
(* a keyboard report shows a key that the one before did not show; typed   *)
(* is that sequence, and asked is what the calls of the Lua handlers asked *)
(* for.  Both only watch the steps of HidReports.                          *)
(***************************************************************************)
EXTENDS HidReports, SequencesExt

CONSTANT MaxTyped   \* bound: no handler is called after so many characters

VARIABLES typed, asked

typingVars == <<vars, typed, asked>>

KeyStroke(hid_code, shift) == [key |-> hid_code % 256, shift |-> shift]

\* What one character asks for.  A character without a key, and one whose key
\* is held already, is not typed; a capital toggles the shift, so that a held
\* shift inverts it.
CharStrokes(code, keys, mods) ==
    IF HidOf(code) \in {0} \cup keys THEN <<>>
    ELSE <<KeyStroke(HidOf(code), Shifted(code) # (LEFT_SHIFT \in mods))>>

\* What the last n characters of a text ask for.
LastStrokes(message, keys, mods) ==
    LET last[n \in 0..Len(message)] ==
            IF n = 0 THEN <<>>
            ELSE CharStrokes(message[Len(message) - n + 1], keys, mods)
                    \o last[n - 1]
    IN last

\* What a text asks for while these keys and modifiers are held.
TextStrokes(message, keys, mods) ==
    LastStrokes(message, keys, mods)[Len(message)]

InitTyping == Init /\ typed = <<>> /\ asked = <<>>

Ask ==
    \/ \E c \in HidCodes, s \in BOOLEAN :
          /\ SetKey(c, s)
          /\ asked' = IF s THEN Append(asked, KeyStroke(c, LEFT_SHIFT \in modifiers))
                           ELSE asked
    \/ \E i \in ModifierBits, s \in BOOLEAN : SetModifier(i, s) /\ UNCHANGED asked
    \/ \E t \in Texts :
          /\ SendText(t)
          /\ asked' = asked \o TextStrokes(t, Held(pressed_keys), modifiers)

Watch ==
    /\ HostPoll
    /\ LET new == host'.keys \ host.keys
           shift == LEFT_SHIFT \in host'.modifiers
       IN typed' = typed \o SetToSeq({KeyStroke(k, shift) : k \in new})
    /\ UNCHANGED asked

\* The bound is reached and all is delivered.
AtBound ==
    /\ Len(asked) >= MaxTyped /\ Ready /\ hidg = NoReport
    /\ UNCHANGED typingVars

NextTyping ==
    \/ Len(asked) < MaxTyped /\ Ask /\ UNCHANGED typed
    \/ Continue /\ UNCHANGED <<typed, asked>>
    \/ Watch
    \/ AtBound

SpecTyping == /\ InitTyping /\ [][NextTyping]_typingVars
              /\ WF_typingVars(Continue /\ UNCHANGED <<typed, asked>>)
              /\ WF_typingVars(Watch)

-----------------------------------------------------------------------------
(***************************************************************************)
(* With a host that keeps pace, nothing is typed that was not asked for,   *)
(* nothing twice and nothing out of order.  A run of equal letters, a      *)
(* shift before a capital and a key held by another handler are the cases  *)
(* that go wrong when a report is left out or sent early.                  *)
(***************************************************************************)
TypedInOrder == IsPrefix(typed, asked)

\* ... and everything asked for is typed in the end.
AllIsTyped == []<>(typed = asked)

=============================================================================

------------------------------- MODULE KeyScan ------------------------------
(***************************************************************************)
(* The main thread from the key pins to the reports: the loop of main and  *)
(* updateKeys (keybow/keybow.c), the Lua handlers of a key                 *)
(* (luaHandleKey, keybow.lua, sdcard/layouts) and, through HidReports, the *)
(* reports they send.                                                      *)
(*                                                                         *)
(* updateKeys reads a pin once, runs the whole handler of the key if the   *)
(* level differs from the last one, and then remembers the level it read.  *)
(* While the handler runs (it sleeps in every report) the pins go on       *)
(* changing, the host polls, SIGINT may arrive and the process may die.    *)
(*                                                                         *)
(* A layout either holds a HID key for as long as a key is down            *)
(* (keybow.set_key(key, pressed)) or types a text when it goes down        *)
(* (keybow.text).  The tick function of a layout sends no reports in the   *)
(* layouts of this repository.                                             *)
(***************************************************************************)
EXTENDS HidReports

CONSTANTS
    NUM_KEYS,   \* 12 in the source
    Holds,      \* key -> the HID key it holds: [code, shifted]
    Macros      \* key -> the strokes it types: a sequence of [code, shifted]

Keys == 0..(NUM_KEYS - 1)

\* Usage code 0 is no key.
Stroke == [code : HidCodes \ {0}, shifted : BOOLEAN]

\* There are more slots than keys: 14 and 12 in the source.
ASSUME ScanAssumption ==
    /\ NUM_KEYS \in Nat \ {0} /\ NUM_KEYS < PRESSED_SLOTS
    /\ LEFT_SHIFT \in ModifierBits
    /\ DOMAIN Holds \cup DOMAIN Macros \subseteq Keys
    /\ DOMAIN Holds \cap DOMAIN Macros = {}
    /\ \A k \in DOMAIN Holds : Holds[k] \in Stroke
    /\ \A k \in DOMAIN Macros : Macros[k] \in Seq(Stroke)

VARIABLES
    pins,        \* key -> it is down (the pin reads low)
    last_state,  \* key -> the level its last handler was called with
    x,           \* the loop variable of updateKeys, NUM_KEYS outside of it
    state,       \* the level updateKeys has read
    calling,     \* luaHandleKey runs
    todo,        \* the calls that set_key or tap_key has yet to make
    strokes,     \* the characters that keybow.text has yet to tap
    typing,      \* keybow.text runs
    running      \* cleared by SIGINT

handler == <<calling, todo, strokes, typing>>
scanVars == <<pins, last_state, x, state, handler, running>>
allVars == <<vars, scanVars>>

-----------------------------------------------------------------------------
(* keybow.lua *)

Bind(op, arg, pressed) == [op |-> op, arg |-> arg, pressed |-> pressed]

\* Mutant: the shift of a shifted key is only pressed.
set_key_ShiftKept(key, pressed) ==
    IF key.shifted /\ pressed
    THEN <<Bind("set_modifier", LEFT_SHIFT, TRUE), Bind("set_key", key.code, pressed)>>
    ELSE <<Bind("set_key", key.code, pressed)>>

\* keybow.set_key: a shifted character moves the left shift first.
set_key(key, pressed) ==
    IF key.shifted
    THEN <<Bind("set_modifier", LEFT_SHIFT, pressed),
           Bind("set_key", key.code, pressed)>>
    ELSE <<Bind("set_key", key.code, pressed)>>

tap_key(key) == set_key(key, TRUE) \o set_key(key, FALSE)

\* handle_key_NN(pressed) of a layout: set_key for a key that is held, keybow.text
\* for one that types; nothing when it is not defined.
HandlerCalls(k, pressed) ==
    IF k \in DOMAIN Holds THEN set_key(Holds[k], pressed) ELSE <<>>
Types(k, pressed) == k \in DOMAIN Macros /\ pressed

-----------------------------------------------------------------------------
(* The loop of main *)

\* Nothing of the handler is left to do.
Returned == Ready /\ todo = <<>> /\ ~typing

\* The next round: updateKeys starts again at the first key.
Loop_SkipFirst ==
    /\ x = NUM_KEYS /\ Returned /\ running
    /\ x' = 1
    /\ UNCHANGED <<vars, pins, last_state, state, handler, running>>

Loop ==
    /\ x = NUM_KEYS /\ Returned /\ running
    /\ x' = 0
    /\ UNCHANGED <<vars, pins, last_state, state, handler, running>>

\* The level of the key is as before: on to the next key.
KeySame ==
    /\ x \in Keys /\ ~calling /\ Returned
    /\ pins[x] = last_state[x]
    /\ x' = x + 1
    /\ UNCHANGED <<vars, pins, last_state, state, handler, running>>

\* The level differs: luaHandleKey is called with it.
KeyChanged ==
    /\ x \in Keys /\ ~calling /\ Returned
    /\ pins[x] # last_state[x]
    /\ state' = pins[x]
    /\ calling' = TRUE
    /\ todo' = HandlerCalls(x, pins[x])
    /\ typing' = Types(x, pins[x])
    /\ strokes' = IF Types(x, pins[x]) THEN Macros[x] ELSE <<>>
    /\ UNCHANGED <<vars, pins, last_state, x, running>>

\* Mutant: the pin is read a second time after the handler.
KeyHandled_Reread ==
    /\ calling /\ Returned
    /\ last_state' = [last_state EXCEPT ![x] = pins[x]]
    /\ x' = x + 1
    /\ calling' = FALSE
    /\ UNCHANGED <<vars, pins, state, todo, strokes, typing, running>>

\* luaHandleKey has returned: the level that was read becomes the last one.
KeyHandled ==
    /\ calling /\ Returned
    /\ last_state' = [last_state EXCEPT ![x] = state]
    /\ x' = x + 1
    /\ calling' = FALSE
    /\ UNCHANGED <<vars, pins, state, todo, strokes, typing, running>>

\* The loop of keybow.text: the next character is tapped; after the last one
\* the left shift is released.
Text ==
    /\ typing /\ Ready /\ todo = <<>>
    /\ \/ /\ strokes # <<>>
          /\ todo' = tap_key(Head(strokes)) /\ strokes' = Tail(strokes)
          /\ UNCHANGED typing
       \/ /\ strokes = <<>>
          /\ todo' = <<Bind("set_modifier", LEFT_SHIFT, FALSE)>> /\ typing' = FALSE
          /\ UNCHANGED strokes
    /\ UNCHANGED <<vars, pins, last_state, x, state, calling, running>>

\* The next call of set_key or tap_key; it may find nothing to change.
Bound ==
    LET call == Head(todo)
        unchanged == IF call.op = "set_key"
                     THEN isPressed(pressed_keys, call.arg) = call.pressed
                     ELSE (call.arg \in modifiers) = call.pressed
    IN  /\ Ready /\ todo # <<>>
        /\ todo' = Tail(todo)
        /\ \/ call.op = "set_key" /\ SetKey(call.arg, call.pressed)
           \/ call.op = "set_modifier" /\ SetModifier(call.arg, call.pressed)
           \/ unchanged /\ UNCHANGED vars
        /\ UNCHANGED <<pins, last_state, x, state, calling, strokes, typing, running>>

\* Mutant: the program ends without luaClose.
Exit_NoClose ==
    /\ x = NUM_KEYS /\ Returned /\ ~running
    /\ mode' = "closed"
    /\ UNCHANGED <<tables, last_media_keys, text, at, sending, hidg, host, lost,
                   before, scanVars>>

\* The loop has ended and the lights thread was joined: luaClose.
Exit ==
    /\ x = NUM_KEYS /\ Returned /\ ~running
    /\ LuaClose
    /\ UNCHANGED scanVars

\* The rest of sendHIDReport and of luaClose.
Report_Continue == Continue /\ UNCHANGED scanVars

-----------------------------------------------------------------------------
(* What happens around the main thread *)

PinChange ==
    /\ mode # "closed"
    /\ \E k \in Keys : pins' = [pins EXCEPT ![k] = ~pins[k]]
    /\ UNCHANGED <<vars, last_state, x, state, handler, running>>

\* signal_handler
SigInt ==
    /\ running /\ mode = "open"
    /\ running' = FALSE
    /\ UNCHANGED <<vars, pins, last_state, x, state, handler>>

\* A new process finds the keys as they are and its own memory cleared.
Die ==
    /\ CrashRestart
    /\ last_state' = [k \in Keys |-> FALSE]
    /\ x' = NUM_KEYS /\ state' = FALSE /\ calling' = FALSE
    /\ todo' = <<>> /\ strokes' = <<>> /\ typing' = FALSE
    /\ running' = TRUE
    /\ UNCHANGED pins

Host == (HostPoll \/ HostReset) /\ UNCHANGED scanVars

Ended == Closed /\ UNCHANGED scanVars

-----------------------------------------------------------------------------
InitScan ==
    /\ Init
    /\ pins = [k \in Keys |-> FALSE]
    /\ last_state = [k \in Keys |-> FALSE]
    /\ x = NUM_KEYS /\ state = FALSE /\ calling = FALSE
    /\ todo = <<>> /\ strokes = <<>> /\ typing = FALSE
    /\ running = TRUE

MainThread ==
    \/ Loop
    \/ KeySame
    \/ KeyChanged
    \/ Text
    \/ Bound
    \/ KeyHandled
    \/ Exit
    \/ Report_Continue

NextScan ==
    \/ MainThread
    \/ PinChange
    \/ SigInt
    \/ Die
    \/ Host
    \/ Ended

\* The main thread runs and the host polls; nobody has to touch a key.
SpecScan ==
    /\ InitScan /\ [][NextScan]_allVars
    /\ WF_allVars(MainThread)
    /\ WF_allVars(HostPoll /\ UNCHANGED scanVars)

-----------------------------------------------------------------------------
(* Properties *)

HeldBy(level) == {Holds[k].code : k \in {h \in DOMAIN Holds : level[h]}}

\* Each code is held by one key only and typed by no other.
OneKeyPerCode ==
    /\ \A j, k \in DOMAIN Holds : Holds[j].code = Holds[k].code => j = k
    /\ \A j \in DOMAIN Holds, k \in DOMAIN Macros : \A i \in DOMAIN Macros[k] :
          Macros[k][i].code # Holds[j].code

(***************************************************************************)
(* Between two handlers the table of pressed keys is exactly the keys that *)
(* the loop believes to be down, whatever the pins did while the handlers  *)
(* ran and wherever the process was restarted.                             *)
(***************************************************************************)
HeldMatchesKeys ==
    (OneKeyPerCode /\ ~calling /\ mode = "open")
        => Held(pressed_keys) = HeldBy(last_state)

(***************************************************************************)
(* Even when two keys hold the same code, or a text types the code another *)
(* key holds, no code stays pressed without a key that is down, and no     *)
(* shift without a shifted key that is down.  (A code may be released too  *)
(* early then.)                                                            *)
(***************************************************************************)
NothingStuck ==
    (~calling /\ mode = "open")
        => /\ Held(pressed_keys) \subseteq HeldBy(last_state)
           /\ modifiers # {} => \E k \in DOMAIN Holds :
                                   last_state[k] /\ Holds[k].shifted

(***************************************************************************)
(* If from some time on the keys are left alone and the program runs on,   *)
(* the host ends up seeing the keys that are down, with a host that keeps  *)
(* pace.                                                                   *)
(***************************************************************************)
HostFollowsKeys ==
    (<>[][pins' = pins]_pins /\ []running)
        => <>[](host.keys = {c % 256 : c \in HeldBy(pins)})

\* SIGINT ends the program with everything released on the host, even if
\* it arrives in the middle of a handler and the keys go on changing.
ShutdownReleases ==
    ~running ~> (mode = "closed" /\ host.keys = {} /\ host.modifiers = {})

=============================================================================

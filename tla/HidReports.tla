----------------------------- MODULE HidReports -----------------------------
(***************************************************************************)
(* How the firmware's tables of pressed keys, modifiers and media keys     *)
(* reach the USB host (keybow/lua-config.c).                               *)
(*                                                                         *)
(* Lua handlers call keybow_set_key, keybow_set_modifier,                  *)
(* keybow_set_media_key and keybow_send_text on the main thread; each      *)
(* changes a table and calls sendHIDReport.  That function writes a        *)
(* keyboard report, sleeps 1 ms, and then writes a media report if the     *)
(* media keys changed since the last one; the two writes are two steps.    *)
(* A table changes right before the keyboard report that carries it, and   *)
(* no other thread reads it, so the change and that write are one step.    *)
(*                                                                         *)
(* The writes go to /dev/hidg0, opened O_NDELAY: the gadget driver holds   *)
(* one report until the host polls, and refuses a write (EAGAIN) while it  *)
(* does.  The results of the writes are ignored.  The driver and the host  *)
(* are not part of this repository; they are modelled from that use.       *)
(***************************************************************************)
EXTENDS Integers, Sequences, FiniteSets, FiniteSetsExt

CONSTANTS
    PRESSED_SLOTS,  \* slots of pressed_keys: 14 in the source
    REPORT_KEYS     \* key bytes of a keyboard report: 13 in the source

ASSUME SlotsAssumption ==
    /\ PRESSED_SLOTS \in Nat \ {0}
    /\ REPORT_KEYS \in 1..PRESSED_SLOTS

(***************************************************************************)
(* The table of pressed keys (pressed_keys, lua-config.h) and the three    *)
(* functions that read and write it (lua-config.c).  A slot holds a HID    *)
(* usage code, an unsigned short, and 0 when it is empty.  The keyboard    *)
(* report carries the low byte of the first REPORT_KEYS slots only.        *)
(***************************************************************************)
Slots == 0..(PRESSED_SLOTS - 1)

ReportedSlots == 0..(REPORT_KEYS - 1)

USHORT_RANGE == 65536
UShort == {n \in Nat : n < USHORT_RANGE}

NoKeys == [s \in Slots |-> 0]

SlotsOf(table, hid_code) == {s \in Slots : table[s] = hid_code}

isPressed(table, hid_code) == SlotsOf(table, hid_code) # {}

\* Mutant: the last empty slot takes the code.
pressKey_Last(table, hid_code) ==
    IF isPressed(table, 0)
    THEN [table EXCEPT ![Max(SlotsOf(table, 0))] = hid_code]
    ELSE table

\* The first empty slot takes the code; a full table ignores the key.
pressKey(table, hid_code) ==
    IF isPressed(table, 0)
    THEN [table EXCEPT ![Min(SlotsOf(table, 0))] = hid_code]
    ELSE table

\* Only the first slot that holds the code is emptied.
releaseKey(table, hid_code) ==
    IF isPressed(table, hid_code)
    THEN [table EXCEPT ![Min(SlotsOf(table, hid_code))] = 0]
    ELSE table

\* The codes the firmware regards as held.
Held(table) == {table[s] : s \in Slots} \ {0}

\* The key bytes of a report: an unsigned char of each of the first slots.
ReportBytes(table) == {table[s] % 256 : s \in ReportedSlots} \ {0}

-----------------------------------------------------------------------------
CONSTANTS
    HidCodes,       \* what handlers pass to keybow_set_key
    ModifierBits,   \* what they pass to keybow_set_modifier
    MediaBits,      \* what they pass to keybow_set_media_key
    Characters,     \* the character codes of the texts
    Texts,          \* what they pass to keybow_send_text
    HostKeepsPace,  \* the host polls within the 1 ms sleep after a write
    Faults          \* the host may reset the bus, the firmware may die

BitIndices == 0..15
LowByteBits == 0..7

ASSUME HidAssumption ==
    /\ HidCodes \subseteq UShort
    /\ ModifierBits \subseteq BitIndices
    /\ MediaBits \subseteq BitIndices
    /\ Characters \subseteq 0..255
    /\ Texts \subseteq Seq(Characters)
    /\ HostKeepsPace \in BOOLEAN
    /\ Faults \in BOOLEAN

VARIABLES
    pressed_keys,     \* slot -> HID code
    modifiers,        \* the bits set in it
    media_keys,       \* the bits set in it
    last_media_keys,  \* media_keys as last written
    text,             \* the characters keybow_send_text has yet to type
    at,               \* where its loop is, "idle" outside of it
    sending,          \* sendHIDReport is between its two writes
    mode,             \* "open", "closing" (in luaClose), "closed"
    hidg,             \* the report the gadget driver holds
    host,             \* what the host believes to be pressed
    lost,             \* history: the last report of a kind was refused
                      \* or forgotten, see Write
    before            \* history: the held keys and modifiers when the
                      \* running keybow_send_text was called

tables == <<pressed_keys, modifiers, media_keys>>
vars == <<tables, last_media_keys, text, at, sending, mode, hidg, host,
          lost, before>>

LEFT_SHIFT == 1

-----------------------------------------------------------------------------
(* Reports *)

\* Byte 1 holds the low byte of modifiers or of media_keys.
Report(id, bits, keys) ==
    [id |-> id, bits |-> bits \cap LowByteBits, keys |-> keys]
NoReport == Report(0, {}, {})
KeyboardReport(table, mods) == Report(1, mods, ReportBytes(table))
MediaReport(media) == Report(2, media, {})

Reports ==
    [id : {1}, bits : SUBSET LowByteBits, keys : SUBSET (0..255)]
        \cup [id : {0, 2}, bits : SUBSET LowByteBits, keys : {{}}]

HostAtRest == [modifiers |-> {}, keys |-> {}, media |-> {}]

(***************************************************************************)
(* write(hid_output, ...).  A host that keeps pace has taken the previous  *)
(* report before the next write.  Otherwise a write that finds the driver  *)
(* busy fails and nobody notices.                                          *)
(***************************************************************************)
Write(report) ==
    \/ /\ hidg = NoReport
       /\ hidg' = report
       /\ lost' = [lost EXCEPT ![report.id] = FALSE]
    \/ /\ hidg # NoReport
       /\ ~HostKeepsPace
       /\ lost' = [lost EXCEPT ![report.id] = TRUE]
       /\ UNCHANGED hidg

-----------------------------------------------------------------------------
(* sendHIDReport *)

\* The tables take new values and sendHIDReport makes its first write.
Send(table, mods, media) ==
    /\ pressed_keys' = table /\ modifiers' = mods /\ media_keys' = media
    /\ Write(KeyboardReport(table, mods))
    /\ sending' = TRUE
    /\ UNCHANGED <<last_media_keys, host>>

NothingSent == UNCHANGED <<tables, last_media_keys, sending, hidg, host, lost>>

\* Mutants of SendMedia: the report carries the old media keys; they are
\* not remembered as sent; they are remembered but not sent; the media
\* report waits until the host has taken the one before.
SendMedia_With(report, last) ==
    /\ sending
    /\ sending' = FALSE
    /\ \/ /\ media_keys # last_media_keys
          /\ Write(report)
          /\ last_media_keys' = last
       \/ /\ media_keys = last_media_keys
          /\ UNCHANGED <<last_media_keys, hidg, lost>>
    /\ UNCHANGED <<tables, text, at, mode, host, before>>
SendMedia_Old == SendMedia_With(MediaReport(last_media_keys), media_keys)
SendMedia_NotRemembered == SendMedia_With(MediaReport(media_keys), last_media_keys)
SendMedia_Waiting ==
    hidg = NoReport /\ SendMedia_With(MediaReport(media_keys), media_keys)
SendMedia_NotSent ==
    /\ sending
    /\ sending' = FALSE
    /\ last_media_keys' = media_keys
    /\ UNCHANGED <<tables, text, at, mode, hidg, host, lost, before>>

\* The rest of sendHIDReport.
SendMedia ==
    /\ sending
    /\ sending' = FALSE
    /\ \/ /\ media_keys # last_media_keys
          /\ Write(MediaReport(media_keys))
          /\ last_media_keys' = media_keys
       \/ /\ media_keys = last_media_keys
          /\ UNCHANGED <<last_media_keys, hidg, lost>>
    /\ UNCHANGED <<tables, text, at, mode, host, before>>

-----------------------------------------------------------------------------
(* The functions that Lua calls *)

\* The main thread is not inside any of them.
Ready == mode = "open" /\ ~sending /\ at = "idle"

Flip(bits, index) ==
    IF index \in bits THEN bits \ {index} ELSE bits \cup {index}

\* Mutant: without the isPressed check.
SetKey_NoCheck(hid_code, state) ==
    /\ Ready
    /\ Send(IF state THEN pressKey(pressed_keys, hid_code)
                     ELSE releaseKey(pressed_keys, hid_code),
            modifiers, media_keys)
    /\ UNCHANGED <<text, at, mode, before>>

\* l_set_key: nothing is sent when the key is already in the state asked for.
SetKey(hid_code, state) ==
    /\ Ready
    /\ isPressed(pressed_keys, hid_code) # state
    /\ Send(IF state THEN pressKey(pressed_keys, hid_code)
                     ELSE releaseKey(pressed_keys, hid_code),
            modifiers, media_keys)
    /\ UNCHANGED <<text, at, mode, before>>

SetModifier(index, state) ==
    /\ Ready
    /\ (index \in modifiers) # state
    /\ Send(pressed_keys, Flip(modifiers, index), media_keys)
    /\ UNCHANGED <<text, at, mode, before>>

SetMediaKey(index, state) ==
    /\ Ready
    /\ (index \in media_keys) # state
    /\ Send(pressed_keys, modifiers, Flip(media_keys, index))
    /\ UNCHANGED <<text, at, mode, before>>

-----------------------------------------------------------------------------
(* keybow_send_text *)

\* The usage code of a character; 0 for one that is skipped.
HidOf(code) ==
    IF code = 48 THEN 39
    ELSE IF code = 32 THEN 44
    ELSE IF code \in 49..57 THEN code - 19
    ELSE IF code \in 65..90 THEN code - 61
    ELSE IF code \in 97..122 THEN code - 93
    ELSE 0

Shifted(code) == code \in 65..90

\* The usage codes the firmware can be asked to press.
Codes == HidCodes \cup ({HidOf(c) : c \in Characters} \ {0})

SendText(message) ==
    /\ Ready
    /\ text' = message /\ at' = "char"
    /\ before' = [keys |-> Held(pressed_keys), modifiers |-> modifiers]
    /\ UNCHANGED mode /\ NothingSent

\* The top of the loop: done, or a character without a key is skipped, or a
\* capital toggles the shift first.
TextChar ==
    /\ at = "char" /\ ~sending
    /\ \/ /\ text = <<>>
          /\ at' = "idle"
          /\ UNCHANGED text /\ NothingSent
       \/ /\ text # <<>> /\ HidOf(Head(text)) = 0
          /\ text' = Tail(text)
          /\ UNCHANGED at /\ NothingSent
       \/ /\ text # <<>> /\ HidOf(Head(text)) # 0 /\ ~Shifted(Head(text))
          /\ at' = "press"
          /\ UNCHANGED text /\ NothingSent
       \/ /\ text # <<>> /\ Shifted(Head(text))
          /\ at' = "press"
          /\ Send(pressed_keys, Flip(modifiers, LEFT_SHIFT), media_keys)
          /\ UNCHANGED text
    /\ UNCHANGED <<mode, before>>

\* Mutants of TextPress: a full table ends the character there; the report is
\* left to the release.
TextPress_GiveUp ==
    /\ at = "press" /\ ~sending
    /\ Send(pressKey(pressed_keys, HidOf(Head(text))), modifiers, media_keys)
    /\ \/ isPressed(pressed_keys, 0) /\ at' = "release" /\ UNCHANGED text
       \/ ~isPressed(pressed_keys, 0) /\ at' = "char" /\ text' = Tail(text)
    /\ UNCHANGED <<mode, before>>
TextPress_Silent ==
    /\ at = "press" /\ ~sending
    /\ pressed_keys' = pressKey(pressed_keys, HidOf(Head(text)))
    /\ at' = "release"
    /\ UNCHANGED <<modifiers, media_keys, last_media_keys, text, sending, mode,
                   hidg, host, lost, before>>

TextPress ==
    /\ at = "press" /\ ~sending
    /\ Send(pressKey(pressed_keys, HidOf(Head(text))), modifiers, media_keys)
    /\ at' = "release"
    /\ UNCHANGED <<text, mode, before>>

\* Mutant: the release is left to the next report.
TextRelease_Silent ==
    /\ at = "release" /\ ~sending
    /\ pressed_keys' = releaseKey(pressed_keys, HidOf(Head(text)))
    /\ \/ Shifted(Head(text)) /\ at' = "unshift" /\ UNCHANGED text
       \/ ~Shifted(Head(text)) /\ at' = "char" /\ text' = Tail(text)
    /\ UNCHANGED <<modifiers, media_keys, last_media_keys, sending, mode,
                   hidg, host, lost, before>>

TextRelease ==
    /\ at = "release" /\ ~sending
    /\ Send(releaseKey(pressed_keys, HidOf(Head(text))), modifiers, media_keys)
    /\ \/ Shifted(Head(text)) /\ at' = "unshift" /\ UNCHANGED text
       \/ ~Shifted(Head(text)) /\ at' = "char" /\ text' = Tail(text)
    /\ UNCHANGED <<mode, before>>

TextUnshift ==
    /\ at = "unshift" /\ ~sending
    /\ Send(pressed_keys, Flip(modifiers, LEFT_SHIFT), media_keys)
    /\ at' = "char" /\ text' = Tail(text)
    /\ UNCHANGED <<mode, before>>

-----------------------------------------------------------------------------
(* The end of the program *)

\* Mutant: luaClose does not send a report.
LuaClose_Silent ==
    /\ Ready
    /\ mode' = "closing"
    /\ pressed_keys' = NoKeys /\ modifiers' = {}
    /\ UNCHANGED <<media_keys, last_media_keys, text, at, sending, hidg, host,
                   lost, before>>

\* luaClose clears the keys and the modifiers but not the media keys.
LuaClose ==
    /\ Ready
    /\ mode' = "closing"
    /\ Send(NoKeys, {}, media_keys)
    /\ UNCHANGED <<text, at, before>>

\* close(hid_output): a report that the driver took is still the host's.
CloseOutput ==
    /\ mode = "closing" /\ ~sending
    /\ mode' = "closed"
    /\ UNCHANGED <<tables, last_media_keys, text, at, sending, hidg, host,
                   lost, before>>

\* The process dies without luaClose and is started again, and main goes on
\* with the gadget that was left behind: the memory is zero, while the driver
\* and the host keep what they have.
CrashRestart ==
    /\ Faults
    /\ mode # "closed"
    /\ pressed_keys' = NoKeys /\ modifiers' = {}
    /\ media_keys' = {} /\ last_media_keys' = {}
    /\ text' = <<>> /\ at' = "idle" /\ sending' = FALSE /\ mode' = "open"
    /\ lost' = [id \in {1, 2} |-> TRUE]
    /\ before' = [keys |-> {}, modifiers |-> {}]
    /\ UNCHANGED <<hidg, host>>

Closed ==
    /\ mode = "closed" /\ hidg = NoReport
    /\ UNCHANGED vars

-----------------------------------------------------------------------------
(* The host *)

HostPoll ==
    /\ hidg # NoReport
    /\ hidg' = NoReport
    /\ host' = IF hidg.id = 1
               THEN [modifiers |-> hidg.bits, keys |-> hidg.keys,
                     media |-> host.media]
               ELSE [modifiers |-> host.modifiers, keys |-> host.keys,
                     media |-> hidg.bits]
    /\ UNCHANGED <<tables, last_media_keys, text, at, sending, mode, lost,
                   before>>

\* Unplugged and plugged in again, or suspended: the host forgets all keys
\* and the driver drops what it holds.
HostReset ==
    /\ Faults
    /\ hidg' = NoReport
    /\ host' = HostAtRest
    /\ lost' = [id \in {1, 2} |-> TRUE]
    /\ UNCHANGED <<tables, last_media_keys, text, at, sending, mode, before>>

-----------------------------------------------------------------------------
Init ==
    /\ pressed_keys = NoKeys /\ modifiers = {}
    /\ media_keys = {} /\ last_media_keys = {}
    /\ text = <<>> /\ at = "idle" /\ sending = FALSE /\ mode = "open"
    /\ hidg = NoReport /\ host = HostAtRest
    /\ lost = [id \in {1, 2} |-> FALSE]
    /\ before = [keys |-> {}, modifiers |-> {}]

\* The steps the firmware takes by itself once a handler has begun.
Continue ==
    \/ SendMedia
    \/ TextChar
    \/ TextPress
    \/ TextRelease
    \/ TextUnshift
    \/ CloseOutput

Handler ==
    \/ \E c \in HidCodes, s \in BOOLEAN : SetKey(c, s)
    \/ \E i \in ModifierBits, s \in BOOLEAN : SetModifier(i, s)
    \/ \E i \in MediaBits, s \in BOOLEAN : SetMediaKey(i, s)
    \/ \E t \in Texts : SendText(t)

Next ==
    \/ Handler
    \/ Continue
    \/ LuaClose
    \/ CrashRestart
    \/ HostPoll
    \/ HostReset
    \/ Closed

(***************************************************************************)
(* The main thread runs, so a handler that has begun goes on; the host     *)
(* polls the endpoint for as long as the device is plugged in.  Nothing    *)
(* forces a handler to be called.                                          *)
(***************************************************************************)
Spec ==
    /\ Init /\ [][Next]_vars
    /\ WF_vars(Continue)
    /\ WF_vars(HostPoll)

\* The same firmware with a host that may never poll again.
FirmwareSpec == Init /\ [][Next]_vars /\ WF_vars(Continue)

-----------------------------------------------------------------------------
(* Properties *)

\* Each variable has its type: slots hold 0 or a code that can be asked for,
\* and what reaches the driver and the host has the size of a report's bytes.
TypeOK ==
    /\ pressed_keys \in [Slots -> {0} \cup Codes]
    /\ modifiers \in SUBSET BitIndices
    /\ media_keys \in SUBSET BitIndices
    /\ last_media_keys \in SUBSET BitIndices
    /\ text \in Seq(Characters)
    /\ at \in {"idle", "char", "press", "release", "unshift"}
    /\ sending \in BOOLEAN
    /\ mode \in {"open", "closing", "closed"}
    /\ hidg \in Reports
    /\ host \in [modifiers : SUBSET LowByteBits, keys : SUBSET (0..255),
                 media : SUBSET LowByteBits]
    /\ lost \in [{1, 2} -> BOOLEAN]
    /\ before \in [keys : SUBSET Codes, modifiers : SUBSET BitIndices]

\* The character keybow_send_text is typing, when it is typing one.
Typing == at \in {"press", "release", "unshift"}

(***************************************************************************)
(* A code never occupies two slots (one release would leave it pressed for *)
(* ever), except that keybow_send_text adds the code it types a second     *)
(* time when the key is already held, and takes it out again at once.      *)
(***************************************************************************)
OneSlotPerKey ==
    \A s, t \in Slots :
        (s # t /\ pressed_keys[s] = pressed_keys[t] /\ pressed_keys[s] # 0)
            => at = "release" /\ pressed_keys[s] = HidOf(Head(text))

\* Fewer codes than a report has room for, so that a second copy of a key
\* that keybow_send_text types still fits.
Fits == Cardinality(Codes) < REPORT_KEYS

(***************************************************************************)
(* The table has one slot more than a report carries; as long as the keys  *)
(* fit, no held key ever sits in a slot the host does not see.             *)
(***************************************************************************)
EveryHeldKeyReported ==
    Fits => ReportBytes(pressed_keys)
              = {c % 256 : c \in Held(pressed_keys)} \ {0}

(***************************************************************************)
(* keybow_send_text leaves the modifiers as it found them and no key       *)
(* pressed that was not pressed before, between any two characters; it     *)
(* releases none either as long as the keys fit (with a full table it does *)
(* release a held key whose character it types).                           *)
(***************************************************************************)
TextRestores ==
    at = "char" =>
        /\ modifiers = before.modifiers
        /\ Held(pressed_keys) \subseteq before.keys
        /\ Fits => Held(pressed_keys) = before.keys

(***************************************************************************)
(* Whatever the order of key, modifier, media and text calls: once the     *)
(* driver is empty, the host sees exactly what the tables hold, unless the *)
(* last report of that kind was refused or forgotten.                      *)
(***************************************************************************)
HostAgrees ==
    /\ (hidg.id # 1 /\ ~lost[1])
        => /\ host.modifiers = modifiers \cap LowByteBits
           /\ host.keys = ReportBytes(pressed_keys)
    /\ (hidg.id # 2 /\ ~lost[2] /\ ~sending)
        => host.media = media_keys \cap LowByteBits

(***************************************************************************)
(* luaClose leaves no key and no modifier pressed on the host, unless its  *)
(* report was lost.  (It does not release the media keys.)                 *)
(***************************************************************************)
ClosedReleasesKeys ==
    (mode = "closed" /\ hidg = NoReport /\ ~lost[1])
        => host.keys = {} /\ host.modifiers = {}

\* O_NDELAY: whatever the host does, a call that Lua makes returns, and
\* luaClose ends.
CallsReturn == (~Ready /\ mode # "closed") ~> (Ready \/ mode = "closed")

\* A host that keeps pace is brought up to date again and again, however
\* fast the handlers follow one another.
HostCatchesUp ==
    []<>(/\ hidg = NoReport
         /\ host.modifiers = modifiers \cap LowByteBits
         /\ host.keys = ReportBytes(pressed_keys)
         /\ host.media = media_keys \cap LowByteBits)

\* Each kind of report is a mirror of its table that may lag but never lies.
Pending(id) == IF hidg.id = id THEN hidg ELSE NoReport

Keyboard == INSTANCE ReportMirror WITH
    Values <- [id : {1}, bits : SUBSET LowByteBits, keys : SUBSET (0..255)],
    Zero <- Report(1, {}, {}),
    Reliable <- HostKeepsPace,
    source <- KeyboardReport(pressed_keys, modifiers),
    inflight <- Pending(1),
    view <- Report(1, host.modifiers, host.keys),
    lost <- lost[1]

Media == INSTANCE ReportMirror WITH
    Values <- [id : {2}, bits : SUBSET LowByteBits, keys : {{}}],
    Zero <- Report(2, {}, {}),
    Reliable <- HostKeepsPace,
    source <- MediaReport(last_media_keys),
    inflight <- Pending(2),
    view <- Report(2, host.media, {}),
    lost <- lost[2]

\* The keyboard reports and the media reports each implement ReportMirror.
ReportMirrors == Keyboard!Spec /\ Media!Spec

=============================================================================

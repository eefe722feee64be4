-------------------------- MODULE HidReportsProofs --------------------------
(***************************************************************************)
(* Theorems about HidReports for any number of slots, any set of codes and *)
(* any texts, with or without faults; and about HidTyping, for as many     *)
(* calls as there may be.                                                  *)
(***************************************************************************)
EXTENDS HidTyping, FiniteSetTheorems, SequenceTheorems, TLAPS

-----------------------------------------------------------------------------
(* What pressKey and releaseKey do to the table of pressed keys *)

Less == {p \in Nat \X Nat : p[1] < p[2]}

\* The first slot with a given content exists: the loops over x find it.
LEMMA MinSlot ==
    ASSUME NEW S \in SUBSET Nat, S # {}
    PROVE  Min(S) \in S /\ \A s \in S : Min(S) <= s
PROOF
<1>1. IsWellFoundedOn(Less, Nat)
  BY NatLessThanWellFounded DEF OpToRel, Less
<1>2. PICK m \in S : \A s \in S : ~(<<s, m>> \in Less)
  BY <1>1, WFMin
<1>3. ASSUME NEW s \in S PROVE m <= s
  <2>1. m \in Nat /\ s \in Nat
    OBVIOUS
  <2>2. s < m => <<s, m>> \in Less
    BY <2>1 DEF Less
  <2> QED
    BY <1>2, <2>1, <2>2
<1> QED
  BY <1>3 DEF Min

\* The assumption on the numbers of slots, as sets of slots.
LEMMA SlotSets ==
    /\ Slots \subseteq Nat
    /\ ReportedSlots \subseteq Slots
    /\ IsFiniteSet(ReportedSlots) /\ Cardinality(ReportedSlots) = REPORT_KEYS
PROOF
<1>1. PRESSED_SLOTS \in Nat \ {0} /\ REPORT_KEYS \in 1..PRESSED_SLOTS
  BY SlotsAssumption
<1>2. Slots \subseteq Nat /\ ReportedSlots \subseteq Slots
  BY <1>1 DEF Slots, ReportedSlots
<1>3. /\ IsFiniteSet(0..(REPORT_KEYS - 1))
      /\ Cardinality(0..(REPORT_KEYS - 1))
         = IF 0 > REPORT_KEYS - 1 THEN 0 ELSE REPORT_KEYS - 1 - 0 + 1
  BY <1>1, FS_Interval
<1> QED
  BY <1>1, <1>2, <1>3 DEF ReportedSlots

\* A key that is pressed takes one empty slot, the first one, if there is one.
LEMMA PressSlot ==
    ASSUME NEW C, NEW table \in [Slots -> C], NEW c, isPressed(table, 0)
    PROVE  \E s \in Slots :
              /\ table[s] = 0
              /\ \A t \in Slots : table[t] = 0 => s <= t
              /\ pressKey(table, c) = [table EXCEPT ![s] = c]
PROOF
<1> DEFINE E == SlotsOf(table, 0)
<1>1. E \in SUBSET Nat /\ E # {}
  BY SlotSets DEF isPressed, SlotsOf
<1>2. Min(E) \in E /\ \A s \in E : Min(E) <= s
  BY <1>1, MinSlot
<1> QED
  BY <1>2 DEF pressKey, SlotsOf

\* A key that is released leaves one of the slots that held it.
LEMMA ReleaseSlot ==
    ASSUME NEW C, NEW table \in [Slots -> C], NEW c, isPressed(table, c)
    PROVE  \E s \in Slots :
              /\ table[s] = c
              /\ releaseKey(table, c) = [table EXCEPT ![s] = 0]
PROOF
<1> DEFINE E == SlotsOf(table, c)
<1>1. E \in SUBSET Nat /\ E # {}
  BY SlotSets DEF isPressed, SlotsOf
<1>2. Min(E) \in E
  BY <1>1, MinSlot
<1> QED
  BY <1>2 DEF releaseKey, SlotsOf

LEMMA PressKeyType ==
    ASSUME NEW C, 0 \in C, NEW table \in [Slots -> C], NEW c \in C
    PROVE  pressKey(table, c) \in [Slots -> C]
PROOF
<1>1. CASE isPressed(table, 0)
  BY <1>1, PressSlot
<1>2. CASE ~isPressed(table, 0)
  BY <1>2 DEF pressKey
<1> QED
  BY <1>1, <1>2

LEMMA ReleaseKeyType ==
    ASSUME NEW C, 0 \in C, NEW table \in [Slots -> C], NEW c
    PROVE  releaseKey(table, c) \in [Slots -> C]
PROOF
<1>1. CASE isPressed(table, c)
  BY <1>1, ReleaseSlot
<1>2. CASE ~isPressed(table, c)
  BY <1>2 DEF releaseKey
<1> QED
  BY <1>1, <1>2

-----------------------------------------------------------------------------
(* Tables in which no code occurs twice, and tables that a report shows *)
(* completely.                                                          *)

Distinct(table) ==
    \A s, t \in Slots : s # t /\ table[s] = table[t] => table[s] = 0

TwiceAtMost(table) ==
    \A s, t, u \in Slots :
        (s # t /\ s # u /\ t # u /\ table[s] = table[t] /\ table[t] = table[u])
            => table[s] = 0

AllReported(table) == \A s \in Slots \ ReportedSlots : table[s] = 0

\* Pressing a code that is not pressed, and releasing any, keeps the codes
\* distinct.
LEMMA PressDistinct ==
    ASSUME NEW C, NEW table \in [Slots -> C], NEW c,
           Distinct(table), ~isPressed(table, c)
    PROVE  Distinct(pressKey(table, c))
PROOF
<1>1. CASE isPressed(table, 0)
  <2>1. PICK s \in Slots : pressKey(table, c) = [table EXCEPT ![s] = c]
    BY <1>1, PressSlot
  <2>2. \A t \in Slots : table[t] # c
    BY DEF isPressed, SlotsOf
  <2> QED
    BY <2>1, <2>2 DEF Distinct
<1>2. CASE ~isPressed(table, 0)
  BY <1>2 DEF pressKey
<1> QED
  BY <1>1, <1>2

LEMMA ReleaseDistinct ==
    ASSUME NEW C, NEW table \in [Slots -> C], NEW c, Distinct(table)
    PROVE  Distinct(releaseKey(table, c))
PROOF
<1>1. CASE isPressed(table, c)
  <2>1. PICK s \in Slots : releaseKey(table, c) = [table EXCEPT ![s] = 0]
    BY <1>1, ReleaseSlot
  <2> QED
    BY <2>1 DEF Distinct
<1>2. CASE ~isPressed(table, c)
  BY <1>2 DEF releaseKey
<1> QED
  BY <1>1, <1>2

\* With fewer codes than reported slots one of those slots is empty
\* (otherwise the table would map them one to one into the codes).
LEMMA ReportHasRoom ==
    ASSUME NEW C, IsFiniteSet(C), Cardinality(C) < REPORT_KEYS,
           NEW table \in [Slots -> {0} \cup C], Distinct(table)
    PROVE  \E s \in ReportedSlots : table[s] = 0
PROOF
<1> SUFFICES ASSUME \A s \in ReportedSlots : table[s] # 0
             PROVE  FALSE
  OBVIOUS
<1> DEFINE f == [s \in ReportedSlots |-> table[s]]
<1>1. f \in [ReportedSlots -> C]
  BY SlotSets
<1>2. \E s, t \in ReportedSlots : s # t /\ f[s] = f[t]
  <2> HIDE DEF f
  <2> QED
    BY <1>1, SlotSets, FS_PigeonHole
<1> QED
  BY <1>2, SlotSets DEF Distinct

LEMMA PressReported ==
    ASSUME NEW C, IsFiniteSet(C), Cardinality(C) < REPORT_KEYS,
           NEW table \in [Slots -> {0} \cup C], NEW c,
           Distinct(table), AllReported(table)
    PROVE  isPressed(table, 0) /\ AllReported(pressKey(table, c))
PROOF
<1>1. PICK r \in ReportedSlots : table[r] = 0
  BY ReportHasRoom
<1>2. r \in Slots
  BY SlotSets
<1>3. isPressed(table, 0)
  BY <1>1, <1>2 DEF isPressed, SlotsOf
<1>4. PICK s \in Slots : /\ \A t \in Slots : table[t] = 0 => s <= t
                         /\ pressKey(table, c) = [table EXCEPT ![s] = c]
  BY <1>3, PressSlot
<1>5. s \in ReportedSlots
  BY <1>1, <1>2, <1>4, SlotsAssumption DEF Slots, ReportedSlots
<1> QED
  BY <1>3, <1>4, <1>5 DEF AllReported

LEMMA ReleaseReported ==
    ASSUME NEW C, NEW table \in [Slots -> C], NEW c, AllReported(table)
    PROVE  AllReported(releaseKey(table, c))
PROOF
<1>1. CASE isPressed(table, c)
  <2>1. PICK s \in Slots : releaseKey(table, c) = [table EXCEPT ![s] = 0]
    BY <1>1, ReleaseSlot
  <2> QED
    BY <2>1 DEF AllReported
<1>2. CASE ~isPressed(table, c)
  BY <1>2 DEF releaseKey
<1> QED
  BY <1>1, <1>2

\* A report of such a table shows every held code.
LEMMA ReportShowsHeld ==
    ASSUME NEW C, C \subseteq Nat, NEW table \in [Slots -> {0} \cup C],
           AllReported(table)
    PROVE  ReportBytes(table) = {c % 256 : c \in Held(table)} \ {0}
PROOF
<1>1. ASSUME NEW s \in ReportedSlots, table[s] % 256 # 0
      PROVE  table[s] \in Held(table)
  <2>1. s \in Slots
    BY SlotSets
  <2>2. table[s] # 0
    <3>1. 0 % 256 = 0
      OBVIOUS
    <3> QED
      BY <1>1, <3>1
  <2> QED
    BY <2>1, <2>2 DEF Held
<1>2. ASSUME NEW c \in Held(table)
      PROVE  \E s \in ReportedSlots : table[s] = c
  <2>1. PICK s \in Slots : table[s] = c /\ c # 0
    BY DEF Held
  <2>2. s \in ReportedSlots
    BY <2>1 DEF AllReported
  <2> QED
    BY <2>1, <2>2
<1>3. ReportBytes(table) \subseteq {c % 256 : c \in Held(table)} \ {0}
  BY <1>1 DEF ReportBytes
<1>4. {c % 256 : c \in Held(table)} \ {0} \subseteq ReportBytes(table)
  BY <1>2 DEF ReportBytes
<1> QED
  BY <1>3, <1>4

LEMMA HeldPress ==
    ASSUME NEW C, NEW table \in [Slots -> C], NEW c, c # 0,
           isPressed(table, 0)
    PROVE  Held(pressKey(table, c)) = Held(table) \cup {c}
PROOF
<1>1. PICK s \in Slots : /\ table[s] = 0
                         /\ pressKey(table, c) = [table EXCEPT ![s] = c]
  BY PressSlot
<1>2. Held(pressKey(table, c)) \subseteq Held(table) \cup {c}
  BY <1>1 DEF Held
<1>3. c \in Held(pressKey(table, c))
  BY <1>1 DEF Held
<1>4. ASSUME NEW h \in Held(table) PROVE h \in Held(pressKey(table, c))
  <2>1. PICK t \in Slots : table[t] = h /\ h # 0
    BY DEF Held
  <2>2. pressKey(table, c)[t] = h
    BY <1>1, <2>1
  <2> QED
    BY <2>1, <2>2 DEF Held
<1> QED
  BY <1>2, <1>3, <1>4

-----------------------------------------------------------------------------
(* keybow_send_text presses a code and releases it again, whether or not   *)
(* it is held already.                                                     *)

\* The table between the two: kept is what was held before, and when the
\* keys fit the code is in the table once more than before.
Between(table, c, kept, fits) ==
    /\ \A s, t \in Slots : s # t /\ table[s] = table[t] => table[s] \in {0, c}
    /\ TwiceAtMost(table)
    /\ Held(table) \subseteq kept \cup {c}
    /\ c \notin kept =>
          \A s, t \in Slots : table[s] = c /\ table[t] = c => s = t
    /\ fits => /\ Held(table) = kept \cup {c}
               /\ c \in kept =>
                     \E s, t \in Slots : s # t /\ table[s] = c /\ table[t] = c

LEMMA PressBetween ==
    ASSUME NEW C, NEW table \in [Slots -> C], NEW c, c # 0, NEW kept,
           NEW fits \in BOOLEAN,
           Distinct(table), Held(table) \subseteq kept,
           fits => Held(table) = kept /\ isPressed(table, 0)
    PROVE  Between(pressKey(table, c), c, kept, fits)
PROOF
<1>1. CASE isPressed(table, 0)
  <2>1. PICK s \in Slots : /\ table[s] = 0
                           /\ pressKey(table, c) = [table EXCEPT ![s] = c]
    BY <1>1, PressSlot
  <2> DEFINE new == [table EXCEPT ![s] = c]
  <2>2. \A t \in Slots : t # s => new[t] = table[t]
    OBVIOUS
  <2>3. new[s] = c
    OBVIOUS
  <2>4. Held(new) = Held(table) \cup {c}
    BY <1>1, <2>1, HeldPress
  <2> HIDE DEF new
  <2>5. \A t, u \in Slots : t # u /\ new[t] = new[u] => new[t] \in {0, c}
    BY <2>2, <2>3 DEF Distinct
  <2>6. TwiceAtMost(new)
    BY <2>2, <2>3 DEF Distinct, TwiceAtMost
  <2>7. ASSUME c \notin kept, NEW t \in Slots, new[t] = c PROVE t = s
    BY <2>2, <2>7 DEF Held
  <2>8. ASSUME fits, c \in kept
        PROVE  \E t, u \in Slots : t # u /\ new[t] = c /\ new[u] = c
    <3>1. PICK t \in Slots : table[t] = c
      BY <2>8 DEF Held
    <3>2. t # s
      BY <2>1, <3>1
    <3> QED
      BY <2>2, <2>3, <3>1, <3>2
  <2>9. pressKey(table, c) = new
    BY <2>1 DEF new
  <2> QED
    BY <2>4, <2>5, <2>6, <2>7, <2>8, <2>9 DEF Between
<1>2. CASE ~isPressed(table, 0)
  <2>1. pressKey(table, c) = table /\ ~fits
    BY <1>2 DEF pressKey
  <2>2. TwiceAtMost(table)
    BY DEF Distinct, TwiceAtMost
  <2>3. \A s, t \in Slots : table[s] = c /\ table[t] = c => s = t
    BY DEF Distinct
  <2>4. \A s, t \in Slots : s # t /\ table[s] = table[t] => table[s] \in {0, c}
    BY DEF Distinct
  <2> QED
    BY <2>1, <2>2, <2>3, <2>4 DEF Between
<1> QED
  BY <1>1, <1>2

LEMMA ReleaseBetween ==
    ASSUME NEW C, NEW table \in [Slots -> C], NEW c, c # 0, NEW kept,
           NEW fits \in BOOLEAN, Between(table, c, kept, fits)
    PROVE  /\ Distinct(releaseKey(table, c))
           /\ Held(releaseKey(table, c)) \subseteq kept
           /\ fits => Held(releaseKey(table, c)) = kept
PROOF
<1>1. CASE isPressed(table, c)
  <2>1. PICK s \in Slots : /\ table[s] = c
                           /\ releaseKey(table, c) = [table EXCEPT ![s] = 0]
    BY <1>1, ReleaseSlot
  <2> DEFINE new == [table EXCEPT ![s] = 0]
  <2>2. \A t \in Slots : t # s => new[t] = table[t]
    OBVIOUS
  <2>3. new[s] = 0
    OBVIOUS
  <2>4. releaseKey(table, c) = new
    BY <2>1
  <2> HIDE DEF new
  <2>5. Distinct(new)
    BY <2>1, <2>2, <2>3 DEF Distinct, Between, TwiceAtMost
  <2>6. ASSUME NEW h \in Held(new) PROVE h \in kept
    <3>1. PICK t \in Slots : new[t] = h /\ h # 0
      BY DEF Held
    <3>2. t # s /\ table[t] = h
      BY <2>2, <2>3, <3>1
    <3>3. h \in Held(table)
      BY <3>1, <3>2 DEF Held
    <3> QED
      BY <2>1, <3>2, <3>3 DEF Between
  <2>7. ASSUME fits, NEW h \in kept PROVE h \in Held(new)
    <3>1. h \in Held(table)
      BY <2>7 DEF Between
    <3>2. PICK t \in Slots : table[t] = h /\ h # 0
      BY <3>1 DEF Held
    <3>3. \E u \in Slots : u # s /\ table[u] = h
      BY <2>1, <2>7, <3>2 DEF Between
    <3> QED
      BY <2>2, <3>2, <3>3 DEF Held
  <2> QED
    BY <2>4, <2>5, <2>6, <2>7
<1>2. CASE ~isPressed(table, c)
  <2>1. releaseKey(table, c) = table
    BY <1>2 DEF releaseKey
  <2>2. \A s \in Slots : table[s] # c
    BY <1>2 DEF isPressed, SlotsOf
  <2>3. c \notin Held(table)
    BY <2>2 DEF Held
  <2> QED
    BY <2>1, <2>2, <2>3 DEF Between, Distinct
<1> QED
  BY <1>1, <1>2

-----------------------------------------------------------------------------
(* Types *)

LEMMA CodesType == Codes \subseteq UShort
PROOF
<1>1. \A c \in 0..255 : HidOf(c) \in UShort
  BY DEF HidOf, UShort, USHORT_RANGE
<1> QED
  BY <1>1, HidAssumption DEF Codes

LEMMA ReportBytesType ==
    ASSUME NEW table \in [Slots -> {0} \cup Codes]
    PROVE  ReportBytes(table) \in SUBSET (0..255)
PROOF
<1>1. ({0} \cup Codes) \subseteq Nat
  BY CodesType DEF UShort
<1>2. \A n \in Nat : n % 256 \in 0..255
  OBVIOUS
<1>3. \A s \in ReportedSlots : table[s] \in {0} \cup Codes
  BY SlotSets
<1>4. \A s \in ReportedSlots : table[s] % 256 \in 0..255
  BY <1>1, <1>2, <1>3
<1> QED
  BY <1>4 DEF ReportBytes

LEMMA KeyboardReportType ==
    ASSUME NEW table \in [Slots -> {0} \cup Codes], NEW mods
    PROVE  KeyboardReport(table, mods) \in Reports
BY ReportBytesType DEF KeyboardReport, Report, Reports

LEMMA MediaReportType ==
    ASSUME NEW media
    PROVE  MediaReport(media) \in Reports
BY DEF MediaReport, Report, Reports

LEMMA NoReportType == NoReport \in Reports
BY DEF NoReport, Report, Reports

LEMMA FlipType ==
    ASSUME NEW bits \in SUBSET BitIndices, NEW i \in BitIndices
    PROVE  Flip(bits, i) \in SUBSET BitIndices
BY DEF Flip

\* Everything that Send changes has its type again.
LEMMA SendType ==
    ASSUME TypeOK, NEW table \in [Slots -> {0} \cup Codes],
           NEW mods \in SUBSET BitIndices, NEW media \in SUBSET BitIndices,
           Send(table, mods, media)
    PROVE  /\ pressed_keys' \in [Slots -> {0} \cup Codes]
           /\ modifiers' \in SUBSET BitIndices
           /\ media_keys' \in SUBSET BitIndices
           /\ last_media_keys' \in SUBSET BitIndices
           /\ sending' \in BOOLEAN
           /\ hidg' \in Reports
           /\ host' = host
           /\ lost' \in [{1, 2} -> BOOLEAN]
PROOF
<1>1. KeyboardReport(table, mods) \in Reports /\ KeyboardReport(table, mods).id = 1
  BY KeyboardReportType DEF KeyboardReport, Report
<1> DEFINE report == KeyboardReport(table, mods)
<1>2. Write(report) /\ hidg \in Reports /\ lost \in [{1, 2} -> BOOLEAN]
  BY DEF Send, TypeOK
<1> HIDE DEF report
<1>3. hidg' \in Reports /\ lost' \in [{1, 2} -> BOOLEAN]
  BY <1>1, <1>2 DEF Write, report
<1> QED
  BY <1>3 DEF TypeOK, Send

\* The character under the loop of keybow_send_text is one of Characters.
LEMMA HeadType ==
    ASSUME TypeOK, text # <<>>
    PROVE  /\ Head(text) \in Characters
           /\ Tail(text) \in Seq(Characters)
           /\ HidOf(Head(text)) \in {0} \cup Codes
PROOF
<1>1. Head(text) \in Characters /\ Tail(text) \in Seq(Characters)
  BY DEF TypeOK
<1> QED
  BY <1>1 DEF Codes

\* TextInv says where in its loop keybow_send_text can be.
TextShape ==
    /\ Typing => text # <<>> /\ HidOf(Head(text)) # 0
    /\ at = "unshift" => Shifted(Head(text))
    /\ mode # "open" => at = "idle"

TypeInv == TypeOK /\ TextShape

LEMMA TypeInvInit == Init => TypeInv
PROOF
<1> SUFFICES ASSUME Init PROVE TypeInv
  OBVIOUS
<1>1. NoKeys \in [Slots -> {0} \cup Codes]
  BY DEF NoKeys
<1>2. <<>> \in Seq(Characters)
  OBVIOUS
<1>3. HostAtRest \in [modifiers : SUBSET LowByteBits, keys : SUBSET (0..255),
                      media : SUBSET LowByteBits]
  BY DEF HostAtRest
<1> QED
  BY <1>1, <1>2, <1>3, NoReportType DEF Init, TypeInv, TypeOK, TextShape, Typing

LEMMA BitsType ==
    /\ ModifierBits \subseteq BitIndices
    /\ MediaBits \subseteq BitIndices
    /\ LEFT_SHIFT \in BitIndices
BY HidAssumption DEF BitIndices, LEFT_SHIFT

LEMMA NoKeysType == NoKeys \in [Slots -> {0} \cup Codes]
BY DEF NoKeys

LEMMA HeldType ==
    ASSUME TypeOK PROVE Held(pressed_keys) \in SUBSET Codes
BY DEF TypeOK, Held

LEMMA ShiftedHasKey ==
    ASSUME TypeOK, text # <<>>, Shifted(Head(text))
    PROVE  HidOf(Head(text)) # 0
PROOF
<1>1. \A c \in Nat : c \in 65..90 => HidOf(c) # 0
  BY DEF HidOf
<1>2. Head(text) \in 65..90
  BY DEF Shifted
<1> QED
  BY <1>1, <1>2

\* A step that sends leaves the types right if it leaves text and at right.
LEMMA SendKeepsType ==
    ASSUME TypeInv, NEW table \in [Slots -> {0} \cup Codes],
           NEW mods \in SUBSET BitIndices, NEW media \in SUBSET BitIndices,
           Send(table, mods, media),
           text' \in Seq(Characters),
           at' \in {"idle", "char", "press", "release", "unshift"},
           mode' \in {"open", "closing", "closed"},
           before' = before,
           TextShape'
    PROVE  TypeInv'
BY SendType DEF TypeInv, TypeOK

LEMMA TypeInvNext == TypeInv /\ [Next]_vars => TypeInv'
PROOF
<1> SUFFICES ASSUME TypeInv, [Next]_vars PROVE TypeInv'
  OBVIOUS
<1> USE DEF TypeInv
<1>1. ASSUME NEW c \in HidCodes, NEW s \in BOOLEAN, SetKey(c, s) PROVE TypeInv'
  <2>1. c \in {0} \cup Codes
    BY DEF Codes
  <2>2. /\ pressKey(pressed_keys, c) \in [Slots -> {0} \cup Codes]
        /\ releaseKey(pressed_keys, c) \in [Slots -> {0} \cup Codes]
    BY <2>1, PressKeyType, ReleaseKeyType DEF TypeOK
  <2> DEFINE table == IF s THEN pressKey(pressed_keys, c)
                           ELSE releaseKey(pressed_keys, c)
  <2>3. table \in [Slots -> {0} \cup Codes]
    BY <2>2
  <2>4. Send(table, modifiers, media_keys) /\ UNCHANGED <<text, at, mode, before>>
    BY <1>1 DEF SetKey
  <2>5. /\ text' \in Seq(Characters)
        /\ at' \in {"idle", "char", "press", "release", "unshift"}
        /\ mode' \in {"open", "closing", "closed"}
        /\ before' = before
        /\ TextShape'
    BY <2>4 DEF TypeOK, TextShape, Typing
  <2>6. modifiers \in SUBSET BitIndices /\ media_keys \in SUBSET BitIndices
    BY DEF TypeOK
  <2> HIDE DEF table
  <2> QED
    BY <2>3, <2>4, <2>5, <2>6, SendKeepsType
<1>2. ASSUME NEW i \in ModifierBits, NEW s \in BOOLEAN, SetModifier(i, s)
      PROVE  TypeInv'
  <2>1. Flip(modifiers, i) \in SUBSET BitIndices
    BY BitsType, FlipType DEF TypeOK
  <2>2. /\ Send(pressed_keys, Flip(modifiers, i), media_keys)
        /\ UNCHANGED <<text, at, mode, before>>
    BY <1>2 DEF SetModifier
  <2>3. /\ text' \in Seq(Characters)
        /\ at' \in {"idle", "char", "press", "release", "unshift"}
        /\ mode' \in {"open", "closing", "closed"}
        /\ before' = before
        /\ TextShape'
    BY <2>2 DEF TypeOK, TextShape, Typing
  <2>4. media_keys \in SUBSET BitIndices /\ modifiers \in SUBSET BitIndices
        /\ pressed_keys \in [Slots -> {0} \cup Codes]
    BY DEF TypeOK
  <2> QED
    BY <2>1, <2>2, <2>3, <2>4, SendKeepsType
<1>3. ASSUME NEW i \in MediaBits, NEW s \in BOOLEAN, SetMediaKey(i, s)
      PROVE  TypeInv'
  <2>1. Flip(media_keys, i) \in SUBSET BitIndices
    BY BitsType, FlipType DEF TypeOK
  <2>2. /\ Send(pressed_keys, modifiers, Flip(media_keys, i))
        /\ UNCHANGED <<text, at, mode, before>>
    BY <1>3 DEF SetMediaKey
  <2>3. /\ text' \in Seq(Characters)
        /\ at' \in {"idle", "char", "press", "release", "unshift"}
        /\ mode' \in {"open", "closing", "closed"}
        /\ before' = before
        /\ TextShape'
    BY <2>2 DEF TypeOK, TextShape, Typing
  <2>4. media_keys \in SUBSET BitIndices /\ modifiers \in SUBSET BitIndices
        /\ pressed_keys \in [Slots -> {0} \cup Codes]
    BY DEF TypeOK
  <2> QED
    BY <2>1, <2>2, <2>3, <2>4, SendKeepsType
<1>4. ASSUME NEW t \in Texts, SendText(t) PROVE TypeInv'
  <2>1. t \in Seq(Characters)
    BY HidAssumption
  <2> QED
    BY <1>4, <2>1, HeldType
    DEF SendText, Ready, NothingSent, tables, TypeOK, TextShape, Typing
<1>5. CASE SendMedia
  <2>1. MediaReport(media_keys) \in Reports /\ MediaReport(media_keys).id = 2
    BY MediaReportType DEF MediaReport, Report
  <2>2. hidg' \in Reports /\ lost' \in [{1, 2} -> BOOLEAN]
    BY <1>5, <2>1 DEF TypeOK, SendMedia, Write
  <2> QED
    BY <1>5, <2>2 DEF SendMedia, tables, TypeOK, TextShape, Typing
<1>6. CASE TextChar
  <2>1. Flip(modifiers, LEFT_SHIFT) \in SUBSET BitIndices
    BY BitsType, FlipType DEF TypeOK
  <2>2. CASE text # <<>> /\ Shifted(Head(text))
             /\ at' = "press" /\ UNCHANGED <<text, mode, before>>
             /\ Send(pressed_keys, Flip(modifiers, LEFT_SHIFT), media_keys)
    <3>1. HidOf(Head(text)) # 0 /\ at = "char"
      BY <1>6, <2>2, ShiftedHasKey DEF TextChar
    <3>2. /\ text' \in Seq(Characters)
          /\ at' \in {"idle", "char", "press", "release", "unshift"}
          /\ mode' \in {"open", "closing", "closed"}
          /\ before' = before
          /\ TextShape'
      BY <2>2, <3>1 DEF TypeOK, TextShape, Typing
    <3>3. media_keys \in SUBSET BitIndices
          /\ pressed_keys \in [Slots -> {0} \cup Codes]
      BY DEF TypeOK
    <3> QED
      BY <2>1, <2>2, <3>2, <3>3, SendKeepsType
  <2>3. CASE NothingSent /\ UNCHANGED <<mode, before>>
             /\ \/ text = <<>> /\ at' = "idle" /\ UNCHANGED text
                \/ text # <<>> /\ text' = Tail(text) /\ UNCHANGED at
                \/ text # <<>> /\ HidOf(Head(text)) # 0 /\ at' = "press"
                   /\ UNCHANGED text
    BY <1>6, <2>3, HeadType
    DEF TextChar, NothingSent, tables, TypeOK, TextShape, Typing
  <2> QED
    BY <1>6, <2>2, <2>3 DEF TextChar
<1>7. CASE TextPress
  <2>1. pressKey(pressed_keys, HidOf(Head(text))) \in [Slots -> {0} \cup Codes]
    BY <1>7, HeadType, PressKeyType DEF TextPress, TypeOK, TextShape, Typing
  <2> QED
    BY <1>7, <2>1, SendKeepsType DEF TextPress, TypeOK, TextShape, Typing
<1>8. CASE TextRelease
  <2>1. releaseKey(pressed_keys, HidOf(Head(text))) \in [Slots -> {0} \cup Codes]
    BY ReleaseKeyType DEF TypeOK
  <2>2. text # <<>> /\ Tail(text) \in Seq(Characters)
    BY <1>8, HeadType DEF TextRelease, TextShape, Typing
  <2> QED
    BY <1>8, <2>1, <2>2, SendKeepsType DEF TextRelease, TypeOK, TextShape, Typing
<1>9. CASE TextUnshift
  <2>1. Flip(modifiers, LEFT_SHIFT) \in SUBSET BitIndices
    BY BitsType, FlipType DEF TypeOK
  <2>2. text # <<>> /\ Tail(text) \in Seq(Characters)
    BY <1>9, HeadType DEF TextUnshift, TextShape, Typing
  <2> QED
    BY <1>9, <2>1, <2>2, SendKeepsType DEF TextUnshift, TypeOK, TextShape, Typing
<1>10. CASE LuaClose
  <2>1. {} \in SUBSET BitIndices
    OBVIOUS
  <2> QED
    BY <1>10, <2>1, NoKeysType, SendKeepsType
    DEF LuaClose, Ready, TypeOK, TextShape, Typing
<1>11. CASE CloseOutput
  BY <1>11 DEF CloseOutput, tables, TypeOK, TextShape, Typing
<1>12. CASE CrashRestart
  <2>1. <<>> \in Seq(Characters)
    OBVIOUS
  <2> QED
    BY <1>12, <2>1, NoKeysType DEF CrashRestart, TypeOK, TextShape, Typing
<1>13. CASE HostPoll
  <2>1. host' \in [modifiers : SUBSET LowByteBits, keys : SUBSET (0..255),
                   media : SUBSET LowByteBits]
    BY <1>13 DEF HostPoll, TypeOK, Reports
  <2> QED
    BY <1>13, <2>1, NoReportType
    DEF HostPoll, tables, TypeOK, TextShape, Typing
<1>14. CASE HostReset
  <2>1. HostAtRest \in [modifiers : SUBSET LowByteBits, keys : SUBSET (0..255),
                        media : SUBSET LowByteBits]
    BY DEF HostAtRest
  <2> QED
    BY <1>14, <2>1, NoReportType
    DEF HostReset, tables, TypeOK, TextShape, Typing
<1>15. CASE UNCHANGED vars
  BY <1>15 DEF vars, tables, TypeOK, TextShape, Typing
<1> QED
  BY <1>1, <1>2, <1>3, <1>4, <1>5, <1>6, <1>7, <1>8, <1>9, <1>10, <1>11,
     <1>12, <1>13, <1>14, <1>15
  DEF Next, Handler, Continue, Closed

\* The tables, the report under way and the host's view always have their
\* types, and keybow_send_text never runs past the end of its text.
THEOREM TypeCorrect == Spec => []TypeOK
PROOF
<1>1. Spec => []TypeInv
  BY TypeInvInit, TypeInvNext, PTL DEF Spec
<1> QED
  BY <1>1, PTL DEF TypeInv

-----------------------------------------------------------------------------
(* The host's view *)

\* For the reports only these kinds of steps differ.
LEMMA StepKinds ==
    ASSUME [Next]_vars
    PROVE  \/ Send(pressed_keys', modifiers', media_keys')
           \/ SendMedia
           \/ NothingSent
           \/ CrashRestart
           \/ HostPoll
           \/ HostReset
PROOF
<1>1. ASSUME NEW c \in HidCodes, NEW s \in BOOLEAN, SetKey(c, s)
      PROVE  Send(pressed_keys', modifiers', media_keys')
  BY <1>1 DEF SetKey, Send
<1>2. ASSUME NEW i \in ModifierBits, NEW s \in BOOLEAN, SetModifier(i, s)
      PROVE  Send(pressed_keys', modifiers', media_keys')
  BY <1>2 DEF SetModifier, Send
<1>3. ASSUME NEW i \in MediaBits, NEW s \in BOOLEAN, SetMediaKey(i, s)
      PROVE  Send(pressed_keys', modifiers', media_keys')
  BY <1>3 DEF SetMediaKey, Send
<1>4. ASSUME NEW t \in Texts, SendText(t) PROVE NothingSent
  BY <1>4 DEF SendText
<1>5. CASE TextChar
  BY <1>5 DEF TextChar, Send
<1>6. CASE TextPress \/ TextRelease \/ TextUnshift \/ LuaClose
  BY <1>6 DEF TextPress, TextRelease, TextUnshift, LuaClose, Send
<1>7. CASE CloseOutput \/ UNCHANGED vars
  BY <1>7 DEF CloseOutput, NothingSent, vars, tables
<1> QED
  BY <1>1, <1>2, <1>3, <1>4, <1>5, <1>6, <1>7
  DEF Next, Handler, Continue, Closed

\* A report that was taken and not yet polled is the table as it is now; a
\* report that was polled left the host with the table as it is now.
HostInv ==
    /\ hidg.id = 0 => hidg = NoReport
    /\ ~lost[1] =>
          IF hidg.id = 1 THEN hidg = KeyboardReport(pressed_keys, modifiers)
          ELSE /\ host.modifiers = modifiers \cap LowByteBits
               /\ host.keys = ReportBytes(pressed_keys)
    /\ ~lost[2] =>
          IF hidg.id = 2 THEN hidg = MediaReport(last_media_keys)
          ELSE host.media = last_media_keys \cap LowByteBits
    /\ ~sending => media_keys = last_media_keys

LEMMA ReportIds ==
    /\ NoReport.id = 0
    /\ \A t, m : KeyboardReport(t, m).id = 1
    /\ \A m : MediaReport(m).id = 2
BY DEF NoReport, KeyboardReport, MediaReport, Report

LEMMA NoKeysReport == ReportBytes(NoKeys) = {}
PROOF
<1>1. \A s \in ReportedSlots : NoKeys[s] % 256 = 0
  BY SlotSets DEF NoKeys
<1> QED
  BY <1>1 DEF ReportBytes

LEMMA HostInvInit == Init => HostInv
BY ReportIds, NoKeysReport DEF Init, HostInv, HostAtRest

LEMMA HostInvNext == TypeInv /\ HostInv /\ [Next]_vars => HostInv'
PROOF
<1> SUFFICES ASSUME TypeInv, HostInv, [Next]_vars PROVE HostInv'
  OBVIOUS
<1>1. CASE Send(pressed_keys', modifiers', media_keys')
  <2> DEFINE report == KeyboardReport(pressed_keys', modifiers')
  <2>1. sending' /\ UNCHANGED <<last_media_keys, host>> /\ Write(report)
    BY <1>1 DEF Send
  <2>2. report.id = 1
    BY ReportIds
  <2>3. CASE hidg = NoReport /\ hidg' = report
             /\ lost' = [lost EXCEPT ![1] = FALSE]
    BY <2>1, <2>2, <2>3, ReportIds DEF HostInv, TypeInv, TypeOK
  <2>4. CASE hidg # NoReport /\ lost' = [lost EXCEPT ![1] = TRUE]
             /\ UNCHANGED hidg
    BY <2>1, <2>4, ReportIds DEF HostInv, TypeInv, TypeOK
  <2> QED
    BY <2>1, <2>2, <2>3, <2>4 DEF Write
<1>2. CASE SendMedia
  <2> DEFINE report == MediaReport(media_keys)
  <2>1. report.id = 2
    BY ReportIds
  <2>2. CASE media_keys # last_media_keys
    <3>1. /\ Write(report)
          /\ last_media_keys' = media_keys
          /\ UNCHANGED <<pressed_keys, modifiers, media_keys, host>>
      BY <1>2, <2>2 DEF SendMedia, tables
    <3>2. CASE hidg = NoReport /\ hidg' = report
               /\ lost' = [lost EXCEPT ![2] = FALSE]
      BY <2>1, <3>1, <3>2, ReportIds DEF HostInv, TypeInv, TypeOK
    <3>3. CASE hidg # NoReport /\ lost' = [lost EXCEPT ![2] = TRUE]
               /\ UNCHANGED hidg
      BY <3>1, <3>3, ReportIds DEF HostInv, TypeInv, TypeOK
    <3> QED
      BY <2>1, <3>1, <3>2, <3>3 DEF Write
  <2>3. CASE media_keys = last_media_keys
    BY <1>2, <2>3 DEF SendMedia, tables, HostInv
  <2> QED
    BY <2>2, <2>3
<1>3. CASE NothingSent
  BY <1>3 DEF NothingSent, tables, HostInv
<1>4. CASE CrashRestart
  BY <1>4 DEF CrashRestart, HostInv
<1>5. CASE HostPoll
  <2>1. hidg.id \in {1, 2} /\ hidg' = NoReport
        /\ UNCHANGED <<tables, last_media_keys, sending, lost>>
    BY <1>5 DEF HostPoll, HostInv, TypeInv, TypeOK, Reports
  <2>2. CASE hidg.id = 1
    <3>1. host' = [modifiers |-> hidg.bits, keys |-> hidg.keys,
                   media |-> host.media]
      BY <1>5, <2>2 DEF HostPoll
    <3> QED
      BY <2>1, <2>2, <3>1, ReportIds
      DEF HostInv, KeyboardReport, Report, tables
  <2>3. CASE hidg.id = 2
    <3>1. host' = [modifiers |-> host.modifiers, keys |-> host.keys,
                   media |-> hidg.bits]
      BY <1>5, <2>3 DEF HostPoll
    <3> QED
      BY <2>1, <2>3, <3>1, ReportIds
      DEF HostInv, MediaReport, Report, tables
  <2> QED
    BY <2>1, <2>2, <2>3
<1>6. CASE HostReset
  BY <1>6, ReportIds DEF HostReset, HostInv, tables
<1> QED
  BY <1>1, <1>2, <1>3, <1>4, <1>5, <1>6, StepKinds

LEMMA HostInvariant == Spec => [](TypeInv /\ HostInv)
PROOF
<1>1. Init => TypeInv /\ HostInv
  BY TypeInvInit, HostInvInit
<1>2. TypeInv /\ HostInv /\ [Next]_vars => (TypeInv /\ HostInv)'
  BY TypeInvNext, HostInvNext
<1> QED
  BY <1>1, <1>2, PTL DEF Spec

\* Once the driver has nothing left to deliver the host sees the tables,
\* for every interleaving of handlers, polls and faults.
THEOREM HostSeesTables == Spec => []HostAgrees
PROOF
<1>1. HostInv => HostAgrees
  BY DEF HostInv, HostAgrees
<1> QED
  BY <1>1, HostInvariant, PTL

-----------------------------------------------------------------------------
(* The end *)

\* From luaClose on nothing is pressed and no text is typed.
CloseInv == mode = "open" \/ (pressed_keys = NoKeys /\ modifiers = {} /\ at = "idle")

LEMMA CloseInvNext == CloseInv /\ [Next]_vars => CloseInv'
PROOF
<1> SUFFICES ASSUME CloseInv, [Next]_vars PROVE CloseInv'
  OBVIOUS
<1> USE DEF CloseInv
<1>1. CASE Handler
  BY <1>1 DEF Handler, SetKey, SetModifier, SetMediaKey, SendText, Ready
<1>2. CASE SendMedia \/ CloseOutput
  BY <1>2 DEF SendMedia, CloseOutput, tables
<1>3. CASE TextChar
  BY <1>3 DEF TextChar
<1>4. CASE TextPress \/ TextRelease \/ TextUnshift
  BY <1>4 DEF TextPress, TextRelease, TextUnshift
<1>5. CASE LuaClose
  BY <1>5 DEF LuaClose, Ready, Send
<1>6. CASE CrashRestart
  BY <1>6 DEF CrashRestart
<1>7. CASE HostPoll \/ HostReset
  BY <1>7 DEF HostPoll, HostReset, tables
<1>8. CASE Closed \/ UNCHANGED vars
  BY <1>8 DEF Closed, vars, tables
<1> QED
  BY <1>1, <1>2, <1>3, <1>4, <1>5, <1>6, <1>7, <1>8 DEF Next, Continue

\* When luaClose has ended and its report was taken, the host shows no key
\* and no modifier, whatever handlers and texts had pressed before.
THEOREM NothingLeftPressed == Spec => []ClosedReleasesKeys
PROOF
<1>1. Spec => []CloseInv
  <2>1. Init => CloseInv
    BY DEF Init, CloseInv
  <2> QED
    BY <2>1, CloseInvNext, PTL DEF Spec
<1>2. HostInv /\ CloseInv => ClosedReleasesKeys
  BY NoKeysReport, ReportIds DEF HostInv, CloseInv, ClosedReleasesKeys
<1> QED
  BY <1>1, <1>2, HostInvariant, PTL

-----------------------------------------------------------------------------
(* The table of pressed keys and keybow_send_text *)

HidChar == HidOf(Head(text))

\* The modifiers while a character is typed.
CharModifiers == IF Shifted(Head(text)) THEN Flip(before.modifiers, LEFT_SHIFT)
                 ELSE before.modifiers

\* The held keys are those from before keybow_send_text was called.
Kept ==
    /\ Held(pressed_keys) \subseteq before.keys
    /\ Fits => Held(pressed_keys) = before.keys

KeysInv ==
    /\ at # "release" => Distinct(pressed_keys)
    /\ Fits => AllReported(pressed_keys)
    /\ at = "char" => modifiers = before.modifiers /\ Kept
    /\ at = "press" => modifiers = CharModifiers /\ Kept
    /\ at = "unshift" => modifiers = Flip(before.modifiers, LEFT_SHIFT) /\ Kept
    /\ at = "release" =>
          /\ modifiers = CharModifiers
          /\ Between(pressed_keys, HidChar, before.keys, Fits)

LEMMA CodesFinite == IsFiniteSet(Codes)
PROOF
<1>1. USHORT_RANGE \in Nat
  BY DEF USHORT_RANGE
<1>2. Codes \in SUBSET Nat /\ \A c \in Codes : c <= USHORT_RANGE
  BY <1>1, CodesType DEF UShort
<1> QED
  BY <1>1, <1>2, FS_BoundedSetOfNaturals

LEMMA FlipTwice ==
    ASSUME NEW bits, NEW i PROVE Flip(Flip(bits, i), i) = bits
BY DEF Flip

LEMMA NoKeysDistinct == Distinct(NoKeys) /\ AllReported(NoKeys)
BY DEF NoKeys, Distinct, AllReported

\* Pressing a key while the codes are distinct.
LEMMA FittingPress ==
    ASSUME TypeOK, Fits, Distinct(pressed_keys), AllReported(pressed_keys),
           NEW c
    PROVE  isPressed(pressed_keys, 0) /\ AllReported(pressKey(pressed_keys, c))
BY PressReported, CodesFinite DEF TypeOK, Fits

LEMMA KeysInvInit == Init => KeysInv
BY NoKeysDistinct DEF Init, KeysInv

LEMMA KeysInvNext == TypeInv /\ KeysInv /\ [Next]_vars => KeysInv'
PROOF
<1> SUFFICES ASSUME TypeInv, KeysInv, [Next]_vars PROVE KeysInv'
  OBVIOUS
<1>0. pressed_keys \in [Slots -> {0} \cup Codes] /\ Fits \in BOOLEAN
  BY DEF TypeInv, TypeOK, Fits
<1>1. ASSUME NEW c \in HidCodes, NEW s \in BOOLEAN, SetKey(c, s)
      PROVE  KeysInv'
  <2>1. at = "idle" /\ at' = "idle" /\ Distinct(pressed_keys)
    BY <1>1 DEF SetKey, Ready, KeysInv
  <2>2. CASE s
    <3>1. pressed_keys' = pressKey(pressed_keys, c)
          /\ ~isPressed(pressed_keys, c)
      BY <1>1, <2>2 DEF SetKey, Send
    <3>2. Distinct(pressed_keys')
      BY <1>0, <2>1, <3>1, PressDistinct
    <3>3. Fits => AllReported(pressed_keys')
      BY <2>1, <3>1, FittingPress DEF KeysInv, TypeInv
    <3> QED
      BY <2>1, <3>2, <3>3 DEF KeysInv, Fits
  <2>3. CASE ~s
    <3>1. pressed_keys' = releaseKey(pressed_keys, c)
      BY <1>1, <2>3 DEF SetKey, Send
    <3>2. Distinct(pressed_keys')
      BY <1>0, <2>1, <3>1, ReleaseDistinct
    <3>3. Fits => AllReported(pressed_keys')
      BY <1>0, <3>1, ReleaseReported DEF KeysInv
    <3> QED
      BY <2>1, <3>2, <3>3 DEF KeysInv, Fits
  <2> QED
    BY <2>2, <2>3
<1>2. ASSUME NEW i \in ModifierBits, NEW s \in BOOLEAN, SetModifier(i, s)
      PROVE  KeysInv'
  BY <1>2 DEF SetModifier, Ready, Send, KeysInv, Fits
<1>3. ASSUME NEW i \in MediaBits, NEW s \in BOOLEAN, SetMediaKey(i, s)
      PROVE  KeysInv'
  BY <1>3 DEF SetMediaKey, Ready, Send, KeysInv, Fits
<1>4. ASSUME NEW t \in Texts, SendText(t) PROVE KeysInv'
  BY <1>4 DEF SendText, Ready, NothingSent, tables, KeysInv, Kept, Fits
<1>5. CASE TextChar
  <2>1. CASE NothingSent /\ at' \in {"idle", "char"} /\ UNCHANGED before
    BY <1>5, <2>1 DEF TextChar, NothingSent, tables, KeysInv, Kept, Fits
  <2>2. CASE NothingSent /\ ~Shifted(Head(text)) /\ at' = "press"
             /\ UNCHANGED <<text, before>>
    BY <1>5, <2>2
    DEF TextChar, NothingSent, tables, KeysInv, Kept, Fits, CharModifiers
  <2>3. CASE /\ Shifted(Head(text)) /\ at' = "press"
             /\ Send(pressed_keys, Flip(modifiers, LEFT_SHIFT), media_keys)
             /\ UNCHANGED <<text, before>>
    BY <1>5, <2>3 DEF TextChar, Send, KeysInv, Kept, Fits, CharModifiers
  <2> QED
    BY <1>5, <2>1, <2>2, <2>3 DEF TextChar
<1>6. CASE TextPress
  <2>1. /\ at = "press" /\ at' = "release"
        /\ pressed_keys' = pressKey(pressed_keys, HidChar)
        /\ UNCHANGED <<text, modifiers, before>>
    BY <1>6 DEF TextPress, Send, HidChar
  <2>2. HidChar # 0
    BY <2>1 DEF TypeInv, TextShape, Typing, HidChar
  <2>3. Distinct(pressed_keys) /\ Kept
    BY <2>1 DEF KeysInv
  <2>4. Fits => isPressed(pressed_keys, 0) /\ AllReported(pressed_keys')
    BY <2>1, <2>3, FittingPress DEF KeysInv, TypeInv
  <2>5. Between(pressed_keys', HidChar, before.keys, Fits)
    BY <1>0, <2>1, <2>2, <2>3, <2>4, PressBetween DEF Kept
  <2> QED
    BY <2>1, <2>4, <2>5 DEF KeysInv, CharModifiers, HidChar, Fits
<1>7. CASE TextRelease
  <2>1. /\ at = "release"
        /\ pressed_keys' = releaseKey(pressed_keys, HidChar)
        /\ UNCHANGED <<modifiers, before>>
        /\ IF Shifted(Head(text)) THEN at' = "unshift" ELSE at' = "char"
    BY <1>7 DEF TextRelease, Send, HidChar
  <2>2. HidChar # 0
    BY <2>1 DEF TypeInv, TextShape, Typing, HidChar
  <2>3. /\ Between(pressed_keys, HidChar, before.keys, Fits)
        /\ modifiers = CharModifiers
    BY <2>1 DEF KeysInv
  <2>4. /\ Distinct(pressed_keys')
        /\ Held(pressed_keys') \subseteq before.keys
        /\ Fits => Held(pressed_keys') = before.keys
    BY <1>0, <2>1, <2>2, <2>3, ReleaseBetween
  <2>5. Fits => AllReported(pressed_keys')
    BY <1>0, <2>1, ReleaseReported DEF KeysInv
  <2> QED
    BY <2>1, <2>3, <2>4, <2>5 DEF KeysInv, Kept, Fits, CharModifiers
<1>8. CASE TextUnshift
  <2>1. /\ at = "unshift" /\ at' = "char"
        /\ pressed_keys' = pressed_keys
        /\ modifiers' = Flip(modifiers, LEFT_SHIFT)
        /\ UNCHANGED before
    BY <1>8 DEF TextUnshift, Send
  <2>2. modifiers' = before.modifiers
    BY <2>1, FlipTwice DEF KeysInv
  <2> QED
    BY <2>1, <2>2 DEF KeysInv, Kept, Fits
<1>9. CASE LuaClose
  BY <1>9, NoKeysDistinct DEF LuaClose, Ready, Send, KeysInv, Fits
<1>10. CASE CrashRestart
  BY <1>10, NoKeysDistinct DEF CrashRestart, KeysInv, Fits
<1>11. CASE UNCHANGED <<pressed_keys, modifiers, text, at, before>>
  BY <1>11 DEF KeysInv, Kept, Fits, CharModifiers, HidChar
<1>12. CASE SendMedia \/ CloseOutput \/ HostPoll \/ HostReset \/ UNCHANGED vars
  BY <1>11, <1>12
  DEF SendMedia, CloseOutput, HostPoll, HostReset, vars, tables
<1> QED
  BY <1>1, <1>2, <1>3, <1>4, <1>5, <1>6, <1>7, <1>8, <1>9, <1>10, <1>12
  DEF Next, Handler, Continue, Closed

LEMMA KeysInvariant == Spec => [](TypeInv /\ KeysInv)
PROOF
<1>1. Init => TypeInv /\ KeysInv
  BY TypeInvInit, KeysInvInit
<1>2. TypeInv /\ KeysInv /\ [Next]_vars => (TypeInv /\ KeysInv)'
  BY TypeInvNext, KeysInvNext
<1> QED
  BY <1>1, <1>2, PTL DEF Spec

\* No code is stored twice, so that one release always releases it.
THEOREM NoKeyStoredTwice == Spec => []OneSlotPerKey
PROOF
<1>1. KeysInv => OneSlotPerKey
  BY DEF KeysInv, OneSlotPerKey, Distinct, Between, HidChar
<1> QED
  BY <1>1, KeysInvariant, PTL

\* As long as the keys fit, the slot that is not reported stays empty.
THEOREM NoHiddenKey == Spec => []EveryHeldKeyReported
PROOF
<1>1. TypeInv /\ KeysInv => EveryHeldKeyReported
  <2>1. Codes \subseteq Nat
    BY CodesType DEF UShort
  <2> QED
    BY <2>1, ReportShowsHeld
    DEF TypeInv, TypeOK, KeysInv, EveryHeldKeyReported
<1> QED
  BY <1>1, KeysInvariant, PTL

\* keybow_send_text gives back the keys and the modifiers it was called with.
THEOREM TextIsNeutral == Spec => []TextRestores
PROOF
<1>1. KeysInv => TextRestores
  BY DEF KeysInv, TextRestores, Kept
<1> QED
  BY <1>1, KeysInvariant, PTL

-----------------------------------------------------------------------------
(* The two kinds of reports implement ReportMirror *)

\* A report that the host polls is what it believes afterwards.
LEMMA PolledReport ==
    ASSUME TypeOK, HostInv, HostPoll
    PROVE  /\ hidg' = NoReport
           /\ \/ /\ hidg.id = 1
                 /\ Report(1, host'.modifiers, host'.keys) = hidg
                 /\ host'.media = host.media
              \/ /\ hidg.id = 2
                 /\ Report(2, host'.media, hidg.keys) = hidg
                 /\ host'.modifiers = host.modifiers
                 /\ host'.keys = host.keys
PROOF
<1>1. /\ hidg.id \in {1, 2} /\ hidg' = NoReport
      /\ hidg = [id |-> hidg.id, bits |-> hidg.bits, keys |-> hidg.keys]
      /\ hidg.bits \cap LowByteBits = hidg.bits
  BY DEF HostPoll, HostInv, TypeOK, Reports
<1>2. CASE hidg.id = 1
  BY <1>1, <1>2 DEF HostPoll, Report
<1>3. CASE hidg.id = 2
  BY <1>1, <1>3 DEF HostPoll, Report
<1> QED
  BY <1>1, <1>2, <1>3

LEMMA KeyboardStep ==
    ASSUME TypeInv, HostInv, TypeInv', [Next]_vars
    PROVE  [Keyboard!Next]_(Keyboard!vars)
PROOF
<1> DEFINE Source == KeyboardReport(pressed_keys, modifiers)
           View == Report(1, host.modifiers, host.keys)
<1> USE DEF Keyboard!Next, Keyboard!vars
<1>1. CASE Send(pressed_keys', modifiers', media_keys')
  <2>1. Write(Source') /\ host' = host /\ Source'.id = 1
    BY <1>1, ReportIds DEF Send
  <2>2. Source' \in [id : {1}, bits : SUBSET LowByteBits, keys : SUBSET (0..255)]
    <3>1. ReportBytes(pressed_keys') \in SUBSET (0..255)
      BY ReportBytesType DEF TypeInv, TypeOK
    <3> QED
      BY <3>1 DEF KeyboardReport, Report
  <2>3. CASE hidg = NoReport /\ hidg' = Source' /\ lost' = [lost EXCEPT ![1] = FALSE]
    <3>1. Pending(1) = NoReport /\ Pending(1)' = Source' /\ lost'[1] = FALSE
      BY <2>1, <2>3 DEF Pending, TypeInv, TypeOK
    <3> QED
      BY <2>1, <2>2, <3>1 DEF Keyboard!Accepted
  <2>4. CASE ~HostKeepsPace /\ lost' = [lost EXCEPT ![1] = TRUE] /\ UNCHANGED hidg
    <3>1. Pending(1)' = Pending(1) /\ lost'[1] = TRUE
      BY <2>4 DEF Pending, NoReport, TypeInv, TypeOK
    <3> QED
      BY <2>1, <2>2, <2>4, <3>1 DEF Keyboard!Refused
  <2> QED
    BY <2>1, <2>3, <2>4 DEF Write
<1>2. CASE SendMedia
  <2>1. UNCHANGED <<pressed_keys, modifiers, host>>
    BY <1>2 DEF SendMedia, tables
  <2>2. Pending(1)' = Pending(1) /\ lost'[1] = lost[1]
    <3>1. CASE Write(MediaReport(media_keys))
      BY <3>1, ReportIds DEF Write, Pending, NoReport, TypeInv, TypeOK
    <3>2. CASE UNCHANGED <<hidg, lost>>
      BY <3>2 DEF Pending, NoReport
    <3> QED
      BY <1>2, <3>1, <3>2 DEF SendMedia
  <2> QED
    BY <2>1, <2>2
<1>3. CASE NothingSent
  BY <1>3 DEF NothingSent, tables, Pending, NoReport
<1>4. CASE CrashRestart
  <2>1. Source' = Report(1, {}, {})
    BY <1>4, NoKeysReport DEF CrashRestart, KeyboardReport
  <2>2. Pending(1)' = Pending(1) /\ host' = host /\ lost'[1] = TRUE /\ Faults
    BY <1>4 DEF CrashRestart, Pending, NoReport
  <2> QED
    BY <2>1, <2>2 DEF Keyboard!Restart
<1>5. CASE HostPoll
  <2>1. UNCHANGED <<pressed_keys, modifiers, lost>>
    BY <1>5 DEF HostPoll, tables
  <2>2. CASE hidg.id = 1
    <3>1. Pending(1) = hidg /\ Pending(1)' = NoReport /\ View' = hidg
          /\ hidg # NoReport
      BY <1>5, <2>2, PolledReport, ReportIds DEF Pending, TypeInv, HostPoll
    <3> QED
      BY <2>1, <3>1 DEF Keyboard!Deliver
  <2>3. CASE hidg.id = 2
    <3>1. Pending(1) = NoReport /\ Pending(1)' = NoReport /\ View' = View
      BY <1>5, <2>3, PolledReport, ReportIds DEF Pending, TypeInv
    <3> QED
      BY <2>1, <3>1
  <2> QED
    BY <1>5, <2>2, <2>3, PolledReport DEF TypeInv
<1>6. CASE HostReset
  <2>1. Pending(1)' = NoReport /\ View' = Report(1, {}, {}) /\ lost'[1] = TRUE
        /\ Faults /\ UNCHANGED <<pressed_keys, modifiers>>
    BY <1>6, ReportIds DEF HostReset, HostAtRest, Pending, tables
  <2> QED
    BY <2>1 DEF Keyboard!BusReset
<1> QED
  BY <1>1, <1>2, <1>3, <1>4, <1>5, <1>6, StepKinds

\* The keyboard reports mirror pressed_keys and modifiers.
THEOREM KeyboardImplementsMirror == Spec => Keyboard!SafeSpec
PROOF
<1>1. ASSUME Init PROVE Keyboard!Init
  <2>1. KeyboardReport(pressed_keys, modifiers) = Report(1, {}, {})
    BY <1>1, NoKeysReport DEF Init, KeyboardReport
  <2>2. Pending(1) = NoReport
    BY <1>1, ReportIds DEF Init, Pending
  <2>3. Report(1, host.modifiers, host.keys) = Report(1, {}, {})
    BY <1>1 DEF Init, HostAtRest
  <2>4. lost[1] = FALSE
    BY <1>1 DEF Init
  <2> QED
    BY <2>1, <2>2, <2>3, <2>4 DEF Keyboard!Init
<1>2. TypeInv /\ HostInv /\ TypeInv' /\ [Next]_vars
         => [Keyboard!Next]_(Keyboard!vars)
  BY KeyboardStep
<1>3. Spec => [](TypeInv /\ HostInv)
  BY TypeInvInit, HostInvInit, TypeInvNext, HostInvNext, PTL DEF Spec
<1> QED
  BY <1>1, <1>2, <1>3, PTL DEF Spec, Keyboard!SafeSpec

LEMMA MediaStep ==
    ASSUME TypeInv, HostInv, TypeInv', [Next]_vars
    PROVE  [Media!Next]_(Media!vars)
PROOF
<1> DEFINE View == Report(2, host.media, {})
<1> USE DEF Media!Next, Media!vars
<1>1. CASE Send(pressed_keys', modifiers', media_keys')
  <2> DEFINE report == KeyboardReport(pressed_keys', modifiers')
  <2>1. Write(report) /\ report.id = 1 /\ UNCHANGED <<last_media_keys, host>>
    BY <1>1, ReportIds DEF Send
  <2>2. Pending(2)' = Pending(2) /\ lost'[2] = lost[2]
    BY <2>1, ReportIds DEF Write, Pending, NoReport, TypeInv, TypeOK
  <2> QED
    BY <2>1, <2>2
<1>2. CASE SendMedia
  <2> DEFINE report == MediaReport(media_keys)
  <2>1. CASE media_keys = last_media_keys
    <3>1. UNCHANGED <<last_media_keys, hidg, host, lost>>
      BY <1>2, <2>1 DEF SendMedia
    <3> QED
      BY <3>1 DEF Pending, NoReport
  <2>2. CASE media_keys # last_media_keys
    <3>1. Write(report) /\ last_media_keys' = media_keys /\ host' = host
          /\ report.id = 2
      BY <1>2, <2>2, ReportIds DEF SendMedia
    <3>2. report \in [id : {2}, bits : SUBSET LowByteBits, keys : {{}}]
      BY DEF MediaReport, Report
    <3>3. MediaReport(last_media_keys)' = report
      BY <3>1 DEF MediaReport
    <3>4. CASE hidg = NoReport /\ hidg' = report /\ lost' = [lost EXCEPT ![2] = FALSE]
      <4>1. Pending(2) = NoReport /\ Pending(2)' = report /\ lost'[2] = FALSE
        BY <3>1, <3>4 DEF Pending, TypeInv, TypeOK
      <4> QED
        BY <3>1, <3>2, <3>3, <4>1 DEF Media!Accepted
    <3>5. CASE ~HostKeepsPace /\ lost' = [lost EXCEPT ![2] = TRUE]
               /\ UNCHANGED hidg
      <4>1. Pending(2)' = Pending(2) /\ lost'[2] = TRUE
        BY <3>5 DEF Pending, NoReport, TypeInv, TypeOK
      <4> QED
        BY <3>1, <3>2, <3>3, <3>5, <4>1 DEF Media!Refused
    <3> QED
      BY <3>1, <3>4, <3>5 DEF Write
  <2> QED
    BY <2>1, <2>2
<1>3. CASE NothingSent
  BY <1>3 DEF NothingSent, Pending, NoReport
<1>4. CASE CrashRestart
  <2>1. MediaReport(last_media_keys)' = Report(2, {}, {})
    BY <1>4 DEF CrashRestart, MediaReport
  <2>2. Pending(2)' = Pending(2) /\ host' = host /\ lost'[2] = TRUE /\ Faults
    BY <1>4 DEF CrashRestart, Pending, NoReport
  <2> QED
    BY <2>1, <2>2 DEF Media!Restart
<1>5. CASE HostPoll
  <2>1. UNCHANGED <<last_media_keys, lost>>
    BY <1>5 DEF HostPoll
  <2>2. CASE hidg.id = 1
    <3>1. Pending(2) = NoReport /\ Pending(2)' = NoReport /\ View' = View
      BY <1>5, <2>2, PolledReport, ReportIds DEF Pending, TypeInv
    <3> QED
      BY <2>1, <3>1
  <2>3. CASE hidg.id = 2
    <3>1. hidg.keys = {}
      BY <2>3 DEF TypeInv, TypeOK, Reports
    <3>2. Pending(2) = hidg /\ Pending(2)' = NoReport /\ View' = hidg
          /\ hidg # NoReport
      BY <1>5, <2>3, <3>1, PolledReport, ReportIds DEF Pending, TypeInv, HostPoll
    <3> QED
      BY <2>1, <3>2 DEF Media!Deliver
  <2> QED
    BY <1>5, <2>2, <2>3, PolledReport DEF TypeInv
<1>6. CASE HostReset
  <2>1. Pending(2)' = NoReport /\ View' = Report(2, {}, {}) /\ lost'[2] = TRUE
        /\ Faults /\ UNCHANGED last_media_keys
    BY <1>6, ReportIds DEF HostReset, HostAtRest, Pending
  <2> QED
    BY <2>1 DEF Media!BusReset
<1> QED
  BY <1>1, <1>2, <1>3, <1>4, <1>5, <1>6, StepKinds

\* The media reports mirror media_keys as it was last written.
THEOREM MediaImplementsMirror == Spec => Media!SafeSpec
PROOF
<1>1. ASSUME Init PROVE Media!Init
  <2>1. MediaReport(last_media_keys) = Report(2, {}, {})
    BY <1>1 DEF Init, MediaReport
  <2>2. Pending(2) = NoReport
    BY <1>1, ReportIds DEF Init, Pending
  <2>3. Report(2, host.media, {}) = Report(2, {}, {}) /\ lost[2] = FALSE
    BY <1>1 DEF Init, HostAtRest
  <2> QED
    BY <2>1, <2>2, <2>3 DEF Media!Init
<1>2. TypeInv /\ HostInv /\ TypeInv' /\ [Next]_vars
         => [Media!Next]_(Media!vars)
  BY MediaStep
<1>3. Spec => [](TypeInv /\ HostInv)
  BY TypeInvInit, HostInvInit, TypeInvNext, HostInvNext, PTL DEF Spec
<1> QED
  BY <1>1, <1>2, <1>3, PTL DEF Spec, Media!SafeSpec

-----------------------------------------------------------------------------
(* What the host types: the strokes a text asks for, from its last         *)
(* character to its first                                                  *)

Strokes == [key : Nat, shift : BOOLEAN]

\* What the last n characters ask for, when rest is what those after the
\* first of them do.
Longer(message, keys, mods, n, rest) ==
    IF n = 0 THEN <<>>
    ELSE CharStrokes(message[Len(message) - n + 1], keys, mods) \o rest

\* f gives the strokes of the last n characters for each n up to j.
StrokesUpTo(message, keys, mods, j, f) ==
    f = [n \in 0..j |-> Longer(message, keys, mods, n, f[n - 1])]

\* Such a function exists for every j (a smallest j without one would be the
\* successor of one that has it).
LEMMA StrokesExist ==
    ASSUME NEW message, NEW keys, NEW mods, NEW j \in Nat
    PROVE  \E f : StrokesUpTo(message, keys, mods, j, f)
PROOF
<1> DEFINE Good(i) == \E f : StrokesUpTo(message, keys, mods, i, f)
           Bad == {i \in Nat : ~Good(i)}
<1> SUFFICES ASSUME Bad # {} PROVE FALSE
  OBVIOUS
<1>1. Min(Bad) \in Bad /\ \A i \in Bad : Min(Bad) <= i
  BY MinSlot
<1>2. PICK m \in Nat : ~Good(m) /\ \A i \in Nat : ~Good(i) => m <= i
  BY <1>1
<1>3. CASE m = 0
  <2> DEFINE f == [n \in 0..0 |-> <<>>]
  <2>1. StrokesUpTo(message, keys, mods, 0, f)
    BY DEF StrokesUpTo, Longer
  <2> QED
    BY <1>2, <1>3, <2>1
<1>4. CASE m # 0
  <2>1. m - 1 \in Nat /\ Good(m - 1)
    BY <1>2, <1>4
  <2>2. PICK f : StrokesUpTo(message, keys, mods, m - 1, f)
    BY <2>1
  <2> DEFINE g == [n \in 0..m |-> Longer(message, keys, mods, n, f[n - 1])]
  <2>3. \A n \in 0..(m - 1) : f[n] = Longer(message, keys, mods, n, f[n - 1])
    BY <2>2 DEF StrokesUpTo
  <2>4. \A n \in 0..m : g[n] = Longer(message, keys, mods, n, f[n - 1])
    OBVIOUS
  <2>5. \A n \in 0..(m - 1) : n \in 0..m /\ g[n] = f[n]
    BY <2>1, <2>3, <2>4
  <2>6. ASSUME NEW n \in 0..m
        PROVE  Longer(message, keys, mods, n, f[n - 1])
                  = Longer(message, keys, mods, n, g[n - 1])
    <3>1. CASE n = 0
      BY <3>1 DEF Longer
    <3>2. CASE n # 0
      <4>1. n - 1 \in 0..(m - 1)
        BY <3>2
      <4> HIDE DEF g
      <4> QED
        BY <4>1, <2>5
    <3> QED
      BY <3>1, <3>2
  <2>7. StrokesUpTo(message, keys, mods, m, g)
    BY <2>6 DEF StrokesUpTo
  <2> QED
    BY <1>2, <2>7
<1> QED
  BY <1>3, <1>4

\* f gives the strokes of the last n characters of the whole message.
LastOf(message, keys, mods, f) ==
    /\ f[0] = <<>>
    /\ \A n \in 1..Len(message) :
          f[n] = CharStrokes(message[Len(message) - n + 1], keys, mods)
                    \o f[n - 1]

\* So LastStrokes is what its definition says.
LEMMA LastStrokesIs ==
    ASSUME NEW message \in Seq(Characters), NEW keys, NEW mods
    PROVE  LastOf(message, keys, mods, LastStrokes(message, keys, mods))
PROOF
<1> DEFINE last == LastStrokes(message, keys, mods)
           N == Len(message)
<1>1. last = CHOOSE f : f = [n \in 0..N |->
                IF n = 0 THEN <<>>
                ELSE CharStrokes(message[Len(message) - n + 1], keys, mods)
                        \o f[n - 1]]
  BY DEF LastStrokes
<1>2. \E f : f = [n \in 0..N |->
                IF n = 0 THEN <<>>
                ELSE CharStrokes(message[Len(message) - n + 1], keys, mods)
                        \o f[n - 1]]
  <2>1. PICK f : StrokesUpTo(message, keys, mods, N, f)
    <3>1. N \in Nat
      OBVIOUS
    <3> QED
      BY <3>1, StrokesExist
  <2>2. f = [n \in 0..N |->
                IF n = 0 THEN <<>>
                ELSE CharStrokes(message[Len(message) - n + 1], keys, mods)
                        \o f[n - 1]]
    BY <2>1 DEF StrokesUpTo, Longer
  <2> QED
    BY <2>2
<1>3. last = [n \in 0..N |->
                IF n = 0 THEN <<>>
                ELSE CharStrokes(message[Len(message) - n + 1], keys, mods)
                        \o last[n - 1]]
  <2> HIDE DEF last
  <2> QED
    BY <1>1, <1>2
<1>4. 0 \in 0..N /\ \A n \in 1..N : n \in 0..N /\ n # 0
  OBVIOUS
<1> HIDE DEF last
<1>5. last[0] = <<>>
  BY <1>3, <1>4
<1>6. ASSUME NEW n \in 1..N
      PROVE  last[n] = CharStrokes(message[Len(message) - n + 1], keys, mods)
                          \o last[n - 1]
  BY <1>3, <1>4
<1>7. LastOf(message, keys, mods, last)
  BY <1>5, <1>6 DEF LastOf
<1> QED
  BY <1>7 DEF last

LEMMA CharStrokesType ==
    ASSUME NEW code \in Nat, NEW keys, NEW mods
    PROVE  CharStrokes(code, keys, mods) \in Seq(Strokes)
PROOF
<1>1. HidOf(code) % 256 \in Nat
  BY DEF HidOf
<1>2. (Shifted(code) # (LEFT_SHIFT \in mods)) \in BOOLEAN
  OBVIOUS
<1>3. KeyStroke(HidOf(code), Shifted(code) # (LEFT_SHIFT \in mods)) \in Strokes
  BY <1>1, <1>2 DEF KeyStroke, Strokes
<1> QED
  BY <1>3 DEF CharStrokes

LEMMA LastOfType ==
    ASSUME NEW message \in Seq(Characters), NEW keys, NEW mods,
           NEW f, LastOf(message, keys, mods, f),
           NEW n \in 0..Len(message)
    PROVE  f[n] \in Seq(Strokes)
PROOF
<1> DEFINE Bad == {i \in Nat : i <= Len(message) /\ f[i] \notin Seq(Strokes)}
<1>0. Len(message) \in Nat
  OBVIOUS
<1> SUFFICES ASSUME Bad # {} PROVE FALSE
  BY <1>0
<1>1. Min(Bad) \in Bad /\ \A i \in Bad : Min(Bad) <= i
  BY MinSlot
<1>2. PICK m \in Nat : /\ m <= Len(message) /\ f[m] \notin Seq(Strokes)
                       /\ \A i \in Bad : m <= i
  BY <1>1
<1>3. m # 0
  <2>1. f[0] = <<>> /\ <<>> \in Seq(Strokes)
    BY EmptySeq DEF LastOf
  <2> QED
    BY <1>2, <2>1
<1>4. m - 1 \in Nat /\ m - 1 <= Len(message) /\ m - 1 \notin Bad
  BY <1>0, <1>2, <1>3
<1>5. f[m - 1] \in Seq(Strokes)
  BY <1>4
<1> HIDE DEF Bad
<1>6. message[Len(message) - m + 1] \in Nat
  <2>1. Len(message) - m + 1 \in 1..Len(message)
    BY <1>0, <1>2, <1>3
  <2>2. message[Len(message) - m + 1] \in Characters
    BY <2>1, ElementOfSeq
  <2>3. Characters \subseteq Nat
    BY HidAssumption
  <2> QED
    BY <2>2, <2>3
<1>7. f[m] = CharStrokes(message[Len(message) - m + 1], keys, mods) \o f[m - 1]
  <2>1. m \in 1..Len(message)
    BY <1>0, <1>2, <1>3
  <2> QED
    BY <2>1 DEF LastOf
<1>8. f[m] \in Seq(Strokes)
  BY <1>5, <1>6, <1>7, CharStrokesType, ConcatProperties
<1> QED
  BY <1>2, <1>8

Follows(tail, message) ==
    /\ Len(message) \in Nat \ {0}
    /\ Len(tail) = Len(message) - 1
    /\ \A i \in 1..(Len(message) - 1) : tail[i] = message[i + 1]

LEMMA TailFollows ==
    ASSUME NEW message \in Seq(Characters), message # <<>>
    PROVE  /\ Tail(message) \in Seq(Characters)
           /\ Follows(Tail(message), message)
           /\ Head(message) = message[1]
BY HeadTailProperties DEF Follows

\* The last characters of the tail of a text are those of the text.
LEMMA LastOfTail ==
    ASSUME NEW message, NEW tail, Follows(tail, message), NEW keys, NEW mods,
           NEW f, LastOf(message, keys, mods, f),
           NEW g, LastOf(tail, keys, mods, g),
           NEW n \in 0..(Len(message) - 1)
    PROVE  g[n] = f[n]
PROOF
<1> DEFINE Bad == {i \in Nat : i <= Len(message) - 1 /\ g[i] # f[i]}
<1>0. /\ Len(message) \in Nat \ {0}
      /\ Len(tail) = Len(message) - 1
      /\ \A i \in 1..(Len(message) - 1) : tail[i] = message[i + 1]
  BY DEF Follows
<1> SUFFICES ASSUME Bad # {} PROVE FALSE
  BY <1>0
<1>1. Min(Bad) \in Bad /\ \A i \in Bad : Min(Bad) <= i
  BY MinSlot
<1>2. PICK m \in Nat : /\ m <= Len(message) - 1 /\ g[m] # f[m]
                       /\ \A i \in Bad : m <= i
  BY <1>1
<1>3. m # 0
  BY <1>2 DEF LastOf
<1>4. m - 1 \in Nat /\ m - 1 <= Len(message) - 1 /\ m - 1 \notin Bad
  BY <1>0, <1>2, <1>3
<1>5. g[m - 1] = f[m - 1]
  BY <1>4
<1> HIDE DEF Bad
<1>6. tail[Len(tail) - m + 1] = message[Len(message) - m + 1]
  <2>1. Len(tail) - m + 1 \in 1..(Len(message) - 1)
    BY <1>0, <1>2, <1>3
  <2>2. Len(tail) - m + 1 + 1 = Len(message) - m + 1
    BY <1>0, <1>2
  <2> QED
    BY <1>0, <2>1, <2>2
<1>7. m \in 1..Len(message) /\ m \in 1..Len(tail)
  BY <1>0, <1>2, <1>3
<1>8. f[m] = CharStrokes(message[Len(message) - m + 1], keys, mods) \o f[m - 1]
  BY ONLY <1>7, LastOf(message, keys, mods, f) DEF LastOf
<1>9. g[m] = CharStrokes(tail[Len(tail) - m + 1], keys, mods) \o g[m - 1]
  BY ONLY <1>7, LastOf(tail, keys, mods, g) DEF LastOf
<1> QED
  BY <1>2, <1>5, <1>6, <1>8, <1>9

\* A text asks for what its first character asks for, and then for what the
\* others do.
LEMMA TextStrokesStep ==
    ASSUME NEW message \in Seq(Characters), NEW keys, NEW mods
    PROVE  /\ TextStrokes(message, keys, mods) \in Seq(Strokes)
           /\ message = <<>> => TextStrokes(message, keys, mods) = <<>>
           /\ message # <<>> =>
                 /\ Tail(message) \in Seq(Characters)
                 /\ TextStrokes(message, keys, mods)
                      = CharStrokes(Head(message), keys, mods)
                          \o TextStrokes(Tail(message), keys, mods)
PROOF
<1>1. PICK f : /\ LastOf(message, keys, mods, f)
               /\ TextStrokes(message, keys, mods) = f[Len(message)]
  BY LastStrokesIs DEF TextStrokes
<1>2. TextStrokes(message, keys, mods) \in Seq(Strokes)
  <2>1. Len(message) \in 0..Len(message)
    OBVIOUS
  <2> QED
    BY <1>1, <2>1, LastOfType
<1>3. ASSUME message = <<>> PROVE TextStrokes(message, keys, mods) = <<>>
  <2>1. Len(message) = 0
    BY <1>3
  <2> QED
    BY <1>1, <2>1 DEF LastOf
<1>4. ASSUME message # <<>>
      PROVE  /\ Tail(message) \in Seq(Characters)
             /\ TextStrokes(message, keys, mods)
                   = CharStrokes(Head(message), keys, mods)
                       \o TextStrokes(Tail(message), keys, mods)
  <2>1. PICK t \in Seq(Characters) :
           t = Tail(message) /\ Follows(t, message) /\ Head(message) = message[1]
    BY <1>4, TailFollows
  <2> DEFINE N == Len(message)
  <2>2. PICK g : LastOf(t, keys, mods, g) /\ TextStrokes(t, keys, mods) = g[N - 1]
    BY <2>1, LastStrokesIs DEF TextStrokes, Follows
  <2>3. N \in 1..N /\ N - 1 \in 0..(N - 1) /\ N - N + 1 = 1
    BY <2>1 DEF Follows
  <2>4. f[N] = CharStrokes(message[N - N + 1], keys, mods) \o f[N - 1]
    <3>1. \A n \in 1..N : f[n] = CharStrokes(message[N - n + 1], keys, mods)
                                   \o f[n - 1]
      BY <1>1 DEF LastOf
    <3> HIDE DEF N
    <3> QED
      BY <2>3, <3>1
  <2>5. g[N - 1] = f[N - 1]
    BY <1>1, <2>1, <2>2, <2>3, LastOfTail
  <2>6. TextStrokes(message, keys, mods) = f[N]
    BY <1>1
  <2> HIDE DEF N
  <2>7. TextStrokes(message, keys, mods)
           = CharStrokes(Head(message), keys, mods) \o TextStrokes(t, keys, mods)
    BY <2>1, <2>2, <2>3, <2>4, <2>5, <2>6
  <2> QED
    BY <2>1, <2>7
<1> QED
  BY <1>2, <1>3, <1>4

-----------------------------------------------------------------------------
(* What is under way to the host                                           *)

LEMMA EmptySetToSeq == SetToSeq({}) = <<>>
PROOF
<1>1. Cardinality({}) = 0 /\ 1..0 = {}
  BY FS_EmptySet
<1>2. <<>> \in [1..0 -> {}] /\ IsInjective(<<>>)
  BY <1>1 DEF IsInjective
<1>3. \A f \in [1..0 -> {}] : f = <<>>
  BY <1>1
<1> QED
  BY <1>1, <1>2, <1>3 DEF SetToSeq

LEMMA SingletonToSeq ==
    ASSUME NEW x PROVE SetToSeq({x}) = <<x>>
PROOF
<1>1. Cardinality({x}) = 1 /\ 1..1 = {1}
  BY FS_Singleton
<1>2. <<x>> \in [1..1 -> {x}] /\ IsInjective(<<x>>)
  BY <1>1 DEF IsInjective
<1>3. \A f \in [1..1 -> {x}] : f = <<x>>
  BY <1>1
<1> QED
  BY <1>1, <1>2, <1>3 DEF SetToSeq

\* The usage codes of a keyboard are bytes.
ByteCodes == HidCodes \subseteq 0..255

\* With such codes, a report that shows the whole table shows the held codes.
LEMMA ReportIsHeld ==
    ASSUME ByteCodes, NEW table \in [Slots -> {0} \cup Codes],
           AllReported(table)
    PROVE  ReportBytes(table) = Held(table)
PROOF
<1>1. \A c \in 0..255 : HidOf(c) \in 0..255
  BY DEF HidOf
<1>2. Codes \subseteq 0..255
  BY <1>1, HidAssumption DEF ByteCodes, Codes
<1>3. \A n \in 0..255 : n % 256 = n
  OBVIOUS
<1>4. Held(table) \subseteq Codes /\ 0 \notin Held(table)
  BY DEF Held
<1>5. {c % 256 : c \in Held(table)} = Held(table)
  <2>1. \A c \in Held(table) : c % 256 = c
    BY <1>2, <1>3, <1>4
  <2> HIDE DEF Held
  <2> QED
    BY <2>1
<1>6. ReportBytes(table) = {c % 256 : c \in Held(table)} \ {0}
  <2>1. Codes \subseteq Nat
    BY <1>2
  <2> QED
    BY <2>1, ReportShowsHeld
<1> QED
  BY <1>4, <1>5, <1>6

LEMMA HeldRelease ==
    ASSUME NEW C, NEW table \in [Slots -> C], NEW c
    PROVE  Held(releaseKey(table, c)) \subseteq Held(table)
PROOF
<1>1. CASE isPressed(table, c)
  <2>1. PICK s \in Slots : releaseKey(table, c) = [table EXCEPT ![s] = 0]
    BY <1>1, ReleaseSlot
  <2> QED
    BY <2>1 DEF Held
<1>2. CASE ~isPressed(table, c)
  BY <1>2 DEF releaseKey
<1> QED
  BY <1>1, <1>2

\* The strokes of a set of keys.
StrokesOf(keys, mods) ==
    SetToSeq({KeyStroke(k, LEFT_SHIFT \in mods) : k \in keys})

\* What the host will type when it takes the report under way.
InFlight ==
    IF hidg.id = 1 THEN StrokesOf(hidg.keys \ host.keys, hidg.bits) ELSE <<>>

LEMMA NoStrokes == \A mods : StrokesOf({}, mods) = <<>>
PROOF
<1>1. \A mods : {KeyStroke(k, LEFT_SHIFT \in mods) : k \in {}} = {}
  OBVIOUS
<1> QED
  BY <1>1, EmptySetToSeq DEF StrokesOf

LEMMA OneStroke ==
    ASSUME NEW k, NEW mods
    PROVE  StrokesOf({k}, mods) = <<KeyStroke(k, LEFT_SHIFT \in mods)>>
PROOF
<1>1. {KeyStroke(j, LEFT_SHIFT \in mods) : j \in {k}}
        = {KeyStroke(k, LEFT_SHIFT \in mods)}
  OBVIOUS
<1> QED
  BY <1>1, SingletonToSeq DEF StrokesOf

\* With a host that keeps pace, a report that is sent finds the driver empty
\* and the host up to date: what it makes the host type is what the table has
\* more than before.
LEMMA SendInFlight ==
    ASSUME HostKeepsPace, ByteCodes, TypeInv, HostInv, ~lost[1],
           NEW table \in [Slots -> {0} \cup Codes],
           NEW mods \in SUBSET BitIndices, NEW media,
           AllReported(pressed_keys), AllReported(table),
           Send(table, mods, media)
    PROVE  /\ InFlight = <<>>
           /\ InFlight' = StrokesOf(Held(table) \ Held(pressed_keys), mods)
           /\ ~lost'[1]
PROOF
<1>1. /\ hidg = NoReport /\ hidg' = KeyboardReport(table, mods)
      /\ host' = host /\ lost' = [lost EXCEPT ![1] = FALSE]
  BY ReportIds DEF Send, Write
<1>2. ~lost'[1]
  BY <1>1 DEF TypeInv, TypeOK
<1>3. InFlight = <<>>
  BY <1>1, ReportIds DEF InFlight
<1>4. host.keys = Held(pressed_keys)
  <2>1. host.keys = ReportBytes(pressed_keys)
    BY <1>1, ReportIds DEF HostInv
  <2> QED
    BY <2>1, ReportIsHeld DEF TypeInv, TypeOK
<1>5. hidg'.id = 1 /\ hidg'.keys = Held(table)
      /\ hidg'.bits = mods \cap LowByteBits
  BY <1>1, ReportIsHeld DEF KeyboardReport, Report
<1>6. (LEFT_SHIFT \in mods \cap LowByteBits) = (LEFT_SHIFT \in mods)
  BY DEF LEFT_SHIFT, LowByteBits
<1>7. \A keys : StrokesOf(keys, mods \cap LowByteBits) = StrokesOf(keys, mods)
  BY <1>6 DEF StrokesOf
<1> QED
  BY <1>1, <1>2, <1>3, <1>4, <1>5, <1>7 DEF InFlight

\* What the running keybow_send_text has yet to press.
Rest ==
    IF at \in {"char", "press"}
    THEN TextStrokes(text, before.keys, before.modifiers)
    ELSE IF at \in {"release", "unshift"}
    THEN TextStrokes(Tail(text), before.keys, before.modifiers)
    ELSE <<>>

\* What was asked for is what was typed, then what is under way, then what
\* the text still asks for.
TypingInv ==
    /\ ~lost[1]
    /\ typed \in Seq(Strokes)
    /\ InFlight \in Seq(Strokes)
    /\ Rest \in Seq(Strokes)
    /\ asked = (typed \o InFlight) \o Rest

\* The conditions under which nothing is refused and no key is hidden.
Reliable == HostKeepsPace /\ ByteCodes /\ Fits

FirmInv == TypeInv /\ HostInv /\ KeysInv

LEMMA RestType ==
    ASSUME TypeInv PROVE Rest \in Seq(Strokes)
PROOF
<1>1. text \in Seq(Characters)
  BY DEF TypeInv, TypeOK
<1>2. CASE at \in {"char", "press"}
  BY <1>1, <1>2, TextStrokesStep DEF Rest
<1>3. CASE at \in {"release", "unshift"}
  <2>1. text # <<>>
    BY <1>3 DEF TypeInv, TextShape, Typing
  <2>2. Tail(text) \in Seq(Characters)
    BY <1>1, <2>1, HeadTailProperties
  <2> QED
    BY <1>3, <2>2, TextStrokesStep DEF Rest
<1>4. CASE at \notin {"char", "press", "release", "unshift"}
  BY <1>4, EmptySeq DEF Rest
<1> QED
  BY <1>2, <1>3, <1>4

\* The three ways in which a step can move strokes on.
LEMMA KeepStrokes ==
    ASSUME TypingInv, TypeInv', ~lost'[1], typed' = typed, asked' = asked,
           InFlight' = InFlight, Rest' = Rest
    PROVE  TypingInv'
BY DEF TypingInv

LEMMA AskStrokes ==
    ASSUME TypingInv, ~lost'[1], typed' = typed, NEW s \in Seq(Strokes),
           Rest = <<>>,
           asked' = asked \o s,
           \/ InFlight' = InFlight /\ Rest' = s
           \/ InFlight = <<>> /\ InFlight' = s /\ Rest' = <<>>
    PROVE  TypingInv'
PROOF
<1>1. typed \in Seq(Strokes) /\ InFlight \in Seq(Strokes)
      /\ <<>> \in Seq(Strokes) /\ typed \o InFlight \in Seq(Strokes)
  BY EmptySeq, ConcatProperties DEF TypingInv
<1>2. asked = typed \o InFlight
  BY <1>1, ConcatEmptySeq DEF TypingInv
<1>3. CASE InFlight' = InFlight /\ Rest' = s
  BY <1>1, <1>2, <1>3 DEF TypingInv
<1>4. CASE InFlight = <<>> /\ InFlight' = s /\ Rest' = <<>>
  <2>1. asked = typed
    BY <1>1, <1>2, <1>4, ConcatEmptySeq
  <2>2. (typed \o s) \o <<>> = typed \o s
    BY <1>1, ConcatProperties, ConcatEmptySeq
  <2> QED
    BY <1>1, <1>4, <2>1, <2>2 DEF TypingInv
<1> QED
  BY <1>3, <1>4

LEMMA PressStrokes ==
    ASSUME TypingInv, TypeInv', ~lost'[1], UNCHANGED <<typed, asked>>,
           NEW s \in Seq(Strokes), InFlight = <<>>, InFlight' = s,
           Rest = s \o Rest', Rest' \in Seq(Strokes)
    PROVE  TypingInv'
PROOF
<1>1. typed \in Seq(Strokes) /\ <<>> \in Seq(Strokes)
  BY EmptySeq DEF TypingInv
<1>2. asked = typed \o (s \o Rest')
  BY <1>1, ConcatEmptySeq DEF TypingInv
<1>3. asked = (typed \o s) \o Rest'
  <2>1. PICK u \in Seq(Strokes) : u = Rest'
    OBVIOUS
  <2>2. (typed \o s) \o u = typed \o (s \o u)
    BY <1>1, ConcatAssociative
  <2> QED
    BY <1>2, <2>1, <2>2
<1> QED
  BY <1>1, <1>3 DEF TypingInv

\* A report that shows no key that the host does not know moves no stroke.
LEMMA QuietSend ==
    ASSUME Reliable, FirmInv, TypeInv', TypingInv,
           NEW table \in [Slots -> {0} \cup Codes],
           NEW mods \in SUBSET BitIndices, NEW media,
           AllReported(table), Send(table, mods, media),
           Held(table) \subseteq Held(pressed_keys),
           UNCHANGED <<typed, asked>>, Rest' = Rest
    PROVE  TypingInv'
PROOF
<1>1. AllReported(pressed_keys)
  BY DEF FirmInv, KeysInv, Reliable
<1>2. /\ InFlight = <<>> /\ ~lost'[1]
      /\ InFlight' = StrokesOf(Held(table) \ Held(pressed_keys), mods)
  BY <1>1, SendInFlight DEF FirmInv, Reliable, TypingInv
<1>3. Held(table) \ Held(pressed_keys) = {}
  OBVIOUS
<1>4. InFlight' = <<>>
  BY <1>2, <1>3, NoStrokes
<1> QED
  BY <1>2, <1>4, KeepStrokes

LEMMA TypingKeyStep ==
    ASSUME Reliable, FirmInv, TypeInv', TypingInv,
           NEW c \in HidCodes, NEW s \in BOOLEAN, SetKey(c, s),
           asked' = IF s THEN Append(asked, KeyStroke(c, LEFT_SHIFT \in modifiers))
                         ELSE asked,
           typed' = typed
    PROVE  TypingInv'
PROOF
<1>1. /\ at = "idle" /\ at' = "idle"
      /\ pressed_keys \in [Slots -> {0} \cup Codes]
      /\ modifiers \in SUBSET BitIndices
      /\ Distinct(pressed_keys) /\ AllReported(pressed_keys)
      /\ c \in {0} \cup Codes
  BY DEF SetKey, Ready, FirmInv, TypeInv, TypeOK, KeysInv, Reliable, Codes
<1>2. Rest = <<>> /\ Rest' = <<>>
  BY <1>1 DEF Rest
<1>3. CASE s
  <2> DEFINE table == pressKey(pressed_keys, c)
             stroke == KeyStroke(c, LEFT_SHIFT \in modifiers)
  <2>1. ~isPressed(pressed_keys, c) /\ Send(table, modifiers, media_keys)
    BY <1>3 DEF SetKey
  <2>2. isPressed(pressed_keys, 0) /\ AllReported(table)
    BY <1>1, FittingPress DEF FirmInv, TypeInv, Reliable
  <2>3. table \in [Slots -> {0} \cup Codes]
    BY <1>1, PressKeyType
  <2>4. c # 0 /\ c \notin Held(pressed_keys)
    BY <2>1, <2>2 DEF isPressed, SlotsOf, Held
  <2>5. Held(table) = Held(pressed_keys) \cup {c}
    BY <1>1, <2>2, <2>4, HeldPress
  <2>6. Held(table) \ Held(pressed_keys) = {c}
    BY <2>4, <2>5
  <2> HIDE DEF table
  <2>7. /\ InFlight = <<>> /\ ~lost'[1]
        /\ InFlight' = StrokesOf(Held(table) \ Held(pressed_keys), modifiers)
    BY <1>1, <2>1, <2>2, <2>3, SendInFlight DEF FirmInv, Reliable, TypingInv
  <2>8. InFlight' = <<stroke>>
    BY <2>6, <2>7, OneStroke
  <2>9. stroke \in Strokes
    <3>1. c \in Nat /\ c % 256 \in Nat
      BY DEF Reliable, ByteCodes
    <3> QED
      BY <3>1 DEF KeyStroke, Strokes
  <2>10. <<stroke>> \in Seq(Strokes) /\ asked' = asked \o <<stroke>>
    <3>1. asked \in Seq(Strokes)
      BY ConcatProperties DEF TypingInv
    <3> HIDE DEF stroke
    <3>2. Append(asked, stroke) = asked \o <<stroke>>
      BY <2>9, <3>1, AppendIsConcat
    <3> QED
      BY <1>3, <2>9, <3>2 DEF stroke
  <2> HIDE DEF stroke
  <2> QED
    BY <1>2, <2>7, <2>8, <2>10, AskStrokes
<1>4. CASE ~s
  <2> DEFINE table == releaseKey(pressed_keys, c)
  <2>1. Send(table, modifiers, media_keys) /\ asked' = asked
    BY <1>4 DEF SetKey
  <2>2. /\ table \in [Slots -> {0} \cup Codes]
        /\ AllReported(table) /\ Held(table) \subseteq Held(pressed_keys)
    BY <1>1, ReleaseKeyType, ReleaseReported, HeldRelease
  <2> HIDE DEF table
  <2> QED
    BY <1>1, <1>2, <2>1, <2>2, QuietSend
<1> QED
  BY <1>3, <1>4

\* The call of keybow_send_text adds what its text asks for.
LEMMA TypingTextStep ==
    ASSUME Reliable, FirmInv, TypeInv', TypingInv,
           NEW t \in Texts, SendText(t),
           asked' = asked \o TextStrokes(t, Held(pressed_keys), modifiers),
           typed' = typed
    PROVE  TypingInv'
PROOF
<1>1. t \in Seq(Characters)
  BY HidAssumption
<1>2. TextStrokes(t, Held(pressed_keys), modifiers) \in Seq(Strokes)
  BY <1>1, TextStrokesStep
<1>3. Rest = <<>>
  BY DEF SendText, Ready, Rest
<1>4. Rest' = TextStrokes(t, Held(pressed_keys), modifiers)
  BY DEF SendText, Rest
<1>5. InFlight' = InFlight /\ ~lost'[1]
  BY DEF SendText, NothingSent, InFlight, TypingInv
<1> QED
  BY <1>2, <1>3, <1>4, <1>5, AskStrokes

\* A character that has no key or is held already asks for nothing; any other
\* asks for its key, with the shift that is set while it is pressed.
LEMMA CharAsks ==
    ASSUME TypeInv, text # <<>>
    PROVE  /\ Tail(text) \in Seq(Characters)
           /\ CharStrokes(Head(text), before.keys, before.modifiers) \in Seq(Strokes)
           /\ TextStrokes(text, before.keys, before.modifiers)
                = CharStrokes(Head(text), before.keys, before.modifiers)
                    \o TextStrokes(Tail(text), before.keys, before.modifiers)
           /\ TextStrokes(Tail(text), before.keys, before.modifiers) \in Seq(Strokes)
           /\ CharStrokes(Head(text), before.keys, before.modifiers)
                = IF HidChar \in {0} \cup before.keys THEN <<>>
                  ELSE <<KeyStroke(HidChar, LEFT_SHIFT \in CharModifiers)>>
PROOF
<1>1. text \in Seq(Characters)
  BY DEF TypeInv, TypeOK
<1>2. Tail(text) \in Seq(Characters) /\ Head(text) \in Nat
  <2>1. Head(text) \in Characters /\ Tail(text) \in Seq(Characters)
    BY <1>1, HeadTailProperties
  <2>2. Characters \subseteq Nat
    BY HidAssumption
  <2> QED
    BY <2>1, <2>2
<1>3. (LEFT_SHIFT \in CharModifiers)
         = (Shifted(Head(text)) # (LEFT_SHIFT \in before.modifiers))
  BY DEF CharModifiers, Flip, Shifted
<1>4. CharStrokes(Head(text), before.keys, before.modifiers)
        = IF HidChar \in {0} \cup before.keys THEN <<>>
          ELSE <<KeyStroke(HidChar, LEFT_SHIFT \in CharModifiers)>>
  BY <1>3 DEF CharStrokes, HidChar
<1>5. CharStrokes(Head(text), before.keys, before.modifiers) \in Seq(Strokes)
  BY <1>2, CharStrokesType
<1>6. TextStrokes(Tail(text), before.keys, before.modifiers) \in Seq(Strokes)
  BY <1>2, TextStrokesStep
<1>7. TextStrokes(text, before.keys, before.modifiers)
         = CharStrokes(Head(text), before.keys, before.modifiers)
             \o TextStrokes(Tail(text), before.keys, before.modifiers)
  BY <1>1, TextStrokesStep
<1> QED
  BY <1>2, <1>4, <1>5, <1>6, <1>7

LEMMA TypingCharStep ==
    ASSUME Reliable, FirmInv, TypeInv', TypingInv, TextChar,
           UNCHANGED <<typed, asked>>
    PROVE  TypingInv'
PROOF
<1>1. at = "char" /\ UNCHANGED before
      /\ Rest = TextStrokes(text, before.keys, before.modifiers)
  BY DEF TextChar, Rest
<1>2. NothingSent => InFlight' = InFlight /\ ~lost'[1]
  BY DEF NothingSent, InFlight, TypingInv
<1>3. CASE text = <<>> /\ at' = "idle" /\ NothingSent
  <2>1. Rest = <<>> /\ Rest' = <<>>
    BY <1>1, <1>3, TextStrokesStep DEF FirmInv, TypeInv, TypeOK, Rest
  <2> QED
    BY <1>2, <1>3, <2>1, KeepStrokes
<1>4. CASE /\ text # <<>> /\ HidOf(Head(text)) = 0
           /\ text' = Tail(text) /\ UNCHANGED at /\ NothingSent
  <2>1. Rest' = TextStrokes(Tail(text), before.keys, before.modifiers)
    BY <1>1, <1>4 DEF Rest
  <2>2. Rest = <<>> \o Rest' /\ Rest' \in Seq(Strokes)
    BY <1>1, <1>4, <2>1, CharAsks DEF FirmInv, HidChar
  <2>3. Rest' = Rest
    BY <2>2, ConcatEmptySeq
  <2> QED
    BY <1>2, <1>4, <2>3, KeepStrokes
<1>5. CASE at' = "press" /\ UNCHANGED text /\ NothingSent
  <2>1. Rest' = Rest
    BY <1>1, <1>5 DEF Rest
  <2> QED
    BY <1>2, <1>5, <2>1, KeepStrokes
<1>6. CASE /\ at' = "press" /\ UNCHANGED text
           /\ Send(pressed_keys, Flip(modifiers, LEFT_SHIFT), media_keys)
  <2>1. Rest' = Rest
    BY <1>1, <1>6 DEF Rest
  <2>2. /\ pressed_keys \in [Slots -> {0} \cup Codes]
        /\ Flip(modifiers, LEFT_SHIFT) \in SUBSET BitIndices
        /\ AllReported(pressed_keys)
    BY BitsType, FlipType DEF FirmInv, TypeInv, TypeOK, KeysInv, Reliable
  <2> QED
    BY <1>6, <2>1, <2>2, QuietSend
<1> QED
  BY <1>3, <1>4, <1>5, <1>6 DEF TextChar

LEMMA TypingPressStep ==
    ASSUME Reliable, FirmInv, TypeInv', TypingInv, TextPress,
           UNCHANGED <<typed, asked>>
    PROVE  TypingInv'
PROOF
<1> DEFINE table == pressKey(pressed_keys, HidChar)
           strokes == CharStrokes(Head(text), before.keys, before.modifiers)
<1>1. /\ at = "press" /\ at' = "release" /\ UNCHANGED <<text, before>>
      /\ Send(table, modifiers, media_keys)
      /\ text # <<>> /\ HidChar # 0
      /\ pressed_keys \in [Slots -> {0} \cup Codes]
      /\ modifiers \in SUBSET BitIndices
      /\ modifiers = CharModifiers /\ Held(pressed_keys) = before.keys
      /\ Distinct(pressed_keys) /\ AllReported(pressed_keys)
  BY DEF TextPress, HidChar, FirmInv, TypeInv, TypeOK, TextShape, Typing,
         KeysInv, Kept, Reliable
<1>2. HidChar \in {0} \cup Codes
  BY <1>1, HeadType DEF HidChar, FirmInv, TypeInv
<1>3. isPressed(pressed_keys, 0) /\ AllReported(table)
  BY <1>1, FittingPress DEF FirmInv, TypeInv, Reliable
<1>4. table \in [Slots -> {0} \cup Codes]
  BY <1>1, <1>2, PressKeyType
<1>5. Held(table) = before.keys \cup {HidChar}
  BY <1>1, <1>3, HeldPress
<1> HIDE DEF table
<1>6. /\ InFlight = <<>> /\ ~lost'[1]
      /\ InFlight' = StrokesOf(Held(table) \ Held(pressed_keys), modifiers)
  BY <1>1, <1>3, <1>4, SendInFlight DEF FirmInv, Reliable, TypingInv
<1>7. InFlight' = strokes
  <2>1. CASE HidChar \in before.keys
    <3>1. Held(table) \ Held(pressed_keys) = {} /\ strokes = <<>>
      BY <1>1, <1>5, <2>1, CharAsks DEF FirmInv
    <3> QED
      BY <1>6, <3>1, NoStrokes
  <2>2. CASE HidChar \notin before.keys
    <3>1. Held(table) \ Held(pressed_keys) = {HidChar}
      BY <1>1, <1>5, <2>2
    <3>2. strokes = <<KeyStroke(HidChar, LEFT_SHIFT \in modifiers)>>
      BY <1>1, <2>2, CharAsks DEF FirmInv
    <3> QED
      BY <1>6, <3>1, <3>2, OneStroke
  <2> QED
    BY <2>1, <2>2
<1>8. Rest' = TextStrokes(Tail(text), before.keys, before.modifiers)
  BY <1>1 DEF Rest
<1>9. Rest = strokes \o Rest' /\ Rest' \in Seq(Strokes) /\ strokes \in Seq(Strokes)
  <2>1. Rest = TextStrokes(text, before.keys, before.modifiers)
    BY <1>1 DEF Rest
  <2> QED
    BY <1>1, <1>8, <2>1, CharAsks DEF FirmInv
<1> HIDE DEF strokes
<1> QED
  BY <1>6, <1>7, <1>9, PressStrokes

LEMMA TypingReleaseStep ==
    ASSUME Reliable, FirmInv, TypeInv', TypingInv, TextRelease,
           UNCHANGED <<typed, asked>>
    PROVE  TypingInv'
PROOF
<1> DEFINE table == releaseKey(pressed_keys, HidChar)
<1>1. /\ at = "release" /\ UNCHANGED before
      /\ \/ at' = "unshift" /\ UNCHANGED text
         \/ at' = "char" /\ text' = Tail(text)
      /\ Send(table, modifiers, media_keys)
      /\ pressed_keys \in [Slots -> {0} \cup Codes]
      /\ modifiers \in SUBSET BitIndices
      /\ AllReported(pressed_keys)
  BY DEF TextRelease, HidChar, FirmInv, TypeInv, TypeOK, KeysInv, Reliable
<1>2. /\ table \in [Slots -> {0} \cup Codes]
      /\ AllReported(table) /\ Held(table) \subseteq Held(pressed_keys)
  BY <1>1, ReleaseKeyType, ReleaseReported, HeldRelease
<1>3. Rest' = Rest
  BY <1>1 DEF Rest
<1> HIDE DEF table
<1> QED
  BY <1>1, <1>2, <1>3, QuietSend

LEMMA TypingUnshiftStep ==
    ASSUME Reliable, FirmInv, TypeInv', TypingInv, TextUnshift,
           UNCHANGED <<typed, asked>>
    PROVE  TypingInv'
PROOF
<1>1. /\ at = "unshift" /\ at' = "char" /\ text' = Tail(text)
      /\ UNCHANGED before
      /\ Send(pressed_keys, Flip(modifiers, LEFT_SHIFT), media_keys)
  BY DEF TextUnshift
<1>2. /\ pressed_keys \in [Slots -> {0} \cup Codes]
      /\ Flip(modifiers, LEFT_SHIFT) \in SUBSET BitIndices
      /\ AllReported(pressed_keys)
  BY BitsType, FlipType DEF FirmInv, TypeInv, TypeOK, KeysInv, Reliable
<1>3. Rest' = Rest
  BY <1>1 DEF Rest
<1> QED
  BY <1>1, <1>2, <1>3, QuietSend

LEMMA TypingMediaStep ==
    ASSUME Reliable, FirmInv, TypeInv', TypingInv, SendMedia,
           UNCHANGED <<typed, asked>>
    PROVE  TypingInv'
PROOF
<1>1. Rest' = Rest
  BY DEF SendMedia, Rest
<1>2. InFlight' = InFlight /\ ~lost'[1]
  <2>1. CASE UNCHANGED <<hidg, lost>>
    BY <2>1 DEF SendMedia, InFlight, TypingInv
  <2>2. CASE Write(MediaReport(media_keys))
    <3>1. hidg = NoReport /\ hidg'.id = 2 /\ lost'[1] = lost[1]
      BY <2>2, ReportIds
      DEF Write, Reliable, FirmInv, TypeInv, TypeOK
    <3> QED
      BY <3>1, ReportIds DEF InFlight, TypingInv
  <2> QED
    BY <2>1, <2>2 DEF SendMedia
<1> QED
  BY <1>1, <1>2, KeepStrokes

\* The host takes the report and types what was under way.
LEMMA TypingWatchStep ==
    ASSUME Reliable, FirmInv, TypeInv', TypingInv, Watch
    PROVE  TypingInv'
PROOF
<1>1. /\ HostPoll /\ asked' = asked
      /\ typed' = typed \o StrokesOf(host'.keys \ host.keys, host'.modifiers)
  BY DEF Watch, StrokesOf
<1>2. StrokesOf(host'.keys \ host.keys, host'.modifiers) = InFlight
  <2>1. CASE hidg.id = 1
    BY <1>1, <2>1 DEF HostPoll, InFlight
  <2>2. CASE hidg.id # 1
    <3>1. host'.keys \ host.keys = {}
      BY <1>1, <2>2 DEF HostPoll
    <3> QED
      BY <2>2, <3>1, NoStrokes DEF InFlight
  <2> QED
    BY <2>1, <2>2
<1>3. InFlight' = <<>>
  BY <1>1, ReportIds DEF HostPoll, InFlight
<1>4. Rest' = Rest /\ ~lost'[1]
  BY <1>1 DEF HostPoll, Rest, TypingInv
<1>5. typed \o InFlight \in Seq(Strokes) /\ <<>> \in Seq(Strokes)
  BY ConcatProperties, EmptySeq DEF TypingInv
<1>6. (typed \o InFlight) \o <<>> = typed \o InFlight
  BY <1>5, ConcatEmptySeq
<1> QED
  BY <1>1, <1>2, <1>3, <1>4, <1>5, <1>6 DEF TypingInv

LEMMA TypingInit == InitTyping => TypingInv
PROOF
<1> SUFFICES ASSUME InitTyping PROVE TypingInv
  OBVIOUS
<1>1. InFlight = <<>> /\ Rest = <<>>
  BY ReportIds DEF InitTyping, Init, InFlight, Rest
<1>2. <<>> \in Seq(Strokes) /\ (<<>> \o <<>>) \o <<>> = <<>>
  BY EmptySeq, ConcatEmptySeq
<1> QED
  BY <1>1, <1>2 DEF InitTyping, Init, TypingInv

\* What the host and the handlers do here are steps of HidReports.
LEMMA TypingStep == [NextTyping]_typingVars => [Next]_vars
PROOF
<1>1. CASE Ask
  BY <1>1 DEF Ask, Next, Handler
<1>2. CASE Continue \/ Watch
  BY <1>2 DEF Watch, Next
<1>3. CASE UNCHANGED typingVars
  BY <1>3 DEF typingVars
<1> QED
  BY <1>1, <1>2, <1>3 DEF NextTyping, AtBound

LEMMA TypingNext ==
    ASSUME Reliable, FirmInv, TypeInv', TypingInv, [NextTyping]_typingVars
    PROVE  TypingInv'
PROOF
<1>1. CASE Ask /\ UNCHANGED typed
  <2>1. ASSUME NEW c \in HidCodes, NEW s \in BOOLEAN, SetKey(c, s),
               asked' = IF s
                        THEN Append(asked, KeyStroke(c, LEFT_SHIFT \in modifiers))
                        ELSE asked
        PROVE  TypingInv'
    BY <1>1, <2>1, TypingKeyStep
  <2>2. ASSUME NEW i \in ModifierBits, NEW s \in BOOLEAN, SetModifier(i, s),
               UNCHANGED asked
        PROVE  TypingInv'
    <3>1. /\ Send(pressed_keys, Flip(modifiers, i), media_keys)
          /\ UNCHANGED <<text, at, before>>
      BY <2>2 DEF SetModifier
    <3>2. /\ pressed_keys \in [Slots -> {0} \cup Codes]
          /\ Flip(modifiers, i) \in SUBSET BitIndices
          /\ AllReported(pressed_keys)
      BY BitsType, FlipType DEF FirmInv, TypeInv, TypeOK, KeysInv, Reliable
    <3>3. Rest' = Rest
      BY <3>1 DEF Rest
    <3> QED
      BY <1>1, <2>2, <3>1, <3>2, <3>3, QuietSend
  <2>3. ASSUME NEW t \in Texts, SendText(t),
               asked' = asked \o TextStrokes(t, Held(pressed_keys), modifiers)
        PROVE  TypingInv'
    BY <1>1, <2>3, TypingTextStep
  <2> QED
    BY <1>1, <2>1, <2>2, <2>3 DEF Ask
<1>2. CASE SendMedia /\ UNCHANGED <<typed, asked>>
  BY <1>2, TypingMediaStep
<1>3. CASE TextChar /\ UNCHANGED <<typed, asked>>
  BY <1>3, TypingCharStep
<1>4. CASE TextPress /\ UNCHANGED <<typed, asked>>
  BY <1>4, TypingPressStep
<1>5. CASE TextRelease /\ UNCHANGED <<typed, asked>>
  BY <1>5, TypingReleaseStep
<1>6. CASE TextUnshift /\ UNCHANGED <<typed, asked>>
  BY <1>6, TypingUnshiftStep
<1>7. CASE CloseOutput /\ UNCHANGED <<typed, asked>>
  <2>1. Rest' = Rest /\ InFlight' = InFlight /\ ~lost'[1]
    BY <1>7 DEF CloseOutput, Rest, InFlight, TypingInv
  <2> QED
    BY <1>7, <2>1, KeepStrokes
<1>8. CASE Watch
  BY <1>8, TypingWatchStep
<1>9. CASE UNCHANGED typingVars
  <2>1. Rest' = Rest /\ InFlight' = InFlight /\ ~lost'[1]
        /\ UNCHANGED <<typed, asked>>
    BY <1>9 DEF typingVars, vars, Rest, InFlight, TypingInv
  <2> QED
    BY <2>1, KeepStrokes
<1> QED
  BY <1>1, <1>2, <1>3, <1>4, <1>5, <1>6, <1>7, <1>8, <1>9
  DEF NextTyping, Continue, AtBound

\* What is typed is the first part of what was asked for.
LEMMA TypingPrefix == TypingInv => TypedInOrder
PROOF
<1> SUFFICES ASSUME TypingInv PROVE TypedInOrder
  OBVIOUS
<1>1. PICK t \in Seq(Strokes), u \in Seq(Strokes) :
         t = typed /\ u = InFlight \o Rest /\ asked = t \o u
  <2>1. InFlight \o Rest \in Seq(Strokes)
    BY ConcatProperties DEF TypingInv
  <2>2. (typed \o InFlight) \o Rest = typed \o (InFlight \o Rest)
    BY ConcatAssociative DEF TypingInv
  <2> QED
    BY <2>1, <2>2 DEF TypingInv
<1>2. Len(t) <= Len(t \o u)
  BY ConcatProperties, LenProperties
<1>3. SubSeq(t, 1, Len(t)) = SubSeq(t \o u, 1, Len(t))
  OBVIOUS
<1> QED
  BY <1>1, <1>2, <1>3 DEF TypedInOrder, IsPrefix

\* Whatever the handlers ask for, keys and texts in any order and with any
\* shift held: as long as the host keeps pace and the keys fit, the host types
\* exactly that, in that order, nothing twice and nothing else.
THEOREM NothingElseIsTyped ==
    ASSUME HostKeepsPace, HidCodes \subseteq 0..255, Fits
    PROVE  SpecTyping => []TypedInOrder
PROOF
<1>0. Reliable
  BY DEF Reliable, ByteCodes
<1>1. InitTyping => FirmInv /\ TypingInv
  <2>1. InitTyping => Init
    BY DEF InitTyping
  <2> QED
    BY <2>1, TypeInvInit, HostInvInit, KeysInvInit, TypingInit DEF FirmInv
<1>2. FirmInv /\ TypingInv /\ [NextTyping]_typingVars => (FirmInv /\ TypingInv)'
  <2> SUFFICES ASSUME FirmInv, TypingInv, [NextTyping]_typingVars
               PROVE  FirmInv' /\ TypingInv'
    OBVIOUS
  <2>1. [Next]_vars
    BY TypingStep
  <2>2. TypeInv' /\ HostInv' /\ KeysInv'
    BY <2>1, TypeInvNext, HostInvNext, KeysInvNext DEF FirmInv
  <2>3. TypingInv'
    BY <1>0, <2>2, TypingNext
  <2> QED
    BY <2>2, <2>3 DEF FirmInv
<1>3. FirmInv /\ TypingInv => TypedInOrder
  BY TypingPrefix
<1> QED
  BY <1>1, <1>2, <1>3, PTL DEF SpecTyping

=============================================================================

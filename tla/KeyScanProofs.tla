--------------------------- MODULE KeyScanProofs ----------------------------
(***************************************************************************)
(* Theorems about KeyScan for any number of keys, any layout that holds    *)
(* keys and types texts, any way the pins change, with or without faults.  *)
(***************************************************************************)
EXTENDS KeyScan, HidReportsProofs, FunctionTheorems

-----------------------------------------------------------------------------
(* The steps of KeyScan are steps of HidReports *)

\* The calls that a handler makes.
Calls == [op : {"set_key"}, arg : HidCodes \ {0}, pressed : BOOLEAN]
            \cup [op : {"set_modifier"}, arg : {LEFT_SHIFT}, pressed : BOOLEAN]

\* The strokes of which keybow.text is made: with one key for each code none of
\* them is a held key's.
HeldCodes == {Holds[k].code : k \in DOMAIN Holds}
Typable == {s \in Stroke : OneKeyPerCode => s.code \notin HeldCodes}

ScanType ==
    /\ pins \in [Keys -> BOOLEAN] /\ last_state \in [Keys -> BOOLEAN]
    /\ x \in 0..NUM_KEYS /\ state \in BOOLEAN /\ calling \in BOOLEAN
    /\ todo \in Seq(Calls) /\ strokes \in Seq(Typable) /\ typing \in BOOLEAN
    /\ at = "idle" /\ modifiers \in SUBSET {LEFT_SHIFT}

LEMMA LayoutType ==
    /\ DOMAIN Holds \subseteq Keys
    /\ \A k \in DOMAIN Holds : Holds[k] \in Stroke
    /\ \A k \in DOMAIN Macros : k \notin DOMAIN Holds /\ Macros[k] \in Seq(Typable)
PROOF
<1>1. ASSUME NEW k \in DOMAIN Macros PROVE Macros[k] \in Seq(Typable)
  <2>1. Macros[k] \in Seq(Stroke)
    BY ScanAssumption
  <2>2. ASSUME NEW i \in 1..Len(Macros[k]) PROVE Macros[k][i] \in Typable
    <3>1. Macros[k][i] \in Stroke /\ i \in DOMAIN Macros[k]
      BY <2>1, <2>2
    <3>2. OneKeyPerCode => \A j \in DOMAIN Holds : Macros[k][i].code # Holds[j].code
      BY <3>1 DEF OneKeyPerCode
    <3> QED
      BY <3>1, <3>2 DEF Typable, HeldCodes
  <2> QED
    BY <2>1, <2>2
<1> QED
  BY <1>1, ScanAssumption

\* A call of the handler in progress.
LEMMA CallType ==
    ASSUME NEW S, NEW seq \in Seq(S), seq # <<>>
    PROVE  Head(seq) \in S /\ Tail(seq) \in Seq(S)
OBVIOUS

LEMMA BoundStep ==
    ASSUME ScanType, Bound
    PROVE  [Next]_vars
PROOF
<1> DEFINE call == Head(todo)
<1>1. call \in Calls
  BY CallType DEF Bound, ScanType
<1>2. LEFT_SHIFT \in ModifierBits
  BY ScanAssumption
<1>3. CASE call.op = "set_key" /\ SetKey(call.arg, call.pressed)
  <2>1. call.arg \in HidCodes /\ call.pressed \in BOOLEAN
    BY <1>1, <1>3 DEF Calls
  <2> HIDE DEF call
  <2> QED
    BY <1>3, <2>1 DEF Next, Handler
<1>4. CASE call.op = "set_modifier" /\ SetModifier(call.arg, call.pressed)
  <2>1. call.arg \in ModifierBits /\ call.pressed \in BOOLEAN
    BY <1>1, <1>2, <1>4 DEF Calls
  <2> HIDE DEF call
  <2> QED
    BY <1>4, <2>1 DEF Next, Handler
<1> QED
  BY <1>3, <1>4 DEF Bound

LEMMA ScanStep == ScanType /\ [NextScan]_allVars => [Next]_vars
PROOF
<1> SUFFICES ASSUME ScanType, [NextScan]_allVars PROVE [Next]_vars
  OBVIOUS
<1>1. CASE Bound
  BY <1>1, BoundStep
<1>2. CASE Loop \/ KeySame \/ KeyChanged \/ Text \/ KeyHandled \/ PinChange \/ SigInt
  BY <1>2 DEF Loop, KeySame, KeyChanged, Text, KeyHandled, PinChange, SigInt
<1>3. CASE Exit \/ Report_Continue \/ Die \/ Host \/ Ended
  BY <1>3 DEF Exit, Report_Continue, Die, Host, Ended, Next
<1>4. CASE UNCHANGED allVars
  BY <1>4 DEF allVars
<1> QED
  BY <1>1, <1>2, <1>3, <1>4 DEF NextScan, MainThread

-----------------------------------------------------------------------------
(* The table of pressed keys *)

\* Every level of the keys leaves an empty slot in a table of the held keys.
LEMMA TableHasRoom ==
    ASSUME NEW table \in [Slots -> {0} \cup Codes], Distinct(table),
           Held(table) \subseteq HeldCodes
    PROVE  isPressed(table, 0)
PROOF
<1> SUFFICES ASSUME \A s \in Slots : table[s] # 0 PROVE FALSE
  BY DEF isPressed, SlotsOf
<1>1. NUM_KEYS \in Nat \ {0} /\ PRESSED_SLOTS \in Nat \ {0} /\ NUM_KEYS < PRESSED_SLOTS
  BY ScanAssumption, SlotsAssumption
<1>2. IsFiniteSet(Keys) /\ Cardinality(Keys) = NUM_KEYS
  BY <1>1, FS_Interval DEF Keys
<1>3. IsFiniteSet(Slots) /\ Cardinality(Slots) = PRESSED_SLOTS
  BY <1>1, FS_Interval DEF Slots
<1>4. IsFiniteSet(DOMAIN Holds) /\ Cardinality(DOMAIN Holds) <= NUM_KEYS
  BY <1>2, LayoutType, FS_Subset
<1>5. IsFiniteSet(HeldCodes) /\ Cardinality(HeldCodes) <= Cardinality(DOMAIN Holds)
  <2> DEFINE D == DOMAIN Holds
             f == [k \in D |-> Holds[k].code]
  <2>1. f \in [D -> HeldCodes] /\ \A c \in HeldCodes : \E k \in D : f[k] = c
    BY DEF HeldCodes
  <2>2. f \in Surjection(D, HeldCodes)
    BY <2>1, Fun_IsSurj
  <2> HIDE DEF D, f
  <2>3. IsFiniteSet(HeldCodes) /\ Cardinality(HeldCodes) <= Cardinality(D)
    BY <1>4, <2>2, FS_Surjection DEF D
  <2> QED
    BY <2>3 DEF D
<1>6. Cardinality(HeldCodes) < Cardinality(Slots)
  BY <1>1, <1>3, <1>4, <1>5, FS_CardinalityType
<1>7. table \in [Slots -> HeldCodes]
  BY DEF Held
<1>8. \E s, t \in Slots : s # t /\ table[s] = table[t]
  BY <1>3, <1>5, <1>6, <1>7, FS_PigeonHole
<1> QED
  BY <1>8 DEF Distinct

\* What a press and a release make of the held keys; a full table ignores a press.
LEMMA HeldAfterPress ==
    ASSUME NEW table \in [Slots -> {0} \cup Codes], NEW c, c # 0
    PROVE  \/ Held(pressKey(table, c)) = Held(table) \cup {c}
           \/ ~isPressed(table, 0) /\ pressKey(table, c) = table
PROOF
<1>1. CASE isPressed(table, 0)
  BY <1>1, HeldPress
<1>2. CASE ~isPressed(table, 0)
  BY <1>2 DEF pressKey
<1> QED
  BY <1>1, <1>2

LEMMA HeldAfterRelease ==
    ASSUME NEW table \in [Slots -> {0} \cup Codes], NEW c, c # 0, Distinct(table)
    PROVE  Held(releaseKey(table, c)) = Held(table) \ {c}
PROOF
<1>1. CASE isPressed(table, c)
  <2>1. PICK s \in Slots : /\ table[s] = c
                           /\ releaseKey(table, c) = [table EXCEPT ![s] = 0]
    BY <1>1, ReleaseSlot
  <2>2. ASSUME NEW d \in Held(releaseKey(table, c)) PROVE d \in Held(table) \ {c}
    <3>1. PICK t \in Slots : t # s /\ table[t] = d /\ d # 0
      BY <2>1, <2>2 DEF Held
    <3> QED
      BY <2>1, <3>1 DEF Held, Distinct
  <2>3. ASSUME NEW d \in Held(table) \ {c} PROVE d \in Held(releaseKey(table, c))
    <3>1. PICK t \in Slots : t # s /\ table[t] = d /\ d # 0
      BY <2>1, <2>3 DEF Held
    <3> QED
      BY <2>1, <3>1 DEF Held
  <2> QED
    BY <2>2, <2>3
<1>2. CASE ~isPressed(table, c)
  BY <1>2 DEF releaseKey, isPressed, SlotsOf, Held
<1> QED
  BY <1>1, <1>2

LEMMA PressedIsHeld ==
    ASSUME NEW table, NEW c, c # 0
    PROVE  isPressed(table, c) <=> c \in Held(table)
BY DEF isPressed, SlotsOf, Held

\* keybow_set_key and keybow_set_modifier, called from set_key.
KeyCall(c, pressed) ==
    /\ IF pressed
       THEN \/ Held(pressed_keys)' = Held(pressed_keys) \cup {c}
            \/ ~isPressed(pressed_keys, 0) /\ Held(pressed_keys)' = Held(pressed_keys)
       ELSE Held(pressed_keys)' = Held(pressed_keys) \ {c}
    /\ UNCHANGED modifiers

ShiftCall(pressed) ==
    /\ modifiers' = IF pressed THEN {LEFT_SHIFT} ELSE {}
    /\ UNCHANGED pressed_keys

LEMMA KeyCallHolds ==
    ASSUME ScanType, TypeOK, Distinct(pressed_keys), Bound,
           NEW c, c # 0, NEW p \in BOOLEAN, Head(todo) = Bind("set_key", c, p)
    PROVE  KeyCall(c, p)
PROOF
<1> DEFINE call == Head(todo)
<1>1. call.op = "set_key" /\ call.arg = c /\ call.pressed = p
  BY DEF Bind
<1>2. pressed_keys \in [Slots -> {0} \cup Codes]
  BY DEF TypeOK
<1>3. \/ SetKey(c, p)
      \/ isPressed(pressed_keys, c) = p /\ UNCHANGED vars
  BY <1>1 DEF Bound
<1>4. CASE SetKey(c, p)
  <2>1. /\ pressed_keys' = IF p THEN pressKey(pressed_keys, c)
                           ELSE releaseKey(pressed_keys, c)
        /\ modifiers' = modifiers
    BY <1>4 DEF SetKey, Send
  <2> QED
    BY <1>2, <2>1, HeldAfterPress, HeldAfterRelease DEF KeyCall
<1>5. CASE isPressed(pressed_keys, c) = p /\ UNCHANGED vars
  <2>1. pressed_keys' = pressed_keys /\ modifiers' = modifiers
    BY <1>5 DEF vars, tables
  <2>2. IF p THEN c \in Held(pressed_keys) ELSE c \notin Held(pressed_keys)
    BY <1>5, PressedIsHeld
  <2> QED
    BY <2>1, <2>2 DEF KeyCall
<1> QED
  BY <1>3, <1>4, <1>5

LEMMA ShiftCallHolds ==
    ASSUME ScanType, Bound,
           NEW p \in BOOLEAN, Head(todo) = Bind("set_modifier", LEFT_SHIFT, p)
    PROVE  ShiftCall(p)
PROOF
<1>1. \/ SetModifier(LEFT_SHIFT, p)
      \/ (LEFT_SHIFT \in modifiers) = p /\ UNCHANGED vars
  BY DEF Bound, Bind
<1>2. modifiers \in SUBSET {LEFT_SHIFT}
  BY DEF ScanType
<1>3. CASE SetModifier(LEFT_SHIFT, p)
  BY <1>2, <1>3 DEF SetModifier, Send, ShiftCall, Flip
<1>4. CASE (LEFT_SHIFT \in modifiers) = p /\ UNCHANGED vars
  BY <1>2, <1>4 DEF ShiftCall, vars, tables
<1> QED
  BY <1>1, <1>3, <1>4

-----------------------------------------------------------------------------
(* A handler in progress *)

Matches(level) ==
    /\ Held(pressed_keys) \subseteq HeldBy(level)
    /\ OneKeyPerCode => Held(pressed_keys) = HeldBy(level)

ShiftHeld(level) ==
    modifiers # {} => \E k \in DOMAIN Holds : level[k] /\ Holds[k].shifted

\* The table while the key of a typed character is down.
Tapping(c) ==
    /\ Held(pressed_keys) \ {c} \subseteq HeldBy(last_state)
    /\ OneKeyPerCode => Held(pressed_keys) \ {c} = HeldBy(last_state)

\* The levels when the handler has returned.
NewLevel == [last_state EXCEPT ![x] = state]

Key(c, pressed) == Bind("set_key", c, pressed)
Shift(pressed) == Bind("set_modifier", LEFT_SHIFT, pressed)

\* keybow.set_key is at work: before the shift, before the key, at its end.
Holding ==
    /\ ~typing
    /\ \/ /\ todo = <<Shift(state), Key(Holds[x].code, state)>>
          /\ Holds[x].shifted /\ Matches(last_state)
       \/ /\ todo = <<Key(Holds[x].code, state)>>
          /\ Matches(last_state) /\ ShiftHeld(NewLevel)
       \/ /\ todo = <<>>
          /\ Matches(NewLevel) /\ ShiftHeld(NewLevel)

\* A character is being tapped.
Stroking(s) ==
    \/ /\ s.shifted /\ Matches(last_state)
       /\ todo = <<Shift(TRUE), Key(s.code, TRUE), Shift(FALSE), Key(s.code, FALSE)>>
    \/ /\ s.shifted /\ Matches(last_state)
       /\ todo = <<Key(s.code, TRUE), Shift(FALSE), Key(s.code, FALSE)>>
    \/ /\ s.shifted /\ Tapping(s.code)
       /\ todo = <<Shift(FALSE), Key(s.code, FALSE)>>
    \/ /\ ~s.shifted /\ Matches(last_state)
       /\ todo = <<Key(s.code, TRUE), Key(s.code, FALSE)>>
    \/ /\ Tapping(s.code)
       /\ todo = <<Key(s.code, FALSE)>>

\* keybow.text is at work or over, or the handler does nothing.
Writing ==
    \/ typing /\ todo = <<>> /\ Matches(last_state)
    \/ typing /\ \E s \in Typable : Stroking(s)
    \/ ~typing /\ todo = <<Shift(FALSE)>> /\ Matches(last_state)
    \/ ~typing /\ todo = <<>> /\ Matches(last_state) /\ ShiftHeld(last_state)

AtRest == todo = <<>> /\ ~typing /\ Matches(last_state) /\ ShiftHeld(last_state)

HandlerInv ==
    /\ calling => x \in Keys /\ mode = "open" /\ state # last_state[x]
    /\ ~calling /\ mode = "open" => AtRest
    /\ calling /\ x \in DOMAIN Holds => Holding
    /\ calling /\ x \notin DOMAIN Holds => Writing

ScanInv == ScanType /\ HandlerInv

LEMMA CallsEqual ==
    ASSUME NEW c, NEW p
    PROVE  /\ Key(c, p).op = "set_key" /\ Key(c, p).arg = c /\ Key(c, p).pressed = p
           /\ Shift(p).op = "set_modifier" /\ Shift(p).arg = LEFT_SHIFT
           /\ Shift(p).pressed = p
BY DEF Key, Shift, Bind

LEMMA SetKeyCalls ==
    ASSUME NEW s \in Stroke, NEW p \in BOOLEAN
    PROVE  set_key(s, p) = IF s.shifted THEN <<Shift(p), Key(s.code, p)>>
                                        ELSE <<Key(s.code, p)>>
BY DEF set_key, Shift, Key

LEMMA JoinPairs ==
    ASSUME NEW a, NEW b, NEW c, NEW d
    PROVE  <<a, b>> \o <<c, d>> = <<a, b, c, d>>
PROOF
<1> DEFINE S == {a, b, c, d}
           seq == <<a, b>> \o <<c, d>>
<1>1. <<a, b>> \in Seq(S) /\ <<c, d>> \in Seq(S)
  OBVIOUS
<1>2. /\ seq \in Seq(S) /\ Len(seq) = 4
      /\ seq[1] = a /\ seq[2] = b /\ seq[3] = c /\ seq[4] = d
  BY <1>1
<1> HIDE DEF seq
<1>3. seq = <<a, b, c, d>>
  BY <1>2
<1> QED
  BY <1>3 DEF seq

LEMMA JoinSingles ==
    ASSUME NEW a, NEW b
    PROVE  <<a>> \o <<b>> = <<a, b>>
PROOF
<1> DEFINE S == {a, b}
           seq == <<a>> \o <<b>>
<1>1. <<a>> \in Seq(S) /\ <<b>> \in Seq(S)
  OBVIOUS
<1>2. seq \in Seq(S) /\ Len(seq) = 2 /\ seq[1] = a /\ seq[2] = b
  BY <1>1
<1> HIDE DEF seq
<1>3. seq = <<a, b>>
  BY <1>2
<1> QED
  BY <1>3 DEF seq

LEMMA TapKeyCalls ==
    ASSUME NEW s \in Stroke
    PROVE  tap_key(s) =
             IF s.shifted
             THEN <<Shift(TRUE), Key(s.code, TRUE), Shift(FALSE), Key(s.code, FALSE)>>
             ELSE <<Key(s.code, TRUE), Key(s.code, FALSE)>>
PROOF
<1>1. CASE s.shifted
  <2>1. set_key(s, TRUE) = <<Shift(TRUE), Key(s.code, TRUE)>>
    BY <1>1, SetKeyCalls
  <2>2. set_key(s, FALSE) = <<Shift(FALSE), Key(s.code, FALSE)>>
    BY <1>1, SetKeyCalls
  <2> QED
    BY <1>1, <2>1, <2>2, JoinPairs DEF tap_key
<1>2. CASE ~s.shifted
  <2>1. set_key(s, TRUE) = <<Key(s.code, TRUE)>>
    BY <1>2, SetKeyCalls
  <2>2. set_key(s, FALSE) = <<Key(s.code, FALSE)>>
    BY <1>2, SetKeyCalls
  <2> QED
    BY <1>2, <2>1, <2>2, JoinSingles DEF tap_key
<1> QED
  BY <1>1, <1>2

LEMMA TupleTypes ==
    ASSUME NEW S, NEW a \in S, NEW b \in S, NEW c \in S, NEW d \in S
    PROVE  <<a>> \in Seq(S) /\ <<a, b>> \in Seq(S) /\ <<a, b, c, d>> \in Seq(S)
OBVIOUS

\* What is typed and what is held are calls.
LEMMA CallsType ==
    ASSUME NEW s \in Stroke, NEW p \in BOOLEAN
    PROVE  set_key(s, p) \in Seq(Calls) /\ tap_key(s) \in Seq(Calls)
           /\ <<Shift(p)>> \in Seq(Calls)
PROOF
<1>1. \A q \in BOOLEAN : Key(s.code, q) \in Calls /\ Shift(q) \in Calls
  BY DEF Key, Shift, Bind, Calls, Stroke
<1> DEFINE kt == Key(s.code, TRUE)
           kf == Key(s.code, FALSE)
           st == Shift(TRUE)
           sf == Shift(FALSE)
           kp == Key(s.code, p)
           sp == Shift(p)
<1>2. kt \in Calls /\ kf \in Calls /\ st \in Calls /\ sf \in Calls
      /\ kp \in Calls /\ sp \in Calls
  BY <1>1
<1>3. /\ set_key(s, p) = IF s.shifted THEN <<sp, kp>> ELSE <<kp>>
      /\ tap_key(s) = IF s.shifted THEN <<st, kt, sf, kf>> ELSE <<kt, kf>>
      /\ <<Shift(p)>> = <<sp>>
  BY SetKeyCalls, TapKeyCalls
<1> HIDE DEF kt, kf, st, sf, kp, sp
<1>4. <<sp, kp>> \in Seq(Calls) /\ <<kp>> \in Seq(Calls) /\ <<sp>> \in Seq(Calls)
  BY <1>2, TupleTypes
<1>5. <<st, kt, sf, kf>> \in Seq(Calls) /\ <<kt, kf>> \in Seq(Calls)
  BY <1>2, TupleTypes
<1> QED
  BY <1>3, <1>4, <1>5

LEMMA HeldByType == \A level : HeldBy(level) \subseteq HeldCodes
BY DEF HeldBy, HeldCodes

\* The levels after a key that is held has changed, and after any other.
LEMMA NewLevelHeld ==
    ASSUME ScanType, x \in DOMAIN Holds, state # last_state[x],
           NEW c, c = Holds[x].code
    PROVE  /\ state => HeldBy(NewLevel) = HeldBy(last_state) \cup {c}
           /\ ~state => HeldBy(last_state) \ {c} \subseteq HeldBy(NewLevel)
           /\ ~state /\ OneKeyPerCode => HeldBy(NewLevel) = HeldBy(last_state) \ {c}
PROOF
<1>1. /\ \A k \in DOMAIN Holds : NewLevel[k] = IF k = x THEN state ELSE last_state[k]
      /\ last_state[x] \in BOOLEAN /\ state \in BOOLEAN
  BY LayoutType DEF ScanType, NewLevel
<1>2. CASE state
  BY <1>1, <1>2 DEF HeldBy
<1>3. CASE ~state
  <2>1. HeldBy(last_state) \ {c} \subseteq HeldBy(NewLevel)
    BY <1>1, <1>3 DEF HeldBy
  <2>2. ASSUME OneKeyPerCode PROVE HeldBy(NewLevel) = HeldBy(last_state) \ {c}
    <3>1. \A k \in DOMAIN Holds : Holds[k].code = c => k = x
      BY <2>2 DEF OneKeyPerCode
    <3> QED
      BY <1>1, <1>3, <3>1 DEF HeldBy
  <2> QED
    BY <1>3, <2>1, <2>2
<1> QED
  BY <1>2, <1>3

LEMMA NewLevelOther ==
    ASSUME ScanType, x \notin DOMAIN Holds
    PROVE  /\ HeldBy(NewLevel) = HeldBy(last_state)
           /\ ShiftHeld(NewLevel) <=> ShiftHeld(last_state)
PROOF
<1>1. \A k \in DOMAIN Holds : NewLevel[k] = last_state[k]
  BY LayoutType DEF ScanType, NewLevel
<1> QED
  BY <1>1 DEF HeldBy, ShiftHeld

-----------------------------------------------------------------------------
(* One call of a handler *)

\* What a call in the middle of a handler leaves alone.
LEMMA BoundKeeps ==
    ASSUME ScanInv, Bound
    PROVE  /\ UNCHANGED <<last_state, x, state, calling, typing, strokes>>
           /\ todo' = Tail(todo) /\ calling /\ mode = "open" /\ mode' = "open"
           /\ at' = "idle"
PROOF
<1>1. mode = "open" /\ todo # <<>> /\ at = "idle"
  BY DEF Bound, Ready
<1>2. calling
  BY <1>1 DEF ScanInv, HandlerInv, AtRest
<1>3. mode' = mode /\ at' = at
  BY DEF Bound, SetKey, SetModifier, vars
<1> QED
  BY <1>1, <1>2, <1>3 DEF Bound

LEMMA NonEmptyCalls ==
    ASSUME NEW a, NEW b
    PROVE  /\ Head(<<a>>) = a /\ Tail(<<a>>) = <<>>
           /\ Head(<<a, b>>) = a /\ Tail(<<a, b>>) = <<b>>
OBVIOUS

LEMMA ThreeCalls ==
    ASSUME NEW a, NEW b, NEW c
    PROVE  Head(<<a, b, c>>) = a /\ Tail(<<a, b, c>>) = <<b, c>>
OBVIOUS

LEMMA FourCalls ==
    ASSUME NEW a, NEW b, NEW c, NEW d
    PROVE  Head(<<a, b, c, d>>) = a /\ Tail(<<a, b, c, d>>) = <<b, c, d>>
OBVIOUS

LEMMA HoldingStep ==
    ASSUME ScanInv, TypeOK, Distinct(pressed_keys), Bound, x \in DOMAIN Holds
    PROVE  Holding'
PROOF
<1> DEFINE c == Holds[x].code
<1>1. /\ UNCHANGED <<last_state, x, state, calling, typing>> /\ todo' = Tail(todo)
      /\ todo # <<>> /\ state # last_state[x] /\ Holding /\ state \in BOOLEAN
      /\ ScanType
  BY BoundKeeps DEF Bound, ScanInv, HandlerInv, ScanType
<1>2. c # 0 /\ c \in HeldCodes /\ x \in Keys
  BY LayoutType DEF Stroke, HeldCodes
<1>3. NewLevel' = NewLevel
  BY <1>1 DEF NewLevel
<1>4. CASE /\ todo = <<Shift(state), Key(c, state)>>
           /\ Holds[x].shifted /\ Matches(last_state)
  <2>1. Head(todo) = Shift(state) /\ Tail(todo) = <<Key(c, state)>>
    BY <1>4, NonEmptyCalls
  <2>2. ShiftCall(state)
    BY <1>1, <2>1, ShiftCallHolds DEF Shift
  <2>3. Matches(last_state)'
    BY <1>1, <1>4, <2>2 DEF ShiftCall, Matches, OneKeyPerCode
  <2>4. state => NewLevel[x]
    BY <1>1, <1>2 DEF NewLevel, ScanType
  <2>5. ShiftHeld(NewLevel)'
    BY <1>3, <1>4, <2>2, <2>4 DEF ShiftCall, ShiftHeld
  <2> QED
    BY <1>1, <2>1, <2>3, <2>5 DEF Holding
<1>5. CASE /\ todo = <<Key(c, state)>>
           /\ Matches(last_state) /\ ShiftHeld(NewLevel)
  <2>1. Head(todo) = Key(c, state) /\ Tail(todo) = <<>>
    BY <1>5, NonEmptyCalls
  <2>2. KeyCall(c, state)
    BY <1>1, <1>2, <2>1, KeyCallHolds DEF Key
  <2>3. ShiftHeld(NewLevel)'
    BY <1>3, <1>5, <2>2 DEF KeyCall, ShiftHeld
  <2>4. isPressed(pressed_keys, 0)
    <3>1. Held(pressed_keys) \subseteq HeldCodes
      BY <1>5, HeldByType DEF Matches
    <3> QED
      BY <3>1, TableHasRoom DEF TypeOK
  <2>5. Held(pressed_keys)' = IF state THEN Held(pressed_keys) \cup {c}
                                       ELSE Held(pressed_keys) \ {c}
    BY <2>2, <2>4 DEF KeyCall
  <2>6. /\ state => HeldBy(NewLevel) = HeldBy(last_state) \cup {c}
        /\ ~state => HeldBy(last_state) \ {c} \subseteq HeldBy(NewLevel)
        /\ ~state /\ OneKeyPerCode => HeldBy(NewLevel) = HeldBy(last_state) \ {c}
    BY <1>1, NewLevelHeld
  <2>7. /\ Held(pressed_keys)' \subseteq HeldBy(NewLevel)
        /\ OneKeyPerCode => Held(pressed_keys)' = HeldBy(NewLevel)
    BY <1>1, <1>5, <2>5, <2>6 DEF Matches
  <2>8. Matches(NewLevel)'
    BY <1>3, <2>7 DEF Matches, HeldBy, OneKeyPerCode
  <2> QED
    BY <1>1, <2>1, <2>3, <2>8 DEF Holding
<1> QED
  BY <1>1, <1>4, <1>5 DEF Holding

\* A key call of a character that is tapped.
LEMMA TapPress ==
    ASSUME NEW s \in Typable, Matches(last_state), KeyCall(s.code, TRUE),
           UNCHANGED last_state
    PROVE  Tapping(s.code)'
PROOF
<1>1. OneKeyPerCode => s.code \notin Held(pressed_keys)
  BY HeldByType DEF Typable, Matches
<1>2. Held(pressed_keys)' \ {s.code} = Held(pressed_keys) \ {s.code}
  BY DEF KeyCall
<1>3. /\ Held(pressed_keys)' \ {s.code} \subseteq HeldBy(last_state)
      /\ OneKeyPerCode => Held(pressed_keys)' \ {s.code} = HeldBy(last_state)
  BY <1>1, <1>2 DEF Matches
<1> QED
  BY <1>3 DEF Tapping, OneKeyPerCode

LEMMA TapRelease ==
    ASSUME NEW c, Tapping(c), KeyCall(c, FALSE), UNCHANGED last_state
    PROVE  Matches(last_state)'
BY DEF Tapping, KeyCall, Matches, OneKeyPerCode

LEMMA TapShift ==
    ASSUME NEW p, ShiftCall(p), UNCHANGED last_state
    PROVE  /\ Matches(last_state) => Matches(last_state)'
           /\ \A c : Tapping(c) => Tapping(c)'
BY DEF ShiftCall, Matches, Tapping, OneKeyPerCode

LEMMA StrokingStep ==
    ASSUME ScanInv, TypeOK, Distinct(pressed_keys), Bound,
           NEW s \in Typable, Stroking(s), typing
    PROVE  Writing'
PROOF
<1> DEFINE c == s.code
<1>1. /\ UNCHANGED <<last_state, typing>> /\ todo' = Tail(todo) /\ ScanType
  BY BoundKeeps DEF ScanInv
<1>2. c # 0
  BY DEF Typable, Stroke
<1>3. ASSUME NEW p \in BOOLEAN, Head(todo) = Shift(p) PROVE ShiftCall(p)
  BY <1>1, <1>3, ShiftCallHolds DEF Shift
<1>4. ASSUME NEW p \in BOOLEAN, Head(todo) = Key(c, p) PROVE KeyCall(c, p)
  BY <1>1, <1>2, <1>4, KeyCallHolds DEF Key
<1>5. CASE /\ s.shifted /\ Matches(last_state)
           /\ todo = <<Shift(TRUE), Key(c, TRUE), Shift(FALSE), Key(c, FALSE)>>
  <2> DEFINE st == Shift(TRUE)
             kt == Key(c, TRUE)
             sf == Shift(FALSE)
             kf == Key(c, FALSE)
  <2>0. todo = <<st, kt, sf, kf>>
    BY <1>5
  <2> HIDE DEF st, kt, sf, kf
  <2>a. Head(todo) = st /\ Tail(todo) = <<kt, sf, kf>>
    BY <2>0, FourCalls
  <2>1. /\ Head(todo) = Shift(TRUE)
        /\ Tail(todo) = <<Key(c, TRUE), Shift(FALSE), Key(c, FALSE)>>
    BY <2>a DEF st, kt, sf, kf
  <2>2. Stroking(s)'
    BY <1>1, <1>3, <1>5, <2>1, TapShift DEF Stroking
  <2> QED
    BY <1>1, <2>2 DEF Writing
<1>6. CASE /\ s.shifted /\ Matches(last_state)
           /\ todo = <<Key(c, TRUE), Shift(FALSE), Key(c, FALSE)>>
  <2>1. Head(todo) = Key(c, TRUE) /\ Tail(todo) = <<Shift(FALSE), Key(c, FALSE)>>
    BY <1>6, ThreeCalls
  <2>2. Stroking(s)'
    BY <1>1, <1>4, <1>6, <2>1, TapPress DEF Stroking
  <2> QED
    BY <1>1, <2>2 DEF Writing
<1>7. CASE s.shifted /\ Tapping(c) /\ todo = <<Shift(FALSE), Key(c, FALSE)>>
  <2>1. Head(todo) = Shift(FALSE) /\ Tail(todo) = <<Key(c, FALSE)>>
    BY <1>7, NonEmptyCalls
  <2>2. Stroking(s)'
    BY <1>1, <1>3, <1>7, <2>1, TapShift DEF Stroking
  <2> QED
    BY <1>1, <2>2 DEF Writing
<1>8. CASE /\ ~s.shifted /\ Matches(last_state)
           /\ todo = <<Key(c, TRUE), Key(c, FALSE)>>
  <2>1. Head(todo) = Key(c, TRUE) /\ Tail(todo) = <<Key(c, FALSE)>>
    BY <1>8, NonEmptyCalls
  <2>2. Stroking(s)'
    BY <1>1, <1>4, <1>8, <2>1, TapPress DEF Stroking
  <2> QED
    BY <1>1, <2>2 DEF Writing
<1>9. CASE Tapping(c) /\ todo = <<Key(c, FALSE)>>
  <2>1. Head(todo) = Key(c, FALSE) /\ Tail(todo) = <<>>
    BY <1>9, NonEmptyCalls
  <2>2. Matches(last_state)'
    BY <1>1, <1>4, <1>9, <2>1, TapRelease
  <2> QED
    BY <1>1, <2>1, <2>2 DEF Writing
<1> QED
  BY <1>5, <1>6, <1>7, <1>8, <1>9 DEF Stroking

LEMMA WritingStep ==
    ASSUME ScanInv, TypeOK, Distinct(pressed_keys), Bound, x \notin DOMAIN Holds
    PROVE  Writing'
PROOF
<1>1. /\ UNCHANGED <<last_state, typing>> /\ todo' = Tail(todo) /\ ScanType
      /\ todo # <<>> /\ Writing
  BY BoundKeeps DEF Bound, ScanInv, HandlerInv
<1>2. CASE typing
  BY <1>1, <1>2, StrokingStep DEF Writing
<1>3. CASE ~typing /\ todo = <<Shift(FALSE)>> /\ Matches(last_state)
  <2>1. Head(todo) = Shift(FALSE) /\ Tail(todo) = <<>>
    BY <1>3, NonEmptyCalls
  <2>2. ShiftCall(FALSE)
    BY <1>1, <2>1, ShiftCallHolds DEF Shift
  <2>3. Matches(last_state)' /\ ShiftHeld(last_state)'
    BY <1>1, <1>3, <2>2, TapShift DEF ShiftCall, ShiftHeld
  <2> QED
    BY <1>1, <1>3, <2>1, <2>3 DEF Writing
<1> QED
  BY <1>1, <1>2, <1>3 DEF Writing

-----------------------------------------------------------------------------
(* The invariant *)

LEMMA ScanInvInit == InitScan => ScanInv
PROOF
<1> SUFFICES ASSUME InitScan PROVE ScanInv
  OBVIOUS
<1>1. NUM_KEYS \in Nat \ {0}
  BY ScanAssumption
<1>2. ScanType
  BY <1>1 DEF InitScan, Init, ScanType, Keys
<1>3. Held(pressed_keys) = {} /\ HeldBy(last_state) = {}
  <2>1. \A k \in DOMAIN Holds : last_state[k] = FALSE
    BY LayoutType DEF InitScan
  <2> QED
    BY <2>1 DEF InitScan, Init, Held, HeldBy, NoKeys
<1>4. HandlerInv
  BY <1>3 DEF InitScan, Init, HandlerInv, AtRest, Matches, ShiftHeld
<1> QED
  BY <1>2, <1>4 DEF ScanInv

\* A call keeps the types of the tables it changes.
LEMMA BoundKeepsType ==
    ASSUME ScanInv, Bound
    PROVE  ScanType'
PROOF
<1>1. /\ UNCHANGED <<pins, last_state, x, state, calling, typing, strokes>>
      /\ todo' = Tail(todo) /\ todo # <<>> /\ at' = "idle" /\ ScanType
  BY BoundKeeps DEF Bound, ScanInv
<1>2. Head(todo) \in Calls /\ Tail(todo) \in Seq(Calls)
  BY <1>1, CallType DEF ScanType
<1>3. modifiers' \in SUBSET {LEFT_SHIFT}
  <2>1. CASE Head(todo).op = "set_modifier"
    <3>1. PICK p \in BOOLEAN : Head(todo) = Bind("set_modifier", LEFT_SHIFT, p)
      BY <1>2, <2>1 DEF Calls, Bind
    <3>2. ShiftCall(p)
      BY <1>1, <3>1, ShiftCallHolds
    <3> QED
      BY <3>2 DEF ShiftCall
  <2>2. CASE Head(todo).op # "set_modifier"
    BY <1>1, <2>2 DEF Bound, SetKey, Send, vars, tables, ScanType
  <2> QED
    BY <2>1, <2>2
<1> QED
  BY <1>1, <1>2, <1>3 DEF ScanType

\* A pin may change and the loop may go round while nothing else does.
LEMMA RestUnchanged ==
    ASSUME ScanInv,
           UNCHANGED <<pressed_keys, modifiers, mode, last_state, state, calling,
                       todo, typing>>,
           UNCHANGED x \/ ~calling
    PROVE  HandlerInv'
PROOF
<1>1. UNCHANGED <<Matches(last_state), ShiftHeld(last_state)>>
  BY DEF Matches, ShiftHeld, OneKeyPerCode
<1>2. UNCHANGED AtRest
  BY <1>1 DEF AtRest
<1>3. CASE UNCHANGED x
  <2>1. UNCHANGED <<Matches(NewLevel), ShiftHeld(NewLevel)>>
    BY <1>3 DEF Matches, ShiftHeld, OneKeyPerCode, NewLevel
  <2>2. Holding => Holding'
    BY <1>1, <1>3, <2>1 DEF Holding
  <2>3. \A s \in Typable : Stroking(s) => Stroking(s)'
    BY <1>1 DEF Stroking, Tapping, OneKeyPerCode
  <2>4. Writing => Writing'
    BY <1>1, <2>3 DEF Writing
  <2> QED
    BY <1>2, <1>3, <2>2, <2>4 DEF ScanInv, HandlerInv
<1>4. CASE ~calling
  BY <1>2, <1>4 DEF ScanInv, HandlerInv
<1> QED
  BY <1>3, <1>4

LEMMA ScanInvNext ==
    TypeOK /\ KeysInv /\ ScanInv /\ [NextScan]_allVars => ScanInv'
PROOF
<1> SUFFICES ASSUME TypeOK, KeysInv, ScanInv, [NextScan]_allVars PROVE ScanInv'
  OBVIOUS
<1>0. ScanType /\ HandlerInv /\ Distinct(pressed_keys) /\ NUM_KEYS \in Nat \ {0}
  BY ScanAssumption DEF ScanInv, ScanType, KeysInv
<1>1. CASE Loop \/ KeySame
  <2>1. ~calling
    BY <1>0, <1>1 DEF Loop, KeySame, HandlerInv, Keys
  <2>2. ScanType'
    BY <1>0, <1>1 DEF Loop, KeySame, ScanType, Keys, vars, tables, handler
  <2>3. HandlerInv'
    BY <1>1, <2>1, RestUnchanged DEF Loop, KeySame, vars, tables, handler
  <2> QED
    BY <2>2, <2>3 DEF ScanInv
<1>2. CASE KeyChanged
  <2>1. /\ UNCHANGED <<pressed_keys, modifiers, at, mode, pins, last_state, x>>
        /\ x \in Keys /\ ~calling /\ calling' /\ mode = "open" /\ mode' = "open"
        /\ state' = pins[x] /\ pins[x] # last_state[x]
        /\ todo' = HandlerCalls(x, pins[x])
        /\ typing' = Types(x, pins[x])
        /\ strokes' = IF Types(x, pins[x]) THEN Macros[x] ELSE <<>>
    BY <1>2 DEF KeyChanged, Returned, Ready, vars, tables
  <2>2. pins[x] \in BOOLEAN /\ last_state[x] \in BOOLEAN
    BY <1>0, <2>1 DEF ScanType
  <2>3. ScanType'
    <3>1. HandlerCalls(x, pins[x]) \in Seq(Calls)
      BY <2>2, LayoutType, CallsType DEF HandlerCalls
    <3>2. strokes' \in Seq(Typable) /\ typing' \in BOOLEAN
      BY <2>1, LayoutType DEF Types
    <3> QED
      BY <1>0, <2>1, <2>2, <3>1, <3>2 DEF ScanType
  <2>4. AtRest /\ UNCHANGED <<Matches(last_state), ShiftHeld(last_state)>>
    BY <1>0, <2>1 DEF HandlerInv, Matches, ShiftHeld, OneKeyPerCode
  <2>5. ASSUME x \in DOMAIN Holds PROVE Holding'
    <3>1. Holds[x] \in Stroke /\ x \notin DOMAIN Macros
      BY <2>5, LayoutType
    <3>2. /\ ~typing'
          /\ todo' = IF Holds[x].shifted
                     THEN <<Shift(state'), Key(Holds[x].code, state')>>
                     ELSE <<Key(Holds[x].code, state')>>
      BY <2>1, <2>2, <2>5, <3>1, SetKeyCalls DEF HandlerCalls, Types
    <3>3. Matches(last_state)' /\ ShiftHeld(last_state)'
      BY <2>4 DEF AtRest
    <3>4. CASE Holds[x].shifted
      BY <2>1, <3>2, <3>3, <3>4 DEF Holding
    <3>5. CASE ~Holds[x].shifted
      <4>1. \A k \in DOMAIN Holds : Holds[k].shifted =>
               NewLevel'[k] = last_state'[k]
        BY <1>0, <2>1, <3>5, LayoutType DEF NewLevel, ScanType
      <4>2. ShiftHeld(NewLevel)'
        BY <3>3, <4>1 DEF ShiftHeld
      <4> QED
        BY <2>1, <3>2, <3>3, <3>5, <4>2 DEF Holding
    <3> QED
      BY <3>4, <3>5
  <2>6. ASSUME x \notin DOMAIN Holds PROVE Writing'
    <3>1. todo' = <<>> /\ typing' \in BOOLEAN
      BY <2>1, <2>6 DEF HandlerCalls, Types
    <3> QED
      BY <2>4, <3>1 DEF AtRest, Writing
  <2> QED
    BY <2>1, <2>3, <2>5, <2>6 DEF ScanInv, HandlerInv
<1>3. CASE Text
  <2>1. /\ UNCHANGED <<pressed_keys, modifiers, at, mode, pins, last_state, x,
                       state, calling>>
        /\ typing /\ todo = <<>> /\ mode = "open"
    BY <1>3 DEF Text, Ready, vars, tables
  <2>2. calling /\ x \notin DOMAIN Holds
    BY <1>0, <2>1 DEF HandlerInv, AtRest, Holding
  <2>3. Matches(last_state)
    <3>1. Writing
      BY <1>0, <2>2 DEF HandlerInv
    <3>2. \A s \in Typable : ~Stroking(s)
      BY <2>1 DEF Stroking
    <3> QED
      BY <2>1, <3>1, <3>2 DEF Writing
  <2>4. Matches(last_state)'
    BY <2>1, <2>3 DEF Matches, OneKeyPerCode
  <2>5. CASE /\ strokes # <<>>
             /\ todo' = tap_key(Head(strokes)) /\ strokes' = Tail(strokes)
             /\ UNCHANGED typing
    <3>1. Head(strokes) \in Typable /\ Tail(strokes) \in Seq(Typable)
      BY <1>0, <2>5, CallType DEF ScanType
    <3>2. PICK s \in Typable : todo' = tap_key(s)
      BY <2>5, <3>1
    <3>3. ScanType'
      <4>1. todo' \in Seq(Calls)
        BY <3>2, CallsType DEF Typable
      <4> QED
        BY <1>0, <2>1, <2>5, <3>1, <4>1 DEF ScanType
    <3>4. Stroking(s)'
      <4>1. CASE s.shifted
        BY <2>4, <3>2, <4>1, TapKeyCalls DEF Stroking, Typable
      <4>2. CASE ~s.shifted
        BY <2>4, <3>2, <4>2, TapKeyCalls DEF Stroking, Typable
      <4> QED
        BY <4>1, <4>2
    <3>5. Writing'
      BY <2>1, <2>5, <3>4 DEF Writing
    <3>6. HandlerInv'
      BY <1>0, <2>1, <2>2, <3>5 DEF HandlerInv
    <3> QED
      BY <3>3, <3>6 DEF ScanInv
  <2>6. CASE /\ strokes = <<>>
             /\ todo' = <<Bind("set_modifier", LEFT_SHIFT, FALSE)>> /\ typing' = FALSE
             /\ UNCHANGED strokes
    <3>1. Bind("set_modifier", LEFT_SHIFT, FALSE) \in Calls
      BY DEF Bind, Calls
    <3>2. todo' \in Seq(Calls)
      BY <2>6, <3>1, TupleTypes
    <3>3. ScanType'
      BY <1>0, <2>1, <2>6, <3>2 DEF ScanType
    <3>4. Writing'
      BY <2>4, <2>6 DEF Writing, Shift
    <3>5. HandlerInv'
      BY <1>0, <2>1, <2>2, <3>4 DEF HandlerInv
    <3> QED
      BY <3>3, <3>5 DEF ScanInv
  <2> QED
    BY <1>3, <2>5, <2>6 DEF Text
<1>4. CASE Bound
  <2>1. ScanType'
    BY <1>4, BoundKeepsType
  <2>2. /\ UNCHANGED <<last_state, x, state, calling>> /\ calling
        /\ mode = "open" /\ mode' = "open"
    BY <1>4, BoundKeeps
  <2>3. x \in DOMAIN Holds => Holding'
    BY <1>0, <1>4, HoldingStep
  <2>4. x \notin DOMAIN Holds => Writing'
    BY <1>0, <1>4, WritingStep
  <2>5. HandlerInv'
    BY <1>0, <2>2, <2>3, <2>4 DEF HandlerInv
  <2> QED
    BY <2>1, <2>5 DEF ScanInv
<1>5. CASE KeyHandled
  <2>1. /\ UNCHANGED <<pressed_keys, modifiers, at, mode, pins, state, todo,
                       typing, strokes>>
        /\ calling /\ calling' = FALSE /\ todo = <<>> /\ ~typing /\ mode = "open"
        /\ last_state' = NewLevel /\ x' = x + 1 /\ x \in Keys
    BY <1>0, <1>5 DEF KeyHandled, Returned, Ready, vars, tables, NewLevel, HandlerInv
  <2>2. NewLevel \in [Keys -> BOOLEAN] /\ x + 1 \in 0..NUM_KEYS
    BY <1>0, <2>1 DEF NewLevel, ScanType, Keys
  <2>3. ScanType'
    BY <1>0, <2>1, <2>2 DEF ScanType
  <2>4. Matches(NewLevel) /\ ShiftHeld(NewLevel)
    <3>1. CASE x \in DOMAIN Holds
      BY <1>0, <2>1, <3>1 DEF HandlerInv, Holding
    <3>2. CASE x \notin DOMAIN Holds
      <4>1. Matches(last_state) /\ ShiftHeld(last_state)
        BY <1>0, <2>1, <3>2 DEF HandlerInv, Writing
      <4> QED
        BY <1>0, <3>2, <4>1, NewLevelOther DEF Matches
    <3> QED
      BY <3>1, <3>2
  <2>5. AtRest'
    BY <2>1, <2>4 DEF AtRest, Matches, ShiftHeld, HeldBy, OneKeyPerCode
  <2> QED
    BY <2>1, <2>3, <2>5 DEF ScanInv, HandlerInv
<1>6. CASE Exit
  <2>1. ~calling /\ UNCHANGED scanVars /\ mode' = "closing" /\ modifiers' = {}
        /\ UNCHANGED at
    BY <1>0, <1>6 DEF Exit, LuaClose, Send, HandlerInv, Keys
  <2> QED
    BY <1>0, <2>1 DEF ScanInv, ScanType, HandlerInv, scanVars, handler
<1>7. CASE Report_Continue
  <2>1. \/ UNCHANGED <<pressed_keys, modifiers, at, mode, scanVars>>
        \/ mode = "closing" /\ mode' = "closed" /\ UNCHANGED <<tables, at, scanVars>>
    BY <1>0, <1>7 DEF Report_Continue, Continue, SendMedia, TextChar, TextPress,
       TextRelease, TextUnshift, CloseOutput, ScanType, tables
  <2>2. CASE UNCHANGED <<pressed_keys, modifiers, at, mode, scanVars>>
    BY <1>0, <2>2, RestUnchanged DEF ScanInv, ScanType, scanVars, handler
  <2>3. CASE mode = "closing" /\ mode' = "closed" /\ UNCHANGED <<tables, at, scanVars>>
    BY <1>0, <2>3 DEF ScanInv, ScanType, HandlerInv, scanVars, handler, tables
  <2> QED
    BY <2>1, <2>2, <2>3
<1>8. CASE PinChange
  <2>1. UNCHANGED <<vars, last_state, x, state, handler>> /\ pins' \in [Keys -> BOOLEAN]
    BY <1>0, <1>8 DEF PinChange, ScanType
  <2> QED
    BY <1>0, <2>1, RestUnchanged DEF ScanInv, ScanType, vars, tables, handler
<1>9. CASE SigInt
  BY <1>0, <1>9, RestUnchanged DEF SigInt, ScanInv, ScanType, vars, tables, handler
<1>10. CASE Die
  <2>1. /\ pressed_keys' = NoKeys /\ modifiers' = {} /\ at' = "idle"
        /\ UNCHANGED pins /\ todo' = <<>> /\ strokes' = <<>>
        /\ last_state' = [k \in Keys |-> FALSE] /\ x' = NUM_KEYS /\ state' = FALSE
        /\ calling' = FALSE /\ typing' = FALSE
    BY <1>10 DEF Die, CrashRestart
  <2>2. ScanType'
    <3>1. last_state' \in [Keys -> BOOLEAN] /\ x' \in 0..NUM_KEYS
      BY <1>0, <2>1
    <3>2. todo' \in Seq(Calls) /\ strokes' \in Seq(Typable)
      BY <2>1
    <3> QED
      BY <1>0, <2>1, <3>1, <3>2 DEF ScanType
  <2>3. Held(pressed_keys)' = {} /\ HeldBy(last_state)' = {}
    <3>1. \A k \in DOMAIN Holds : last_state'[k] = FALSE
      BY <2>1, LayoutType
    <3> QED
      BY <2>1, <3>1 DEF Held, HeldBy, NoKeys
  <2>4. AtRest'
    BY <2>1, <2>3 DEF AtRest, Matches, ShiftHeld
  <2> QED
    BY <2>1, <2>2, <2>4 DEF ScanInv, HandlerInv
<1>11. CASE Host \/ Ended \/ UNCHANGED allVars
  <2>1. UNCHANGED <<pressed_keys, modifiers, at, mode, scanVars>>
    BY <1>11 DEF Host, HostPoll, HostReset, Ended, Closed, allVars, vars, tables
  <2> QED
    BY <1>0, <2>1, RestUnchanged DEF ScanInv, ScanType, scanVars, handler
<1> QED
  BY <1>1, <1>2, <1>3, <1>4, <1>5, <1>6, <1>7, <1>8, <1>9, <1>10, <1>11
     DEF NextScan, MainThread

LEMMA ScanInvariant == SpecScan => [](TypeInv /\ KeysInv /\ ScanInv)
PROOF
<1>1. InitScan => TypeInv /\ KeysInv /\ ScanInv
  BY TypeInvInit, KeysInvInit, ScanInvInit DEF InitScan
<1>2. TypeInv /\ KeysInv /\ ScanInv /\ [NextScan]_allVars
        => (TypeInv /\ KeysInv /\ ScanInv)'
  <2>1. TypeInv => TypeOK
    BY DEF TypeInv
  <2>2. ScanInv => ScanType
    BY DEF ScanInv
  <2> QED
    BY <2>1, <2>2, TypeInvNext, KeysInvNext, ScanInvNext, ScanStep
<1> QED
  BY <1>1, <1>2, PTL DEF SpecScan

(***************************************************************************)
(* Whatever the pins do while a handler runs, and wherever the process     *)
(* dies, between two handlers the table of pressed keys is what updateKeys *)
(* believes to be down, in every layout without clashes.                   *)
(***************************************************************************)
THEOREM TableFollowsLoop == SpecScan => []HeldMatchesKeys
PROOF
<1>1. ScanInv => HeldMatchesKeys
  BY DEF ScanInv, HandlerInv, AtRest, Matches, HeldMatchesKeys
<1> QED
  BY <1>1, ScanInvariant, PTL

(***************************************************************************)
(* In every layout, also one in which keys and texts share codes, a code   *)
(* or the shift that is left pressed between two handlers belongs to a key *)
(* that is down.                                                           *)
(***************************************************************************)
THEOREM NoKeyStuck == SpecScan => []NothingStuck
PROOF
<1>1. ScanInv => NothingStuck
  BY DEF ScanInv, HandlerInv, AtRest, Matches, ShiftHeld, NothingStuck
<1> QED
  BY <1>1, ScanInvariant, PTL

(***************************************************************************)
(* What HidReports promises of its reports holds of the keys as well: once *)
(* the driver is empty the host sees what the tables hold.                 *)
(***************************************************************************)
THEOREM ScanImplementsReports == SpecScan => Init /\ [][Next]_vars
PROOF
<1>1. InitScan => Init
  BY DEF InitScan
<1>2. ScanInv /\ [NextScan]_allVars => [Next]_vars
  BY ScanStep DEF ScanInv
<1> QED
  BY <1>1, <1>2, ScanInvariant, PTL DEF SpecScan

=============================================================================

-------------------------- MODULE UsbGadgetProofs ---------------------------
(***************************************************************************)
(* Theorems about UsbGadget: for any number of failing kernel calls, kills *)
(* and reboots.  The names of the functions need not even be different.    *)
(***************************************************************************)
EXTENDS UsbGadget, FiniteSetTheorems, SequenceTheorems, TLAPS

Parts == {acm, hid, midi}

UsbTypes ==
  /\ bound \in [{g1} -> {udc0, NoUdc}] /\ gudc \in [{g1} -> {udc0, NoUdc}]
  /\ ugad \in [{udc0} -> {g1, None, Freed}] /\ live \in BOOLEAN

\* Nothing is left of what was taken away: a node has the directory it is in, and a
\* link its function.
Kinds == {"g", "gs", "f", "c", "cs", "l"}
Closed(tree) ==
  \A n \in tree : /\ Kind(n) \in Kinds
                  /\ Kind(n) # "g" => Parent(n) \in tree
                  /\ Kind(n) = "l" => Function(n[2], n[4]) \in tree

Whole(tree) == \A f \in Parts : Function(g1, f) \in tree /\ Link(g1, conf, f) \in tree

\* What initUSB has made when it comes to a call.
Made(call, tree) ==
  /\ call \in {"hid", "midi", "config", "acm.GS0", "keyboard", "midi_link", "enable"} =>
       Function(g1, acm) \in tree
  /\ call \in {"midi", "config", "acm.GS0", "keyboard", "midi_link", "enable"} =>
       Function(g1, hid) \in tree
  /\ call \in {"config", "acm.GS0", "keyboard", "midi_link", "enable"} =>
       Function(g1, midi) \in tree
  /\ call \in {"keyboard", "midi_link", "enable"} => Link(g1, conf, acm) \in tree
  /\ call \in {"midi_link", "enable"} => Link(g1, conf, hid) \in tree
  /\ call = "enable" => Link(g1, conf, midi) \in tree

ServedWhole == bound[g1] # NoUdc => Whole(fs)

ListsSound ==
  /\ listed \subseteq fs /\ Closed(listed)
  /\ live /\ ~leaked => listed = L!Tracked(fs)
  /\ L!UdcPointsBack
  /\ ~live => listed = {}

\* What every call of the library keeps.
LibInv == UsbTypes /\ Closed(fs) /\ ServedWhole /\ ListsSound

\* Between two processes, and once main has done with it, the library is not in use.
NotInUse == pc \in {"off", "init", "open", "lua", "run"} => ~live

\* An orphan is in the way of every start.
OrphanStays ==
  orphan => /\ Gadget(g1) \in fs /\ bound[g1] = NoUdc
            /\ pc \in {"off", "init", "gadget", "out2", "open", "tool"}

UsbInv == LibInv /\ Made(pc, fs) /\ NotInUse /\ OrphanStays

-----------------------------------------------------------------------------
(* Nodes *)

\* The nodes of Libusbg are those of ConfigFs.
LEMMA SameNodes ==
    /\ \A x : L!Gadget(x) = Gadget(x) /\ L!Strings(x) = Strings(x)
    /\ \A x, y : /\ L!Function(x, y) = Function(x, y) /\ L!Config(x, y) = Config(x, y)
                 /\ L!CStrings(x, y) = CStrings(x, y)
    /\ \A x, y, z : L!Link(x, y, z) = Link(x, y, z)
    /\ \A n : L!Kind(n) = Kind(n) /\ L!Parent(n) = Parent(n)
BY DEF L!Gadget, Gadget, L!Strings, Strings, L!Function, Function, L!Config, Config,
       L!CStrings, CStrings, L!Link, Link, L!Kind, Kind, L!Parent, Parent

LEMMA SameTrees ==
    /\ \A tree, n : L!CanRemove(tree, n) <=> CanRemove(tree, n)
    /\ \A tree, n : L!CanMake(tree, n) <=> CanMake(tree, n)
PROOF
<1>1. \A tree, n : L!Holds(tree, n) = Holds(tree, n)
  BY SameNodes DEF L!Holds, Holds
<1> QED
  BY <1>1, SameNodes DEF L!CanRemove, CanRemove, L!CanMake, CanMake

\* What each node is, where it is, and what a link needs.
LEMMA NodeFacts ==
    /\ \A x : Kind(Gadget(x)) = "g" /\ Kind(Strings(x)) = "gs"
    /\ \A x, y : Kind(Function(x, y)) = "f" /\ Kind(Config(x, y)) = "c"
                   /\ Kind(CStrings(x, y)) = "cs"
    /\ \A x, y, z : Kind(Link(x, y, z)) = "l"
    /\ \A x : Parent(Strings(x)) = Gadget(x)
    /\ \A x, y : /\ Parent(Function(x, y)) = Gadget(x) /\ Parent(Config(x, y)) = Gadget(x)
                 /\ Parent(CStrings(x, y)) = Config(x, y)
    /\ \A x, y, z : Parent(Link(x, y, z)) = Config(x, y)
    /\ \A x, y, z : Function(Link(x, y, z)[2], Link(x, y, z)[4]) = Function(x, z)
                      /\ Link(x, y, z)[2] = x
BY DEF Kind, Parent, Gadget, Strings, Function, Config, CStrings, Link

LEMMA ParentKinds ==
    /\ \A n : Kind(Parent(n)) \in {"g", "c"}
    /\ \A x, y : Kind(Function(x, y)) = "f"
BY DEF Parent, Kind, Config, Gadget, Function

-----------------------------------------------------------------------------
(* Trees *)

LEMMA ClosedAdd ==
    ASSUME NEW tree, Closed(tree), NEW n, Kind(n) \in Kinds,
           Kind(n) # "g" => Parent(n) \in tree, Kind(n) = "l" => Function(n[2], n[4]) \in tree
    PROVE  Closed(tree \cup {n})
BY DEF Closed

\* Taking away what the kernel lets go, piece by piece.
LEMMA ClosedWithout ==
    ASSUME NEW tree, Closed(tree), NEW gone,
           \A m \in tree \ gone, n \in gone : m \notin Holds(tree, n)
    PROVE  Closed(tree \ gone)
PROOF
<1> SUFFICES ASSUME NEW m \in tree \ gone
             PROVE  /\ Kind(m) \in Kinds
                    /\ Kind(m) # "g" => Parent(m) \in tree \ gone
                    /\ Kind(m) = "l" => Function(m[2], m[4]) \in tree \ gone
  BY DEF Closed
<1>1. Kind(m) # "g" => Parent(m) \notin gone
  <2> SUFFICES ASSUME Kind(m) # "g", Parent(m) \in gone
               PROVE  FALSE
    OBVIOUS
  <2>1. m \in Holds(tree, Parent(m))
    BY DEF Holds
  <2> QED
    BY <2>1
<1>2. Kind(m) = "l" => Function(m[2], m[4]) \notin gone
  <2> SUFFICES ASSUME Kind(m) = "l", Function(m[2], m[4]) \in gone
               PROVE  FALSE
    OBVIOUS
  <2>1. m \in Holds(tree, Function(m[2], m[4]))
    BY DEF Holds
  <2> QED
    BY <2>1
<1> QED
  BY <1>1, <1>2 DEF Closed

LEMMA TryRemoveKeeps ==
    ASSUME NEW tree, Closed(tree), NEW nodes
    PROVE  Closed(TryRemove(tree, nodes)) /\ TryRemove(tree, nodes) \subseteq tree
PROOF
<1> DEFINE gone == {n \in nodes : CanRemove(tree, n)}
<1>1. \A m \in tree \ gone, n \in gone : m \notin Holds(tree, n)
  BY DEF CanRemove
<1> HIDE DEF gone
<1>2. Closed(tree \ gone)
  BY <1>1, ClosedWithout
<1> QED
  BY <1>2 DEF TryRemove, gone

LEMMA TeardownKeeps ==
    ASSUME NEW tree, Closed(tree)
    PROVE  Closed(TeardownRest(TeardownConfig(tree)))
PROOF
<1>1. \A t, nodes : Closed(t) => Closed(TryRemove(t, nodes))
  BY TryRemoveKeeps
<1>2. Closed(TeardownConfig(tree))
  BY <1>1 DEF TeardownConfig
<1>3. \A t : Closed(t) => Closed(TeardownRest(t))
  BY <1>1 DEF TeardownRest
<1> QED
  BY <1>2, <1>3

\* What holds a node keeps it in the tree.
LEMMA HeldStays ==
    ASSUME NEW tree, Closed(tree), NEW n \in tree
    PROVE  /\ \A x, y : n = Function(x, y) => Gadget(x) \in tree
           /\ \A x, y : n = Config(x, y) => Gadget(x) \in tree
           /\ \A x, y, z : n = Link(x, y, z) =>
                Config(x, y) \in tree /\ Function(x, z) \in tree
BY NodeFacts DEF Closed

LEMMA WholeHasGadget ==
    ASSUME NEW tree, Closed(tree), Whole(tree)
    PROVE  Gadget(g1) \in tree
BY HeldStays DEF Whole, Parts

-----------------------------------------------------------------------------
(* The calls of the library *)

\* What a removing call takes away nobody holds any more; taking a link unbinds.
RmEffect(gone) ==
  /\ \A m \in fs \ gone, n \in gone : m \notin Holds(fs, n)
  /\ fs' = fs \ gone /\ listed' = listed \ gone
  /\ bound' = [x \in {g1} |-> IF \E n \in gone : Kind(n) = "l" /\ n[2] = x
                              THEN NoUdc ELSE bound[x]]
  /\ gudc' = [x \in {g1} |-> IF Gadget(x) \in gone THEN NoUdc ELSE gudc[x]]
  /\ ugad' = [u \in {udc0} |-> IF ugad[u] \in {g1} /\ Gadget(ugad[u]) \in gone
                               THEN Freed ELSE ugad[u]]
  /\ UNCHANGED <<live, leaked>>

LEMMA RemovesEffect ==
    ASSUME NEW order, L!Removes(order)
    PROVE  \E gone : RmEffect(gone)
PROOF
<1> DEFINE Still(k) == fs \ {order[i] : i \in 1..k}
           Allowed  == {i \in 1..Len(order) : L!CanRemove(Still(i - 1), order[i])}
<1>1. PICK k \in 0..Len(order) :
         /\ 1..k \subseteq Allowed
         /\ fs' = fs \ {order[i] : i \in 1..k} /\ listed' = listed \ {order[i] : i \in 1..k}
         /\ bound' = [x \in {g1} |-> IF \E n \in {order[i] : i \in 1..k} :
                                          L!Kind(n) = "l" /\ n[2] = x
                                     THEN NoUdc ELSE bound[x]]
         /\ gudc' = [x \in {g1} |-> IF L!Gadget(x) \in {order[i] : i \in 1..k}
                                    THEN NoUdc ELSE gudc[x]]
         /\ L!Dangle({order[i] : i \in 1..k})
         /\ UNCHANGED <<live, leaked>>
  BY DEF L!Removes
<1> DEFINE gone == {order[i] : i \in 1..k}
<1>2. k \in Int /\ gone = {order[i] : i \in 1..k}
  OBVIOUS
<1> HIDE DEF Allowed
<1>6. 1..k \subseteq Allowed
  BY <1>1
<1>7. fs' = fs \ gone /\ listed' = listed \ gone /\ L!Dangle(gone) /\ UNCHANGED <<live, leaked>>
  BY <1>1
<1>8. /\ bound' = [x \in {g1} |-> IF \E n \in gone : L!Kind(n) = "l" /\ n[2] = x
                                  THEN NoUdc ELSE bound[x]]
      /\ gudc' = [x \in {g1} |-> IF L!Gadget(x) \in gone THEN NoUdc ELSE gudc[x]]
  BY <1>1
<1> HIDE DEF gone
<1>3. ASSUME NEW m \in fs \ gone, NEW n \in gone
      PROVE  m \notin Holds(fs, n)
  <2>1. PICK j \in 1..k : n = order[j]
    BY <1>2
  <2>2. j \in Allowed
    BY <1>6
  <2>3. CanRemove(Still(j - 1), n)
    BY <2>1, <2>2, SameTrees DEF Allowed
  <2>4. m \in Still(j - 1)
    <3>1. {order[i] : i \in 1..(j - 1)} \subseteq gone
      BY <1>2
    <3> QED
      BY <3>1
  <2>5. Holds(Still(j - 1), n) = {} /\ m # n
    BY <2>3 DEF CanRemove
  <2> HIDE DEF Still
  <2> QED
    BY <2>4, <2>5 DEF Holds
<1>4. /\ bound' = [x \in {g1} |-> IF \E n \in gone : Kind(n) = "l" /\ n[2] = x
                                  THEN NoUdc ELSE bound[x]]
      /\ gudc' = [x \in {g1} |-> IF Gadget(x) \in gone THEN NoUdc ELSE gudc[x]]
  BY <1>8, SameNodes
<1>5. ugad' = [u \in {udc0} |-> IF ugad[u] \in {g1} /\ Gadget(ugad[u]) \in gone
                                THEN Freed ELSE ugad[u]]
  BY <1>7, SameNodes DEF L!Dangle
<1> QED
  BY <1>3, <1>4, <1>5, <1>7 DEF RmEffect

\* A creating call makes one node, or one and the strings in it; when it fails it
\* leaves what it could not remove, and remembers that it did.
MakeEffect(n, m) ==
  /\ UNCHANGED <<bound, live, gudc, ugad>>
  /\ fs' = fs \/ (CanMake(fs, n) /\ fs' \in {fs \cup {n}, fs \cup {n, m}})
  /\ \/ /\ ret' = "ok" /\ fs' = fs \cup {n, m} /\ CanMake(fs, n)
        /\ listed' = listed \cup L!Tracked({n}) /\ leaked' = leaked
     \/ /\ ret' # "ok" /\ listed' = listed /\ (~leaked' => ~leaked /\ fs' = fs)

LEMMA FirstOf ==
    ASSUME NEW steps, NEW k \in Int
    PROVE  /\ L!ToSet(SubSeq(steps, 1, k)) = {steps[i] : i \in 1..k}
           /\ ToSet(SubSeq(steps, 1, k)) = {steps[i] : i \in 1..k}
PROOF
<1>1. DOMAIN SubSeq(steps, 1, k) = 1..k /\ \A i \in 1..k : SubSeq(steps, 1, k)[i] = steps[i]
  OBVIOUS
<1> QED
  BY <1>1 DEF L!ToSet, ToSet

LEMMA CreatesOne ==
    ASSUME NEW duplicate, NEW n, L!Creates(duplicate, <<n>>)
    PROVE  MakeEffect(n, n)
PROOF
<1> DEFINE steps == <<n>>
<1>1. Len(steps) = 1 /\ steps[1] = n /\ L!ToSet(steps) = {n}
  BY DEF L!ToSet
<1>2. ASSUME NEW k \in 0..1
      PROVE  L!ToSet(SubSeq(steps, 1, k)) = IF k = 0 THEN {} ELSE {n}
  <2>1. L!ToSet(SubSeq(steps, 1, k)) = {steps[i] : i \in 1..k}
    BY FirstOf
  <2>2. 1..0 = {} /\ 1..1 = {1}
    OBVIOUS
  <2>3. k = 0 \/ k = 1
    OBVIOUS
  <2> HIDE DEF steps
  <2> QED
    BY <1>1, <2>1, <2>2, <2>3
<1> HIDE DEF steps
<1>3. L!Creates(duplicate, steps)
  BY DEF steps
<1>4. CASE ret' = "exist" /\ UNCHANGED <<fs, bound, live, listed, gudc, ugad, faults, leaked>>
  BY <1>4 DEF MakeEffect
<1>5. CASE /\ L!CanMake(fs, n) /\ fs' = fs \cup {n} /\ ret' = "ok"
           /\ listed' = listed \cup L!Tracked({n})
           /\ UNCHANGED <<bound, live, gudc, ugad, faults, leaked>>
  BY <1>5, SameTrees DEF MakeEffect
<1>6. CASE /\ L!CanMake(fs, n) /\ ret' = "error" /\ UNCHANGED <<bound, live, listed, gudc, ugad>>
           /\ \E made \in 0..Len(steps) :
                LET tree == fs \cup L!ToSet(SubSeq(steps, 1, made))
                IN  /\ fs' = IF made > 0 /\ L!CanRemove(tree, steps[1])
                             THEN tree \ {steps[1]} ELSE tree
                    /\ leaked' = (leaked \/ fs' # fs)
  <2>1. PICK k \in 0..1 :
          /\ fs' = IF k > 0 /\ L!CanRemove(fs \cup L!ToSet(SubSeq(steps, 1, k)), n)
                   THEN (fs \cup L!ToSet(SubSeq(steps, 1, k))) \ {n}
                   ELSE fs \cup L!ToSet(SubSeq(steps, 1, k))
          /\ leaked' = (leaked \/ fs' # fs)
    BY <1>1, <1>6
  <2>2. n \notin fs /\ CanMake(fs, n)
    BY <1>6, SameTrees DEF CanMake
  <2>3. fs' \in {fs, fs \cup {n}}
    BY <1>2, <2>1, <2>2
  <2>4. ~leaked' => ~leaked /\ fs' = fs
    BY <2>1
  <2> QED
    BY <1>6, <2>2, <2>3, <2>4 DEF MakeEffect
<1> QED
  BY <1>1, <1>3, <1>4, <1>5, <1>6 DEF L!Creates, L!libVars, L!Fails

LEMMA CreatesTwo ==
    ASSUME NEW duplicate, NEW n, NEW m, Parent(m) = n, Kind(m) # "g", m # n,
           L!Creates(duplicate, <<n, m>>)
    PROVE  MakeEffect(n, m)
PROOF
<1> DEFINE steps == <<n, m>>
<1>1. Len(steps) = 2 /\ steps[1] = n /\ steps[2] = m /\ L!ToSet(steps) = {n, m}
  BY DEF L!ToSet
<1>2. ASSUME NEW k \in 0..2
      PROVE  L!ToSet(SubSeq(steps, 1, k)) = IF k = 0 THEN {} ELSE IF k = 1 THEN {n} ELSE {n, m}
  <2>1. L!ToSet(SubSeq(steps, 1, k)) = {steps[i] : i \in 1..k}
    BY FirstOf
  <2>2. 1..0 = {} /\ 1..1 = {1} /\ 1..2 = {1, 2}
    OBVIOUS
  <2>3. k = 0 \/ k = 1 \/ k = 2
    OBVIOUS
  <2> HIDE DEF steps
  <2>4. \A i : i \in {1, 2} => steps[i] \in {n, m}
    BY <1>1
  <2> QED
    BY <1>1, <2>1, <2>2, <2>3, <2>4
<1> HIDE DEF steps
<1>3. L!Creates(duplicate, steps)
  BY DEF steps
<1>4. CASE ret' = "exist" /\ UNCHANGED <<fs, bound, live, listed, gudc, ugad, faults, leaked>>
  BY <1>4 DEF MakeEffect
<1>5. CASE /\ L!CanMake(fs, n) /\ fs' = fs \cup {n, m} /\ ret' = "ok"
           /\ listed' = listed \cup L!Tracked({n})
           /\ UNCHANGED <<bound, live, gudc, ugad, faults, leaked>>
  BY <1>5, SameTrees DEF MakeEffect
<1>6. CASE /\ L!CanMake(fs, n) /\ ret' = "error" /\ UNCHANGED <<bound, live, listed, gudc, ugad>>
           /\ \E made \in 0..Len(steps) :
                LET tree == fs \cup L!ToSet(SubSeq(steps, 1, made))
                IN  /\ fs' = IF made > 0 /\ L!CanRemove(tree, steps[1])
                             THEN tree \ {steps[1]} ELSE tree
                    /\ leaked' = (leaked \/ fs' # fs)
  <2>1. PICK k \in 0..2 :
          /\ fs' = IF k > 0 /\ L!CanRemove(fs \cup L!ToSet(SubSeq(steps, 1, k)), n)
                   THEN (fs \cup L!ToSet(SubSeq(steps, 1, k))) \ {n}
                   ELSE fs \cup L!ToSet(SubSeq(steps, 1, k))
          /\ leaked' = (leaked \/ fs' # fs)
    BY <1>1, <1>6
  <2>2. n \notin fs /\ CanMake(fs, n)
    BY <1>6, SameTrees DEF CanMake
  <2>3. ~L!CanRemove(fs \cup {n, m}, n)
    <3>1. m \in Holds(fs \cup {n, m}, n)
      BY DEF Holds
    <3> QED
      BY <3>1, SameTrees DEF CanRemove
  <2>4. fs' \in {fs, fs \cup {n}, fs \cup {n, m}}
    BY <1>2, <2>1, <2>2, <2>3
  <2>5. ~leaked' => ~leaked /\ fs' = fs
    BY <2>1
  <2> QED
    BY <1>6, <2>2, <2>4, <2>5 DEF MakeEffect
<1> QED
  BY <1>1, <1>3, <1>4, <1>5, <1>6 DEF L!Creates, L!libVars, L!Fails

\* A created node is in the tree and on the list with what it needs.
Needs(n, nodes) ==
  /\ Kind(n) \in {"g", "f", "c", "l"}
  /\ Kind(n) # "g" => Parent(n) \in nodes
  /\ Kind(n) = "l" => Function(n[2], n[4]) \in nodes

LEMMA MakeKeeps ==
    ASSUME LibInv, live = TRUE, NEW n, NEW m, MakeEffect(n, m),
           Needs(n, listed), m = n \/ (Parent(m) = n /\ Kind(m) \in {"gs", "cs"})
    PROVE  /\ LibInv' /\ fs \subseteq fs' /\ UNCHANGED bound
           /\ ret' = "ok" => n \in fs' /\ n \notin fs
PROOF
<1>1. /\ listed \subseteq fs /\ Closed(listed) /\ (~leaked => listed = L!Tracked(fs))
      /\ L!UdcPointsBack /\ Closed(fs) /\ UsbTypes /\ ServedWhole
  BY DEF LibInv, ListsSound
<1>2. /\ UNCHANGED <<bound, live, gudc, ugad>>
      /\ fs' \in {fs, fs \cup {n}, fs \cup {n, m}}
      /\ \/ /\ ret' = "ok" /\ fs' = fs \cup {n, m} /\ listed' = listed \cup L!Tracked({n})
            /\ leaked' = leaked
         \/ ret' # "ok" /\ listed' = listed /\ (~leaked' => ~leaked /\ fs' = fs)
      /\ ret' = "ok" => n \notin fs
  BY DEF MakeEffect, CanMake
<1>3. /\ Kind(n) \in Kinds /\ (m # n => Kind(m) \in Kinds)
      /\ Kind(n) # "g" => Parent(n) \in fs
      /\ Kind(n) = "l" => Function(n[2], n[4]) \in fs
  BY <1>1 DEF Needs, Kinds
<1>4. Closed(fs')
  <2>1. Closed(fs \cup {n})
    BY <1>1, <1>3, ClosedAdd
  <2>2. m = n \/ (Parent(m) \in fs \cup {n} /\ Kind(m) \in Kinds \ {"g", "l"})
    BY <1>3
  <2>3. Closed((fs \cup {n}) \cup {m})
    <3>1. CASE m = n
      <4>1. (fs \cup {n}) \cup {m} = fs \cup {n}
        BY <3>1
      <4> QED
        BY <2>1, <4>1
    <3>2. CASE Parent(m) \in fs \cup {n} /\ Kind(m) \in Kinds \ {"g", "l"}
      BY <2>1, <3>2, ClosedAdd
    <3> QED
      BY <2>2, <3>1, <3>2
  <2>4. (fs \cup {n}) \cup {m} = fs \cup {n, m}
    OBVIOUS
  <2> QED
    BY <1>1, <1>2, <2>1, <2>3, <2>4
<1>5. L!Tracked({n}) = {n}
  BY SameNodes DEF L!Tracked, Needs
<1>6. Closed(listed')
  <2>1. Closed(listed \cup {n})
    BY <1>1, <1>3, ClosedAdd DEF Needs
  <2> QED
    BY <1>1, <1>2, <1>5, <2>1
<1>7. listed \subseteq listed' /\ listed' \subseteq fs'
  BY <1>1, <1>2, <1>5
<1>8. ~leaked' => listed' = L!Tracked(fs')
  <2> SUFFICES ASSUME ~leaked'
               PROVE  listed' = L!Tracked(fs')
    OBVIOUS
  <2>1. CASE ret' = "ok"
    <3>1. L!Tracked(fs \cup {n, m}) = L!Tracked(fs) \cup {n}
      BY SameNodes DEF L!Tracked, Needs
    <3>2. ~leaked
      BY <1>2, <2>1
    <3> QED
      BY <1>1, <1>2, <1>5, <2>1, <3>1, <3>2
  <2>2. CASE ret' # "ok"
    BY <1>1, <1>2, <2>2
  <2> QED
    BY <2>1, <2>2
<1>9. (L!UdcPointsBack)'
  BY <1>1, <1>2, <1>7 DEF L!UdcPointsBack
<1>10. UsbTypes'
  BY <1>1, <1>2 DEF UsbTypes
<1>11. ListsSound'
  BY <1>2, <1>6, <1>7, <1>8, <1>9 DEF ListsSound
<1>12. ServedWhole'
  BY <1>1, <1>2 DEF ServedWhole, Whole
<1> QED
  BY <1>2, <1>4, <1>10, <1>11, <1>12 DEF LibInv

-----------------------------------------------------------------------------
(* The steps *)

\* The calls of initUSB, in order.
LEMMA AfterFacts ==
    /\ After("gadget") = "acm" /\ After("acm") = "hid" /\ After("hid") = "midi"
    /\ After("midi") = "config" /\ After("config") = "acm.GS0"
    /\ After("acm.GS0") = "keyboard" /\ After("keyboard") = "midi_link"
    /\ After("midi_link") = "enable" /\ After("enable") = "out2"
PROOF
<1>1. /\ Len(Calls) = 10 /\ DOMAIN Calls = 1..10
      /\ Calls[1] = "init" /\ Calls[2] = "gadget" /\ Calls[3] = "acm" /\ Calls[4] = "hid"
      /\ Calls[5] = "midi" /\ Calls[6] = "config" /\ Calls[7] = "acm.GS0"
      /\ Calls[8] = "keyboard" /\ Calls[9] = "midi_link" /\ Calls[10] = "enable"
  BY DEF Calls
<1> DEFINE Place(call, k) == \A i \in DOMAIN Calls : Calls[i] = call <=> i = k
<1>2. \A i \in 1..10 : i \in {1, 2, 3, 4, 5, 6, 7, 8, 9, 10}
  OBVIOUS
<1>3. Place("gadget", 2) /\ Place("acm", 3) /\ Place("hid", 4)
  BY <1>1, <1>2
<1>4. Place("midi", 5) /\ Place("config", 6) /\ Place("acm.GS0", 7)
  BY <1>1, <1>2
<1>5. Place("keyboard", 8) /\ Place("midi_link", 9) /\ Place("enable", 10)
  BY <1>1, <1>2
<1>6. ASSUME NEW call, NEW k \in 1..9, Place(call, k)
      PROVE  After(call) = Calls[k + 1]
  <2>1. k \in DOMAIN Calls /\ k # 10
    BY <1>1
  <2>2. Calls[k] = call /\ \A i \in DOMAIN Calls : Calls[i] = call => i = k
    BY <1>6, <2>1
  <2>3. (CHOOSE i \in DOMAIN Calls : Calls[i] = call) = k
    BY <2>1, <2>2, Zenon
  <2> HIDE DEF Place
  <2> QED
    BY <1>1, <2>1, <2>3 DEF After
<1>10. After("enable") = "out2"
  <2>1. 10 \in DOMAIN Calls
    BY <1>1
  <2>2. Calls[10] = "enable" /\ \A i \in DOMAIN Calls : Calls[i] = "enable" => i = 10
    BY <1>5, <2>1
  <2>3. (CHOOSE i \in DOMAIN Calls : Calls[i] = "enable") = 10
    BY <2>1, <2>2, Zenon
  <2> QED
    BY <1>1, <2>3 DEF After
<1> HIDE DEF Place
<1>7. /\ After("gadget") = Calls[3] /\ After("acm") = Calls[4] /\ After("hid") = Calls[5]
  BY <1>3, <1>6
<1>8. /\ After("midi") = Calls[6] /\ After("config") = Calls[7] /\ After("acm.GS0") = Calls[8]
  BY <1>4, <1>6
<1>9. After("keyboard") = Calls[9] /\ After("midi_link") = Calls[10]
  <2>1. Place("keyboard", 8) /\ Place("midi_link", 9) /\ 8 \in 1..9 /\ 9 \in 1..9
    BY <1>5
  <2> QED
    BY <1>6, <2>1
<1> QED
  BY <1>1, <1>7, <1>8, <1>9, <1>10

LEMMA InitLibraryEffect ==
    ASSUME LibInv, L!UsbgInit
    PROVE  LibInv' /\ UNCHANGED <<fs, bound, leaked>> /\ (ret' = "ok" <=> live')
PROOF
<1> USE DEF LibInv, ServedWhole
<1>1. CASE /\ live' = TRUE /\ ret' = "ok" /\ listed' = L!usbg_parse_gadgets(fs)
           /\ gudc' = bound /\ ugad' = [u \in {udc0} |-> L!usbg_parse_gadget(u)]
           /\ UNCHANGED <<fs, bound, faults, leaked>>
  <2>1. listed' = {n \in fs : Kind(n) \in {"g", "f", "c", "l"}}
    BY <1>1, SameNodes DEF L!usbg_parse_gadgets, L!usbg_parse_functions,
         L!usbg_parse_configs, L!usbg_parse_config_bindings
  <2>2. \A n \in fs : Kind(n) \in {"g", "f", "c", "l", "gs", "cs"}
    BY DEF Closed, Kinds
  <2>3. listed' = L!Tracked(fs)
    BY <2>1, <2>2, SameNodes DEF L!Tracked
  <2>4. Closed(listed')
    BY <2>1, ParentKinds DEF Closed
  <2>5. L!usbg_parse_gadget(udc0) = (IF bound[g1] = udc0 THEN g1 ELSE None)
    <3>1. CASE bound[g1] = udc0
      <4>1. (CHOOSE x \in {g1} : bound[x] = udc0) = g1
        BY <3>1
      <4> QED
        BY <3>1, <4>1 DEF L!usbg_parse_gadget
    <3>2. CASE bound[g1] # udc0
      BY <3>2 DEF L!usbg_parse_gadget
    <3> QED
      BY <3>1, <3>2
  <2>6. ugad'[udc0] = (IF bound[g1] = udc0 THEN g1 ELSE None) /\ gudc'[g1] = bound[g1]
    BY <1>1, <2>5
  <2>7. ugad' \in [{udc0} -> {g1, None, Freed}]
    BY <1>1, <2>5
  <2>8. bound[g1] = udc0 => Gadget(g1) \in listed'
    <3> SUFFICES ASSUME bound[g1] = udc0
                 PROVE  Gadget(g1) \in listed'
      OBVIOUS
    <3>1. Gadget(g1) \in fs
      BY WholeHasGadget, UsbGadgetAssumption
    <3> QED
      BY <2>1, <3>1, NodeFacts
  <2>9. (L!UdcPointsBack)'
    <3> SUFFICES ASSUME ugad'[udc0] \in {g1}
                 PROVE  gudc'[ugad'[udc0]] = udc0 /\ L!Gadget(ugad'[udc0]) \in listed'
      BY DEF L!UdcPointsBack
    <3>1. ugad'[udc0] = g1 /\ bound[g1] = udc0
      BY <2>6, UsbGadgetAssumption
    <3> QED
      BY <2>6, <2>8, <3>1, SameNodes
  <2>10. UsbTypes'
    BY <1>1, <2>7 DEF UsbTypes
  <2> QED
    BY <1>1, <2>1, <2>3, <2>4, <2>9, <2>10 DEF ListsSound
<1>2. CASE /\ ret' = "error" /\ live' = FALSE
           /\ UNCHANGED <<fs, bound, live, listed, gudc, ugad, leaked>>
  <2>1. /\ listed = {} /\ L!UdcPointsBack
    BY <1>2 DEF ListsSound
  <2>2. listed' = {} /\ (L!UdcPointsBack)' /\ Closed(listed')
    BY <1>2, <2>1 DEF L!UdcPointsBack, Closed
  <2>3. UsbTypes'
    BY <1>2 DEF UsbTypes
  <2> QED
    BY <1>2, <2>2, <2>3 DEF ListsSound
<1>3. live = FALSE
  BY DEF L!UsbgInit, UsbTypes
<1> QED
  BY <1>1, <1>2, <1>3 DEF L!UsbgInit, L!Fails, L!libVars

\* Removals leave nothing half there: what goes from the tree goes from the lists, and
\* a gadget that stays bound has lost no part.
LEMMA RmKeeps ==
    ASSUME LibInv, NEW gone, RmEffect(gone)
    PROVE  LibInv' /\ live' = live /\ (bound[g1] = NoUdc => bound'[g1] = NoUdc)
PROOF
<1> USE DEF LibInv
<1>1. /\ listed \subseteq fs /\ Closed(listed) /\ (live /\ ~leaked => listed = L!Tracked(fs))
      /\ L!UdcPointsBack /\ (~live => listed = {})
  BY DEF ListsSound
<1>2. /\ fs' = fs \ gone /\ listed' = listed \ gone /\ UNCHANGED <<live, leaked>>
      /\ \A m \in fs \ gone, n \in gone : m \notin Holds(fs, n)
  BY DEF RmEffect
<1>3. Closed(fs')
  BY <1>2, ClosedWithout
<1>4. Closed(listed')
  <2>1. \A m \in listed \ gone, n \in gone : m \notin Holds(listed, n)
    BY <1>1, <1>2 DEF Holds
  <2> QED
    BY <1>1, <1>2, <2>1, ClosedWithout
<1>5. listed' \subseteq fs' /\ (live' /\ ~leaked' => listed' = L!Tracked(fs'))
  BY <1>1, <1>2 DEF L!Tracked
<1>6. UsbTypes'
  BY DEF RmEffect, UsbTypes
<1>7. /\ bound'[g1] # NoUdc => bound[g1] # NoUdc /\ \A n \in gone : ~(Kind(n) = "l" /\ n[2] = g1)
      /\ ugad'[udc0] \in {g1} => ugad[udc0] = g1 /\ Gadget(g1) \notin gone /\ gudc'[g1] = gudc[g1]
  BY UsbGadgetAssumption DEF RmEffect
<1>8. ServedWhole'
  <2> SUFFICES ASSUME bound'[g1] # NoUdc, NEW f \in Parts
               PROVE  Function(g1, f) \in fs' /\ Link(g1, conf, f) \in fs'
    BY DEF ServedWhole, Whole
  <2>1. Function(g1, f) \in fs /\ Link(g1, conf, f) \in fs
    BY <1>7 DEF ServedWhole, Whole
  <2>2. Link(g1, conf, f) \in fs \ gone
    BY <1>7, <2>1, NodeFacts
  <2>3. Link(g1, conf, f) \in Holds(fs, Function(g1, f))
    <3>1. Kind(Link(g1, conf, f)) = "l" /\ Kind(Function(g1, f)) = "f"
      BY NodeFacts
    <3>2. Function(g1, f) = Function(Link(g1, conf, f)[2], Link(g1, conf, f)[4])
      BY NodeFacts
    <3> QED
      BY <2>1, <3>1, <3>2 DEF Holds
  <2> QED
    BY <1>2, <2>1, <2>2, <2>3
<1>9. (L!UdcPointsBack)'
  <2> SUFFICES ASSUME ugad'[udc0] \in {g1}
               PROVE  gudc'[ugad'[udc0]] = udc0 /\ L!Gadget(ugad'[udc0]) \in listed'
    BY DEF L!UdcPointsBack
  <2>1. gudc[g1] = udc0 /\ Gadget(g1) \in listed
    BY <1>1, <1>7, SameNodes DEF L!UdcPointsBack
  <2> QED
    BY <1>2, <1>7, <2>1, SameNodes
<1> QED
  BY <1>1, <1>2, <1>3, <1>4, <1>5, <1>6, <1>7, <1>8, <1>9 DEF ListsSound

\* A gadget is given a controller only when it is whole.
LEMMA EnableKeeps ==
    ASSUME LibInv, Whole(fs), L!EnableGadget(g1, udc0)
    PROVE  LibInv' /\ UNCHANGED <<fs, live>>
PROOF
<1> USE DEF LibInv
<1>1. CASE /\ bound' = [bound EXCEPT ![g1] = udc0] /\ gudc' = [gudc EXCEPT ![g1] = udc0]
           /\ ugad' = [v \in {udc0} |-> IF v = udc0 THEN g1
                                        ELSE IF v = gudc[g1] THEN None ELSE ugad[v]]
           /\ UNCHANGED <<fs, live, listed, leaked>> /\ L!Gadget(g1) \in listed
  <2>1. UsbTypes' /\ gudc'[g1] = udc0 /\ ugad'[udc0] = g1
    BY <1>1 DEF UsbTypes
  <2>2. (L!UdcPointsBack)'
    BY <1>1, <2>1 DEF L!UdcPointsBack
  <2>3. ServedWhole' /\ ListsSound'
    BY <1>1, <2>2 DEF ServedWhole, Whole, ListsSound, L!Tracked
  <2> QED
    BY <1>1, <2>1, <2>3
<1>2. CASE UNCHANGED <<fs, bound, live, listed, gudc, ugad, leaked>>
  BY <1>2 DEF UsbTypes, ServedWhole, Whole, ListsSound, L!Tracked, L!UdcPointsBack
<1> QED
  BY <1>1, <1>2 DEF L!EnableGadget, L!Fails, L!libVars

\* Pointers that are dropped on both sides still agree.
LEMMA PointersKept ==
    ASSUME LibInv, UNCHANGED <<fs, live, listed, leaked>>,
           bound' \in [{g1} -> {udc0, NoUdc}], bound'[g1] \in {bound[g1], NoUdc},
           UsbTypes', ugad'[udc0] = g1 => ugad[udc0] = g1 /\ gudc'[g1] = gudc[g1]
    PROVE  LibInv'
PROOF
<1>1. (L!UdcPointsBack)'
  BY DEF L!UdcPointsBack, LibInv, ListsSound
<1> QED
  BY <1>1 DEF LibInv, ServedWhole, Whole, ListsSound, L!Tracked

LEMMA DisableKeeps ==
    ASSUME LibInv, L!DisableGadget(g1)
    PROVE  LibInv' /\ UNCHANGED <<fs, live>> /\ (bound[g1] = NoUdc => bound'[g1] = NoUdc)
PROOF
<1>1. UsbTypes /\ (ugad[udc0] = g1 => gudc[g1] = udc0)
  BY DEF LibInv, ListsSound, L!UdcPointsBack
<1>2. CASE /\ bound' = [bound EXCEPT ![g1] = NoUdc] /\ gudc' = [gudc EXCEPT ![g1] = NoUdc]
           /\ ugad' = [v \in {udc0} |-> IF v = gudc[g1] THEN None ELSE ugad[v]]
           /\ UNCHANGED <<fs, live, listed, leaked>>
  <2>1. UsbTypes' /\ bound'[g1] = NoUdc /\ (ugad'[udc0] # g1)
    BY <1>1, <1>2, UsbGadgetAssumption DEF UsbTypes
  <2> QED
    BY <1>2, <2>1, PointersKept DEF UsbTypes
<1>3. CASE UNCHANGED <<fs, bound, live, listed, gudc, ugad, leaked>>
  <2>1. UsbTypes'
    BY <1>1, <1>3 DEF UsbTypes
  <2> QED
    BY <1>1, <1>3, <2>1, PointersKept DEF UsbTypes
<1> QED
  BY <1>2, <1>3 DEF L!DisableGadget, L!Fails, L!libVars

LEMMA QueriesKeep ==
    ASSUME LibInv, L!GetGadgetUdc(g1) \/ L!GetUdcGadget(udc0)
    PROVE  LibInv' /\ UNCHANGED <<fs, bound, live>>
PROOF
<1>1. UsbTypes /\ UNCHANGED <<fs, bound, live, listed, leaked>>
  BY DEF LibInv, L!GetGadgetUdc, L!GetUdcGadget
<1>2. CASE UNCHANGED <<gudc, ugad>>
  <2>1. UsbTypes'
    BY <1>1, <1>2 DEF UsbTypes
  <2> QED
    BY <1>1, <1>2, <2>1, PointersKept DEF UsbTypes
<1>3. CASE L!Detached(g1) /\ L!DropUdc(g1)
  <2>1. gudc[g1] = udc0
    BY <1>1, <1>3 DEF L!Detached, UsbTypes
  <2>2. ugad'[udc0] = None /\ UsbTypes'
    BY <1>1, <1>3, <2>1 DEF L!DropUdc, UsbTypes
  <2> QED
    BY <1>1, <2>2, PointersKept, UsbGadgetAssumption DEF UsbTypes
<1>4. CASE /\ ugad' = [ugad EXCEPT ![udc0] = None] \/ ugad' = [ugad EXCEPT ![gudc[g1]] = None, ![udc0] = None]
           /\ gudc' = gudc \/ gudc' = [gudc EXCEPT ![g1] = NoUdc]
  <2>1. ugad'[udc0] = None /\ UsbTypes'
    BY <1>1, <1>4 DEF UsbTypes
  <2> QED
    BY <1>1, <2>1, PointersKept, UsbGadgetAssumption DEF UsbTypes
<1> QED
  BY <1>2, <1>3, <1>4 DEF L!GetGadgetUdc, L!GetUdcGadget

LEMMA DetachKeeps ==
    ASSUME LibInv, L!KernelDetach(g1)
    PROVE  LibInv' /\ bound'[g1] = NoUdc /\ UNCHANGED <<fs, live>>
PROOF
<1>1. /\ UNCHANGED <<fs, live, listed, gudc, ugad, leaked>>
      /\ bound' = [bound EXCEPT ![g1] = NoUdc] /\ UsbTypes
  BY DEF L!KernelDetach, L!libVars, LibInv
<1>2. UsbTypes' /\ bound'[g1] = NoUdc
  BY <1>1 DEF UsbTypes
<1> QED
  BY <1>1, <1>2, PointersKept DEF UsbTypes

\* Without a state there are no lists and no pointers.
LEMMA NothingListed ==
    ASSUME live' = FALSE, listed' = {}, L!NoPointers, Closed(fs'), ServedWhole',
           bound' \in [{g1} -> {udc0, NoUdc}]
    PROVE  LibInv'
PROOF
<1>1. UsbTypes'
  BY DEF UsbTypes, L!NoPointers
<1>2. (L!UdcPointsBack)'
  BY UsbGadgetAssumption DEF L!UdcPointsBack, L!NoPointers
<1> QED
  BY <1>1, <1>2 DEF LibInv, ListsSound, Closed

LEMMA ExitKeeps ==
    ASSUME NEW tree, NEW udcs, Exit(tree, udcs), Closed(tree),
           udcs \in [{g1} -> {udc0, NoUdc}], udcs[g1] # NoUdc => Whole(tree),
           orphan => Gadget(g1) \in tree /\ udcs[g1] = NoUdc
    PROVE  UsbInv'
PROOF
<1>1. LibInv'
  BY NothingListed DEF Exit, ServedWhole
<1>2. Made(pc, fs)' /\ NotInUse' /\ OrphanStays'
  BY DEF Exit, Made, NotInUse, OrphanStays
<1> QED
  BY <1>1, <1>2 DEF UsbInv

\* The new node of each call of initUSB, and the node it makes with it.
LEMMA CallMakes ==
    ASSUME UsbInv, Call, pc # "enable"
    PROVE  /\ LibInv' /\ fs \subseteq fs' /\ UNCHANGED bound
           /\ ret' = "ok" => Made(After(pc), fs') /\ After(pc) \notin {"open", "off", "init", "lua", "run"}
PROOF
<1> USE DEF UsbInv
<1> DEFINE Makes(n, m) ==
      /\ MakeEffect(n, m) /\ Needs(n, listed) /\ live = TRUE
      /\ m = n \/ (Parent(m) = n /\ Kind(m) \in {"gs", "cs"})
<1>1. \A n, m : Makes(n, m) => /\ LibInv' /\ fs \subseteq fs' /\ UNCHANGED bound
                               /\ ret' = "ok" => n \in fs'
  BY MakeKeeps
<1>2. live \in BOOLEAN
  BY DEF LibInv, UsbTypes
<1>3. ASSUME NEW f, L!CreateFunction(g1, f)
      PROVE  Makes(Function(g1, f), Function(g1, f))
  <2>1. MakeEffect(Function(g1, f), Function(g1, f))
    BY <1>3, CreatesOne, SameNodes DEF L!CreateFunction, L!FunctionSteps
  <2>2. Needs(Function(g1, f), listed)
    BY <1>3, NodeFacts, SameNodes DEF L!CreateFunction, Needs
  <2> QED
    BY <1>2, <1>3, <2>1, <2>2 DEF L!CreateFunction
<1>4. ASSUME L!CreateConfig(g1, conf)
      PROVE  Makes(Config(g1, conf), CStrings(g1, conf))
  <2>1. Parent(CStrings(g1, conf)) = Config(g1, conf) /\ Kind(CStrings(g1, conf)) = "cs"
           /\ CStrings(g1, conf) # Config(g1, conf)
    BY NodeFacts
  <2>2. MakeEffect(Config(g1, conf), CStrings(g1, conf))
    BY <1>4, <2>1, CreatesTwo, SameNodes DEF L!CreateConfig, L!ConfigSteps
  <2>3. Needs(Config(g1, conf), listed)
    BY <1>4, NodeFacts, SameNodes DEF L!CreateConfig, Needs
  <2> QED
    BY <1>2, <1>4, <2>1, <2>2, <2>3 DEF L!CreateConfig
<1>5. ASSUME NEW f, L!AddConfigFunction(g1, conf, f)
      PROVE  Makes(Link(g1, conf, f), Link(g1, conf, f))
  <2>1. MakeEffect(Link(g1, conf, f), Link(g1, conf, f))
    BY <1>5, CreatesOne, SameNodes DEF L!AddConfigFunction, L!LinkSteps
  <2>2. Needs(Link(g1, conf, f), listed)
    BY <1>5, NodeFacts, SameNodes DEF L!AddConfigFunction, Needs
  <2> QED
    BY <1>2, <1>5, <2>1, <2>2 DEF L!AddConfigFunction
<1> HIDE DEF Makes
<1>6. CASE pc = "acm" /\ L!CreateFunction(g1, acm)
  <2>1. Makes(Function(g1, acm), Function(g1, acm))
    BY <1>3, <1>6
  <2> QED
    BY <1>1, <1>6, <2>1, AfterFacts DEF Made
<1>7. CASE pc = "hid" /\ L!CreateFunction(g1, hid)
  <2>1. Makes(Function(g1, hid), Function(g1, hid))
    BY <1>3, <1>7
  <2> QED
    BY <1>1, <1>7, <2>1, AfterFacts DEF Made
<1>8. CASE pc = "midi" /\ L!CreateFunction(g1, midi)
  <2>1. Makes(Function(g1, midi), Function(g1, midi))
    BY <1>3, <1>8
  <2> QED
    BY <1>1, <1>8, <2>1, AfterFacts DEF Made
<1>9. CASE pc = "config" /\ L!CreateConfig(g1, conf)
  <2>1. Makes(Config(g1, conf), CStrings(g1, conf))
    BY <1>4, <1>9
  <2> QED
    BY <1>1, <1>9, <2>1, AfterFacts DEF Made
<1>10. CASE pc = "acm.GS0" /\ L!AddConfigFunction(g1, conf, acm)
  <2>1. Makes(Link(g1, conf, acm), Link(g1, conf, acm))
    BY <1>5, <1>10
  <2> QED
    BY <1>1, <1>10, <2>1, AfterFacts DEF Made
<1>11. CASE pc = "keyboard" /\ L!AddConfigFunction(g1, conf, hid)
  <2>1. Makes(Link(g1, conf, hid), Link(g1, conf, hid))
    BY <1>5, <1>11
  <2> QED
    BY <1>1, <1>11, <2>1, AfterFacts DEF Made
<1>12. CASE pc = "midi_link" /\ L!AddConfigFunction(g1, conf, midi)
  <2>1. Makes(Link(g1, conf, midi), Link(g1, conf, midi))
    BY <1>5, <1>12
  <2> QED
    BY <1>1, <1>12, <2>1, AfterFacts DEF Made
<1> QED
  BY <1>6, <1>7, <1>8, <1>9, <1>10, <1>11, <1>12 DEF Call

LEMMA BuildKeeps ==
    ASSUME UsbInv, BuildGadget
    PROVE  UsbInv'
PROOF
<1> USE DEF UsbInv
<1>1. ~orphan /\ ~orphan' /\ Call /\ pc' = (IF ret' = "ok" THEN After(pc) ELSE "out2")
  BY DEF BuildGadget, OrphanStays, Call
<1>2. CASE pc # "enable"
  <2>1. /\ LibInv' /\ (ret' = "ok" => Made(After(pc), fs')
                        /\ After(pc) \notin {"open", "off", "init", "lua", "run"})
    BY <1>1, <1>2, CallMakes
  <2> QED
    BY <1>1, <2>1 DEF Made, NotInUse, OrphanStays
<1>3. CASE pc = "enable"
  <2>1. L!EnableGadget(g1, udc0) /\ pc' = "out2"
    BY <1>1, <1>3, AfterFacts DEF Call
  <2>2. Whole(fs)
    BY <1>3 DEF Made, Whole, Parts
  <2>3. LibInv'
    BY <2>1, <2>2, EnableKeeps
  <2> QED
    BY <1>1, <2>1, <2>3 DEF Made, NotInUse, OrphanStays
<1> QED
  BY <1>2, <1>3

LEMMA CreateKeeps ==
    ASSUME UsbInv, CreateGadget
    PROVE  UsbInv'
PROOF
<1> USE DEF UsbInv
<1>1. /\ pc = "gadget" /\ L!CreateGadget(g1) /\ UNCHANGED orphan
      /\ pc' = (IF ret' = "ok" THEN "acm" ELSE "out2")
  BY AfterFacts DEF CreateGadget
<1>2. /\ live = TRUE
      /\ Parent(Strings(g1)) = Gadget(g1) /\ Kind(Strings(g1)) = "gs"
      /\ Strings(g1) # Gadget(g1) /\ Needs(Gadget(g1), listed)
  BY <1>1, NodeFacts DEF L!CreateGadget, LibInv, UsbTypes, Needs
<1>3. MakeEffect(Gadget(g1), Strings(g1))
  BY <1>1, <1>2, CreatesTwo, SameNodes DEF L!CreateGadget, L!GadgetSteps
<1>4. /\ LibInv' /\ fs \subseteq fs' /\ UNCHANGED bound
      /\ ret' = "ok" => Gadget(g1) \notin fs
  BY <1>2, <1>3, MakeKeeps
<1>5. OrphanStays'
  BY <1>1, <1>4 DEF OrphanStays
<1> QED
  BY <1>1, <1>4, <1>5 DEF Made, NotInUse

\* A kill leaves at most what the call it interrupts was making.
LEMMA KillKeeps ==
    ASSUME UsbInv, Kill
    PROVE  UsbInv'
PROOF
<1> USE DEF UsbInv
<1>1. PICK k \in 0..Len(StepsOfCall) : Exit(fs \cup ToSet(SubSeq(StepsOfCall, 1, k)), bound)
  BY DEF Kill
<1> DEFINE tree == fs \cup ToSet(SubSeq(StepsOfCall, 1, k))
<1>2. ASSUME NEW n, NEW m, StepsOfCall = <<n, m>>, Parent(m) = n, Kind(m) \in {"gs", "cs"},
             Kind(n) \in {"g", "c"}, Kind(n) # "g" => Parent(n) \in fs
      PROVE  Closed(tree)
  <2>1. k \in {0, 1, 2}
    BY <1>2
  <2>2. ToSet(SubSeq(StepsOfCall, 1, k)) = {StepsOfCall[i] : i \in 1..k}
    BY FirstOf
  <2>3. /\ k = 0 => tree = fs
        /\ k = 1 => tree = fs \cup {n}
        /\ k = 2 => tree = (fs \cup {n}) \cup {m}
    <3>1. 1..0 = {} /\ 1..1 = {1} /\ 1..2 = {1, 2}
      OBVIOUS
    <3>2. StepsOfCall[1] = n /\ StepsOfCall[2] = m
      BY <1>2
    <3> QED
      BY <2>2, <3>1, <3>2
  <2> HIDE DEF tree
  <2>4. Closed(fs)
    BY DEF LibInv
  <2>5. Closed(fs \cup {n})
    BY <1>2, <2>4, ClosedAdd DEF Kinds
  <2>6. Closed((fs \cup {n}) \cup {m})
    BY <1>2, <2>5, ClosedAdd DEF Kinds
  <2> QED
    BY <2>1, <2>3, <2>4, <2>5, <2>6
<1>3. Closed(tree)
  <2>1. CASE StepsOfCall = <<>>
    <3>1. tree = fs
      BY <2>1 DEF ToSet
    <3> QED
      BY <3>1 DEF LibInv
  <2>2. CASE StepsOfCall = L!GadgetSteps(g1)
    BY <1>2, <2>2, NodeFacts, SameNodes DEF L!GadgetSteps
  <2>3. CASE StepsOfCall = L!ConfigSteps(g1, conf) /\ pc = "config"
    <3>1. Function(g1, acm) \in fs
      BY <2>3 DEF Made
    <3>2. Gadget(g1) \in fs
      BY <3>1, HeldStays DEF LibInv
    <3>3. StepsOfCall = <<Config(g1, conf), CStrings(g1, conf)>>
      BY <2>3, SameNodes DEF L!ConfigSteps
    <3>4. /\ Parent(CStrings(g1, conf)) = Config(g1, conf) /\ Kind(CStrings(g1, conf)) = "cs"
          /\ Parent(Config(g1, conf)) = Gadget(g1) /\ Kind(Config(g1, conf)) = "c"
      BY NodeFacts
    <3> HIDE DEF tree
    <3> QED
      BY <1>2, <3>2, <3>3, <3>4
  <2> QED
    BY <2>1, <2>2, <2>3 DEF StepsOfCall
<1>4. /\ bound \in [{g1} -> {udc0, NoUdc}] /\ (bound[g1] # NoUdc => Whole(tree))
      /\ orphan => Gadget(g1) \in tree /\ bound[g1] = NoUdc
  BY DEF LibInv, UsbTypes, ServedWhole, Whole, OrphanStays
<1> HIDE DEF tree
<1>5. Exit(tree, bound)
  BY <1>1 DEF tree
<1> QED
  BY <1>3, <1>4, <1>5, ExitKeeps

\* What another program does to the gadget through the library, one call.
LEMMA ToolKeeps ==
    ASSUME UsbInv, ToolCalls
    PROVE  UsbInv'
PROOF
<1> USE DEF UsbInv
<1>1. /\ pc = "tool" /\ pc' = "tool" /\ orphan' = (orphan /\ Gadget(g1) \in fs')
      /\ ToolRemoves \/ ToolAsks
  BY DEF ToolCalls
<1>2. LibInv' /\ (bound[g1] = NoUdc => bound'[g1] = NoUdc)
  <2>1. CASE ToolRemoves
    <3>1. \E order : L!Removes(order)
      BY <2>1 DEF ToolRemoves, L!RmStep, L!RmBinding, L!RmConfig, L!RmFunction, L!RmGadget
    <3>2. PICK gone : RmEffect(gone)
      BY <3>1, RemovesEffect
    <3> QED
      BY <3>2, RmKeeps
  <2>2. CASE L!DisableGadget(g1)
    BY <2>2, DisableKeeps
  <2>3. CASE L!GetGadgetUdc(g1) \/ L!GetUdcGadget(udc0)
    BY <2>3, QueriesKeep
  <2> QED
    BY <1>1, <2>1, <2>2, <2>3 DEF ToolAsks
<1>3. OrphanStays'
  BY <1>1, <1>2 DEF OrphanStays
<1> QED
  BY <1>1, <1>2, <1>3 DEF Made, NotInUse

\* Commands from outside, while no process is there.
LEMMA TeardownStep ==
    ASSUME UsbInv, Teardown
    PROVE  UsbInv'
PROOF
<1> USE DEF UsbInv
<1>1. /\ pc = "off" /\ fs' = TeardownRest(TeardownConfig(fs))
      /\ bound' = [bound EXCEPT ![g1] = NoUdc] /\ orphan' = (Gadget(g1) \in fs')
      /\ UNCHANGED <<live, listed, gudc, ugad, leaked, pc>>
  BY DEF Teardown, library
<1>2. Closed(fs')
  BY <1>1, TeardownKeeps DEF LibInv
<1>3. bound' \in [{g1} -> {udc0, NoUdc}] /\ bound'[g1] = NoUdc
  BY <1>1 DEF LibInv, UsbTypes
<1>4. ~live /\ listed = {} /\ Closed(listed)
  BY <1>1 DEF NotInUse, LibInv, ListsSound
<1>5. ListsSound'
  BY <1>1, <1>4 DEF LibInv, ListsSound, L!UdcPointsBack
<1>6. LibInv'
  BY <1>1, <1>2, <1>3, <1>5 DEF LibInv, UsbTypes, ServedWhole
<1> QED
  BY <1>1, <1>3, <1>4, <1>6 DEF Made, NotInUse, OrphanStays

LEMMA RebootStep ==
    ASSUME UsbInv, Reboot
    PROVE  UsbInv'
PROOF
<1> USE DEF UsbInv
<1>1. /\ fs' = {} /\ bound' = [x \in {g1} |-> NoUdc] /\ live' = FALSE /\ listed' = {}
      /\ L!NoPointers /\ pc' = "off" /\ orphan' = FALSE
  BY DEF Reboot
<1>2. /\ Closed(fs') /\ ServedWhole' /\ bound' \in [{g1} -> {udc0, NoUdc}]
  BY <1>1 DEF Closed, ServedWhole
<1>3. LibInv'
  BY <1>1, <1>2, NothingListed
<1> QED
  BY <1>1, <1>3 DEF Made, NotInUse, OrphanStays

\* The steps that leave USB alone.
LEMMA LibKept ==
    ASSUME LibInv, UNCHANGED <<fs, bound, live, listed, gudc, ugad, leaked>>
    PROVE  LibInv'
BY DEF LibInv, UsbTypes, ServedWhole, Whole, ListsSound, L!Tracked, L!UdcPointsBack

-----------------------------------------------------------------------------
(* The invariant *)

LEMMA UsbInit ==
    Init => UsbInv
PROOF
<1> SUFFICES ASSUME Init
             PROVE  UsbInv
  OBVIOUS
<1>1. /\ fs = {} /\ bound = [x \in {g1} |-> NoUdc] /\ live = FALSE /\ listed = {}
      /\ gudc = [x \in {g1} |-> NoUdc] /\ ugad = [u \in {udc0} |-> None]
      /\ pc = "off" /\ orphan = FALSE
  BY DEF Init, L!Init
<1>2. L!UdcPointsBack
  BY <1>1, UsbGadgetAssumption DEF L!UdcPointsBack
<1>3. LibInv
  BY <1>1, <1>2 DEF LibInv, UsbTypes, Closed, ServedWhole, ListsSound
<1> QED
  BY <1>1, <1>3 DEF UsbInv, Made, NotInUse, OrphanStays

LEMMA UsbNext ==
    UsbInv /\ [Next]_vars => UsbInv'
PROOF
<1> SUFFICES ASSUME UsbInv, [Next]_vars
             PROVE  UsbInv'
  OBVIOUS
<1> USE DEF UsbInv
<1>1. CASE Start
  <2>1. LibInv'
    BY <1>1, LibKept DEF Start, library
  <2> QED
    BY <1>1, <2>1 DEF Start, library, Made, NotInUse, OrphanStays
<1>2. CASE InitLibrary
  <2>1. LibInv' /\ UNCHANGED <<fs, bound>> /\ (ret' = "ok" <=> live')
    BY <1>2, InitLibraryEffect DEF InitLibrary
  <2> QED
    BY <1>2, <2>1 DEF InitLibrary, Made, NotInUse, OrphanStays
<1>3. CASE CreateGadget
  BY <1>3, CreateKeeps
<1>4. CASE BuildGadget
  BY <1>4, BuildKeeps
<1>5. CASE CleanState
  <2>1. /\ live' = FALSE /\ listed' = {} /\ L!NoPointers /\ UNCHANGED <<fs, bound, orphan>>
        /\ pc = "out2" /\ pc' = "open"
    BY <1>5 DEF CleanState, L!UsbgCleanup
  <2>2. Closed(fs') /\ ServedWhole' /\ bound' \in [{g1} -> {udc0, NoUdc}]
    BY <2>1 DEF LibInv, UsbTypes, ServedWhole, Whole
  <2>3. LibInv'
    BY <2>1, <2>2, NothingListed
  <2> QED
    BY <2>1, <2>3 DEF Made, NotInUse, OrphanStays
<1>6. ASSUME Exit(fs, bound)
      PROVE  UsbInv'
  BY <1>6, ExitKeeps DEF LibInv, UsbTypes, ServedWhole, OrphanStays
<1>7. CASE OpenOutputs
  <2>1. CASE /\ pc = "open" /\ bound[g1] # NoUdc /\ pc' = "lua"
             /\ UNCHANGED <<fs, bound, library, leaked, orphan>>
    <3>1. LibInv'
      BY <2>1, LibKept DEF library
    <3> QED
      BY <2>1, <3>1 DEF library, Made, NotInUse, OrphanStays
  <2> QED
    BY <1>6, <1>7, <2>1 DEF OpenOutputs
<1>8. CASE StartLua
  <2>1. CASE pc = "lua" /\ pc' = "run" /\ UNCHANGED <<fs, bound, library, leaked, orphan>>
    <3>1. LibInv'
      BY <2>1, LibKept DEF library
    <3> QED
      BY <2>1, <3>1 DEF library, Made, NotInUse, OrphanStays
  <2> QED
    BY <1>6, <1>8, <2>1 DEF StartLua
<1>9. CASE CleanupUSB
  <2>1. ~orphan
    BY <1>9 DEF CleanupUSB, OrphanStays
  <2>2. PICK tree \in {fs, fs \ {Strings(g1)}}, udcs \in {bound, [bound EXCEPT ![g1] = NoUdc]} :
           Exit(tree, udcs)
    BY <1>9 DEF CleanupUSB
  <2>3. Closed(fs \ {Strings(g1)})
    <3>1. \A m : Strings(g1) # Parent(m) /\ Strings(g1) # Function(m[2], m[4])
      BY ParentKinds, NodeFacts
    <3>2. \A m \in fs \ {Strings(g1)}, n \in {Strings(g1)} : m \notin Holds(fs, n)
      BY <3>1 DEF Holds
    <3> QED
      BY <3>2, ClosedWithout DEF LibInv
  <2>4. Closed(tree)
    BY <2>2, <2>3 DEF LibInv
  <2>5. udcs \in [{g1} -> {udc0, NoUdc}] /\ (udcs[g1] # NoUdc => bound[g1] # NoUdc)
    BY <2>2 DEF LibInv, UsbTypes
  <2>6. Whole(fs) => Whole(fs \ {Strings(g1)})
    BY NodeFacts DEF Whole
  <2>7. udcs[g1] # NoUdc => Whole(tree)
    BY <2>2, <2>5, <2>6 DEF LibInv, ServedWhole
  <2> QED
    BY <2>1, <2>2, <2>4, <2>5, <2>7, ExitKeeps
<1>10. CASE Kill
  BY <1>10, KillKeeps
<1>11. CASE ToolStart
  <2>1. LibInv' /\ UNCHANGED <<fs, bound>> /\ (ret' = "ok" <=> live')
    BY <1>11, InitLibraryEffect DEF ToolStart
  <2> QED
    BY <1>11, <2>1 DEF ToolStart, Made, NotInUse, OrphanStays
<1>12. CASE ToolCalls
  BY <1>12, ToolKeeps
<1>13. CASE Detach
  <2>1. LibInv' /\ bound'[g1] = NoUdc /\ UNCHANGED <<fs, live>>
    BY <1>13, DetachKeeps DEF Detach
  <2> QED
    BY <1>13, <2>1 DEF Detach, Made, NotInUse, OrphanStays
<1>14. CASE ToolEnd
  BY <1>6, <1>14 DEF ToolEnd
<1>15. CASE Teardown
  BY <1>15, TeardownStep
<1>16. CASE Reboot
  BY <1>16, RebootStep
<1>17. CASE UNCHANGED vars
  <2>1. LibInv'
    BY <1>17, LibKept DEF vars, library
  <2> QED
    BY <1>17, <2>1 DEF vars, library, Made, NotInUse, OrphanStays
<1> QED
  BY <1>1, <1>2, <1>3, <1>4, <1>5, <1>7, <1>8, <1>9, <1>10, <1>11, <1>12, <1>13, <1>14,
     <1>15, <1>16, <1>17 DEF Next, Process, Tool

\* The invariant of the theorems below: in every state the tree is closed, a gadget that
\* is served or about to be has all its parts, and the lists hang together.
THEOREM UsbInvariant == Spec => []UsbInv
BY UsbInit, UsbNext, PTL DEF Spec

\* Over any number of failing calls, kills, restarts, removals and teardowns, the host
\* never sees a gadget that lacks one of the functions initUSB gives it.
THEOREM NeverHalfServed == Spec => []HostSeesWhole
PROOF
<1>1. UsbInv => HostSeesWhole
  BY DEF UsbInv, LibInv, ServedWhole, Whole, Parts, HostSeesWhole
<1> QED
  BY <1>1, UsbInvariant, PTL

\* A gadget that a process left without a controller keeps every later process from
\* serving it, until it is torn down, removed or lost in a reboot.
THEOREM OrphansStayUnserved == Spec => []OrphanNeverServed
PROOF
<1>1. UsbInv => OrphanNeverServed
  BY DEF UsbInv, OrphanStays, OrphanNeverServed
<1> QED
  BY <1>1, UsbInvariant, PTL

\* The library's lists are the tree in configfs: whatever calls fail or stop half-way,
\* nothing listed is gone, nothing outlives what it belongs to, and without a failed
\* creation nothing is missed.
THEOREM ListsStaySound == Spec => []ListsMatchTree
PROOF
<1>1. UsbInv => ListsMatchTree
  <2> SUFFICES ASSUME UsbInv
               PROVE  ListsMatchTree
    OBVIOUS
  <2>1. L!ListedExists /\ L!NothingUnlisted /\ L!UdcPointsBack
    BY DEF UsbInv, LibInv, ListsSound, L!ListedExists, L!NothingUnlisted
  <2>2. L!ListsClosed
    BY SameNodes DEF UsbInv, LibInv, ListsSound, Closed, L!ListsClosed
  <2> QED
    BY <2>1, <2>2 DEF ListsMatchTree
<1> QED
  BY <1>1, UsbInvariant, PTL
-----------------------------------------------------------------------------
(* A recursive removal                                                     *)

\* The nodes of a removal's order, and that the kernel lets each of them go in turn.
Taken(order) == {order[i] : i \in 1..Len(order)}
Clears(order, tree) ==
  \A i \in 1..Len(order) : CanRemove(tree \ {order[j] : j \in 1..(i - 1)}, order[i])

LEMMA ClearsOne ==
    ASSUME NEW tree, NEW n, CanRemove(tree, n)
    PROVE  /\ Clears(<<n>>, tree) /\ Taken(<<n>>) = {n}
           /\ \A S : n \in S => <<n>> \in Seq(S)
PROOF
<1>1. Len(<<n>>) = 1 /\ <<n>>[1] = n /\ 1..1 = {1}
  OBVIOUS
<1>2. {<<n>>[j] : j \in 1..(1 - 1)} = {} /\ tree \ {} = tree
  OBVIOUS
<1> QED
  BY <1>1, <1>2 DEF Clears, Taken

LEMMA ClearsNone ==
    ASSUME NEW tree
    PROVE  /\ Clears(<<>>, tree) /\ Taken(<<>>) = {} /\ \A S : <<>> \in Seq(S)
BY DEF Clears, Taken

\* One removal after the other.
LEMMA ClearsBoth ==
    ASSUME NEW S, NEW a \in Seq(S), NEW b \in Seq(S), NEW tree,
           Clears(a, tree), Clears(b, tree \ Taken(a))
    PROVE  /\ a \o b \in Seq(S) /\ Clears(a \o b, tree)
           /\ Taken(a \o b) = Taken(a) \cup Taken(b)
PROOF
<1> DEFINE c == a \o b
           m == Len(a)
           n == Len(b)
<1>1. /\ m \in Nat /\ n \in Nat /\ c \in Seq(S) /\ Len(c) = m + n
      /\ \A i \in 1..m : c[i] = a[i]
      /\ \A i \in 1..n : c[m + i] = b[i]
  OBVIOUS
<1> HIDE DEF c, m, n
<1>2. \A i \in 1..(m + n) : i \in 1..m \/ (i - m \in 1..n /\ c[i] = b[i - m])
  <2> SUFFICES ASSUME NEW i \in 1..(m + n), i \notin 1..m
               PROVE  i - m \in 1..n /\ c[i] = b[i - m]
    OBVIOUS
  <2>1. i - m \in 1..n /\ m + (i - m) = i
    BY <1>1
  <2> QED
    BY <1>1, <2>1
<1>3. \A i \in 1..m : i \in 1..(m + n)
  BY <1>1
<1>4. \A i \in 1..n : m + i \in 1..(m + n)
  BY <1>1
<1>5. Taken(c) = Taken(a) \cup Taken(b)
  <2>1. ASSUME NEW x \in Taken(c) PROVE x \in Taken(a) \cup Taken(b)
    BY <1>1, <1>2 DEF Taken, m, n
  <2>2. ASSUME NEW x \in Taken(a) PROVE x \in Taken(c)
    BY <1>1, <1>3 DEF Taken, m
  <2>3. ASSUME NEW x \in Taken(b) PROVE x \in Taken(c)
    <3>1. PICK i \in 1..n : x = b[i]
      BY DEF Taken, n
    <3> QED
      BY <1>1, <1>4, <3>1 DEF Taken
  <2> QED
    BY <2>1, <2>2, <2>3
<1>6. ASSUME NEW i \in 1..(m + n)
      PROVE  CanRemove(tree \ {c[j] : j \in 1..(i - 1)}, c[i])
  <2>1. CASE i \in 1..m
    <3>1. \A j \in 1..(i - 1) : j \in 1..m
      BY <1>1, <2>1
    <3>2. {c[j] : j \in 1..(i - 1)} = {a[j] : j \in 1..(i - 1)}
      BY <1>1, <3>1
    <3> QED
      BY <1>1, <2>1, <3>2 DEF Clears, m
  <2>2. CASE i \notin 1..m
    <3> DEFINE k == i - m
    <3>1. k \in 1..n /\ c[i] = b[k] /\ i = m + k
      BY <1>1, <1>2, <2>2
    <3> HIDE DEF k
    <3>2. {c[j] : j \in 1..(i - 1)} = Taken(a) \cup {b[j] : j \in 1..(k - 1)}
      <4>1. ASSUME NEW j \in 1..(i - 1)
            PROVE  c[j] \in Taken(a) \cup {b[l] : l \in 1..(k - 1)}
        <5>1. j \in 1..(m + n) /\ j - m <= k - 1
          BY <1>1, <3>1
        <5>2. CASE j \in 1..m
          BY <1>1, <5>2 DEF Taken, m
        <5>3. CASE j - m \in 1..n /\ c[j] = b[j - m]
          <6>1. j - m \in 1..(k - 1)
            BY <1>1, <3>1, <5>1, <5>3
          <6> QED
            BY <5>3, <6>1
        <5> QED
          BY <1>2, <5>1, <5>2, <5>3
      <4>2. ASSUME NEW l \in 1..m PROVE a[l] \in {c[j] : j \in 1..(i - 1)}
        <5>1. l \in 1..(i - 1)
          BY <1>1, <3>1
        <5> QED
          BY <1>1, <5>1
      <4>3. ASSUME NEW l \in 1..(k - 1) PROVE b[l] \in {c[j] : j \in 1..(i - 1)}
        <5>1. m + l \in 1..(i - 1) /\ l \in 1..n
          BY <1>1, <3>1
        <5> QED
          BY <1>1, <5>1
      <4> QED
        BY <4>1, <4>2, <4>3 DEF Taken, m
    <3>3. tree \ {c[j] : j \in 1..(i - 1)} = (tree \ Taken(a)) \ {b[j] : j \in 1..(k - 1)}
      BY <3>2
    <3> QED
      BY <3>1, <3>3 DEF Clears, n
  <2> QED
    BY <2>1, <2>2
<1>7. Clears(c, tree)
  BY <1>1, <1>6 DEF Clears
<1> QED
  BY <1>1, <1>5, <1>7 DEF c

\* The nodes of a finite set, each once.
LEMMA InSomeOrder ==
    ASSUME NEW S, IsFiniteSet(S)
    PROVE  /\ L!SetToSeq(S) \in Seq(S) /\ Taken(L!SetToSeq(S)) = S
           /\ \A i, j \in 1..Len(L!SetToSeq(S)) :
                L!SetToSeq(S)[i] = L!SetToSeq(S)[j] => i = j
PROOF
<1>1. PICK n \in Nat : ExistsBijection(1..n, S)
  BY FS_NatBijection
<1>2. Cardinality(S) = n
  BY <1>1, FS_CountingElements
<1>3. PICK f \in [1..n -> S] : IsInjective(f) /\ \A x \in S : \E i \in 1..n : f[i] = x
  BY <1>1 DEF ExistsBijection, Bijection, Injection, Surjection, IsInjective
<1> DEFINE q == L!SetToSeq(S)
<1>4. q \in [1..n -> S] /\ IsInjective(q)
  <2>1. L!Cardinality(S) = n
    BY <1>2 DEF Cardinality, L!Cardinality
  <2>2. \A h : L!IsInjective(h) = IsInjective(h)
    BY DEF L!IsInjective, IsInjective
  <2>3. q = CHOOSE h \in [1..n -> S] : IsInjective(h)
    BY <2>1, <2>2 DEF L!SetToSeq
  <2> QED
    BY <1>3, <2>3
<1> HIDE DEF q
<1>5. q \in Seq(S) /\ Len(q) = n
  BY <1>4
<1>6. \A i, j \in 1..n : q[i] = q[j] => i = j
  BY <1>4 DEF IsInjective
<1>7. \A x \in S : \E i \in 1..n : q[i] = x
  <2>1. q \in Injection(1..n, S)
    BY <1>4 DEF Injection
  <2>2. IsFiniteSet(1..n) /\ Cardinality(1..n) = Cardinality(S)
    BY <1>2, FS_Interval
  <2>3. q \in Surjection(1..n, S)
    BY <2>1, <2>2, FS_Injection
  <2> QED
    BY <2>3 DEF Surjection
<1>8. Taken(q) = S
  BY <1>4, <1>5, <1>7 DEF Taken
<1> QED
  BY <1>5, <1>6, <1>8 DEF q

\* Nodes that nobody holds may go in any order.
LEMMA ClearsSet ==
    ASSUME NEW S, IsFiniteSet(S), NEW tree, S \subseteq tree, \A n \in S : Holds(tree, n) = {}
    PROVE  /\ Clears(L!SetToSeq(S), tree) /\ Taken(L!SetToSeq(S)) = S
           /\ L!SetToSeq(S) \in Seq(S)
PROOF
<1> DEFINE q == L!SetToSeq(S)
<1>1. /\ q \in Seq(S) /\ Taken(q) = S
      /\ \A i, j \in 1..Len(q) : q[i] = q[j] => i = j
  BY InSomeOrder
<1> HIDE DEF q
<1>2. ASSUME NEW i \in 1..Len(q) PROVE CanRemove(tree \ {q[j] : j \in 1..(i - 1)}, q[i])
  <2>1. Len(q) \in Nat /\ q[i] \in S
    BY <1>1
  <2>2. q[i] \notin {q[j] : j \in 1..(i - 1)}
    <3> SUFFICES ASSUME NEW j \in 1..(i - 1) PROVE q[j] # q[i]
      OBVIOUS
    <3>1. j \in 1..Len(q) /\ j # i
      BY <2>1
    <3> QED
      BY <1>1, <3>1
  <2>3. \A t : t \subseteq tree => Holds(t, q[i]) = {}
    BY <2>1 DEF Holds
  <2>4. tree \ {q[j] : j \in 1..(i - 1)} \subseteq tree
    OBVIOUS
  <2> QED
    BY <2>1, <2>2, <2>3, <2>4 DEF CanRemove
<1> QED
  BY <1>1, <1>2 DEF Clears, q

LEMMA OneInOrder ==
    ASSUME NEW x
    PROVE  L!SetToSeq({x}) = <<x>>
PROOF
<1> DEFINE q == L!SetToSeq({x})
<1>1. /\ q \in Seq({x}) /\ Taken(q) = {x}
      /\ \A i, j \in 1..Len(q) : q[i] = q[j] => i = j
  BY InSomeOrder, FS_Singleton
<1> HIDE DEF q
<1>2. PICK n \in Nat : n = Len(q) /\ 1..n # {}
  BY <1>1, LenProperties DEF Taken
<1>3. \A i \in 1..n : q[i] = x
  BY <1>1, <1>2
<1>4. n = 1
  <2>1. n > 1 => 1 \in 1..n /\ 2 \in 1..n
    OBVIOUS
  <2>2. n > 1 => q[1] = q[2]
    BY <1>3, <2>1
  <2>3. ~(n > 1)
    BY <1>1, <1>2, <2>1, <2>2
  <2>4. n # 0
    BY <1>2
  <2> QED
    BY <2>3, <2>4
<1>5. q = <<x>>
  <2>1. Len(q) = 1 /\ q[1] = x /\ q \in Seq({x})
    BY <1>1, <1>2, <1>3, <1>4
  <2>2. <<x>> \in Seq({x}) /\ Len(<<x>>) = 1 /\ <<x>>[1] = x
    OBVIOUS
  <2>3. \A i \in 1..Len(q) : q[i] = <<x>>[i]
    BY <2>1, <2>2
  <2> QED
    BY <2>1, <2>2, <2>3, SeqEqual
<1> QED
  BY <1>5 DEF q

LEMMA NoneInOrder == L!SetToSeq({}) = <<>>
PROOF
<1> DEFINE q == L!SetToSeq({})
<1>1. q \in Seq({})
  BY InSomeOrder, FS_EmptySet
<1> HIDE DEF q
<1>2. q = <<>>
  BY <1>1
<1> QED
  BY <1>2 DEF q

LEMMA FlatOne ==
    ASSUME NEW x
    PROVE  L!FlattenSeq(<<x>>) = x
PROOF
<1> DEFINE f == [i \in 1..1 |-> x]
           Flat(h) == h = [i \in 1..1 |-> IF i = 1 THEN <<x>>[i] ELSE h[i - 1] \o <<x>>[i]]
<1>1. Flat(f)
  OBVIOUS
<1>2. \A h : Flat(h) => h[1] = x
  OBVIOUS
<1>3. L!FlattenSeq(<<x>>) = (CHOOSE h : Flat(h))[1]
  <2>1. Len(<<x>>) = 1
    OBVIOUS
  <2> QED
    BY <2>1 DEF L!FlattenSeq
<1> HIDE DEF Flat
<1> QED
  BY <1>1, <1>2, <1>3

LEMMA FlatNone == L!FlattenSeq(<<>>) = <<>>
BY DEF L!FlattenSeq

-----------------------------------------------------------------------------
\* The nodes that there can be.
All == Nodes({g1}, Parts, {conf})

LEMMA AllNodes ==
    ASSUME NEW n \in All
    PROVE  /\ Kind(n) = "g" => n = Gadget(g1)
           /\ Kind(n) = "gs" => n = Strings(g1) /\ Parent(n) = Gadget(g1)
           /\ Kind(n) = "f" => n[2] = g1 /\ Parent(n) = Gadget(g1) /\ n \in {Function(g1, f) : f \in Parts}
           /\ Kind(n) = "c" => n = Config(g1, conf) /\ n[2] = g1 /\ n[3] = conf
           /\ Kind(n) = "cs" => n = CStrings(g1, conf) /\ Parent(n) = Config(g1, conf)
           /\ Kind(n) = "l" => n[2] = g1 /\ Parent(n) = Config(g1, conf)
                                /\ n \in {Link(g1, conf, f) : f \in Parts}
           /\ Kind(n) \in Kinds
BY DEF All, Nodes, Kind, Parent, Gadget, Strings, Function, Config, CStrings, Link, Kinds

LEMMA FewNodes ==
    ASSUME NEW tree \in SUBSET All
    PROVE  /\ IsFiniteSet({n \in tree : Kind(n) = "l"})
           /\ IsFiniteSet({n \in tree : Kind(n) = "f"})
PROOF
<1>1. ASSUME NEW a, NEW b, NEW c PROVE IsFiniteSet({a, b, c})
  <2>1. IsFiniteSet({} \cup {a}) /\ {} \cup {a} = {a}
    BY FS_EmptySet, FS_AddElement
  <2>2. IsFiniteSet({a} \cup {b}) /\ {a} \cup {b} = {a, b}
    BY <2>1, FS_AddElement
  <2>3. IsFiniteSet({a, b} \cup {c}) /\ {a, b} \cup {c} = {a, b, c}
    BY <2>2, FS_AddElement
  <2> QED
    BY <2>3
<1>2. IsFiniteSet({Link(g1, conf, acm), Link(g1, conf, hid), Link(g1, conf, midi)})
  BY <1>1
<1>3. IsFiniteSet({Function(g1, acm), Function(g1, hid), Function(g1, midi)})
  BY <1>1
<1>4. {n \in tree : Kind(n) = "l"} \in
        SUBSET {Link(g1, conf, acm), Link(g1, conf, hid), Link(g1, conf, midi)}
  BY AllNodes DEF Parts
<1>5. {n \in tree : Kind(n) = "f"} \in
        SUBSET {Function(g1, acm), Function(g1, hid), Function(g1, midi)}
  BY AllNodes DEF Parts
<1> QED
  BY <1>2, <1>3, <1>4, <1>5, FS_Subset

\* What holds a node, by its kind.
LEMMA Holders ==
    ASSUME NEW tree \in SUBSET All, NEW n
    PROVE  /\ Kind(n) \in {"l", "cs", "gs"} => Holds(tree, n) = {}
           /\ Kind(n) = "f" /\ (\A m \in tree : Kind(m) # "l") => Holds(tree, n) = {}
           /\ Kind(n) = "c" /\ (\A m \in tree : Kind(m) \notin {"l", "cs"}) => Holds(tree, n) = {}
           /\ Kind(n) = "g" /\ (\A m \in tree : m = n) => Holds(tree, n) = {}
PROOF
<1>1. \A m \in tree : Kind(m) \in Kinds
  BY AllNodes
<1>2. \A m : /\ Kind(m) \in {"cs", "l"} => Kind(Parent(m)) = "c"
             /\ Kind(m) \notin {"cs", "l"} => Kind(Parent(m)) = "g"
             /\ Kind(Function(m[2], m[4])) = "f"
  BY DEF Parent, Kind, Config, Gadget, Function
<1>3. \A m \in tree : m \in Holds(tree, n) =>
         m # n /\ (Parent(m) = n \/ (Kind(m) = "l" /\ n = Function(m[2], m[4])))
  BY DEF Holds
<1>4. Holds(tree, n) \subseteq tree
  BY DEF Holds
<1>5. CASE Kind(n) \in {"l", "cs", "gs"}
  BY <1>2, <1>3, <1>4, <1>5
<1>6. CASE Kind(n) = "f" /\ (\A m \in tree : Kind(m) # "l")
  BY <1>2, <1>3, <1>4, <1>6
<1>7. CASE Kind(n) = "c" /\ (\A m \in tree : Kind(m) \notin {"l", "cs"})
  BY <1>2, <1>3, <1>4, <1>7
<1>8. CASE Kind(n) = "g" /\ (\A m \in tree : m = n)
  BY <1>3, <1>4, <1>8
<1> QED
  BY <1>5, <1>6, <1>7, <1>8

\* A removal in that order is let go on to its end, and takes away these nodes.
Goes(order, tree, gone) == order \in Seq(All) /\ Clears(order, tree) /\ Taken(order) = gone

LEMMA GoesOn ==
    ASSUME NEW a, NEW b, NEW tree, NEW x, NEW y, Goes(a, tree, x), Goes(b, tree \ x, y)
    PROVE  Goes(a \o b, tree, x \cup y)
PROOF
<1>1. a \in Seq(All) /\ b \in Seq(All) /\ Clears(a, tree) /\ Clears(b, tree \ Taken(a))
  BY DEF Goes
<1>2. /\ a \o b \in Seq(All) /\ Clears(a \o b, tree)
      /\ Taken(a \o b) = Taken(a) \cup Taken(b)
  BY <1>1, ClearsBoth
<1> QED
  BY <1>2 DEF Goes

LEMMA OneGoes ==
    ASSUME NEW tree, NEW n \in All, CanRemove(tree, n)
    PROVE  Goes(<<n>>, tree, {n})
BY ClearsOne DEF Goes

\* Directories of strings that may be there.
LEMMA StringsGo ==
    ASSUME NEW tree \in SUBSET All, NEW n \in All, Kind(n) \in {"gs", "cs"}, n \in fs => n \in tree
    PROVE  Goes(L!StringsIn(n), tree, {n} \cap fs)
PROOF
<1>1. CASE n \in fs
  <2>1. L!StringsIn(n) = <<n>>
    BY <1>1 DEF L!StringsIn
  <2>2. CanRemove(tree, n)
    BY <1>1, Holders DEF CanRemove
  <2> QED
    BY <1>1, <2>1, <2>2, OneGoes
<1>2. CASE n \notin fs
  <2>1. L!StringsIn(n) = <<>>
    BY <1>2 DEF L!StringsIn
  <2> QED
    BY <1>2, <2>1, ClearsNone DEF Goes
<1> QED
  BY <1>1, <1>2

\* A set of nodes that nobody holds, as nodes.
LEMMA NodesGo ==
    ASSUME NEW S, IsFiniteSet(S), NEW tree \in SUBSET All, S \subseteq tree,
           \A n \in S : Holds(tree, n) = {}
    PROVE  Goes(L!SetToSeq(S), tree, S)
PROOF
<1>1. /\ Clears(L!SetToSeq(S), tree) /\ Taken(L!SetToSeq(S)) = S /\ L!SetToSeq(S) \in Seq(S)
  BY ClearsSet
<1> DEFINE q == L!SetToSeq(S)
<1>2. q \in Seq(S) /\ S \subseteq All
  BY <1>1
<1> HIDE DEF q
<1>3. q \in Seq(All)
  BY <1>2
<1> QED
  BY <1>1, <1>3 DEF q, Goes

\* usbg_rm_config takes the links of a configuration, its strings and its directory.
LEMMA ConfigClears ==
    ASSUME fs \in SUBSET All, listed = L!Tracked(fs), Config(g1, conf) \in fs
    PROVE  Goes(L!RmConfigOrder(g1, conf), fs, {n \in fs : Kind(n) \in {"l", "cs", "c"}})
PROOF
<1> DEFINE links == {n \in fs : Kind(n) = "l"}
           a == L!LinksOf(g1, conf)
           b == L!StringsIn(CStrings(g1, conf))
           t1 == fs \ links
           t2 == t1 \ ({CStrings(g1, conf)} \cap fs)
<1>1. a = L!SetToSeq(links)
  <2>1. {n \in listed : L!Kind(n) = "l" /\ L!Parent(n) = L!Config(g1, conf)} = links
    BY SameNodes, AllNodes DEF L!Tracked
  <2> QED
    BY <2>1 DEF L!LinksOf
<1>2. \A n \in links : Holds(fs, n) = {}
  BY Holders
<1>3. Goes(a, fs, links)
  BY <1>1, <1>2, FewNodes, NodesGo
<1>4. CStrings(g1, conf) \in All /\ Config(g1, conf) \in All
  BY DEF All, Nodes
<1>5. /\ t1 \in SUBSET All
      /\ CStrings(g1, conf) \in fs => CStrings(g1, conf) \in t1
  BY NodeFacts
<1>6. Goes(b, t1, {CStrings(g1, conf)} \cap fs)
  <2>1. Kind(CStrings(g1, conf)) = "cs"
    BY NodeFacts
  <2> HIDE DEF t1
  <2> QED
    BY <1>4, <1>5, <2>1, StringsGo
<1>7. Goes(a \o b, fs, links \cup ({CStrings(g1, conf)} \cap fs))
  BY <1>3, <1>6, GoesOn
<1>8. CanRemove(t2, Config(g1, conf))
  <2>1. Config(g1, conf) \in t2
    BY NodeFacts
  <2>2. t2 \in SUBSET All /\ \A m \in t2 : Kind(m) \notin {"l", "cs"}
    BY AllNodes
  <2> QED
    BY <2>1, <2>2, NodeFacts, Holders DEF CanRemove
<1>9. Goes(<<Config(g1, conf)>>, t2, {Config(g1, conf)})
  BY <1>4, <1>8, OneGoes
<1>10. t2 = fs \ (links \cup ({CStrings(g1, conf)} \cap fs))
  OBVIOUS
<1> DEFINE ab == a \o b
<1> HIDE DEF ab
<1>11. Goes(ab \o <<Config(g1, conf)>>, fs,
            links \cup ({CStrings(g1, conf)} \cap fs) \cup {Config(g1, conf)})
  BY <1>7, <1>9, <1>10, GoesOn DEF ab
<1>12. links \cup ({CStrings(g1, conf)} \cap fs) \cup {Config(g1, conf)}
         = {n \in fs : Kind(n) \in {"l", "cs", "c"}}
  BY AllNodes, NodeFacts
<1>13. L!RmConfigOrder(g1, conf) = ab \o <<Config(g1, conf)>>
  BY SameNodes DEF L!RmConfigOrder, a, b, ab
<1> QED
  BY <1>11, <1>12, <1>13

\* ... and usbg_rm_gadget those of its configurations first.
LEMMA ConfigsClear ==
    ASSUME fs \in SUBSET All, Closed(fs), listed = L!Tracked(fs)
    PROVE  Goes(L!FlattenSeq([i \in DOMAIN L!OfKind("c", g1) |->
                                L!RmConfigOrder(g1, L!OfKind("c", g1)[i][3])]),
                fs, {n \in fs : Kind(n) \in {"l", "cs", "c"}})
PROOF
<1> DEFINE cs == {n \in listed : L!Kind(n) = "c" /\ n[2] = g1}
           in == L!OfKind("c", g1)
           parts == [i \in DOMAIN in |-> L!RmConfigOrder(g1, in[i][3])]
<1>1. in = L!SetToSeq(cs)
  BY DEF L!OfKind
<1>2. CASE Config(g1, conf) \in fs
  <2>1. cs = {Config(g1, conf)} /\ Config(g1, conf)[3] = conf
    <3>1. Config(g1, conf) \in cs
      BY <1>2, NodeFacts, SameNodes DEF L!Tracked, Config
    <3>2. \A n \in cs : n = Config(g1, conf)
      BY AllNodes, SameNodes DEF L!Tracked
    <3>3. Config(g1, conf)[3] = conf
      BY DEF Config
    <3> QED
      BY <3>1, <3>2, <3>3
  <2>2. in = <<Config(g1, conf)>>
    BY <1>1, <2>1, OneInOrder
  <2>3. parts = <<L!RmConfigOrder(g1, conf)>>
    BY <2>1, <2>2
  <2> QED
    BY <1>2, <2>3, FlatOne, ConfigClears
<1>3. CASE Config(g1, conf) \notin fs
  <2>1. cs = {} /\ {n \in fs : Kind(n) \in {"l", "cs", "c"}} = {}
    <3>1. \A n \in fs : Kind(n) \notin {"l", "cs", "c"}
      BY <1>3, AllNodes DEF Closed
    <3> QED
      BY <3>1, SameNodes DEF L!Tracked
  <2>2. in = <<>>
    BY <1>1, <2>1, NoneInOrder
  <2>3. parts = <<>>
    BY <2>2
  <2> QED
    BY <2>1, <2>3, FlatNone, ClearsNone DEF Goes
<1> QED
  BY <1>2, <1>3

LEMMA GadgetClears ==
    ASSUME fs \in SUBSET All, Closed(fs), listed = L!Tracked(fs), Gadget(g1) \in fs
    PROVE  Goes(L!RmGadgetOrder(g1), fs, fs)
PROOF
<1> DEFINE a == L!FlattenSeq([i \in DOMAIN L!OfKind("c", g1) |->
                                L!RmConfigOrder(g1, L!OfKind("c", g1)[i][3])])
           b == L!OfKind("f", g1)
           c == L!StringsIn(Strings(g1))
           funs == {n \in fs : Kind(n) = "f"}
           cons == {n \in fs : Kind(n) \in {"l", "cs", "c"}}
           t1 == fs \ cons
           t2 == t1 \ funs
           t3 == t2 \ ({Strings(g1)} \cap fs)
<1>1. Goes(a, fs, cons)
  BY ConfigsClear
<1>2. /\ t1 \in SUBSET All /\ \A m \in t1 : Kind(m) # "l"
      /\ funs \subseteq t1 /\ t2 \in SUBSET All
  OBVIOUS
<1>3. b = L!SetToSeq(funs)
  <2>1. {n \in listed : L!Kind(n) = "f" /\ n[2] = g1} = funs
    BY SameNodes, AllNodes DEF L!Tracked
  <2> QED
    BY <2>1 DEF L!OfKind
<1>4. \A n \in funs : Holds(t1, n) = {}
  BY <1>2, Holders
<1>5. Goes(b, t1, funs)
  BY <1>2, <1>3, <1>4, FewNodes, NodesGo
<1> HIDE DEF a, b
<1>6. Goes(a \o b, fs, cons \cup funs)
  BY <1>1, <1>5, GoesOn
<1>7. Strings(g1) \in All /\ Gadget(g1) \in All
  BY DEF All, Nodes
<1>8. Strings(g1) \in fs => Strings(g1) \in t2
  BY NodeFacts
<1>9. Goes(c, t2, {Strings(g1)} \cap fs)
  <2>1. Kind(Strings(g1)) = "gs"
    BY NodeFacts
  <2> HIDE DEF t2
  <2> QED
    BY <1>2, <1>7, <1>8, <2>1, StringsGo
<1>10. t2 = fs \ (cons \cup funs)
  OBVIOUS
<1> DEFINE ab == a \o b
<1> HIDE DEF c, ab
<1>11. Goes(ab \o c, fs, (cons \cup funs) \cup ({Strings(g1)} \cap fs))
  BY <1>6, <1>9, <1>10, GoesOn DEF ab
<1>12. t3 = {Gadget(g1)}
  <2>1. Gadget(g1) \in t3
    BY NodeFacts
  <2>2. \A n \in t3 : n = Gadget(g1)
    <3> SUFFICES ASSUME NEW n \in t3 PROVE n = Gadget(g1)
      OBVIOUS
    <3>1. n \in All /\ Kind(n) \notin {"l", "cs", "c", "f"} /\ n # Strings(g1)
      OBVIOUS
    <3> QED
      BY <3>1, AllNodes DEF Kinds
  <2> QED
    BY <2>1, <2>2
<1>13. CanRemove(t3, Gadget(g1))
  <2>1. t3 \in SUBSET All /\ Gadget(g1) \in t3 /\ \A m \in t3 : m = Gadget(g1)
    BY <1>7, <1>12
  <2> HIDE DEF t3
  <2> QED
    BY <2>1, NodeFacts, Holders DEF CanRemove
<1>14. t3 = fs \ ((cons \cup funs) \cup ({Strings(g1)} \cap fs))
  OBVIOUS
<1>15. Goes(<<Gadget(g1)>>, t3, {Gadget(g1)})
  BY <1>7, <1>13, OneGoes
<1> DEFINE abc == ab \o c
<1> HIDE DEF abc
<1>16. Goes(abc \o <<Gadget(g1)>>, fs,
            ((cons \cup funs) \cup ({Strings(g1)} \cap fs)) \cup {Gadget(g1)})
  BY <1>11, <1>14, <1>15, GoesOn DEF abc
<1>17. ((cons \cup funs) \cup ({Strings(g1)} \cap fs)) \cup {Gadget(g1)} = fs
  BY <1>12, <1>14
<1>18. L!RmGadgetOrder(g1) = abc \o <<Gadget(g1)>>
  BY SameNodes DEF L!RmGadgetOrder, a, b, c, ab, abc
<1> QED
  BY <1>16, <1>17, <1>18

-----------------------------------------------------------------------------
\* Between the calls of a tool, the lists have all of the tree but its strings, even if
\* an earlier process left something unlisted; and a removal that stops without a
\* failing call can only have been refused.
TreeInv ==
  /\ fs \in SUBSET All /\ faults \in Nat
  /\ pc = "tool" => listed = L!Tracked(fs)

LEMMA GadgetGoes ==
    ASSUME TreeInv, Closed(fs), pc = "tool", faults' = faults, L!RmGadget(g1, TRUE)
    PROVE  fs' = {}
PROOF
<1> DEFINE order == L!RmGadgetOrder(g1)
<1>1. L!Removes(order) /\ Gadget(g1) \in fs
  BY SameNodes DEF L!RmGadget, TreeInv, L!Tracked
<1>2. Goes(order, fs, fs)
  BY <1>1, GadgetClears DEF TreeInv
<1> HIDE DEF order
<1> DEFINE Still(k) == fs \ {order[i] : i \in 1..k}
           Allowed  == {i \in 1..Len(order) : L!CanRemove(Still(i - 1), order[i])}
<1>3. PICK k \in 0..Len(order) :
         /\ \/ k = Len(order)
            \/ k < Len(order) /\ k + 1 \notin Allowed
            \/ k < Len(order) /\ L!Fault
         /\ fs' = fs \ {order[i] : i \in 1..k}
  BY <1>1 DEF L!Removes
<1>4. Len(order) \in Nat /\ k \in Nat /\ Taken(order) = fs /\ Clears(order, fs)
  BY <1>2 DEF Goes
<1>5. ~L!Fault
  BY DEF L!Fault, TreeInv
<1>6. ASSUME k < Len(order) PROVE k + 1 \in Allowed
  <2>1. k + 1 \in 1..Len(order)
    BY <1>4, <1>6
  <2>2. CanRemove(Still((k + 1) - 1), order[k + 1])
    BY <1>4, <2>1 DEF Clears
  <2> QED
    BY <2>1, <2>2, SameTrees
<1>7. k = Len(order)
  BY <1>3, <1>5, <1>6
<1> QED
  BY <1>3, <1>4, <1>7 DEF Taken

-----------------------------------------------------------------------------
\* What a creating call makes is one of the nodes.
LEMMA CreatesIn ==
    ASSUME fs \in SUBSET All, faults \in Nat, NEW duplicate, NEW steps \in Seq(All),
           L!Creates(duplicate, steps)
    PROVE  fs' \in SUBSET All /\ faults' \in Nat
PROOF
<1>1. faults' \in Nat
  BY DEF L!Creates, L!Fault
<1>2. Len(steps) \in Nat /\ \A i \in 1..Len(steps) : steps[i] \in All
  OBVIOUS
<1>3. L!ToSet(steps) \subseteq All
  BY <1>2 DEF L!ToSet
<1>4. \A k \in 0..Len(steps) : L!ToSet(SubSeq(steps, 1, k)) \subseteq All
  <2> SUFFICES ASSUME NEW k \in 0..Len(steps)
               PROVE  L!ToSet(SubSeq(steps, 1, k)) \subseteq All
    OBVIOUS
  <2>1. L!ToSet(SubSeq(steps, 1, k)) = {steps[i] : i \in 1..k}
    BY FirstOf
  <2> QED
    BY <1>2, <2>1
<1>5. \/ fs' = fs \/ fs' = fs \cup L!ToSet(steps)
      \/ \E k \in 0..Len(steps) : fs' \subseteq fs \cup L!ToSet(SubSeq(steps, 1, k))
  BY DEF L!Creates
<1> QED
  BY <1>1, <1>3, <1>4, <1>5

LEMMA StepsIn ==
    /\ L!GadgetSteps(g1) \in Seq(All) /\ Len(L!GadgetSteps(g1)) = 2
    /\ L!ConfigSteps(g1, conf) \in Seq(All) /\ Len(L!ConfigSteps(g1, conf)) = 2
    /\ \A f \in Parts : /\ L!FunctionSteps(g1, f) \in Seq(All) /\ Len(L!FunctionSteps(g1, f)) = 1
                        /\ L!LinkSteps(g1, conf, f) \in Seq(All) /\ Len(L!LinkSteps(g1, conf, f)) = 1
PROOF
<1>1. /\ Gadget(g1) \in All /\ Strings(g1) \in All /\ Config(g1, conf) \in All
      /\ CStrings(g1, conf) \in All
      /\ \A f \in Parts : Function(g1, f) \in All /\ Link(g1, conf, f) \in All
  BY DEF All, Nodes
<1> HIDE DEF All
<1> QED
  BY <1>1, SameNodes DEF L!GadgetSteps, L!ConfigSteps, L!FunctionSteps, L!LinkSteps

LEMMA RemovesIn ==
    ASSUME fs \in SUBSET All, faults \in Nat, NEW order, L!Removes(order)
    PROVE  /\ fs' \in SUBSET All /\ faults' \in Nat
           /\ listed = L!Tracked(fs) => listed' = L!Tracked(fs')
PROOF
<1>1. faults' \in Nat
  BY DEF L!Removes, L!Fault
<1>2. PICK gone : fs' = fs \ gone /\ listed' = listed \ gone
  BY DEF L!Removes
<1> QED
  BY <1>1, <1>2 DEF L!Tracked

LEMMA InitIn ==
    ASSUME TreeInv, L!UsbgInit
    PROVE  fs' = fs /\ faults' \in Nat /\ (ret' = "ok" => listed' = L!Tracked(fs))
PROOF
<1>1. fs' = fs /\ faults' \in Nat
  BY DEF L!UsbgInit, L!Fault, L!Fails, TreeInv
<1>2. CASE listed' = L!usbg_parse_gadgets(fs)
  <2>1. \A n \in fs : Kind(n) \in Kinds
    BY AllNodes DEF TreeInv
  <2>2. L!usbg_parse_gadgets(fs) = {n \in fs : Kind(n) \in {"g", "f", "c", "l"}}
    BY SameNodes DEF L!usbg_parse_gadgets, L!usbg_parse_functions, L!usbg_parse_configs,
                     L!usbg_parse_config_bindings
  <2>3. L!Tracked(fs) = {n \in fs : Kind(n) \in {"g", "f", "c", "l"}}
    BY <2>1, SameNodes DEF L!Tracked, Kinds
  <2> QED
    BY <1>1, <1>2, <2>2, <2>3
<1>3. CASE ret' = "error"
  BY <1>1, <1>3
<1> QED
  BY <1>2, <1>3 DEF L!UsbgInit, L!Fails

LEMMA ExitIn ==
    ASSUME NEW tree \in SUBSET All, NEW udcs, Exit(tree, udcs), faults' \in Nat
    PROVE  TreeInv'
BY DEF Exit, TreeInv

LEMMA CallIn ==
    ASSUME TreeInv, Call
    PROVE  fs' \in SUBSET All /\ faults' \in Nat
PROOF
<1>0. fs \in SUBSET All /\ faults \in Nat
  BY DEF TreeInv
<1>1. ASSUME NEW f \in Parts, L!CreateFunction(g1, f) \/ L!AddConfigFunction(g1, conf, f)
      PROVE  fs' \in SUBSET All /\ faults' \in Nat
  <2>1. L!FunctionSteps(g1, f) \in Seq(All) /\ L!LinkSteps(g1, conf, f) \in Seq(All)
    BY StepsIn
  <2>2. CASE L!CreateFunction(g1, f)
    <3>1. PICK d : L!Creates(d, L!FunctionSteps(g1, f))
      BY <2>2 DEF L!CreateFunction
    <3> QED
      BY ONLY <1>0, <2>1, <3>1, CreatesIn
  <2>3. CASE L!AddConfigFunction(g1, conf, f)
    <3>1. PICK d : L!Creates(d, L!LinkSteps(g1, conf, f))
      BY <2>3 DEF L!AddConfigFunction
    <3> QED
      BY ONLY <1>0, <2>1, <3>1, CreatesIn
  <2> QED
    BY <1>1, <2>2, <2>3
<1>2. CASE L!CreateConfig(g1, conf)
  <2>1. PICK d : L!Creates(d, L!ConfigSteps(g1, conf))
    BY <1>2 DEF L!CreateConfig
  <2>2. L!ConfigSteps(g1, conf) \in Seq(All)
    BY StepsIn
  <2> QED
    BY ONLY <1>0, <2>1, <2>2, CreatesIn
<1>3. CASE L!EnableGadget(g1, udc0)
  <2>1. fs' = fs
    BY <1>3 DEF L!EnableGadget, L!Fails
  <2>2. faults' = faults \/ L!Fault
    BY <1>3 DEF L!EnableGadget, L!Fails
  <2>3. faults' \in Nat
    BY <1>0, <2>2 DEF L!Fault
  <2> QED
    BY <1>0, <2>1, <2>3
<1>4. acm \in Parts /\ hid \in Parts /\ midi \in Parts
  BY DEF Parts
<1> QED
  BY <1>1, <1>2, <1>3, <1>4 DEF Call

LEMMA ToolIn ==
    ASSUME TreeInv, ToolCalls
    PROVE  TreeInv'
PROOF
<1>1. pc = "tool" /\ pc' = "tool" /\ (ToolRemoves \/ ToolAsks)
  BY DEF ToolCalls
<1>2. fs \in SUBSET All /\ faults \in Nat /\ listed = L!Tracked(fs)
  BY <1>1 DEF TreeInv
<1>3. CASE ToolRemoves
  <2>1. PICK order : L!Removes(order)
    BY <1>3 DEF ToolRemoves, L!RmStep, L!RmBinding, L!RmConfig, L!RmFunction, L!RmGadget
  <2> QED
    BY <1>2, <2>1, RemovesIn DEF TreeInv
<1>4. CASE ToolAsks
  <2>1. fs' = fs /\ listed' = listed
    BY <1>4 DEF ToolAsks, L!DisableGadget, L!GetGadgetUdc, L!GetUdcGadget, L!Fails, L!libVars
  <2>2. faults' = faults \/ L!Fault
    BY <1>4 DEF ToolAsks, L!DisableGadget, L!GetGadgetUdc, L!GetUdcGadget, L!UdcUnread
  <2>3. faults' \in Nat
    BY <1>2, <2>2 DEF L!Fault
  <2> QED
    BY <1>2, <2>1, <2>3 DEF TreeInv, L!Tracked
<1> QED
  BY <1>1, <1>3, <1>4

LEMMA KillIn ==
    ASSUME TreeInv, Kill
    PROVE  TreeInv'
PROOF
<1> DEFINE steps == StepsOfCall
<1>1. PICK k \in 0..Len(steps) : Exit(fs \cup ToSet(SubSeq(steps, 1, k)), bound)
  BY DEF Kill
<1>2. steps \in Seq(All)
  BY StepsIn DEF StepsOfCall
<1> HIDE DEF steps
<1>3. ToSet(SubSeq(steps, 1, k)) \subseteq All
  <2>1. ToSet(SubSeq(steps, 1, k)) = {steps[i] : i \in 1..k}
    <3>1. k \in Int
      OBVIOUS
    <3> QED
      BY <3>1, FirstOf
  <2>2. \A i \in 1..k : steps[i] \in All
    BY <1>2
  <2> QED
    BY <2>1, <2>2
<1>4. faults' \in Nat
  BY DEF Kill, TreeInv
<1> QED
  BY <1>1, <1>3, <1>4, ExitIn DEF TreeInv

LEMMA TreeInit == Init => TreeInv
BY UsbGadgetAssumption DEF Init, L!Init, TreeInv

LEMMA TreeNext == TreeInv /\ [Next]_vars => TreeInv'
PROOF
<1> SUFFICES ASSUME TreeInv, [Next]_vars
             PROVE  TreeInv'
  OBVIOUS
<1>0. fs \in SUBSET All /\ faults \in Nat
  BY DEF TreeInv
<1>1. CASE Start
  BY <1>1 DEF Start, library, TreeInv
<1>2. CASE InitLibrary
  <2>1. fs' = fs /\ faults' \in Nat
    BY <1>2, InitIn DEF InitLibrary
  <2>2. pc' # "tool"
    BY <1>2 DEF InitLibrary
  <2> QED
    BY <1>0, <2>1, <2>2 DEF TreeInv
<1>3. CASE CreateGadget
  <2>1. PICK d : L!Creates(d, L!GadgetSteps(g1))
    BY <1>3 DEF CreateGadget, L!CreateGadget
  <2>2. pc' \in {"acm", "out2"}
    BY <1>3, AfterFacts DEF CreateGadget
  <2>3. L!GadgetSteps(g1) \in Seq(All)
    BY StepsIn
  <2>4. fs' \in SUBSET All /\ faults' \in Nat
    BY ONLY <1>0, <2>1, <2>3, CreatesIn
  <2> QED
    BY <2>2, <2>4 DEF TreeInv
<1>4. CASE BuildGadget
  <2>1. pc' # "tool"
    BY <1>4, AfterFacts DEF BuildGadget, Call
  <2>2. Call
    BY <1>4 DEF BuildGadget
  <2> QED
    BY <2>1, <2>2, CallIn DEF TreeInv
<1>5. CASE CleanState
  BY <1>5 DEF CleanState, L!UsbgCleanup, TreeInv
<1>6. CASE OpenOutputs
  BY <1>6, ExitIn DEF OpenOutputs, TreeInv
<1>7. CASE StartLua
  <2>1. faults' \in Nat
    BY <1>0, <1>7 DEF StartLua, L!Fault
  <2> QED
    BY <1>7, <2>1, ExitIn DEF StartLua, TreeInv
<1>8. CASE CleanupUSB
  <2>1. PICK tree \in {fs, fs \ {Strings(g1)}}, udcs \in {bound, [bound EXCEPT ![g1] = NoUdc]} :
          Exit(tree, udcs)
    BY <1>8 DEF CleanupUSB
  <2>2. faults' \in Nat
    BY <1>8 DEF CleanupUSB, TreeInv
  <2> QED
    BY <1>0, <2>1, <2>2, ExitIn
<1>9. CASE Kill
  BY <1>9, KillIn
<1>10. CASE ToolStart
  BY <1>0, <1>10, InitIn DEF ToolStart, TreeInv, L!Tracked
<1>11. CASE ToolCalls
  BY <1>11, ToolIn
<1>12. CASE Detach
  BY <1>12 DEF Detach, L!KernelDetach, L!libVars, TreeInv, L!Tracked
<1>13. CASE ToolEnd
  BY <1>13, ExitIn DEF ToolEnd, TreeInv
<1>14. CASE Teardown
  <2>1. fs' = TeardownRest(TeardownConfig(fs)) /\ pc' = "off" /\ faults' = faults
    BY <1>14 DEF Teardown
  <2>2. \A tree, nodes : TryRemove(tree, nodes) \subseteq tree
    BY DEF TryRemove
  <2>3. fs' \subseteq fs
    BY <2>1, <2>2 DEF TeardownRest, TeardownConfig
  <2> QED
    BY <1>0, <2>1, <2>3 DEF TreeInv
<1>15. CASE Reboot
  BY <1>15 DEF Reboot, TreeInv
<1>16. CASE UNCHANGED vars
  BY <1>16 DEF vars, library, TreeInv, L!Tracked
<1> QED
  BY <1>1, <1>2, <1>3, <1>4, <1>5, <1>6, <1>7, <1>8, <1>9, <1>10, <1>11, <1>12, <1>13, <1>14,
     <1>15, <1>16 DEF Next, Process, Tool

\* Whatever failed calls, kills and single removals have left of the gadget, a recursive
\* removal of the library takes it away whole unless a kernel call fails.
THEOREM RecursiveRemovalIsWhole == Spec => RecurseRemovesAll
PROOF
<1>1. UsbInv /\ TreeInv /\ [Next]_vars =>
        [pc = "tool" /\ faults' = faults /\ L!RmGadget(g1, TRUE) => fs' = {}]_vars
  BY GadgetGoes DEF UsbInv, LibInv
<1>2. Spec => []TreeInv
  BY TreeInit, TreeNext, PTL DEF Spec
<1> QED
  BY <1>1, <1>2, UsbInvariant, PTL DEF Spec, RecurseRemovesAll
=============================================================================

--------------------------- MODULE LuaRuntimeProofs ---------------------------
(***************************************************************************)
(* Proofs about the stack of Lua under the firmware (LuaStack) and about   *)
(* its collector (LuaGc).                                                  *)
(***************************************************************************)
EXTENDS LuaRuntime, FiniteSetTheorems, SequenceTheorems, WellFoundedInduction, TLAPS

-----------------------------------------------------------------------------
\* A nonempty set of numbers below a bound has a largest one: the least bound.
LEMMA LargestExists ==
  ASSUME NEW s \in SUBSET Nat, s # {}, NEW b \in Nat, \A x \in s : x <= b
  PROVE  \E m \in s : \A k \in s : k <= m
PROOF
<1> DEFINE bounds == {u \in Nat : \A x \in s : x <= u}
<1>1. b \in bounds OBVIOUS
<1>2. PICK u \in bounds : \A y \in bounds : ~(<<y, u>> \in OpToRel(<, Nat))
  <2>1. bounds \subseteq Nat /\ bounds # {} BY <1>1
  <2> QED BY <2>1, WFMin, NatLessThanWellFounded, Zenon
<1>3. u \in bounds /\ \A y \in bounds : ~(y < u)
  <2>1. bounds \subseteq Nat OBVIOUS
  <2> HIDE DEF bounds
  <2> QED BY <1>2, <2>1, Zenon DEF OpToRel
<1>4. u \in s
  <2>1. SUFFICES ASSUME u \notin s PROVE FALSE OBVIOUS
  <2>2. PICK x \in s : TRUE OBVIOUS
  <2>3. u # 0 BY <2>1, <2>2
  <2>4. u - 1 \in bounds BY <2>1, <2>3
  <2> QED BY <1>3, <2>4
<1> QED BY <1>4

\* A sequence without its last element.
LEMMA FrontOf ==
  ASSUME NEW S0, NEW s \in Seq(S0), Len(s) >= 1
  PROVE  /\ SubSeq(s, 1, Len(s) - 1) \in Seq(S0) /\ Len(SubSeq(s, 1, Len(s) - 1)) = Len(s) - 1
         /\ \A k \in 1..(Len(s) - 1) : SubSeq(s, 1, Len(s) - 1)[k] = s[k] /\ k \in 1..Len(s)
PROOF
<1> DEFINE n == Len(s) - 1
<1>1. n \in Nat /\ n <= Len(s) /\ \A k \in 1..n : k \in 1..Len(s) OBVIOUS
<1> HIDE DEF n
<1>2. SubSeq(s, 1, n) \in Seq(S0) /\ Len(SubSeq(s, 1, n)) = n BY <1>1
<1>3. \A k \in 1..n : SubSeq(s, 1, n)[k] = s[k] BY <1>1
<1> QED BY <1>1, <1>2, <1>3 DEF n

\* What luaD_shrinkstack leaves is a legal size, and holds what is in use.
LEMMA ShrunkFits ==
  ASSUME NEW t \in Nat, NEW chain, NEW sz \in Nat, NEW b \in Nat, t <= b,
         \A i \in DOMAIN chain : chain[i].top \in Nat /\ chain[i].top <= b
  PROVE  LET r == S!Shrunk(t, chain, sz)
         IN  /\ r \in Nat /\ (r <= LUAI_MAXSTACK \/ r = sz)
             /\ \/ r = sz
                \/ t <= r - EXTRA_STACK /\ \A i \in DOMAIN chain : chain[i].top <= r - EXTRA_STACK
PROOF
<1> DEFINE s == {t} \cup {chain[i].top : i \in DOMAIN chain}
           m == CHOOSE x \in s : \A k \in s : k <= x
           r == S!Shrunk(t, chain, sz)
<1>1. \E x \in s : \A k \in s : k <= x
  <2>1. s \in SUBSET Nat /\ s # {} /\ \A x \in s : x <= b OBVIOUS
  <2> HIDE DEF s
  <2> QED BY <2>1, LargestExists
<1>2. m \in s /\ \A k \in s : k <= m BY <1>1
<1>3. m \in Nat /\ t <= m /\ \A i \in DOMAIN chain : chain[i].top <= m BY <1>2
<1>4. S!InUse(t, chain) = 1 + m BY DEF S!InUse
<1> HIDE DEF m, s
<1> DEFINE inuse == 1 + m
           good == S!Smaller(inuse + (inuse \div 8) + 2 * EXTRA_STACK, LUAI_MAXSTACK)
<1>5. good \in Nat /\ good <= LUAI_MAXSTACK
        /\ (inuse <= LUAI_MAXSTACK - EXTRA_STACK => m <= good - EXTRA_STACK)
  <2>1. inuse \div 8 \in Nat BY <1>3
  <2> DEFINE q == inuse \div 8
  <2> HIDE DEF q
  <2>2. q \in Nat BY <2>1 DEF q
  <2>3. good = S!Smaller(inuse + q + 2 * EXTRA_STACK, LUAI_MAXSTACK) BY DEF q
  <2> QED BY <1>3, <2>2, <2>3, StackFits DEF S!Smaller, S!LuaStackAssumption
<1>6. r = IF inuse <= LUAI_MAXSTACK - EXTRA_STACK /\ good < sz THEN good ELSE sz
  BY <1>4 DEF S!Shrunk
<1> HIDE DEF good, r
<1>7. EXTRA_STACK \in Nat /\ LUAI_MAXSTACK \in Nat BY StackFits DEF S!LuaStackAssumption
<1>8. /\ r \in Nat /\ (r <= LUAI_MAXSTACK \/ r = sz)
      /\ r = sz \/ m <= r - EXTRA_STACK
  BY <1>3, <1>5, <1>6, <1>7
<1> QED BY <1>3, <1>7, <1>8 DEF r

-----------------------------------------------------------------------------
\* The inductive invariant of the stack.  A chain of frames c lies in a stack of
\* the given size, its first frame is the base level, on which lv values were
\* left; every pending pcall is that of a C function, which counted the C calls
\* under it, and waits for the frame above it.
Frames == [lua : BOOLEAN, func : Nat, top : Nat, want : Int, viaC : BOOLEAN]
Jumps == [depth : Nat, top : Nat, nC : Nat]
Via(c, d) == Cardinality({i \in 1..d : c[i].viaC})

ChainOK(c, sz, lv) ==
  /\ c \in Seq(Frames) /\ Len(c) >= 1 /\ ~c[1].lua /\ ~c[1].viaC
  /\ \A i \in 1..Len(c) : c[i].want \in Nat \cup {-1}
  /\ \A i \in 2..Len(c) : c[i].top <= sz - EXTRA_STACK /\ c[i].func < c[i].top
  /\ \A i \in 1..(Len(c) - 1) : ~c[i].lua => c[i + 1].want \in {-1, 0}
  /\ \A i \in 2..(Len(c) - 1) : ~c[i].lua => c[i + 1].func + 1 <= c[i].top
  /\ Len(c) > 1 => c[2].func = 1 + lv

JumpOK(j, c) ==
  /\ j.depth \in 1..(Len(c) - 1) /\ ~c[j.depth].lua /\ c[j.depth + 1].viaC
  /\ c[j.depth + 1].func = j.top /\ j.nC = Via(c, j.depth)
JumpsOK(js, c) ==
  /\ js \in Seq(Jumps)
  /\ \A k \in 1..Len(js) : JumpOK(js[k], c)
  /\ \A k, m \in 1..Len(js) : k < m => js[k].depth < js[m].depth
  /\ Len(c) > 1 => Len(js) >= 1 /\ js[1].depth = 1

TopOK(t, c, sz, lv) ==
  /\ t \in Nat
  /\ Len(c) = 1 => t = 1 + lv
  /\ Len(c) > 1 => t <= sz - EXTRA_STACK /\ (c[Len(c)].lua \/ t <= c[Len(c)].top)
SizeOK(sz) == sz \in Nat /\ (sz <= LUAI_MAXSTACK \/ sz = S!ERRORSTACKSIZE)

StackInv ==
  /\ left \in Nat /\ SizeOK(size) /\ ChainOK(cis, size, left) /\ JumpsOK(jmps, cis)
  /\ TopOK(top, cis, size, left) /\ inC = Via(cis, Len(cis))

-----------------------------------------------------------------------------
\* The frames called from C below a depth are finitely many, and one more frame
\* is one more of them, or none.
LEMMA ViaNext ==
  ASSUME NEW c, NEW d \in Nat
  PROVE  /\ Via(c, d) \in Nat
         /\ Via(c, d + 1) = IF c[d + 1].viaC THEN Via(c, d) + 1 ELSE Via(c, d)
PROOF
<1> DEFINE s == {i \in 1..d : c[i].viaC}
<1>1. IsFiniteSet(s)
  <2>1. s \in SUBSET (1..d) /\ IsFiniteSet(1..d) BY FS_Interval
  <2> QED BY <2>1, FS_Subset
<1>2. Cardinality(s) \in Nat BY <1>1, FS_CardinalityType
<1>3. {i \in 1..(d + 1) : c[i].viaC} = IF c[d + 1].viaC THEN s \cup {d + 1} ELSE s
  <2>1. 1..(d + 1) = (1..d) \cup {d + 1} OBVIOUS
  <2> QED BY <2>1
<1>4. d + 1 \notin s OBVIOUS
<1> HIDE DEF s
<1>5. Cardinality(s \cup {d + 1}) = Cardinality(s) + 1 BY <1>1, <1>4, FS_AddElement
<1> QED BY <1>2, <1>3, <1>5 DEF Via, s

LEMMA ViaSame ==
  ASSUME NEW c, NEW c2, NEW d \in Nat, \A i \in 1..d : c2[i].viaC = c[i].viaC
  PROVE  Via(c2, d) = Via(c, d)
PROOF
<1>1. {i \in 1..d : c2[i].viaC} = {i \in 1..d : c[i].viaC} OBVIOUS
<1> QED BY <1>1 DEF Via

LEMMA ViaBase == ASSUME NEW c, ~c[1].viaC PROVE Via(c, 1) = 0
PROOF
<1>1. {i \in 1..1 : c[i].viaC} = {} OBVIOUS
<1> QED BY <1>1, FS_EmptySet DEF Via

\* The frames up to a depth, and frames in a stack of another size that holds them.
LEMMA ChainPrefix ==
  ASSUME NEW c, NEW sz \in Nat, NEW lv, ChainOK(c, sz, lv), NEW d \in 1..Len(c), NEW lv2,
         d > 1 => lv2 = lv
  PROVE  /\ ChainOK(SubSeq(c, 1, d), sz, lv2) /\ Len(SubSeq(c, 1, d)) = d
         /\ \A i \in 1..d : SubSeq(c, 1, d)[i] = c[i]
         /\ \A i \in 1..d : Via(SubSeq(c, 1, d), i) = Via(c, i)
PROOF
<1> DEFINE c2 == SubSeq(c, 1, d)
<1>1. c \in Seq(Frames) BY DEF ChainOK
<1>2. c2 \in Seq(Frames) /\ Len(c2) = d /\ \A i \in 1..d : c2[i] = c[i] BY <1>1
<1> HIDE DEF c2
<1>3. ChainOK(c2, sz, lv2)
  <2>1. Len(c) \in Nat /\ d <= Len(c) /\ d >= 1 BY <1>1
  <2>2. 1 \in 1..d /\ (d > 1 => 2 \in 1..d) BY <2>1
  <2>3. ~c2[1].lua /\ ~c2[1].viaC BY <1>2, <2>2 DEF ChainOK
  <2>4. \A i \in 1..d : c2[i].want \in Nat \cup {-1} BY <1>2, <2>1 DEF ChainOK
  <2>5. \A i \in 2..d : c2[i].top <= sz - EXTRA_STACK /\ c2[i].func < c2[i].top
    BY <1>2, <2>1 DEF ChainOK
  <2>6. ASSUME NEW i \in 1..(d - 1), ~c2[i].lua PROVE c2[i + 1].want \in {-1, 0}
    <3>1. i \in 1..d /\ i + 1 \in 1..d /\ i \in 1..(Len(c) - 1) BY <2>1
    <3> QED BY <1>2, <2>6, <3>1 DEF ChainOK
  <2>7. ASSUME NEW i \in 2..(d - 1), ~c2[i].lua PROVE c2[i + 1].func + 1 <= c2[i].top
    <3>1. i \in 1..d /\ i + 1 \in 1..d /\ i \in 2..(Len(c) - 1) BY <2>1
    <3> QED BY <1>2, <2>7, <3>1 DEF ChainOK
  <2>8. d > 1 => c2[2].func = 1 + lv2 BY <1>2, <2>1, <2>2 DEF ChainOK
  <2> QED BY <1>2, <2>1, <2>3, <2>4, <2>5, <2>6, <2>7, <2>8 DEF ChainOK
<1>4. ASSUME NEW i \in 1..d PROVE Via(c2, i) = Via(c, i)
  <2>1. i \in Nat /\ \A k \in 1..i : c2[k].viaC = c[k].viaC BY <1>2
  <2> QED BY <2>1, ViaSame
<1> QED BY <1>2, <1>3, <1>4 DEF c2

LEMMA ChainResized ==
  ASSUME NEW c, NEW sz, NEW sz2, NEW lv, ChainOK(c, sz, lv),
         \A i \in 2..Len(c) : c[i].top <= sz2 - EXTRA_STACK
  PROVE  ChainOK(c, sz2, lv)
PROOF BY DEF ChainOK

LEMMA ChainLarger ==
  ASSUME NEW c, NEW sz \in Nat, NEW sz2 \in Nat, NEW lv, ChainOK(c, sz, lv), sz <= sz2
  PROVE  ChainOK(c, sz2, lv)
PROOF
<1>1. c \in Seq(Frames) /\ Len(c) \in Nat BY DEF ChainOK
<1>2. EXTRA_STACK \in Nat BY StackFits DEF S!LuaStackAssumption
<1>3. ASSUME NEW i \in 2..Len(c) PROVE c[i].top <= sz2 - EXTRA_STACK
  <2>1. c[i] \in Frames /\ c[i].top <= sz - EXTRA_STACK BY <1>1 DEF ChainOK
  <2>2. c[i].top \in Nat BY <2>1 DEF Frames
  <2> QED BY <1>2, <2>1, <2>2
<1> QED BY <1>3, ChainResized

\* The frames of a stack have tops that are numbers, and bounded.
LEMMA ChainBounded ==
  ASSUME NEW c, NEW sz \in Nat, NEW lv, ChainOK(c, sz, lv), NEW t \in Nat
  PROVE  /\ t + c[1].top + sz \in Nat
         /\ \A i \in DOMAIN c : c[i].top \in Nat /\ c[i].top <= t + c[1].top + sz
PROOF
<1>1. /\ c \in Seq(Frames) /\ Len(c) \in Nat /\ Len(c) >= 1 /\ DOMAIN c = 1..Len(c)
      /\ \A i \in 2..Len(c) : c[i].top <= sz - EXTRA_STACK
  BY DEF ChainOK
<1>2. ASSUME NEW i \in 1..Len(c) PROVE c[i].top \in Nat
  <2>1. c[i] \in Frames BY <1>1
  <2> QED BY <2>1 DEF Frames
<1>3. EXTRA_STACK \in Nat BY StackFits DEF S!LuaStackAssumption
<1>4. ASSUME NEW i \in DOMAIN c PROVE c[i].top <= t + c[1].top + sz
  <2>1. CASE i = 1 BY <1>1, <1>2, <2>1
  <2>2. CASE i \in 2..Len(c) BY <1>1, <1>2, <1>3, <2>2
  <2> QED BY <1>1, <2>1, <2>2
<1> QED BY <1>1, <1>2, <1>4

-----------------------------------------------------------------------------
\* The innermost of the pcalls p can catch an error: the state that it restores is
\* sound, with the pcalls around it.
Catches(p, c, lv) ==
  /\ p \in Seq(Jumps) /\ Len(p) >= 1
  /\ LET h == p[Len(p)]
     IN  /\ h.depth \in 1..Len(c) /\ ~c[h.depth].lua /\ h.nC = Via(c, h.depth)
         /\ h.depth = 1 => h.top = 1 + lv
         /\ h.depth > 1 => h.top + 1 <= c[h.depth].top
         /\ JumpsOK(SubSeq(p, 1, Len(p) - 1), SubSeq(c, 1, h.depth))

\* A pcall fits a chain that keeps the frames around it.
LEMMA JumpFits ==
  ASSUME NEW j \in Jumps, NEW c, JumpOK(j, c), NEW c2, Len(c) \in Nat, Len(c2) \in Nat,
         j.depth + 1 <= Len(c2),
         \A i \in 1..(j.depth + 1) :
           c2[i].lua = c[i].lua /\ c2[i].viaC = c[i].viaC /\ c2[i].func = c[i].func
  PROVE  JumpOK(j, c2)
PROOF
<1>1. j.depth \in Nat /\ j.depth >= 1 BY DEF JumpOK
<1>2. Via(c2, j.depth) = Via(c, j.depth) BY <1>1, ViaSame
<1>3. j.depth \in 1..(j.depth + 1) /\ j.depth + 1 \in 1..(j.depth + 1) BY <1>1
<1> QED BY <1>1, <1>2, <1>3 DEF JumpOK

\* When the innermost pcall has ended, the others fit the frames under it.
LEMMA JumpsPrefix ==
  ASSUME NEW c, NEW sz \in Nat, NEW lv, ChainOK(c, sz, lv), NEW js, JumpsOK(js, c), Len(js) >= 1
  PROVE  JumpsOK(SubSeq(js, 1, Len(js) - 1), SubSeq(c, 1, js[Len(js)].depth))
PROOF
<1> DEFINE h == js[Len(js)]
           front == SubSeq(js, 1, Len(js) - 1)
           chain == SubSeq(c, 1, h.depth)
<1>1. js \in Seq(Jumps) /\ Len(js) \in Nat /\ Len(js) \in 1..Len(js) BY DEF JumpsOK
<1>2. h \in Jumps /\ JumpOK(h, c) BY <1>1 DEF JumpsOK
<1>3. c \in Seq(Frames) /\ Len(c) \in Nat BY DEF ChainOK
<1>4. h.depth \in 1..(Len(c) - 1) /\ h.depth \in 1..Len(c) BY <1>2, <1>3 DEF JumpOK
<1>5. Len(chain) = h.depth /\ \A i \in 1..h.depth : chain[i] = c[i]
  BY <1>4, ChainPrefix
<1>6. /\ front \in Seq(Jumps) /\ Len(front) = Len(js) - 1
      /\ \A k \in 1..Len(front) : front[k] = js[k] /\ k \in 1..Len(js)
  BY <1>1, FrontOf
<1> HIDE DEF front, chain, h
<1>7. ASSUME NEW k \in 1..Len(front) PROVE JumpOK(front[k], chain)
  <2>1. js[k] \in Jumps /\ JumpOK(js[k], c) /\ front[k] = js[k] /\ k < Len(js)
    BY <1>1, <1>6 DEF JumpsOK
  <2>2. js[k].depth < h.depth BY <1>1, <1>6, <2>1 DEF JumpsOK, h
  <2>3. js[k].depth \in Nat BY <2>1 DEF Jumps
  <2>4. /\ js[k].depth + 1 <= Len(chain) /\ Len(chain) \in Nat
        /\ \A i \in 1..(js[k].depth + 1) : i \in 1..h.depth
    BY <1>4, <1>5, <2>2, <2>3
  <2>5. \A i \in 1..(js[k].depth + 1) :
          chain[i].lua = c[i].lua /\ chain[i].viaC = c[i].viaC /\ chain[i].func = c[i].func
    BY <1>5, <2>4
  <2> QED BY <1>3, <2>1, <2>4, <2>5, JumpFits
<1>8. \A k, m \in 1..Len(front) : k < m => front[k].depth < front[m].depth
  BY <1>6 DEF JumpsOK
<1>9. ASSUME Len(chain) > 1 PROVE Len(front) >= 1 /\ front[1].depth = 1
  <2>1. h.depth > 1 /\ Len(c) > 1 BY <1>3, <1>4, <1>5, <1>9
  <2>2. js[1].depth = 1 BY <2>1 DEF JumpsOK
  <2>3. Len(js) # 1 BY <2>1, <2>2 DEF h
  <2>4. Len(front) >= 1 /\ 1 \in 1..Len(front) BY <1>1, <1>6, <2>3
  <2> QED BY <1>6, <2>2, <2>4
<1>10. JumpsOK(front, chain) BY <1>6, <1>7, <1>8, <1>9 DEF JumpsOK
<1> QED BY <1>10 DEF front, chain, h

\* In a call the innermost pending pcall can catch an error.
LEMMA PendingCatches ==
  ASSUME StackInv, Len(cis) > 1
  PROVE  Catches(jmps, cis, left)
PROOF
<1> DEFINE h == jmps[Len(jmps)]
<1>1. /\ ChainOK(cis, size, left) /\ JumpsOK(jmps, cis) /\ size \in Nat
      /\ cis \in Seq(Frames) /\ Len(cis) \in Nat /\ left \in Nat
  BY DEF StackInv, SizeOK, ChainOK
<1>2. jmps \in Seq(Jumps) /\ Len(jmps) >= 1 /\ Len(jmps) \in 1..Len(jmps) BY <1>1 DEF JumpsOK
<1>3. h \in Jumps /\ JumpOK(h, cis) BY <1>1, <1>2 DEF JumpsOK
<1>4. JumpsOK(SubSeq(jmps, 1, Len(jmps) - 1), SubSeq(cis, 1, h.depth))
  BY <1>1, <1>2, JumpsPrefix
<1> HIDE DEF h
<1>5. /\ h.depth \in 1..(Len(cis) - 1) /\ ~cis[h.depth].lua
      /\ cis[h.depth + 1].func = h.top /\ h.nC = Via(cis, h.depth)
  BY <1>3 DEF JumpOK
<1>6. h.depth = 1 => h.top = 1 + left BY <1>1, <1>5 DEF ChainOK
<1>7. h.depth > 1 => h.top + 1 <= cis[h.depth].top BY <1>1, <1>5 DEF ChainOK
<1>8. h.depth \in 1..Len(cis) BY <1>1, <1>5
<1> QED BY <1>2, <1>4, <1>5, <1>6, <1>7, <1>8 DEF Catches, h

\* So can the pcall that is about to call the function in slot func.
LEMMA ProtectCatches ==
  ASSUME StackInv, NEW func \in Nat, ~cis[Len(cis)].lua,
         Len(cis) = 1 => func = 1 + left,
         Len(cis) > 1 => func + 1 <= cis[Len(cis)].top
  PROVE  Catches(S!Protect(func), cis, left)
PROOF
<1> DEFINE p == S!Protect(func)
           h == [depth |-> Len(cis), top |-> func, nC |-> inC]
<1>1. /\ ChainOK(cis, size, left) /\ JumpsOK(jmps, cis) /\ cis \in Seq(Frames)
      /\ Len(cis) \in Nat /\ Len(cis) >= 1 /\ inC = Via(cis, Len(cis)) /\ jmps \in Seq(Jumps)
  BY DEF StackInv, ChainOK, JumpsOK
<1>2. inC \in Nat
  <2>1. Len(cis) - 1 \in Nat /\ (Len(cis) - 1) + 1 = Len(cis) BY <1>1
  <2>2. Via(cis, Len(cis) - 1) \in Nat BY <2>1, ViaNext
  <2>3. Via(cis, (Len(cis) - 1) + 1) \in Nat BY <2>1, <2>2, ViaNext
  <2> QED BY <1>1, <2>1, <2>3
<1>3. h \in Jumps BY <1>1, <1>2 DEF Jumps
<1>4. p = Append(jmps, h) BY DEF S!Protect
<1>5. p \in Seq(Jumps) /\ Len(p) = Len(jmps) + 1 /\ p[Len(p)] = h /\ SubSeq(p, 1, Len(p) - 1) = jmps
  <2> HIDE DEF h
  <2> QED BY <1>1, <1>3, <1>4
<1>6. SubSeq(cis, 1, Len(cis)) = cis BY <1>1
<1>7. Len(p) >= 1 /\ Len(cis) \in 1..Len(cis) BY <1>1, <1>5
<1>8. h.depth = Len(cis) /\ h.top = func /\ h.nC = inC OBVIOUS
<1> HIDE DEF h, p
<1> QED BY <1>1, <1>5, <1>6, <1>7, <1>8 DEF Catches, p

-----------------------------------------------------------------------------
\* luaD_growstack gives room for what was asked, or the size at which it throws.
LEMMA CheckedFits ==
  ASSUME SizeOK(size), NEW t \in Nat, NEW n \in Nat
  PROVE  LET r == S!Checked(t, n)
         IN  /\ SizeOK(r.size) /\ size <= r.size
             /\ r.ok => t + n <= r.size - EXTRA_STACK
PROOF
<1> DEFINE r == S!Checked(t, n)
           new == S!Larger(S!Smaller(2 * size, LUAI_MAXSTACK), t + n + EXTRA_STACK)
<1>1. /\ size \in Nat /\ EXTRA_STACK \in Nat /\ LUAI_MAXSTACK \in Nat /\ ErrorSpace \in Nat
      /\ S!ERRORSTACKSIZE = LUAI_MAXSTACK + ErrorSpace
      /\ size <= LUAI_MAXSTACK \/ size = S!ERRORSTACKSIZE
  BY StackFits DEF SizeOK, S!LuaStackAssumption, S!ERRORSTACKSIZE
<1>2. new \in Nat /\ t + n + EXTRA_STACK <= new /\ (size <= LUAI_MAXSTACK => size <= new)
  BY <1>1 DEF S!Larger, S!Smaller
<1>3. S!Grown(t, n) =
        IF size > LUAI_MAXSTACK THEN [ok |-> FALSE, size |-> size]
        ELSE IF new > LUAI_MAXSTACK THEN [ok |-> FALSE, size |-> S!ERRORSTACKSIZE]
        ELSE [ok |-> TRUE, size |-> new]
  BY DEF S!Grown
<1>4. r = IF size - EXTRA_STACK - t > n THEN [ok |-> TRUE, size |-> size] ELSE S!Grown(t, n)
  BY DEF S!Checked, S!stack_last
<1> HIDE DEF new, r
<1>5. \/ r = [ok |-> TRUE, size |-> size] /\ size - EXTRA_STACK - t > n
      \/ r = [ok |-> FALSE, size |-> size]
      \/ r = [ok |-> FALSE, size |-> S!ERRORSTACKSIZE] /\ size <= LUAI_MAXSTACK
      \/ r = [ok |-> TRUE, size |-> new] /\ new <= LUAI_MAXSTACK /\ size <= LUAI_MAXSTACK
  BY <1>1, <1>2, <1>3, <1>4
<1>6. CASE r = [ok |-> TRUE, size |-> size] /\ size - EXTRA_STACK - t > n
  <2>1. r.ok /\ r.size = size /\ t + n <= size - EXTRA_STACK BY <1>1, <1>6
  <2> QED BY <1>1, <2>1 DEF SizeOK, r
<1>7. CASE r = [ok |-> FALSE, size |-> size]
  <2>1. ~r.ok /\ r.size = size BY <1>7
  <2> QED BY <1>1, <2>1 DEF SizeOK, r
<1>8. CASE r = [ok |-> FALSE, size |-> S!ERRORSTACKSIZE] /\ size <= LUAI_MAXSTACK
  <2>1. ~r.ok /\ r.size = S!ERRORSTACKSIZE BY <1>8
  <2>2. r.size \in Nat /\ size <= r.size BY <1>1, <1>8, <2>1
  <2> QED BY <2>1, <2>2 DEF SizeOK, r
<1>9. CASE r = [ok |-> TRUE, size |-> new] /\ new <= LUAI_MAXSTACK /\ size <= LUAI_MAXSTACK
  <2>1. r.ok /\ r.size = new BY <1>9
  <2>2. size <= new /\ new <= LUAI_MAXSTACK /\ new \in Nat /\ t + n <= new - EXTRA_STACK
    BY <1>1, <1>2, <1>9
  <2> QED BY <2>1, <2>2 DEF SizeOK, r
<1> QED BY <1>5, <1>6, <1>7, <1>8, <1>9

\* luaD_throw: the state that the innermost pcall restores is sound.
LEMMA ThrowKeeps ==
  ASSUME StackInv, NEW p, Catches(p, cis, left), NEW sz, SizeOK(sz), size <= sz, S!Throw(p, sz)
  PROVE  StackInv'
PROOF
<1> DEFINE h == p[Len(p)]
           chain == SubSeq(cis, 1, h.depth)
           lv == IF h.depth = 1 THEN left + 1 ELSE left
           r == S!Shrunk(h.top + 1, chain, sz)
<1>1. /\ left \in Nat /\ size \in Nat /\ sz \in Nat /\ ChainOK(cis, size, left)
      /\ cis \in Seq(Frames) /\ Len(cis) \in Nat /\ Len(cis) >= 1
  BY DEF StackInv, SizeOK, ChainOK
<1>2. p \in Seq(Jumps) /\ Len(p) \in 1..Len(p) BY DEF Catches
<1>3. h \in Jumps BY <1>2
<1>4. h.depth \in Nat /\ h.top \in Nat BY <1>3 DEF Jumps
<1>5. /\ h.depth \in 1..Len(cis) /\ ~cis[h.depth].lua /\ h.nC = Via(cis, h.depth)
      /\ h.depth = 1 => h.top = 1 + left
      /\ h.depth > 1 => h.top + 1 <= cis[h.depth].top
      /\ JumpsOK(SubSeq(p, 1, Len(p) - 1), chain)
  BY DEF Catches
<1>6. /\ cis' = chain /\ top' = h.top + 1 /\ size' = r /\ inC' = h.nC
      /\ jmps' = SubSeq(p, 1, Len(p) - 1) /\ left' = lv
  BY DEF S!Throw
<1>7. EXTRA_STACK \in Nat BY StackFits DEF S!LuaStackAssumption
<1>8. ChainOK(cis, sz, left) BY <1>1, ChainLarger
<1>9. h.depth > 1 => lv = left BY <1>4
<1> HIDE DEF h, chain, lv, r
<1>10. /\ ChainOK(chain, sz, lv) /\ Len(chain) = h.depth
       /\ \A i \in 1..h.depth : chain[i] = cis[i] /\ Via(chain, i) = Via(cis, i)
  BY <1>1, <1>5, <1>8, <1>9, ChainPrefix DEF chain
<1>11. /\ r \in Nat /\ (r <= LUAI_MAXSTACK \/ r = sz)
       /\ r = sz \/ (/\ h.top + 1 <= r - EXTRA_STACK
                     /\ \A i \in DOMAIN chain : chain[i].top <= r - EXTRA_STACK)
  <2> DEFINE b == (h.top + 1) + chain[1].top + sz
  <2>1. h.top + 1 \in Nat BY <1>4
  <2>2. b \in Nat /\ \A i \in DOMAIN chain : chain[i].top \in Nat /\ chain[i].top <= b
    BY <1>1, <1>10, <2>1, ChainBounded
  <2>3. h.top + 1 <= b
    <3>1. DOMAIN chain = 1..h.depth /\ 1 \in 1..h.depth BY <1>5, <1>10 DEF ChainOK
    <3>2. chain[1].top \in Nat BY <2>2, <3>1
    <3> QED BY <1>1, <2>1, <3>2
  <2> HIDE DEF b
  <2> QED BY <1>1, <2>1, <2>2, <2>3, ShrunkFits DEF r
<1>12. ChainOK(chain, r, lv)
  <2>1. \A i \in 2..Len(chain) : i \in DOMAIN chain /\ chain[i].top <= sz - EXTRA_STACK
    BY <1>10 DEF ChainOK
  <2>2. \A i \in 2..Len(chain) : chain[i].top <= r - EXTRA_STACK BY <1>11, <2>1
  <2> QED BY <1>10, <2>2, ChainResized
<1>13. SizeOK(r) BY <1>11 DEF SizeOK
<1>14. TopOK(h.top + 1, chain, r, lv)
  <2>1. CASE h.depth = 1
    <3>1. lv = left + 1 /\ h.top + 1 = 1 + lv BY <1>1, <1>4, <1>5, <2>1 DEF lv
    <3> QED BY <1>4, <1>10, <2>1, <3>1 DEF TopOK
  <2>2. CASE h.depth > 1
    <3>1. h.depth \in 2..Len(chain) /\ chain[h.depth] = cis[h.depth] BY <1>4, <1>10, <2>2
    <3>2. /\ chain[h.depth].top <= r - EXTRA_STACK
          /\ h.top + 1 <= chain[h.depth].top
      BY <1>5, <1>12, <2>2, <3>1 DEF ChainOK
    <3>3. chain[h.depth].top \in Nat
      <4>1. chain[h.depth] \in Frames BY <1>12, <3>1 DEF ChainOK
      <4> QED BY <4>1 DEF Frames
    <3> QED BY <1>4, <1>7, <1>10, <1>11, <2>2, <3>2, <3>3 DEF TopOK
  <2> QED BY <1>4, <1>5, <2>1, <2>2
<1>15. h.nC = Via(chain, Len(chain)) /\ lv \in Nat
  BY <1>1, <1>5, <1>10 DEF lv
<1>16. /\ left' \in Nat /\ SizeOK(size') /\ ChainOK(cis', size', left') /\ JumpsOK(jmps', cis')
       /\ TopOK(top', cis', size', left') /\ inC' = Via(cis', Len(cis'))
  BY <1>5, <1>6, <1>12, <1>13, <1>14, <1>15
<1> QED BY <1>16 DEF StackInv, SizeOK, ChainOK, JumpsOK, JumpOK, TopOK, Via

\* One more frame on the chain.
LEMMA ChainGrows ==
  ASSUME NEW c, NEW sz \in Nat, NEW lv, ChainOK(c, sz, lv), NEW f \in Frames,
         f.want \in Nat \cup {-1}, f.top <= sz - EXTRA_STACK, f.func < f.top,
         ~c[Len(c)].lua => f.want \in {-1, 0},
         Len(c) > 1 /\ ~c[Len(c)].lua => f.func + 1 <= c[Len(c)].top,
         Len(c) = 1 => f.func = 1 + lv
  PROVE  /\ ChainOK(Append(c, f), sz, lv) /\ Len(Append(c, f)) = Len(c) + 1
         /\ Append(c, f)[Len(c) + 1] = f /\ \A i \in 1..Len(c) : Append(c, f)[i] = c[i]
         /\ Via(Append(c, f), Len(c) + 1) = Via(c, Len(c)) + (IF f.viaC THEN 1 ELSE 0)
PROOF
<1> DEFINE c2 == Append(c, f)
           n == Len(c)
<1>1. c \in Seq(Frames) /\ n \in Nat /\ n >= 1 BY DEF ChainOK
<1>2. c2 \in Seq(Frames) /\ Len(c2) = n + 1 /\ c2[n + 1] = f /\ \A i \in 1..n : c2[i] = c[i]
  BY <1>1
<1> HIDE DEF c2
<1>3. ~c2[1].lua /\ ~c2[1].viaC
  <2>1. 1 \in 1..n BY <1>1
  <2> QED BY <1>2, <2>1 DEF ChainOK
<1>4. ASSUME NEW i \in 1..(n + 1) PROVE c2[i].want \in Nat \cup {-1}
  <2>1. i = n + 1 \/ i \in 1..n BY <1>1
  <2> QED BY <1>2, <2>1 DEF ChainOK
<1>5. ASSUME NEW i \in 2..(n + 1) PROVE c2[i].top <= sz - EXTRA_STACK /\ c2[i].func < c2[i].top
  <2>1. i = n + 1 \/ (i \in 2..n /\ i \in 1..n) BY <1>1
  <2> QED BY <1>2, <2>1 DEF ChainOK
<1>6. ASSUME NEW i \in 1..n, ~c2[i].lua PROVE c2[i + 1].want \in {-1, 0}
  <2>1. CASE i = n BY <1>2, <1>6, <2>1
  <2>2. CASE i # n
    <3>1. i \in 1..(n - 1) /\ i + 1 \in 1..n BY <1>1, <2>2
    <3> QED BY <1>2, <1>6, <3>1 DEF ChainOK
  <2> QED BY <2>1, <2>2
<1>7. ASSUME NEW i \in 2..n, ~c2[i].lua PROVE c2[i + 1].func + 1 <= c2[i].top
  <2>1. CASE i = n
    <3>1. n > 1 /\ n \in 1..n BY <1>1, <2>1
    <3> QED BY <1>2, <1>7, <2>1, <3>1
  <2>2. CASE i # n
    <3>1. i \in 2..(n - 1) /\ i + 1 \in 1..n /\ i \in 1..n BY <1>1, <2>2
    <3> QED BY <1>2, <1>7, <3>1 DEF ChainOK
  <2> QED BY <2>1, <2>2
<1>8. c2[2].func = 1 + lv
  <2>1. CASE n = 1 BY <1>2, <2>1
  <2>2. CASE n > 1
    <3>1. 2 \in 1..n BY <1>1, <2>2
    <3> QED BY <1>2, <2>2, <3>1 DEF ChainOK
  <2>3. n = 1 \/ n > 1
    <3>1. n \in Nat /\ n >= 1 BY <1>1
    <3> HIDE DEF n
    <3> QED BY <3>1
  <2> QED BY <2>1, <2>2, <2>3, Zenon
<1>9. (n + 1) - 1 = n /\ n + 1 >= 1 BY <1>1
<1>10. ChainOK(c2, sz, lv) BY <1>2, <1>3, <1>4, <1>5, <1>6, <1>7, <1>8, <1>9 DEF ChainOK
<1>11. Via(c2, n + 1) = Via(c, n) + (IF f.viaC THEN 1 ELSE 0)
  <2>0. n \in Nat /\ \A i \in 1..n : c2[i].viaC = c[i].viaC BY <1>1, <1>2
  <2> HIDE DEF n
  <2>1. Via(c2, n) = Via(c, n) /\ Via(c, n) \in Nat BY <2>0, ViaSame, ViaNext
  <2>2. Via(c2, n + 1) = IF c2[n + 1].viaC THEN Via(c2, n) + 1 ELSE Via(c2, n)
    BY <2>0, ViaNext
  <2> QED BY <1>2, <2>1, <2>2 DEF n
<1> QED BY <1>2, <1>10, <1>11 DEF c2

\* The pending pcalls fit a longer chain, or one with other limits.
LEMMA JumpsGrow ==
  ASSUME NEW c, NEW c2, c \in Seq(Frames), Len(c) \in Nat, Len(c2) \in Nat, Len(c) <= Len(c2),
         \A i \in 1..Len(c) : c2[i].lua = c[i].lua /\ c2[i].viaC = c[i].viaC /\ c2[i].func = c[i].func,
         NEW js, JumpsOK(js, c), Len(c2) > 1 => Len(c) > 1
  PROVE  JumpsOK(js, c2)
PROOF
<1>1. js \in Seq(Jumps) /\ Len(js) \in Nat BY DEF JumpsOK
<1>2. ASSUME NEW k \in 1..Len(js) PROVE JumpOK(js[k], c2)
  <2>1. js[k] \in Jumps /\ JumpOK(js[k], c) BY <1>1 DEF JumpsOK
  <2>2. js[k].depth \in 1..(Len(c) - 1) BY <2>1 DEF JumpOK
  <2>3. js[k].depth + 1 <= Len(c2) /\ \A i \in 1..(js[k].depth + 1) : i \in 1..Len(c) BY <2>2
  <2> QED BY <2>1, <2>3, JumpFits
<1> QED BY <1>1, <1>2 DEF JumpsOK

\* A pcall is pending while its function runs.
LEMMA ProtectFits ==
  ASSUME StackInv, NEW func \in Nat, ~cis[Len(cis)].lua, NEW f \in Frames, f.func = func, f.viaC
  PROVE  JumpsOK(S!Protect(func), Append(cis, f))
PROOF
<1> DEFINE h == [depth |-> Len(cis), top |-> func, nC |-> inC]
           n == Len(cis)
           c2 == Append(cis, f)
           js == S!Protect(func)
<1>1. /\ JumpsOK(jmps, cis) /\ cis \in Seq(Frames) /\ n \in Nat /\ n >= 1
      /\ inC = Via(cis, n) /\ jmps \in Seq(Jumps) /\ Len(jmps) \in Nat
  BY DEF StackInv, ChainOK, JumpsOK
<1>2. c2 \in Seq(Frames) /\ Len(c2) = n + 1 /\ c2[n + 1] = f /\ \A i \in 1..n : c2[i] = cis[i]
  BY <1>1
<1>3. inC \in Nat
  <2>1. n - 1 \in Nat /\ (n - 1) + 1 = n BY <1>1
  <2>2. Via(cis, (n - 1) + 1) \in Nat BY <2>1, ViaNext
  <2> QED BY <1>1, <2>1, <2>2
<1>4. h \in Jumps /\ h.depth = n /\ h.top = func /\ h.nC = inC BY <1>1, <1>3 DEF Jumps
<1>5. js = Append(jmps, h) BY DEF S!Protect
<1> HIDE DEF h, c2
<1>6. /\ js \in Seq(Jumps) /\ Len(js) = Len(jmps) + 1 /\ js[Len(jmps) + 1] = h
      /\ \A k \in 1..Len(jmps) : js[k] = jmps[k]
  BY <1>1, <1>4, <1>5
<1> HIDE DEF js
<1>7. JumpOK(h, c2)
  <2>1. n \in 1..n BY <1>1
  <2>2. Via(c2, n) = Via(cis, n) BY <1>1, <1>2, ViaSame
  <2> QED BY <1>1, <1>2, <1>4, <2>1, <2>2 DEF JumpOK
<1>8. ASSUME NEW k \in 1..Len(jmps) PROVE JumpOK(jmps[k], c2) /\ jmps[k].depth < n /\ n > 1
  <2>1. jmps[k] \in Jumps /\ JumpOK(jmps[k], cis) BY <1>1 DEF JumpsOK
  <2>2. jmps[k].depth \in 1..(n - 1) BY <2>1 DEF JumpOK
  <2>3. jmps[k].depth + 1 <= n + 1 /\ \A i \in 1..(jmps[k].depth + 1) : i \in 1..n
    BY <1>1, <2>2
  <2>4. \A i \in 1..(jmps[k].depth + 1) :
          c2[i].lua = cis[i].lua /\ c2[i].viaC = cis[i].viaC /\ c2[i].func = cis[i].func
    BY <1>2, <2>3
  <2>5. JumpOK(jmps[k], c2)
    <3>1. Len(cis) \in Nat /\ Len(c2) \in Nat /\ jmps[k].depth + 1 <= Len(c2)
      BY <1>1, <1>2, <2>3
    <3> QED BY <2>1, <2>4, <3>1, JumpFits
  <2>6. jmps[k].depth < n /\ n > 1 BY <1>1, <2>2
  <2> QED BY <2>5, <2>6
<1>9. ASSUME NEW k \in 1..Len(js) PROVE JumpOK(js[k], c2)
  <2>1. k = Len(jmps) + 1 \/ k \in 1..Len(jmps) BY <1>1, <1>6
  <2> QED BY <1>6, <1>7, <1>8, <2>1
<1>10. ASSUME NEW k \in 1..Len(js), NEW m \in 1..Len(js), k < m PROVE js[k].depth < js[m].depth
  <2>1. k \in 1..Len(jmps) /\ (m = Len(jmps) + 1 \/ m \in 1..Len(jmps)) BY <1>1, <1>6, <1>10
  <2>2. CASE m = Len(jmps) + 1 BY <1>4, <1>6, <1>8, <2>1, <2>2
  <2>3. CASE m \in 1..Len(jmps) BY <1>1, <1>6, <1>10, <2>1, <2>3 DEF JumpsOK
  <2> QED BY <2>1, <2>2, <2>3
<1>11. Len(js) >= 1 /\ js[1].depth = 1
  <2>1. CASE n > 1
    <3>1. Len(jmps) >= 1 /\ jmps[1].depth = 1 BY <1>1, <2>1 DEF JumpsOK
    <3> QED BY <1>1, <1>6, <3>1
  <2>2. CASE n = 1
    <3>1. Len(jmps) = 0
      <4>1. SUFFICES ASSUME Len(jmps) >= 1 PROVE FALSE BY <1>1
      <4>2. 1 \in 1..Len(jmps) BY <1>1, <4>1
      <4> QED BY <1>8, <2>2, <4>2
    <3> QED BY <1>4, <1>6, <2>2, <3>1
  <2>3. n = 1 \/ n > 1
    <3>1. n \in Nat /\ n >= 1 BY <1>1
    <3> HIDE DEF n
    <3> QED BY <3>1
  <2> QED BY <2>1, <2>2, <2>3, Zenon
<1> QED BY <1>6, <1>9, <1>10, <1>11 DEF JumpsOK, c2, js

\* luaD_call of a function in slot func, the top at t: it enters a frame that has
\* room, or throws.
LEMMA CallKeeps ==
  ASSUME StackInv, NEW lua \in BOOLEAN, NEW fsize \in Nat, NEW func \in Nat, NEW t \in Nat,
         func + 1 <= t, NEW want \in {-1, 0, 1}, NEW viaC \in BOOLEAN, NEW p,
         ~cis[Len(cis)].lua => want \in {-1, 0},
         Len(cis) > 1 /\ ~cis[Len(cis)].lua => func + 1 <= cis[Len(cis)].top,
         Len(cis) = 1 => func = 1 + left,
         \/ p = jmps /\ Len(cis) > 1
         \/ p = S!Protect(func) /\ viaC /\ ~cis[Len(cis)].lua,
         S!Call(lua, fsize, func, t, want, viaC, p)
  PROVE  StackInv'
PROOF
<1> DEFINE need == IF lua THEN fsize ELSE LUA_MINSTACK
           room == S!Checked(t, need)
           limit == IF lua THEN func + 1 + fsize ELSE t + LUA_MINSTACK
           f == [lua |-> lua, func |-> func, top |-> limit, want |-> want, viaC |-> viaC]
           n == Len(cis)
<1>1. /\ left \in Nat /\ SizeOK(size) /\ size \in Nat /\ ChainOK(cis, size, left)
      /\ JumpsOK(jmps, cis) /\ cis \in Seq(Frames) /\ n \in Nat /\ n >= 1 /\ inC = Via(cis, n)
  BY DEF StackInv, SizeOK, ChainOK
<1>2. Catches(p, cis, left)
  <2>1. n > 1 \/ n = 1
    <3>1. n \in Nat /\ n >= 1 BY <1>1
    <3> HIDE DEF n
    <3> QED BY <3>1
  <2>2. CASE p = jmps /\ n > 1 BY <2>2, PendingCatches
  <2>3. CASE p = S!Protect(func) /\ ~cis[n].lua BY <2>1, <2>3, ProtectCatches
  <2> QED BY <2>2, <2>3
<1>3. EXTRA_STACK \in Nat /\ LUA_MINSTACK \in Nat /\ LUA_MINSTACK > 0 /\ need \in Nat
  BY StackFits DEF S!LuaStackAssumption
<1>4. SizeOK(room.size) /\ size <= room.size /\ (room.ok => t + need <= room.size - EXTRA_STACK)
  BY <1>1, <1>3, CheckedFits
<1>5. IF (viaC /\ inC + 1 >= MaxCCalls) \/ ~room.ok
      THEN S!Throw(p, IF room.ok THEN size ELSE room.size)
      ELSE /\ cis' = Append(cis, f) /\ top' = (IF lua THEN limit ELSE t) /\ size' = room.size
           /\ inC' = (IF viaC THEN inC + 1 ELSE inC) /\ jmps' = p /\ left' = left
  BY DEF S!Call
<1> HIDE DEF room, f
<1>6. CASE (viaC /\ inC + 1 >= MaxCCalls) \/ ~room.ok
  <2> DEFINE sz == IF room.ok THEN size ELSE room.size
  <2>1. S!Throw(p, sz) /\ SizeOK(sz) /\ size <= sz BY <1>1, <1>4, <1>5, <1>6
  <2> HIDE DEF sz
  <2> QED BY <1>2, <2>1, ThrowKeeps
<1>7. CASE ~((viaC /\ inC + 1 >= MaxCCalls) \/ ~room.ok)
  <2>1. /\ cis' = Append(cis, f) /\ top' = (IF lua THEN limit ELSE t) /\ size' = room.size
        /\ inC' = (IF viaC THEN inC + 1 ELSE inC) /\ jmps' = p /\ left' = left
        /\ t + need <= room.size - EXTRA_STACK
    BY <1>4, <1>5, <1>7
  <2>2. room.size \in Nat BY <1>4 DEF SizeOK
  <2>3. /\ limit \in Nat /\ limit <= room.size - EXTRA_STACK /\ func < limit
        /\ (IF lua THEN limit ELSE t) \in Nat
        /\ (IF lua THEN limit ELSE t) <= room.size - EXTRA_STACK
        /\ lua \/ (IF lua THEN limit ELSE t) <= limit
    <3> DEFINE z == room.size
    <3>1. z \in Nat /\ t + need <= z - EXTRA_STACK BY <2>1, <2>2
    <3> HIDE DEF z
    <3>2. CASE lua
      <4>1. need = fsize /\ limit = func + 1 + fsize BY <3>2
      <4>2. limit \in Nat /\ limit <= z - EXTRA_STACK /\ func < limit BY <1>3, <3>1, <4>1
      <4> HIDE DEF limit
      <4> QED BY <3>2, <4>2 DEF z
    <3>3. CASE ~lua
      <4>1. need = LUA_MINSTACK /\ limit = t + LUA_MINSTACK BY <3>3
      <4>2. /\ limit \in Nat /\ limit <= z - EXTRA_STACK /\ func < limit /\ t <= limit
            /\ t <= z - EXTRA_STACK
        BY <1>3, <3>1, <4>1
      <4> HIDE DEF limit
      <4> QED BY <3>3, <4>2 DEF z
    <3> QED BY <3>2, <3>3
  <2>4. /\ f \in Frames /\ f.lua = lua /\ f.func = func /\ f.top = limit /\ f.want = want
        /\ f.viaC = viaC
    BY <2>3 DEF f, Frames
  <2>5. ChainOK(cis, room.size, left) BY <1>1, <1>4, <2>2, ChainLarger
  <2> HIDE DEF limit
  <2>6. /\ ChainOK(Append(cis, f), room.size, left) /\ Len(Append(cis, f)) = n + 1
        /\ Append(cis, f)[n + 1] = f /\ \A i \in 1..n : Append(cis, f)[i] = cis[i]
        /\ Via(Append(cis, f), n + 1) = Via(cis, n) + (IF viaC THEN 1 ELSE 0)
    BY <2>2, <2>3, <2>4, <2>5, ChainGrows
  <2>7. JumpsOK(p, Append(cis, f))
    <3>1. CASE p = jmps /\ n > 1
      <4>1. /\ Len(cis) \in Nat /\ Len(Append(cis, f)) \in Nat /\ Len(cis) <= Len(Append(cis, f))
            /\ \A i \in 1..Len(cis) :
                 /\ Append(cis, f)[i].lua = cis[i].lua /\ Append(cis, f)[i].viaC = cis[i].viaC
                 /\ Append(cis, f)[i].func = cis[i].func
        BY <1>1, <2>6
      <4> QED BY <1>1, <3>1, <4>1, JumpsGrow
    <3>2. CASE p = S!Protect(func) /\ viaC /\ ~cis[n].lua
      BY <2>4, <3>2, ProtectFits
    <3> QED BY <3>1, <3>2
  <2>8. TopOK(IF lua THEN limit ELSE t, Append(cis, f), room.size, left)
    <3>1. n \in Nat /\ n >= 1 /\ Len(Append(cis, f)) = n + 1 /\ Append(cis, f)[n + 1] = f
      BY <1>1, <2>6
    <3> HIDE DEF n
    <3>2. Len(Append(cis, f)) # 1 BY <3>1
    <3> QED BY <2>3, <2>4, <3>1, <3>2 DEF TopOK
  <2>9. (IF viaC THEN inC + 1 ELSE inC) = Via(Append(cis, f), Len(Append(cis, f)))
    <3>1. n - 1 \in Nat /\ (n - 1) + 1 = n
      <4>1. n \in Nat /\ n >= 1 BY <1>1
      <4> HIDE DEF n
      <4> QED BY <4>1
    <3>2. Via(cis, (n - 1) + 1) \in Nat BY <3>1, ViaNext
    <3>3. Via(cis, n) \in Nat /\ inC = Via(cis, n) BY <1>1, <3>1, <3>2
    <3> QED BY <2>6, <3>3
  <2>10. /\ left' \in Nat /\ SizeOK(size') /\ ChainOK(cis', size', left') /\ JumpsOK(jmps', cis')
         /\ TopOK(top', cis', size', left') /\ inC' = Via(cis', Len(cis'))
    BY <1>1, <1>4, <2>1, <2>6, <2>7, <2>8, <2>9
  <2> QED BY <2>10 DEF StackInv, SizeOK, ChainOK, JumpsOK, JumpOK, TopOK, Via
<1> QED BY <1>6, <1>7

\* The running function gets another limit.
LEMMA ChainTopped ==
  ASSUME NEW c, NEW sz \in Nat, NEW lv, ChainOK(c, sz, lv), NEW t \in Nat,
         Len(c) > 1 => t <= sz - EXTRA_STACK /\ c[Len(c)].func < t
  PROVE  LET c2 == [c EXCEPT ![Len(c)].top = t]
         IN  /\ ChainOK(c2, sz, lv) /\ Len(c2) = Len(c) /\ c2[Len(c)].top = t
             /\ \A i \in 1..Len(c) :
                  c2[i].lua = c[i].lua /\ c2[i].viaC = c[i].viaC /\ c2[i].func = c[i].func
             /\ Via(c2, Len(c)) = Via(c, Len(c))
PROOF
<1> DEFINE n == Len(c)
           f == [c[n] EXCEPT !.top = t]
           c2 == [c EXCEPT ![n].top = t]
<1>1. c \in Seq(Frames) /\ n \in Nat /\ n >= 1 /\ n \in 1..n BY DEF ChainOK
<1>2. c[n] \in Frames BY <1>1
<1>3. /\ f \in Frames /\ f.top = t /\ f.lua = c[n].lua /\ f.viaC = c[n].viaC
      /\ f.func = c[n].func /\ f.want = c[n].want
  BY <1>2 DEF Frames
<1>4. c2 = [c EXCEPT ![n] = f] BY <1>1
<1> HIDE DEF f, c2
<1>5. c2 \in Seq(Frames) /\ Len(c2) = n /\ c2[n] = f /\ \A i \in 1..n : i # n => c2[i] = c[i]
  BY <1>1, <1>3, <1>4
<1>6. ASSUME NEW i \in 1..n
      PROVE  /\ c2[i].lua = c[i].lua /\ c2[i].viaC = c[i].viaC /\ c2[i].func = c[i].func
             /\ c2[i].want = c[i].want
  BY <1>3, <1>5
<1>7. ASSUME NEW i \in 2..n PROVE c2[i].top <= sz - EXTRA_STACK /\ c2[i].func < c2[i].top
  <2>1. i \in 1..n /\ n > 1 BY <1>1
  <2>2. CASE i = n BY <1>3, <1>5, <2>1, <2>2
  <2>3. CASE i # n BY <1>5, <2>1, <2>3 DEF ChainOK
  <2> QED BY <2>2, <2>3
<1>8. ASSUME NEW i \in 1..(n - 1), ~c2[i].lua PROVE c2[i + 1].want \in {-1, 0}
  <2>1. i \in 1..n /\ i + 1 \in 1..n BY <1>1
  <2>2. ~c[i].lua /\ c2[i + 1].want = c[i + 1].want BY <1>6, <1>8, <2>1
  <2> QED BY <2>2 DEF ChainOK
<1>9. ASSUME NEW i \in 2..(n - 1), ~c2[i].lua PROVE c2[i + 1].func + 1 <= c2[i].top
  <2>1. i \in 1..n /\ i + 1 \in 1..n /\ i # n BY <1>1
  <2>2. ~c[i].lua /\ c2[i + 1].func = c[i + 1].func /\ c2[i].top = c[i].top
    BY <1>5, <1>6, <1>9, <2>1
  <2> QED BY <2>2 DEF ChainOK
<1>10. n > 1 => c2[2].func = 1 + lv
  <2>1. n > 1 => 2 \in 1..n BY <1>1
  <2> QED BY <1>6, <2>1 DEF ChainOK
<1>11. ~c2[1].lua /\ ~c2[1].viaC /\ \A i \in 1..n : c2[i].want \in Nat \cup {-1}
  <2>1. 1 \in 1..n BY <1>1
  <2> QED BY <1>6, <2>1 DEF ChainOK
<1>12. ChainOK(c2, sz, lv) BY <1>1, <1>5, <1>7, <1>8, <1>9, <1>10, <1>11 DEF ChainOK
<1>13. Via(c2, n) = Via(c, n)
  <2>1. n \in Nat /\ \A i \in 1..n : c2[i].viaC = c[i].viaC BY <1>1, <1>6
  <2> HIDE DEF n
  <2> QED BY <2>1, ViaSame
<1>14. c2[n].top = t BY <1>3, <1>5
<1> QED BY <1>5, <1>6, <1>12, <1>13, <1>14 DEF c2

\* luaD_poscall takes away the running frame, and the pcall that waited for it.
LEMMA ReturnedJumps ==
  ASSUME NEW c, NEW sz \in Nat, NEW lv, ChainOK(c, sz, lv), Len(c) > 1, NEW js, JumpsOK(js, c)
  PROVE  LET m == Len(c) - 1
             f == c[Len(c)]
         IN  JumpsOK(IF js # <<>> /\ js[Len(js)].depth = m /\ js[Len(js)].top = f.func /\ f.viaC
                     THEN SubSeq(js, 1, Len(js) - 1) ELSE js,
                     SubSeq(c, 1, m))
PROOF
<1> DEFINE m == Len(c) - 1
           f == c[Len(c)]
           chain == SubSeq(c, 1, m)
           h == js[Len(js)]
           ends == js # <<>> /\ h.depth = m /\ h.top = f.func /\ f.viaC
<1>1. c \in Seq(Frames) /\ Len(c) \in Nat /\ m \in Nat /\ m >= 1 /\ m \in 1..Len(c) /\ m + 1 = Len(c)
  BY DEF ChainOK
<1>2. js \in Seq(Jumps) /\ Len(js) \in Nat BY DEF JumpsOK
<1>3. Len(js) >= 1 BY DEF JumpsOK
<1>4. CASE ends
  <2>1. JumpsOK(SubSeq(js, 1, Len(js) - 1), SubSeq(c, 1, h.depth)) BY <1>3, JumpsPrefix
  <2> QED BY <1>4, <2>1
<1>5. CASE ~ends
  <2>1. Len(chain) = m /\ \A i \in 1..m : chain[i] = c[i]
    <3> HIDE DEF m
    <3> QED BY <1>1, ChainPrefix DEF chain
  <2> HIDE DEF chain
  <2>2. ASSUME NEW k \in 1..Len(js) PROVE JumpOK(js[k], chain)
    <3>1. js[k] \in Jumps /\ JumpOK(js[k], c) BY <1>2 DEF JumpsOK
    <3>2. js[k].depth \in 1..m BY <1>1, <3>1 DEF JumpOK
    <3>3. js[k].depth # m
      <4>1. SUFFICES ASSUME js[k].depth = m PROVE FALSE OBVIOUS
      <4>2. Len(js) \in 1..Len(js) BY <1>2, <1>3
      <4>3. h \in Jumps /\ JumpOK(h, c) BY <1>2, <4>2 DEF JumpsOK
      <4>4. h.depth \in 1..m /\ c[h.depth + 1].viaC /\ c[h.depth + 1].func = h.top
        BY <1>1, <4>3 DEF JumpOK
      <4>5. k # Len(js) => js[k].depth < h.depth BY <1>2, <4>2 DEF JumpsOK
      <4>6. k = Len(js)
        <5> HIDE DEF m, h
        <5> QED BY <1>1, <4>1, <4>4, <4>5
      <4>7. h.depth = m BY <4>1, <4>6
      <4>8. js # <<>> BY <1>3
      <4> QED BY <1>1, <1>5, <4>4, <4>7, <4>8
    <3>4. js[k].depth + 1 <= m /\ \A i \in 1..(js[k].depth + 1) : i \in 1..m
      <4> HIDE DEF m
      <4> QED BY <1>1, <3>2, <3>3
    <3>5. \A i \in 1..(js[k].depth + 1) :
            chain[i].lua = c[i].lua /\ chain[i].viaC = c[i].viaC /\ chain[i].func = c[i].func
      BY <2>1, <3>4
    <3>6. Len(chain) \in Nat /\ js[k].depth + 1 <= Len(chain) BY <1>1, <2>1, <3>4
    <3> QED BY <1>1, <3>1, <3>5, <3>6, JumpFits
  <2>3. JumpsOK(js, chain) BY <1>2, <1>3, <2>2 DEF JumpsOK
  <2> QED BY <1>5, <2>3 DEF chain
<1> QED BY <1>4, <1>5

\* The caller goes on where the running function returns.
LEMMA ReturnKeeps == StackInv /\ S!Return => StackInv'
PROOF
<1> SUFFICES ASSUME StackInv, S!Return PROVE StackInv' OBVIOUS
<1> DEFINE n == Len(cis)
           m == Len(cis) - 1
           f == cis[n]
           chain == SubSeq(cis, 1, m)
           caller == chain[Len(chain)]
           js == IF jmps # <<>> /\ jmps[Len(jmps)].depth = Len(chain) /\ jmps[Len(jmps)].top = f.func
                    /\ f.viaC
                 THEN SubSeq(jmps, 1, Len(jmps) - 1) ELSE jmps
<1>1. /\ left \in Nat /\ SizeOK(size) /\ size \in Nat /\ ChainOK(cis, size, left)
      /\ JumpsOK(jmps, cis) /\ TopOK(top, cis, size, left) /\ inC = Via(cis, n)
      /\ cis \in Seq(Frames) /\ n \in Nat
  BY DEF StackInv, SizeOK, ChainOK
<1>2. n > 1 BY DEF S!Return, S!inCall
<1>3. /\ m \in Nat /\ m >= 1 /\ m \in 1..n /\ n \in 1..n /\ m + 1 = n /\ n \in 2..n
      /\ m \in 1..(n - 1) /\ (m > 1 => m \in 2..(n - 1)) /\ (m > 1 => m \in 2..n)
  <2>1. m = n - 1 OBVIOUS
  <2> HIDE DEF n, m
  <2> QED BY <1>1, <1>2, <2>1
<1>4. PICK nres \in 0..MaxResults :
        LET k == IF f.want = -1 THEN nres ELSE f.want
            after == f.func + k
        IN  /\ nres <= top - f.func - 1
            /\ top' = IF caller.lua /\ f.want # -1 THEN caller.top ELSE after
            /\ cis' = IF ~caller.lua /\ f.want = -1
                      THEN [chain EXCEPT ![Len(chain)].top = S!Larger(@, after)] ELSE chain
            /\ inC' = IF f.viaC THEN inC - 1 ELSE inC
            /\ jmps' = js /\ left' = IF Len(chain) = 1 THEN left + k ELSE left
  BY DEF S!Return, S!current, S!MULTRET
<1>5. size' = size BY DEF S!Return
<1> DEFINE k == IF f.want = -1 THEN nres ELSE f.want
           after == f.func + k
           lv == IF m = 1 THEN left + k ELSE left
<1>6. f \in Frames /\ f.func \in Nat /\ f.want \in Nat \cup {-1} /\ f.viaC \in BOOLEAN
  <2>1. f \in Frames BY <1>1, <1>3
  <2>2. f.want \in Nat \cup {-1} BY <1>1, <1>3 DEF ChainOK
  <2> HIDE DEF f
  <2> QED BY <2>1, <2>2 DEF Frames
<1>7. k \in Nat /\ nres \in Nat
  BY <1>6, StackFits DEF S!LuaStackAssumption
<1>9. EXTRA_STACK \in Nat /\ top \in Nat /\ top <= size - EXTRA_STACK
  BY <1>1, <1>2, StackFits DEF TopOK, S!LuaStackAssumption
<1> HIDE DEF n, f, js
<1>10. /\ ChainOK(chain, size, lv) /\ Len(chain) = m /\ \A i \in 1..m : chain[i] = cis[i]
       /\ \A i \in 1..m : Via(chain, i) = Via(cis, i)
  <2>1. m > 1 => lv = left
    <3>1. m \in Nat BY <1>3
    <3> HIDE DEF m, k
    <3> QED BY <3>1
  <2>2. m \in 1..Len(cis) BY <1>3 DEF n
  <2> HIDE DEF m, lv
  <2> QED BY <1>1, <2>1, <2>2, ChainPrefix
<1>8. JumpsOK(js, chain)
  <2>1. js = IF jmps # <<>> /\ jmps[Len(jmps)].depth = m /\ jmps[Len(jmps)].top = f.func
                /\ f.viaC
             THEN SubSeq(jmps, 1, Len(jmps) - 1) ELSE jmps
    BY <1>10 DEF js
  <2>2. Len(cis) > 1 BY <1>2 DEF n
  <2> QED BY <1>1, <2>1, <2>2, ReturnedJumps DEF n, f
<1>11. caller = cis[m] /\ caller \in Frames /\ caller.top \in Nat
  <2>1. m \in 1..m BY <1>3
  <2>2. caller = cis[m] BY <1>10, <2>1
  <2>3. cis[m] \in Frames BY <1>1, <1>3 DEF n
  <2> QED BY <2>2, <2>3 DEF Frames
<1>12. /\ ~caller.lua => f.want \in {-1, 0}
       /\ m > 1 /\ ~caller.lua => f.func + 1 <= caller.top
       /\ m > 1 => caller.top <= size - EXTRA_STACK /\ caller.func < caller.top
       /\ m = 1 => f.func = 1 + left /\ ~caller.lua
  <2> HIDE DEF m, chain, caller
  <2>1. f = cis[m + 1] BY <1>3 DEF f
  <2>2. ~caller.lua => f.want \in {-1, 0} BY <1>1, <1>3, <1>11, <2>1 DEF ChainOK, n
  <2>3. m > 1 /\ ~caller.lua => f.func + 1 <= caller.top
    BY <1>1, <1>3, <1>11, <2>1 DEF ChainOK, n
  <2>4. m > 1 => caller.top <= size - EXTRA_STACK /\ caller.func < caller.top
    BY <1>1, <1>3, <1>11 DEF ChainOK, n
  <2>5. m = 1 => f.func = 1 + left /\ ~caller.lua
    BY <1>1, <1>2, <1>11, <2>1 DEF ChainOK, n
  <2> QED BY <2>2, <2>3, <2>4, <2>5
<1> HIDE DEF m, chain, caller
<1>13. /\ nres <= top - f.func - 1
       /\ top' = (IF caller.lua /\ f.want # -1 THEN caller.top ELSE after)
       /\ cis' = (IF ~caller.lua /\ f.want = -1
                  THEN [chain EXCEPT ![m].top = S!Larger(@, after)] ELSE chain)
       /\ inC' = (IF f.viaC THEN inC - 1 ELSE inC)
       /\ jmps' = js /\ left' = lv
  BY <1>4, <1>10
<1>14. after \in Nat /\ lv \in Nat BY <1>1, <1>6, <1>7
<1>15. inC' = Via(chain, m)
  <2>1. Via(cis, m) \in Nat /\ Via(cis, m + 1) = IF cis[m + 1].viaC THEN Via(cis, m) + 1 ELSE Via(cis, m)
    BY <1>3, ViaNext
  <2>2. Via(chain, m) = Via(cis, m)
    <3>1. m \in 1..m BY <1>3
    <3> QED BY <1>10, <3>1
  <2> QED BY <1>1, <1>3, <1>6, <1>13, <2>1, <2>2 DEF f
<1>16. m = 1 => after = 1 + lv
  <2>1. m = 1 => f.func = 1 + left /\ lv = left + k BY <1>12
  <2> HIDE DEF k, lv
  <2> QED BY <1>1, <1>7, <2>1
<1> HIDE DEF lv
<1>17. CASE ~caller.lua /\ f.want = -1
  <2> DEFINE t == S!Larger(caller.top, after)
             c2 == [chain EXCEPT ![m].top = t]
  <2>1. k = nres /\ after <= top - 1 BY <1>6, <1>7, <1>9, <1>13, <1>17
  <2>2. t \in Nat /\ after <= t /\ caller.top <= t
        /\ (m > 1 => t <= size - EXTRA_STACK /\ caller.func < t)
    <3>1. caller.func \in Nat BY <1>11 DEF Frames
    <3> HIDE DEF after
    <3> QED BY <1>1, <1>9, <1>11, <1>12, <1>14, <2>1, <3>1 DEF S!Larger
  <2>3. cis' = c2 /\ top' = after
    <3>1. chain[m] = caller BY <1>10 DEF caller
    <3>2. cis' = [chain EXCEPT ![m].top = S!Larger(@, after)] /\ top' = after
      BY <1>13, <1>17
    <3> HIDE DEF after
    <3> QED BY <3>1, <3>2
  <2> HIDE DEF t
  <2>4. /\ ChainOK(c2, size, lv) /\ Len(c2) = m /\ c2[m].top = t
        /\ \A i \in 1..m :
             c2[i].lua = chain[i].lua /\ c2[i].viaC = chain[i].viaC /\ c2[i].func = chain[i].func
        /\ Via(c2, m) = Via(chain, m)
    <3>1. Len(chain) = m /\ chain[Len(chain)] = caller BY <1>10 DEF caller
    <3>2. Len(chain) > 1 => t <= size - EXTRA_STACK /\ chain[Len(chain)].func < t
      BY <2>2, <3>1
    <3>3. c2 = [chain EXCEPT ![Len(chain)].top = t] BY <3>1
    <3>4. t \in Nat BY <2>2
    <3> HIDE DEF c2
    <3>5. LET c3 == [chain EXCEPT ![Len(chain)].top = t]
          IN  /\ ChainOK(c3, size, lv) /\ Len(c3) = Len(chain) /\ c3[Len(chain)].top = t
              /\ \A i \in 1..Len(chain) :
                   c3[i].lua = chain[i].lua /\ c3[i].viaC = chain[i].viaC /\ c3[i].func = chain[i].func
              /\ Via(c3, Len(chain)) = Via(chain, Len(chain))
      BY <1>1, <1>10, <3>2, <3>4, ChainTopped
    <3> QED BY <3>1, <3>3, <3>5
  <2> HIDE DEF c2
  <2>5. JumpsOK(js, c2)
    <3>1. /\ chain \in Seq(Frames) /\ Len(chain) \in Nat /\ Len(c2) \in Nat /\ Len(chain) = Len(c2)
      BY <1>3, <1>10, <2>4 DEF ChainOK
    <3>2. \A i \in 1..Len(chain) :
             c2[i].lua = chain[i].lua /\ c2[i].viaC = chain[i].viaC /\ c2[i].func = chain[i].func
      BY <1>10, <2>4
    <3> QED BY <1>8, <3>1, <3>2, JumpsGrow
  <2>6. TopOK(after, c2, size, lv)
    <3> HIDE DEF after
    <3>1. after <= size - EXTRA_STACK BY <1>1, <1>9, <1>14, <2>1
    <3> QED BY <1>14, <1>16, <2>2, <2>4, <3>1 DEF TopOK
  <2>7. /\ left' \in Nat /\ SizeOK(size') /\ ChainOK(cis', size', left') /\ JumpsOK(jmps', cis')
        /\ TopOK(top', cis', size', left') /\ inC' = Via(cis', Len(cis'))
    BY <1>1, <1>5, <1>13, <1>14, <1>15, <2>3, <2>4, <2>5, <2>6
  <2> QED BY <2>7 DEF StackInv, SizeOK, ChainOK, JumpsOK, JumpOK, TopOK, Via
<1>18. CASE ~(~caller.lua /\ f.want = -1)
  <2> DEFINE t == IF caller.lua /\ f.want # -1 THEN caller.top ELSE after
  <2>1. cis' = chain /\ top' = t BY <1>13, <1>18
  <2>2. TopOK(t, chain, size, lv)
    <3>1. chain[Len(chain)] = caller BY DEF caller
    <3>2. CASE m = 1
      <4>1. t = after BY <1>12, <3>2
      <4> QED BY <1>10, <1>14, <1>16, <3>2, <4>1 DEF TopOK
    <3>3. CASE m > 1
      <4>1. CASE caller.lua /\ f.want # -1
        BY <1>10, <1>11, <1>12, <3>1, <3>3, <4>1 DEF TopOK
      <4>2. CASE caller.lua /\ f.want = -1
        <5>1. t = after /\ k = nres BY <4>2
        <5>2. after <= top - 1 BY <1>6, <1>7, <1>9, <1>13, <5>1
        <5> HIDE DEF after
        <5>3. after <= size - EXTRA_STACK BY <1>1, <1>9, <1>14, <5>2
        <5> QED BY <1>10, <1>14, <3>1, <3>3, <4>2, <5>1, <5>3 DEF TopOK
      <4>3. CASE ~caller.lua
        <5>1. f.want = 0 BY <1>12, <1>18, <4>3
        <5>2. t = after /\ k = 0 BY <4>3, <5>1
        <5>3. after <= caller.top BY <1>6, <1>11, <1>12, <3>3, <4>3, <5>2
        <5> HIDE DEF after
        <5>4. after <= size - EXTRA_STACK BY <1>1, <1>9, <1>11, <1>12, <1>14, <3>3, <5>3
        <5> QED BY <1>10, <1>14, <3>1, <3>3, <5>2, <5>3, <5>4 DEF TopOK
      <4> QED BY <1>6, <4>1, <4>2, <4>3
    <3> QED BY <1>3, <3>2, <3>3
  <2> HIDE DEF t
  <2>3. /\ left' \in Nat /\ SizeOK(size') /\ ChainOK(cis', size', left') /\ JumpsOK(jmps', cis')
        /\ TopOK(top', cis', size', left') /\ inC' = Via(cis', Len(cis'))
    BY <1>1, <1>5, <1>8, <1>10, <1>13, <1>14, <1>15, <2>1, <2>2
  <2> QED BY <2>3 DEF StackInv, SizeOK, ChainOK, JumpsOK, JumpOK, TopOK, Via
<1> QED BY <1>17, <1>18

\* The invariant where the frames keep their places and only limits and the size change.
LEMMA SameFrames ==
  ASSUME StackInv, NEW c2, NEW sz, SizeOK(sz), ChainOK(c2, sz, left), Len(c2) = Len(cis),
         \A i \in 1..Len(cis) :
           c2[i].lua = cis[i].lua /\ c2[i].viaC = cis[i].viaC /\ c2[i].func = cis[i].func,
         NEW t, TopOK(t, c2, sz, left),
         cis' = c2, size' = sz, top' = t, jmps' = jmps, inC' = inC, left' = left
  PROVE  StackInv'
PROOF
<1>1. /\ left \in Nat /\ ChainOK(cis, size, left) /\ JumpsOK(jmps, cis) /\ inC = Via(cis, Len(cis))
      /\ cis \in Seq(Frames) /\ Len(cis) \in Nat
  BY DEF StackInv, ChainOK
<1>2. JumpsOK(jmps, c2) BY <1>1, JumpsGrow
<1>3. Via(c2, Len(cis)) = Via(cis, Len(cis)) BY <1>1, ViaSame
<1>4. /\ left' \in Nat /\ SizeOK(size') /\ ChainOK(cis', size', left') /\ JumpsOK(jmps', cis')
      /\ TopOK(top', cis', size', left') /\ inC' = Via(cis', Len(cis'))
  BY <1>1, <1>2, <1>3
<1> QED BY <1>4 DEF StackInv, SizeOK, ChainOK, JumpsOK, JumpOK, TopOK, Via

\* What the invariant says of the running function.
LEMMA RunningFacts ==
  ASSUME StackInv, Len(cis) > 1
  PROVE  /\ Len(cis) \in Nat /\ Len(cis) \in 2..Len(cis) /\ cis[Len(cis)] \in Frames
         /\ cis[Len(cis)].func \in Nat /\ cis[Len(cis)].top \in Nat
         /\ cis[Len(cis)].top <= size - EXTRA_STACK /\ cis[Len(cis)].func < cis[Len(cis)].top
         /\ top \in Nat /\ top <= size - EXTRA_STACK
         /\ cis[Len(cis)].lua \/ top <= cis[Len(cis)].top
         /\ size \in Nat /\ EXTRA_STACK \in Nat
PROOF
<1>1. /\ ChainOK(cis, size, left) /\ TopOK(top, cis, size, left) /\ size \in Nat
      /\ cis \in Seq(Frames) /\ Len(cis) \in Nat
  BY DEF StackInv, ChainOK, SizeOK
<1>2. Len(cis) \in 2..Len(cis) /\ Len(cis) \in 1..Len(cis) BY <1>1
<1>3. cis[Len(cis)] \in Frames BY <1>1, <1>2
<1>4. cis[Len(cis)].func \in Nat /\ cis[Len(cis)].top \in Nat BY <1>3 DEF Frames
<1>5. cis[Len(cis)].top <= size - EXTRA_STACK /\ cis[Len(cis)].func < cis[Len(cis)].top
  BY <1>1, <1>2 DEF ChainOK
<1>6. EXTRA_STACK \in Nat BY StackFits DEF S!LuaStackAssumption
<1> QED BY <1>1, <1>2, <1>3, <1>4, <1>5, <1>6 DEF TopOK

\* A tail call takes the frame of its caller, which gets the limit that it needs.
LEMMA OpTailCallKeeps == StackInv /\ S!OpTailCall => StackInv'
PROOF
<1> SUFFICES ASSUME StackInv, S!OpTailCall PROVE StackInv' OBVIOUS
<1> DEFINE n == Len(cis)
           g == cis[n].func
<1>1. n > 1 /\ cis[n].lua BY DEF S!OpTailCall, S!inCall, S!current
<1>2. PICK func \in (g + 1)..(top - 1), f \in FrameSizes :
        LET room == S!Checked(top, f)
            limit == g + 1 + f
        IN  IF ~room.ok THEN S!Throw(jmps, room.size)
            ELSE /\ cis' = [cis EXCEPT ![n].top = limit] /\ top' = limit /\ size' = room.size
                 /\ jmps' = jmps /\ inC' = inC /\ left' = left
  BY DEF S!OpTailCall, S!current
<1> DEFINE room == S!Checked(top, f)
           limit == g + 1 + f
           c2 == [cis EXCEPT ![n].top = limit]
<1>3. /\ ChainOK(cis, size, left) /\ SizeOK(size) /\ size \in Nat
      /\ n \in Nat /\ g \in Nat /\ top \in Nat /\ EXTRA_STACK \in Nat
  BY <1>1, RunningFacts DEF StackInv
<1>4. f \in Nat /\ f > 0 BY StackFits DEF S!LuaStackAssumption
<1>5. SizeOK(room.size) /\ size <= room.size /\ (room.ok => top + f <= room.size - EXTRA_STACK)
  BY <1>3, <1>4, CheckedFits
<1> HIDE DEF room
<1>6. CASE ~room.ok
  <2>1. S!Throw(jmps, room.size) BY <1>2, <1>6 DEF room
  <2>2. Catches(jmps, cis, left) BY <1>1, PendingCatches
  <2> QED BY <1>5, <2>1, <2>2, ThrowKeeps
<1>7. CASE room.ok
  <2>1. /\ cis' = c2 /\ top' = limit /\ size' = room.size
        /\ jmps' = jmps /\ inC' = inC /\ left' = left
    BY <1>2, <1>7 DEF room
  <2>2. limit \in Nat /\ limit <= room.size - EXTRA_STACK /\ g < limit /\ room.size \in Nat
    <3> DEFINE z == room.size
    <3>1. z \in Nat /\ top + f <= z - EXTRA_STACK /\ g + 1 <= top - 1 BY <1>3, <1>5, <1>7 DEF SizeOK
    <3> HIDE DEF g, z
    <3>2. limit \in Nat /\ limit <= z - EXTRA_STACK /\ g < limit BY <1>3, <1>4, <3>1
    <3> QED BY <3>1, <3>2 DEF z
  <2>3. ChainOK(cis, room.size, left) BY <1>3, <1>5, <2>2, ChainLarger
  <2> HIDE DEF limit
  <2>4. /\ ChainOK(c2, room.size, left) /\ Len(c2) = n /\ c2[n].top = limit
        /\ \A i \in 1..n :
             c2[i].lua = cis[i].lua /\ c2[i].viaC = cis[i].viaC /\ c2[i].func = cis[i].func
    BY <2>2, <2>3, ChainTopped
  <2> HIDE DEF c2
  <2>5. TopOK(limit, c2, room.size, left)
    <3>1. n \in 1..n BY <1>1, <1>3
    <3>2. c2[n].lua BY <1>1, <2>4, <3>1
    <3>3. Len(c2) # 1 BY <1>1, <2>4
    <3> QED BY <2>2, <2>4, <3>2, <3>3 DEF TopOK
  <2> QED BY <1>5, <2>1, <2>4, <2>5, SameFrames
<1> QED BY <1>6, <1>7

LEMMA PushKeeps == StackInv /\ S!Push => StackInv'
PROOF
<1> SUFFICES ASSUME StackInv, S!Push PROVE StackInv' OBVIOUS
<1> DEFINE n == Len(cis)
<1>1. /\ n > 1 /\ ~cis[n].lua /\ top < cis[n].top /\ top' = top + 1 /\ size' = size
      /\ cis' = cis /\ jmps' = jmps /\ inC' = inC /\ left' = left
  BY DEF S!Push, S!inCall, S!current
<1>2. ChainOK(cis, size, left) /\ SizeOK(size) BY DEF StackInv
<1>3. TopOK(top + 1, cis, size, left)
  <2>1. top + 1 \in Nat /\ top + 1 <= cis[n].top /\ top + 1 <= size - EXTRA_STACK /\ n # 1
    <3> DEFINE m == cis[n].top
    <3>1. m \in Nat /\ m <= size - EXTRA_STACK /\ top < m /\ top \in Nat /\ size \in Nat
            /\ EXTRA_STACK \in Nat /\ n \in Nat
      BY <1>1, RunningFacts
    <3> HIDE DEF m
    <3>2. top + 1 \in Nat /\ top + 1 <= m /\ top + 1 <= size - EXTRA_STACK BY <3>1
    <3> QED BY <1>1, <3>2 DEF m
  <2> QED BY <2>1 DEF TopOK
<1> QED BY <1>1, <1>2, <1>3, SameFrames

\* lua_checkstack: the running C function gets one more slot, and the stack has it.
LEMMA CheckstackKeeps == StackInv /\ S!lua_checkstack => StackInv'
PROOF
<1> SUFFICES ASSUME StackInv, S!lua_checkstack PROVE StackInv' OBVIOUS
<1> DEFINE n == Len(cis)
           room == S!Checked(top, 1)
           lim == top + 1
           c2 == [cis EXCEPT ![n].top = lim]
<1>1. /\ n > 1 /\ ~cis[n].lua /\ top = cis[n].top /\ room.ok /\ top' = top /\ size' = room.size
      /\ cis' = c2 /\ jmps' = jmps /\ inC' = inC /\ left' = left
  BY DEF S!lua_checkstack, S!inCall, S!current
<1>2. /\ ChainOK(cis, size, left) /\ SizeOK(size) /\ n \in Nat /\ top \in Nat
      /\ EXTRA_STACK \in Nat /\ cis[n].func \in Nat /\ cis[n].func < top /\ size \in Nat
  BY <1>1, RunningFacts DEF StackInv
<1>3. /\ SizeOK(room.size) /\ size <= room.size /\ top + 1 <= room.size - EXTRA_STACK
      /\ room.size \in Nat
  BY <1>1, <1>2, CheckedFits DEF SizeOK
<1> HIDE DEF room
<1>4. ChainOK(cis, room.size, left) BY <1>2, <1>3, ChainLarger
<1>5. cis[n].func < top + 1 /\ top + 1 \in Nat /\ top <= room.size - EXTRA_STACK /\ top <= top + 1
  <2> DEFINE z == room.size
             g == cis[n].func
  <2>1. z \in Nat /\ top + 1 <= z - EXTRA_STACK /\ g \in Nat /\ g < top BY <1>2, <1>3
  <2> HIDE DEF z, g
  <2>2. g < top + 1 /\ top + 1 \in Nat /\ top <= z - EXTRA_STACK /\ top <= top + 1 BY <1>2, <2>1
  <2> QED BY <2>2 DEF z, g
<1>6. lim \in Nat /\ lim <= room.size - EXTRA_STACK /\ cis[n].func < lim /\ top <= lim
  BY <1>3, <1>5
<1> HIDE DEF lim
<1>7. /\ ChainOK(c2, room.size, left) /\ Len(c2) = n /\ c2[n].top = lim
      /\ \A i \in 1..n :
           c2[i].lua = cis[i].lua /\ c2[i].viaC = cis[i].viaC /\ c2[i].func = cis[i].func
  BY <1>3, <1>4, <1>6, ChainTopped
<1> HIDE DEF c2
<1>8. TopOK(top, c2, room.size, left)
  BY <1>1, <1>2, <1>5, <1>6, <1>7 DEF TopOK
<1> QED BY <1>1, <1>3, <1>7, <1>8, SameFrames

\* The collector shrinks the stack to what is in use.
LEMMA CollectKeeps == StackInv /\ S!Collect => StackInv'
PROOF
<1> SUFFICES ASSUME StackInv, S!Collect PROVE StackInv' OBVIOUS
<1> DEFINE n == Len(cis)
           r == S!Shrunk(top, cis, size)
           b == top + cis[1].top + size
<1>1. /\ n > 1 /\ top' = top /\ size' = r /\ cis' = cis /\ jmps' = jmps /\ inC' = inC
      /\ left' = left
  BY DEF S!Collect, S!inCall
<1>2. /\ ChainOK(cis, size, left) /\ SizeOK(size) /\ TopOK(top, cis, size, left) /\ size \in Nat
      /\ top \in Nat /\ cis \in Seq(Frames) /\ n \in Nat
  BY <1>1, RunningFacts DEF StackInv, ChainOK
<1>3. b \in Nat /\ \A i \in DOMAIN cis : cis[i].top \in Nat /\ cis[i].top <= b
  BY <1>2, ChainBounded
<1>4. top <= b
  <2>1. 1 \in DOMAIN cis BY <1>1, <1>2
  <2>2. cis[1].top \in Nat BY <1>3, <2>1
  <2> QED BY <1>2, <2>2
<1> HIDE DEF b
<1>5. /\ r \in Nat /\ (r <= LUAI_MAXSTACK \/ r = size)
      /\ r = size \/ (/\ top <= r - EXTRA_STACK
                      /\ \A i \in DOMAIN cis : cis[i].top <= r - EXTRA_STACK)
  BY <1>2, <1>3, <1>4, ShrunkFits
<1> HIDE DEF r
<1>6. ChainOK(cis, r, left)
  <2>1. \A i \in 2..Len(cis) : i \in DOMAIN cis /\ cis[i].top <= size - EXTRA_STACK
    BY <1>2 DEF ChainOK
  <2>2. \A i \in 2..Len(cis) : cis[i].top <= r - EXTRA_STACK BY <1>5, <2>1
  <2> QED BY <1>2, <2>2, ChainResized
<1>7. TopOK(top, cis, r, left) BY <1>2, <1>5 DEF TopOK
<1>8. SizeOK(r) BY <1>2, <1>5 DEF SizeOK
<1> QED BY <1>1, <1>6, <1>7, <1>8, SameFrames

\* An error, and a call of a Lua or a C function.
LEMMA CallsKeep == StackInv /\ (S!OpCall \/ S!CallFromC \/ S!Error) => StackInv'
PROOF
<1> SUFFICES ASSUME StackInv, S!OpCall \/ S!CallFromC \/ S!Error PROVE StackInv' OBVIOUS
<1> DEFINE n == Len(cis)
           g == cis[n].func
<1>1. n > 1 BY DEF S!OpCall, S!CallFromC, S!Error, S!inCall
<1>2. /\ SizeOK(size) /\ size \in Nat /\ n \in Nat /\ n # 1 /\ g \in Nat /\ top \in Nat
      /\ (cis[n].lua \/ top <= cis[n].top)
  BY <1>1, RunningFacts DEF StackInv
<1>3. FrameSizes \subseteq Nat BY StackFits DEF S!LuaStackAssumption
<1>4. CASE S!OpCall
  <2>1. cis[n].lua BY <1>4 DEF S!OpCall, S!current
  <2>2. PICK func \in (g + 1)..(top - 1), want \in {-1, 0, 1}, f \in {0} \cup FrameSizes :
          S!Call(f # 0, f, func, top, want, FALSE, jmps)
    BY <1>4, Zenon DEF S!OpCall, S!Callees, S!current, S!MULTRET
  <2> DEFINE lua == f # 0
             via == FALSE
             p == jmps
  <2>3. func \in Nat /\ func + 1 <= top /\ f \in Nat
    <3> HIDE DEF g
    <3> QED BY <1>2, <1>3, <2>2
  <2>4. lua \in BOOLEAN /\ via \in BOOLEAN /\ want \in {-1, 0, 1} BY <2>2
  <2>5. S!Call(lua, f, func, top, want, via, p) BY <2>2
  <2>6. /\ ~cis[n].lua => want \in {-1, 0}
        /\ n > 1 /\ ~cis[n].lua => func + 1 <= cis[n].top
        /\ n = 1 => func = 1 + left
        /\ p = jmps /\ n > 1
    <3>1. n > 1 /\ n # 1 BY <1>1, <1>2
    <3> HIDE DEF n
    <3> QED BY <2>1, <3>1
  <2> HIDE DEF lua, via, p
  <2> QED BY <1>2, <2>3, <2>4, <2>5, <2>6, CallKeeps
<1>5. CASE S!CallFromC
  <2>1. ~cis[n].lua /\ top > g + 1 BY <1>5 DEF S!CallFromC, S!current
  <2>2. PICK want \in {-1, 0}, protected \in BOOLEAN, f \in {0} \cup FrameSizes :
          S!Call(f # 0, f, top - 1, top, want, TRUE,
                 IF protected THEN S!Protect(top - 1) ELSE jmps)
    BY <1>5 DEF S!CallFromC, S!Callees, S!MULTRET
  <2> DEFINE lua == f # 0
             func == top - 1
             p == IF protected THEN S!Protect(func) ELSE jmps
  <2>3. func \in Nat /\ func + 1 <= top /\ func + 1 <= cis[n].top /\ f \in Nat
    <3>1. func + 1 = top /\ func \in Nat
      <4> HIDE DEF g
      <4> QED BY <1>2, <2>1
    <3>2. top <= cis[n].top BY <1>2, <2>1
    <3>3. f \in Nat BY <1>3
    <3>4. func + 1 <= top BY <1>2, <3>1
    <3>5. func + 1 <= cis[n].top BY <3>1, <3>2
    <3> QED BY <3>1, <3>3, <3>4, <3>5
  <2>4. S!Call(lua, f, func, top, want, TRUE, p) BY <2>2
  <2>5. lua \in BOOLEAN /\ TRUE \in BOOLEAN /\ want \in {-1, 0, 1} /\ want \in {-1, 0} BY <2>2
  <2>6. \/ p = jmps /\ n > 1
        \/ p = S!Protect(func) /\ TRUE /\ ~cis[n].lua
    <3>1. p = jmps \/ p = S!Protect(func) OBVIOUS
    <3> HIDE DEF p, func
    <3> QED BY <1>1, <2>1, <3>1
  <2> HIDE DEF func, p, lua
  <2>7. /\ ~cis[n].lua => want \in {-1, 0}
        /\ n > 1 /\ ~cis[n].lua => func + 1 <= cis[n].top
        /\ n = 1 => func = 1 + left
    BY <1>2, <2>3, <2>5
  <2> QED BY <1>2, <2>3, <2>4, <2>5, <2>6, <2>7, CallKeeps
<1>6. CASE S!Error
  <2>1. S!Throw(jmps, size) BY <1>6 DEF S!Error
  <2>2. Catches(jmps, cis, left) BY <1>1, PendingCatches
  <2> QED BY <1>2, <2>1, <2>2, ThrowKeeps
<1> QED BY <1>4, <1>5, <1>6

\* The firmware at the base level: it pushes, or calls with its arguments pushed.
LEMMA BaseFacts ==
  ASSUME StackInv, Len(cis) <= 1
  PROVE  /\ ChainOK(cis, size, left) /\ SizeOK(size) /\ JumpsOK(jmps, cis) /\ left \in Nat
         /\ TopOK(top, cis, size, left) /\ inC = Via(cis, Len(cis)) /\ Len(cis) = 1
         /\ ~cis[1].lua /\ ~cis[1].viaC /\ cis \in Seq(Frames)
PROOF
<1> DEFINE n == Len(cis)
<1>1. n \in Nat /\ n >= 1 /\ n <= 1 BY DEF StackInv, ChainOK
<1>2. n = 1
  <2> HIDE DEF n
  <2> QED BY <1>1
<1> QED BY <1>2 DEF StackInv, ChainOK

LEMMA PushAtBaseKeeps ==
  ASSUME StackInv, Len(cis) <= 1, NEW k \in Nat, S!PushAtBase(k)
  PROVE  StackInv'
PROOF
<1>1. /\ ChainOK(cis, size, left) /\ SizeOK(size) /\ JumpsOK(jmps, cis) /\ left \in Nat
      /\ TopOK(top, cis, size, left) /\ inC = Via(cis, Len(cis)) /\ Len(cis) = 1
  BY BaseFacts
<1>2. /\ top' = top + k /\ left' = left + k /\ size' = size /\ cis' = cis /\ jmps' = jmps
      /\ inC' = inC
  BY DEF S!PushAtBase
<1>3. ChainOK(cis, size, left + k) BY <1>1 DEF ChainOK
<1>4. TopOK(top + k, cis, size, left + k) BY <1>1 DEF TopOK
<1>5. /\ left' \in Nat /\ SizeOK(size') /\ ChainOK(cis', size', left') /\ JumpsOK(jmps', cis')
      /\ TopOK(top', cis', size', left') /\ inC' = Via(cis', Len(cis'))
  BY <1>1, <1>2, <1>3, <1>4
<1> QED BY <1>5 DEF StackInv, SizeOK, ChainOK, JumpsOK, JumpOK, TopOK, Via

LEMMA PCallFromBaseKeeps ==
  ASSUME StackInv, Len(cis) <= 1, NEW nargs \in Nat, NEW want \in {-1, 0},
         S!PCallFromBase(nargs, want)
  PROVE  StackInv'
PROOF
<1>1. Len(cis) = 1 /\ top = 1 + left /\ top \in Nat /\ ~cis[Len(cis)].lua
  BY BaseFacts DEF TopOK
<1>2. PICK f \in {0} \cup FrameSizes :
        S!Call(f # 0, f, top, top + 1 + nargs, want, TRUE, S!Protect(top))
  BY DEF S!PCallFromBase, S!Callees
<1> DEFINE t == top + 1 + nargs
           lua == f # 0
           n == Len(cis)
           p == S!Protect(top)
<1>3. t \in Nat /\ top + 1 <= t /\ f \in Nat /\ want \in {-1, 0, 1} /\ lua \in BOOLEAN
  BY <1>1, <1>2, StackFits DEF S!LuaStackAssumption
<1>4. S!Call(lua, f, top, t, want, TRUE, p) BY <1>2
<1> HIDE DEF t, lua
<1>5. /\ ~cis[n].lua => want \in {-1, 0}
      /\ n > 1 /\ ~cis[n].lua => top + 1 <= cis[n].top
      /\ n = 1 => top = 1 + left
      /\ \/ p = jmps /\ n > 1
         \/ p = S!Protect(top) /\ TRUE /\ ~cis[n].lua
  <2>1. n = 1 BY <1>1
  <2> HIDE DEF n
  <2> QED BY <1>1, <2>1
<1> QED BY <1>1, <1>3, <1>4, <1>5, CallKeeps

-----------------------------------------------------------------------------
LEMMA StackInit == S!Init => StackInv
PROOF
<1> SUFFICES ASSUME S!Init PROVE StackInv OBVIOUS
<1> DEFINE f == [lua |-> FALSE, func |-> 0, top |-> 1 + LUA_MINSTACK, want |-> 0, viaC |-> FALSE]
<1>1. /\ LUA_MINSTACK \in Nat /\ LUAI_MAXSTACK \in Nat /\ LUAI_MAXSTACK >= 2 * LUA_MINSTACK
  BY StackFits DEF S!LuaStackAssumption
<1>2. /\ top = 1 /\ size = 2 * LUA_MINSTACK /\ cis = <<f>> /\ jmps = <<>> /\ inC = 0 /\ left = 0
  BY DEF S!Init
<1>3. f \in Frames /\ ~f.lua /\ ~f.viaC /\ f.want = 0 BY <1>1 DEF Frames
<1> HIDE DEF f
<1>4. cis \in Seq(Frames) /\ Len(cis) = 1 /\ cis[1] = f BY <1>2, <1>3
<1>5. ChainOK(cis, size, left) BY <1>2, <1>3, <1>4 DEF ChainOK
<1>6. jmps \in Seq(Jumps) /\ Len(jmps) = 0 BY <1>2, EmptySeq
<1>7. JumpsOK(jmps, cis) BY <1>4, <1>6 DEF JumpsOK
<1>8. TopOK(top, cis, size, left) BY <1>2, <1>4 DEF TopOK
<1>9. inC = Via(cis, Len(cis)) BY <1>2, <1>3, <1>4, ViaBase
<1>10. SizeOK(size) /\ left \in Nat BY <1>1, <1>2 DEF SizeOK
<1> QED BY <1>5, <1>7, <1>8, <1>9, <1>10 DEF StackInv

LEMMA StackStep == StackInv /\ S!Next => StackInv'
PROOF
<1> SUFFICES ASSUME StackInv, S!Next PROVE StackInv' OBVIOUS
<1>1. Len(cis) \in Nat BY DEF StackInv, ChainOK
<1>2. ASSUME ~S!inCall PROVE Len(cis) <= 1 BY <1>1, <1>2 DEF S!inCall
<1>3. CASE S!RunChunk
  BY <1>2, <1>3, PCallFromBaseKeeps DEF S!RunChunk, S!MULTRET
<1>4. CASE S!FindTick
  BY <1>2, <1>4, PushAtBaseKeeps DEF S!FindTick
<1>5. CASE S!luaCallSetup
  BY <1>2, <1>5, PushAtBaseKeeps, PCallFromBaseKeeps DEF S!luaCallSetup
<1>6. CASE S!luaHandleKey
  BY <1>2, <1>6, PushAtBaseKeeps, PCallFromBaseKeeps DEF S!luaHandleKey
<1>7. CASE S!luaTick
  BY <1>2, <1>7, PCallFromBaseKeeps DEF S!luaTick
<1>8. CASE S!Inside
  BY <1>8, CallsKeep, OpTailCallKeeps, PushKeeps, CheckstackKeeps, ReturnKeeps, CollectKeeps
  DEF S!Inside
<1> QED BY <1>3, <1>4, <1>5, <1>6, <1>7, <1>8 DEF S!Next

\* LuaStack counts with the Cardinality of its own instance.
LEMMA CountsAgree == ASSUME NEW T PROVE S!Cardinality(T) = Cardinality(T)
  BY DEF S!Cardinality, Cardinality, S!IsFiniteSet, IsFiniteSet

\* What the run checks follows from the invariant.
LEMMA StackSafe == StackInv => S!FramesFit /\ S!BaseRestored
PROOF
<1> SUFFICES ASSUME StackInv PROVE S!FramesFit /\ S!BaseRestored OBVIOUS
<1>1. /\ ChainOK(cis, size, left) /\ SizeOK(size) /\ JumpsOK(jmps, cis)
      /\ TopOK(top, cis, size, left) /\ inC = Via(cis, Len(cis))
      /\ cis \in Seq(Frames) /\ Len(cis) \in Nat /\ Len(cis) >= 1 /\ ~cis[1].viaC
  BY DEF StackInv, ChainOK
<1>2. S!FramesFit
  BY <1>1 DEF S!FramesFit, S!stack_last, S!inCall, S!current, ChainOK, TopOK, SizeOK
<1>3. inC = S!Cardinality({i \in DOMAIN cis : cis[i].viaC})
  <2>1. DOMAIN cis = 1..Len(cis) BY <1>1
  <2> QED BY <1>1, <2>1, CountsAgree DEF Via
<1>4. ASSUME ~S!inCall PROVE jmps = <<>> /\ inC = 0 /\ top = 1 + left
  <2>1. Len(cis) = 1
    <3> DEFINE n == Len(cis)
    <3>1. n \in Nat /\ n >= 1 /\ ~(n > 1) BY <1>1, <1>4 DEF S!inCall
    <3>2. n = 1
      <4> HIDE DEF n
      <4> QED BY <3>1
    <3> QED BY <3>2
  <2>2. jmps \in Seq(Jumps) /\ Len(jmps) \in Nat BY <1>1 DEF JumpsOK
  <2>3. Len(jmps) = 0
    <3>1. SUFFICES ASSUME Len(jmps) >= 1 PROVE FALSE BY <2>2
    <3>2. 1 \in 1..Len(jmps) BY <2>2, <3>1
    <3>3. JumpOK(jmps[1], cis) BY <1>1, <3>2 DEF JumpsOK
    <3> QED BY <2>1, <3>3 DEF JumpOK
  <2>4. jmps = <<>> BY <2>2, <2>3
  <2>5. inC = 0 BY <1>1, <2>1, ViaBase
  <2> QED BY <1>1, <2>1, <2>4, <2>5 DEF TopOK
<1> QED BY <1>2, <1>3, <1>4 DEF S!BaseRestored

\* Frames always lie within the stack, and a call from the main loop leaves nothing
\* behind but what failures leave: for every size of the stack, limit of C calls,
\* and set of frame sizes.
THEOREM StackStaysSound == Spec => []StackSound
PROOF
<1> DEFINE I == part = "stack" => StackInv
<1>1. Init => I BY StackInit DEF Init
<1>2. I /\ [Next]_vars => I'
  <2> SUFFICES ASSUME part = "stack" => StackInv, [Next]_vars, part' = "stack"
      PROVE  StackInv'
    OBVIOUS
  <2>1. CASE Next
    <3>1. part = "stack" /\ S!Next BY <2>1 DEF Next
    <3> QED BY <3>1, StackStep
  <2>2. CASE UNCHANGED vars
    <3>1. /\ part' = part /\ UNCHANGED <<top, size, cis, jmps, inC, left>>
      BY <2>2 DEF vars, stackVars
    <3>2. StackInv BY <3>1
    <3> QED BY <3>1, <3>2 DEF StackInv, SizeOK, ChainOK, JumpsOK, JumpOK, TopOK, Via
  <2> QED BY <2>1, <2>2
<1>3. I => StackSound BY StackSafe DEF StackSound
<1> QED BY <1>1, <1>2, <1>3, PTL DEF Spec

-----------------------------------------------------------------------------
(***************************************************************************)
(* The collector: what holds between any two of its steps.                 *)
(***************************************************************************)
Objects == G!Objects
Lists == G!Lists
Elements(s) == {s[i] : i \in DOMAIN s}
In(ls, l) == Elements(ls[l])
Distinct(s) == \A i, j \in DOMAIN s : s[i] = s[j] => i = j

\* What is neither freed nor waits for it.
LiveIn(col) == {o \in Objects : col[o] \in {"white", "gray", "black"}}

ObjectsOK(col, e, m) ==
  /\ col \in [Objects -> {"free", "white", "dead", "gray", "black"}]
  /\ e \in [Objects -> [Slots -> (Objects \cup {NoObject}) \X (Objects \cup {NoObject})]]
  /\ m \in [Objects -> SUBSET {"k", "v"}]
  /\ \A o \in Objects, i \in Slots : e[o][i] # G!Empty => e[o][i][2] \in Objects
  /\ \A o \in Objects : col[o] = "free" \/ o \in StringObjs =>
        \A i \in Slots : e[o][i] = G!Empty
  /\ \A o \in Objects \ Tables : m[o] = {}

\* Every object is in one place of one list, unless it is free.
Separate(ls) ==
  /\ ls \in [Lists -> Seq(Objects)]
  /\ \A l \in Lists : Distinct(ls[l])
  /\ \A l, k \in Lists : l # k => In(ls, l) \cap In(ls, k) = {}
ListsOK(ls, col) ==
  /\ Separate(ls)
  /\ \A o \in Objects : col[o] # "free" <=> \E l \in Lists : o \in In(ls, l)
  /\ In(ls, "finobj") \subseteq Userdata /\ In(ls, "tobefnz") \subseteq Userdata

\* What the program and the finalizers hold is live, and so is what it refers to.
ClosedOK(col, e, st, ls) ==
  /\ st \subseteq LiveIn(col) /\ Registry \in LiveIn(col)
  /\ In(ls, "finobj") \subseteq LiveIn(col) /\ In(ls, "tobefnz") \subseteq LiveIn(col)
  /\ \A o \in LiveIn(col) : G!Refs(e, o) \subseteq LiveIn(col)

\* While marking, nothing is dead, a black object refers to no white one, and
\* each gray one waits on the list that it belongs to.
MarkOK(col, e, ls, gr, again, weak) ==
  /\ \A o \in Objects : col[o] # "dead"
  /\ \A o \in Objects : col[o] = "black" => \A x \in G!Refs(e, o) : col[x] # "white"
  /\ \A o \in Objects : col[o] = "gray" => o \in gr \cup again \cup weak
  /\ gr \subseteq Objects \cup {Main} /\ \A o \in gr \ {Main} : col[o] = "gray"
  /\ weak \subseteq Tables /\ \A o \in weak : col[o] = "gray"
  /\ gr \cap weak = {}
  /\ \A o \in In(ls, "tobefnz") : col[o] # "white"

\* A freed object has no metatable.
Scrubbed(m, col) == [o \in Objects |-> IF col[o] = "free" THEN {} ELSE m[o]]

\* Where a sweep stands, all objects that it has passed are white.
PassedWhite(ls, ptr, l, col) ==
  /\ ptr = "null" => \A o \in In(ls, l) : col[o] = "white"
  /\ ptr \notin {"null", l} =>
       \E p \in DOMAIN ls[l] : ls[l][p] = ptr /\ \A i \in 1..p : col[ls[l][i]] = "white"

\* The lists before the one that is swept are white, and after a sweep all is.
SweptBefore(st) ==
  {l \in Lists : \/ st = "finobj" /\ l = "allgc"
                 \/ st = "tobefnz" /\ l # "tobefnz"}
SweepOK(st, ptr, ls, col) ==
  /\ st \in Lists \cup {"pause", "propagate", "atomic", "swpend", "callfin"}
  /\ st \in {"swpend", "callfin", "pause"} => \A o \in Objects : col[o] \in {"free", "white"}
  /\ st \in Lists => /\ \A l \in SweptBefore(st) : \A o \in In(ls, l) : col[o] = "white"
                     /\ PassedWhite(ls, ptr, st, col)
  /\ st = "tobefnz" => ptr = "tobefnz"
  /\ st = "swpend" => ptr = "null"

GcInv ==
  /\ ObjectsOK(color, entry, mode) /\ allweak \subseteq Tables
  /\ ListsOK(lists, color)
  /\ ClosedOK(color, entry, stack, lists)
  /\ gcstate \in {"propagate", "atomic"} =>
       MarkOK(color, entry, lists, gray, grayagain, allweak)
  /\ SweepOK(gcstate, sweepgc, lists, color)

-----------------------------------------------------------------------------
(* What an object refers to, and what a visit to it marks                   *)

LEMMA RefsAre ==
  ASSUME NEW e, NEW o
  PROVE  \A x : x \in G!Refs(e, o) <=>
            x # NoObject /\ \E i \in Slots : x = e[o][i][1] \/ x = e[o][i][2]
PROOF
<1>1. G!Empty[1] = NoObject /\ G!Empty[2] = NoObject BY DEF G!Empty
<1>2. ASSUME NEW x, x \in G!Refs(e, o)
      PROVE  x # NoObject /\ \E i \in Slots : x = e[o][i][1] \/ x = e[o][i][2]
  BY <1>2 DEF G!Refs, G!Entries
<1>3. ASSUME NEW x, x # NoObject, NEW i \in Slots, x = e[o][i][1] \/ x = e[o][i][2]
      PROVE  x \in G!Refs(e, o)
  <2>1. e[o][i] # G!Empty BY <1>1, <1>3
  <2>2. e[o][i] \in G!Entries(e, o) BY <2>1 DEF G!Entries
  <2>3. x \in {e[o][i][1], e[o][i][2]} BY <1>3
  <2> QED BY <1>3, <2>2, <2>3 DEF G!Refs
<1> QED BY <1>2, <1>3

LEMMA MarksAre ==
  ASSUME NEW o, NEW C
  PROVE  \A x : x \in G!Marks(o, C) <=>
            /\ x # NoObject
            /\ \E i \in Slots : \/ x = entry[o][i][1] /\ G!MarksKey(o, entry[o][i])
                                \/ x = entry[o][i][2] /\ G!MarksValue(o, entry[o][i], C)
PROOF
<1>1. G!Empty[1] = NoObject /\ G!Empty[2] = NoObject BY DEF G!Empty
<1>2. ASSUME NEW x, x \in G!Marks(o, C)
      PROVE  /\ x # NoObject
             /\ \E i \in Slots : \/ x = entry[o][i][1] /\ G!MarksKey(o, entry[o][i])
                                 \/ x = entry[o][i][2] /\ G!MarksValue(o, entry[o][i], C)
  BY <1>2 DEF G!Marks, G!Entries
<1>3. ASSUME NEW x, x # NoObject, NEW i \in Slots,
             \/ x = entry[o][i][1] /\ G!MarksKey(o, entry[o][i])
             \/ x = entry[o][i][2] /\ G!MarksValue(o, entry[o][i], C)
      PROVE  x \in G!Marks(o, C)
  <2>1. entry[o][i] # G!Empty BY <1>1, <1>3
  <2>2. entry[o][i] \in G!Entries(entry, o) BY <2>1 DEF G!Entries
  <2> QED BY <1>3, <2>2 DEF G!Marks
<1> QED BY <1>2, <1>3

\* A visit marks no more than the references, and no less when more is marked;
\* one to a strong object marks them all.
LEMMA MarksBounds ==
  ASSUME NEW o, NEW C
  PROVE  /\ G!Marks(o, C) \subseteq G!Refs(entry, o)
         /\ \A D : C \subseteq D => G!Marks(o, C) \subseteq G!Marks(o, D)
         /\ G!Mode(o) = {} => G!Marks(o, C) = G!Refs(entry, o)
PROOF
<1>1. G!Marks(o, C) \subseteq G!Refs(entry, o) BY RefsAre, MarksAre
<1>2. ASSUME NEW D, C \subseteq D PROVE G!Marks(o, C) \subseteq G!Marks(o, D)
  <2>1. \A p : G!MarksValue(o, p, C) => G!MarksValue(o, p, D)
    BY <1>2 DEF G!MarksValue, G!Stays
  <2>2. \A x : x \in G!Marks(o, C) => x \in G!Marks(o, D) BY <2>1, MarksAre
  <2> QED BY <2>2
<1>3. ASSUME G!Mode(o) = {} PROVE G!Refs(entry, o) \subseteq G!Marks(o, C)
  <2>1. \A p : G!MarksKey(o, p) /\ G!MarksValue(o, p, C) BY <1>3 DEF G!MarksKey, G!MarksValue
  <2> QED BY <2>1, RefsAre, MarksAre
<1> QED BY <1>1, <1>2, <1>3

LEMMA RefsType ==
  ASSUME ObjectsOK(color, entry, mode), NEW o \in Objects
  PROVE  G!Refs(entry, o) \subseteq Objects
PROOF
<1>1. \A i \in Slots : /\ entry[o][i][1] \in Objects \cup {NoObject}
                       /\ entry[o][i][2] \in Objects \cup {NoObject}
  BY DEF ObjectsOK
<1> QED BY <1>1, RefsAre

\* Spread is the least set that is closed under the visits.
LEMMA SpreadIsLeast ==
  ASSUME ObjectsOK(color, entry, mode), NEW Seeds \in SUBSET Objects, NEW T
  PROVE  /\ Seeds \subseteq G!Spread(Seeds, T) /\ G!Spread(Seeds, T) \subseteq Objects
         /\ \A x \in G!Spread(Seeds, T) \cap T : G!Marks(x, G!Spread(Seeds, T)) \subseteq G!Spread(Seeds, T)
         /\ \A C \in SUBSET Objects :
               Seeds \subseteq C /\ (\A x \in C \cap T : G!Marks(x, C) \subseteq C)
                  => G!Spread(Seeds, T) \subseteq C
PROOF
<1> DEFINE Q == G!Spread(Seeds, T)
<1>1. /\ Q \subseteq Objects
      /\ \A o \in Objects : o \in Q <=>
            \A C \in SUBSET Objects :
               (Seeds \subseteq C /\ \A x \in C \cap T : G!Marks(x, C) \subseteq C) => o \in C
  BY DEF G!Spread, Objects
<1> HIDE DEF Q
<1>2. Seeds \subseteq Q BY <1>1
<1>3. \A C \in SUBSET Objects :
         Seeds \subseteq C /\ (\A x \in C \cap T : G!Marks(x, C) \subseteq C) => Q \subseteq C
  BY <1>1
<1>4. ASSUME NEW x \in Q \cap T, NEW y \in G!Marks(x, Q) PROVE y \in Q
  <2>1. y \in Objects BY <1>1, MarksBounds, RefsType
  <2>2. ASSUME NEW C \in SUBSET Objects, Seeds \subseteq C,
               \A z \in C \cap T : G!Marks(z, C) \subseteq C
        PROVE  y \in C
    <3>1. Q \subseteq C BY <1>3, <2>2
    <3>2. G!Marks(x, Q) \subseteq G!Marks(x, C) BY <3>1, MarksBounds
    <3> QED BY <2>2, <3>1, <3>2
  <2> QED BY <1>1, <2>1, <2>2
<1> QED BY <1>1, <1>2, <1>3, <1>4 DEF Q

\* What reallymarkobject leaves: nothing of Seeds is white, and no object that it
\* turned black refers to a white one.
LEMMA PaintIs ==
  ASSUME ObjectsOK(color, entry, mode), allweak \subseteq Tables, NEW Seeds \in SUBSET Objects
  PROVE  LET P == G!Paint(Seeds)
         IN  /\ P \in [Objects -> {"free", "white", "dead", "gray", "black"}]
             /\ \A o \in Objects : color[o] # "white" => P[o] = color[o]
             /\ \A o \in Objects : color[o] = "white" => P[o] \in {"white", "gray", "black"}
             /\ \A o \in Seeds : P[o] # "white"
             /\ \A o \in Objects : P[o] = "black" =>
                   \/ color[o] = "black"
                   \/ color[o] = "white" /\ \A x \in G!Refs(entry, o) : P[x] # "white"
             /\ G!Queued(Seeds) \subseteq Objects
             /\ \A o \in Objects : o \in G!Queued(Seeds) <=> color[o] = "white" /\ P[o] = "gray"
PROOF
<1> DEFINE P == G!Paint(Seeds)
           W == G!White(color)
           U == Userdata \cap W
           Q == G!Spread(Seeds \cap W, U)
<1>1. W \subseteq Objects /\ \A o \in Objects : o \in W <=> color[o] = "white"
  BY DEF G!White, Objects
<1> HIDE DEF W
<1>2. Seeds \cap W \in SUBSET Objects BY <1>1
<1>3. /\ Seeds \cap W \subseteq Q /\ Q \subseteq Objects
      /\ \A x \in Q \cap U : G!Marks(x, Q) \subseteq Q
  BY <1>2, SpreadIsLeast, Zenon
<1>4. G!NewlyMarked(Seeds) = Q \cap W BY DEF G!NewlyMarked, W
<1> HIDE DEF Q
<1>5. /\ P \in [Objects -> {"free", "white", "dead", "gray", "black"}]
      /\ \A o \in Objects :
            P[o] = IF o \notin Q \cap W THEN color[o]
                   ELSE IF o \in StringObjs \cup Userdata THEN "black" ELSE "gray"
  <2>1. P = [o \in Objects |->
               IF o \notin Q \cap W THEN color[o]
               ELSE IF o \in StringObjs \cup Userdata THEN "black" ELSE "gray"]
    BY <1>4 DEF G!Paint, Objects
  <2>2. \A o \in Objects : color[o] \in {"free", "white", "dead", "gray", "black"}
    BY DEF ObjectsOK
  <2> HIDE DEF P
  <2> QED BY <2>1, <2>2
<1>6. G!Queued(Seeds) = (Q \cap W) \ (StringObjs \cup Userdata) BY <1>4 DEF G!Queued
<1> HIDE DEF P
<1>7. \A o \in Seeds : P[o] # "white" BY <1>1, <1>3, <1>5
<1>8. ASSUME NEW o \in Objects, P[o] = "black", color[o] # "black"
      PROVE  color[o] = "white" /\ \A x \in G!Refs(entry, o) : P[x] # "white"
  <2>1. o \in Q \cap W /\ o \in StringObjs \cup Userdata BY <1>5, <1>8
  <2>2. CASE o \in StringObjs
    <3>1. \A i \in Slots : entry[o][i] = G!Empty BY <2>2 DEF ObjectsOK
    <3>2. G!Refs(entry, o) = {} BY <3>1, RefsAre DEF G!Empty
    <3> QED BY <1>1, <2>1, <3>2
  <2>3. CASE o \in Userdata
    <3>1. o \notin Tables BY <2>3, ObjectsFit DEF G!LuaGcAssumption
    <3>2. G!Mode(o) = {} BY <3>1 DEF G!Mode, ObjectsOK
    <3>3. G!Refs(entry, o) \subseteq Q BY <1>3, <2>1, <2>3, <3>2, MarksBounds
    <3>4. ASSUME NEW x \in Q PROVE P[x] # "white"
      <4>1. x \in Objects BY <1>3
      <4> QED BY <1>1, <1>5, <4>1
    <3> QED BY <1>1, <2>1, <3>3, <3>4
  <2> QED BY <2>1, <2>2, <2>3
<1>9. \A o \in Objects : o \in (Q \cap W) \ (StringObjs \cup Userdata)
         <=> color[o] = "white" /\ P[o] = "gray"
  BY <1>1, <1>5
<1>10. \A o \in Objects : color[o] # "white" => P[o] = color[o] BY <1>1, <1>5
<1>11. \A o \in Objects : color[o] = "white" => P[o] \in {"white", "gray", "black"} BY <1>1, <1>5
<1> QED BY <1>1, <1>5, <1>6, <1>7, <1>8, <1>9, <1>10, <1>11 DEF P

-----------------------------------------------------------------------------
(* What is kept of a list                                                   *)

\* A nonempty set of numbers has a least one.
LEMMA LeastExists ==
  ASSUME NEW s \in SUBSET Nat, s # {}
  PROVE  \E m \in s : \A k \in s : m <= k
PROOF
<1>1. PICK m \in s : \A k \in s : ~(<<k, m>> \in OpToRel(<, Nat))
  BY WFMin, NatLessThanWellFounded, Zenon
<1>2. m \in Nat /\ \A k \in s : ~(k < m) BY <1>1, Zenon DEF OpToRel
<1>3. \A k \in s : m <= k BY <1>2
<1> QED BY <1>1, <1>3

\* What of the first n is kept, when before is what of those before it is.
Kept(s, Wanted, n, before) ==
  IF n = 0 THEN <<>> ELSE IF s[n] \in Wanted THEN Append(before, s[n]) ELSE before
KeptUpTo(s, Wanted, j, f) == f = [n \in 0..j |-> Kept(s, Wanted, n, f[n - 1])]

LEMMA KeptExists ==
  ASSUME NEW s, NEW Wanted, NEW j \in Nat
  PROVE  \E f : KeptUpTo(s, Wanted, j, f)
PROOF
<1> DEFINE Good(i) == \E f : KeptUpTo(s, Wanted, i, f)
           Bad == {i \in Nat : ~Good(i)}
<1> SUFFICES ASSUME Bad # {} PROVE FALSE OBVIOUS
<1>1. PICK m \in Nat : ~Good(m) /\ \A i \in Nat : ~Good(i) => m <= i
  <2>1. Bad \in SUBSET Nat OBVIOUS
  <2>2. PICK m \in Bad : \A i \in Bad : m <= i
    <3> HIDE DEF Bad
    <3> QED BY <2>1, LeastExists
  <2> QED BY <2>2
<1>2. CASE m = 0
  <2> DEFINE f == [n \in 0..0 |-> <<>>]
  <2>1. KeptUpTo(s, Wanted, 0, f) BY DEF KeptUpTo, Kept
  <2> QED BY <1>1, <1>2, <2>1
<1>3. CASE m # 0
  <2>1. m - 1 \in Nat /\ Good(m - 1) BY <1>1, <1>3
  <2>2. PICK f : KeptUpTo(s, Wanted, m - 1, f) BY <2>1
  <2> DEFINE g == [n \in 0..m |-> Kept(s, Wanted, n, f[n - 1])]
  <2>3. \A n \in 0..(m - 1) : f[n] = Kept(s, Wanted, n, f[n - 1]) BY <2>2 DEF KeptUpTo
  <2>4. \A n \in 0..m : g[n] = Kept(s, Wanted, n, f[n - 1]) OBVIOUS
  <2>5. \A n \in 0..(m - 1) : n \in 0..m /\ g[n] = f[n] BY <2>1, <2>3, <2>4
  <2>6. ASSUME NEW n \in 0..m
        PROVE  Kept(s, Wanted, n, f[n - 1]) = Kept(s, Wanted, n, g[n - 1])
    <3>1. CASE n = 0 BY <3>1 DEF Kept
    <3>2. CASE n # 0
      <4>1. n - 1 \in 0..(m - 1) BY <3>2
      <4> HIDE DEF g
      <4> QED BY <4>1, <2>5
    <3> QED BY <3>1, <3>2
  <2>7. KeptUpTo(s, Wanted, m, g) BY <2>6 DEF KeptUpTo
  <2> QED BY <1>1, <2>7
<1> QED BY <1>2, <1>3

\* f[n] is what Keep has collected after n objects of s.
Builds(s, Wanted, f) ==
  /\ f[0] = <<>>
  /\ \A n \in 1..Len(s) :
       f[n] = IF s[n] \in Wanted THEN Append(f[n - 1], s[n]) ELSE f[n - 1]

LEMMA KeepUnfolds ==
  ASSUME NEW s, NEW Wanted, Len(s) \in Nat
  PROVE  \E f : G!Keep(s, Wanted) = f[Len(s)] /\ Builds(s, Wanted, f)
PROOF
<1> DEFINE N == Len(s)
           kept == CHOOSE f : f = [n \in 0..N |->
              IF n = 0 THEN <<>>
              ELSE IF s[n] \in Wanted THEN Append(f[n - 1], s[n]) ELSE f[n - 1]]
<1>1. G!Keep(s, Wanted) = kept[N] BY DEF G!Keep
<1>2. \E f : f = [n \in 0..N |->
              IF n = 0 THEN <<>>
              ELSE IF s[n] \in Wanted THEN Append(f[n - 1], s[n]) ELSE f[n - 1]]
  <2>1. PICK f : KeptUpTo(s, Wanted, N, f) BY KeptExists
  <2>2. f = [n \in 0..N |->
              IF n = 0 THEN <<>>
              ELSE IF s[n] \in Wanted THEN Append(f[n - 1], s[n]) ELSE f[n - 1]]
    BY <2>1 DEF KeptUpTo, Kept
  <2> QED BY <2>2
<1>3. kept = [n \in 0..N |->
              IF n = 0 THEN <<>>
              ELSE IF s[n] \in Wanted THEN Append(kept[n - 1], s[n]) ELSE kept[n - 1]]
  <2> HIDE DEF kept
  <2> QED BY <1>2 DEF kept
<1>4. 0 \in 0..N /\ \A n \in 1..N : n \in 0..N /\ n # 0 OBVIOUS
<1> HIDE DEF kept
<1>5. kept[0] = <<>> BY <1>3, <1>4
<1>6. ASSUME NEW n \in 1..N
      PROVE  kept[n] = IF s[n] \in Wanted THEN Append(kept[n - 1], s[n]) ELSE kept[n - 1]
  BY <1>3, <1>4
<1>7. Builds(s, Wanted, kept) BY <1>5, <1>6 DEF Builds
<1> QED BY <1>1, <1>7

\* Keep(s, Wanted) has the elements of s that are in Wanted, each once if s has.
LEMMA KeepIs ==
  ASSUME NEW A, NEW s \in Seq(A), Distinct(s), NEW Wanted
  PROVE  /\ G!Keep(s, Wanted) \in Seq(A) /\ Distinct(G!Keep(s, Wanted))
         /\ Elements(G!Keep(s, Wanted)) = Elements(s) \cap Wanted
PROOF
<1>0. Len(s) \in Nat /\ DOMAIN s = 1..Len(s) /\ \A i \in 1..Len(s) : s[i] \in A
  BY LenProperties
<1>a. Len(s) \in Nat BY <1>0
<1>b. PICK f : G!Keep(s, Wanted) = f[Len(s)] /\ Builds(s, Wanted, f) BY <1>a, KeepUnfolds
<1>1. /\ G!Keep(s, Wanted) = f[Len(s)] /\ f[0] = <<>>
      /\ \A n \in 1..Len(s) :
            f[n] = IF s[n] \in Wanted THEN Append(f[n - 1], s[n]) ELSE f[n - 1]
  BY <1>b DEF Builds
<1> DEFINE Good(n) == /\ f[n] \in Seq(A) /\ Distinct(f[n])
                      /\ Elements(f[n]) = {s[i] : i \in 1..n} \cap Wanted
           Bad == {n \in Nat : n <= Len(s) /\ ~Good(n)}
<1>2. ASSUME Bad # {} PROVE FALSE
  <2>1. PICK m \in Nat : /\ m <= Len(s) /\ ~Good(m)
                         /\ \A n \in Nat : n <= Len(s) /\ ~Good(n) => m <= n
    <3>1. Bad \in SUBSET Nat OBVIOUS
    <3>2. PICK m \in Bad : \A n \in Bad : m <= n
      <4> HIDE DEF Bad
      <4> QED BY <1>2, <3>1, LeastExists
    <3> QED BY <3>2
  <2>2. CASE m = 0
    <3>1. f[0] \in Seq(A) /\ DOMAIN f[0] = {} BY <1>1, EmptySeq
    <3>2. Distinct(f[0]) /\ Elements(f[0]) = {} BY <3>1 DEF Distinct, Elements
    <3>3. {s[i] : i \in 1..0} = {} OBVIOUS
    <3> QED BY <2>1, <2>2, <3>1, <3>2, <3>3
  <2>3. CASE m # 0
    <3>1. /\ m \in 1..Len(s) /\ m - 1 \in Nat /\ Good(m - 1)
          /\ f[m] = IF s[m] \in Wanted THEN Append(f[m - 1], s[m]) ELSE f[m - 1]
      <4>1. m \in 1..Len(s) /\ m - 1 \in Nat /\ m - 1 <= Len(s) /\ ~(m <= m - 1)
        BY <1>0, <2>1, <2>3
      <4>2. Good(m - 1) BY <2>1, <4>1
      <4> QED BY <1>1, <4>1, <4>2
    <3>2. {s[i] : i \in 1..m} = {s[i] : i \in 1..(m - 1)} \cup {s[m]}
      <4>1. 1..m = (1..(m - 1)) \cup {m} BY <3>1
      <4> QED BY <4>1
    <3>3. s[m] \in A /\ s[m] \notin {s[i] : i \in 1..(m - 1)}
      <4>1. \A i \in 1..(m - 1) : i \in 1..Len(s) /\ i # m BY <1>0, <3>1
      <4> QED BY <1>0, <3>1, <4>1 DEF Distinct
    <3> HIDE DEF Good
    <3>4. CASE s[m] \notin Wanted
      <4>1. f[m] = f[m - 1] BY <3>1, <3>4
      <4>2. Good(m) BY <3>1, <3>2, <3>4, <4>1 DEF Good
      <4> QED BY <2>1, <4>2
    <3>5. CASE s[m] \in Wanted
      <4> DEFINE t == f[m - 1]
                 u == Append(t, s[m])
      <4>1. t \in Seq(A) /\ Distinct(t) /\ Elements(t) = {s[i] : i \in 1..(m - 1)} \cap Wanted
        BY <3>1 DEF Good
      <4>2. f[m] = u BY <3>1, <3>5
      <4> HIDE DEF t
      <4>3. /\ u \in Seq(A) /\ Len(t) \in Nat /\ Len(u) = Len(t) + 1 /\ DOMAIN t = 1..Len(t)
            /\ DOMAIN u = 1..(Len(t) + 1)
            /\ \A i \in 1..Len(t) : u[i] = t[i]
            /\ u[Len(t) + 1] = s[m]
        BY <3>3, <4>1
      <4> HIDE DEF u
      <4>4. s[m] \notin Elements(t) BY <3>3, <4>1
      <4>5. Elements(u) = Elements(t) \cup {s[m]}
        <5>1. 1..(Len(t) + 1) = (1..Len(t)) \cup {Len(t) + 1} BY <4>3
        <5> QED BY <4>3, <5>1 DEF Elements
      <4>6. Distinct(u)
        <5> SUFFICES ASSUME NEW i \in 1..(Len(t) + 1), NEW k \in 1..(Len(t) + 1), u[i] = u[k]
                     PROVE  i = k
          BY <4>3 DEF Distinct
        <5>1. CASE i \in 1..Len(t) /\ k \in 1..Len(t) BY <4>1, <4>3, <5>1 DEF Distinct
        <5>2. CASE i \in 1..Len(t) /\ k = Len(t) + 1 BY <4>3, <4>4, <5>2 DEF Elements
        <5>3. CASE k \in 1..Len(t) /\ i = Len(t) + 1 BY <4>3, <4>4, <5>3 DEF Elements
        <5>4. CASE i = k BY <5>4
        <5> QED BY <4>3, <5>1, <5>2, <5>3, <5>4
      <4>7. Good(m) BY <3>2, <3>5, <4>1, <4>2, <4>3, <4>5, <4>6 DEF Good
      <4> QED BY <2>1, <4>7
    <3> QED BY <3>4, <3>5
  <2> QED BY <2>2, <2>3
<1>3. Good(Len(s))
  <2>1. Len(s) \in Nat /\ Len(s) <= Len(s) BY <1>0
  <2>2. Bad = {} BY <1>2
  <2> HIDE DEF Good
  <2> QED BY <2>1, <2>2
<1>4. {s[i] : i \in 1..Len(s)} = Elements(s) BY <1>0 DEF Elements
<1> QED BY <1>1, <1>3, <1>4

-----------------------------------------------------------------------------
(* The lists of objects                                                     *)

LEMMA PartOf ==
  ASSUME NEW A, NEW s \in Seq(A), Distinct(s),
         NEW m \in Nat \ {0}, NEW n \in Nat, n <= Len(s), m <= n + 1
  PROVE  /\ SubSeq(s, m, n) \in Seq(A) /\ Len(SubSeq(s, m, n)) = n - m + 1
         /\ Distinct(SubSeq(s, m, n))
         /\ \A i \in 1..(n - m + 1) : SubSeq(s, m, n)[i] = s[m + i - 1]
         /\ Elements(SubSeq(s, m, n)) = {s[i] : i \in m..n}
PROOF
<1> DEFINE r == SubSeq(s, m, n)
<1>0. Len(s) \in Nat /\ DOMAIN s = 1..Len(s) /\ \A i \in 1..Len(s) : s[i] \in A
  BY LenProperties
<1>1. \A i \in m..n : s[i] \in A BY <1>0
<1>2. /\ r \in Seq(A) /\ Len(r) = (IF m <= n THEN n - m + 1 ELSE 0)
      /\ \A i \in 1..(n - m + 1) : r[i] = s[m + i - 1]
  BY <1>1, SubSeqProperties
<1> HIDE DEF r
<1>3. Len(r) = n - m + 1 /\ DOMAIN r = 1..(n - m + 1) BY <1>2
<1>4. Distinct(r)
  <2>1. \A i \in 1..(n - m + 1) : m + i - 1 \in 1..Len(s) BY <1>0
  <2> SUFFICES ASSUME NEW i \in 1..(n - m + 1), NEW k \in 1..(n - m + 1), r[i] = r[k]
               PROVE  i = k
    BY <1>3 DEF Distinct
  <2>2. m + i - 1 = m + k - 1 BY <1>0, <1>2, <2>1 DEF Distinct
  <2> QED BY <2>2
<1>5. Elements(r) = {s[i] : i \in m..n}
  <2>1. \A i \in 1..(n - m + 1) : m + i - 1 \in m..n OBVIOUS
  <2>2. \A i \in m..n : i - m + 1 \in 1..(n - m + 1) /\ m + (i - m + 1) - 1 = i OBVIOUS
  <2>3. \A i \in m..n : r[i - m + 1] = s[i] BY <1>2, <2>2
  <2>4. Elements(r) = {r[i] : i \in 1..(n - m + 1)} BY <1>3 DEF Elements
  <2>5. {r[i] : i \in 1..(n - m + 1)} \subseteq {s[i] : i \in m..n} BY <1>2, <2>1
  <2>6. {s[i] : i \in m..n} \subseteq {r[i] : i \in 1..(n - m + 1)}
    <3> SUFFICES ASSUME NEW i \in m..n PROVE s[i] \in {r[k] : k \in 1..(n - m + 1)} OBVIOUS
    <3> QED BY <2>2, <2>3
  <2> QED BY <2>4, <2>5, <2>6
<1> QED BY <1>2, <1>3, <1>4, <1>5 DEF r

LEMMA JoinedIs ==
  ASSUME NEW A, NEW s \in Seq(A), NEW t \in Seq(A), Distinct(s), Distinct(t),
         Elements(s) \cap Elements(t) = {}
  PROVE  /\ s \o t \in Seq(A) /\ Len(s \o t) = Len(s) + Len(t) /\ Distinct(s \o t)
         /\ Elements(s \o t) = Elements(s) \cup Elements(t)
         /\ \A i \in 1..Len(s) : (s \o t)[i] = s[i]
         /\ \A i \in 1..Len(t) : (s \o t)[Len(s) + i] = t[i]
PROOF
<1> DEFINE r == s \o t
<1>0. Len(s) \in Nat /\ DOMAIN s = 1..Len(s) /\ Len(t) \in Nat /\ DOMAIN t = 1..Len(t)
  BY LenProperties
<1>1. /\ r \in Seq(A) /\ Len(r) = Len(s) + Len(t)
      /\ \A i \in 1..(Len(s) + Len(t)) : r[i] = IF i <= Len(s) THEN s[i] ELSE t[i - Len(s)]
  BY ConcatProperties
<1> HIDE DEF r
<1>2. /\ \A i \in 1..Len(s) : r[i] = s[i] /\ i \in 1..(Len(s) + Len(t))
      /\ \A i \in 1..Len(t) : r[Len(s) + i] = t[i] /\ Len(s) + i \in 1..(Len(s) + Len(t))
  <2>1. \A i \in 1..Len(s) : i \in 1..(Len(s) + Len(t)) /\ i <= Len(s) BY <1>0
  <2>2. \A i \in 1..Len(t) : /\ Len(s) + i \in 1..(Len(s) + Len(t)) /\ ~(Len(s) + i <= Len(s))
                              /\ Len(s) + i - Len(s) = i
    BY <1>0
  <2> QED BY <1>1, <2>1, <2>2
<1>3. DOMAIN r = 1..(Len(s) + Len(t)) BY <1>0, <1>1
<1>4. \A i \in 1..(Len(s) + Len(t)) :
         i \in 1..Len(s) \/ (i - Len(s) \in 1..Len(t) /\ i = Len(s) + (i - Len(s)))
  BY <1>0
<1>5. Elements(r) = Elements(s) \cup Elements(t)
  <2>1. ASSUME NEW i \in 1..(Len(s) + Len(t)) PROVE r[i] \in Elements(s) \cup Elements(t)
    <3>1. CASE i \in 1..Len(s) BY <1>0, <1>2, <3>1 DEF Elements
    <3>2. CASE i - Len(s) \in 1..Len(t)
      <4>1. r[Len(s) + (i - Len(s))] = t[i - Len(s)] BY <1>2, <3>2
      <4>2. Len(s) + (i - Len(s)) = i BY <1>0
      <4> QED BY <1>0, <3>2, <4>1, <4>2 DEF Elements
    <3> QED BY <1>4, <3>1, <3>2
  <2>2. \A i \in 1..Len(s) : s[i] \in Elements(r) BY <1>2, <1>3 DEF Elements
  <2>3. \A i \in 1..Len(t) : t[i] \in Elements(r) BY <1>2, <1>3 DEF Elements
  <2>4. Elements(s) \subseteq Elements(r) BY <1>0, <2>2 DEF Elements
  <2>5. Elements(t) \subseteq Elements(r) BY <1>0, <2>3 DEF Elements
  <2>6. Elements(r) \subseteq Elements(s) \cup Elements(t)
    <3> SUFFICES ASSUME NEW x \in Elements(r) PROVE x \in Elements(s) \cup Elements(t) OBVIOUS
    <3>1. PICK i \in 1..(Len(s) + Len(t)) : x = r[i] BY <1>3 DEF Elements
    <3> QED BY <2>1, <3>1
  <2> QED BY <2>4, <2>5, <2>6
<1>6. Distinct(r)
  <2> SUFFICES ASSUME NEW i \in 1..(Len(s) + Len(t)), NEW k \in 1..(Len(s) + Len(t)), r[i] = r[k]
               PROVE  i = k
    BY <1>3 DEF Distinct
  <2>1. CASE i \in 1..Len(s) /\ k \in 1..Len(s) BY <1>0, <1>2, <2>1 DEF Distinct
  <2>2. CASE i \in 1..Len(s) /\ k - Len(s) \in 1..Len(t)
    <3>1. r[i] \in Elements(s) /\ r[k] \in Elements(t)
      <4>1. k = Len(s) + (k - Len(s)) BY <1>0
      <4> QED BY <1>0, <1>2, <2>2, <4>1 DEF Elements
    <3> QED BY <3>1
  <2>3. CASE k \in 1..Len(s) /\ i - Len(s) \in 1..Len(t)
    <3>1. r[k] \in Elements(s) /\ r[i] \in Elements(t)
      <4>1. i = Len(s) + (i - Len(s)) BY <1>0
      <4> QED BY <1>0, <1>2, <2>3, <4>1 DEF Elements
    <3> QED BY <3>1
  <2>4. CASE i - Len(s) \in 1..Len(t) /\ k - Len(s) \in 1..Len(t)
    <3>1. r[Len(s) + (i - Len(s))] = t[i - Len(s)] /\ r[Len(s) + (k - Len(s))] = t[k - Len(s)]
      BY <1>2, <2>4
    <3>2. Len(s) + (i - Len(s)) = i /\ Len(s) + (k - Len(s)) = k BY <1>0
    <3>3. i - Len(s) = k - Len(s) BY <1>0, <2>4, <3>1, <3>2 DEF Distinct
    <3> QED BY <1>0, <3>3
  <2> QED BY <1>4, <2>1, <2>2, <2>3, <2>4
<1> QED BY <1>1, <1>2, <1>5, <1>6 DEF r

LEMMA PrependIs ==
  ASSUME NEW A, NEW s \in Seq(A), Distinct(s), NEW o \in A, o \notin Elements(s)
  PROVE  LET r == <<o>> \o s
         IN  /\ r \in Seq(A) /\ Len(r) = Len(s) + 1 /\ Distinct(r)
             /\ Elements(r) = {o} \cup Elements(s)
             /\ r[1] = o /\ \A i \in 1..Len(s) : r[i + 1] = s[i]
PROOF
<1> DEFINE u == <<o>>
<1>1. u \in Seq(A) /\ Len(u) = 1 /\ DOMAIN u = 1..1 /\ u[1] = o OBVIOUS
<1> HIDE DEF u
<1>2. Elements(u) = {o} /\ Distinct(u) BY <1>1 DEF Elements, Distinct
<1>3. Len(s) \in Nat OBVIOUS
<1> DEFINE r == u \o s
<1>4. /\ r \in Seq(A) /\ Len(r) = 1 + Len(s) /\ Distinct(r)
      /\ Elements(r) = Elements(u) \cup Elements(s)
      /\ \A i \in 1..1 : r[i] = u[i]
      /\ \A i \in 1..Len(s) : r[1 + i] = s[i]
  <2>1. Elements(u) \cap Elements(s) = {} BY <1>2
  <2>2. /\ u \o s \in Seq(A) /\ Len(u \o s) = Len(u) + Len(s) /\ Distinct(u \o s)
        /\ Elements(u \o s) = Elements(u) \cup Elements(s)
        /\ \A i \in 1..Len(u) : (u \o s)[i] = u[i]
        /\ \A i \in 1..Len(s) : (u \o s)[Len(u) + i] = s[i]
    <3>1. u \in Seq(A) /\ Distinct(u) BY <1>1, <1>2
    <3> QED BY <2>1, <3>1, JoinedIs
  <2> QED BY <1>1, <2>2
<1> HIDE DEF r
<1>5. \A i \in 1..Len(s) : r[i + 1] = s[i] BY <1>3, <1>4
<1>6. r[1] = o BY <1>1, <1>4
<1> QED BY <1>1, <1>2, <1>3, <1>4, <1>5, <1>6 DEF r, u

LEMMA TailIs ==
  ASSUME NEW A, NEW s \in Seq(A), Distinct(s), s # <<>>
  PROVE  /\ Tail(s) \in Seq(A) /\ Distinct(Tail(s))
         /\ Head(s) \in Elements(s) /\ Elements(Tail(s)) = Elements(s) \ {Head(s)}
PROOF
<1>0. Len(s) \in Nat \ {0} /\ DOMAIN s = 1..Len(s) /\ Head(s) = s[1] BY LenProperties, EmptySeq
<1>1. Tail(s) = SubSeq(s, 2, Len(s)) BY TailIsSubSeq
<1>2. /\ Tail(s) \in Seq(A) /\ Distinct(Tail(s))
      /\ Elements(Tail(s)) = {s[i] : i \in 2..Len(s)}
  <2>1. 2 \in Nat \ {0} /\ Len(s) \in Nat /\ Len(s) <= Len(s) /\ 2 <= Len(s) + 1 BY <1>0
  <2>2. /\ SubSeq(s, 2, Len(s)) \in Seq(A) /\ Distinct(SubSeq(s, 2, Len(s)))
        /\ Elements(SubSeq(s, 2, Len(s))) = {s[i] : i \in 2..Len(s)}
    BY <2>1, PartOf
  <2> QED BY <1>1, <2>2
<1>3. s[1] \in Elements(s) BY <1>0 DEF Elements
<1>4. {s[i] : i \in 2..Len(s)} = Elements(s) \ {s[1]}
  <2>1. \A i \in 1..Len(s) : i \in 2..Len(s) \/ i = 1 BY <1>0
  <2>2. \A i \in 2..Len(s) : i \in 1..Len(s) /\ s[i] # s[1] BY <1>0 DEF Distinct
  <2> QED BY <1>0, <2>1, <2>2 DEF Elements
<1> QED BY <1>0, <1>2, <1>3, <1>4

LEMMA RemovedIs ==
  ASSUME NEW A, NEW s \in Seq(A), Distinct(s), NEW n \in DOMAIN s
  PROVE  LET r == G!RemoveAt(s, n)
         IN  /\ r \in Seq(A) /\ Distinct(r)
             /\ Elements(r) = Elements(s) \ {s[n]} /\ Len(r) = Len(s) - 1
             /\ \A i \in 1..(n - 1) : r[i] = s[i]
             /\ \A i \in n..(Len(s) - 1) : r[i] = s[i + 1]
PROOF
<1> DEFINE a == SubSeq(s, 1, n - 1)
           b == SubSeq(s, n + 1, Len(s))
           r == a \o b
<1>0. Len(s) \in Nat /\ DOMAIN s = 1..Len(s) /\ n \in 1..Len(s) BY LenProperties
<1>1. /\ a \in Seq(A) /\ Len(a) = n - 1 /\ Distinct(a)
      /\ \A i \in 1..(n - 1) : a[i] = s[i]
      /\ Elements(a) = {s[i] : i \in 1..(n - 1)}
  <2>1. 1 \in Nat \ {0} /\ n - 1 \in Nat /\ n - 1 <= Len(s) /\ 1 <= (n - 1) + 1 BY <1>0
  <2>2. /\ a \in Seq(A) /\ Len(a) = n - 1 - 1 + 1 /\ Distinct(a)
        /\ \A i \in 1..(n - 1 - 1 + 1) : a[i] = s[1 + i - 1]
        /\ Elements(a) = {s[i] : i \in 1..(n - 1)}
    BY <2>1, PartOf
  <2> HIDE DEF a
  <2>3. n - 1 - 1 + 1 = n - 1 /\ \A i \in 1..(n - 1) : 1 + i - 1 = i BY <1>0
  <2> QED BY <2>2, <2>3
<1>2. /\ b \in Seq(A) /\ Len(b) = Len(s) - n /\ Distinct(b)
      /\ \A i \in 1..(Len(s) - n) : b[i] = s[n + i]
      /\ Elements(b) = {s[i] : i \in (n + 1)..Len(s)}
  <2>1. n + 1 \in Nat \ {0} /\ Len(s) \in Nat /\ Len(s) <= Len(s) /\ n + 1 <= Len(s) + 1 BY <1>0
  <2>2. /\ b \in Seq(A) /\ Len(b) = Len(s) - (n + 1) + 1 /\ Distinct(b)
        /\ \A i \in 1..(Len(s) - (n + 1) + 1) : b[i] = s[n + 1 + i - 1]
        /\ Elements(b) = {s[i] : i \in (n + 1)..Len(s)}
    BY <2>1, PartOf
  <2> HIDE DEF b
  <2>3. Len(s) - (n + 1) + 1 = Len(s) - n BY <1>0
  <2>4. \A i \in 1..(Len(s) - n) : n + 1 + i - 1 = n + i BY <1>0
  <2> QED BY <2>2, <2>3, <2>4
<1>3. G!RemoveAt(s, n) = r BY DEF G!RemoveAt
<1> HIDE DEF a, b
<1>4. Elements(a) \cap Elements(b) = {}
  <2>1. \A i \in 1..(n - 1), k \in (n + 1)..Len(s) : i \in DOMAIN s /\ k \in DOMAIN s /\ i # k BY <1>0
  <2> QED BY <1>1, <1>2, <2>1 DEF Distinct
<1>5. /\ r \in Seq(A) /\ Len(r) = Len(a) + Len(b) /\ Distinct(r)
      /\ Elements(r) = Elements(a) \cup Elements(b)
      /\ \A i \in 1..Len(a) : r[i] = a[i]
      /\ \A i \in 1..Len(b) : r[Len(a) + i] = b[i]
  <2>1. a \in Seq(A) /\ Distinct(a) /\ b \in Seq(A) /\ Distinct(b) BY <1>1, <1>2
  <2> QED BY <1>4, <2>1, JoinedIs
<1> HIDE DEF r
<1>6. Elements(r) = Elements(s) \ {s[n]}
  <2>1. \A i \in 1..Len(s) : i \in 1..(n - 1) \/ i \in (n + 1)..Len(s) \/ i = n BY <1>0
  <2>2. \A i \in 1..(n - 1) : i \in DOMAIN s /\ s[i] # s[n] BY <1>0 DEF Distinct
  <2>3. \A i \in (n + 1)..Len(s) : i \in DOMAIN s /\ s[i] # s[n] BY <1>0 DEF Distinct
  <2>4. Elements(s) = {s[i] : i \in 1..Len(s)} BY <1>0 DEF Elements
  <2>5. Elements(r) = {s[i] : i \in 1..(n - 1)} \cup {s[i] : i \in (n + 1)..Len(s)}
    BY <1>1, <1>2, <1>5
  <2>6. \A i \in 1..(n - 1) : i \in 1..Len(s) BY <1>0
  <2>7. \A i \in (n + 1)..Len(s) : i \in 1..Len(s) BY <1>0
  <2>8. Elements(r) \subseteq Elements(s) \ {s[n]} BY <2>2, <2>3, <2>4, <2>5, <2>6, <2>7
  <2>9. Elements(s) \ {s[n]} \subseteq Elements(r) BY <2>1, <2>4, <2>5
  <2> QED BY <2>8, <2>9
<1>7. \A i \in n..(Len(s) - 1) : r[i] = s[i + 1]
  <2> SUFFICES ASSUME NEW i \in n..(Len(s) - 1) PROVE r[i] = s[i + 1] OBVIOUS
  <2>1. i - n + 1 \in 1..Len(b) /\ Len(a) + (i - n + 1) = i /\ n + (i - n + 1) = i + 1 BY <1>0, <1>1, <1>2
  <2>2. r[i] = b[i - n + 1] BY <1>5, <2>1
  <2>3. b[i - n + 1] = s[n + (i - n + 1)] BY <1>2, <2>1
  <2> QED BY <2>1, <2>2, <2>3
<1>8. Len(r) = Len(s) - 1 /\ \A i \in 1..(n - 1) : r[i] = s[i]
  BY <1>0, <1>1, <1>2, <1>5
<1> QED BY <1>3, <1>5, <1>6, <1>7, <1>8

-----------------------------------------------------------------------------
(* A sweep                                                                  *)

LEMMA NoNames ==
  /\ \A l \in Lists : l \notin Objects /\ l # "null"
  /\ "null" \notin Objects /\ NoObject \notin Objects /\ Main \notin Objects
  /\ Lists = {"allgc", "finobj", "tobefnz"}
PROOF
<1>1. Objects \cap (Lists \cup {Main, NoObject, "null"}) = {}
  BY ObjectsFit DEF G!LuaGcAssumption, Objects, Lists
<1>2. Lists = {"allgc", "finobj", "tobefnz"} BY DEF Lists, G!Lists
<1> QED BY <1>1, <1>2

LEMMA HeaderPlace ==
  ASSUME NEW ls, NEW l \in Lists
  PROVE  G!ListOf(ls, l) = l /\ G!Position(ls, l) = 0
BY DEF G!ListOf, G!Position, Lists

LEMMA ObjectPlace ==
  ASSUME NEW ls, Separate(ls), NEW l \in Lists, NEW n \in DOMAIN ls[l]
  PROVE  G!ListOf(ls, ls[l][n]) = l /\ G!Position(ls, ls[l][n]) = n
PROOF
<1> DEFINE ptr == ls[l][n]
<1>1. ls[l] \in Seq(Objects) BY DEF Separate
<1>2. ptr \in Objects /\ ptr \in In(ls, l) BY <1>1, ElementOfSeq DEF In, Elements
<1>3. ptr \notin G!Lists BY <1>2, NoNames DEF Lists
<1> HIDE DEF ptr
<1>4. \A k \in Lists : ptr \in In(ls, k) <=> k = l BY <1>2 DEF Separate
<1>5. \A k \in G!Lists : ptr \in G!ToSet(ls[k]) <=> k = l
  BY <1>4 DEF Lists, In, Elements, G!ToSet
<1>6. (CHOOSE k \in G!Lists : ptr \in G!ToSet(ls[k])) = l
  BY <1>5 DEF Lists
<1>7. G!ListOf(ls, ptr) = l BY <1>3, <1>6 DEF G!ListOf
<1>8. \A i \in DOMAIN ls[l] : ls[l][i] = ptr <=> i = n BY DEF Separate, Distinct, ptr
<1>9. (CHOOSE i \in DOMAIN ls[l] : ls[l][i] = ptr) = n BY <1>8
<1>10. G!Position(ls, ptr) = n BY <1>3, <1>7, <1>9 DEF G!Position
<1> QED BY <1>7, <1>10 DEF ptr

\* Where a sweep may stand in list l: the header, or behind its first objects.
StandsAt(ls, ptr, l, first) ==
  \/ ptr = l /\ first = 0
  \/ first \in DOMAIN ls[l] /\ ptr = ls[l][first]

\* What sweeplist leaves, in terms of the objects that it has seen.
SweptFrom(col, ls, ptr, n, l, first, last, r) ==
  LET seen  == {ls[l][i] : i \in (first + 1)..last}
      stays == {o \in seen : col[o] # "dead"}
  IN  /\ last \in first..Len(ls[l]) /\ last = (IF first + n < Len(ls[l]) THEN first + n ELSE Len(ls[l]))
      /\ r.color = [o \in Objects |-> IF o \notin seen THEN col[o]
                                      ELSE IF col[o] = "dead" THEN "free" ELSE "white"]
      /\ Separate(r.lists)
      /\ \A k \in Lists \ {l} : r.lists[k] = ls[k]
      /\ In(r.lists, l) = In(ls, l) \ (seen \ stays)
      /\ \A i \in 1..first : i \in DOMAIN r.lists[l] /\ r.lists[l][i] = ls[l][i]
      /\ last = Len(ls[l]) => r.sweepgc = "null"
      /\ last # Len(ls[l]) /\ stays = {} => r.sweepgc = ptr
      /\ last # Len(ls[l]) /\ stays # {} =>
            \E p \in DOMAIN r.lists[l] :
               /\ r.lists[l][p] = r.sweepgc /\ r.sweepgc \in stays
               /\ \A i \in 1..p : i \in 1..first \/ r.lists[l][i] \in stays

LEMMA SweepIs ==
  ASSUME NEW col, NEW ls, Separate(ls), NEW n \in Nat, NEW l \in Lists, NEW first \in Nat, NEW ptr,
         StandsAt(ls, ptr, l, first)
  PROVE  \E last \in Nat : SweptFrom(col, ls, ptr, n, l, first, last, G!sweeplist(col, ls, ptr, n))
PROOF
<1> DEFINE s == ls[l]
           last == IF first + n < Len(s) THEN first + n ELSE Len(s)
           mid == SubSeq(s, first + 1, last)
           Wanted == {o \in Objects : col[o] # "dead"}
           alive == G!Keep(mid, Wanted)
           front == SubSeq(s, 1, first)
           rest == SubSeq(s, last + 1, Len(s))
           r == G!sweeplist(col, ls, ptr, n)
<1>1. s \in Seq(Objects) /\ Distinct(s) BY DEF Separate
<1>2. Len(s) \in Nat /\ DOMAIN s = 1..Len(s) /\ \A i \in 1..Len(s) : s[i] \in Objects
  BY <1>1, LenProperties
<1>3. G!ListOf(ls, ptr) = l /\ G!Position(ls, ptr) = first
  BY HeaderPlace, ObjectPlace DEF StandsAt
<1>4. first <= Len(s) BY <1>2 DEF StandsAt
<1>5. last \in Nat /\ first <= last /\ last <= Len(s) BY <1>2, <1>4
<1>6. /\ front \in Seq(Objects) /\ Distinct(front) /\ Len(front) = first
      /\ \A i \in 1..first : front[i] = s[i]
      /\ Elements(front) = {s[i] : i \in 1..first}
  <2>1. 1 \in Nat \ {0} /\ 1 <= first + 1 OBVIOUS
  <2>2. /\ front \in Seq(Objects) /\ Len(front) = first - 1 + 1 /\ Distinct(front)
        /\ \A i \in 1..(first - 1 + 1) : front[i] = s[1 + i - 1]
        /\ Elements(front) = {s[i] : i \in 1..first}
    BY <1>1, <1>4, <2>1, PartOf
  <2> HIDE DEF front
  <2>3. first - 1 + 1 = first /\ \A i \in 1..first : 1 + i - 1 = i OBVIOUS
  <2> QED BY <2>2, <2>3
<1>7. mid \in Seq(Objects) /\ Distinct(mid) /\ Elements(mid) = {s[i] : i \in (first + 1)..last}
  <2>1. first + 1 \in Nat \ {0} /\ first + 1 <= last + 1 BY <1>5
  <2> HIDE DEF last
  <2> QED BY <1>1, <1>5, <2>1, PartOf
<1>8. rest \in Seq(Objects) /\ Distinct(rest) /\ Elements(rest) = {s[i] : i \in (last + 1)..Len(s)}
  <2>1. last + 1 \in Nat \ {0} /\ last + 1 <= Len(s) + 1 /\ Len(s) <= Len(s) BY <1>2, <1>5
  <2> HIDE DEF last
  <2> QED BY <1>1, <1>2, <2>1, PartOf
<1> DEFINE seen == {s[i] : i \in (first + 1)..last}
           stays == {o \in seen : col[o] # "dead"}
<1>9. r = [color |-> [o \in Objects |-> IF o \notin G!ToSet(mid) THEN col[o]
                                        ELSE IF col[o] = "dead" THEN "free" ELSE "white"],
           lists |-> [ls EXCEPT ![l] = front \o alive \o rest],
           sweepgc |-> IF last = Len(s) THEN "null"
                       ELSE IF alive = <<>> THEN ptr ELSE G!Last(alive)]
  BY <1>3 DEF G!sweeplist, Objects
<1> HIDE DEF last, mid, front, rest, r, s
<1>10. alive \in Seq(Objects) /\ Distinct(alive) /\ Elements(alive) = stays
  <2>1. alive \in Seq(Objects) /\ Distinct(alive) /\ Elements(alive) = Elements(mid) \cap Wanted
    BY <1>7, KeepIs
  <2>2. \A i \in (first + 1)..last : s[i] \in Objects BY <1>2, <1>5
  <2> HIDE DEF alive
  <2> QED BY <1>7, <2>1, <2>2
<1> HIDE DEF alive, Wanted
<1>11. /\ Elements(front) \cap seen = {} /\ seen \cap Elements(rest) = {}
       /\ Elements(front) \cap Elements(rest) = {}
       /\ Elements(s) = Elements(front) \cup seen \cup Elements(rest)
  <2>1. /\ \A i \in 1..first : i \in DOMAIN s /\ i \notin (first + 1)..last /\ i \notin (last + 1)..Len(s)
        /\ \A i \in (first + 1)..last : i \in DOMAIN s /\ i \notin (last + 1)..Len(s)
        /\ \A i \in (last + 1)..Len(s) : i \in DOMAIN s
        /\ \A i \in DOMAIN s : i \in 1..first \/ i \in (first + 1)..last \/ i \in (last + 1)..Len(s)
    BY <1>2, <1>5
  <2>2. Elements(front) \cap seen = {} BY <1>1, <1>6, <2>1 DEF Distinct
  <2>3. seen \cap Elements(rest) = {} BY <1>1, <1>8, <2>1 DEF Distinct
  <2>4. Elements(front) \cap Elements(rest) = {} BY <1>1, <1>6, <1>8, <2>1 DEF Distinct
  <2>5. Elements(s) \subseteq Elements(front) \cup seen \cup Elements(rest)
    BY <1>6, <1>8, <2>1 DEF Elements
  <2>6. Elements(front) \subseteq Elements(s) /\ seen \subseteq Elements(s) /\ Elements(rest) \subseteq Elements(s)
    <3>1. \A i \in DOMAIN s : s[i] \in Elements(s) BY DEF Elements
    <3> QED BY <1>6, <1>8, <2>1, <3>1
  <2> QED BY <2>2, <2>3, <2>4, <2>5, <2>6
<1> DEFINE fa == front \o alive
           all == fa \o rest
<1>12. /\ fa \in Seq(Objects) /\ Len(fa) = first + Len(alive) /\ Distinct(fa)
       /\ Elements(fa) = Elements(front) \cup stays
       /\ \A i \in 1..first : fa[i] = front[i]
       /\ \A i \in 1..Len(alive) : fa[first + i] = alive[i]
  <2>1. Elements(front) \cap Elements(alive) = {} BY <1>10, <1>11
  <2>2. /\ front \o alive \in Seq(Objects) /\ Len(front \o alive) = Len(front) + Len(alive)
        /\ Distinct(front \o alive)
        /\ Elements(front \o alive) = Elements(front) \cup Elements(alive)
        /\ \A i \in 1..Len(front) : (front \o alive)[i] = front[i]
        /\ \A i \in 1..Len(alive) : (front \o alive)[Len(front) + i] = alive[i]
    <3>1. front \in Seq(Objects) /\ Distinct(front) /\ alive \in Seq(Objects) /\ Distinct(alive)
      BY <1>6, <1>10
    <3> QED BY <2>1, <3>1, JoinedIs
  <2> HIDE DEF stays
  <2> QED BY <1>6, <1>10, <2>2
<1> HIDE DEF fa
<1>13. /\ all \in Seq(Objects) /\ Len(all) = Len(fa) + Len(rest) /\ Distinct(all)
       /\ Elements(all) = Elements(front) \cup stays \cup Elements(rest)
       /\ \A i \in 1..Len(fa) : all[i] = fa[i]
  <2>1. Elements(fa) \cap Elements(rest) = {} BY <1>11, <1>12
  <2>2. /\ fa \o rest \in Seq(Objects) /\ Len(fa \o rest) = Len(fa) + Len(rest)
        /\ Distinct(fa \o rest)
        /\ Elements(fa \o rest) = Elements(fa) \cup Elements(rest)
        /\ \A i \in 1..Len(fa) : (fa \o rest)[i] = fa[i]
    <3>1. fa \in Seq(Objects) /\ Distinct(fa) /\ rest \in Seq(Objects) /\ Distinct(rest)
      BY <1>8, <1>12
    <3> QED BY <2>1, <3>1, JoinedIs
  <2> HIDE DEF stays
  <2> QED BY <1>12, <2>2
<1> HIDE DEF all
<1>14. Len(alive) \in Nat /\ Len(rest) \in Nat /\ DOMAIN alive = 1..Len(alive) /\ DOMAIN all = 1..Len(all)
  BY <1>8, <1>10, <1>13, LenProperties
<1>15. r.lists = [ls EXCEPT ![l] = all] /\ r.lists[l] = all /\ \A k \in Lists \ {l} : r.lists[k] = ls[k]
  <2>1. r.lists = [ls EXCEPT ![l] = all] BY <1>9 DEF all, fa
  <2>2. DOMAIN ls = Lists BY DEF Separate
  <2> QED BY <2>1, <2>2
<1>16. Elements(all) = Elements(s) \ (seen \ stays)
  <2>1. stays \subseteq seen OBVIOUS
  <2> HIDE DEF seen, stays
  <2> QED BY <1>11, <1>13, <2>1
<1>17. Separate(r.lists)
  <2>1. r.lists \in [Lists -> Seq(Objects)] BY <1>13, <1>15 DEF Separate
  <2>2. \A k \in Lists : Distinct(r.lists[k]) BY <1>13, <1>15 DEF Separate
  <2>3. \A k \in Lists : In(r.lists, k) \subseteq In(ls, k)
    <3>1. In(r.lists, l) \subseteq In(ls, l) BY <1>15, <1>16 DEF In, s
    <3>2. \A k \in Lists \ {l} : In(r.lists, k) = In(ls, k) BY <1>15 DEF In
    <3> QED BY <3>1, <3>2
  <2>4. \A k, j \in Lists : k # j => In(r.lists, k) \cap In(r.lists, j) = {}
    BY <2>3 DEF Separate
  <2> QED BY <2>1, <2>2, <2>4 DEF Separate
<1>18. \A i \in 1..first : i \in DOMAIN all /\ all[i] = s[i]
  BY <1>6, <1>12, <1>13, <1>14
<1>19. r.color = [o \in Objects |-> IF o \notin seen THEN col[o]
                                    ELSE IF col[o] = "dead" THEN "free" ELSE "white"]
  <2>1. G!ToSet(mid) = seen BY <1>7 DEF G!ToSet, Elements
  <2> QED BY <1>9, <2>1
<1>20. ASSUME last # Len(s), stays = {} PROVE r.sweepgc = ptr
  <2>1. Len(alive) = 0
    <3>1. \A i \in DOMAIN alive : alive[i] \in Elements(alive) BY DEF Elements
    <3> QED BY <1>10, <1>14, <1>20, <3>1
  <2>2. alive = <<>> BY <1>10, <2>1, EmptySeq
  <2> QED BY <1>9, <1>20, <2>2
<1>21. ASSUME last # Len(s), stays # {}
       PROVE  \E p \in DOMAIN all : /\ all[p] = r.sweepgc /\ r.sweepgc \in stays
                                    /\ \A i \in 1..p : i \in 1..first \/ all[i] \in stays
  <2>1. Len(alive) # 0 /\ alive # <<>>
    <3>1. DOMAIN alive # {} BY <1>10, <1>21 DEF Elements
    <3> QED BY <1>14, <3>1, EmptySeq
  <2> DEFINE p == first + Len(alive)
  <2>2. r.sweepgc = alive[Len(alive)] BY <1>9, <1>21, <2>1 DEF G!Last
  <2>3. \A i \in 1..Len(alive) : alive[i] \in stays BY <1>10, <1>14 DEF Elements
  <2> HIDE DEF stays
  <2>4. \A i \in 1..Len(alive) : first + i \in DOMAIN all /\ all[first + i] = alive[i]
    <3>1. \A i \in 1..Len(alive) : first + i \in 1..Len(fa) /\ first + i \in 1..Len(all)
      BY <1>12, <1>13, <1>14
    <3> QED BY <1>12, <1>13, <1>14, <3>1
  <2>5. Len(alive) \in 1..Len(alive) BY <1>14, <2>1
  <2>6. p \in DOMAIN all /\ all[p] = r.sweepgc /\ r.sweepgc \in stays BY <2>2, <2>3, <2>4, <2>5
  <2>7. ASSUME NEW i \in 1..p, i \notin 1..first PROVE all[i] \in stays
    <3>1. i - first \in 1..Len(alive) /\ first + (i - first) = i BY <1>14, <2>7
    <3> QED BY <2>3, <2>4, <3>1
  <2> QED BY <2>6, <2>7
<1>22. last = Len(s) => r.sweepgc = "null" BY <1>9
<1>23. last \in first..Len(s) /\ last = (IF first + n < Len(s) THEN first + n ELSE Len(s))
  BY <1>2, <1>5 DEF last
<1>24. SweptFrom(col, ls, ptr, n, l, first, last, r)
  <2>1. Elements(all) = In(r.lists, l) /\ In(ls, l) = Elements(s) BY <1>15 DEF In, s
  <2> HIDE DEF all
  <2> QED BY <1>15, <1>16, <1>17, <1>18, <1>19, <1>20, <1>21, <1>22, <1>23, <2>1 DEF SweptFrom, s
<1> QED BY <1>5, <1>24 DEF r

\* Only colours of what is seen change: the dead are freed, the rest turns white.
LEMMA SweepColors ==
  ASSUME NEW col, col \in [Objects -> {"free", "white", "dead", "gray", "black"}],
         NEW ls, ListsOK(ls, col), NEW n \in Nat, NEW l \in Lists, NEW first \in Nat, NEW ptr,
         NEW last \in Nat, NEW r, SweptFrom(col, ls, ptr, n, l, first, last, r)
  PROVE  /\ r.color \in [Objects -> {"free", "white", "dead", "gray", "black"}]
         /\ LiveIn(r.color) = LiveIn(col)
         /\ \A o \in Objects : r.color[o] = "free" => col[o] = "free" \/ (col[o] = "dead" /\ o \in In(ls, l))
         /\ \A o \in Objects : col[o] \in {"free", "white"} => r.color[o] = col[o]
         /\ \A o \in Objects : r.color[o] # "white" /\ r.color[o] # "free" => r.color[o] = col[o]
         /\ \A k \in Lists : In(r.lists, k) \subseteq In(ls, k)
         /\ ListsOK(r.lists, r.color)
PROOF
<1> DEFINE seen == {ls[l][i] : i \in (first + 1)..last}
           stays == {o \in seen : col[o] # "dead"}
<1>1. /\ last \in first..Len(ls[l])
      /\ r.color = [o \in Objects |-> IF o \notin seen THEN col[o]
                                      ELSE IF col[o] = "dead" THEN "free" ELSE "white"]
      /\ Separate(r.lists) /\ \A k \in Lists \ {l} : r.lists[k] = ls[k]
      /\ In(r.lists, l) = In(ls, l) \ (seen \ stays)
  BY DEF SweptFrom
<1>2. seen \subseteq In(ls, l)
  <2>1. ls[l] \in Seq(Objects) BY DEF ListsOK, Separate
  <2>2. DOMAIN ls[l] = 1..Len(ls[l]) /\ Len(ls[l]) \in Nat BY <2>1, LenProperties
  <2>3. \A i \in (first + 1)..last : i \in DOMAIN ls[l] BY <1>1, <2>2
  <2> QED BY <2>3 DEF In, Elements
<1>3. \A k \in Lists : In(ls, k) \subseteq Objects
  <2> SUFFICES ASSUME NEW k \in Lists PROVE In(ls, k) \subseteq Objects OBVIOUS
  <2>1. ls[k] \in Seq(Objects) BY DEF ListsOK, Separate
  <2>2. DOMAIN ls[k] = 1..Len(ls[k]) /\ \A i \in 1..Len(ls[k]) : ls[k][i] \in Objects
    BY <2>1, LenProperties
  <2> QED BY <2>2 DEF In, Elements
<1>4. \A o \in seen : o \in Objects /\ col[o] # "free" BY <1>2, <1>3 DEF ListsOK
<1> HIDE DEF seen
<1>5. \A o \in Objects : r.color[o] = IF o \notin seen THEN col[o]
                                      ELSE IF col[o] = "dead" THEN "free" ELSE "white"
  BY <1>1
<1>6. r.color \in [Objects -> {"free", "white", "dead", "gray", "black"}] BY <1>1
<1>7. \A o \in Objects : col[o] \in {"free", "white", "dead", "gray", "black"} OBVIOUS
<1>8. LiveIn(r.color) = LiveIn(col) BY <1>4, <1>5, <1>7 DEF LiveIn
<1>9. \A k \in Lists : In(r.lists, k) \subseteq In(ls, k)
  <2>1. \A k \in Lists \ {l} : In(r.lists, k) = In(ls, k) BY <1>1 DEF In
  <2> QED BY <1>1, <2>1
<1>10. \A o \in Objects : r.color[o] # "free" <=> \E k \in Lists : o \in In(r.lists, k)
  <2>1. \A k \in Lists \ {l} : In(r.lists, k) = In(ls, k) BY <1>1 DEF In
  <2>2. \A o \in Objects : col[o] # "free" <=> \E k \in Lists : o \in In(ls, k) BY DEF ListsOK
  <2>3. \A o \in Objects, k \in Lists \ {l} : o \in In(ls, k) => o \notin In(ls, l)
    BY DEF ListsOK, Separate
  <2> SUFFICES ASSUME NEW o \in Objects
               PROVE  r.color[o] # "free" <=> \E k \in Lists : o \in In(r.lists, k)
    OBVIOUS
  <2>4. CASE o \in In(ls, l)
    <3>1. \A k \in Lists \ {l} : o \notin In(r.lists, k) BY <2>1, <2>3, <2>4
    <3>2. col[o] # "free" BY <2>2, <2>4
    <3>3. o \in In(r.lists, l) <=> ~(o \in seen /\ col[o] = "dead") BY <1>1, <2>4
    <3>4. r.color[o] # "free" <=> ~(o \in seen /\ col[o] = "dead") BY <1>5, <3>2
    <3> QED BY <3>1, <3>3, <3>4
  <2>5. CASE o \notin In(ls, l)
    <3>1. o \notin seen BY <1>2, <2>5
    <3>2. r.color[o] = col[o] BY <1>5, <3>1
    <3>3. o \notin In(r.lists, l) BY <1>9, <2>5
    <3>4. (\E k \in Lists : o \in In(ls, k)) <=> (\E k \in Lists : o \in In(r.lists, k))
      BY <2>1, <2>5, <3>3
    <3> QED BY <2>2, <3>2, <3>4
  <2> QED BY <2>4, <2>5
<1>11. ListsOK(r.lists, r.color)
  <2>1. "finobj" \in Lists /\ "tobefnz" \in Lists BY NoNames
  <2>2. In(ls, "finobj") \subseteq Userdata /\ In(ls, "tobefnz") \subseteq Userdata BY DEF ListsOK
  <2> QED BY <1>1, <1>9, <1>10, <2>1, <2>2 DEF ListsOK
<1>12. \A o \in Objects : r.color[o] = "free" => col[o] = "free" \/ (col[o] = "dead" /\ o \in In(ls, l))
  BY <1>2, <1>5
<1>13. \A o \in Objects : col[o] \in {"free", "white"} => r.color[o] = col[o] BY <1>4, <1>5
<1>14. \A o \in Objects : r.color[o] # "white" /\ r.color[o] # "free" => r.color[o] = col[o] BY <1>5
<1> QED BY <1>6, <1>8, <1>9, <1>11, <1>12, <1>13, <1>14

\* After a part of a sweep, all that was passed is white again.
LEMMA SweepPasses ==
  ASSUME NEW col, col \in [Objects -> {"free", "white", "dead", "gray", "black"}],
         NEW ls, ListsOK(ls, col), NEW n \in Nat, NEW l \in Lists, NEW first \in Nat, NEW ptr,
         StandsAt(ls, ptr, l, first), \A i \in 1..first : col[ls[l][i]] = "white",
         NEW last \in Nat, NEW r, SweptFrom(col, ls, ptr, n, l, first, last, r)
  PROVE  PassedWhite(r.lists, r.sweepgc, l, r.color)
PROOF
<1> DEFINE seen == {ls[l][i] : i \in (first + 1)..last}
           stays == {o \in seen : col[o] # "dead"}
<1>1. /\ last \in first..Len(ls[l])
      /\ r.color = [o \in Objects |-> IF o \notin seen THEN col[o]
                                      ELSE IF col[o] = "dead" THEN "free" ELSE "white"]
      /\ In(r.lists, l) = In(ls, l) \ (seen \ stays)
      /\ \A i \in 1..first : i \in DOMAIN r.lists[l] /\ r.lists[l][i] = ls[l][i]
      /\ last = Len(ls[l]) => r.sweepgc = "null"
      /\ last # Len(ls[l]) /\ stays = {} => r.sweepgc = ptr
      /\ last # Len(ls[l]) /\ stays # {} =>
            \E p \in DOMAIN r.lists[l] :
               /\ r.lists[l][p] = r.sweepgc /\ r.sweepgc \in stays
               /\ \A i \in 1..p : i \in 1..first \/ r.lists[l][i] \in stays
  BY DEF SweptFrom
<1>2. ls[l] \in Seq(Objects) BY DEF ListsOK, Separate
<1>3. /\ Len(ls[l]) \in Nat /\ DOMAIN ls[l] = 1..Len(ls[l])
      /\ \A i \in 1..Len(ls[l]) : ls[l][i] \in Objects
  BY <1>2, LenProperties
<1>4. \A i \in (first + 1)..last : i \in 1..Len(ls[l]) BY <1>1, <1>3
<1>5. \A o \in seen : o \in Objects BY <1>3, <1>4
<1>6. \A i \in 1..first : i \in 1..Len(ls[l]) BY <1>1, <1>3
<1>7. ASSUME NEW o \in stays PROVE r.color[o] = "white"
  <2>1. o \in Objects /\ o \in seen /\ col[o] # "dead" BY <1>5
  <2> HIDE DEF seen
  <2> QED BY <1>1, <2>1
<1>8. ASSUME NEW i \in 1..first PROVE r.color[ls[l][i]] = "white"
  <2>1. ls[l][i] \in Objects /\ col[ls[l][i]] = "white" BY <1>3, <1>6
  <2> HIDE DEF seen
  <2> QED BY <1>1, <2>1
<1>9. CASE last = Len(ls[l])
  <2>1. r.sweepgc = "null" BY <1>1, <1>9
  <2>2. ASSUME NEW o \in In(r.lists, l) PROVE r.color[o] = "white"
    <3>1. o \in In(ls, l) /\ (o \in seen => col[o] # "dead")
      <4> HIDE DEF seen
      <4> QED BY <1>1
    <3>2. PICK i \in 1..Len(ls[l]) : o = ls[l][i] BY <1>3, <3>1 DEF In, Elements
    <3>3. CASE i \in 1..first BY <1>8, <3>2, <3>3
    <3>4. CASE i \in (first + 1)..last
      <4>1. o \in seen BY <3>2, <3>4
      <4>2. o \in stays BY <3>1, <4>1
      <4> QED BY <1>7, <4>2
    <3> QED BY <1>9, <3>3, <3>4
  <2> QED BY <2>1, <2>2 DEF PassedWhite
<1>10. CASE last # Len(ls[l]) /\ stays = {}
  <2>1. r.sweepgc = ptr BY <1>1, <1>10
  <2>2. CASE ptr = l BY <2>1, <2>2, NoNames DEF PassedWhite
  <2>3. CASE first \in DOMAIN ls[l] /\ ptr = ls[l][first]
    <3>1. ptr # "null" BY <1>3, <2>3, NoNames
    <3>2. first \in 1..first BY <1>3, <2>3
    <3>3. first \in DOMAIN r.lists[l] /\ r.lists[l][first] = ptr BY <1>1, <2>3, <3>2
    <3>4. \A i \in 1..first : r.color[r.lists[l][i]] = "white" BY <1>1, <1>8
    <3> QED BY <2>1, <3>1, <3>3, <3>4 DEF PassedWhite
  <2> QED BY <2>2, <2>3 DEF StandsAt
<1>11. CASE last # Len(ls[l]) /\ stays # {}
  <2> HIDE DEF stays
  <2>1. PICK p \in DOMAIN r.lists[l] :
           /\ r.lists[l][p] = r.sweepgc /\ r.sweepgc \in stays
           /\ \A i \in 1..p : i \in 1..first \/ r.lists[l][i] \in stays
    BY <1>1, <1>11
  <2>2. r.sweepgc # "null" BY <1>5, <2>1, NoNames DEF stays
  <2>3. ASSUME NEW i \in 1..p PROVE r.color[r.lists[l][i]] = "white"
    <3>1. CASE i \in 1..first BY <1>1, <1>8, <3>1
    <3>2. CASE r.lists[l][i] \in stays BY <1>7, <3>2
    <3> QED BY <2>1, <3>1, <3>2
  <2> QED BY <2>1, <2>2, <2>3 DEF PassedWhite
<1> QED BY <1>9, <1>10, <1>11

\* What is freed is forgotten, and nothing live refers to it.
LEMMA SweepCloses ==
  ASSUME NEW col, NEW e, NEW m, NEW st, NEW ls, ObjectsOK(col, e, m), ClosedOK(col, e, st, ls),
         NEW r, r.color \in [Objects -> {"free", "white", "dead", "gray", "black"}],
         LiveIn(r.color) = LiveIn(col),
         \A o \in Objects : col[o] = "free" => r.color[o] = "free",
         \A k \in Lists : In(r.lists, k) \subseteq In(ls, k)
  PROVE  /\ ClosedOK(r.color, G!Scrub(e, r.color), st, r.lists)
         /\ ObjectsOK(r.color, G!Scrub(e, r.color),
                      Scrubbed(m, r.color))
PROOF
<1> DEFINE e2 == G!Scrub(e, r.color)
           m2 == Scrubbed(m, r.color)
<1>1. \A o \in Objects : e2[o] = IF r.color[o] = "free" THEN [i \in Slots |-> G!Empty] ELSE e[o]
  BY DEF G!Scrub, Objects
<1>2. e2 \in [Objects -> [Slots -> (Objects \cup {NoObject}) \X (Objects \cup {NoObject})]]
  <2>1. [i \in Slots |-> G!Empty] \in [Slots -> (Objects \cup {NoObject}) \X (Objects \cup {NoObject})]
    BY DEF G!Empty
  <2>2. \A o \in Objects : e[o] \in [Slots -> (Objects \cup {NoObject}) \X (Objects \cup {NoObject})]
    BY DEF ObjectsOK
  <2>3. e2 = [o \in Objects |-> IF r.color[o] = "free" THEN [i \in Slots |-> G!Empty] ELSE e[o]]
    BY DEF G!Scrub, Objects
  <2> HIDE DEF e2
  <2> QED BY <2>1, <2>2, <2>3
<1> HIDE DEF e2
<1>3. \A o \in LiveIn(col) : e2[o] = e[o] BY <1>1 DEF LiveIn
<1>4. ASSUME NEW o \in LiveIn(col) PROVE G!Refs(e2, o) = G!Refs(e, o)
  BY <1>3, <1>4 DEF G!Refs, G!Entries
<1>5. ClosedOK(r.color, e2, st, r.lists)
  <2>1. "finobj" \in Lists /\ "tobefnz" \in Lists BY NoNames
  <2> QED BY <1>4, <2>1 DEF ClosedOK
<1>6. ObjectsOK(r.color, e2, m2)
  <2>1. m2 \in [Objects -> SUBSET {"k", "v"}] BY DEF ObjectsOK, Scrubbed
  <2>2. \A o \in Objects \ Tables : m2[o] = {} BY DEF ObjectsOK, Scrubbed
  <2>3. ASSUME NEW o \in Objects, NEW i \in Slots
        PROVE  /\ e2[o][i] # G!Empty => e2[o][i][2] \in Objects
               /\ r.color[o] = "free" \/ o \in StringObjs => e2[o][i] = G!Empty
    <3>1. CASE r.color[o] = "free" BY <1>1, <3>1
    <3>2. CASE r.color[o] # "free" BY <1>1, <3>2 DEF ObjectsOK
    <3> QED BY <3>1, <3>2
  <2> HIDE DEF m2
  <2> QED BY <1>2, <2>1, <2>2, <2>3 DEF ObjectsOK
<1> QED BY <1>5, <1>6 DEF e2

-----------------------------------------------------------------------------
(* The steps of the program                                                 *)

LEMMA InObjects ==
  ASSUME NEW ls, Separate(ls), NEW l \in Lists
  PROVE  /\ ls[l] \in Seq(Objects) /\ Distinct(ls[l]) /\ In(ls, l) \subseteq Objects
         /\ DOMAIN ls[l] = 1..Len(ls[l]) /\ Len(ls[l]) \in Nat
         /\ \A i \in DOMAIN ls[l] : ls[l][i] \in In(ls, l)
PROOF
<1>1. ls[l] \in Seq(Objects) /\ Distinct(ls[l]) BY DEF Separate
<1>2. /\ DOMAIN ls[l] = 1..Len(ls[l]) /\ Len(ls[l]) \in Nat
      /\ \A i \in 1..Len(ls[l]) : ls[l][i] \in Objects
  BY <1>1, LenProperties
<1> QED BY <1>1, <1>2 DEF In, Elements

LEMMA HeldLive ==
  ASSUME GcInv
  PROVE  /\ stack \cup {Registry} \subseteq LiveIn(color) /\ LiveIn(color) \subseteq Objects
         /\ G!Held = stack \cup {Registry}
         /\ \A o \in LiveIn(color) : G!Refs(entry, o) \subseteq LiveIn(color)
BY DEF GcInv, ClosedOK, LiveIn, G!Held

\* Recolouring what is live, with white for what a sweep has passed.
LEMMA Recolored ==
  ASSUME NEW col, NEW col2, NEW e, NEW m, NEW st, NEW ls, NEW state, NEW ptr,
         ObjectsOK(col, e, m), ListsOK(ls, col), ClosedOK(col, e, st, ls),
         SweepOK(state, ptr, ls, col),
         col2 \in [Objects -> {"free", "white", "dead", "gray", "black"}],
         \A o \in Objects : col2[o] = "free" <=> col[o] = "free",
         \A o \in LiveIn(col) : o \in LiveIn(col2),
         \A o \in LiveIn(col2) \ LiveIn(col) : G!Refs(e, o) \subseteq LiveIn(col2),
         state \in Lists \cup {"swpend", "callfin", "pause"} =>
            \A o \in Objects : col[o] = "white" => col2[o] = "white"
  PROVE  /\ ObjectsOK(col2, e, m) /\ ListsOK(ls, col2) /\ ClosedOK(col2, e, st, ls)
         /\ SweepOK(state, ptr, ls, col2)
PROOF
<1>1. ObjectsOK(col2, e, m) BY DEF ObjectsOK
<1>2. ListsOK(ls, col2) BY DEF ListsOK
<1>3. ClosedOK(col2, e, st, ls)
  <2>1. \A o \in LiveIn(col) : G!Refs(e, o) \subseteq LiveIn(col) BY DEF ClosedOK
  <2>2. \A o \in LiveIn(col2) : G!Refs(e, o) \subseteq LiveIn(col2) BY <2>1
  <2> QED BY <2>2 DEF ClosedOK
<1>4. SweepOK(state, ptr, ls, col2)
  <2>1. CASE state \notin Lists \cup {"swpend", "callfin", "pause"}
    <3>1. state \notin Lists /\ state # "tobefnz" BY <2>1, NoNames
    <3> QED BY <2>1, <3>1 DEF SweepOK
  <2>2. CASE state \in {"swpend", "callfin", "pause"}
    <3>1. state \notin Lists BY <2>2, NoNames
    <3>2. \A o \in Objects : col2[o] \in {"free", "white"} BY <2>2 DEF SweepOK
    <3> QED BY <2>2, <3>1, <3>2 DEF SweepOK
  <2>3. CASE state \in Lists
    <3>1. state \notin {"swpend", "callfin", "pause"} BY <2>3, NoNames
    <3>2. Separate(ls) BY DEF ListsOK
    <3>3. \A o \in Objects : col[o] = "white" => col2[o] = "white" BY <2>3
    <3>4. \A l \in SweptBefore(state) : \A o \in In(ls, l) : col2[o] = "white"
      <4>1. \A l \in SweptBefore(state) : l \in Lists BY DEF SweptBefore
      <4>2. \A l \in SweptBefore(state) : \A o \in In(ls, l) : o \in Objects BY <3>2, <4>1, InObjects
      <4> QED BY <2>3, <3>3, <4>2 DEF SweepOK
    <3>5. PassedWhite(ls, ptr, state, col2)
      <4>1. PassedWhite(ls, ptr, state, col) BY <2>3 DEF SweepOK
      <4>2. \A o \in In(ls, state) : o \in Objects BY <2>3, <3>2, InObjects
      <4>3. ASSUME NEW p \in DOMAIN ls[state] PROVE \A i \in 1..p : ls[state][i] \in Objects
        <5>1. \A i \in 1..p : i \in DOMAIN ls[state] BY <2>3, <3>2, InObjects
        <5> QED BY <2>3, <3>2, <4>2, <5>1, InObjects
      <4> QED BY <3>3, <4>1, <4>2, <4>3 DEF PassedWhite
    <3> QED BY <3>1, <3>4, <3>5 DEF SweepOK
  <2> QED BY <2>1, <2>2, <2>3
<1> QED BY <1>1, <1>2, <1>3, <1>4

\* The program holds one more live object, or fewer.
LEMMA HoldsMore ==
  ASSUME NEW col, NEW e, NEW st, NEW ls, ClosedOK(col, e, st, ls),
         NEW st2, st2 \subseteq st \cup LiveIn(col)
  PROVE  ClosedOK(col, e, st2, ls)
BY DEF ClosedOK

LEMMA PopKeeps == ASSUME GcInv, NEW o, G!Pop(o) PROVE GcInv'
PROOF
<1>1. stack' \subseteq stack /\ UNCHANGED <<color, entry, mode, lists, gray, grayagain, allweak, gcstate, sweepgc>>
  BY DEF G!Pop, G!heap, G!work, G!control
<1>2. ClosedOK(color, entry, stack', lists) BY <1>1, HoldsMore DEF GcInv
<1> QED BY <1>1, <1>2 DEF GcInv

LEMMA GetFieldKeeps == ASSUME GcInv, NEW o \in G!Held, G!GetField(o) PROVE GcInv'
PROOF
<1>1. PICK x \in G!Refs(entry, o) : stack' = stack \cup {x} BY DEF G!GetField, G!Takes
<1>2. UNCHANGED <<color, entry, mode, lists, gray, grayagain, allweak, gcstate, sweepgc>>
  BY DEF G!GetField, G!heap, G!work, G!control
<1>3. x \in LiveIn(color) BY HeldLive
<1>4. ClosedOK(color, entry, stack', lists) BY <1>1, <1>3, HoldsMore DEF GcInv
<1> QED BY <1>2, <1>4 DEF GcInv

LEMMA SetModeKeeps == ASSUME GcInv, NEW t \in Tables, NEW m \in Modes, G!SetMode(t, m) PROVE GcInv'
PROOF
<1>1. /\ mode' = [mode EXCEPT ![t] = m]
      /\ UNCHANGED <<color, entry, stack, lists, gray, grayagain, allweak, gcstate, sweepgc>>
  BY DEF G!SetMode, G!work, G!control
<1>2. m \in SUBSET {"k", "v"} BY ObjectsFit DEF G!LuaGcAssumption
<1>3. ObjectsOK(color, entry, mode') BY <1>1, <1>2 DEF GcInv, ObjectsOK
<1> QED BY <1>1, <1>3 DEF GcInv

LEMMA FindStringKeeps == ASSUME GcInv, NEW o \in Objects, G!FindString(o) PROVE GcInv'
PROOF
<1>1. /\ o \in StringObjs /\ color[o] # "free" /\ stack' = stack \cup {o}
      /\ color' = IF color[o] = "dead" THEN [color EXCEPT ![o] = "white"] ELSE color
      /\ UNCHANGED <<entry, mode, lists, gray, grayagain, allweak, gcstate, sweepgc>>
  BY DEF G!FindString, G!Takes, G!work, G!control
<1>2. color \in [Objects -> {"free", "white", "dead", "gray", "black"}] BY DEF GcInv, ObjectsOK
<1>3. /\ color' \in [Objects -> {"free", "white", "dead", "gray", "black"}]
      /\ o \in LiveIn(color')
      /\ \A x \in Objects : x # o => color'[x] = color[x]
      /\ color[o] # "dead" => color' = color
      /\ color'[o] # "free"
  BY <1>1, <1>2 DEF LiveIn
<1>4. G!Refs(entry, o) = {}
  <2>1. \A i \in Slots : entry[o][i] = G!Empty BY <1>1 DEF GcInv, ObjectsOK
  <2> QED BY <2>1, RefsAre DEF G!Empty
<1>5. /\ ObjectsOK(color', entry, mode) /\ ListsOK(lists, color') /\ ClosedOK(color', entry, stack, lists)
      /\ SweepOK(gcstate, sweepgc, lists, color')
  <2>1. \A x \in Objects : color'[x] = "free" <=> color[x] = "free" BY <1>1, <1>3
  <2>2. \A x \in LiveIn(color) : x \in LiveIn(color') BY <1>3 DEF LiveIn
  <2>3. \A x \in LiveIn(color') \ LiveIn(color) : x = o BY <1>3 DEF LiveIn
  <2>4. \A x \in Objects : color[x] = "white" => color'[x] = "white" BY <1>1, <1>3
  <2> QED BY <1>3, <1>4, <2>1, <2>2, <2>3, <2>4, Recolored DEF GcInv
<1>6. ClosedOK(color', entry, stack', lists) BY <1>1, <1>3, <1>5, HoldsMore
<1>7. gcstate \in {"propagate", "atomic"} => color' = color BY <1>3 DEF GcInv, MarkOK
<1> QED BY <1>1, <1>5, <1>6, <1>7 DEF GcInv

\* One entry of a live object is replaced by what the program holds.
Stored(e, o, i, q) == e = [entry EXCEPT ![o][i] = q]
LEMMA EntryChanges ==
  ASSUME ObjectsOK(color, entry, mode), ClosedOK(color, entry, stack, lists),
         NEW o \in LiveIn(color), o \notin StringObjs, NEW i \in Slots,
         NEW q, q = G!Empty \/ q \in (LiveIn(color) \cup {NoObject}) \X LiveIn(color),
         NEW e, Stored(e, o, i, q)
  PROVE  /\ ObjectsOK(color, e, mode) /\ ClosedOK(color, e, stack, lists)
         /\ \A x \in Objects : x # o => G!Refs(e, x) = G!Refs(entry, x)
         /\ G!Refs(e, o) \subseteq G!Refs(entry, o) \cup ({q[1], q[2]} \ {NoObject})
PROOF
<1>1. LiveIn(color) \subseteq Objects /\ color[o] # "free" BY DEF LiveIn
<1>2. q \in (Objects \cup {NoObject}) \X (Objects \cup {NoObject})
  BY <1>1 DEF G!Empty
<1>3. q # G!Empty => q[2] \in Objects BY <1>1
<1>4. entry \in [Objects -> [Slots -> (Objects \cup {NoObject}) \X (Objects \cup {NoObject})]]
  BY DEF ObjectsOK
<1>5. e \in [Objects -> [Slots -> (Objects \cup {NoObject}) \X (Objects \cup {NoObject})]]
  BY <1>1, <1>2, <1>4 DEF Stored
<1>6. /\ \A x \in Objects : x # o => e[x] = entry[x]
      /\ \A k \in Slots : e[o][k] = IF k = i THEN q ELSE entry[o][k]
  BY <1>1, <1>4 DEF Stored
<1>7. ObjectsOK(color, e, mode)
  <2>1. ASSUME NEW x \in Objects, NEW k \in Slots
        PROVE  /\ e[x][k] # G!Empty => e[x][k][2] \in Objects
               /\ color[x] = "free" \/ x \in StringObjs => e[x][k] = G!Empty
    <3>1. CASE x # o BY <1>6, <3>1 DEF ObjectsOK
    <3>2. CASE x = o BY <1>1, <1>3, <1>6, <3>2 DEF ObjectsOK
    <3> QED BY <3>1, <3>2
  <2> QED BY <1>5, <2>1 DEF ObjectsOK
<1>8. \A x \in Objects : x # o => G!Refs(e, x) = G!Refs(entry, x)
  BY <1>6 DEF G!Refs, G!Entries
<1>9. G!Refs(e, o) \subseteq G!Refs(entry, o) \cup ({q[1], q[2]} \ {NoObject})
  <2> SUFFICES ASSUME NEW x \in G!Refs(e, o)
               PROVE  x \in G!Refs(entry, o) \cup ({q[1], q[2]} \ {NoObject})
    OBVIOUS
  <2>0. \A y : y \in G!Refs(e, o) <=>
           y # NoObject /\ \E k \in Slots : y = e[o][k][1] \/ y = e[o][k][2]
    BY RefsAre
  <2>1. x # NoObject /\ \E k \in Slots : x = e[o][k][1] \/ x = e[o][k][2] BY <2>0
  <2>2. PICK k \in Slots : x = e[o][k][1] \/ x = e[o][k][2] BY <2>1
  <2>3. CASE k = i
    <3>1. e[o][k] = q BY <1>6, <2>3
    <3> QED BY <2>1, <2>2, <3>1
  <2>4. CASE k # i
    <3>1. e[o][k] = entry[o][k] BY <1>6, <2>4
    <3>2. x = entry[o][k][1] \/ x = entry[o][k][2] BY <2>2, <3>1
    <3> QED BY <2>1, <3>2, RefsAre
  <2> QED BY <2>3, <2>4
<1>10. \A x \in LiveIn(color) : G!Refs(e, x) \subseteq LiveIn(color)
  <2>1. {q[1], q[2]} \ {NoObject} \subseteq LiveIn(color) BY DEF G!Empty
  <2>2. G!Refs(e, o) \subseteq LiveIn(color) BY <1>9, <2>1 DEF ClosedOK
  <2>3. \A x \in LiveIn(color) : x # o => G!Refs(e, x) \subseteq LiveIn(color)
    BY <1>1, <1>8 DEF ClosedOK
  <2> QED BY <2>2, <2>3
<1>11. ClosedOK(color, e, stack, lists) BY <1>10 DEF ClosedOK
<1> QED BY <1>7, <1>8, <1>9, <1>11

LEMMA TypesApart ==
  /\ Tables \subseteq Objects /\ Closures \subseteq Objects /\ Userdata \subseteq Objects
  /\ StringObjs \subseteq Objects /\ Registry \in Tables
  /\ Tables \cap StringObjs = {} /\ Tables \cap Userdata = {} /\ Tables \cap Closures = {}
  /\ StringObjs \cap (Closures \cup Userdata) = {}
BY ObjectsFit DEF G!LuaGcAssumption, Objects, G!Objects

LEMMA SetTableKeeps ==
  ASSUME GcInv, NEW t \in G!Held \cap Tables, NEW k \in (stack \cap Keys) \cup {NoObject},
         NEW v \in stack \cup {NoObject}, G!SetTable(t, k, v)
  PROVE  GcInv'
PROOF
<1> DEFINE q == IF v = NoObject THEN G!Empty ELSE <<k, v>>
           xs == {k, v} \ {NoObject}
<1>1. PICK i \in Slots : Stored(entry', t, i, q) BY DEF G!SetTable, Stored
<1>2. /\ IF v = NoObject THEN UNCHANGED <<color, gray, grayagain, allweak>>
         ELSE IF color[t] = "black" /\ xs \cap G!White(color) # {}
         THEN /\ color' = [color EXCEPT ![t] = "gray"] /\ grayagain' = grayagain \cup {t}
              /\ UNCHANGED <<gray, allweak>>
         ELSE UNCHANGED <<color, gray, grayagain, allweak>>
      /\ UNCHANGED <<mode, stack, lists, gcstate, sweepgc>>
  BY DEF G!SetTable, G!barrierback, G!work, G!control
<1>3. t \in LiveIn(color) /\ t \in Objects /\ t \notin StringObjs BY HeldLive, TypesApart
<1>4. stack \subseteq LiveIn(color) /\ LiveIn(color) \subseteq Objects /\ NoObject \notin Objects
  BY HeldLive, NoNames
<1>5. q = G!Empty \/ q \in (LiveIn(color) \cup {NoObject}) \X LiveIn(color) BY <1>4
<1>6. {q[1], q[2]} \ {NoObject} = IF v = NoObject THEN {} ELSE xs BY DEF G!Empty
<1> HIDE DEF q
<1>7. /\ ObjectsOK(color, entry', mode) /\ ClosedOK(color, entry', stack, lists)
      /\ \A x \in Objects : x # t => G!Refs(entry', x) = G!Refs(entry, x)
      /\ G!Refs(entry', t) \subseteq G!Refs(entry, t) \cup ({q[1], q[2]} \ {NoObject})
  <2>1. ObjectsOK(color, entry, mode) /\ ClosedOK(color, entry, stack, lists) BY DEF GcInv
  <2> QED BY <1>1, <1>3, <1>5, <2>1, EntryChanges, Zenon
<1>8. color \in [Objects -> {"free", "white", "dead", "gray", "black"}] BY DEF GcInv, ObjectsOK
<1>9. /\ color' \in [Objects -> {"free", "white", "dead", "gray", "black"}]
      /\ \A x \in Objects : x # t => color'[x] = color[x]
      /\ color'[t] = color[t] \/ (color[t] = "black" /\ color'[t] = "gray" /\ t \in grayagain')
      /\ grayagain \subseteq grayagain' /\ gray' = gray /\ allweak' = allweak
  BY <1>2, <1>3, <1>8
<1>10. /\ ObjectsOK(color', entry', mode) /\ ListsOK(lists, color')
       /\ ClosedOK(color', entry', stack, lists) /\ SweepOK(gcstate, sweepgc, lists, color')
  <2>1. \A x \in Objects : color'[x] = "free" <=> color[x] = "free" BY <1>9
  <2>2. \A x \in LiveIn(color) : x \in LiveIn(color') BY <1>9 DEF LiveIn
  <2>3. LiveIn(color') \ LiveIn(color) = {} BY <1>9 DEF LiveIn
  <2>4. \A x \in Objects : color[x] = "white" => color'[x] = "white" BY <1>9
  <2> QED BY <1>7, <1>9, <2>1, <2>2, <2>3, <2>4, Recolored DEF GcInv
<1>11. ASSUME MarkOK(color, entry, lists, gray, grayagain, allweak)
       PROVE  MarkOK(color', entry', lists, gray', grayagain', allweak')
  <2>1. \A x \in Objects : color'[x] # "dead" BY <1>9, <1>11 DEF MarkOK
  <2>2. ASSUME NEW x \in Objects, color'[x] = "black", NEW y \in G!Refs(entry', x)
        PROVE  color'[y] # "white"
    <3>1. color[x] = "black" BY <1>9, <2>2
    <3>2. y \in Objects
      <4>1. x \in LiveIn(color) BY <3>1 DEF LiveIn
      <4> QED BY <1>4, <1>7, <4>1 DEF ClosedOK
    <3>3. color[y] # "white"
      <4>1. CASE y \in G!Refs(entry, x) BY <1>11, <3>1, <4>1 DEF MarkOK
      <4>2. CASE y \notin G!Refs(entry, x)
        <5>1. x = t /\ v # NoObject /\ y \in xs BY <1>6, <1>7, <4>2
        <5>2. xs \cap G!White(color) = {} BY <1>2, <1>3, <1>8, <2>2, <5>1
        <5>3. y \notin G!White(color) BY <5>1, <5>2
        <5> QED BY <3>2, <5>3 DEF G!White, Objects
      <4> QED BY <4>1, <4>2
    <3> QED BY <1>9, <3>2, <3>3
  <2>3. ASSUME NEW x \in Objects, color'[x] = "gray" PROVE x \in gray' \cup grayagain' \cup allweak'
    BY <1>9, <1>11, <2>3 DEF MarkOK
  <2>4. \A x \in gray \ {Main} : color'[x] = "gray" BY <1>9, <1>11 DEF MarkOK
  <2>5. \A x \in allweak : color'[x] = "gray" BY <1>9, <1>11, TypesApart DEF MarkOK
  <2>6. \A x \in In(lists, "tobefnz") : color'[x] # "white"
    <3>1. In(lists, "tobefnz") \subseteq Objects BY InObjects, NoNames DEF GcInv, ListsOK
    <3> QED BY <1>9, <1>11, <3>1 DEF MarkOK
  <2> QED BY <1>9, <1>11, <2>1, <2>2, <2>3, <2>4, <2>5, <2>6 DEF MarkOK
<1> QED BY <1>2, <1>10, <1>11 DEF GcInv

\* barrier: the new value is marked, or its owner swept before its turn.
LEMMA SetValueKeeps ==
  ASSUME GcInv, NEW o \in stack, o \in Closures \cup Userdata, NEW v \in stack, G!SetValue(o, v)
  PROVE  GcInv'
PROOF
<1>1. PICK i \in Slots : Stored(entry', o, i, <<NoObject, v>>) BY DEF G!SetValue, Stored
<1>2. G!barrier(o, v) /\ UNCHANGED <<mode, stack, lists, gcstate, sweepgc>>
  BY DEF G!SetValue, G!control
<1>3. o \in LiveIn(color) /\ o \in Objects /\ o \notin StringObjs BY HeldLive, TypesApart
<1>4. v \in LiveIn(color) /\ v \in Objects /\ LiveIn(color) \subseteq Objects BY HeldLive
<1>5. /\ ObjectsOK(color, entry', mode) /\ ClosedOK(color, entry', stack, lists)
      /\ \A x \in Objects : x # o => G!Refs(entry', x) = G!Refs(entry, x)
      /\ G!Refs(entry', o) \subseteq G!Refs(entry, o) \cup {v}
  <2>1. ObjectsOK(color, entry, mode) /\ ClosedOK(color, entry, stack, lists) BY DEF GcInv
  <2>2. /\ ObjectsOK(color, entry', mode) /\ ClosedOK(color, entry', stack, lists)
        /\ \A x \in Objects : x # o => G!Refs(entry', x) = G!Refs(entry, x)
        /\ G!Refs(entry', o) \subseteq
             G!Refs(entry, o) \cup ({<<NoObject, v>>[1], <<NoObject, v>>[2]} \ {NoObject})
    <3> DEFINE q == <<NoObject, v>>
    <3>1. Stored(entry', o, i, q) BY <1>1
    <3>2. q \in (LiveIn(color) \cup {NoObject}) \X LiveIn(color) BY <1>4
    <3> HIDE DEF q
    <3>3. /\ ObjectsOK(color, entry', mode) /\ ClosedOK(color, entry', stack, lists)
          /\ \A x \in Objects : x # o => G!Refs(entry', x) = G!Refs(entry, x)
          /\ G!Refs(entry', o) \subseteq G!Refs(entry, o) \cup ({q[1], q[2]} \ {NoObject})
      BY <1>3, <2>1, <3>1, <3>2, EntryChanges, Zenon
    <3> QED BY <3>3 DEF q
  <2>3. {<<NoObject, v>>[1], <<NoObject, v>>[2]} \ {NoObject} \subseteq {v} OBVIOUS
  <2> QED BY <2>2, <2>3
<1>6. color \in [Objects -> {"free", "white", "dead", "gray", "black"}] BY DEF GcInv, ObjectsOK
<1>7. \A x : x \in G!White(color) <=> x \in Objects /\ color[x] = "white" BY DEF G!White, Objects
<1>8. /\ ListsOK(lists, color) /\ SweepOK(gcstate, sweepgc, lists, color)
      /\ gcstate \in {"propagate", "atomic"} =>
           MarkOK(color, entry, lists, gray, grayagain, allweak)
  BY DEF GcInv
<1>9. In(lists, "tobefnz") \subseteq Objects BY <1>8, InObjects, NoNames DEF ListsOK
<1>10. CASE color[o] # "black" \/ color[v] # "white"
  <2>1. UNCHANGED <<color, gray, grayagain, allweak>>
    BY <1>2, <1>7, <1>10 DEF G!barrier, G!work
  <2>2. ASSUME MarkOK(color, entry, lists, gray, grayagain, allweak)
        PROVE  MarkOK(color, entry', lists, gray, grayagain, allweak)
    <3>1. \A x \in Objects : color[x] = "black" => \A y \in G!Refs(entry', x) : color[y] # "white"
      BY <1>5, <1>10, <2>2 DEF MarkOK
    <3> QED BY <2>2, <3>1 DEF MarkOK
  <2> QED BY <1>2, <1>5, <1>8, <2>1, <2>2 DEF GcInv
<1>11. CASE color[o] = "black" /\ color[v] = "white" /\ G!keepinvariant
  <2> DEFINE P == G!Paint({v})
             Q == G!Queued({v})
  <2>1. color' = P /\ gray' = gray \cup Q /\ UNCHANGED <<grayagain, allweak>>
    BY <1>2, <1>4, <1>7, <1>11 DEF G!barrier
  <2>2. gcstate \in {"propagate", "atomic"} /\ MarkOK(color, entry, lists, gray, grayagain, allweak)
    BY <1>8, <1>11 DEF G!keepinvariant
  <2>3. /\ P \in [Objects -> {"free", "white", "dead", "gray", "black"}]
        /\ \A x \in Objects : color[x] # "white" => P[x] = color[x]
        /\ \A x \in Objects : color[x] = "white" => P[x] \in {"white", "gray", "black"}
        /\ \A x \in {v} : P[x] # "white"
        /\ \A x \in Objects : P[x] = "black" =>
              \/ color[x] = "black"
              \/ color[x] = "white" /\ \A y \in G!Refs(entry, x) : P[y] # "white"
        /\ Q \subseteq Objects
        /\ \A x \in Objects : x \in Q <=> color[x] = "white" /\ P[x] = "gray"
    <3>1. ObjectsOK(color, entry, mode) /\ allweak \subseteq Tables /\ {v} \in SUBSET Objects
      BY <1>4, <2>2 DEF GcInv, MarkOK
    <3> QED BY <3>1, PaintIs
  <2> HIDE DEF P, Q
  <2>4. LiveIn(P) = LiveIn(color) BY <1>6, <2>3 DEF LiveIn
  <2>5. /\ ObjectsOK(P, entry', mode) /\ ListsOK(lists, P)
        /\ ClosedOK(P, entry', stack, lists) /\ SweepOK(gcstate, sweepgc, lists, P)
    <3>1. \A x \in Objects : P[x] = "free" <=> color[x] = "free" BY <1>6, <2>3
    <3>2. gcstate \notin Lists \cup {"swpend", "callfin", "pause"} BY <2>2, NoNames
    <3> QED BY <1>5, <1>8, <2>3, <2>4, <3>1, <3>2, Recolored
  <2>6. MarkOK(P, entry', lists, gray \cup Q, grayagain, allweak)
    <3>1. \A x \in Objects : P[x] # "dead" BY <1>6, <2>2, <2>3 DEF MarkOK
    <3>2. ASSUME NEW x \in Objects, P[x] = "black", NEW y \in G!Refs(entry', x) PROVE P[y] # "white"
      <4>1. CASE color[x] = "black" /\ y \in G!Refs(entry, x)
        <5>1. y \in Objects /\ color[y] # "white"
          <6>1. x \in LiveIn(color) BY <4>1 DEF LiveIn
          <6>2. y \in LiveIn(color) BY <1>5, <3>2, <6>1 DEF ClosedOK
          <6> QED BY <1>4, <2>2, <4>1, <6>2 DEF MarkOK
        <5> QED BY <2>3, <5>1
      <4>2. CASE x # o /\ color[x] # "black"
        <5>1. y \in G!Refs(entry, x) BY <1>5, <3>2, <4>2
        <5> QED BY <2>3, <3>2, <4>2, <5>1
      <4>3. CASE y \notin G!Refs(entry, x)
        <5>1. y = v BY <1>5, <3>2, <4>3
        <5> QED BY <2>3, <5>1
      <4> QED BY <1>11, <4>1, <4>2, <4>3
    <3>3. \A x \in Objects : P[x] = "gray" => x \in (gray \cup Q) \cup grayagain \cup allweak
      <4>1. ASSUME NEW x \in Objects, P[x] = "gray", color[x] # "white" PROVE color[x] = "gray"
        BY <2>3, <4>1
      <4> QED BY <2>2, <2>3, <4>1 DEF MarkOK
    <3>4. \A x \in (gray \cup Q) \ {Main} : P[x] = "gray" BY <2>2, <2>3 DEF MarkOK
    <3>5. \A x \in allweak : P[x] = "gray" /\ x \in Objects BY <2>2, <2>3, TypesApart DEF MarkOK
    <3>6. (gray \cup Q) \cap allweak = {}
      BY <2>2, <2>3, <3>5 DEF MarkOK
    <3>7. \A x \in In(lists, "tobefnz") : P[x] # "white" BY <1>9, <2>2, <2>3 DEF MarkOK
    <3>8. gray \cup Q \subseteq Objects \cup {Main} /\ allweak \subseteq Tables BY <2>2, <2>3 DEF MarkOK
    <3> QED BY <3>1, <3>2, <3>3, <3>4, <3>5, <3>6, <3>7, <3>8 DEF MarkOK
  <2> QED BY <1>2, <2>1, <2>5, <2>6 DEF GcInv
<1>12. CASE color[o] = "black" /\ color[v] = "white" /\ ~G!keepinvariant
  <2>1. color' = [color EXCEPT ![o] = "white"] /\ allweak' = allweak
    BY <1>2, <1>4, <1>7, <1>12 DEF G!barrier, G!work
  <2>2. /\ color' \in [Objects -> {"free", "white", "dead", "gray", "black"}]
        /\ \A x \in Objects : color'[x] = IF x = o THEN "white" ELSE color[x]
    BY <1>3, <1>6, <2>1
  <2>3. LiveIn(color') = LiveIn(color) BY <1>12, <2>2 DEF LiveIn
  <2>4. /\ ObjectsOK(color', entry', mode) /\ ListsOK(lists, color')
        /\ ClosedOK(color', entry', stack, lists) /\ SweepOK(gcstate, sweepgc, lists, color')
    <3>1. \A x \in Objects : color'[x] = "free" <=> color[x] = "free" BY <1>12, <2>2
    <3>2. \A x \in Objects : color[x] = "white" => color'[x] = "white" BY <2>2
    <3> QED BY <1>5, <1>8, <2>2, <2>3, <3>1, <3>2, Recolored
  <2>5. gcstate \notin {"propagate", "atomic"} BY <1>12 DEF G!keepinvariant
  <2> QED BY <1>2, <2>1, <2>4, <2>5 DEF GcInv
<1> QED BY <1>10, <1>11, <1>12

\* An object that is in no list is put in front of one.
Put(r, ls, l, o) == r = [ls EXCEPT ![l] = <<o>> \o @]

LEMMA PutIs ==
  ASSUME NEW ls, Separate(ls), NEW l \in Lists, NEW o \in Objects,
         \A k \in Lists : o \notin In(ls, k), NEW r, Put(r, ls, l, o)
  PROVE  /\ Separate(r) /\ \A k \in Lists \ {l} : r[k] = ls[k] /\ In(r, k) = In(ls, k)
         /\ In(r, l) = {o} \cup In(ls, l)
         /\ Len(r[l]) = Len(ls[l]) + 1 /\ r[l][1] = o
         /\ \A i \in 1..Len(ls[l]) : r[l][i + 1] = ls[l][i]
PROOF
<1> DEFINE s == ls[l]
           t == <<o>> \o s
<1>1. s \in Seq(Objects) /\ Distinct(s) /\ o \notin Elements(s) BY InObjects DEF In
<1>2. /\ t \in Seq(Objects) /\ Len(t) = Len(s) + 1 /\ Distinct(t)
      /\ Elements(t) = {o} \cup Elements(s)
      /\ t[1] = o /\ \A i \in 1..Len(s) : t[i + 1] = s[i]
  <2> HIDE DEF s
  <2> QED BY <1>1, PrependIs
<1>3. r = [ls EXCEPT ![l] = t] BY DEF Put
<1> HIDE DEF t
<1>4. ls \in [Lists -> Seq(Objects)] BY DEF Separate
<1>5. r \in [Lists -> Seq(Objects)] /\ r[l] = t /\ \A k \in Lists \ {l} : r[k] = ls[k]
  BY <1>2, <1>3, <1>4
<1>6. /\ \A k \in Lists \ {l} : In(r, k) = In(ls, k)
      /\ In(r, l) = {o} \cup In(ls, l)
  BY <1>2, <1>5 DEF In
<1>7. \A k \in Lists : Distinct(r[k]) BY <1>2, <1>5 DEF Separate
<1>8. \A k, j \in Lists : k # j => In(r, k) \cap In(r, j) = {}
  <2>1. \A k, j \in Lists : k # j => In(ls, k) \cap In(ls, j) = {} BY DEF Separate
  <2>2. ASSUME NEW k \in Lists, NEW j \in Lists, k # j PROVE In(r, k) \cap In(r, j) = {}
    <3>1. CASE k # l /\ j # l BY <1>6, <2>1, <2>2, <3>1
    <3>2. CASE k = l BY <1>6, <2>1, <2>2, <3>2
    <3>3. CASE j = l BY <1>6, <2>1, <2>2, <3>3
    <3> QED BY <3>1, <3>2, <3>3
  <2> QED BY <2>2
<1>9. Separate(r) BY <1>5, <1>7, <1>8 DEF Separate
<1> QED BY <1>2, <1>5, <1>6, <1>9

LEMMA SweepPut ==
  ASSUME NEW col, NEW col2, NEW ls, Separate(ls), NEW l \in Lists, NEW o \in Objects,
         \A k \in Lists : o \notin In(ls, k), NEW r, Put(r, ls, l, o),
         NEW state, NEW ptr, SweepOK(state, ptr, ls, col),
         \A x \in Objects : x # o => col2[x] = col[x],
         state \in Lists \cup {"swpend", "callfin", "pause"} => col2[o] = "white"
  PROVE  SweepOK(state, ptr, r, col2)
PROOF
<1>1. /\ Separate(r) /\ \A k \in Lists \ {l} : r[k] = ls[k] /\ In(r, k) = In(ls, k)
      /\ In(r, l) = {o} \cup In(ls, l)
      /\ Len(r[l]) = Len(ls[l]) + 1 /\ r[l][1] = o
      /\ \A i \in 1..Len(ls[l]) : r[l][i + 1] = ls[l][i]
  BY PutIs
<1>2. \A k \in Lists : /\ In(ls, k) \subseteq Objects /\ Len(ls[k]) \in Nat
                       /\ DOMAIN ls[k] = 1..Len(ls[k])
                       /\ \A i \in DOMAIN ls[k] : ls[k][i] \in In(ls, k)
  BY InObjects
<1>3. \A k \in Lists : \A x \in In(ls, k) : col2[x] = col[x] BY <1>2
<1>4. CASE state \notin Lists \cup {"swpend", "callfin", "pause"}
  <2>1. state \notin Lists /\ state # "tobefnz" BY <1>4, NoNames
  <2> QED BY <1>4, <2>1 DEF SweepOK
<1>5. CASE state \in {"swpend", "callfin", "pause"}
  <2>1. state \notin Lists BY <1>5, NoNames
  <2>2. \A x \in Objects : col2[x] \in {"free", "white"} BY <1>5 DEF SweepOK
  <2> QED BY <1>5, <2>1, <2>2 DEF SweepOK
<1>6. CASE state \in Lists
  <2>1. state \notin {"swpend", "callfin", "pause"} /\ col2[o] = "white" BY <1>6, NoNames
  <2>2. \A k \in SweptBefore(state) : \A x \in In(r, k) : col2[x] = "white"
    <3>1. \A k \in SweptBefore(state) : k \in Lists BY DEF SweptBefore
    <3>2. \A k \in SweptBefore(state) : \A x \in In(ls, k) : col[x] = "white" BY <1>6 DEF SweepOK
    <3> QED BY <1>1, <1>3, <2>1, <3>1, <3>2
  <2>3. PassedWhite(ls, ptr, state, col) BY <1>6 DEF SweepOK
  <2>4. PassedWhite(r, ptr, state, col2)
    <3>1. ASSUME ptr = "null" PROVE \A x \in In(r, state) : col2[x] = "white"
      <4>1. \A x \in In(ls, state) : col[x] = "white" BY <2>3, <3>1 DEF PassedWhite
      <4> QED BY <1>1, <1>3, <1>6, <2>1, <4>1
    <3>2. ASSUME ptr \notin {"null", state}
          PROVE  \E p \in DOMAIN r[state] : r[state][p] = ptr /\ \A i \in 1..p : col2[r[state][i]] = "white"
      <4>1. PICK p \in DOMAIN ls[state] :
               ls[state][p] = ptr /\ \A i \in 1..p : col[ls[state][i]] = "white"
        BY <2>3, <3>2 DEF PassedWhite
      <4>2. p \in 1..Len(ls[state]) BY <1>2, <1>6
      <4>3. ASSUME NEW i \in 1..p PROVE col2[ls[state][i]] = "white"
        <5>1. i \in 1..Len(ls[state]) BY <1>2, <1>6, <4>2
        <5>2. ls[state][i] \in In(ls, state) BY <1>2, <1>6, <5>1
        <5> QED BY <1>3, <1>6, <4>1, <5>2
      <4>4. CASE state # l
        <5>1. r[state] = ls[state] BY <1>1, <1>6, <4>4
        <5> QED BY <4>1, <4>3, <5>1
      <4>5. CASE state = l
        <5>1. p \in Nat /\ Len(ls[l]) \in Nat /\ p <= Len(ls[l]) BY <1>2, <4>2, <4>5
        <5>2. Len(r[l]) \in Nat /\ DOMAIN r[l] = 1..Len(r[l]) BY <1>1, InObjects
        <5>3. p + 1 \in DOMAIN r[l] BY <1>1, <5>1, <5>2
        <5>4. r[l][p + 1] = ptr BY <1>1, <4>1, <4>2, <4>5
        <5>5. ASSUME NEW i \in 1..(p + 1) PROVE col2[r[l][i]] = "white"
          <6>1. CASE i = 1 BY <1>1, <2>1, <6>1
          <6>2. CASE i # 1
            <7> DEFINE k == i - 1
            <7>1. k \in 1..p /\ k \in 1..Len(ls[l]) /\ i = k + 1 BY <5>1, <6>2
            <7> HIDE DEF k
            <7>2. r[l][i] = ls[l][k] BY <1>1, <7>1
            <7> QED BY <4>3, <4>5, <7>1, <7>2
          <6> QED BY <6>1, <6>2
        <5> QED BY <4>5, <5>3, <5>4, <5>5
      <4> QED BY <4>4, <4>5
    <3> QED BY <3>1, <3>2 DEF PassedWhite
  <2> QED BY <1>6, <2>1, <2>2, <2>4 DEF SweepOK
<1> QED BY <1>4, <1>5, <1>6

LEMMA luaC_newobjKeeps == ASSUME GcInv, NEW o \in Objects, G!luaC_newobj(o) PROVE GcInv'
PROOF
<1>1. /\ color[o] = "free" /\ stack' = stack \cup {o} /\ color' = [color EXCEPT ![o] = "white"]
      /\ Put(lists', lists, "allgc", o)
      /\ UNCHANGED <<entry, mode, gray, grayagain, allweak, gcstate, sweepgc>>
  BY DEF G!luaC_newobj, G!Takes, G!work, G!control, Put
<1>2. /\ ObjectsOK(color, entry, mode) /\ ListsOK(lists, color) /\ Separate(lists)
      /\ ClosedOK(color, entry, stack, lists) /\ SweepOK(gcstate, sweepgc, lists, color)
      /\ gcstate \in {"propagate", "atomic"} =>
           MarkOK(color, entry, lists, gray, grayagain, allweak)
  BY DEF GcInv, ListsOK
<1>3. color \in [Objects -> {"free", "white", "dead", "gray", "black"}] BY <1>2 DEF ObjectsOK
<1>4. \A k \in Lists : o \notin In(lists, k) BY <1>1, <1>2 DEF ListsOK
<1>5. "allgc" \in Lists /\ "finobj" \in Lists /\ "tobefnz" \in Lists BY NoNames
<1>6. /\ Separate(lists') /\ \A k \in Lists \ {"allgc"} : In(lists', k) = In(lists, k)
      /\ In(lists', "allgc") = {o} \cup In(lists, "allgc")
  BY <1>1, <1>2, <1>4, <1>5, PutIs
<1>7. /\ color' \in [Objects -> {"free", "white", "dead", "gray", "black"}]
      /\ \A x \in Objects : color'[x] = IF x = o THEN "white" ELSE color[x]
  BY <1>1, <1>3
<1>8. LiveIn(color') = LiveIn(color) \cup {o} /\ o \notin LiveIn(color) BY <1>1, <1>7 DEF LiveIn
<1>9. \A i \in Slots : entry[o][i] = G!Empty BY <1>1, <1>2 DEF ObjectsOK
<1>10. G!Refs(entry, o) = {} BY <1>9, RefsAre DEF G!Empty
<1>11. ObjectsOK(color', entry, mode)
  <2>1. \A x \in Objects : color'[x] = "free" => color[x] = "free" BY <1>7
  <2> QED BY <1>2, <1>7, <2>1 DEF ObjectsOK
<1>12. In(lists', "finobj") = In(lists, "finobj") /\ In(lists', "tobefnz") = In(lists, "tobefnz")
  BY <1>5, <1>6
<1>13. ListsOK(lists', color')
  <2>1. ASSUME NEW x \in Objects PROVE color'[x] # "free" <=> \E k \in Lists : x \in In(lists', k)
    <3>1. CASE x = o BY <1>5, <1>6, <1>7, <3>1
    <3>2. CASE x # o
      <4>1. \A k \in Lists : x \in In(lists', k) <=> x \in In(lists, k) BY <1>6, <3>2
      <4> QED BY <1>2, <1>7, <3>2, <4>1 DEF ListsOK
    <3> QED BY <3>1, <3>2
  <2> QED BY <1>2, <1>6, <1>12, <2>1 DEF ListsOK
<1>14. ClosedOK(color', entry, stack', lists') BY <1>1, <1>2, <1>8, <1>10, <1>12 DEF ClosedOK
<1>15. SweepOK(gcstate, sweepgc, lists', color')
  <2>1. \A x \in Objects : x # o => color'[x] = color[x] BY <1>7
  <2>2. gcstate \in Lists \cup {"swpend", "callfin", "pause"} => color'[o] = "white" BY <1>7
  <2>3. Put(lists', lists, "allgc", o) /\ Separate(lists) BY <1>1, <1>2
  <2>4. SweepOK(gcstate, sweepgc, lists, color) BY <1>2
  <2> QED BY <1>4, <1>5, <2>1, <2>2, <2>3, <2>4, SweepPut, Zenon
<1>16. ASSUME MarkOK(color, entry, lists, gray, grayagain, allweak)
       PROVE  MarkOK(color', entry, lists', gray, grayagain, allweak)
  <2>1. ASSUME NEW x \in Objects, color'[x] = "black", NEW y \in G!Refs(entry, x)
        PROVE  color'[y] # "white"
    <3>1. color[x] = "black" BY <1>7, <2>1
    <3>2. y \in LiveIn(color) BY <1>2, <3>1 DEF ClosedOK, LiveIn
    <3>3. y \in Objects /\ y # o BY <1>8, <3>2 DEF LiveIn
    <3> QED BY <1>7, <1>16, <3>1, <3>3 DEF MarkOK
  <2>2. \A x \in Objects : color'[x] # "dead" /\ (color'[x] = "gray" => color[x] = "gray")
    BY <1>7, <1>16 DEF MarkOK
  <2>3. \A x \in Objects : color[x] = "gray" => color'[x] = "gray" BY <1>1, <1>7
  <2>4. \A x \in (gray \ {Main}) \cup allweak : x \in Objects BY <1>16, TypesApart DEF MarkOK
  <2>5. \A x \in In(lists, "tobefnz") : x \in Objects /\ x # o BY <1>2, <1>4, <1>5, InObjects
  <2>6. \A x \in In(lists', "tobefnz") : color'[x] # "white" BY <1>7, <1>12, <1>16, <2>5 DEF MarkOK
  <2> QED BY <1>16, <2>1, <2>2, <2>3, <2>4, <2>6 DEF MarkOK
<1> QED BY <1>1, <1>2, <1>11, <1>13, <1>14, <1>15, <1>16 DEF GcInv

LEMMA CallFinalizerKeeps == ASSUME GcInv, G!CallFinalizer PROVE GcInv'
PROOF
<1> DEFINE s == lists["tobefnz"]
           o == Head(s)
           ls == [lists EXCEPT !["tobefnz"] = Tail(@)]
<1>1. /\ s # <<>> /\ gcstate # "pause" /\ stack' = stack \cup {o}
      /\ lists' = [lists EXCEPT !["tobefnz"] = Tail(@), !["allgc"] = <<o>> \o @]
      /\ color' = IF G!issweepphase THEN [color EXCEPT ![o] = "white"] ELSE color
      /\ UNCHANGED <<entry, mode, gray, grayagain, allweak, gcstate, sweepgc>>
  BY DEF G!CallFinalizer, G!Takes, G!heap, G!work, G!control
<1>2. /\ ObjectsOK(color, entry, mode) /\ ListsOK(lists, color) /\ Separate(lists)
      /\ ClosedOK(color, entry, stack, lists) /\ SweepOK(gcstate, sweepgc, lists, color)
      /\ gcstate \in {"propagate", "atomic"} =>
           MarkOK(color, entry, lists, gray, grayagain, allweak)
  BY DEF GcInv, ListsOK
<1>3. color \in [Objects -> {"free", "white", "dead", "gray", "black"}] BY <1>2 DEF ObjectsOK
<1>4. "allgc" \in Lists /\ "finobj" \in Lists /\ "tobefnz" \in Lists BY NoNames
<1>5. lists \in [Lists -> Seq(Objects)] BY <1>2 DEF Separate
<1>6. /\ s \in Seq(Objects) /\ Distinct(s) /\ In(lists, "tobefnz") = Elements(s)
      /\ Elements(s) \subseteq Objects
  BY <1>2, <1>4, InObjects DEF In
<1>7. /\ Tail(s) \in Seq(Objects) /\ Distinct(Tail(s)) /\ o \in Elements(s)
      /\ Elements(Tail(s)) = Elements(s) \ {o}
  <2> HIDE DEF s
  <2> QED BY <1>1, <1>6, TailIs
<1>8. o \in Objects /\ o \in LiveIn(color) BY <1>2, <1>6, <1>7 DEF ClosedOK
<1>9. /\ ls \in [Lists -> Seq(Objects)] /\ ls["tobefnz"] = Tail(s)
      /\ \A k \in Lists \ {"tobefnz"} : ls[k] = lists[k]
      /\ Put(lists', ls, "allgc", o)
  <2>1. ls \in [Lists -> Seq(Objects)] BY <1>4, <1>5, <1>7
  <2>2. ls["tobefnz"] = Tail(s) /\ \A k \in Lists \ {"tobefnz"} : ls[k] = lists[k] BY <1>4, <1>5
  <2>3. Put(lists', ls, "allgc", o) BY <1>1, <1>4, <1>5 DEF Put
  <2> QED BY <2>1, <2>2, <2>3
<1> HIDE DEF s, o, ls
<1>10. /\ In(ls, "tobefnz") = In(lists, "tobefnz") \ {o}
       /\ \A k \in Lists \ {"tobefnz"} : In(ls, k) = In(lists, k)
  BY <1>6, <1>7, <1>9 DEF In
<1>11. \A k \in Lists : o \notin In(ls, k)
  <2>1. o \in In(lists, "tobefnz") BY <1>6, <1>7
  <2>2. \A k \in Lists : k # "tobefnz" => o \notin In(lists, k) BY <1>2, <1>4, <2>1 DEF Separate
  <2> QED BY <1>10, <2>2
<1>12. Separate(ls)
  <2>1. \A k \in Lists : Distinct(ls[k]) BY <1>2, <1>7, <1>9 DEF Separate
  <2>2. \A k \in Lists : In(ls, k) \subseteq In(lists, k) BY <1>10
  <2>3. \A k, j \in Lists : k # j => In(ls, k) \cap In(ls, j) = {} BY <1>2, <2>2 DEF Separate
  <2> QED BY <1>9, <2>1, <2>3 DEF Separate
<1>13. /\ Separate(lists') /\ \A k \in Lists \ {"allgc"} : In(lists', k) = In(ls, k)
       /\ In(lists', "allgc") = {o} \cup In(ls, "allgc")
  BY <1>4, <1>8, <1>9, <1>11, <1>12, PutIs
<1>14. /\ color' \in [Objects -> {"free", "white", "dead", "gray", "black"}]
       /\ \A x \in Objects : x # o => color'[x] = color[x]
       /\ color'[o] \in {"white", color[o]}
       /\ gcstate \in Lists \cup {"swpend"} => color'[o] = "white"
  BY <1>1, <1>3, <1>8 DEF G!issweepphase, Lists
<1>15. LiveIn(color') = LiveIn(color) BY <1>8, <1>14 DEF LiveIn
<1>16. \A x \in Objects : color'[x] = "free" <=> color[x] = "free"
  <2>1. color[o] # "free" BY <1>8 DEF LiveIn
  <2> QED BY <1>14, <2>1
<1>17. ObjectsOK(color', entry, mode) BY <1>2, <1>14, <1>16 DEF ObjectsOK
<1>18. In(lists', "finobj") = In(lists, "finobj") /\ In(lists', "tobefnz") \subseteq In(lists, "tobefnz")
  BY <1>4, <1>10, <1>13
<1>19. ListsOK(lists', color')
  <2>1. ASSUME NEW x \in Objects
        PROVE  (\E k \in Lists : x \in In(lists', k)) <=> \E k \in Lists : x \in In(lists, k)
    <3>1. CASE x = o BY <1>4, <1>6, <1>7, <1>13, <3>1
    <3>2. CASE x # o
      <4>1. \A k \in Lists : x \in In(lists', k) <=> x \in In(lists, k) BY <1>10, <1>13, <3>2
      <4> QED BY <4>1
    <3> QED BY <3>1, <3>2
  <2> QED BY <1>2, <1>13, <1>16, <1>18, <2>1 DEF ListsOK
<1>20. ClosedOK(color', entry, stack', lists') BY <1>1, <1>2, <1>8, <1>15, <1>18 DEF ClosedOK
<1>21. SweepOK(gcstate, sweepgc, ls, color)
  <2>1. \A k \in SweptBefore(gcstate) : k \in Lists /\ k # "tobefnz" BY <1>4 DEF SweptBefore
  <2>2. \A k \in SweptBefore(gcstate) : In(ls, k) = In(lists, k) BY <1>10, <2>1
  <2>3. ASSUME gcstate \in Lists PROVE PassedWhite(ls, sweepgc, gcstate, color)
    <3>1. CASE gcstate = "tobefnz"
      <4>1. sweepgc = "tobefnz" BY <1>2, <3>1 DEF SweepOK
      <4> QED BY <3>1, <4>1 DEF PassedWhite
    <3>2. CASE gcstate # "tobefnz"
      <4>1. ls[gcstate] = lists[gcstate] /\ In(ls, gcstate) = In(lists, gcstate) BY <1>9, <1>10, <2>3, <3>2
      <4>2. PassedWhite(lists, sweepgc, gcstate, color) BY <1>2, <2>3 DEF SweepOK
      <4> QED BY <4>1, <4>2 DEF PassedWhite
    <3> QED BY <3>1, <3>2
  <2> QED BY <1>2, <2>2, <2>3 DEF SweepOK
<1>22. SweepOK(gcstate, sweepgc, lists', color')
  <2>1. gcstate \in Lists \cup {"swpend", "callfin", "pause"} => color'[o] = "white"
    <3>1. ASSUME gcstate = "callfin" PROVE color'[o] = "white"
      <4>1. color[o] \in {"free", "white"} BY <1>2, <1>8, <3>1 DEF SweepOK
      <4>2. color[o] # "free" BY <1>8 DEF LiveIn
      <4> QED BY <1>14, <4>1, <4>2
    <3> QED BY <1>1, <1>14, <3>1
  <2>2. /\ \A x \in Objects : x # o => color'[x] = color[x]
        /\ Put(lists', ls, "allgc", o) /\ "allgc" \in Lists /\ o \in Objects
    BY <1>4, <1>8, <1>9, <1>14
  <2> QED BY <1>11, <1>12, <1>21, <2>1, <2>2, SweepPut, Zenon
<1>23. ASSUME gcstate \in {"propagate", "atomic"}
       PROVE  MarkOK(color', entry, lists', gray, grayagain, allweak)
  <2>1. color' = color BY <1>1, <1>23, NoNames DEF G!issweepphase, Lists
  <2> QED BY <1>2, <1>18, <1>23, <2>1 DEF MarkOK
<1> QED BY <1>1, <1>17, <1>19, <1>20, <1>22, <1>23 DEF GcInv

\* LuaGc counts with the Cardinality of its own instance.
LEMMA HeapCounts == ASSUME NEW T PROVE G!Cardinality(T) = Cardinality(T)
  BY DEF G!Cardinality, Cardinality, G!IsFiniteSet, IsFiniteSet

\* An object goes from the list of all to the front of those with finalizers.
Moved(r, ls, o, n) ==
  r = [ls EXCEPT !["allgc"] = G!RemoveAt(@, n), !["finobj"] = <<o>> \o @]

LEMMA MovedKeeps ==
  ASSUME NEW col, NEW ls, ListsOK(ls, col), NEW state, NEW ptr, SweepOK(state, ptr, ls, col),
         NEW o \in Userdata, NEW n \in DOMAIN ls["allgc"], ls["allgc"][n] = o,
         state \in Lists \cup {"swpend", "callfin", "pause"} => col[o] = "white",
         state = "allgc" => ptr # o, NEW r, Moved(r, ls, o, n)
  PROVE  /\ ListsOK(r, col) /\ SweepOK(state, ptr, r, col)
         /\ In(r, "tobefnz") = In(ls, "tobefnz") /\ In(r, "finobj") = {o} \cup In(ls, "finobj")
PROOF
<1> DEFINE s == ls["allgc"]
           t == G!RemoveAt(s, n)
           ls2 == [ls EXCEPT !["allgc"] = t]
<1>1. "allgc" \in Lists /\ "finobj" \in Lists /\ "tobefnz" \in Lists BY NoNames
<1>2. Separate(ls) /\ ls \in [Lists -> Seq(Objects)] BY DEF ListsOK, Separate
<1>3. /\ s \in Seq(Objects) /\ Distinct(s) /\ In(ls, "allgc") = Elements(s)
      /\ DOMAIN s = 1..Len(s) /\ Len(s) \in Nat /\ n \in DOMAIN s /\ s[n] = o
  BY <1>1, <1>2, InObjects DEF In
<1> HIDE DEF s
<1>4. /\ t \in Seq(Objects) /\ Distinct(t)
      /\ Elements(t) = Elements(s) \ {o} /\ Len(t) = Len(s) - 1
      /\ \A i \in 1..(n - 1) : t[i] = s[i]
      /\ \A i \in n..(Len(s) - 1) : t[i] = s[i + 1]
  <2>1. s \in Seq(Objects) /\ Distinct(s) /\ n \in DOMAIN s BY <1>3
  <2>2. /\ t \in Seq(Objects) /\ Distinct(t)
        /\ Elements(t) = Elements(s) \ {s[n]} /\ Len(t) = Len(s) - 1
        /\ \A i \in 1..(n - 1) : t[i] = s[i]
        /\ \A i \in n..(Len(s) - 1) : t[i] = s[i + 1]
    BY <2>1, RemovedIs, Zenon
  <2> QED BY <1>3, <2>2
<1> HIDE DEF t
<1>5. /\ ls2 \in [Lists -> Seq(Objects)] /\ ls2["allgc"] = t
      /\ \A k \in Lists \ {"allgc"} : ls2[k] = ls[k]
      /\ Put(r, ls2, "finobj", o)
  <2>1. r = [ls EXCEPT !["allgc"] = t, !["finobj"] = <<o>> \o @] BY <1>1, <1>2 DEF Moved, t, s
  <2>2. Put(r, ls2, "finobj", o) BY <1>1, <1>2, <2>1 DEF Put
  <2> QED BY <1>1, <1>2, <1>4, <2>2
<1> HIDE DEF ls2
<1>6. /\ In(ls2, "allgc") = In(ls, "allgc") \ {o}
      /\ \A k \in Lists \ {"allgc"} : In(ls2, k) = In(ls, k)
  BY <1>3, <1>4, <1>5 DEF In
<1>7. o \in In(ls, "allgc") /\ o \in Objects
  BY <1>1, <1>2, <1>3, InObjects DEF s
<1>8. \A k \in Lists : o \notin In(ls2, k)
  <2>1. \A k \in Lists : k # "allgc" => o \notin In(ls, k) BY <1>1, <1>2, <1>7 DEF Separate
  <2> QED BY <1>6, <2>1
<1>9. Separate(ls2)
  <2>1. \A k \in Lists : Distinct(ls2[k]) BY <1>2, <1>4, <1>5 DEF Separate
  <2>2. \A k \in Lists : In(ls2, k) \subseteq In(ls, k) BY <1>6
  <2>3. \A k, j \in Lists : k # j => In(ls2, k) \cap In(ls2, j) = {} BY <1>2, <2>2 DEF Separate
  <2> QED BY <1>5, <2>1, <2>3 DEF Separate
<1>10. /\ Separate(r) /\ \A k \in Lists \ {"finobj"} : In(r, k) = In(ls2, k)
       /\ In(r, "finobj") = {o} \cup In(ls2, "finobj")
  BY <1>1, <1>5, <1>7, <1>8, <1>9, PutIs
<1>11. In(r, "tobefnz") = In(ls, "tobefnz") /\ In(r, "finobj") = {o} \cup In(ls, "finobj")
  BY <1>1, <1>6, <1>10
<1>12. ListsOK(r, col)
  <2>1. ASSUME NEW x \in Objects
        PROVE  (\E k \in Lists : x \in In(r, k)) <=> \E k \in Lists : x \in In(ls, k)
    <3>1. CASE x = o BY <1>1, <1>7, <1>10, <3>1
    <3>2. CASE x # o
      <4>1. \A k \in Lists : x \in In(r, k) <=> x \in In(ls, k) BY <1>6, <1>10, <3>2
      <4> QED BY <4>1
    <3> QED BY <3>1, <3>2
  <2> QED BY <1>10, <1>11, <2>1 DEF ListsOK
<1>13. SweepOK(state, ptr, ls2, col)
  <2>1. \A k \in SweptBefore(state) : k \in Lists BY DEF SweptBefore
  <2>2. \A k \in SweptBefore(state) : In(ls2, k) \subseteq In(ls, k) BY <1>6, <2>1
  <2>3. ASSUME state \in Lists PROVE PassedWhite(ls2, ptr, state, col)
    <3>1. PassedWhite(ls, ptr, state, col) BY <2>3 DEF SweepOK
    <3>2. CASE state # "allgc"
      <4>1. ls2[state] = ls[state] /\ In(ls2, state) = In(ls, state) BY <1>5, <1>6, <2>3, <3>2
      <4> QED BY <3>1, <4>1 DEF PassedWhite
    <3>3. CASE state = "allgc"
      <4>1. ptr = "null" => \A x \in In(ls2, "allgc") : col[x] = "white"
        BY <1>6, <3>1, <3>3 DEF PassedWhite
      <4>2. ASSUME ptr \notin {"null", "allgc"}
            PROVE  \E p \in DOMAIN t : t[p] = ptr /\ \A i \in 1..p : col[t[i]] = "white"
        <5>1. PICK p \in DOMAIN s : s[p] = ptr /\ \A i \in 1..p : col[s[i]] = "white"
          BY <3>1, <3>3, <4>2 DEF PassedWhite, s
        <5>2. p # n BY <1>3, <3>3, <5>1
        <5>3. Len(t) \in Nat /\ DOMAIN t = 1..Len(t) BY <1>4, LenProperties
        <5>4. p \in Nat /\ n \in Nat /\ 1 <= p /\ p <= Len(s) /\ 1 <= n /\ n <= Len(s) /\ Len(s) \in Nat
          BY <1>3, <5>1
        <5>5. CASE p < n
          <6>1. p \in DOMAIN t BY <1>4, <5>3, <5>4, <5>5
          <6>2. \A i \in 1..p : i \in 1..(n - 1) BY <5>4, <5>5
          <6>3. p \in 1..p BY <5>4
          <6>4. \A i \in 1..p : t[i] = s[i] BY <1>4, <6>2
          <6> QED BY <5>1, <6>1, <6>3, <6>4
        <5>6. CASE n < p
          <6> DEFINE q == p - 1
          <6>1. q \in DOMAIN t /\ q \in n..(Len(s) - 1) /\ q + 1 = p BY <1>4, <5>3, <5>4, <5>6
          <6>2. ASSUME NEW i \in 1..q PROVE col[t[i]] = "white"
            <7>1. CASE i < n
              <8>1. i \in 1..(n - 1) /\ i \in 1..p BY <5>4, <5>6, <6>2, <7>1
              <8>2. t[i] = s[i] BY <1>4, <8>1
              <8> QED BY <5>1, <8>1, <8>2
            <7>2. CASE ~(i < n)
              <8>1. i \in n..(Len(s) - 1) /\ i + 1 \in 1..p BY <5>4, <5>6, <6>2, <7>2
              <8>2. t[i] = s[i + 1] BY <1>4, <8>1
              <8> QED BY <5>1, <8>1, <8>2
            <7> QED BY <7>1, <7>2
          <6> HIDE DEF q
          <6>3. t[q] = ptr BY <1>4, <5>1, <6>1
          <6> QED BY <6>1, <6>2, <6>3
        <5> QED BY <5>2, <5>4, <5>5, <5>6
      <4> QED BY <1>5, <3>3, <4>1, <4>2 DEF PassedWhite
    <3> QED BY <3>2, <3>3
  <2> QED BY <2>2, <2>3 DEF SweepOK
<1>14. SweepOK(state, ptr, r, col)
  <2>1. \A x \in Objects : x # o => col[x] = col[x] OBVIOUS
  <2>2. Put(r, ls2, "finobj", o) /\ "finobj" \in Lists /\ o \in Objects BY <1>1, <1>5, <1>7
  <2> QED BY <1>8, <1>9, <1>13, <2>1, <2>2, SweepPut, Zenon
<1> QED BY <1>11, <1>12, <1>14

\* Scrubbing changes nothing when nothing was freed.
LEMMA ScrubSame ==
  ASSUME NEW col, NEW e, NEW m, ObjectsOK(col, e, m)
  PROVE  G!Scrub(e, col) = e
PROOF
<1>1. e \in [Objects -> [Slots -> (Objects \cup {NoObject}) \X (Objects \cup {NoObject})]]
  BY DEF ObjectsOK
<1>2. ASSUME NEW o \in Objects, col[o] = "free" PROVE e[o] = [i \in Slots |-> G!Empty]
  <2>1. e[o] \in [Slots -> (Objects \cup {NoObject}) \X (Objects \cup {NoObject})] BY <1>1
  <2>2. \A i \in Slots : e[o][i] = G!Empty BY <1>2 DEF ObjectsOK
  <2> QED BY <2>1, <2>2
<1>3. G!Scrub(e, col) = [o \in Objects |-> IF col[o] = "free" THEN [i \in Slots |-> G!Empty] ELSE e[o]]
  BY DEF G!Scrub, Objects
<1> QED BY <1>1, <1>2, <1>3

\* A sweep that stands behind o goes on to an object that is not dead.
LEMMA SweepToLive ==
  ASSUME NEW col, NEW ls, Separate(ls), NEW first \in DOMAIN ls["allgc"],
         NEW dying, dying = {n \in 1..(Len(ls["allgc"]) - first) :
                               \A i \in 1..n : col[ls["allgc"][first + i]] = "dead"},
         NEW last \in Nat, NEW r,
         SweptFrom(col, ls, ls["allgc"][first], G!Cardinality(dying) + 1, "allgc", first, last, r)
  PROVE  G!Cardinality(dying) \in Nat /\ r.sweepgc # ls["allgc"][first]
PROOF
<1> DEFINE s == ls["allgc"]
           o == s[first]
           c == G!Cardinality(dying)
           seen == {s[i] : i \in (first + 1)..last}
           stays == {x \in seen : col[x] # "dead"}
<1>1. "allgc" \in Lists /\ "null" \notin Objects BY NoNames
<1>2. /\ s \in Seq(Objects) /\ Distinct(s) /\ DOMAIN s = 1..Len(s) /\ Len(s) \in Nat
      /\ first \in 1..Len(s)
  BY <1>1, InObjects
<1>3. o \in Objects BY <1>2, ElementOfSeq
<1>4. dying \subseteq 1..(Len(s) - first) /\ IsFiniteSet(dying) /\ c = Cardinality(dying) /\ c \in Nat
  <2>1. IsFiniteSet(1..(Len(s) - first)) BY <1>2, FS_Interval
  <2>2. dying \subseteq 1..(Len(s) - first) OBVIOUS
  <2>3. IsFiniteSet(dying) BY <2>1, <2>2, FS_Subset
  <2> QED BY <2>2, <2>3, HeapCounts, FS_CardinalityType
<1>5. /\ last \in first..Len(s) /\ last = (IF first + (c + 1) < Len(s) THEN first + (c + 1) ELSE Len(s))
      /\ last = Len(s) => r.sweepgc = "null"
      /\ last # Len(s) /\ stays # {} => r.sweepgc \in stays
  BY DEF SweptFrom
<1>6. o \notin seen
  <2>1. ASSUME NEW i \in (first + 1)..last PROVE s[i] # s[first]
    <3>1. i \in DOMAIN s /\ i # first BY <1>2, <1>5
    <3> QED BY <1>2, <3>1 DEF Distinct
  <2> QED BY <2>1
<1>7. CASE last = Len(s) BY <1>1, <1>3, <1>4, <1>5, <1>7
<1>8. CASE last # Len(s)
  <2>1. last = first + (c + 1) /\ first + (c + 1) < Len(s)
    <3> HIDE DEF c, s
    <3> QED BY <1>5, <1>8
  <2>2. SUFFICES ASSUME stays = {} PROVE FALSE BY <1>4, <1>5, <1>6, <1>8
  <2>3. ASSUME NEW i \in 1..(c + 1) PROVE col[s[first + i]] = "dead"
    <3> HIDE DEF c, s
    <3>1. first + i \in (first + 1)..last BY <1>2, <1>4, <2>1, <2>3
    <3> QED BY <2>2, <3>1
  <2>4. 1..(c + 1) \subseteq dying
    <3>1. SUFFICES ASSUME NEW n \in 1..(c + 1) PROVE n \in dying OBVIOUS
    <3>2. n \in 1..(Len(s) - first)
      <4> HIDE DEF c, s
      <4> QED BY <1>2, <1>4, <2>1, <3>1
    <3>3. \A i \in 1..n : i \in 1..(c + 1)
      <4> HIDE DEF c
      <4> QED BY <1>4, <3>1
    <3> QED BY <2>3, <3>2, <3>3
  <2>5. Cardinality(1..(c + 1)) = c + 1
    <3> HIDE DEF c
    <3> QED BY <1>4, FS_Interval
  <2>6. Cardinality(1..(c + 1)) <= Cardinality(dying) BY <1>4, <2>4, FS_Subset
  <2> HIDE DEF c
  <2> QED BY <1>4, <2>5, <2>6
<1> QED BY <1>4, <1>7, <1>8

LEMMA luaC_checkfinalizerKeeps ==
  ASSUME GcInv, NEW o \in stack \cap Userdata, G!luaC_checkfinalizer(o)
  PROVE  GcInv'
PROOF
<1> DEFINE col == IF G!issweepphase THEN [color EXCEPT ![o] = "white"] ELSE color
           n == G!Position(lists, o)
           s == lists["allgc"]
           rest == SubSeq(s, n + 1, Len(s))
           dying == {k \in DOMAIN rest : \A i \in 1..k : col[rest[i]] = "dead"}
           r == IF G!issweepphase /\ sweepgc = o
                THEN G!sweeplist(col, lists, o, G!Cardinality(dying) + 1)
                ELSE [color |-> col, lists |-> lists, sweepgc |-> sweepgc]
<1>1. /\ o \in G!ToSet(s) /\ color' = r.color /\ sweepgc' = r.sweepgc
      /\ Moved(lists', r.lists, o, n)
      /\ entry' = G!Scrub(entry, r.color) /\ mode' = G!ScrubMode(r.color)
      /\ UNCHANGED <<stack, gray, grayagain, allweak, gcstate>>
  BY DEF G!luaC_checkfinalizer, G!work, G!Listed, Moved
<1>2. /\ ObjectsOK(color, entry, mode) /\ ListsOK(lists, color) /\ Separate(lists)
      /\ ClosedOK(color, entry, stack, lists) /\ SweepOK(gcstate, sweepgc, lists, color)
      /\ gcstate \in {"propagate", "atomic"} =>
           MarkOK(color, entry, lists, gray, grayagain, allweak)
  BY DEF GcInv, ListsOK
<1>3. color \in [Objects -> {"free", "white", "dead", "gray", "black"}] BY <1>2 DEF ObjectsOK
<1>4. "allgc" \in Lists /\ "finobj" \in Lists /\ "tobefnz" \in Lists BY NoNames
<1>5. /\ s \in Seq(Objects) /\ Distinct(s) /\ In(lists, "allgc") = Elements(s)
      /\ DOMAIN s = 1..Len(s) /\ Len(s) \in Nat
  BY <1>2, <1>4, InObjects DEF In
<1>6. n \in DOMAIN s /\ s[n] = o
  <2>1. o \in Elements(s) BY <1>1 DEF G!ToSet, Elements
  <2>2. PICK k \in DOMAIN s : s[k] = o BY <2>1 DEF Elements
  <2>3. n = k BY <1>2, <1>4, <2>2, ObjectPlace
  <2> QED BY <2>2, <2>3
<1>7. o \in Objects /\ o \in LiveIn(color) BY <1>2, TypesApart DEF ClosedOK
<1>8. /\ col \in [Objects -> {"free", "white", "dead", "gray", "black"}]
      /\ \A x \in Objects : x # o => col[x] = color[x]
      /\ col[o] \in {"white", color[o]}
      /\ gcstate \in Lists \cup {"swpend"} => col[o] = "white"
      /\ gcstate \in {"propagate", "atomic"} => col = color /\ r.color = color /\ r.lists = lists
  <2>1. gcstate \in {"propagate", "atomic"} => ~G!issweepphase BY NoNames DEF G!issweepphase, Lists
  <2> QED BY <1>3, <1>7, <2>1 DEF G!issweepphase, Lists
<1> HIDE DEF col
<1>9. /\ ObjectsOK(col, entry, mode) /\ ListsOK(lists, col)
      /\ ClosedOK(col, entry, stack, lists) /\ SweepOK(gcstate, sweepgc, lists, col)
  <2>1. color[o] # "free" /\ color[o] # "dead" BY <1>7 DEF LiveIn
  <2>2. \A x \in Objects : col[x] = "free" <=> color[x] = "free" BY <1>8, <2>1
  <2>3. LiveIn(col) = LiveIn(color) BY <1>7, <1>8 DEF LiveIn
  <2>4. \A x \in Objects : color[x] = "white" => col[x] = "white" BY <1>8
  <2> QED BY <1>2, <1>8, <2>2, <2>3, <2>4, Recolored
<1>10. gcstate \in Lists \cup {"swpend", "callfin", "pause"} => col[o] = "white"
  <2>1. ASSUME gcstate \in {"callfin", "pause"} PROVE col[o] = "white"
    <3>1. color[o] \in {"free", "white"} BY <1>2, <1>7, <2>1 DEF SweepOK
    <3>2. color[o] # "free" BY <1>7 DEF LiveIn
    <3> QED BY <1>8, <3>1, <3>2
  <2> QED BY <1>8, <2>1
<1>11. /\ ListsOK(r.lists, r.color) /\ ObjectsOK(r.color, entry', mode')
       /\ ClosedOK(r.color, entry', stack, r.lists) /\ SweepOK(gcstate, r.sweepgc, r.lists, r.color)
       /\ n \in DOMAIN r.lists["allgc"] /\ r.lists["allgc"][n] = o
       /\ gcstate \in Lists \cup {"swpend", "callfin", "pause"} => r.color[o] = "white"
       /\ gcstate = "allgc" => r.sweepgc # o
  <2>1. CASE ~(G!issweepphase /\ sweepgc = o)
    <3>1. r.color = col /\ r.lists = lists /\ r.sweepgc = sweepgc BY <2>1
    <3>2. entry' = entry BY <1>1, <1>9, <3>1, ScrubSame
    <3>3. mode' = [x \in Objects |-> IF col[x] = "free" THEN {} ELSE mode[x]]
      BY <1>1, <3>1 DEF G!ScrubMode, Objects
    <3>4. ObjectsOK(col, entry, mode') BY <1>9, <3>3 DEF ObjectsOK
    <3>5. gcstate = "allgc" => sweepgc # o BY <1>4, <2>1 DEF G!issweepphase, Lists
    <3> HIDE DEF r
    <3> QED BY <1>6, <1>9, <1>10, <3>1, <3>2, <3>4, <3>5
  <2>2. CASE G!issweepphase /\ sweepgc = o
    <3>1. gcstate = "allgc"
      <4>1. gcstate \in Lists \cup {"swpend"} BY <2>2 DEF G!issweepphase, Lists
      <4>2. sweepgc # "null" /\ \A l \in Lists : sweepgc # l BY <1>7, <2>2, NoNames
      <4>3. gcstate \in Lists BY <1>2, <4>1, <4>2 DEF SweepOK
      <4>4. PassedWhite(lists, sweepgc, gcstate, color) BY <1>2, <4>3 DEF SweepOK
      <4>5. PICK p \in DOMAIN lists[gcstate] : lists[gcstate][p] = sweepgc
        BY <4>2, <4>3, <4>4 DEF PassedWhite
      <4>6. o \in In(lists, gcstate) /\ o \in In(lists, "allgc")
        BY <1>2, <1>4, <1>6, <2>2, <4>3, <4>5, InObjects
      <4> QED BY <1>2, <1>4, <4>3, <4>6 DEF Separate
    <3>2. \A i \in 1..n : col[s[i]] = "white"
      <4>1. PassedWhite(lists, sweepgc, "allgc", col) BY <1>4, <1>9, <3>1 DEF SweepOK
      <4>2. sweepgc \notin {"null", "allgc"} BY <1>4, <1>7, <2>2, NoNames
      <4>3. PICK p \in DOMAIN s : s[p] = o /\ \A i \in 1..p : col[s[i]] = "white"
        BY <2>2, <4>1, <4>2 DEF PassedWhite
      <4>4. p = n BY <1>5, <1>6, <4>3 DEF Distinct
      <4> QED BY <4>3, <4>4
    <3> DEFINE c == G!Cardinality(dying)
               w == {k \in 1..(Len(s) - n) : \A i \in 1..k : col[s[n + i]] = "dead"}
    <3>3. dying = w
      <4> HIDE DEF n, s
      <4>1. n \in 1..Len(s) /\ Len(s) \in Nat BY <1>5, <1>6
      <4>2. /\ rest \in Seq(Objects) /\ Len(rest) = Len(s) - (n + 1) + 1
            /\ \A i \in 1..(Len(s) - (n + 1) + 1) : rest[i] = s[n + 1 + i - 1]
        <5>1. n + 1 \in Nat \ {0} /\ Len(s) <= Len(s) /\ n + 1 <= Len(s) + 1 BY <4>1
        <5> QED BY <1>5, <5>1, PartOf
      <4>3. Len(s) - (n + 1) + 1 = Len(s) - n /\ \A i \in 1..(Len(s) - n) : n + 1 + i - 1 = n + i
        BY <4>1
      <4>4. DOMAIN rest = 1..(Len(s) - n) /\ \A i \in 1..(Len(s) - n) : rest[i] = s[n + i]
        BY <4>2, <4>3, LenProperties
      <4> HIDE DEF rest
      <4>5. \A k \in 1..(Len(s) - n) : \A i \in 1..k : i \in 1..(Len(s) - n) BY <4>1
      <4>6. \A k \in 1..(Len(s) - n) :
               (\A i \in 1..k : col[rest[i]] = "dead") <=> (\A i \in 1..k : col[s[n + i]] = "dead")
        BY <4>4, <4>5
      <4> QED BY <4>4, <4>6
    <3>4. r = G!sweeplist(col, lists, o, c + 1) BY <2>2
    <3>5. c \in Nat
      <4>1. IsFiniteSet(1..(Len(s) - n))
        <5> HIDE DEF n, s
        <5>1. 1 \in Int /\ Len(s) - n \in Int BY <1>5, <1>6
        <5> QED BY <5>1, FS_Interval
      <4>2. IsFiniteSet(w) BY <4>1, FS_Subset
      <4> QED BY <3>3, <4>2, HeapCounts, FS_CardinalityType
    <3>6. PICK last \in Nat : SweptFrom(col, lists, o, c + 1, "allgc", n, last, r)
      <4>1. StandsAt(lists, o, "allgc", n) BY <1>6 DEF StandsAt
      <4> HIDE DEF r, n, c, s
      <4>2. c + 1 \in Nat /\ n \in Nat BY <1>5, <1>6, <3>5
      <4> QED BY <1>2, <1>4, <3>4, <4>1, <4>2, SweepIs
    <3> HIDE DEF r, n, dying
    <3>7. r.sweepgc # o
      <4>1. SweptFrom(col, lists, lists["allgc"][n], G!Cardinality(dying) + 1, "allgc", n, last, r)
        BY <1>6, <3>6
      <4> QED BY <1>2, <1>6, <3>3, <4>1, SweepToLive
    <3>8. n \in Nat /\ c + 1 \in Nat BY <1>5, <1>6, <3>5
    <3> HIDE DEF c, s, w
    <3>9. /\ r.color \in [Objects -> {"free", "white", "dead", "gray", "black"}]
          /\ LiveIn(r.color) = LiveIn(col)
          /\ \A x \in Objects : col[x] \in {"free", "white"} => r.color[x] = col[x]
          /\ \A k \in Lists : In(r.lists, k) \subseteq In(lists, k)
          /\ ListsOK(r.lists, r.color)
      <4>1. /\ col \in [Objects -> {"free", "white", "dead", "gray", "black"}]
            /\ ListsOK(lists, col) /\ "allgc" \in Lists
        BY <1>4, <1>8, <1>9
      <4>2. /\ r.color \in [Objects -> {"free", "white", "dead", "gray", "black"}]
            /\ LiveIn(r.color) = LiveIn(col)
            /\ \A x \in Objects :
                  r.color[x] = "free" => col[x] = "free" \/ (col[x] = "dead" /\ x \in In(lists, "allgc"))
            /\ \A x \in Objects : col[x] \in {"free", "white"} => r.color[x] = col[x]
            /\ \A x \in Objects : r.color[x] # "white" /\ r.color[x] # "free" => r.color[x] = col[x]
            /\ \A k \in Lists : In(r.lists, k) \subseteq In(lists, k)
            /\ ListsOK(r.lists, r.color)
        BY <3>6, <3>8, <4>1, SweepColors
      <4> QED BY <4>2
    <3>10. PassedWhite(r.lists, r.sweepgc, "allgc", r.color)
      <4>1. StandsAt(lists, o, "allgc", n) BY <1>6 DEF StandsAt, s
      <4>2. \A i \in 1..n : col[lists["allgc"][i]] = "white" BY <3>2 DEF s
      <4> QED BY <1>4, <1>8, <1>9, <3>6, <3>8, <4>1, <4>2, SweepPasses
    <3>11. /\ ClosedOK(r.color, entry', stack, r.lists)
           /\ ObjectsOK(r.color, entry', mode')
      <4>1. \A x \in Objects : col[x] = "free" => r.color[x] = "free" BY <3>9
      <4>2. /\ ClosedOK(r.color, G!Scrub(entry, r.color), stack, r.lists)
            /\ ObjectsOK(r.color, G!Scrub(entry, r.color),
                         Scrubbed(mode, r.color))
        BY <1>9, <3>9, <4>1, SweepCloses
      <4> QED BY <1>1, <4>2 DEF G!ScrubMode, Objects, Scrubbed
    <3>12. SweepOK("allgc", r.sweepgc, r.lists, r.color)
      <4>1. SweptBefore("allgc") = {} BY DEF SweptBefore
      <4> QED BY <1>4, <3>10, <4>1 DEF SweepOK
    <3>13. r.color[o] = "white" BY <1>4, <1>7, <1>10, <3>1, <3>9
    <3>14. n \in DOMAIN r.lists["allgc"] /\ r.lists["allgc"][n] = o
      <4>1. n \in 1..n BY <1>5, <1>6, <3>8
      <4>2. \A i \in 1..n : i \in DOMAIN r.lists["allgc"] /\ r.lists["allgc"][i] = lists["allgc"][i]
        BY <3>6 DEF SweptFrom
      <4> QED BY <1>6, <4>1, <4>2 DEF s
    <3> QED BY <3>1, <3>7, <3>9, <3>11, <3>12, <3>13, <3>14
  <2> QED BY <2>1, <2>2
<1> HIDE DEF r, n, s
<1>12. /\ ListsOK(lists', r.color) /\ SweepOK(gcstate, r.sweepgc, lists', r.color)
       /\ In(lists', "tobefnz") = In(r.lists, "tobefnz")
       /\ In(lists', "finobj") = {o} \cup In(r.lists, "finobj")
  <2>1. Moved(lists', r.lists, o, n) /\ o \in Userdata BY <1>1
  <2>2. ListsOK(r.lists, r.color) /\ SweepOK(gcstate, r.sweepgc, r.lists, r.color) BY <1>11
  <2>3. n \in DOMAIN r.lists["allgc"] /\ r.lists["allgc"][n] = o BY <1>11
  <2>4. gcstate \in Lists \cup {"swpend", "callfin", "pause"} => r.color[o] = "white" BY <1>11
  <2>5. gcstate = "allgc" => r.sweepgc # o BY <1>11
  <2> QED BY <2>1, <2>2, <2>3, <2>4, <2>5, MovedKeeps
<1>13. ClosedOK(r.color, entry', stack, lists')
  <2>1. o \in LiveIn(r.color) BY <1>11 DEF ClosedOK
  <2> QED BY <1>11, <1>12, <2>1 DEF ClosedOK
<1>14. ASSUME gcstate \in {"propagate", "atomic"}
       PROVE  MarkOK(color', entry', lists', gray, grayagain, allweak)
  <2>1. r.color = color /\ r.lists = lists BY <1>8, <1>14
  <2>2. entry' = entry BY <1>1, <1>2, <2>1, ScrubSame
  <2> QED BY <1>1, <1>2, <1>12, <1>14, <2>1, <2>2 DEF MarkOK
<1> QED BY <1>1, <1>11, <1>12, <1>13, <1>14 DEF GcInv

-----------------------------------------------------------------------------
(* The steps of the collector                                               *)

LEMMA RestartKeeps == ASSUME GcInv, G!Restart PROVE GcInv'
PROOF
<1> DEFINE roots == {Registry} \cup G!Listed("tobefnz")
           P == G!Paint(roots)
           Q == G!Queued(roots)
<1>1. /\ gcstate = "pause" /\ gcstate' = "propagate"
      /\ color' = P /\ gray' = Q \cup {Main} /\ grayagain' = {} /\ allweak' = {}
      /\ UNCHANGED <<entry, mode, stack, lists, sweepgc>>
  BY DEF G!Restart
<1>2. /\ ObjectsOK(color, entry, mode) /\ ListsOK(lists, color) /\ Separate(lists)
      /\ ClosedOK(color, entry, stack, lists) /\ allweak \subseteq Tables
      /\ \A o \in Objects : color[o] \in {"free", "white"}
  BY <1>1 DEF GcInv, ListsOK, SweepOK
<1>3. roots = {Registry} \cup In(lists, "tobefnz") /\ roots \in SUBSET Objects
  <2>1. In(lists, "tobefnz") \subseteq Objects BY <1>2, InObjects, NoNames
  <2>2. Registry \in Objects BY TypesApart
  <2>3. G!Listed("tobefnz") = In(lists, "tobefnz") BY DEF G!Listed, G!ToSet, In, Elements
  <2> QED BY <2>1, <2>2, <2>3
<1> HIDE DEF roots
<1>4. /\ P \in [Objects -> {"free", "white", "dead", "gray", "black"}]
      /\ \A o \in Objects : color[o] # "white" => P[o] = color[o]
      /\ \A o \in Objects : color[o] = "white" => P[o] \in {"white", "gray", "black"}
      /\ \A o \in roots : P[o] # "white"
      /\ \A o \in Objects : P[o] = "black" =>
            \/ color[o] = "black"
            \/ color[o] = "white" /\ \A x \in G!Refs(entry, o) : P[x] # "white"
      /\ Q \subseteq Objects
      /\ \A o \in Objects : o \in Q <=> color[o] = "white" /\ P[o] = "gray"
  BY <1>2, <1>3, PaintIs
<1> HIDE DEF P, Q
<1>5. \A o \in Objects : P[o] = "free" <=> color[o] = "free" BY <1>2, <1>4
<1>6. LiveIn(P) = LiveIn(color) BY <1>2, <1>4 DEF LiveIn
<1>7. SweepOK("propagate", sweepgc, lists, color)
  <2>1. "propagate" \notin Lists BY NoNames
  <2> QED BY <2>1 DEF SweepOK
<1>8. /\ ObjectsOK(P, entry, mode) /\ ListsOK(lists, P)
      /\ ClosedOK(P, entry, stack, lists) /\ SweepOK("propagate", sweepgc, lists, P)
  <2>1. "propagate" \notin Lists \cup {"swpend", "callfin", "pause"} BY NoNames
  <2> QED BY <1>2, <1>4, <1>5, <1>6, <1>7, <2>1, Recolored
<1>9. MarkOK(P, entry, lists, Q \cup {Main}, {}, {})
  <2>1. \A o \in Objects : P[o] # "dead" BY <1>2, <1>4
  <2>2. \A o \in Objects : P[o] = "black" => \A x \in G!Refs(entry, o) : P[x] # "white"
    BY <1>2, <1>4
  <2>3. \A o \in Objects : P[o] = "gray" => o \in Q
    BY <1>2, <1>4
  <2> QED BY <1>3, <1>4, <2>1, <2>2, <2>3 DEF MarkOK
<1> QED BY <1>1, <1>8, <1>9 DEF GcInv

LEMMA PropagateKeeps == ASSUME GcInv, G!Propagate PROVE GcInv'
PROOF
<1>1. PICK o \in gray :
        LET weak  == o # Main /\ mode[o] # {}
            found == IF o = Main THEN stack
                     ELSE IF mode[o] = {"k", "v"} THEN {} ELSE G!Marks(o, G!Marked(color))
            painted == G!Paint(found)
        IN  /\ gray' = (gray \ {o}) \cup G!Queued(found)
            /\ color' = [x \in G!Objects |-> IF x = o /\ ~weak THEN "black" ELSE painted[x]]
            /\ grayagain' = IF o = Main \/ (weak /\ mode[o] # {"k", "v"})
                            THEN grayagain \cup {o} ELSE grayagain
            /\ allweak' = IF weak /\ mode[o] = {"k", "v"} THEN allweak \cup {o} ELSE allweak
  BY DEF G!Propagate
<1> DEFINE weak  == o # Main /\ mode[o] # {}
           found == IF o = Main THEN stack
                    ELSE IF mode[o] = {"k", "v"} THEN {} ELSE G!Marks(o, G!Marked(color))
           P == G!Paint(found)
           Q == G!Queued(found)
<1>2. /\ gray' = (gray \ {o}) \cup Q
      /\ color' = [x \in Objects |-> IF x = o /\ ~weak THEN "black" ELSE P[x]]
      /\ grayagain' = IF o = Main \/ (weak /\ mode[o] # {"k", "v"}) THEN grayagain \cup {o} ELSE grayagain
      /\ allweak' = IF weak /\ mode[o] = {"k", "v"} THEN allweak \cup {o} ELSE allweak
  BY <1>1 DEF Objects
<1>3. gcstate = "propagate" /\ gcstate' \in {"atomic", "propagate"}
      /\ UNCHANGED <<entry, mode, stack, lists, sweepgc>>
  BY DEF G!Propagate
<1>4. /\ ObjectsOK(color, entry, mode) /\ ListsOK(lists, color) /\ Separate(lists)
      /\ ClosedOK(color, entry, stack, lists) /\ allweak \subseteq Tables
      /\ MarkOK(color, entry, lists, gray, grayagain, allweak)
  BY <1>3 DEF GcInv, ListsOK
<1>5. color \in [Objects -> {"free", "white", "dead", "gray", "black"}]
  BY <1>4 DEF ObjectsOK
<1>6. Main \notin Objects /\ (o # Main => o \in Objects /\ color[o] = "gray" /\ G!Mode(o) = mode[o])
  <2>1. o # Main => o \in Objects /\ color[o] = "gray" /\ o \notin allweak BY <1>4 DEF MarkOK
  <2> QED BY <2>1, NoNames DEF G!Mode
<1>7. o # Main /\ mode[o] # {} => o \in Tables
  <2>1. \A x \in Objects \ Tables : mode[x] = {} BY <1>4 DEF ObjectsOK
  <2> QED BY <1>6, <2>1
<1>8. /\ found \in SUBSET Objects
      /\ o # Main /\ mode[o] = {} => found = G!Refs(entry, o)
  <2>1. stack \subseteq Objects BY <1>4 DEF ClosedOK, LiveIn
  <2>2. ASSUME o # Main
        PROVE  /\ G!Marks(o, G!Marked(color)) \subseteq G!Refs(entry, o)
               /\ G!Mode(o) = {} => G!Marks(o, G!Marked(color)) = G!Refs(entry, o)
    BY MarksBounds
  <2>3. ASSUME o # Main PROVE G!Refs(entry, o) \subseteq Objects BY <1>4, <1>6, <2>3, RefsType
  <2>4. {"k", "v"} # {} OBVIOUS
  <2> QED BY <1>6, <2>1, <2>2, <2>3, <2>4
<1> HIDE DEF found
<1>9. /\ P \in [Objects -> {"free", "white", "dead", "gray", "black"}]
      /\ \A x \in Objects : color[x] # "white" => P[x] = color[x]
      /\ \A x \in Objects : color[x] = "white" => P[x] \in {"white", "gray", "black"}
      /\ \A x \in found : P[x] # "white"
      /\ \A x \in Objects : P[x] = "black" =>
            \/ color[x] = "black"
            \/ color[x] = "white" /\ \A y \in G!Refs(entry, x) : P[y] # "white"
      /\ Q \subseteq Objects
      /\ \A x \in Objects : x \in Q <=> color[x] = "white" /\ P[x] = "gray"
  BY <1>4, <1>8, PaintIs
<1> HIDE DEF P, Q
<1>10. /\ color' \in [Objects -> {"free", "white", "dead", "gray", "black"}]
       /\ \A x \in Objects : color'[x] = IF x = o /\ ~weak THEN "black" ELSE P[x]
  BY <1>2, <1>9
<1>11. \A x \in Objects : color'[x] = "free" <=> color[x] = "free" BY <1>5, <1>6, <1>9, <1>10
<1>12. LiveIn(color') = LiveIn(color) BY <1>5, <1>6, <1>9, <1>10 DEF LiveIn
<1>13. SweepOK(gcstate', sweepgc, lists, color)
  <2>1. gcstate' \notin Lists BY <1>3, NoNames
  <2> QED BY <1>3, <2>1, NoNames DEF SweepOK
<1>14. /\ ObjectsOK(color', entry, mode) /\ ListsOK(lists, color')
       /\ ClosedOK(color', entry, stack, lists) /\ SweepOK(gcstate', sweepgc, lists, color')
  <2>1. gcstate' \notin Lists \cup {"swpend", "callfin", "pause"} BY <1>3, NoNames
  <2>2. LiveIn(color') \ LiveIn(color) = {} /\ \A x \in LiveIn(color) : x \in LiveIn(color') BY <1>12
  <2> QED BY <1>4, <1>10, <1>11, <1>13, <2>1, <2>2, Recolored
<1>15. MarkOK(color', entry, lists, gray', grayagain', allweak')
  <2>1. \A x \in Objects : color'[x] # "dead" BY <1>4, <1>9, <1>10 DEF MarkOK
  <2>2. ASSUME NEW x \in Objects, P[x] # "white" PROVE color'[x] # "white" BY <1>10, <2>2
  <2>3. ASSUME NEW x \in Objects, color'[x] = "black", NEW y \in G!Refs(entry, x)
        PROVE  color'[y] # "white"
    <3>1. y \in Objects BY <1>4, <2>3, RefsType
    <3>2. P[y] # "white"
      <4>1. CASE x = o /\ ~weak
        <5>1. y \in found BY <1>6, <1>8, <2>3, <4>1
        <5> QED BY <1>9, <5>1
      <4>2. CASE ~(x = o /\ ~weak)
        <5>1. P[x] = "black" BY <1>10, <2>3, <4>2
        <5>2. CASE color[x] = "black"
          <6>1. color[y] # "white" BY <1>4, <2>3, <5>2 DEF MarkOK
          <6> QED BY <1>9, <3>1, <6>1
        <5>3. CASE color[x] # "black" BY <1>9, <2>3, <5>1, <5>3
        <5> QED BY <5>2, <5>3
      <4> QED BY <4>1, <4>2
    <3> QED BY <2>2, <3>1, <3>2
  <2>4. ASSUME NEW x \in Objects, color'[x] = "gray" PROVE x \in gray' \cup grayagain' \cup allweak'
    <3>1. ~(x = o /\ ~weak) /\ P[x] = "gray" BY <1>10, <2>4
    <3>2. CASE x = o BY <1>2, <1>6, <3>1, <3>2
    <3>3. CASE x # o /\ color[x] = "white" BY <1>2, <1>9, <3>1, <3>3
    <3>4. CASE x # o /\ color[x] # "white"
      <4>1. color[x] = "gray" BY <1>9, <3>1, <3>4
      <4>2. x \in gray \cup grayagain \cup allweak BY <1>4, <4>1 DEF MarkOK
      <4> QED BY <1>2, <3>4, <4>2
    <3> QED BY <3>2, <3>3, <3>4
  <2>5. gray' \subseteq Objects \cup {Main} BY <1>2, <1>4, <1>9 DEF MarkOK
  <2>6. ASSUME NEW x \in gray' \ {Main} PROVE color'[x] = "gray"
    <3>1. x \in Objects BY <2>5
    <3>2. CASE x \in Q
      <4>1. color[x] = "white" /\ P[x] = "gray" BY <1>9, <3>1, <3>2
      <4> QED BY <1>6, <1>10, <3>1, <4>1
    <3>3. CASE x \notin Q
      <4>1. x \in gray /\ x # o BY <1>2, <3>3
      <4>2. color[x] = "gray" BY <1>4, <2>6, <4>1 DEF MarkOK
      <4> QED BY <1>9, <1>10, <3>1, <4>1, <4>2
    <3> QED BY <3>2, <3>3
  <2>7. allweak' \subseteq Tables BY <1>2, <1>4, <1>7
  <2>8. ASSUME NEW x \in allweak' PROVE color'[x] = "gray" /\ x \notin gray'
    <3>1. x \in Objects BY <2>7, TypesApart
    <3>2. color[x] = "gray" /\ (x = o => weak) /\ x \notin gray \ {o}
      <4>1. \A z \in allweak : color[z] = "gray" /\ z \notin gray BY <1>4 DEF MarkOK
      <4>2. CASE x \in allweak BY <4>1, <4>2
      <4>3. CASE x \notin allweak BY <1>2, <1>6, <4>3
      <4> QED BY <4>2, <4>3
    <3>3. x \notin Q BY <1>9, <3>1, <3>2
    <3> QED BY <1>2, <1>9, <1>10, <3>1, <3>2, <3>3
  <2>9. ASSUME NEW x \in In(lists, "tobefnz") PROVE color'[x] # "white"
    <3>1. x \in Objects BY <1>4, InObjects, NoNames
    <3>2. color[x] # "white" BY <1>4 DEF MarkOK
    <3> QED BY <1>9, <2>2, <3>1, <3>2
  <2> QED BY <2>1, <2>3, <2>4, <2>5, <2>6, <2>7, <2>8, <2>9 DEF MarkOK
<1>16. allweak' \subseteq Tables BY <1>15 DEF MarkOK
<1> QED BY <1>3, <1>14, <1>15, <1>16 DEF GcInv

SweepOf(r, col, ls, ptr, n) == r = G!sweeplist(col, ls, ptr, n)

\* What a sweep of list l, seen from the header or from where it stands, starts from ...
Sweepable(col, e, m, st, ls, ptr, l) ==
  /\ ObjectsOK(col, e, m) /\ ClosedOK(col, e, st, ls) /\ ListsOK(ls, col)
  /\ l \in Lists /\ ptr # "null" /\ PassedWhite(ls, ptr, l, col)
\* ... and what it leaves.
SweepLeaves(r, col, e, m, st, ls, ptr, l, n) ==
  /\ ListsOK(r.lists, r.color)
  /\ ClosedOK(r.color, G!Scrub(e, r.color), st, r.lists)
  /\ ObjectsOK(r.color, G!Scrub(e, r.color), Scrubbed(m, r.color))
  /\ PassedWhite(r.lists, r.sweepgc, l, r.color)
  /\ LiveIn(r.color) = LiveIn(col)
  /\ \A k \in Lists : In(r.lists, k) \subseteq In(ls, k)
  /\ \A o \in Objects : col[o] \in {"free", "white"} => r.color[o] = col[o]
  /\ \A o \in Objects : r.color[o] = "free" =>
        col[o] = "free" \/ (col[o] = "dead" /\ o \in In(ls, l))
  /\ ptr = l /\ Len(ls[l]) <= n => r.sweepgc = "null"

LEMMA SweepKeepsHeap ==
  ASSUME NEW col, NEW e, NEW m, NEW st, NEW ls, NEW ptr, NEW l, NEW n \in Nat,
         Sweepable(col, e, m, st, ls, ptr, l), NEW r, SweepOf(r, col, ls, ptr, n)
  PROVE  SweepLeaves(r, col, e, m, st, ls, ptr, l, n)
PROOF
<1>0. /\ ObjectsOK(col, e, m) /\ ClosedOK(col, e, st, ls) /\ ListsOK(ls, col)
      /\ l \in Lists /\ ptr # "null" /\ PassedWhite(ls, ptr, l, col)
  BY DEF Sweepable
<1> USE <1>0
<1>1. Separate(ls) /\ col \in [Objects -> {"free", "white", "dead", "gray", "black"}]
  BY DEF ListsOK, ObjectsOK
<1>2. DOMAIN ls[l] = 1..Len(ls[l]) /\ Len(ls[l]) \in Nat BY <1>1, InObjects
<1>3. PICK first \in Nat : /\ StandsAt(ls, ptr, l, first)
                           /\ \A i \in 1..first : col[ls[l][i]] = "white"
                           /\ ptr = l => first = 0
  <2>1. CASE ptr = l
    <3>1. StandsAt(ls, ptr, l, 0) /\ \A i \in 1..0 : col[ls[l][i]] = "white" BY <2>1 DEF StandsAt
    <3> QED BY <3>1
  <2>2. CASE ptr # l
    <3>1. PICK p \in DOMAIN ls[l] : ls[l][p] = ptr /\ \A i \in 1..p : col[ls[l][i]] = "white"
      BY <2>2 DEF PassedWhite
    <3>2. p \in Nat /\ StandsAt(ls, ptr, l, p) BY <1>2, <3>1 DEF StandsAt
    <3> QED BY <2>2, <3>1, <3>2
  <2> QED BY <2>1, <2>2
<1>4. PICK last \in Nat : SweptFrom(col, ls, ptr, n, l, first, last, r)
  BY <1>1, <1>3, SweepIs DEF SweepOf
<1>5. /\ r.color \in [Objects -> {"free", "white", "dead", "gray", "black"}]
      /\ LiveIn(r.color) = LiveIn(col)
      /\ \A o \in Objects : r.color[o] = "free" => col[o] = "free" \/ (col[o] = "dead" /\ o \in In(ls, l))
      /\ \A o \in Objects : col[o] \in {"free", "white"} => r.color[o] = col[o]
      /\ \A o \in Objects : r.color[o] # "white" /\ r.color[o] # "free" => r.color[o] = col[o]
      /\ \A k \in Lists : In(r.lists, k) \subseteq In(ls, k)
      /\ ListsOK(r.lists, r.color)
  BY <1>1, <1>4, SweepColors
<1>6. PassedWhite(r.lists, r.sweepgc, l, r.color) BY <1>1, <1>3, <1>4, SweepPasses
<1>7. /\ ClosedOK(r.color, G!Scrub(e, r.color), st, r.lists)
      /\ ObjectsOK(r.color, G!Scrub(e, r.color),
                   Scrubbed(m, r.color))
  <2>1. \A o \in Objects : col[o] = "free" => r.color[o] = "free" BY <1>5
  <2> QED BY <1>5, <2>1, SweepCloses
<1>8. ASSUME ptr = l, Len(ls[l]) <= n PROVE r.sweepgc = "null"
  <2>1. last = (IF first + n < Len(ls[l]) THEN first + n ELSE Len(ls[l]))
        /\ (last = Len(ls[l]) => r.sweepgc = "null")
    BY <1>4 DEF SweptFrom
  <2>2. last = Len(ls[l]) BY <1>2, <1>3, <1>8, <2>1
  <2> QED BY <2>1, <2>2
<1> QED BY <1>5, <1>6, <1>7, <1>8 DEF SweepLeaves

\* The userdata fit one step of the sweep (80 objects or so; keybow's program has the
\* files of io).  Then tobefnz is swept at once; else a finalizer that runs between
\* two steps takes away the object at which the sweep stands, and the sweep goes on in
\* allgc, with objects behind it that stay black.
FewFinalizers == IsFiniteSet(Userdata) /\ Cardinality(Userdata) <= GCSWEEPMAX

LEMMA FewWait ==
  ASSUME FewFinalizers, NEW ls, NEW col, ListsOK(ls, col)
  PROVE  Len(ls["tobefnz"]) <= GCSWEEPMAX /\ GCSWEEPMAX \in Nat
PROOF
<1> DEFINE s == ls["tobefnz"]
<1>1. s \in Seq(Objects) /\ Distinct(s) /\ DOMAIN s = 1..Len(s) /\ Len(s) \in Nat
  BY InObjects, NoNames DEF ListsOK
<1>2. \A i \in 1..Len(s) : s[i] \in Userdata BY <1>1 DEF ListsOK, In, Elements
<1>3. s \in Injection(1..Len(s), Userdata)
  <2>1. s \in [1..Len(s) -> Userdata] BY <1>1, <1>2
  <2>2. \A i, k \in 1..Len(s) : s[i] = s[k] => i = k BY <1>1 DEF Distinct
  <2> QED BY <2>1, <2>2 DEF Injection, IsInjective
<1> HIDE DEF s
<1>4. Cardinality(1..Len(s)) <= Cardinality(Userdata) BY <1>3, FS_Injection DEF FewFinalizers
<1>5. Cardinality(1..Len(s)) = Len(s) BY <1>1, FS_Interval
<1>6. Cardinality(Userdata) \in Nat /\ GCSWEEPMAX \in Nat
  BY FS_CardinalityType, ObjectsFit DEF FewFinalizers, G!LuaGcAssumption
<1> QED BY <1>1, <1>4, <1>5, <1>6 DEF FewFinalizers, s

LEMMA FullGCKeeps == ASSUME GcInv, NEW b, G!FullGC(b) PROVE GcInv'
PROOF
<1>1. UNCHANGED <<entry, mode, stack>> BY DEF G!FullGC
<1>2. CASE G!keepinvariant
  <2> DEFINE r == G!sweeplist(color, lists, "allgc", 1)
  <2>1. color' = r.color /\ lists' = r.lists /\ sweepgc' = r.sweepgc /\ gcstate' = "allgc" /\ allweak' = {}
    BY <1>2 DEF G!FullGC, G!Swept
  <2>0. SweepOf(r, color, lists, "allgc", 1) BY DEF SweepOf
  <2> HIDE DEF r
  <2>2. /\ ObjectsOK(color, entry, mode) /\ ListsOK(lists, color)
        /\ ClosedOK(color, entry, stack, lists) /\ \A o \in Objects : color[o] # "dead"
    BY <1>2 DEF GcInv, G!keepinvariant, MarkOK
  <2>3. PassedWhite(lists, "allgc", "allgc", color) /\ "allgc" \in Lists /\ "allgc" # "null"
    BY NoNames DEF PassedWhite
  <2>4. /\ ListsOK(r.lists, r.color) /\ ClosedOK(r.color, G!Scrub(entry, r.color), stack, r.lists)
        /\ ObjectsOK(r.color, G!Scrub(entry, r.color),
                     Scrubbed(mode, r.color))
        /\ PassedWhite(r.lists, r.sweepgc, "allgc", r.color)
        /\ \A o \in Objects : r.color[o] = "free" =>
              color[o] = "free" \/ (color[o] = "dead" /\ o \in In(lists, "allgc"))
    <3>1. Sweepable(color, entry, mode, stack, lists, "allgc", "allgc") /\ 1 \in Nat
      BY <2>2, <2>3 DEF Sweepable
    <3>2. SweepLeaves(r, color, entry, mode, stack, lists, "allgc", "allgc", 1)
      BY <2>0, <3>1, SweepKeepsHeap, Zenon
    <3> QED BY <3>2 DEF SweepLeaves
  <2>5. \A o \in Objects : r.color[o] = "free" => color[o] = "free" BY <2>2, <2>4
  <2>6. ObjectsOK(r.color, entry, mode)
    <3>1. r.color \in [Objects -> {"free", "white", "dead", "gray", "black"}] BY <2>4 DEF ObjectsOK
    <3> QED BY <2>2, <2>5, <3>1 DEF ObjectsOK
  <2>7. G!Scrub(entry, r.color) = entry BY <2>6, ScrubSame
  <2>8. SweepOK("allgc", r.sweepgc, r.lists, r.color)
    <3>1. SweptBefore("allgc") = {} BY DEF SweptBefore
    <3> QED BY <2>3, <2>4, <3>1 DEF SweepOK
  <2> QED BY <1>1, <2>1, <2>4, <2>6, <2>7, <2>8 DEF GcInv
<1>3. CASE ~G!keepinvariant
  BY <1>1, <1>3 DEF G!FullGC, G!work, GcInv
<1> QED BY <1>2, <1>3

LEMMA SweepKeeps == ASSUME GcInv, FewFinalizers, G!Sweep PROVE GcInv'
PROOF
<1> DEFINE r == IF sweepgc = "null" THEN [color |-> color, lists |-> lists, sweepgc |-> "null"]
                ELSE G!sweeplist(color, lists, sweepgc, GCSWEEPMAX)
           next == G!NextSweep[gcstate]
<1>1. /\ gcstate \in Lists
      /\ color' = r.color /\ lists' = r.lists
      /\ entry' = G!Scrub(entry, r.color) /\ mode' = G!ScrubMode(r.color)
      /\ gcstate' = IF r.sweepgc = "null" THEN next ELSE gcstate
      /\ sweepgc' = IF r.sweepgc = "null" THEN (IF next \in Lists THEN next ELSE "null") ELSE r.sweepgc
      /\ UNCHANGED <<stack, gray, grayagain, allweak>>
  BY DEF G!Sweep, G!work, Lists
<1>2. /\ ObjectsOK(color, entry, mode) /\ allweak \subseteq Tables /\ ListsOK(lists, color)
      /\ ClosedOK(color, entry, stack, lists) /\ SweepOK(gcstate, sweepgc, lists, color)
      /\ \A l \in SweptBefore(gcstate) : \A o \in In(lists, l) : color[o] = "white"
      /\ PassedWhite(lists, sweepgc, gcstate, color)
      /\ gcstate = "tobefnz" => sweepgc = "tobefnz"
  BY <1>1 DEF GcInv, SweepOK
<1>3. Lists = {"allgc", "finobj", "tobefnz"} BY NoNames
<1>4. GCSWEEPMAX \in Nat /\ Len(lists["tobefnz"]) <= GCSWEEPMAX BY <1>2, FewWait
<1>5. /\ ListsOK(r.lists, r.color)
      /\ ClosedOK(r.color, entry', stack, r.lists) /\ ObjectsOK(r.color, entry', mode')
      /\ PassedWhite(r.lists, r.sweepgc, gcstate, r.color)
      /\ \A k \in Lists : In(r.lists, k) \subseteq In(lists, k)
      /\ \A o \in Objects : color[o] \in {"free", "white"} => r.color[o] = color[o]
      /\ gcstate = "tobefnz" => r.sweepgc = "null"
  <2>1. G!ScrubMode(r.color) = Scrubbed(mode, r.color)
    BY DEF G!ScrubMode, Objects, Scrubbed
  <2>2. CASE sweepgc = "null"
    <3>1. r.color = color /\ r.lists = lists /\ r.sweepgc = "null" BY <2>2
    <3>2. entry' = entry BY <1>1, <1>2, <3>1, ScrubSame
    <3>3. ObjectsOK(color, entry, mode') BY <1>1, <1>2, <2>1, <3>1 DEF ObjectsOK, Scrubbed
    <3> HIDE DEF r
    <3> QED BY <1>2, <2>2, <3>1, <3>2, <3>3
  <2>3. CASE sweepgc # "null"
    <3>1. SweepOf(r, color, lists, sweepgc, GCSWEEPMAX) BY <2>3 DEF SweepOf
    <3> HIDE DEF r
    <3>2. /\ ListsOK(r.lists, r.color) /\ ClosedOK(r.color, G!Scrub(entry, r.color), stack, r.lists)
          /\ ObjectsOK(r.color, G!Scrub(entry, r.color),
                       Scrubbed(mode, r.color))
          /\ PassedWhite(r.lists, r.sweepgc, gcstate, r.color)
          /\ LiveIn(r.color) = LiveIn(color)
          /\ \A k \in Lists : In(r.lists, k) \subseteq In(lists, k)
          /\ \A o \in Objects : color[o] \in {"free", "white"} => r.color[o] = color[o]
          /\ \A o \in Objects : r.color[o] = "free" =>
                color[o] = "free" \/ (color[o] = "dead" /\ o \in In(lists, gcstate))
          /\ sweepgc = gcstate /\ Len(lists[gcstate]) <= GCSWEEPMAX => r.sweepgc = "null"
      <4>1. Sweepable(color, entry, mode, stack, lists, sweepgc, gcstate) /\ GCSWEEPMAX \in Nat
        BY <1>1, <1>2, <1>4, <2>3 DEF Sweepable
      <4>2. SweepLeaves(r, color, entry, mode, stack, lists, sweepgc, gcstate, GCSWEEPMAX)
        BY <3>1, <4>1, SweepKeepsHeap, Zenon
      <4> QED BY <4>2 DEF SweepLeaves
    <3> QED BY <1>1, <1>2, <1>4, <2>1, <3>2
  <2> QED BY <2>2, <2>3
<1> HIDE DEF r
<1>6. \A l \in SweptBefore(gcstate) : \A o \in In(r.lists, l) : r.color[o] = "white"
  <2>1. \A l \in SweptBefore(gcstate) : l \in Lists BY DEF SweptBefore
  <2>2. \A l \in Lists : In(lists, l) \subseteq Objects BY <1>2, InObjects DEF ListsOK
  <2> QED BY <1>2, <1>5, <2>1, <2>2
<1>7. SweepOK(gcstate', sweepgc', r.lists, r.color)
  <2>1. CASE r.sweepgc # "null"
    <3>1. gcstate' = gcstate /\ sweepgc' = r.sweepgc BY <1>1, <2>1
    <3>2. gcstate # "tobefnz" /\ gcstate \notin {"swpend", "callfin", "pause"} BY <1>1, <1>3, <1>5, <2>1
    <3> QED BY <1>1, <1>5, <1>6, <3>1, <3>2 DEF SweepOK
  <2>2. CASE r.sweepgc = "null"
    <3>1. \A o \in In(r.lists, gcstate) : r.color[o] = "white" BY <1>5, <2>2 DEF PassedWhite
    <3>2. CASE gcstate = "allgc"
      <4>1. gcstate' = "finobj" /\ sweepgc' = "finobj" BY <1>1, <1>3, <2>2, <3>2 DEF G!NextSweep
      <4>2. SweptBefore("finobj") = {"allgc"} BY <1>3 DEF SweptBefore
      <4>3. PassedWhite(r.lists, "finobj", "finobj", r.color) BY DEF PassedWhite
      <4> QED BY <1>3, <3>1, <3>2, <4>1, <4>2, <4>3 DEF SweepOK
    <3>3. CASE gcstate = "finobj"
      <4>1. gcstate' = "tobefnz" /\ sweepgc' = "tobefnz" BY <1>1, <1>3, <2>2, <3>3 DEF G!NextSweep
      <4>2. SweptBefore("tobefnz") = {"allgc", "finobj"} /\ SweptBefore("finobj") = {"allgc"}
        BY <1>3 DEF SweptBefore
      <4>3. PassedWhite(r.lists, "tobefnz", "tobefnz", r.color) BY DEF PassedWhite
      <4>4. \A l \in SweptBefore("tobefnz") : \A o \in In(r.lists, l) : r.color[o] = "white"
        BY <1>6, <3>1, <3>3, <4>2
      <4> QED BY <1>3, <4>1, <4>3, <4>4 DEF SweepOK
    <3>4. CASE gcstate = "tobefnz"
      <4>1. gcstate' = "swpend" /\ sweepgc' = "null" BY <1>1, <1>3, <2>2, <3>4 DEF G!NextSweep
      <4>2. SweptBefore("tobefnz") = {"allgc", "finobj"} BY <1>3 DEF SweptBefore
      <4>3. \A l \in Lists : \A o \in In(r.lists, l) : r.color[o] = "white"
        BY <1>3, <1>6, <3>1, <3>4, <4>2
      <4>4. \A o \in Objects : r.color[o] \in {"free", "white"} BY <1>5, <4>3 DEF ListsOK
      <4> QED BY <1>3, <4>1, <4>4 DEF SweepOK
    <3> QED BY <1>1, <1>3, <3>2, <3>3, <3>4
  <2> QED BY <2>1, <2>2
<1>8. gcstate' \notin {"propagate", "atomic"}
  BY <1>1, <1>3 DEF G!NextSweep
<1> QED BY <1>1, <1>2, <1>5, <1>7, <1>8 DEF GcInv

LEMMA EndsKeep == ASSUME GcInv, G!EndSweep \/ G!EndCycle PROVE GcInv'
PROOF
<1>1. UNCHANGED <<color, entry, mode, stack, lists, gray, grayagain, allweak, sweepgc>>
  BY DEF G!EndSweep, G!EndCycle, G!heap, G!work
<1>2. gcstate \in {"swpend", "callfin"} /\ gcstate' \in {"callfin", "pause"}
  BY DEF G!EndSweep, G!EndCycle
<1>3. gcstate' \notin Lists BY <1>2, NoNames
<1>4. SweepOK(gcstate', sweepgc, lists, color) BY <1>2, <1>3 DEF GcInv, SweepOK
<1>5. gcstate' \notin {"propagate", "atomic"} BY <1>2
<1> QED BY <1>1, <1>4, <1>5 DEF GcInv

LEMMA HeapInit == G!Init => GcInv
PROOF
<1> SUFFICES ASSUME G!Init PROVE GcInv OBVIOUS
<1>1. /\ color = [o \in Objects |-> IF o = Registry THEN "white" ELSE "free"]
      /\ entry = [o \in Objects |-> [i \in Slots |-> G!Empty]]
      /\ mode = [o \in Objects |-> {}]
      /\ stack = {} /\ lists = [l \in Lists |-> IF l = "allgc" THEN <<Registry>> ELSE <<>>]
      /\ allweak = {} /\ gcstate = "pause"
  BY DEF G!Init, Objects, Lists
<1>2. Registry \in Objects /\ Registry \notin StringObjs BY TypesApart
<1>3. Lists = {"allgc", "finobj", "tobefnz"} BY NoNames
<1>4. ObjectsOK(color, entry, mode)
  <2>1. G!Empty \in (Objects \cup {NoObject}) \X (Objects \cup {NoObject}) BY DEF G!Empty
  <2>2. entry \in [Objects -> [Slots -> (Objects \cup {NoObject}) \X (Objects \cup {NoObject})]]
    BY <1>1, <2>1
  <2> QED BY <1>1, <2>2 DEF ObjectsOK
<1>5. /\ In(lists, "allgc") = {Registry} /\ In(lists, "finobj") = {} /\ In(lists, "tobefnz") = {}
      /\ lists \in [Lists -> Seq(Objects)] /\ \A l \in Lists : Distinct(lists[l])
  <2> DEFINE one == <<Registry>>
  <2>1. one \in Seq(Objects) /\ DOMAIN one = {1} /\ one[1] = Registry BY <1>2
  <2>2. Elements(one) = {Registry} /\ Distinct(one) BY <2>1 DEF Elements, Distinct
  <2>3. <<>> \in Seq(Objects) /\ Elements(<<>>) = {} /\ Distinct(<<>>) BY DEF Elements, Distinct
  <2>4. lists["allgc"] = one /\ lists["finobj"] = <<>> /\ lists["tobefnz"] = <<>> BY <1>1, <1>3
  <2>5. lists \in [Lists -> Seq(Objects)] BY <1>1, <2>1, <2>3
  <2> HIDE DEF one
  <2> QED BY <1>3, <2>2, <2>3, <2>4, <2>5 DEF In
<1>6. ListsOK(lists, color)
  <2>1. \A l, k \in Lists : l # k => In(lists, l) \cap In(lists, k) = {} BY <1>3, <1>5
  <2>2. \A o \in Objects : color[o] # "free" <=> \E l \in Lists : o \in In(lists, l)
    BY <1>1, <1>3, <1>5
  <2> QED BY <1>5, <2>1, <2>2 DEF ListsOK, Separate
<1>7. ClosedOK(color, entry, stack, lists)
  <2>1. \A o \in Objects : G!Refs(entry, o) = {}
    <3>1. SUFFICES ASSUME NEW o \in Objects PROVE G!Refs(entry, o) = {} OBVIOUS
    <3>2. \A i \in Slots : entry[o][i] = G!Empty BY <1>1
    <3> QED BY <3>2, RefsAre DEF G!Empty
  <2> QED BY <1>1, <1>2, <1>5, <2>1 DEF ClosedOK, LiveIn
<1>8. SweepOK(gcstate, sweepgc, lists, color)
  <2>1. gcstate \notin Lists /\ \A o \in Objects : color[o] \in {"free", "white"} BY <1>1, <1>3
  <2> QED BY <1>1, <2>1 DEF SweepOK
<1> QED BY <1>1, <1>4, <1>6, <1>7, <1>8 DEF GcInv

\* What the atomic step works with: the objects that it may visit, what is marked
\* before and after the objects with finalizers came back, the colours and the
\* entries that it leaves, and the lists.
Visits == G!White(color) \cup gray \cup grayagain \cup allweak
Before == G!Spread(G!Marked(color) \cup G!Roots, Visits)
Lost == G!Separated(Before)
After == G!Spread(Before \cup G!ToSet(Lost), Visits)
Flipped ==
  [o \in Objects |-> IF color[o] = "free" THEN "free" ELSE IF o \notin After THEN "dead"
                     ELSE IF o \in Visits /\ G!Mode(o) # {} THEN "gray" ELSE "black"]
Uncleared ==
  [o \in Objects |-> [i \in Slots |->
     IF o \in Visits \cap After /\ G!Cleared(o, entry[o][i], Before, After) THEN G!Empty ELSE entry[o][i]]]
Taken == [lists EXCEPT !["finobj"] = G!Keep(@, Objects \ G!ToSet(Lost)), !["tobefnz"] = @ \o Lost]
Entered == G!sweeplist(Flipped, Taken, "allgc", 1)

LEMMA AtomicIs ==
  ASSUME G!Atomic
  PROVE  /\ gcstate = "atomic" /\ gcstate' = "allgc" /\ allweak' = {} /\ stack' = stack
         /\ color' = Entered.color /\ lists' = Entered.lists /\ sweepgc' = Entered.sweepgc
         /\ entry' = G!Scrub(Uncleared, Entered.color) /\ mode' = G!ScrubMode(Entered.color)
BY DEF G!Atomic, G!Swept, Entered, Taken, Uncleared, Flipped, After, Lost, Before, Visits, Objects

\* What is marked is live, and closed: both before and after the finalizers.
LEMMA MarkedCloses ==
  ASSUME GcInv, gcstate = "atomic"
  PROVE  /\ Before \subseteq After /\ After \subseteq LiveIn(color) /\ G!Held \subseteq Before
         /\ \A o \in Objects : color[o] \in {"gray", "black"} => o \in Before
         /\ \A o \in Before \cap Visits : G!Marks(o, Before) \subseteq Before
         /\ \A o \in After \cap Visits : G!Marks(o, After) \subseteq After
         /\ \A o \in After \ Visits : color[o] = "black" /\ G!Refs(entry, o) \subseteq Before
         /\ Elements(Lost) = In(lists, "finobj") \ Before
         /\ Elements(Lost) \subseteq After
         /\ Lost \in Seq(Objects) /\ Distinct(Lost)
PROOF
<1>1. /\ ObjectsOK(color, entry, mode) /\ ListsOK(lists, color) /\ Separate(lists)
      /\ ClosedOK(color, entry, stack, lists)
      /\ MarkOK(color, entry, lists, gray, grayagain, allweak)
  BY DEF GcInv, ListsOK
<1>2. color \in [Objects -> {"free", "white", "dead", "gray", "black"}] BY <1>1 DEF ObjectsOK
<1>3. /\ LiveIn(color) \subseteq Objects
      /\ \A o \in LiveIn(color) : G!Refs(entry, o) \subseteq LiveIn(color)
      /\ \A o \in LiveIn(color) : color[o] \in {"white", "gray", "black"}
  BY <1>1 DEF ClosedOK, LiveIn
<1> DEFINE S1 == G!Marked(color) \cup G!Roots
<1>4. \A x : x \in G!Marked(color) <=> x \in Objects /\ color[x] \in {"gray", "black"}
  BY DEF G!Marked, Objects
<1>5. G!Roots = G!Held /\ G!Held \subseteq LiveIn(color)
  BY <1>1 DEF G!Roots, G!Held, ClosedOK
<1>6. S1 \subseteq LiveIn(color) /\ S1 \in SUBSET Objects
  <2>1. \A x \in G!Marked(color) : x \in LiveIn(color) BY <1>4 DEF LiveIn
  <2> QED BY <1>3, <1>5, <2>1
<1> HIDE DEF S1
<1>7. \A C \in SUBSET Objects : \A x \in LiveIn(color) : G!Marks(x, C) \subseteq LiveIn(color)
  <2>1. ASSUME NEW C \in SUBSET Objects, NEW x \in LiveIn(color) PROVE G!Marks(x, C) \subseteq LiveIn(color)
    <3>1. G!Marks(x, C) \subseteq G!Refs(entry, x) BY MarksBounds
    <3> QED BY <1>3, <3>1
  <2> QED BY <2>1
<1>8. /\ S1 \subseteq Before /\ Before \subseteq Objects
      /\ \A x \in Before \cap Visits : G!Marks(x, Before) \subseteq Before
      /\ \A C \in SUBSET Objects :
            S1 \subseteq C /\ (\A x \in C \cap Visits : G!Marks(x, C) \subseteq C) => Before \subseteq C
  <2>1. Before = G!Spread(S1, Visits) BY DEF Before, S1
  <2> HIDE DEF Before
  <2> QED BY <1>1, <1>6, <2>1, SpreadIsLeast
<1>9. Before \subseteq LiveIn(color)
  <2>1. LiveIn(color) \in SUBSET Objects BY <1>3
  <2>2. \A x \in LiveIn(color) \cap Visits : G!Marks(x, LiveIn(color)) \subseteq LiveIn(color) BY <1>7, <2>1
  <2> QED BY <1>6, <1>8, <2>1, <2>2
<1>10. /\ Lost \in Seq(Objects) /\ Distinct(Lost) /\ Elements(Lost) = In(lists, "finobj") \ Before
  <2> DEFINE s == lists["finobj"]
             Wanted == Objects \ Before
  <2>1. s \in Seq(Objects) /\ Distinct(s) /\ Elements(s) \subseteq Objects /\ Elements(s) = In(lists, "finobj")
    BY <1>1, InObjects, NoNames DEF In
  <2>2. Lost = G!Keep(s, Wanted) BY DEF Lost, G!Separated, Objects
  <2> HIDE DEF s, Wanted
  <2>3. Lost \in Seq(Objects) /\ Distinct(Lost) /\ Elements(Lost) = Elements(s) \cap Wanted
    BY <2>1, <2>2, KeepIs
  <2> QED BY <2>1, <2>3 DEF Wanted
<1>11. G!ToSet(Lost) = Elements(Lost) /\ Elements(Lost) \subseteq LiveIn(color)
  <2>1. In(lists, "finobj") \subseteq LiveIn(color) BY <1>1 DEF ClosedOK
  <2> QED BY <1>10, <2>1 DEF G!ToSet, Elements
<1> DEFINE S2 == Before \cup G!ToSet(Lost)
<1>12. S2 \subseteq LiveIn(color) /\ S2 \in SUBSET Objects BY <1>3, <1>9, <1>11
<1>13. Before \subseteq S2 /\ Elements(Lost) \subseteq S2 BY <1>11
<1> HIDE DEF S2
<1>14. /\ S2 \subseteq After /\ After \subseteq Objects
       /\ \A x \in After \cap Visits : G!Marks(x, After) \subseteq After
       /\ \A C \in SUBSET Objects :
             S2 \subseteq C /\ (\A x \in C \cap Visits : G!Marks(x, C) \subseteq C) => After \subseteq C
  <2>1. After = G!Spread(S2, Visits) BY DEF After, S2
  <2> HIDE DEF After
  <2> QED BY <1>1, <1>12, <2>1, SpreadIsLeast
<1>15. After \subseteq LiveIn(color)
  <2>1. LiveIn(color) \in SUBSET Objects BY <1>3
  <2>2. \A x \in LiveIn(color) \cap Visits : G!Marks(x, LiveIn(color)) \subseteq LiveIn(color) BY <1>7, <2>1
  <2> QED BY <1>12, <1>14, <2>1, <2>2
<1>16. \A o \in Objects : color[o] \in {"gray", "black"} => o \in Before
  <2>1. G!Marked(color) \subseteq S1 BY DEF S1
  <2> QED BY <1>4, <1>8, <2>1
<1>17. ASSUME NEW o \in After \ Visits PROVE color[o] = "black" /\ G!Refs(entry, o) \subseteq Before
  <2>1. o \in LiveIn(color) /\ o \in Objects BY <1>3, <1>15
  <2>2. o \notin gray \cup grayagain \cup allweak /\ o \notin G!White(color) BY DEF Visits
  <2>3. color[o] # "white" BY <2>1, <2>2 DEF G!White, Objects
  <2>4. color[o] # "gray" BY <1>1, <2>1, <2>2 DEF MarkOK
  <2>5. color[o] = "black" BY <1>3, <2>1, <2>3, <2>4
  <2>6. ASSUME NEW x \in G!Refs(entry, o) PROVE x \in Before
    <3>1. x \in LiveIn(color) BY <1>3, <2>1
    <3>2. color[x] # "white" BY <1>1, <2>1, <2>5 DEF MarkOK
    <3> QED BY <1>3, <1>16, <3>1, <3>2
  <2> QED BY <2>5, <2>6
<1>18. G!Held \subseteq Before
  <2>1. G!Roots \subseteq S1 BY DEF S1
  <2> QED BY <1>5, <1>8, <2>1
<1> QED BY <1>8, <1>10, <1>13, <1>14, <1>15, <1>16, <1>17, <1>18

\* What the atomic step leaves to the sweep: what it marked is live, refers to what
\* it marked, and is in the lists as before but for the objects to be finalized.
LEMMA AtomicCloses ==
  ASSUME GcInv, gcstate = "atomic"
  PROVE  /\ ObjectsOK(Flipped, Uncleared, mode) /\ LiveIn(Flipped) = After
         /\ ClosedOK(Flipped, Uncleared, stack, Taken) /\ ListsOK(Taken, Flipped)
         /\ In(Taken, "allgc") = In(lists, "allgc")
         /\ In(Taken, "tobefnz") = In(lists, "tobefnz") \cup Elements(Lost)
         /\ \A o \in Objects : Flipped[o] = "free" <=> color[o] = "free"
PROOF
<1>1. /\ ObjectsOK(color, entry, mode) /\ ListsOK(lists, color) /\ Separate(lists)
      /\ ClosedOK(color, entry, stack, lists)
      /\ MarkOK(color, entry, lists, gray, grayagain, allweak)
  BY DEF GcInv, ListsOK
<1>2. color \in [Objects -> {"free", "white", "dead", "gray", "black"}] BY <1>1 DEF ObjectsOK
<1>3. /\ LiveIn(color) \subseteq Objects
      /\ \A o \in LiveIn(color) : color[o] \in {"white", "gray", "black"}
  BY DEF LiveIn
<1>4. /\ Before \subseteq After /\ After \subseteq LiveIn(color) /\ G!Held \subseteq Before
      /\ \A o \in Objects : color[o] \in {"gray", "black"} => o \in Before
      /\ \A o \in After \cap Visits : G!Marks(o, After) \subseteq After
      /\ \A o \in After \ Visits : color[o] = "black" /\ G!Refs(entry, o) \subseteq Before
      /\ Elements(Lost) = In(lists, "finobj") \ Before
      /\ Elements(Lost) \subseteq After
      /\ Lost \in Seq(Objects) /\ Distinct(Lost)
  BY MarkedCloses
<1>5. /\ Flipped \in [Objects -> {"free", "white", "dead", "gray", "black"}]
      /\ \A o \in Objects : Flipped[o] = "free" <=> color[o] = "free"
      /\ \A o \in Objects : Flipped[o] = "dead" <=> color[o] # "free" /\ o \notin After
      /\ \A o \in Objects : Flipped[o] \in {"free", "dead", "gray", "black"}
  <2>1. \A o \in Objects :
           Flipped[o] = IF color[o] = "free" THEN "free" ELSE IF o \notin After THEN "dead"
                        ELSE IF o \in Visits /\ G!Mode(o) # {} THEN "gray" ELSE "black"
    BY DEF Flipped
  <2>2. Flipped \in [Objects -> {"free", "white", "dead", "gray", "black"}] BY DEF Flipped
  <2> QED BY <2>1, <2>2
<1>6. LiveIn(Flipped) = After
  <2>1. ASSUME NEW o \in After PROVE o \in LiveIn(Flipped)
    <3>1. o \in Objects /\ color[o] # "free" BY <1>3, <1>4
    <3> QED BY <1>5, <3>1 DEF LiveIn
  <2>2. ASSUME NEW o \in LiveIn(Flipped) PROVE o \in After BY <1>5 DEF LiveIn
  <2> QED BY <2>1, <2>2
<1>7. entry \in [Objects -> [Slots -> (Objects \cup {NoObject}) \X (Objects \cup {NoObject})]]
  BY <1>1 DEF ObjectsOK
<1>8. \A o \in Objects, i \in Slots :
         Uncleared[o][i] = IF o \in Visits \cap After /\ G!Cleared(o, entry[o][i], Before, After)
                           THEN G!Empty ELSE entry[o][i]
  BY DEF Uncleared
<1>9. ObjectsOK(Flipped, Uncleared, mode)
  <2>1. G!Empty \in (Objects \cup {NoObject}) \X (Objects \cup {NoObject}) BY DEF G!Empty
  <2>2. Uncleared \in [Objects -> [Slots -> (Objects \cup {NoObject}) \X (Objects \cup {NoObject})]]
    BY <1>7, <2>1 DEF Uncleared
  <2>3. \A o \in Objects, i \in Slots : Uncleared[o][i] \in {G!Empty, entry[o][i]} BY <1>8
  <2>4. \A o \in Objects, i \in Slots : Uncleared[o][i] # G!Empty => Uncleared[o][i][2] \in Objects
    BY <1>1, <2>3 DEF ObjectsOK
  <2>5. \A o \in Objects : Flipped[o] = "free" \/ o \in StringObjs =>
           \A i \in Slots : Uncleared[o][i] = G!Empty
    BY <1>1, <1>5, <2>3 DEF ObjectsOK
  <2> QED BY <1>1, <1>5, <2>2, <2>4, <2>5 DEF ObjectsOK
<1>10. ASSUME NEW o \in After, NEW x \in G!Refs(Uncleared, o) PROVE x \in After
  <2>0. o \in Objects BY <1>3, <1>4
  <2>1. PICK i \in Slots : x # NoObject /\ (x = Uncleared[o][i][1] \/ x = Uncleared[o][i][2])
    <3>1. \A y : y \in G!Refs(Uncleared, o) <=>
             y # NoObject /\ \E i \in Slots : y = Uncleared[o][i][1] \/ y = Uncleared[o][i][2]
      BY RefsAre
    <3> QED BY <1>10, <3>1
  <2> DEFINE p == entry[o][i]
  <2>2. Uncleared[o][i] = p
    <3>1. Uncleared[o][i] # G!Empty BY <2>1 DEF G!Empty
    <3> QED BY <1>8, <2>0, <3>1
  <2>3. Uncleared[o][i] # G!Empty BY <2>1 DEF G!Empty
  <2>4. CASE o \notin Visits
    <3>1. x \in G!Refs(entry, o) BY <2>1, <2>2, RefsAre
    <3> QED BY <1>4, <2>4, <3>1
  <2>5. CASE o \in Visits
    <3>1. ~G!Cleared(o, p, Before, After) BY <1>8, <2>0, <2>3, <2>5
    <3>2. \A y : /\ y # NoObject
                 /\ \/ y = p[1] /\ G!MarksKey(o, p)
                    \/ y = p[2] /\ G!MarksValue(o, p, After)
              => y \in After
      <4>1. \A y : y \in G!Marks(o, After) <=>
              /\ y # NoObject
              /\ \E k \in Slots : \/ y = entry[o][k][1] /\ G!MarksKey(o, entry[o][k])
                                  \/ y = entry[o][k][2] /\ G!MarksValue(o, entry[o][k], After)
        BY MarksAre
      <4> QED BY <1>4, <2>5, <4>1
    <3> HIDE DEF p
    <3>3. "k" \in G!Mode(o) => p[1] \in After \cup StringObjs \cup {NoObject}
      BY <3>1 DEF G!Cleared, G!Stays
    <3>4. "v" \in G!Mode(o) => p[2] \in After BY <1>4, <3>1 DEF G!Cleared
    <3>5. CASE x = p[1]
      <4>1. x \in After \/ G!MarksKey(o, p) BY <2>1, <3>3, <3>5 DEF G!MarksKey
      <4> QED BY <2>1, <3>2, <3>5, <4>1
    <3>6. CASE x = p[2]
      <4>1. x \in After \/ G!MarksValue(o, p, After) BY <3>3, <3>4, <3>6 DEF G!MarksValue, G!Stays
      <4> QED BY <2>1, <3>2, <3>6, <4>1
    <3> QED BY <2>1, <2>2, <3>5, <3>6 DEF p
  <2> QED BY <2>4, <2>5
<1> DEFINE s == lists["finobj"]
           t == lists["tobefnz"]
           s2 == G!Keep(s, Objects \ G!ToSet(Lost))
           t2 == t \o Lost
<1>11. Lists = {"allgc", "finobj", "tobefnz"} BY NoNames
<1>12. /\ s \in Seq(Objects) /\ Distinct(s) /\ In(lists, "finobj") = Elements(s) /\ Elements(s) \subseteq Objects
       /\ t \in Seq(Objects) /\ Distinct(t) /\ In(lists, "tobefnz") = Elements(t)
  BY <1>1, <1>11, InObjects DEF In
<1>13. Taken = [lists EXCEPT !["finobj"] = s2, !["tobefnz"] = t2]
  BY <1>1, <1>11 DEF Taken, Separate
<1> HIDE DEF s, t
<1>14. s2 \in Seq(Objects) /\ Distinct(s2) /\ Elements(s2) = Elements(s) \ Elements(Lost)
  <2> DEFINE Wanted == Objects \ G!ToSet(Lost)
  <2>1. G!ToSet(Lost) = Elements(Lost) BY DEF G!ToSet, Elements
  <2>2. s2 \in Seq(Objects) /\ Distinct(s2) /\ Elements(s2) = Elements(s) \cap Wanted
    <3> HIDE DEF Wanted
    <3>1. G!Keep(s, Wanted) \in Seq(Objects) /\ Distinct(G!Keep(s, Wanted)) /\ Elements(G!Keep(s, Wanted)) = Elements(s) \cap Wanted
      BY <1>12, KeepIs
    <3> QED BY <3>1 DEF Wanted
  <2> HIDE DEF s2
  <2> QED BY <1>12, <2>1, <2>2
<1>15. /\ t2 \in Seq(Objects) /\ Distinct(t2) /\ Elements(t2) = Elements(t) \cup Elements(Lost)
  <2>1. Elements(s) \cap Elements(t) = {} BY <1>1, <1>11, <1>12 DEF Separate
  <2>2. Elements(t) \cap Elements(Lost) = {} BY <1>4, <1>12, <2>1
  <2>3. t \o Lost \in Seq(Objects) /\ Distinct(t \o Lost)
        /\ Elements(t \o Lost) = Elements(t) \cup Elements(Lost)
    BY <1>4, <1>12, <2>2, JoinedIs
  <2> QED BY <2>3
<1> HIDE DEF s2, t2
<1>16. /\ Taken \in [Lists -> Seq(Objects)] /\ Taken["allgc"] = lists["allgc"]
       /\ Taken["finobj"] = s2 /\ Taken["tobefnz"] = t2
  <2>1. lists \in [Lists -> Seq(Objects)] BY <1>1 DEF Separate
  <2> QED BY <1>11, <1>13, <1>14, <1>15, <2>1
<1>17. /\ In(Taken, "allgc") = In(lists, "allgc") /\ In(Taken, "finobj") = In(lists, "finobj") \ Elements(Lost)
       /\ In(Taken, "tobefnz") = In(lists, "tobefnz") \cup Elements(Lost)
  BY <1>12, <1>14, <1>15, <1>16 DEF In
<1>18. Elements(Lost) \subseteq In(lists, "finobj") BY <1>4
<1>19. Separate(Taken)
  <2>1. \A l \in Lists : Distinct(Taken[l])
    <3>1. \A l \in Lists : Distinct(lists[l]) BY <1>1 DEF Separate
    <3> QED BY <1>11, <1>14, <1>15, <1>16, <3>1
  <2>2. \A l, k \in Lists : l # k => In(lists, l) \cap In(lists, k) = {} BY <1>1 DEF Separate
  <2>3. /\ In(lists, "allgc") \cap In(lists, "finobj") = {} /\ In(lists, "allgc") \cap In(lists, "tobefnz") = {}
        /\ In(lists, "finobj") \cap In(lists, "tobefnz") = {}
    BY <1>11, <2>2
  <2>4. /\ In(Taken, "allgc") \cap In(Taken, "finobj") = {} /\ In(Taken, "allgc") \cap In(Taken, "tobefnz") = {}
        /\ In(Taken, "finobj") \cap In(Taken, "tobefnz") = {}
    BY <1>17, <1>18, <2>3
  <2>5. \A l, k \in Lists : l # k => In(Taken, l) \cap In(Taken, k) = {} BY <1>11, <2>4
  <2> QED BY <1>16, <2>1, <2>5 DEF Separate
<1>20. ListsOK(Taken, Flipped)
  <2>1. \A x : (\E k \in Lists : x \in In(Taken, k)) <=> (\E k \in Lists : x \in In(lists, k))
    BY <1>11, <1>17, <1>18
  <2>2. In(lists, "finobj") \subseteq Userdata /\ In(lists, "tobefnz") \subseteq Userdata BY <1>1 DEF ListsOK
  <2>3. In(Taken, "finobj") \subseteq Userdata /\ In(Taken, "tobefnz") \subseteq Userdata BY <1>17, <1>18, <2>2
  <2>4. \A o \in Objects : Flipped[o] # "free" <=> \E k \in Lists : o \in In(Taken, k)
    BY <1>1, <1>5, <2>1 DEF ListsOK
  <2> QED BY <1>19, <2>3, <2>4 DEF ListsOK
<1>21. ClosedOK(Flipped, Uncleared, stack, Taken)
  <2>1. stack \subseteq After /\ Registry \in After BY <1>4 DEF G!Held
  <2>2. In(lists, "finobj") \subseteq After BY <1>4
  <2>3. In(lists, "tobefnz") \subseteq After
    <3>1. \A x \in In(lists, "tobefnz") : x \in LiveIn(color) /\ color[x] # "white"
      BY <1>1 DEF ClosedOK, MarkOK
    <3> QED BY <1>3, <1>4, <3>1
  <2>4. \A o \in After : G!Refs(Uncleared, o) \subseteq After BY <1>10
  <2> QED BY <1>4, <1>6, <1>17, <2>1, <2>2, <2>3, <2>4 DEF ClosedOK
<1> QED BY <1>5, <1>6, <1>9, <1>17, <1>20, <1>21

LEMMA EnteredIs ==
  ASSUME GcInv, gcstate = "atomic"
  PROVE  /\ ListsOK(Entered.lists, Entered.color)
         /\ ClosedOK(Entered.color, G!Scrub(Uncleared, Entered.color), stack, Entered.lists)
         /\ ObjectsOK(Entered.color, G!Scrub(Uncleared, Entered.color), G!ScrubMode(Entered.color))
         /\ PassedWhite(Entered.lists, Entered.sweepgc, "allgc", Entered.color)
         /\ LiveIn(Entered.color) = After
         /\ \A k \in Lists : In(Entered.lists, k) \subseteq In(Taken, k)
         /\ \A o \in Objects : Entered.color[o] = "free" =>
               color[o] = "free" \/ o \in In(lists, "allgc")
PROOF
<1>1. /\ ObjectsOK(Flipped, Uncleared, mode) /\ LiveIn(Flipped) = After
      /\ ClosedOK(Flipped, Uncleared, stack, Taken) /\ ListsOK(Taken, Flipped)
      /\ In(Taken, "allgc") = In(lists, "allgc")
      /\ \A o \in Objects : Flipped[o] = "free" <=> color[o] = "free"
  BY AtomicCloses
<1>2. "allgc" \in Lists /\ "allgc" # "null" /\ PassedWhite(Taken, "allgc", "allgc", Flipped)
  BY NoNames DEF PassedWhite
<1> DEFINE r == Entered
<1>3. SweepOf(r, Flipped, Taken, "allgc", 1) BY DEF SweepOf, Entered
<1> HIDE DEF r
<1>4. /\ ListsOK(r.lists, r.color)
      /\ ClosedOK(r.color, G!Scrub(Uncleared, r.color), stack, r.lists)
      /\ ObjectsOK(r.color, G!Scrub(Uncleared, r.color),
                   Scrubbed(mode, r.color))
      /\ PassedWhite(r.lists, r.sweepgc, "allgc", r.color)
      /\ LiveIn(r.color) = LiveIn(Flipped)
      /\ \A k \in Lists : In(r.lists, k) \subseteq In(Taken, k)
      /\ \A o \in Objects : r.color[o] = "free" =>
            Flipped[o] = "free" \/ (Flipped[o] = "dead" /\ o \in In(Taken, "allgc"))
  <2>1. Sweepable(Flipped, Uncleared, mode, stack, Taken, "allgc", "allgc") /\ 1 \in Nat
    BY <1>1, <1>2 DEF Sweepable
  <2>2. SweepLeaves(r, Flipped, Uncleared, mode, stack, Taken, "allgc", "allgc", 1)
    BY <1>3, <2>1, SweepKeepsHeap, Zenon
  <2> QED BY <2>2 DEF SweepLeaves
<1>5. G!ScrubMode(r.color) = Scrubbed(mode, r.color)
  BY DEF G!ScrubMode, Objects, Scrubbed
<1> QED BY <1>1, <1>4, <1>5 DEF r

LEMMA AtomicKeeps == ASSUME GcInv, G!Atomic PROVE GcInv'
PROOF
<1>1. /\ gcstate = "atomic" /\ gcstate' = "allgc" /\ allweak' = {} /\ stack' = stack
      /\ color' = Entered.color /\ lists' = Entered.lists /\ sweepgc' = Entered.sweepgc
      /\ entry' = G!Scrub(Uncleared, Entered.color) /\ mode' = G!ScrubMode(Entered.color)
  BY AtomicIs
<1>2. /\ ListsOK(lists', color') /\ ClosedOK(color', entry', stack', lists')
      /\ ObjectsOK(color', entry', mode') /\ PassedWhite(lists', sweepgc', "allgc", color')
  BY <1>1, EnteredIs
<1>3. SweepOK("allgc", sweepgc', lists', color')
  <2>1. SweptBefore("allgc") = {} BY DEF SweptBefore
  <2> QED BY <1>2, <2>1, NoNames DEF SweepOK
<1> QED BY <1>1, <1>2, <1>3 DEF GcInv

-----------------------------------------------------------------------------
(* What the invariant says, and what a step may do                          *)

LEMMA HeapStep == ASSUME GcInv, FewFinalizers, G!Next PROVE GcInv'
PROOF
<1>1. CASE G!singlestep
  BY <1>1, RestartKeeps, PropagateKeeps, AtomicKeeps, SweepKeeps, EndsKeep DEF G!singlestep
<1>2. CASE G!CallFinalizer BY <1>2, CallFinalizerKeeps
<1>3. CASE G!Mutate
  <2>1. CASE \E o \in Objects : G!luaC_newobj(o) \/ G!FindString(o)
    BY <2>1, luaC_newobjKeeps, FindStringKeeps
  <2>2. CASE \E o \in G!Held : G!GetField(o) BY <2>2, GetFieldKeeps
  <2>3. CASE \E o \in stack : G!Pop(o) BY <2>3, PopKeeps
  <2>4. CASE \E t \in G!Held \cap Tables, k \in (stack \cap Keys) \cup {NoObject}, v \in stack \cup {NoObject} :
                G!SetTable(t, k, v)
    BY <2>4, SetTableKeeps
  <2>5. CASE \E o \in stack \cap (Closures \cup Userdata), v \in stack : G!SetValue(o, v)
    BY <2>5, SetValueKeeps
  <2>6. CASE \E t \in G!Held \cap Tables, m \in Modes : G!SetMode(t, m) BY <2>6, SetModeKeeps
  <2>7. CASE \E o \in stack \cap Userdata : G!luaC_checkfinalizer(o) BY <2>7, luaC_checkfinalizerKeeps
  <2> QED BY <1>3, <2>1, <2>2, <2>3, <2>4, <2>5, <2>6, <2>7 DEF G!Mutate, Objects
<1>4. CASE \E b \in BOOLEAN : G!FullGC(b) BY <1>4, FullGCKeeps
<1> QED BY <1>1, <1>2, <1>3, <1>4 DEF G!Next

\* What the run checks follows from the invariant: what is live is the witness.
LEMMA HeapSafe == ASSUME GcInv PROVE G!NoDangling /\ G!ColorsSound
PROOF
<1>1. /\ ObjectsOK(color, entry, mode) /\ ListsOK(lists, color)
      /\ ClosedOK(color, entry, stack, lists) /\ SweepOK(gcstate, sweepgc, lists, color)
  BY DEF GcInv
<1>2. G!NoDangling
  <2>1. LiveIn(color) \in SUBSET G!Allocated(color) BY DEF LiveIn, G!Allocated, Objects
  <2>2. G!Held \subseteq LiveIn(color) BY HeldLive
  <2>3. G!Listed("tobefnz") \subseteq LiveIn(color)
    BY <1>1 DEF ClosedOK, G!Listed, G!ToSet, In, Elements
  <2>4. \A o \in LiveIn(color) : G!Refs(entry, o) \subseteq LiveIn(color) BY <1>1 DEF ClosedOK
  <2> QED BY <2>1, <2>2, <2>3, <2>4 DEF G!NoDangling
<1>3. G!TriColor
  <2> SUFFICES ASSUME G!keepinvariant PROVE
        /\ \A o \in G!Objects : color[o] = "black" => G!Refs(entry, o) \cap G!White(color) = {}
        /\ \A o \in G!Objects : color[o] = "gray" => o \in gray \cup grayagain \cup allweak
    BY DEF G!TriColor
  <2>1. MarkOK(color, entry, lists, gray, grayagain, allweak) BY DEF GcInv, G!keepinvariant
  <2> QED BY <2>1 DEF MarkOK, G!White, Objects
<1>4. G!AllWhite
  <2>1. ASSUME gcstate \in {"callfin", "pause"} PROVE G!Allocated(color) = G!White(color)
    <3>1. \A o \in Objects : color[o] \in {"free", "white"} BY <1>1, <2>1 DEF SweepOK
    <3> QED BY <3>1 DEF G!Allocated, G!White, Objects
  <2> QED BY <2>1 DEF G!AllWhite
<1> QED BY <1>2, <1>3, <1>4 DEF G!ColorsSound

\* What the program reaches when the cycle closes was marked before any object with
\* a finalizer came back.
LEMMA ReachedIsMarked ==
  ASSUME GcInv, gcstate = "atomic"
  PROVE  G!Reachable \subseteq Before
PROOF
<1>1. /\ Before \subseteq After /\ After \subseteq LiveIn(color) /\ G!Held \subseteq Before
      /\ \A o \in Before \cap Visits : G!Marks(o, Before) \subseteq Before
      /\ \A o \in After \ Visits : G!Refs(entry, o) \subseteq Before
  BY MarkedCloses
<1>2. Before \in SUBSET Objects BY <1>1 DEF LiveIn
<1>3. \A o \in Before \cap Objects : G!Marks(o, Before) \subseteq Before
  <2>1. \A o \in Before : G!Marks(o, Before) \subseteq G!Refs(entry, o) BY MarksBounds
  <2> QED BY <1>1, <2>1
<1>4. G!Held \in SUBSET Objects BY <1>1, <1>2
<1>5. ObjectsOK(color, entry, mode) BY DEF GcInv
<1>6. \A C \in SUBSET Objects :
         G!Held \subseteq C /\ (\A x \in C \cap Objects : G!Marks(x, C) \subseteq C)
            => G!Spread(G!Held, Objects) \subseteq C
  BY <1>4, <1>5, SpreadIsLeast
<1>7. G!Reachable = G!Spread(G!Held, Objects) BY DEF G!Reachable, Objects
<1> QED BY <1>1, <1>2, <1>3, <1>6, <1>7

\* Marking frees nothing, and a sweep only what is dead.
LEMMA FreesDead ==
  ASSUME NEW o \in Objects
  PROVE  /\ \A Seeds : G!Paint(Seeds)[o] = "free" => color[o] = "free"
         /\ \A col, ls, ptr, n : G!sweeplist(col, ls, ptr, n).color[o] = "free" => col[o] \in {"free", "dead"}
PROOF
<1>1. ASSUME NEW Seeds, G!Paint(Seeds)[o] = "free" PROVE color[o] = "free"
  BY <1>1 DEF G!Paint, Objects
<1>2. ASSUME NEW col, NEW ls, NEW ptr, NEW n, G!sweeplist(col, ls, ptr, n).color[o] = "free"
      PROVE  col[o] \in {"free", "dead"}
  BY <1>2 DEF G!sweeplist, Objects
<1> QED BY <1>1, <1>2

\* What a step frees is in the list of all objects: it has no finalizer to wait for.
LEMMA FreesUnfinalized ==
  ASSUME GcInv, G!Next, NEW o \in Objects, color[o] # "free", color'[o] = "free"
  PROVE  o \in G!Listed("allgc")
PROOF
<1>1. /\ ListsOK(lists, color) /\ ClosedOK(color, entry, stack, lists)
      /\ color \in [Objects -> {"free", "white", "dead", "gray", "black"}]
  BY DEF GcInv, ObjectsOK
<1>2. \A x : x \in G!Listed("allgc") <=> x \in In(lists, "allgc")
  BY DEF G!Listed, G!ToSet, In, Elements
<1>3. ASSUME color[o] = "dead" PROVE o \in G!Listed("allgc")
  <2>1. o \notin LiveIn(color) BY <1>3 DEF LiveIn
  <2>2. o \notin In(lists, "finobj") /\ o \notin In(lists, "tobefnz") BY <1>1, <2>1 DEF ClosedOK
  <2>3. \E l \in Lists : o \in In(lists, l) BY <1>1, <1>3 DEF ListsOK
  <2> QED BY <1>2, <2>2, <2>3, NoNames
<1>4. CASE G!Restart BY <1>4, FreesDead DEF G!Restart
<1>5. CASE G!Propagate
  <2>1. PICK z \in gray :
          LET weak  == z # Main /\ mode[z] # {}
              found == IF z = Main THEN stack
                       ELSE IF mode[z] = {"k", "v"} THEN {} ELSE G!Marks(z, G!Marked(color))
          IN  color' = [x \in Objects |-> IF x = z /\ ~weak THEN "black" ELSE G!Paint(found)[x]]
    BY <1>5 DEF G!Propagate, Objects
  <2> DEFINE found == IF z = Main THEN stack
                      ELSE IF mode[z] = {"k", "v"} THEN {} ELSE G!Marks(z, G!Marked(color))
  <2>2. G!Paint(found)[o] = "free" BY <2>1
  <2> HIDE DEF found
  <2> QED BY <2>2, FreesDead
<1>6. CASE G!Atomic
  <2>1. gcstate = "atomic" /\ color' = Entered.color BY <1>6, AtomicIs
  <2>2. \A x \in Objects : Entered.color[x] = "free" => color[x] = "free" \/ x \in In(lists, "allgc")
    BY <2>1, EnteredIs
  <2> QED BY <1>2, <2>1, <2>2
<1>7. CASE G!Sweep
  <2>1. \/ color' = color \/ color' = G!sweeplist(color, lists, sweepgc, GCSWEEPMAX).color
    BY <1>7 DEF G!Sweep
  <2> QED BY <1>3, <2>1, FreesDead
<1>8. CASE \E b \in BOOLEAN : G!FullGC(b)
  <2>1. \/ color' = color \/ color' = G!sweeplist(color, lists, "allgc", 1).color
    BY <1>8 DEF G!FullGC, G!Swept
  <2> QED BY <1>3, <2>1, FreesDead
<1>9. CASE G!EndSweep \/ G!EndCycle BY <1>9 DEF G!EndSweep, G!EndCycle, G!heap
<1>10. CASE \E z \in stack : G!luaC_checkfinalizer(z)
  <2>1. PICK z, col, ls, ptr, n :
           /\ col = color \/ col = [color EXCEPT ![z] = "white"]
           /\ color' = col \/ color' = G!sweeplist(col, ls, ptr, n).color
    <3>1. PICK z \in stack : G!luaC_checkfinalizer(z) BY <1>10
    <3> DEFINE col == IF G!issweepphase THEN [color EXCEPT ![z] = "white"] ELSE color
               s == lists["allgc"]
               rest == SubSeq(s, G!Position(lists, z) + 1, Len(s))
               dying == {k \in DOMAIN rest : \A i \in 1..k : col[rest[i]] = "dead"}
               n == G!Cardinality(dying) + 1
    <3>2. color' = (IF G!issweepphase /\ sweepgc = z THEN G!sweeplist(col, lists, z, n)
                    ELSE [color |-> col, lists |-> lists, sweepgc |-> sweepgc]).color
      BY <3>1 DEF G!luaC_checkfinalizer
    <3>3. col = color \/ col = [color EXCEPT ![z] = "white"] OBVIOUS
    <3> HIDE DEF col, n
    <3>4. color' = col \/ color' = G!sweeplist(col, lists, z, n).color BY <3>2
    <3> QED BY <3>3, <3>4
  <2>2. col[o] \in {"free", "dead"} BY <2>1, FreesDead
  <2>3. col[o] = color[o] \/ col[o] = "white" BY <1>1, <2>1
  <2> QED BY <1>3, <2>2, <2>3
<1>11. CASE \E z \in stack, v \in stack : G!SetValue(z, v)
  <2>1. PICK z, v : G!barrier(z, v) BY <1>11 DEF G!SetValue
  <2>2. \/ color' = color \/ color' = G!Paint({v}) \/ color' = [color EXCEPT ![z] = "white"]
    BY <2>1 DEF G!barrier
  <2> QED BY <1>1, <2>2, FreesDead
<1>12. CASE \E t \in Tables, k \in (stack \cap Keys) \cup {NoObject}, v \in stack \cup {NoObject} : G!SetTable(t, k, v)
  <2>1. PICK t, k, v : G!SetTable(t, k, v) BY <1>12
  <2>2. color' = color \/ color' = [color EXCEPT ![t] = "gray"]
    BY <2>1 DEF G!SetTable, G!barrierback
  <2> QED BY <1>1, <2>2
<1>13. CASE \E z : G!luaC_newobj(z) \/ G!FindString(z)
  <2>1. PICK z : G!luaC_newobj(z) \/ G!FindString(z) BY <1>13
  <2>2. color' = color \/ color' = [color EXCEPT ![z] = "white"] BY <2>1 DEF G!luaC_newobj, G!FindString
  <2> QED BY <1>1, <2>2
<1>14. CASE G!CallFinalizer
  <2>1. \E z : color' = color \/ color' = [color EXCEPT ![z] = "white"] BY <1>14 DEF G!CallFinalizer
  <2> QED BY <1>1, <2>1
<1>15. CASE \E z : G!GetField(z) \/ G!Pop(z) \/ \E m : G!SetMode(z, m)
  <2>1. color' = color BY <1>15 DEF G!GetField, G!Pop, G!SetMode, G!heap
  <2> QED BY <2>1
<1>16. G!singlestep => G!Restart \/ G!Propagate \/ G!Atomic \/ G!Sweep \/ G!EndSweep \/ G!EndCycle
  BY DEF G!singlestep
<1>17. G!Mutate =>
         \/ \E z \in stack : G!luaC_checkfinalizer(z)
         \/ \E z \in stack, v \in stack : G!SetValue(z, v)
         \/ \E t \in Tables, k \in (stack \cap Keys) \cup {NoObject}, v \in stack \cup {NoObject} : G!SetTable(t, k, v)
         \/ \E z : G!luaC_newobj(z) \/ G!FindString(z)
         \/ \E z : G!GetField(z) \/ G!Pop(z) \/ \E m : G!SetMode(z, m)
  BY DEF G!Mutate
<1> QED
  BY <1>4, <1>5, <1>6, <1>7, <1>8, <1>9, <1>10, <1>11, <1>12, <1>13, <1>14, <1>15, <1>16, <1>17 DEF G!Next

LEMMA FinalizersSafe ==
  ASSUME GcInv, G!Next
  PROVE  G!FinalizerStep
PROOF
<1>1. ASSUME NEW o \in Objects, color[o] # "free", color'[o] = "free" PROVE o \in G!Listed("allgc")
  BY <1>1, FreesUnfinalized
<1>2. ASSUME NEW o \in Objects, G!Atomic, o \in G!ToSet(lists'["tobefnz"]), o \notin G!Listed("tobefnz")
      PROVE  o \notin G!Reachable
  <2>1. gcstate = "atomic" /\ lists' = Entered.lists BY <1>2, AtomicIs
  <2>2. o \in In(Entered.lists, "tobefnz") /\ o \notin In(lists, "tobefnz")
    BY <1>2, <2>1 DEF G!Listed, G!ToSet, In, Elements
  <2>3. \A k \in Lists : In(Entered.lists, k) \subseteq In(Taken, k) BY <2>1, EnteredIs
  <2>4. In(Taken, "tobefnz") = In(lists, "tobefnz") \cup Elements(Lost) BY <2>1, AtomicCloses
  <2>5. Elements(Lost) = In(lists, "finobj") \ Before BY <2>1, MarkedCloses
  <2>6. o \notin Before BY <2>2, <2>3, <2>4, <2>5, NoNames
  <2> QED BY <2>1, <2>6, ReachedIsMarked
<1> QED BY <1>1, <1>2 DEF G!FinalizerStep, Objects

LEMMA WeakSafe ==
  ASSUME GcInv, G!Atomic
  PROVE  G!WeakStep
PROOF
<1>1. gcstate = "atomic" /\ entry' = G!Scrub(Uncleared, Entered.color) BY AtomicIs
<1>2. /\ Before \subseteq After /\ After \subseteq LiveIn(color) /\ G!Reachable \subseteq Before
      /\ LiveIn(Entered.color) = After
  BY <1>1, MarkedCloses, ReachedIsMarked, EnteredIs
<1>3. \A t \in Objects, i \in Slots : entry[t][i] # G!Empty => entry[t][i][2] \in Objects
  BY DEF GcInv, ObjectsOK
<1> SUFFICES ASSUME NEW t \in G!Reachable, NEW i \in Slots, entry[t][i] # G!Empty,
                    {entry[t][i][1], entry[t][i][2]} \ {NoObject} \subseteq G!Reachable
             PROVE  entry'[t][i] = entry[t][i]
  BY DEF G!WeakStep
<1> DEFINE p == entry[t][i]
<1>4. t \in Objects /\ t \in Before /\ t \in After BY <1>2 DEF LiveIn
<1>5. entry'[t] = Uncleared[t]
  <2>1. Entered.color[t] # "free" BY <1>2, <1>4 DEF LiveIn
  <2>2. t \in G!Objects BY <1>4 DEF Objects
  <2> QED BY <1>1, <2>1, <2>2 DEF G!Scrub
<1>6. Uncleared[t][i] = IF t \in Visits \cap After /\ G!Cleared(t, entry[t][i], Before, After)
                        THEN G!Empty ELSE entry[t][i]
  BY <1>4 DEF Uncleared
<1>7. p[1] # NoObject => p[1] \in Before
  BY <1>2
<1>8. p[2] \in Before
  <2>1. p[2] \in Objects BY <1>3, <1>4
  <2>2. p[2] # NoObject BY <2>1, NoNames
  <2> QED BY <1>2, <2>2
<1>9. ~G!Cleared(t, p, Before, After) BY <1>2, <1>4, <1>7, <1>8 DEF G!Cleared, G!Stays
<1> QED BY <1>5, <1>6, <1>9

\* The program never meets a freed object, and between two steps of the collector
\* the colours keep the invariants of lgc.h: for every set of objects, of entries
\* and of weak modes, when all that wait for finalizers fit one step of the sweep.
THEOREM HeapStaysSound == FewFinalizers => (Spec => []HeapSound)
PROOF
<1> SUFFICES ASSUME FewFinalizers PROVE Spec => []HeapSound OBVIOUS
<1> DEFINE I == part = "gc" => GcInv
<1>1. Init => I BY HeapInit DEF Init
<1>2. I /\ [Next]_vars => I'
  <2> SUFFICES ASSUME part = "gc" => GcInv, [Next]_vars, part' = "gc" PROVE GcInv' OBVIOUS
  <2>1. CASE Next
    <3>1. part = "gc" /\ G!Next BY <2>1 DEF Next
    <3> QED BY <3>1, HeapStep
  <2>2. CASE UNCHANGED vars
    <3>1. /\ part' = part
          /\ UNCHANGED <<color, entry, mode, stack, lists, gray, grayagain, allweak, gcstate, sweepgc>>
      BY <2>2 DEF vars, gcVars
    <3> QED BY <3>1 DEF GcInv
  <2> QED BY <2>1, <2>2
<1>3. I => HeapSound BY HeapSafe DEF HeapSound
<1> QED BY <1>1, <1>2, <1>3, PTL DEF Spec

\* Nothing with a finalizer is freed before it ran, none runs for an object in use,
\* and a weak entry goes only with one of its sides, for the same objects.
THEOREM FinalizersStaySound == FewFinalizers => (Spec => FinalizersSound)
PROOF
<1> SUFFICES ASSUME FewFinalizers PROVE Spec => FinalizersSound OBVIOUS
<1> DEFINE I == part = "gc" => GcInv
           A == part = "gc" => G!FinalizerStep /\ G!WeakStep
<1>1. Init => I BY HeapInit DEF Init
<1>2. I /\ [Next]_vars => I' /\ [A]_vars
  <2> SUFFICES ASSUME I, [Next]_vars PROVE I' /\ [A]_vars OBVIOUS
  <2>1. CASE Next
    <3> SUFFICES ASSUME part = "gc" PROVE GcInv' /\ G!FinalizerStep /\ G!WeakStep BY <2>1 DEF Next
    <3>1. GcInv /\ G!Next BY <2>1 DEF Next
    <3>2. ~G!Atomic => G!WeakStep BY DEF G!WeakStep
    <3> QED BY <3>1, <3>2, HeapStep, FinalizersSafe, WeakSafe
  <2>2. CASE UNCHANGED vars
    <3>1. /\ part' = part
          /\ UNCHANGED <<color, entry, mode, stack, lists, gray, grayagain, allweak, gcstate, sweepgc>>
      BY <2>2 DEF vars, gcVars
    <3> QED BY <2>2, <3>1 DEF GcInv
  <2> QED BY <2>1, <2>2
<1> QED BY <1>1, <1>2, PTL DEF Spec, FinalizersSound
=============================================================================

------------------------- MODULE LuaCoroutinesProofs --------------------------
(***************************************************************************)
(* A theorem about coroutines with protected calls (LuaCoroutines): the    *)
(* counters are exact, every frame has what it waits for, coroutine.status *)
(* is true, and errors are caught by the innermost pcall of their thread,  *)
(* for any number of coroutines, frames and calls.                         *)
(***************************************************************************)
EXTENDS LuaRuntime, FiniteSetTheorems, SequenceTheorems, WellFoundedInduction, TLAPS

-----------------------------------------------------------------------------
\* The inductive invariant of the coroutines.  The calls of a thread are one stretch
\* of the stack of C, c, that a protected call or the call that resumed it begins;
\* what every call saved is what its thread had counted before it.
AllThreads == {Main} \cup Coroutines
CoFrames == [kind : {"lua", "pcall", "sort", "resume", "wrap", "yield"}, ypcall : BOOLEAN]
Acts == [t : AllThreads, k : {"pcall", "call", "callnoyield", "resume"}, ci : Nat,
         from : AllThreads, nny : Int, nCcalls : Int]
Locking == {"pcall", "callnoyield"}

\* The calls of thread t among the first n on the stack of C that forbid yields.
Locked(c, t, n) ==
  Cardinality({j \in 1..n : c[j].t = t /\ c[j].k \in Locking}) + (IF t = Main THEN 1 ELSE 0)

ActOK(c, i) ==
  /\ i = 1 => c[i].t = Main /\ c[i].k = "pcall" /\ c[i].ci = 0
  /\ c[i].k # "resume" =>
       /\ i > 1 => c[i].t = c[i - 1].t /\ c[i].ci > 0
       /\ c[i].nCcalls = i - 1 /\ c[i].nny = Locked(c, c[i].t, i - 1)
  /\ c[i].k = "resume" =>
       /\ i > 1 /\ i < LUAI_MAXCCALLS /\ c[i].t \in Coroutines /\ c[i].ci = 0
       /\ c[i].from = c[i - 1].t /\ c[i].nCcalls = i
       /\ \A j \in 1..(i - 1) : c[j].t # c[i].t
  /\ \E j \in 1..i : c[j].t = c[i].t /\ c[j].k \in {"pcall", "resume"}

\* Calls of a thread that are further in belong to frames that are further in.
ActsOK(c) ==
  /\ c \in Seq(Acts) /\ Len(c) <= LUAI_MAXCCALLS
  /\ \A i \in 1..Len(c) : ActOK(c, i)
  /\ \A i, j \in 1..Len(c) : i < j /\ c[i].t = c[j].t =>
       /\ c[i].ci < c[j].ci
       /\ \A k \in i..j : c[k].t = c[i].t

\* A thread that runs or waits has counted its calls.
CountersOK(c, nn, nc) ==
  /\ Len(c) = 0 => nn[Main] = 1 /\ nc[Main] = 0
  /\ \A i \in 1..Len(c) : i = Len(c) \/ c[i + 1].t # c[i].t =>
       nc[c[i].t] = i /\ nn[c[i].t] = Locked(c, c[i].t, i)

\* The frames f of thread t: a C function without a continuation has its call on the
\* stack of C, a pcall has one or the flag, and those with the flag were called
\* outside of all calls that forbid yields.  Above each call is a Lua function.
ThreadOK(c, t, f) ==
  /\ f \in Seq(CoFrames)
  /\ Len(f) > 0 => f[1].kind = "lua"
  /\ \A d \in 1..Len(f) :
       /\ f[d].kind = "sort" => \E j \in 1..Len(c) : c[j].t = t /\ c[j].k = "callnoyield" /\ c[j].ci = d
       /\ f[d].kind = "pcall" =>
            f[d].ypcall \/ \E j \in 1..Len(c) : c[j].t = t /\ c[j].k = "pcall" /\ c[j].ci = d
       /\ f[d].ypcall => f[d].kind = "pcall"
       /\ f[d].ypcall => \A j \in 1..Len(c) : c[j].t = t /\ c[j].k \in Locking => d < c[j].ci
  /\ \A j \in 1..Len(c) : c[j].t = t =>
       /\ c[j].ci <= Len(f)
       /\ c[j].ci < Len(f) => f[c[j].ci + 1].kind = "lua"
       /\ c[j].k = "pcall" /\ c[j].ci > 0 => f[c[j].ci].kind = "pcall"

\* The status of a thread that runs or waits, of one that ended, and of one that was
\* not started or yielded.
InCo(c, t) == \E j \in 1..Len(c) : c[j].t = t
StatusOK(c, t, f, s, v, e, r) ==
  IF InCo(c, t) THEN t \notin e /\ s = (IF r = "YIELD" /\ t = c[Len(c)].t THEN "YIELD" ELSE "OK")
  ELSE IF t \in e THEN s = "ERRRUN" \/ (s = "OK" /\ f = <<>> /\ ~v)
  ELSE (s = "YIELD" /\ Len(f) >= 2) \/ (s = "OK" /\ f = <<>>)

\* What is thrown, and the frames that wait while nothing is.
RaisingOK(c, f, nn, r) ==
  /\ r \in {"no", "ERRRUN", "YIELD"}
  /\ r = "no" => Len(c) < LUAI_MAXCCALLS
  /\ r # "no" => Len(c) > 0
  /\ r = "YIELD" => nn[c[Len(c)].t] = 0 /\ Len(f[c[Len(c)].t]) >= 2
  /\ \A j \in 1..Len(c) :
       /\ c[j].ci < Len(f[c[j].t]) \/ (j = Len(c) /\ r = "ERRRUN")
       /\ c[j].k = "resume" =>
            f[c[j - 1].t][Len(f[c[j - 1].t])].kind \in {"resume", "wrap"}

CoInv ==
  /\ ci \in [AllThreads -> Seq(CoFrames)] /\ status \in [AllThreads -> {"OK", "YIELD", "ERRRUN"}]
  /\ nny \in [AllThreads -> Int] /\ nCcalls \in [AllThreads -> Int]
  /\ values \in [AllThreads -> BOOLEAN] /\ ended \subseteq Coroutines
  /\ ActsOK(cstack) /\ CountersOK(cstack, nny, nCcalls)
  /\ \A t \in AllThreads \ ended : ThreadOK(cstack, t, ci[t])
  /\ \A t \in AllThreads : StatusOK(cstack, t, ci[t], status[t], values[t], ended, raising)
  /\ status[Main] = "OK" /\ RaisingOK(cstack, ci, nny, raising)

-----------------------------------------------------------------------------
\* A nonempty set of numbers below a bound has a largest one: the least bound.
LEMMA LargestExists ==
  ASSUME NEW s \in SUBSET Nat, s # {}, NEW b \in Nat, \A x \in s : x <= b
  PROVE  \E m \in s : \A k \in s : k <= m
PROOF
<1> DEFINE bounds == {u \in Nat : \A x \in s : x <= u}
<1>1. b \in bounds OBVIOUS
<1>2. PICK u \in bounds : \A y \in bounds : ~(<<y, u>> \in OpToRel(<, Nat))
  <2>1. bounds \subseteq Nat /\ bounds # {} BY <1>1
  <2> QED BY <2>1, WFMin, NatLessThanWellFounded, Zenon
<1>3. u \in bounds /\ \A y \in bounds : ~(y < u)
  <2>1. bounds \subseteq Nat OBVIOUS
  <2> HIDE DEF bounds
  <2> QED BY <1>2, <2>1, Zenon DEF OpToRel
<1>4. u \in s
  <2>1. SUFFICES ASSUME u \notin s PROVE FALSE OBVIOUS
  <2>2. PICK x \in s : TRUE OBVIOUS
  <2>3. u # 0 BY <2>1, <2>2
  <2>4. u - 1 \in bounds BY <2>1, <2>3
  <2> QED BY <1>3, <2>4
<1> QED BY <1>4

\* The assumption on the threads and on the limit of calls.
LEMMA CoConstants == Main \notin Coroutines /\ LUAI_MAXCCALLS \in Nat /\ LUAI_MAXCCALLS > 0
BY CoroutinesFit DEF K!LuaCoroutinesAssumption

\* A sequence up to a place.
LEMMA PrefixFacts ==
  ASSUME NEW S0, NEW s \in Seq(S0), NEW m \in 0..Len(s)
  PROVE  /\ SubSeq(s, 1, m) \in Seq(S0) /\ Len(SubSeq(s, 1, m)) = m
         /\ \A k \in 1..m : SubSeq(s, 1, m)[k] = s[k] /\ k \in 1..Len(s)
PROOF
<1>1. m \in Nat /\ m <= Len(s) /\ \A k \in 1..m : k \in 1..Len(s) OBVIOUS
<1>2. SubSeq(s, 1, m) \in Seq(S0) /\ Len(SubSeq(s, 1, m)) = m BY <1>1
<1>3. \A k \in 1..m : SubSeq(s, 1, m)[k] = s[k] BY <1>1
<1> QED BY <1>1, <1>2, <1>3

\* A sequence with one more element.
LEMMA AppendFacts ==
  ASSUME NEW S0, NEW s \in Seq(S0), NEW x \in S0
  PROVE  /\ Append(s, x) \in Seq(S0) /\ Len(Append(s, x)) = Len(s) + 1
         /\ Append(s, x)[Len(s) + 1] = x
         /\ \A k \in 1..Len(s) : Append(s, x)[k] = s[k] /\ k \in 1..(Len(s) + 1)
OBVIOUS

\* Max of the instance, where there is one.
LEMMA MaxFacts ==
  ASSUME NEW n \in Nat, NEW s \in SUBSET (1..n), s # {}
  PROVE  K!Max(s) \in s /\ \A k \in s : k <= K!Max(s)
PROOF
<1>1. s \in SUBSET Nat /\ \A x \in s : x <= n OBVIOUS
<1>2. PICK m \in s : \A k \in s : k <= m BY <1>1, LargestExists
<1>3. \E x \in s : \A y \in s : x >= y BY <1>1, <1>2
<1>4. K!Max(s) \in s /\ \A y \in s : K!Max(s) >= y BY <1>3 DEF K!Max
<1> QED BY <1>1, <1>4

\* A number of the set that none exceeds is its Max.
LEMMA MaxIs ==
  ASSUME NEW n \in Nat, NEW s \in SUBSET (1..n), NEW m \in s, \A k \in s : k <= m
  PROVE  K!Max(s) = m
PROOF
<1>1. K!Max(s) \in s /\ \A k \in s : k <= K!Max(s) BY MaxFacts
<1> DEFINE x == K!Max(s)
<1>2. x \in 1..n /\ m \in 1..n /\ x <= m /\ m <= x BY <1>1
<1> HIDE DEF x
<1>3. x = m BY <1>2
<1> QED BY <1>3 DEF x

-----------------------------------------------------------------------------
\* The calls that forbid yields, counted up to one place more.
LEMMA LockedNext ==
  ASSUME NEW c, NEW t, NEW n \in Nat
  PROVE  /\ Locked(c, t, n) \in Nat
         /\ c[n + 1].t = t /\ c[n + 1].k \in Locking => Locked(c, t, n + 1) = Locked(c, t, n) + 1
         /\ c[n + 1].t # t \/ c[n + 1].k \notin Locking => Locked(c, t, n + 1) = Locked(c, t, n)
PROOF
<1> DEFINE P(j) == c[j].t = t /\ c[j].k \in Locking
           s == {j \in 1..n : P(j)}
           s2 == {j \in 1..(n + 1) : P(j)}
           one == IF t = Main THEN 1 ELSE 0
<1>1. IsFiniteSet(s)
  <2>1. s \in SUBSET (1..n) /\ IsFiniteSet(1..n) BY FS_Interval
  <2> QED BY <2>1, FS_Subset
<1>2. Cardinality(s) \in Nat BY <1>1, FS_CardinalityType
<1>3. s2 = IF P(n + 1) THEN s \cup {n + 1} ELSE s
  <2>1. 1..(n + 1) = (1..n) \cup {n + 1} OBVIOUS
  <2> QED BY <2>1
<1>4. n + 1 \notin s OBVIOUS
<1>5. Locked(c, t, n) = Cardinality(s) + one /\ Locked(c, t, n + 1) = Cardinality(s2) + one
  BY DEF Locked
<1>6. one \in Nat OBVIOUS
<1>7. P(n + 1) => s2 = s \cup {n + 1} BY <1>3
<1>8. ~P(n + 1) => s2 = s BY <1>3
<1> HIDE DEF s, s2, one
<1>9. Cardinality(s \cup {n + 1}) = Cardinality(s) + 1 BY <1>1, <1>4, FS_AddElement
<1> QED BY <1>2, <1>5, <1>6, <1>7, <1>8, <1>9

\* The count looks at the calls below its place alone.
LEMMA LockedSame ==
  ASSUME NEW c, NEW c2, NEW t, NEW n \in Nat, \A i \in 1..n : c2[i] = c[i]
  PROVE  Locked(c2, t, n) = Locked(c, t, n)
PROOF
<1>1. {j \in 1..n : c2[j].t = t /\ c2[j].k \in Locking}
        = {j \in 1..n : c[j].t = t /\ c[j].k \in Locking}
  OBVIOUS
<1> QED BY <1>1 DEF Locked

\* A coroutine without calls that forbid yields.
LEMMA LockedNone ==
  ASSUME NEW c, NEW t, NEW n \in Nat, t # Main,
         \A j \in 1..n : c[j].t = t => c[j].k \notin Locking
  PROVE  Locked(c, t, n) = 0
PROOF
<1>1. {j \in 1..n : c[j].t = t /\ c[j].k \in Locking} = {} OBVIOUS
<1>2. Cardinality({}) = 0 BY FS_EmptySet
<1> QED BY <1>1, <1>2 DEF Locked

\* The main thread cannot yield.
LEMMA LockedStart == ASSUME NEW c PROVE Locked(c, Main, 0) = 1
PROOF
<1>1. {j \in 1..0 : c[j].t = Main /\ c[j].k \in Locking} = {} OBVIOUS
<1>2. Cardinality({}) = 0 BY FS_EmptySet
<1> QED BY <1>1, <1>2 DEF Locked

\* Where the count is zero no call forbids a yield.
LEMMA LockedZero ==
  ASSUME NEW c, NEW t, NEW n \in Nat, Locked(c, t, n) = 0
  PROVE  t # Main /\ \A j \in 1..n : c[j].t = t => c[j].k \notin Locking
PROOF
<1> DEFINE s == {j \in 1..n : c[j].t = t /\ c[j].k \in Locking}
           one == IF t = Main THEN 1 ELSE 0
<1>1. IsFiniteSet(s)
  <2>1. s \in SUBSET (1..n) /\ IsFiniteSet(1..n) BY FS_Interval
  <2> QED BY <2>1, FS_Subset
<1>2. Cardinality(s) \in Nat /\ Cardinality(s) + one = 0 /\ one \in Nat
  BY <1>1, FS_CardinalityType DEF Locked
<1>3. Cardinality(s) = 0 /\ one = 0
  <2> HIDE DEF s, one
  <2> QED BY <1>2
<1>4. s = {} BY <1>1, <1>3, FS_EmptySet
<1> QED BY <1>3, <1>4

-----------------------------------------------------------------------------
\* The stack of C cut off at a place, and with a call or a resume more.
LEMMA ActKept ==
  ASSUME NEW c, NEW c2, NEW i \in Nat \ {0}, \A k \in 1..i : c2[k] = c[k], ActOK(c, i)
  PROVE  ActOK(c2, i)
PROOF
<1>1. c2[i] = c[i] /\ (i > 1 => c2[i - 1] = c[i - 1]) OBVIOUS
<1>2. i - 1 \in Nat /\ \A k \in 1..(i - 1) : c2[k] = c[k] OBVIOUS
<1>3. \A t : Locked(c2, t, i - 1) = Locked(c, t, i - 1)
  <2> DEFINE n == i - 1
  <2> SUFFICES ASSUME NEW t PROVE Locked(c2, t, n) = Locked(c, t, n) OBVIOUS
  <2> HIDE DEF n
  <2> QED BY <1>2, LockedSame DEF n
<1>4. \E j \in 1..i : c2[j].t = c2[i].t /\ c2[j].k \in {"pcall", "resume"}
  <2>1. PICK j \in 1..i : c[j].t = c[i].t /\ c[j].k \in {"pcall", "resume"} BY DEF ActOK
  <2> QED BY <1>1, <2>1
<1>5. c2[i].k = "resume" => \A j \in 1..(i - 1) : c2[j].t # c2[i].t BY <1>1, <1>2 DEF ActOK
<1> QED BY <1>1, <1>3, <1>4, <1>5 DEF ActOK

\* The stack of C without its last calls.
LEMMA ActsPrefix ==
  ASSUME NEW c, ActsOK(c), NEW m \in 0..Len(c)
  PROVE  ActsOK(SubSeq(c, 1, m))
PROOF
<1> DEFINE c2 == SubSeq(c, 1, m)
<1>1. c \in Seq(Acts) /\ Len(c) <= LUAI_MAXCCALLS BY DEF ActsOK
<1>2. c2 \in Seq(Acts) /\ Len(c2) = m /\ \A k \in 1..m : c2[k] = c[k] /\ k \in 1..Len(c)
  BY <1>1, PrefixFacts
<1>3. m <= LUAI_MAXCCALLS BY <1>1, CoConstants
<1> HIDE DEF c2
<1>4. ASSUME NEW i \in 1..m PROVE ActOK(c2, i)
  <2>1. ActOK(c, i) /\ \A k \in 1..i : c2[k] = c[k] BY <1>2 DEF ActsOK
  <2> QED BY <2>1, ActKept
<1>5. ASSUME NEW i \in 1..m, NEW j \in 1..m, i < j, c2[i].t = c2[j].t
      PROVE  c2[i].ci < c2[j].ci /\ \A k \in i..j : c2[k].t = c2[i].t
  <2>1. c[i].ci < c[j].ci /\ \A k \in i..j : c[k].t = c[i].t BY <1>2, <1>5 DEF ActsOK
  <2>2. \A k \in i..j : k \in 1..m OBVIOUS
  <2> QED BY <1>2, <2>1, <2>2
<1> QED BY <1>2, <1>3, <1>4, <1>5 DEF ActsOK, c2

\* One more element after a stack that is in order.
LEMMA ActsAppend ==
  ASSUME NEW c, ActsOK(c), NEW a \in Acts, Len(c) < LUAI_MAXCCALLS,
         ActOK(Append(c, a), Len(c) + 1),
         \A j \in 1..Len(c) : c[j].t = a.t =>
           c[j].ci < a.ci /\ \A k \in j..Len(c) : c[k].t = c[j].t
  PROVE  ActsOK(Append(c, a))
PROOF
<1> DEFINE c2 == Append(c, a)
           n == Len(c)
<1>1. c \in Seq(Acts) /\ n \in Nat BY DEF ActsOK
<1>2. c2 \in Seq(Acts) /\ Len(c2) = n + 1 /\ c2[n + 1] = a /\ \A k \in 1..n : c2[k] = c[k]
  BY <1>1, AppendFacts
<1>3. n + 1 <= LUAI_MAXCCALLS BY <1>1, CoConstants
<1>4. /\ ActOK(c2, n + 1) /\ \A i \in 1..n : ActOK(c, i)
      /\ \A i, j \in 1..n : i < j /\ c[i].t = c[j].t =>
           c[i].ci < c[j].ci /\ \A k \in i..j : c[k].t = c[i].t
      /\ \A j \in 1..n : c[j].t = a.t => c[j].ci < a.ci /\ \A k \in j..n : c[k].t = c[j].t
  BY DEF ActsOK
<1> HIDE DEF c2, n
<1>5. ASSUME NEW i \in 1..(n + 1) PROVE ActOK(c2, i)
  <2>1. CASE i = n + 1 BY <1>4, <2>1
  <2>2. CASE i # n + 1
    <3>1. i \in 1..n BY <1>1, <2>2
    <3>2. ActOK(c, i) /\ i \in Nat \ {0} /\ \A k \in 1..i : c2[k] = c[k] BY <1>1, <1>2, <1>4, <3>1
    <3> QED BY <3>2, ActKept
  <2> QED BY <2>1, <2>2
<1>6. ASSUME NEW i \in 1..(n + 1), NEW j \in 1..(n + 1), i < j, c2[i].t = c2[j].t
      PROVE  c2[i].ci < c2[j].ci /\ \A k \in i..j : c2[k].t = c2[i].t
  <2>1. i \in 1..n /\ c2[i] = c[i] BY <1>1, <1>2, <1>6
  <2>2. CASE j = n + 1
    <3>1. c[i].t = a.t /\ c2[j] = a BY <1>2, <1>6, <2>1, <2>2
    <3>2. c[i].ci < a.ci /\ \A k \in i..n : c[k].t = c[i].t BY <1>4, <2>1, <3>1
    <3>3. ASSUME NEW k \in i..j PROVE c2[k].t = c2[i].t
      <4>1. k = n + 1 \/ (k \in i..n /\ k \in 1..n) BY <1>1, <2>1, <2>2
      <4> QED BY <1>2, <2>1, <3>1, <3>2, <4>1
    <3> QED BY <2>1, <3>1, <3>2, <3>3
  <2>3. CASE j # n + 1
    <3>1. j \in 1..n /\ c2[j] = c[j] /\ \A k \in i..j : k \in 1..n /\ c2[k] = c[k]
      BY <1>1, <1>2, <2>1, <2>3
    <3>2. c[i].t = c[j].t BY <1>6, <2>1, <3>1
    <3> QED BY <1>4, <1>6, <2>1, <3>1, <3>2
  <2> QED BY <2>2, <2>3
<1> QED BY <1>2, <1>3, <1>5, <1>6 DEF ActsOK, c2

\* What is known of the thread that runs, and where its calls are.
LEMMA RunningActs ==
  ASSUME NEW c, ActsOK(c), Len(c) > 0
  PROVE  /\ Len(c) \in Nat /\ c \in Seq(Acts) /\ c[Len(c)] \in Acts /\ c[Len(c)].t \in AllThreads
         /\ \A j \in 1..Len(c) : c[j] \in Acts /\ c[j].ci \in Nat /\ c[j].t \in AllThreads
         /\ \A j \in 1..Len(c) : c[j].t = c[Len(c)].t => \A k \in j..Len(c) : c[k].t = c[Len(c)].t
PROOF
<1> DEFINE n == Len(c)
<1>1. c \in Seq(Acts) /\ n \in Nat /\ n > 0 BY DEF ActsOK
<1>2. \A j \in 1..n : c[j] \in Acts BY <1>1
<1>3. \A j \in 1..n : c[j].ci \in Nat /\ c[j].t \in AllThreads BY <1>2 DEF Acts
<1>4. \A i, j \in 1..n : i < j /\ c[i].t = c[j].t => \A k \in i..j : c[k].t = c[i].t
  BY DEF ActsOK
<1> HIDE DEF n
<1>5. n \in 1..n BY <1>1
<1>6. ASSUME NEW j \in 1..n, c[j].t = c[n].t, NEW k \in j..n PROVE c[k].t = c[n].t
  <2>1. CASE j = n BY <1>6, <2>1
  <2>2. CASE j # n
    <3>1. j < n BY <1>1, <2>2
    <3> QED BY <1>4, <1>5, <1>6, <3>1
  <2> QED BY <2>1, <2>2
<1> QED BY <1>1, <1>2, <1>3, <1>5, <1>6 DEF n

\* The stack of C with a call of the running thread.
LEMMA ActsCall ==
  ASSUME NEW c, ActsOK(c), Len(c) > 0, Len(c) < LUAI_MAXCCALLS, NEW a \in Acts,
         a.t = c[Len(c)].t, a.k # "resume", a.ci > 0, a.nCcalls = Len(c),
         a.nny = Locked(c, a.t, Len(c)),
         \A j \in 1..Len(c) : c[j].t = a.t => c[j].ci < a.ci
  PROVE  ActsOK(Append(c, a))
PROOF
<1> DEFINE n == Len(c)
           c2 == Append(c, a)
<1>1. /\ n \in Nat /\ n > 0 /\ c \in Seq(Acts) /\ n \in 1..n
      /\ \A j \in 1..n : c[j].t = c[n].t => \A k \in j..n : c[k].t = c[n].t
  BY RunningActs
<1>2. /\ Len(c2) = n + 1 /\ c2[n + 1] = a /\ \A k \in 1..n : c2[k] = c[k] /\ k \in 1..(n + 1)
  BY <1>1, AppendFacts
<1>3. ActOK(c, n) BY <1>1 DEF ActsOK
<1>4. PICK j \in 1..n : c[j].t = c[n].t /\ c[j].k \in {"pcall", "resume"} BY <1>3 DEF ActOK
<1>5. n < LUAI_MAXCCALLS /\ a.t = c[n].t /\ a.nCcalls = n /\ a.nny = Locked(c, a.t, n)
      /\ \A i \in 1..n : c[i].t = a.t => c[i].ci < a.ci
  OBVIOUS
<1> HIDE DEF n, c2
<1>6. Locked(c2, a.t, n) = Locked(c, a.t, n) BY <1>1, <1>2, LockedSame
<1>7. (n + 1) - 1 = n /\ n + 1 > 1 /\ n + 1 # 1 BY <1>1
<1>8. ActOK(c2, n + 1)
  <2> DEFINE i == n + 1
  <2>1. i - 1 = n /\ i > 1 /\ i # 1 /\ c2[i] = a /\ c2[n] = c[n] BY <1>1, <1>2, <1>7
  <2>2. j \in 1..i /\ c2[j] = c[j] BY <1>1, <1>2, <1>4
  <2> HIDE DEF i
  <2>3. \E m \in 1..i : c2[m].t = c2[i].t /\ c2[m].k \in {"pcall", "resume"}
    BY <1>4, <1>5, <2>1, <2>2
  <2> SUFFICES ActOK(c2, i) BY DEF i
  <2> QED BY <1>5, <1>6, <2>1, <2>3 DEF ActOK
<1>9. \A i \in 1..n : c[i].t = a.t =>
        c[i].ci < a.ci /\ \A k \in i..n : c[k].t = c[i].t
  BY <1>1, <1>5
<1> QED BY <1>8, <1>9, ActsAppend DEF n, c2

\* The stack of C with a call that resumes another thread.
LEMMA ActsResume ==
  ASSUME NEW c, ActsOK(c), Len(c) > 0, Len(c) + 1 < LUAI_MAXCCALLS, NEW a \in Acts,
         a.k = "resume", a.ci = 0, a.from = c[Len(c)].t, a.nCcalls = Len(c) + 1,
         a.t \in Coroutines, \A j \in 1..Len(c) : c[j].t # a.t
  PROVE  ActsOK(Append(c, a))
PROOF
<1> DEFINE n == Len(c)
           c2 == Append(c, a)
<1>1. n \in Nat /\ n > 0 /\ c \in Seq(Acts) /\ n \in 1..n BY RunningActs
<1>2. /\ Len(c2) = n + 1 /\ c2[n + 1] = a /\ \A k \in 1..n : c2[k] = c[k] /\ k \in 1..(n + 1)
  BY <1>1, AppendFacts
<1>3. n + 1 < LUAI_MAXCCALLS /\ a.from = c[n].t /\ a.nCcalls = n + 1 /\ \A j \in 1..n : c[j].t # a.t
  OBVIOUS
<1> HIDE DEF n, c2
<1>4. ActOK(c2, n + 1)
  <2> DEFINE i == n + 1
  <2>1. i - 1 = n /\ i > 1 /\ i # 1 /\ c2[i] = a /\ c2[n] = c[n] /\ i \in 1..i /\ i < LUAI_MAXCCALLS
        /\ a.nCcalls = i
    BY <1>1, <1>2, <1>3
  <2> HIDE DEF i
  <2>2. \A j \in 1..(i - 1) : c2[j].t # c2[i].t BY <1>2, <1>3, <2>1
  <2>3. \E m \in 1..i : c2[m].t = c2[i].t /\ c2[m].k \in {"pcall", "resume"} BY <2>1
  <2> SUFFICES ActOK(c2, i) BY DEF i
  <2> QED BY <1>3, <2>1, <2>2, <2>3 DEF ActOK
<1>5. n < LUAI_MAXCCALLS BY <1>1, <1>3, CoConstants
<1> QED BY <1>3, <1>4, <1>5, ActsAppend DEF n, c2

\* The first call, from the firmware.
LEMMA ActsFirst ==
  ASSUME NEW c, c = <<>>, NEW a \in Acts, a.t = Main, a.k = "pcall", a.ci = 0, a.nCcalls = 0,
         a.nny = 1
  PROVE  ActsOK(Append(c, a))
PROOF
<1> DEFINE c2 == Append(c, a)
<1>1. c \in Seq(Acts) /\ Len(c) = 0 BY EmptySeq
<1>2. c2 \in Seq(Acts) /\ Len(c2) = 1 /\ c2[1] = a BY <1>1, AppendFacts
<1> HIDE DEF c2
<1>3. Locked(c2, Main, 0) = 1 BY LockedStart
<1>4. ActOK(c2, 1)
  <2>1. 1 \in 1..1 /\ 1 - 1 = 0 OBVIOUS
  <2> QED BY <1>2, <1>3, <2>1 DEF ActOK
<1>5. \A i \in 1..1 : i = 1 OBVIOUS
<1> QED BY <1>2, <1>4, <1>5, CoConstants DEF ActsOK, c2

-----------------------------------------------------------------------------
\* The counters of the threads, when a call is added and when calls are cut off.
LEMMA CountersAppend ==
  ASSUME NEW c, ActsOK(c), NEW nn, NEW nc, CountersOK(c, nn, nc), NEW a \in Acts, NEW nn2, NEW nc2,
         Len(c) > 0 => a.t = c[Len(c)].t \/ \A j \in 1..Len(c) : c[j].t # a.t,
         \A x \in AllThreads : x # a.t => nn2[x] = nn[x] /\ nc2[x] = nc[x],
         nc2[a.t] = Len(c) + 1, nn2[a.t] = Locked(Append(c, a), a.t, Len(c) + 1)
  PROVE  CountersOK(Append(c, a), nn2, nc2)
PROOF
<1> DEFINE n == Len(c)
           c2 == Append(c, a)
           t == a.t
<1>1. c \in Seq(Acts) /\ n \in Nat BY DEF ActsOK
<1>2. Len(c2) = n + 1 /\ c2[n + 1] = a /\ \A k \in 1..n : c2[k] = c[k] BY <1>1, AppendFacts
<1>3. n > 0 => /\ \A j \in 1..n : c[j].t \in AllThreads
               /\ \A j \in 1..n : c[j].t = c[n].t => \A k \in j..n : c[k].t = c[n].t
  BY RunningActs
<1>4. /\ n > 0 => t = c[n].t \/ \A j \in 1..n : c[j].t # t
      /\ \A x \in AllThreads : x # t => nn2[x] = nn[x] /\ nc2[x] = nc[x]
      /\ nc2[t] = n + 1 /\ nn2[t] = Locked(c2, t, n + 1)
      /\ \A i \in 1..n : i = n \/ c[i + 1].t # c[i].t =>
           nc[c[i].t] = i /\ nn[c[i].t] = Locked(c, c[i].t, i)
  BY DEF CountersOK
<1> HIDE DEF n, c2
<1>5. ASSUME NEW i \in 1..(n + 1), i = n + 1 \/ c2[i + 1].t # c2[i].t
      PROVE  nc2[c2[i].t] = i /\ nn2[c2[i].t] = Locked(c2, c2[i].t, i)
  <2>1. CASE i = n + 1 BY <1>2, <1>4, <2>1
  <2>2. CASE i # n + 1
    <3>1. i \in 1..n /\ c2[i] = c[i] /\ n > 0 /\ n \in 1..n /\ i \in Nat /\ \A k \in 1..i : c2[k] = c[k]
      BY <1>1, <1>2, <2>2
    <3>2. c[i].t # t /\ (i = n \/ c[i + 1].t # c[i].t)
      <4>1. CASE i = n BY <1>2, <1>4, <1>5, <2>2, <3>1, <4>1
      <4>2. CASE i # n
        <5>1. i + 1 \in 1..n /\ i + 1 \in i..n BY <3>1, <4>2
        <5>2. c[i + 1].t # c[i].t BY <1>2, <1>5, <2>2, <3>1, <5>1
        <5>3. c[i].t # c[n].t BY <1>3, <3>1, <5>1, <5>2
        <5> QED BY <1>4, <3>1, <5>2, <5>3
      <4> QED BY <4>1, <4>2
    <3>3. c[i].t \in AllThreads BY <1>3, <3>1
    <3>4. nc[c[i].t] = i /\ nn[c[i].t] = Locked(c, c[i].t, i) BY <1>4, <3>1, <3>2
    <3>5. Locked(c2, c[i].t, i) = Locked(c, c[i].t, i) BY <3>1, LockedSame
    <3> QED BY <1>4, <3>1, <3>2, <3>3, <3>4, <3>5
  <2> QED BY <2>1, <2>2
<1>6. n + 1 # 0 BY <1>1
<1> QED BY <1>2, <1>5, <1>6 DEF CountersOK, c2

\* The counters when the last calls of the running thread are gone.
LEMMA CountersPrefix ==
  ASSUME NEW c, ActsOK(c), Len(c) > 0, NEW nn, NEW nc, CountersOK(c, nn, nc), NEW m \in 0..Len(c),
         NEW t, t = c[Len(c)].t, NEW nn2, NEW nc2,
         \A x \in AllThreads : x # t => nn2[x] = nn[x] /\ nc2[x] = nc[x],
         m > 0 /\ c[m].t = t => nc2[t] = m /\ nn2[t] = Locked(c, t, m),
         m > 0 /\ c[m].t # t => c[m + 1].t # c[m].t,
         m = 0 => nn2[Main] = 1 /\ nc2[Main] = 0
  PROVE  CountersOK(SubSeq(c, 1, m), nn2, nc2)
PROOF
<1> DEFINE n == Len(c)
           c2 == SubSeq(c, 1, m)
<1>1. /\ n \in Nat /\ n > 0 /\ c \in Seq(Acts) /\ \A j \in 1..n : c[j].t \in AllThreads
      /\ \A j \in 1..n : c[j].t = c[n].t => \A k \in j..n : c[k].t = c[n].t
  BY RunningActs
<1>2. Len(c2) = m /\ \A k \in 1..m : c2[k] = c[k] /\ k \in 1..n BY <1>1, PrefixFacts
<1>3. /\ t = c[n].t /\ m \in 0..n
      /\ \A i \in 1..n : i = n \/ c[i + 1].t # c[i].t =>
           nc[c[i].t] = i /\ nn[c[i].t] = Locked(c, c[i].t, i)
  BY DEF CountersOK
<1> HIDE DEF n, c2
<1>4. ASSUME NEW i \in 1..m, i = m \/ c2[i + 1].t # c2[i].t
      PROVE  nc2[c2[i].t] = i /\ nn2[c2[i].t] = Locked(c2, c2[i].t, i)
  <2>1. i \in 1..n /\ c2[i] = c[i] /\ i \in Nat /\ m > 0 /\ \A k \in 1..i : c2[k] = c[k]
    BY <1>1, <1>2, <1>3
  <2>2. Locked(c2, c[i].t, i) = Locked(c, c[i].t, i) BY <2>1, LockedSame
  <2>3. CASE i = m /\ c[m].t = t BY <2>1, <2>2, <2>3
  <2>4. CASE ~(i = m /\ c[m].t = t)
    <3>1. c[i].t # t /\ c[i + 1].t # c[i].t
      <4>1. CASE i = m BY <2>1, <2>4, <4>1
      <4>2. CASE i # m
        <5>1. i + 1 \in 1..m /\ i + 1 \in i..n BY <1>1, <1>3, <2>1, <4>2
        <5>2. c[i + 1].t # c[i].t BY <1>2, <1>4, <2>1, <4>2, <5>1
        <5> QED BY <1>1, <1>3, <2>1, <5>1, <5>2
      <4> QED BY <4>1, <4>2
    <3>2. nc[c[i].t] = i /\ nn[c[i].t] = Locked(c, c[i].t, i) BY <1>3, <2>1, <3>1
    <3>3. c[i].t \in AllThreads BY <1>1, <2>1
    <3> QED BY <2>1, <2>2, <3>1, <3>2, <3>3
  <2> QED BY <2>3, <2>4
<1> QED BY <1>2, <1>4 DEF CountersOK, c2

\* The instance counts as FiniteSets does.
LEMMA CoCounts == ASSUME NEW T PROVE K!Cardinality(T) = Cardinality(T)
  BY DEF K!Cardinality, Cardinality, K!IsFiniteSet, IsFiniteSet

\* The counters that the run checks.
LEMMA CountersSound ==
  ASSUME ActsOK(cstack), CountersOK(cstack, nny, nCcalls)
  PROVE  K!CountersExact
PROOF
<1> DEFINE n == Len(cstack)
<1>1. cstack \in Seq(Acts) /\ n \in Nat /\ n <= LUAI_MAXCCALLS /\ DOMAIN cstack = 1..n BY DEF ActsOK
<1> SUFFICES ASSUME NEW t \in K!Threads, K!InChain(t)
    PROVE  /\ nCcalls[t] = K!Max(K!Of(t)) /\ nCcalls[t] <= LUAI_MAXCCALLS
           /\ nny[t] = K!Cardinality({j \in K!Of(t) : cstack[j].k \in {"pcall", "callnoyield"}})
                         + (IF t = Main THEN 1 ELSE 0)
  BY DEF K!CountersExact
<1> DEFINE of == {j \in 1..n : cstack[j].t = t}
           m == K!Max(of)
<1>2. K!Of(t) = of /\ of # {} /\ of \in SUBSET (1..n) BY <1>1 DEF K!Of, K!InChain
<1>3. m \in of /\ \A k \in of : k <= m
  <2> HIDE DEF of, n
  <2> QED BY <1>1, <1>2, MaxFacts
<1>4. m \in 1..n /\ cstack[m].t = t BY <1>3
<1>5. m = n \/ cstack[m + 1].t # t
  <2> SUFFICES ASSUME m # n, cstack[m + 1].t = t PROVE FALSE OBVIOUS
  <2> HIDE DEF m, n
  <2>1. m + 1 \in 1..n /\ ~(m + 1 <= m) BY <1>1, <1>4
  <2> QED BY <1>3, <2>1
<1>6. nCcalls[t] = m /\ nny[t] = Locked(cstack, t, m) BY <1>4, <1>5 DEF CountersOK
<1>7. {j \in of : cstack[j].k \in Locking} = {j \in 1..m : cstack[j].t = t /\ cstack[j].k \in Locking}
  <2>1. \A j : j \in of <=> j \in 1..m /\ cstack[j].t = t
    <3> HIDE DEF m, n
    <3>1. \A j \in of : j \in 1..n /\ j <= m /\ cstack[j].t = t BY <1>3
    <3>2. \A j \in of : j \in 1..m BY <1>1, <1>4, <3>1
    <3>3. \A j \in 1..m : j \in 1..n BY <1>1, <1>4
    <3> QED BY <3>1, <3>2, <3>3
  <2> HIDE DEF m, of
  <2> QED BY <2>1
<1> HIDE DEF m, of, n
<1>8. m <= LUAI_MAXCCALLS BY <1>1, <1>4, CoConstants
<1>9. K!Cardinality({j \in of : cstack[j].k \in {"pcall", "callnoyield"}})
        = Cardinality({j \in of : cstack[j].k \in Locking})
  BY CoCounts DEF Locking
<1> QED BY <1>2, <1>6, <1>7, <1>8, <1>9 DEF Locked, m

-----------------------------------------------------------------------------
\* The frames of a thread whose calls on the stack of C stay.
LEMMA ThreadSame ==
  ASSUME NEW c, NEW c2, NEW t, NEW f, ThreadOK(c, t, f),
         \A j \in 1..Len(c) : c[j].t = t => j \in 1..Len(c2) /\ c2[j] = c[j],
         \A j \in 1..Len(c2) : c2[j].t = t => j \in 1..Len(c) /\ c2[j] = c[j]
  PROVE  ThreadOK(c2, t, f)
PROOF
<1>1. f \in Seq(CoFrames) /\ (Len(f) > 0 => f[1].kind = "lua") BY DEF ThreadOK
<1>2. ASSUME NEW d \in 1..Len(f)
      PROVE  /\ f[d].kind = "sort" =>
                  \E j \in 1..Len(c2) : c2[j].t = t /\ c2[j].k = "callnoyield" /\ c2[j].ci = d
             /\ f[d].kind = "pcall" =>
                  f[d].ypcall \/ \E j \in 1..Len(c2) : c2[j].t = t /\ c2[j].k = "pcall" /\ c2[j].ci = d
             /\ f[d].ypcall => f[d].kind = "pcall"
             /\ f[d].ypcall => \A j \in 1..Len(c2) : c2[j].t = t /\ c2[j].k \in Locking => d < c2[j].ci
  <2>1. /\ f[d].kind = "sort" =>
             \E j \in 1..Len(c) : c[j].t = t /\ c[j].k = "callnoyield" /\ c[j].ci = d
        /\ f[d].kind = "pcall" =>
             f[d].ypcall \/ \E j \in 1..Len(c) : c[j].t = t /\ c[j].k = "pcall" /\ c[j].ci = d
        /\ f[d].ypcall => f[d].kind = "pcall"
        /\ f[d].ypcall => \A j \in 1..Len(c) : c[j].t = t /\ c[j].k \in Locking => d < c[j].ci
    BY DEF ThreadOK
  <2> QED BY <2>1
<1>3. ASSUME NEW j \in 1..Len(c2), c2[j].t = t
      PROVE  /\ c2[j].ci <= Len(f)
             /\ c2[j].ci < Len(f) => f[c2[j].ci + 1].kind = "lua"
             /\ c2[j].k = "pcall" /\ c2[j].ci > 0 => f[c2[j].ci].kind = "pcall"
  BY <1>3 DEF ThreadOK
<1> QED BY <1>1, <1>2, <1>3 DEF ThreadOK

\* A thread that loses its last frames, and the calls that they made.
LEMMA ThreadCut ==
  ASSUME NEW c, ActsOK(c), NEW t, NEW f, ThreadOK(c, t, f), NEW c2, NEW m \in 0..Len(c), Len(c2) = m,
         \A k \in 1..m : c2[k] = c[k],
         NEW f2 \in Seq(CoFrames), NEW L \in 0..Len(f), Len(f2) = L, \A d \in 1..L : f2[d] = f[d],
         \A j \in 1..m : c[j].t = t => c[j].ci <= L,
         \A j \in (m + 1)..Len(c) : c[j].t = t /\ c[j].k \in Locking /\ c[j].ci \in 1..L =>
           f[c[j].ci].kind \notin {"sort", "pcall"}
  PROVE  ThreadOK(c2, t, f2)
PROOF
<1> DEFINE n == Len(c)
           lf == Len(f)
<1>1. /\ n \in Nat /\ c \in Seq(Acts) /\ f \in Seq(CoFrames) /\ lf \in Nat /\ (lf > 0 => f[1].kind = "lua")
  BY DEF ThreadOK, ActsOK
<1>2. \A j \in 1..n : c[j].ci \in Nat
  <2>1. \A j \in 1..n : c[j] \in Acts BY <1>1
  <2> QED BY <2>1 DEF Acts
<1>3. ASSUME NEW d \in 1..lf
      PROVE  /\ f[d].kind = "sort" =>
                  \E j \in 1..n : c[j].t = t /\ c[j].k = "callnoyield" /\ c[j].ci = d
             /\ f[d].kind = "pcall" =>
                  f[d].ypcall \/ \E j \in 1..n : c[j].t = t /\ c[j].k = "pcall" /\ c[j].ci = d
             /\ f[d].ypcall => f[d].kind = "pcall"
             /\ f[d].ypcall => \A j \in 1..n : c[j].t = t /\ c[j].k \in Locking => d < c[j].ci
  BY DEF ThreadOK
<1>4. ASSUME NEW j \in 1..n, c[j].t = t
      PROVE  /\ c[j].ci <= lf
             /\ c[j].ci < lf => f[c[j].ci + 1].kind = "lua"
             /\ c[j].k = "pcall" /\ c[j].ci > 0 => f[c[j].ci].kind = "pcall"
  BY <1>4 DEF ThreadOK
<1>5. /\ Len(c2) = m /\ m \in 0..n /\ \A k \in 1..m : c2[k] = c[k]
      /\ Len(f2) = L /\ L \in 0..lf /\ \A d \in 1..L : f2[d] = f[d]
      /\ \A j \in 1..m : c[j].t = t => c[j].ci <= L
      /\ \A j \in (m + 1)..n : c[j].t = t /\ c[j].k \in Locking /\ c[j].ci \in 1..L =>
           f[c[j].ci].kind \notin {"sort", "pcall"}
  OBVIOUS
<1> HIDE DEF n, lf
<1>6. ASSUME NEW d \in 1..L
      PROVE  /\ f2[d].kind = "sort" =>
                  \E j \in 1..m : c2[j].t = t /\ c2[j].k = "callnoyield" /\ c2[j].ci = d
             /\ f2[d].kind = "pcall" =>
                  f2[d].ypcall \/ \E j \in 1..m : c2[j].t = t /\ c2[j].k = "pcall" /\ c2[j].ci = d
             /\ f2[d].ypcall => f2[d].kind = "pcall"
             /\ f2[d].ypcall => \A j \in 1..m : c2[j].t = t /\ c2[j].k \in Locking => d < c2[j].ci
  <2>1. d \in 1..lf /\ f2[d] = f[d] BY <1>1, <1>5
  <2>2. \A j \in 1..m : j \in 1..n /\ c2[j] = c[j] BY <1>1, <1>5
  <2>3. \A j \in 1..n : j \in 1..m \/ j \in (m + 1)..n BY <1>1, <1>5
  <2>4. ASSUME f[d].kind = "sort"
        PROVE  \E j \in 1..m : c2[j].t = t /\ c2[j].k = "callnoyield" /\ c2[j].ci = d
    <3>1. PICK j \in 1..n : c[j].t = t /\ c[j].k = "callnoyield" /\ c[j].ci = d
      BY <1>3, <2>1, <2>4
    <3>2. j \in 1..m BY <1>5, <2>3, <2>4, <3>1 DEF Locking
    <3> QED BY <2>2, <3>1, <3>2
  <2>5. ASSUME f[d].kind = "pcall", ~f[d].ypcall
        PROVE  \E j \in 1..m : c2[j].t = t /\ c2[j].k = "pcall" /\ c2[j].ci = d
    <3>1. PICK j \in 1..n : c[j].t = t /\ c[j].k = "pcall" /\ c[j].ci = d
      BY <1>3, <2>1, <2>5
    <3>2. j \in 1..m BY <1>5, <2>3, <2>5, <3>1 DEF Locking
    <3> QED BY <2>2, <3>1, <3>2
  <2>6. f[d].ypcall => f[d].kind = "pcall" BY <1>3, <2>1
  <2>7. f[d].ypcall => \A j \in 1..m : c2[j].t = t /\ c2[j].k \in Locking => d < c2[j].ci
    BY <1>3, <2>1, <2>2
  <2> QED BY <2>1, <2>4, <2>5, <2>6, <2>7
<1>7. ASSUME NEW j \in 1..m, c2[j].t = t
      PROVE  /\ c2[j].ci <= L
             /\ c2[j].ci < L => f2[c2[j].ci + 1].kind = "lua"
             /\ c2[j].k = "pcall" /\ c2[j].ci > 0 => f2[c2[j].ci].kind = "pcall"
  <2>1. j \in 1..n /\ c2[j] = c[j] /\ c[j].t = t /\ c[j].ci \in Nat /\ c[j].ci <= L
    BY <1>1, <1>2, <1>5, <1>7
  <2> DEFINE p == c[j].ci
  <2>2. p \in Nat /\ p <= L /\ (p < lf => f[p + 1].kind = "lua")
        /\ (c[j].k = "pcall" /\ p > 0 => f[p].kind = "pcall") /\ c2[j].ci = p /\ c2[j].k = c[j].k
    BY <1>4, <2>1
  <2> HIDE DEF p
  <2>3. p < L => p + 1 \in 1..L /\ p < lf BY <1>1, <1>5, <2>2
  <2>4. p > 0 => p \in 1..L BY <2>2, <1>5
  <2> QED BY <1>5, <2>2, <2>3, <2>4
<1>8. Len(f2) > 0 => f2[1].kind = "lua"
  <2> SUFFICES ASSUME L > 0 PROVE f2[1].kind = "lua" BY <1>5
  <2>1. 1 \in 1..L /\ lf > 0 BY <1>1, <1>5
  <2> QED BY <1>1, <1>5, <2>1
<1> QED BY <1>5, <1>6, <1>7, <1>8 DEF ThreadOK

\* A thread that gets a frame: of a Lua function, or of a C function that waits for
\* another thread or for its own to be resumed.
LEMMA ThreadFrame ==
  ASSUME NEW c, ActsOK(c), NEW t, NEW f, ThreadOK(c, t, f), NEW x \in CoFrames, ~x.ypcall,
         \/ x.kind = "lua"
         \/ /\ x.kind \in {"resume", "wrap", "yield"} /\ Len(f) > 0
            /\ \A j \in 1..Len(c) : c[j].t = t => c[j].ci < Len(f)
  PROVE  ThreadOK(c, t, Append(f, x)) /\ Len(Append(f, x)) = Len(f) + 1
PROOF
<1> DEFINE f2 == Append(f, x)
           l == Len(f)
<1>1. f \in Seq(CoFrames) /\ l \in Nat /\ (l > 0 => f[1].kind = "lua") BY DEF ThreadOK
<1>2. f2 \in Seq(CoFrames) /\ Len(f2) = l + 1 /\ f2[l + 1] = x /\ \A d \in 1..l : f2[d] = f[d]
  BY <1>1, AppendFacts
<1>3. \A j \in 1..Len(c) : c[j].ci \in Nat
  <2>1. \A j \in 1..Len(c) : c[j] \in Acts BY DEF ActsOK
  <2> QED BY <2>1 DEF Acts
<1>4. /\ x.kind # "lua" => l > 0 /\ \A j \in 1..Len(c) : c[j].t = t => c[j].ci < l
      /\ x.kind \notin {"sort", "pcall"}
  OBVIOUS
<1>5. \A j \in 1..Len(c) : c[j].t = t =>
        /\ c[j].ci <= l
        /\ c[j].ci < l => f[c[j].ci + 1].kind = "lua"
        /\ c[j].k = "pcall" /\ c[j].ci > 0 => f[c[j].ci].kind = "pcall"
  BY DEF ThreadOK
<1>6. \A d \in 1..l :
         /\ f[d].kind = "sort" => \E j \in 1..Len(c) : c[j].t = t /\ c[j].k = "callnoyield" /\ c[j].ci = d
         /\ f[d].kind = "pcall" =>
              f[d].ypcall \/ \E j \in 1..Len(c) : c[j].t = t /\ c[j].k = "pcall" /\ c[j].ci = d
         /\ f[d].ypcall => f[d].kind = "pcall"
         /\ f[d].ypcall => \A j \in 1..Len(c) : c[j].t = t /\ c[j].k \in Locking => d < c[j].ci
  BY DEF ThreadOK
<1> HIDE DEF f2, l
<1>7. ASSUME NEW d \in 1..(l + 1)
      PROVE  /\ f2[d].kind = "sort" =>
                  \E j \in 1..Len(c) : c[j].t = t /\ c[j].k = "callnoyield" /\ c[j].ci = d
             /\ f2[d].kind = "pcall" =>
                  f2[d].ypcall \/ \E j \in 1..Len(c) : c[j].t = t /\ c[j].k = "pcall" /\ c[j].ci = d
             /\ f2[d].ypcall => f2[d].kind = "pcall"
             /\ f2[d].ypcall => \A j \in 1..Len(c) : c[j].t = t /\ c[j].k \in Locking => d < c[j].ci
  <2>1. CASE d = l + 1 BY <1>2, <1>4, <2>1
  <2>2. CASE d # l + 1
    <3>1. d \in 1..l /\ f2[d] = f[d] BY <1>1, <1>2, <2>2
    <3> QED BY <1>6, <3>1
  <2> QED BY <2>1, <2>2
<1>8. ASSUME NEW j \in 1..Len(c), c[j].t = t
      PROVE  /\ c[j].ci <= l + 1
             /\ c[j].ci < l + 1 => f2[c[j].ci + 1].kind = "lua"
             /\ c[j].k = "pcall" /\ c[j].ci > 0 => f2[c[j].ci].kind = "pcall"
  <2> DEFINE p == c[j].ci
  <2>1. /\ p \in Nat /\ p <= l /\ (p < l => f[p + 1].kind = "lua")
        /\ (c[j].k = "pcall" /\ p > 0 => f[p].kind = "pcall") /\ (x.kind # "lua" => p < l)
    BY <1>3, <1>4, <1>5, <1>8
  <2> HIDE DEF p
  <2>2. p <= l + 1 /\ (p > 0 => p \in 1..l) BY <1>1, <2>1
  <2>3. CASE p < l
    <3>1. p + 1 \in 1..l BY <1>1, <2>1, <2>3
    <3> QED BY <1>2, <2>1, <2>2, <2>3, <3>1 DEF p
  <2>4. CASE p = l
    <3>1. x.kind = "lua" /\ f2[p + 1] = x BY <1>1, <1>2, <2>1, <2>4
    <3> QED BY <1>2, <2>1, <2>2, <3>1 DEF p
  <2>5. p < l \/ p = l BY <1>1, <2>1
  <2> QED BY <2>3, <2>4, <2>5
<1>9. f2[1].kind = "lua"
  <2>1. CASE l > 0
    <3>1. 1 \in 1..l BY <1>1, <2>1
    <3> QED BY <1>1, <1>2, <2>1, <3>1
  <2>2. CASE l = 0
    <3>1. l + 1 = 1 BY <2>2
    <3> QED BY <1>2, <1>4, <2>2, <3>1
  <2> QED BY <1>1, <2>1, <2>2
<1>10. ThreadOK(c, t, f2) BY <1>2, <1>7, <1>8, <1>9 DEF ThreadOK
<1> QED BY <1>2, <1>10 DEF f2, l

\* A thread that makes a call on the stack of C, from the frames g; the frame of a C
\* function among them is what the call belongs to.
LEMMA ThreadCalls ==
  ASSUME NEW c, ActsOK(c), NEW t, NEW f, ThreadOK(c, t, f), Len(f) > 0, NEW a \in Acts, a.t = t,
         \A j \in 1..Len(c) : c[j].t = t => c[j].ci < Len(f),
         NEW g \in Seq(CoFrames), Len(g) >= Len(f), \A d \in 1..Len(f) : g[d] = f[d], a.ci = Len(g),
         \/ Len(g) = Len(f) /\ a.k = "call"
         \/ /\ Len(g) = Len(f) + 1
            /\ \/ g[Len(g)].kind = "sort" /\ ~g[Len(g)].ypcall /\ a.k = "callnoyield"
               \/ g[Len(g)].kind = "pcall" /\ ~g[Len(g)].ypcall /\ a.k = "pcall"
               \/ /\ g[Len(g)].kind = "pcall" /\ a.k = "call"
                  /\ g[Len(g)].ypcall /\ \A j \in 1..Len(c) : c[j].t = t => c[j].k \notin Locking
  PROVE  ThreadOK(Append(c, a), t, g)
PROOF
<1> DEFINE c2 == Append(c, a)
           n == Len(c)
           l == Len(f)
           L == Len(g)
<1>1. /\ n \in Nat /\ c \in Seq(Acts) /\ f \in Seq(CoFrames) /\ l \in Nat /\ l > 0 /\ L \in Nat /\ L >= l
      /\ f[1].kind = "lua"
  BY DEF ThreadOK, ActsOK
<1>2. Len(c2) = n + 1 /\ c2[n + 1] = a /\ \A k \in 1..n : c2[k] = c[k] BY <1>1, AppendFacts
<1>3. \A j \in 1..n : c[j].ci \in Nat
  <2>1. \A j \in 1..n : c[j] \in Acts BY <1>1
  <2> QED BY <2>1 DEF Acts
<1>4. \A j \in 1..n : c[j].t = t =>
        /\ c[j].ci < l
        /\ c[j].ci < l => f[c[j].ci + 1].kind = "lua"
        /\ c[j].k = "pcall" /\ c[j].ci > 0 => f[c[j].ci].kind = "pcall"
  BY DEF ThreadOK
<1>5. \A d \in 1..l :
         /\ f[d].kind = "sort" => \E j \in 1..n : c[j].t = t /\ c[j].k = "callnoyield" /\ c[j].ci = d
         /\ f[d].kind = "pcall" =>
              f[d].ypcall \/ \E j \in 1..n : c[j].t = t /\ c[j].k = "pcall" /\ c[j].ci = d
         /\ f[d].ypcall => f[d].kind = "pcall"
         /\ f[d].ypcall => \A j \in 1..n : c[j].t = t /\ c[j].k \in Locking => d < c[j].ci
  BY DEF ThreadOK
<1>6. /\ \A d \in 1..l : g[d] = f[d]
      /\ a.ci = L /\ a.t = t /\ a.k # "resume"
      /\ L = l => a.k = "call"
      /\ L = l \/ L = l + 1
      /\ L = l + 1 => g[L].kind \in {"sort", "pcall"}
      /\ L = l + 1 /\ g[L].kind = "sort" => ~g[L].ypcall /\ a.k = "callnoyield"
      /\ L = l + 1 /\ g[L].kind = "pcall" /\ ~g[L].ypcall => a.k = "pcall"
      /\ L = l + 1 /\ g[L].ypcall =>
           a.k = "call" /\ \A j \in 1..n : c[j].t = t => c[j].k \notin Locking
      /\ a.k = "pcall" => g[L].kind = "pcall"
      /\ a.k = "call" => a.k \notin Locking
    BY <1>1 DEF Locking
<1> HIDE DEF c2, n, l, L
<1>7. \A j \in 1..(n + 1) : j = n + 1 \/ j \in 1..n BY <1>1
<1>8. ASSUME NEW d \in 1..L
      PROVE  /\ g[d].kind = "sort" =>
                  \E j \in 1..(n + 1) : c2[j].t = t /\ c2[j].k = "callnoyield" /\ c2[j].ci = d
             /\ g[d].kind = "pcall" =>
                  g[d].ypcall \/ \E j \in 1..(n + 1) : c2[j].t = t /\ c2[j].k = "pcall" /\ c2[j].ci = d
             /\ g[d].ypcall => g[d].kind = "pcall"
             /\ g[d].ypcall => \A j \in 1..(n + 1) : c2[j].t = t /\ c2[j].k \in Locking => d < c2[j].ci
  <2>1. n + 1 \in 1..(n + 1) /\ \A j \in 1..n : j \in 1..(n + 1) BY <1>1
  <2>2. CASE d \in 1..l
    <3>1. g[d] = f[d] /\ d <= L BY <1>6, <2>2
    <3>2. ASSUME g[d].kind = "sort"
          PROVE  \E j \in 1..(n + 1) : c2[j].t = t /\ c2[j].k = "callnoyield" /\ c2[j].ci = d
      <4>1. PICK j \in 1..n : c[j].t = t /\ c[j].k = "callnoyield" /\ c[j].ci = d
        BY <1>5, <2>2, <3>1, <3>2
      <4> QED BY <1>2, <2>1, <4>1
    <3>3. ASSUME g[d].kind = "pcall", ~g[d].ypcall
          PROVE  \E j \in 1..(n + 1) : c2[j].t = t /\ c2[j].k = "pcall" /\ c2[j].ci = d
      <4>1. PICK j \in 1..n : c[j].t = t /\ c[j].k = "pcall" /\ c[j].ci = d
        BY <1>5, <2>2, <3>1, <3>3
      <4> QED BY <1>2, <2>1, <4>1
    <3>4. g[d].ypcall => g[d].kind = "pcall" BY <1>5, <2>2, <3>1
    <3>5. ASSUME g[d].ypcall, NEW j \in 1..(n + 1), c2[j].t = t, c2[j].k \in Locking
          PROVE  d < c2[j].ci
      <4>1. CASE j \in 1..n
        <5>1. c2[j] = c[j] BY <1>2, <4>1
        <5> QED BY <1>5, <2>2, <3>1, <3>5, <4>1, <5>1
      <4>2. CASE j = n + 1
        <5>1. a.k \in Locking /\ c2[j].ci = L BY <1>2, <1>6, <3>5, <4>2
        <5>2. L = l + 1 BY <1>6, <5>1
        <5> QED BY <1>1, <2>2, <5>1, <5>2
      <4> QED BY <1>7, <4>1, <4>2
    <3> QED BY <3>2, <3>3, <3>4, <3>5
  <2>3. CASE d \notin 1..l
    <3>1. L = l + 1 /\ d = L BY <1>1, <1>6, <2>3
    <3>2. /\ g[d].kind = "sort" => ~g[d].ypcall /\ a.k = "callnoyield"
          /\ g[d].kind = "pcall" /\ ~g[d].ypcall => a.k = "pcall"
          /\ g[d].ypcall => g[d].kind = "pcall"
          /\ g[d].ypcall => a.k \notin Locking /\ \A j \in 1..n : c[j].t = t => c[j].k \notin Locking
      BY <1>6, <3>1
    <3>3. c2[n + 1].t = t /\ c2[n + 1].ci = d /\ c2[n + 1].k = a.k BY <1>2, <1>6, <3>1
    <3>4. ASSUME g[d].ypcall, NEW j \in 1..(n + 1), c2[j].t = t, c2[j].k \in Locking PROVE FALSE
      BY <1>2, <1>7, <3>2, <3>3, <3>4
    <3> QED BY <2>1, <3>2, <3>3, <3>4
  <2> QED BY <2>2, <2>3
<1>9. ASSUME NEW j \in 1..(n + 1), c2[j].t = t
      PROVE  /\ c2[j].ci <= L
             /\ c2[j].ci < L => g[c2[j].ci + 1].kind = "lua"
             /\ c2[j].k = "pcall" /\ c2[j].ci > 0 => g[c2[j].ci].kind = "pcall"
  <2>1. CASE j = n + 1 BY <1>1, <1>2, <1>6, <2>1
  <2>2. CASE j \in 1..n
    <3> DEFINE p == c[j].ci
    <3>1. /\ p \in Nat /\ p < l /\ f[p + 1].kind = "lua" /\ c2[j].ci = p /\ c2[j].k = c[j].k
          /\ (c[j].k = "pcall" /\ p > 0 => f[p].kind = "pcall")
      BY <1>2, <1>3, <1>4, <1>9, <2>2
    <3> HIDE DEF p
    <3>2. p + 1 \in 1..l /\ (p > 0 => p \in 1..l) /\ p <= L BY <1>1, <3>1
    <3> QED BY <1>6, <3>1, <3>2
  <2> QED BY <1>7, <2>1, <2>2
<1>10. g[1].kind = "lua"
  <2>1. 1 \in 1..l BY <1>1
  <2> QED BY <1>1, <1>6, <2>1
<1>11. g \in Seq(CoFrames) /\ L = Len(g) BY DEF L
<1>12. ThreadOK(c2, t, g) BY <1>2, <1>8, <1>9, <1>10, <1>11 DEF ThreadOK
<1> QED BY <1>12 DEF c2

\* A thread without calls on the stack of C that is resumed.
LEMMA ThreadResumed ==
  ASSUME NEW c, ActsOK(c), NEW t, NEW f, ThreadOK(c, t, f), NEW a \in Acts, a.t = t,
         a.k = "resume", a.ci = 0, \A j \in 1..Len(c) : c[j].t # t
  PROVE  ThreadOK(Append(c, a), t, f)
PROOF
<1> DEFINE c2 == Append(c, a)
           n == Len(c)
<1>1. n \in Nat /\ c \in Seq(Acts) /\ f \in Seq(CoFrames) /\ Len(f) \in Nat /\ (Len(f) > 0 => f[1].kind = "lua")
  BY DEF ThreadOK, ActsOK
<1>2. Len(c2) = n + 1 /\ c2[n + 1] = a /\ \A k \in 1..n : c2[k] = c[k] BY <1>1, AppendFacts
<1>3. \A j \in 1..n : c[j].t # t OBVIOUS
<1>4. \A d \in 1..Len(f) :
        f[d].kind # "sort" /\ (f[d].kind = "pcall" => f[d].ypcall) /\ (f[d].ypcall => f[d].kind = "pcall")
  BY <1>3 DEF ThreadOK
<1> HIDE DEF c2, n
<1>5. \A j \in 1..(n + 1) : c2[j].t = t => c2[j] = a
  <2>1. \A j \in 1..(n + 1) : j = n + 1 \/ j \in 1..n BY <1>1
  <2> QED BY <1>2, <1>3, <2>1
<1>6. a.ci = 0 /\ a.k \notin Locking /\ a.k # "pcall" /\ 0 + 1 = 1 BY DEF Locking
<1>7. ThreadOK(c2, t, f) BY <1>1, <1>2, <1>4, <1>5, <1>6 DEF ThreadOK
<1> QED BY <1>7 DEF c2

\* The first call: no frames yet.
LEMMA ThreadStarts ==
  ASSUME NEW c, c = <<>>, NEW a \in Acts, a.ci = 0, NEW t
  PROVE  ThreadOK(c, t, <<>>) /\ ThreadOK(Append(c, a), t, <<>>)
PROOF
<1>1. /\ c \in Seq(Acts) /\ Len(c) = 0 /\ Append(c, a)[1] = a /\ Len(Append(c, a)) = 1
  <2>1. c \in Seq(Acts) /\ Len(c) = 0 BY EmptySeq
  <2> QED BY <2>1, AppendFacts
<1>2. <<>> \in Seq(CoFrames) /\ Len(<<>>) = 0 BY EmptySeq
<1>3. ThreadOK(c, t, <<>>) BY <1>1, <1>2 DEF ThreadOK
<1>4. \A j \in 1..1 : j = 1 OBVIOUS
<1>5. ThreadOK(Append(c, a), t, <<>>) BY <1>1, <1>2, <1>4 DEF ThreadOK
<1> QED BY <1>3, <1>5

-----------------------------------------------------------------------------
\* The steps of a thread.  A resume waits in a thread that is not the running one.
LEMMA ResumerWaits ==
  ASSUME NEW c, ActsOK(c), NEW j \in 1..Len(c), c[j].k = "resume"
  PROVE  /\ j - 1 \in 1..Len(c) /\ c[j - 1].t # c[Len(c)].t /\ c[j - 1].t # c[j].t
         /\ c[j].from = c[j - 1].t /\ \A i \in 1..(j - 1) : c[i].t # c[j].t
PROOF
<1> DEFINE n == Len(c)
<1>1. /\ n \in Nat /\ n > 0 /\ j \in 1..n
      /\ \A i \in 1..n : c[i].t = c[n].t => \A k \in i..n : c[k].t = c[n].t
  <2>1. c \in Seq(Acts) BY DEF ActsOK
  <2>2. Len(c) > 0 BY <2>1
  <2> QED BY <2>2, RunningActs
<1>2. ActOK(c, j) BY DEF ActsOK
<1>3. j > 1 /\ c[j].from = c[j - 1].t /\ \A i \in 1..(j - 1) : c[i].t # c[j].t BY <1>2 DEF ActOK
<1> HIDE DEF n
<1>4. j - 1 \in 1..n /\ j - 1 \in 1..(j - 1) /\ j \in (j - 1)..n BY <1>1, <1>3
<1>5. c[j - 1].t # c[n].t
  <2>1. c[j - 1].t = c[n].t => c[j].t = c[n].t BY <1>1, <1>4
  <2> QED BY <1>3, <1>4, <2>1
<1> QED BY <1>3, <1>4, <1>5 DEF n

\* A thread whose calls and status stay.
LEMMA StatusSame ==
  ASSUME NEW c, NEW c2, NEW x, NEW f, NEW s, NEW v, NEW e, NEW e2, NEW r, NEW r2,
         StatusOK(c, x, f, s, v, e, r), InCo(c2, x) <=> InCo(c, x), x \in e2 <=> x \in e,
         r # "YIELD" \/ x # c[Len(c)].t, r2 # "YIELD" \/ x # c2[Len(c2)].t
  PROVE  StatusOK(c2, x, f, s, v, e2, r2)
BY DEF StatusOK

\* The threads with calls on the stack of C, and on it with one more call.
LEMMA InAppend ==
  ASSUME NEW c \in Seq(Acts), NEW a \in Acts, NEW x
  PROVE  InCo(Append(c, a), x) <=> InCo(c, x) \/ a.t = x
PROOF
<1> DEFINE c2 == Append(c, a)
           n == Len(c)
<1>1. n \in Nat /\ Len(c2) = n + 1 /\ c2[n + 1] = a /\ \A k \in 1..n : c2[k] = c[k] BY AppendFacts
<1> HIDE DEF c2, n
<1>2. \A j : j \in 1..(n + 1) <=> j \in 1..n \/ j = n + 1 BY <1>1
<1>3. InCo(c2, x) <=> (\E j \in 1..n : c[j].t = x) \/ a.t = x BY <1>1, <1>2 DEF InCo
<1> QED BY <1>3 DEF InCo, c2, n

\* What holds when the running thread is in a Lua function.
LEMMA LuaFacts ==
  ASSUME CoInv, NEW t \in AllThreads, K!InLua(t)
  PROVE  /\ Len(cstack) \in Nat /\ Len(cstack) > 0 /\ Len(cstack) < LUAI_MAXCCALLS
         /\ cstack \in Seq(Acts) /\ t = cstack[Len(cstack)].t /\ t \notin ended
         /\ ThreadOK(cstack, t, ci[t]) /\ ci[t] \in Seq(CoFrames) /\ Len(ci[t]) \in Nat
         /\ Len(ci[t]) > 0 /\ ci[t][Len(ci[t])].kind = "lua"
         /\ \A j \in 1..Len(cstack) : cstack[j].t = t => cstack[j].ci < Len(ci[t])
         /\ nCcalls[t] = Len(cstack) /\ nny[t] = Locked(cstack, t, Len(cstack))
         /\ raising = "no" /\ status[t] = "OK"
PROOF
<1> DEFINE n == Len(cstack)
<1>1. cstack \in Seq(Acts) /\ n \in Nat BY DEF CoInv, ActsOK
<1>2. cstack # <<>> /\ t = cstack[n].t /\ raising = "no" /\ ci[t][Len(ci[t])].kind = "lua"
  BY DEF K!InLua, K!Running, K!Last
<1>3. n > 0 BY <1>1, <1>2, EmptySeq
<1>4. n \in 1..n BY <1>1, <1>3
<1>5. n < LUAI_MAXCCALLS /\ \A j \in 1..n : cstack[j].ci < Len(ci[cstack[j].t])
  BY <1>2 DEF CoInv, RaisingOK
<1>6. t \notin ended /\ status[t] = "OK"
  <2>1. InCo(cstack, t) BY <1>2, <1>4 DEF InCo
  <2>2. StatusOK(cstack, t, ci[t], status[t], values[t], ended, raising) BY DEF CoInv
  <2> QED BY <1>2, <2>1, <2>2 DEF StatusOK
<1>7. ThreadOK(cstack, t, ci[t]) BY <1>6 DEF CoInv
<1>8. ci[t] \in Seq(CoFrames) /\ Len(ci[t]) \in Nat BY <1>7 DEF ThreadOK
<1>9. Len(ci[t]) > 0
  <2>1. cstack[n].ci \in Nat /\ cstack[n].ci < Len(ci[t])
    <3>1. cstack[n] \in Acts BY <1>1, <1>4
    <3> QED BY <1>2, <1>4, <1>5, <3>1 DEF Acts
  <2> DEFINE p == cstack[n].ci
             l == Len(ci[t])
  <2>2. p \in Nat /\ p < l /\ l \in Nat BY <1>8, <2>1
  <2> HIDE DEF p, l
  <2>3. l > 0 BY <2>2
  <2> QED BY <2>3 DEF l
<1>10. nCcalls[t] = n /\ nny[t] = Locked(cstack, t, n)
  BY <1>2, <1>4 DEF CoInv, CountersOK
<1> QED BY <1>1, <1>2, <1>3, <1>5, <1>6, <1>7, <1>8, <1>9, <1>10

\* A step that leaves the stack of C: only the running thread's frames can change.
LEMMA SameStack ==
  ASSUME CoInv, NEW t \in AllThreads, K!InLua(t),
         nny' = nny, nCcalls' = nCcalls, values' = values, cstack' = cstack, ended' = ended,
         NEW g, ci' = [ci EXCEPT ![t] = g], ThreadOK(cstack, t, g), Len(g) >= Len(ci[t]),
         raising' \in {"no", "ERRRUN", "YIELD"},
         raising' = "YIELD" => nny[t] = 0 /\ Len(g) >= 2 /\ status' = [status EXCEPT ![t] = "YIELD"],
         raising' # "YIELD" => status' = status
  PROVE  CoInv'
PROOF
<1> DEFINE n == Len(cstack)
<1>1. /\ n \in Nat /\ n > 0 /\ n < LUAI_MAXCCALLS /\ t = cstack[n].t /\ t \notin ended
      /\ raising = "no" /\ status[t] = "OK" /\ Len(ci[t]) \in Nat
      /\ \A j \in 1..n : cstack[j].t = t => cstack[j].ci < Len(ci[t])
  BY LuaFacts
<1>2. /\ ci \in [AllThreads -> Seq(CoFrames)] /\ status \in [AllThreads -> {"OK", "YIELD", "ERRRUN"}]
      /\ nny \in [AllThreads -> Int] /\ nCcalls \in [AllThreads -> Int]
      /\ values \in [AllThreads -> BOOLEAN] /\ ended \subseteq Coroutines
      /\ ActsOK(cstack) /\ CountersOK(cstack, nny, nCcalls)
      /\ \A x \in AllThreads \ ended : ThreadOK(cstack, x, ci[x])
      /\ \A x \in AllThreads : StatusOK(cstack, x, ci[x], status[x], values[x], ended, raising)
      /\ status[Main] = "OK" /\ RaisingOK(cstack, ci, nny, raising)
  BY DEF CoInv
<1>3. g \in Seq(CoFrames) /\ Len(g) \in Nat BY DEF ThreadOK
<1>4. ci' \in [AllThreads -> Seq(CoFrames)] /\ ci'[t] = g /\ \A x \in AllThreads : x # t => ci'[x] = ci[x]
  BY <1>2, <1>3
<1>5. status' \in [AllThreads -> {"OK", "YIELD", "ERRRUN"}] /\ (raising' # "YIELD" => status'[t] = "OK")
      /\ (raising' = "YIELD" => status'[t] = "YIELD") /\ \A x \in AllThreads : x # t => status'[x] = status[x]
  BY <1>1, <1>2
<1>6. \A x \in AllThreads \ ended : ThreadOK(cstack, x, ci'[x]) BY <1>2, <1>4
<1>7. ASSUME NEW x \in AllThreads
      PROVE  StatusOK(cstack, x, ci'[x], status'[x], values[x], ended, raising')
  <2>1. CASE x = t
    <3>1. n \in 1..n BY <1>1
    <3>2. InCo(cstack, t) BY <1>1, <3>1 DEF InCo
    <3> QED BY <1>1, <1>5, <2>1, <3>2 DEF StatusOK
  <2>2. CASE x # t BY <1>1, <1>2, <1>4, <1>5, <2>2, StatusSame
  <2> QED BY <2>1, <2>2
<1>8. status'[Main] = "OK"
  <2>1. Main \in AllThreads BY DEF AllThreads
  <2>2. CASE t # Main BY <1>2, <1>5, <2>1, <2>2
  <2>3. CASE t = Main
    <3>1. raising' # "YIELD"
      <4> SUFFICES ASSUME raising' = "YIELD" PROVE FALSE OBVIOUS
      <4>1. Locked(cstack, t, n) = 0 BY LuaFacts
      <4> HIDE DEF n
      <4> QED BY <1>1, <2>3, <4>1, LockedZero
    <3> QED BY <1>5, <2>3, <3>1
  <2> QED BY <2>2, <2>3
<1>9. RaisingOK(cstack, ci', nny, raising')
  <2>1. ASSUME NEW j \in 1..n
        PROVE  /\ cstack[j].ci < Len(ci'[cstack[j].t])
               /\ cstack[j].k = "resume" =>
                    ci'[cstack[j - 1].t][Len(ci'[cstack[j - 1].t])].kind \in {"resume", "wrap"}
    <3>1. cstack[j].ci \in Nat /\ cstack[j].t \in AllThreads BY <1>1, <1>2, RunningActs
    <3>2. /\ cstack[j].ci < Len(ci[cstack[j].t])
          /\ cstack[j].k = "resume" =>
               ci[cstack[j - 1].t][Len(ci[cstack[j - 1].t])].kind \in {"resume", "wrap"}
      BY <1>1, <1>2 DEF RaisingOK
    <3>3. cstack[j].ci < Len(ci'[cstack[j].t])
      <4>1. CASE cstack[j].t # t BY <1>4, <3>1, <3>2, <4>1
      <4>2. CASE cstack[j].t = t
        <5> DEFINE p == cstack[j].ci
                   l == Len(ci[t])
                   l2 == Len(g)
        <5>1. p \in Nat /\ l \in Nat /\ l2 \in Nat /\ p < l /\ l2 >= l BY <1>1, <1>3, <3>1, <4>2
        <5> HIDE DEF p, l, l2
        <5>2. p < l2 BY <5>1
        <5> QED BY <1>4, <4>2, <5>2 DEF p, l2
      <4> QED BY <4>1, <4>2
    <3>4. ASSUME cstack[j].k = "resume"
          PROVE  ci'[cstack[j - 1].t][Len(ci'[cstack[j - 1].t])].kind \in {"resume", "wrap"}
      <4>1. j - 1 \in 1..n /\ cstack[j - 1].t # t BY <1>1, <1>2, <3>4, ResumerWaits
      <4>2. cstack[j - 1].t \in AllThreads BY <1>1, <1>2, <4>1, RunningActs
      <4> QED BY <1>4, <3>2, <3>4, <4>1, <4>2
    <3> QED BY <3>3, <3>4
  <2> QED BY <1>1, <1>4, <2>1 DEF RaisingOK
<1> QED BY <1>2, <1>4, <1>5, <1>6, <1>7, <1>8, <1>9 DEF CoInv

\* A Lua function calls another.
LEMMA CallLuaStep ==
  ASSUME CoInv, NEW t \in AllThreads, K!CallLua(t)
  PROVE  CoInv'
PROOF
<1> DEFINE x == [kind |-> "lua", ypcall |-> FALSE]
           g == Append(ci[t], x)
<1>1. K!InLua(t) BY DEF K!CallLua
<1>2. ActsOK(cstack) /\ ThreadOK(cstack, t, ci[t]) /\ Len(ci[t]) \in Nat BY <1>1, LuaFacts DEF CoInv
<1>3. x \in CoFrames /\ ~x.ypcall /\ x.kind = "lua" BY DEF CoFrames
<1>4. ci' = [ci EXCEPT ![t] = g]
      /\ status' = status /\ nny' = nny /\ nCcalls' = nCcalls /\ values' = values /\ cstack' = cstack
      /\ raising' = raising /\ ended' = ended
  BY DEF K!CallLua, K!Frame
<1> HIDE DEF x
<1>5. ThreadOK(cstack, t, g) /\ Len(g) = Len(ci[t]) + 1 BY <1>2, <1>3, ThreadFrame
<1>6. Len(g) >= Len(ci[t]) BY <1>2, <1>5
<1>7. raising' = "no" BY <1>1, <1>4 DEF K!InLua
<1> HIDE DEF g
<1> QED BY <1>1, <1>4, <1>5, <1>6, <1>7, SameStack

\* An error is thrown, by Lua or by a refused resume, or nothing happens.
LEMMA RaiseStep ==
  ASSUME CoInv, NEW t \in AllThreads, K!InLua(t),
         ci' = ci, status' = status, nny' = nny, nCcalls' = nCcalls, values' = values,
         cstack' = cstack, ended' = ended, raising' \in {"no", "ERRRUN"}
  PROVE  CoInv'
PROOF
<1> DEFINE g == ci[t]
<1>1. ThreadOK(cstack, t, g) /\ Len(g) \in Nat BY LuaFacts
<1>2. ci' = [ci EXCEPT ![t] = g] BY DEF CoInv
<1>3. Len(g) >= Len(ci[t]) BY <1>1
<1>4. raising' \in {"no", "ERRRUN", "YIELD"} /\ raising' # "YIELD" OBVIOUS
<1> HIDE DEF g
<1> QED BY <1>1, <1>2, <1>3, <1>4, SameStack

\* A function yields, or fails to.
LEMMA YieldStep ==
  ASSUME CoInv, NEW t \in AllThreads, K!lua_yieldk(t)
  PROVE  CoInv'
PROOF
<1> DEFINE x == [kind |-> "yield", ypcall |-> FALSE]
           g == Append(ci[t], x)
<1>1. K!InLua(t) BY DEF K!lua_yieldk
<1>2. /\ ActsOK(cstack) /\ ThreadOK(cstack, t, ci[t]) /\ Len(ci[t]) \in Nat /\ Len(ci[t]) > 0
      /\ \A j \in 1..Len(cstack) : cstack[j].t = t => cstack[j].ci < Len(ci[t])
      /\ nny[t] = Locked(cstack, t, Len(cstack)) /\ Len(cstack) \in Nat
  BY <1>1, LuaFacts DEF CoInv
<1>3. x \in CoFrames /\ ~x.ypcall /\ x.kind \in {"resume", "wrap", "yield"} BY DEF CoFrames
<1>4. /\ ci' = [ci EXCEPT ![t] = g] /\ nny' = nny /\ nCcalls' = nCcalls /\ values' = values
      /\ cstack' = cstack /\ ended' = ended
      /\ nny[t] > 0 => raising' = "ERRRUN" /\ status' = status
      /\ ~(nny[t] > 0) => raising' = "YIELD" /\ status' = [status EXCEPT ![t] = "YIELD"]
  BY DEF K!lua_yieldk, K!Frame
<1> HIDE DEF x
<1>5. ThreadOK(cstack, t, g) /\ Len(g) = Len(ci[t]) + 1 BY <1>2, <1>3, ThreadFrame
<1>6. Len(g) >= Len(ci[t]) /\ Len(g) >= 2 BY <1>2, <1>5
<1>7. ~(nny[t] > 0) => nny[t] = 0
  <2> DEFINE l == Locked(cstack, t, Len(cstack))
  <2>1. l \in Nat /\ nny[t] = l BY <1>2, LockedNext
  <2> HIDE DEF l
  <2> QED BY <2>1
<1> HIDE DEF g
<1> QED BY <1>1, <1>4, <1>5, <1>6, <1>7, SameStack

\* A coroutine is created.
LEMMA CreateStep ==
  ASSUME CoInv, NEW t \in AllThreads, NEW co \in Coroutines, K!luaB_cocreate(t, co)
  PROVE  CoInv'
PROOF
<1>1. /\ co \notin ended /\ values' = [values EXCEPT ![co] = TRUE]
      /\ ci' = ci /\ status' = status /\ nny' = nny /\ nCcalls' = nCcalls /\ cstack' = cstack
      /\ raising' = raising /\ ended' = ended
  BY DEF K!luaB_cocreate
<1>2. values' \in [AllThreads -> BOOLEAN] /\ \A x \in AllThreads : x # co => values'[x] = values[x]
  BY <1>1 DEF CoInv
<1>3. ASSUME NEW x \in AllThreads
      PROVE  StatusOK(cstack, x, ci[x], status[x], values'[x], ended, raising)
  <2>1. StatusOK(cstack, x, ci[x], status[x], values[x], ended, raising) BY DEF CoInv
  <2> QED BY <1>1, <1>2, <2>1 DEF StatusOK
<1> QED BY <1>1, <1>2, <1>3 DEF CoInv
\* A call from C: the frames of its thread are g, and one of Lua if there is room for
\* the call.
LEMMA Enters ==
  ASSUME CoInv, NEW t \in AllThreads, NEW g, NEW k, K!EnterCall(t, g, k),
         k \in {"pcall", "call", "callnoyield"}, raising = "no", t \notin ended, status[t] = "OK",
         IF Len(cstack) = 0 THEN t = Main ELSE t = cstack[Len(cstack)].t,
         nCcalls[t] = Len(cstack), nny[t] = Locked(cstack, t, Len(cstack)),
         Len(g) \in Nat, Len(g) >= Len(ci[t]),
         ActsOK(Append(cstack, K!Activation(t, k, Len(g), t))),
         ThreadOK(Append(cstack, K!Activation(t, k, Len(g), t)), t, g)
  PROVE  CoInv'
PROOF
<1> DEFINE n == Len(cstack)
           a == K!Activation(t, k, Len(g), t)
           c2 == Append(cstack, a)
           x == [kind |-> "lua", ypcall |-> FALSE]
           over == n + 1 >= LUAI_MAXCCALLS
           g2 == Append(g, x)
<1>1. cstack \in Seq(Acts) /\ n \in Nat /\ n < LUAI_MAXCCALLS /\ (raising = "no" /\ raising # "YIELD")
  BY DEF CoInv, ActsOK, RaisingOK
<1>2. /\ ci \in [AllThreads -> Seq(CoFrames)] /\ status \in [AllThreads -> {"OK", "YIELD", "ERRRUN"}]
      /\ nny \in [AllThreads -> Int] /\ nCcalls \in [AllThreads -> Int]
      /\ values \in [AllThreads -> BOOLEAN] /\ ended \subseteq Coroutines
      /\ ActsOK(cstack) /\ CountersOK(cstack, nny, nCcalls)
      /\ \A y \in AllThreads \ ended : ThreadOK(cstack, y, ci[y])
      /\ \A y \in AllThreads : StatusOK(cstack, y, ci[y], status[y], values[y], ended, raising)
      /\ status[Main] = "OK" /\ RaisingOK(cstack, ci, nny, raising)
  BY DEF CoInv
<1>3. /\ a.t = t /\ a.k = k /\ a.ci = Len(g) /\ a \in Acts
  BY <1>2 DEF K!Activation, Acts
<1>4. /\ cstack' = c2 /\ status' = status /\ values' = values /\ ended' = ended
      /\ nCcalls' = [nCcalls EXCEPT ![t] = @ + 1]
      /\ nny' = IF k = "call" THEN nny ELSE [nny EXCEPT ![t] = @ + 1]
      /\ over => ci' = [ci EXCEPT ![t] = g] /\ raising' = "ERRRUN"
      /\ ~over => ci' = [ci EXCEPT ![t] = g2] /\ raising' = "no"
  BY DEF K!EnterCall, K!Frame
<1>5. ActsOK(c2) /\ ThreadOK(c2, t, g) /\ g \in Seq(CoFrames) BY DEF ThreadOK
<1>6. /\ Len(c2) = n + 1 /\ c2[n + 1] = a /\ \A i \in 1..n : c2[i] = cstack[i]
  BY <1>1, <1>3, AppendFacts
<1>7. n > 0 => \A j \in 1..n : cstack[j].ci \in Nat /\ cstack[j].t \in AllThreads
  BY <1>2, RunningActs
<1>8. x \in CoFrames /\ ~x.ypcall /\ x.kind = "lua" BY DEF CoFrames
<1>9. ThreadOK(c2, t, g2) /\ g2 \in Seq(CoFrames) /\ Len(g2) = Len(g) + 1
  <2> HIDE DEF c2, x
  <2>1. ThreadOK(c2, t, g2) /\ Len(g2) = Len(g) + 1 BY <1>5, <1>8, ThreadFrame
  <2> QED BY <2>1 DEF ThreadOK
<1> HIDE DEF a, c2, x, g2
<1>10. \A y : InCo(c2, y) <=> InCo(cstack, y) \/ y = t BY <1>1, <1>3, InAppend DEF c2
<1>11. /\ nCcalls' \in [AllThreads -> Int] /\ nCcalls'[t] = n + 1
       /\ \A y \in AllThreads : y # t => nCcalls'[y] = nCcalls[y]
  BY <1>1, <1>2, <1>4
<1>12. /\ nny' \in [AllThreads -> Int] /\ nny'[t] = Locked(c2, t, n + 1)
       /\ \A y \in AllThreads : y # t => nny'[y] = nny[y]
  <2> DEFINE l == Locked(cstack, t, n)
             l2 == Locked(c2, t, n + 1)
  <2>1. Locked(c2, t, n) = l BY <1>1, <1>6, LockedSame
  <2>2. l \in Nat /\ (k \in Locking => l2 = l + 1) /\ (k \notin Locking => l2 = l)
    BY <1>1, <1>3, <1>6, <2>1, LockedNext
  <2>3. nny[t] = l OBVIOUS
  <2>4. k = "call" <=> k \notin Locking BY DEF Locking
  <2> HIDE DEF l, l2
  <2>5. CASE k = "call" BY <1>2, <1>4, <2>2, <2>3, <2>4, <2>5 DEF l2
  <2>6. CASE k # "call" BY <1>2, <1>4, <2>2, <2>3, <2>4, <2>6 DEF l2
  <2> QED BY <2>5, <2>6
<1>13. CountersOK(c2, nny', nCcalls')
  <2>1. n > 0 => a.t = cstack[n].t \/ \A j \in 1..n : cstack[j].t # a.t BY <1>3
  <2>2. nny'[a.t] = Locked(Append(cstack, a), a.t, n + 1) BY <1>3, <1>12 DEF c2
  <2>3. nCcalls'[a.t] = n + 1 BY <1>3, <1>11
  <2>4. \A y \in AllThreads : y # a.t => nny'[y] = nny[y] /\ nCcalls'[y] = nCcalls[y]
    BY <1>3, <1>11, <1>12
  <2>5. ActsOK(cstack) /\ CountersOK(cstack, nny, nCcalls) BY <1>2
  <2>6. a \in Acts BY <1>3
  <2> DEFINE nn2 == nny'
             nc2 == nCcalls'
  <2>7. /\ Len(cstack) > 0 => a.t = cstack[Len(cstack)].t \/ \A j \in 1..Len(cstack) : cstack[j].t # a.t
        /\ \A y \in AllThreads : y # a.t => nn2[y] = nny[y] /\ nc2[y] = nCcalls[y]
        /\ nc2[a.t] = Len(cstack) + 1 /\ nn2[a.t] = Locked(Append(cstack, a), a.t, Len(cstack) + 1)
    BY <2>1, <2>2, <2>3, <2>4
  <2> HIDE DEF nn2, nc2, n
  <2>8. CountersOK(Append(cstack, a), nn2, nc2)
    BY <2>5, <2>6, <2>7, CountersAppend
  <2> QED BY <2>8 DEF c2, nn2, nc2
<1>14. /\ ci' \in [AllThreads -> Seq(CoFrames)] /\ \A y \in AllThreads : y # t => ci'[y] = ci[y]
       /\ ci'[t] = g \/ ci'[t] = g2
       /\ ThreadOK(c2, t, ci'[t]) /\ Len(ci'[t]) \in Nat /\ Len(ci'[t]) >= Len(g)
       /\ over => raising' = "ERRRUN"
       /\ ~over => raising' = "no" /\ Len(ci'[t]) = Len(g) + 1
  <2> DEFINE h == IF over THEN g ELSE g2
  <2>1. /\ ci' = [ci EXCEPT ![t] = h] /\ h \in Seq(CoFrames) /\ ThreadOK(c2, t, h) /\ h \in {g, g2}
        /\ (over => h = g /\ raising' = "ERRRUN") /\ (~over => h = g2 /\ raising' = "no")
    <3> HIDE DEF over
    <3>1. CASE over BY <1>4, <1>5, <3>1
    <3>2. CASE ~over BY <1>4, <1>9, <3>2
    <3> QED BY <3>1, <3>2
  <2> HIDE DEF over, h
  <2>2. ci' \in [AllThreads -> Seq(CoFrames)] /\ ci'[t] = h /\ \A y \in AllThreads : y # t => ci'[y] = ci[y]
    BY <1>2, <2>1
  <2>3. Len(h) \in Nat /\ Len(h) >= Len(g) /\ (~over => Len(h) = Len(g) + 1)
    BY <1>9, <2>1
  <2> QED BY <2>1, <2>2, <2>3
<1>15. ASSUME NEW y \in AllThreads \ ended PROVE ThreadOK(c2, y, ci'[y])
  <2>1. CASE y = t BY <1>14, <2>1
  <2>2. CASE y # t
    <3>1. ThreadOK(cstack, y, ci[y]) BY <1>2
    <3>2. \A j \in 1..n : j \in 1..(n + 1) /\ c2[j] = cstack[j] BY <1>1, <1>6
    <3>3. \A j \in 1..(n + 1) : j \in 1..n \/ j = n + 1 BY <1>1
    <3>4. \A j \in 1..(n + 1) : c2[j].t = y => j \in 1..n /\ c2[j] = cstack[j]
      BY <1>3, <1>6, <2>2, <3>2, <3>3
    <3>5. \A j \in 1..n : cstack[j].t = y => j \in 1..Len(c2) /\ c2[j] = cstack[j] BY <1>6, <3>2
    <3>6. \A j \in 1..Len(c2) : c2[j].t = y => j \in 1..n /\ c2[j] = cstack[j] BY <1>6, <3>4
    <3>7. ThreadOK(c2, y, ci[y]) BY <3>1, <3>5, <3>6, ThreadSame
    <3> QED BY <1>14, <2>2, <3>7
  <2> QED BY <2>1, <2>2
<1>16. ASSUME NEW y \in AllThreads
       PROVE  StatusOK(c2, y, ci'[y], status[y], values[y], ended, raising')
  <2>1. raising' # "YIELD" BY <1>14
  <2>2. CASE y = t BY <1>10, <2>1, <2>2 DEF StatusOK
  <2>3. CASE y # t
    <3>1. StatusOK(cstack, y, ci[y], status[y], values[y], ended, raising) BY <1>2
    <3>2. InCo(c2, y) <=> InCo(cstack, y) BY <1>10, <2>3
    <3> QED BY <1>1, <1>14, <2>1, <2>3, <3>1, <3>2, StatusSame
  <2> QED BY <2>2, <2>3
<1>17. RaisingOK(c2, ci', nny', raising')
  <2>1. raising' \in {"no", "ERRRUN"} /\ raising' # "YIELD" BY <1>14
  <2>2. raising' = "no" => Len(c2) < LUAI_MAXCCALLS
    <3>1. raising' = "no" => ~over BY <1>14
    <3> QED BY <1>1, <1>6, <3>1, CoConstants
  <2>3. Len(c2) > 0 BY <1>1, <1>6
  <2>4. ASSUME NEW j \in 1..(n + 1)
        PROVE  /\ c2[j].ci < Len(ci'[c2[j].t]) \/ (j = n + 1 /\ raising' = "ERRRUN")
               /\ c2[j].k = "resume" =>
                    ci'[c2[j - 1].t][Len(ci'[c2[j - 1].t])].kind \in {"resume", "wrap"}
    <3>1. CASE j = n + 1
      <4>1. c2[j] = a /\ a.k # "resume" BY <1>3, <1>6, <3>1
      <4>2. over => raising' = "ERRRUN" BY <1>14
      <4>3. ~over => a.ci < Len(ci'[a.t])
        <5>1. ~over => Len(ci'[a.t]) = Len(g) + 1 BY <1>3, <1>14
        <5> QED BY <1>3, <5>1
      <4> QED BY <3>1, <4>1, <4>2, <4>3
    <3>2. CASE j # n + 1
      <4>1. j \in 1..n /\ n > 0 BY <1>1, <3>2
      <4>2. c2[j] = cstack[j] /\ cstack[j].ci \in Nat /\ cstack[j].t \in AllThreads
        BY <1>6, <1>7, <4>1
      <4>3. /\ cstack[j].ci < Len(ci[cstack[j].t])
            /\ cstack[j].k = "resume" =>
                 ci[cstack[j - 1].t][Len(ci[cstack[j - 1].t])].kind \in {"resume", "wrap"}
        BY <1>1, <1>2, <4>1 DEF RaisingOK
      <4>4. cstack[j].ci < Len(ci'[cstack[j].t])
        <5>1. CASE cstack[j].t # t BY <1>14, <4>2, <4>3, <5>1
        <5>2. CASE cstack[j].t = t
          <6> DEFINE p == cstack[j].ci
                     l == Len(ci[t])
                     l2 == Len(ci'[t])
          <6>1. ci[t] \in Seq(CoFrames) BY <1>2
          <6>2. p \in Nat /\ l \in Nat /\ l2 \in Nat /\ p < l /\ Len(g) >= l /\ l2 >= Len(g)
            BY <1>14, <4>2, <4>3, <5>2, <6>1
          <6> HIDE DEF p, l, l2
          <6>3. p < l2 BY <6>2
          <6> QED BY <5>2, <6>3 DEF p, l2
        <5> QED BY <5>1, <5>2
      <4>5. ASSUME cstack[j].k = "resume"
            PROVE  ci'[c2[j - 1].t][Len(ci'[c2[j - 1].t])].kind \in {"resume", "wrap"}
        <5>1. j - 1 \in 1..n /\ cstack[j - 1].t # cstack[n].t BY <1>2, <4>1, <4>5, ResumerWaits
        <5>2. cstack[j - 1].t \in AllThreads /\ c2[j - 1] = cstack[j - 1] /\ n # 0
          BY <1>1, <1>6, <1>7, <4>1, <5>1
        <5>3. cstack[j - 1].t # t BY <5>1, <5>2
        <5> QED BY <1>14, <4>3, <4>5, <5>2, <5>3
      <4> QED BY <4>2, <4>4, <4>5
    <3> QED BY <3>1, <3>2
  <2> QED BY <1>6, <2>1, <2>2, <2>3, <2>4 DEF RaisingOK
<1> QED BY <1>2, <1>4, <1>5, <1>11, <1>12, <1>13, <1>14, <1>15, <1>16, <1>17 DEF CoInv

\* The firmware calls into the main thread.
LEMMA FirstCallStep == ASSUME CoInv, K!PCallFromMain PROVE CoInv'
PROOF
<1> DEFINE a == K!Activation(Main, "pcall", Len(<<>>), Main)
<1>1. cstack = <<>> /\ K!EnterCall(Main, <<>>, "pcall") BY DEF K!PCallFromMain
<1>2. Len(cstack) = 0 /\ Len(<<>>) = 0 BY <1>1
<1>3. Main \in AllThreads /\ Main \notin ended BY CoConstants DEF AllThreads, CoInv
<1>4. nny[Main] = 1 /\ nCcalls[Main] = 0 BY <1>2 DEF CoInv, CountersOK
<1>5. raising = "no" /\ status[Main] = "OK" BY <1>2 DEF CoInv, RaisingOK
<1>6. ci[Main] = <<>>
  <2>1. ~InCo(cstack, Main) BY <1>2 DEF InCo
  <2>2. StatusOK(cstack, Main, ci[Main], status[Main], values[Main], ended, raising)
    BY <1>3 DEF CoInv
  <2> QED BY <1>3, <1>5, <2>1, <2>2 DEF StatusOK
<1>7. a \in Acts /\ a.t = Main /\ a.k = "pcall" /\ a.ci = 0 /\ a.nCcalls = 0 /\ a.nny = 1
  BY <1>2, <1>3, <1>4 DEF K!Activation, Acts
<1>8. ActsOK(Append(cstack, a)) /\ ThreadOK(Append(cstack, a), Main, <<>>)
  <2> HIDE DEF a
  <2> QED BY <1>1, <1>7, ActsFirst, ThreadStarts
<1>9. Locked(cstack, Main, Len(cstack)) = 1 BY <1>2, LockedStart
<1>10. IF Len(cstack) = 0 THEN Main = Main ELSE Main = cstack[Len(cstack)].t BY <1>2
<1>11. "pcall" \in {"pcall", "call", "callnoyield"} OBVIOUS
<1> DEFINE g == <<>>
<1>12. Len(g) \in Nat /\ Len(g) >= Len(ci[Main]) BY <1>2, <1>6
<1> HIDE DEF g
<1> QED BY <1>1, <1>2, <1>3, <1>4, <1>5, <1>8, <1>9, <1>11, <1>12, Enters DEF g, a

\* The calls from a Lua function of a thread.
LEMMA CallStep ==
  ASSUME CoInv, NEW t \in AllThreads, K!InLua(t), NEW g \in Seq(CoFrames), NEW k, K!EnterCall(t, g, k),
         \A d \in 1..Len(ci[t]) : g[d] = ci[t][d],
         \/ Len(g) = Len(ci[t]) /\ k = "call"
         \/ /\ Len(g) = Len(ci[t]) + 1
            /\ \/ g[Len(g)].kind = "sort" /\ ~g[Len(g)].ypcall /\ k = "callnoyield"
               \/ g[Len(g)].kind = "pcall" /\ ~g[Len(g)].ypcall /\ k = "pcall"
               \/ g[Len(g)].kind = "pcall" /\ k = "call" /\ g[Len(g)].ypcall /\ nny[t] = 0
  PROVE  CoInv'
PROOF
<1> DEFINE n == Len(cstack)
           a == K!Activation(t, k, Len(g), t)
           f == ci[t]
<1>1. /\ n \in Nat /\ n > 0 /\ n < LUAI_MAXCCALLS /\ cstack \in Seq(Acts)
      /\ t = cstack[n].t /\ t \notin ended /\ raising = "no" /\ status[t] = "OK"
      /\ ThreadOK(cstack, t, f) /\ Len(f) \in Nat /\ Len(f) > 0
      /\ \A j \in 1..n : cstack[j].t = t => cstack[j].ci < Len(f)
      /\ nCcalls[t] = n /\ nny[t] = Locked(cstack, t, n) /\ ActsOK(cstack)
  BY LuaFacts DEF CoInv
<1>2. Len(g) \in Nat /\ Len(g) >= Len(f) /\ Len(g) > 0 BY <1>1
<1>3. k \in {"pcall", "call", "callnoyield"} OBVIOUS
<1>4. /\ a \in Acts /\ a.t = t /\ a.k = k /\ a.ci = Len(g) /\ a.nCcalls = n /\ a.nny = Locked(cstack, t, n)
  <2>1. nny[t] \in Int /\ nCcalls[t] \in Int BY DEF CoInv
  <2> QED BY <1>1, <1>2, <1>3, <2>1 DEF K!Activation, Acts
<1>5. a.k # "resume" /\ a.ci > 0 BY <1>2, <1>3, <1>4
<1>6. \A j \in 1..n : cstack[j].t = a.t => cstack[j].ci < a.ci
  <2> SUFFICES ASSUME NEW j \in 1..n, cstack[j].t = t PROVE cstack[j].ci < Len(g) BY <1>4
  <2> DEFINE p == cstack[j].ci
             l == Len(f)
             l2 == Len(g)
  <2>1. p \in Nat /\ p < l /\ l \in Nat /\ l2 \in Nat /\ l2 >= l BY <1>1, <1>2, RunningActs
  <2> HIDE DEF p, l, l2
  <2>2. p < l2 BY <2>1
  <2> QED BY <2>2 DEF p, l2
<1>7. nny[t] = 0 => \A j \in 1..n : cstack[j].t = t => cstack[j].k \notin Locking
  BY <1>1, LockedZero
<1>8. \/ Len(g) = Len(f) /\ a.k = "call"
      \/ /\ Len(g) = Len(f) + 1
         /\ \/ g[Len(g)].kind = "sort" /\ ~g[Len(g)].ypcall /\ a.k = "callnoyield"
            \/ g[Len(g)].kind = "pcall" /\ ~g[Len(g)].ypcall /\ a.k = "pcall"
            \/ /\ g[Len(g)].kind = "pcall" /\ a.k = "call"
               /\ g[Len(g)].ypcall /\ \A j \in 1..n : cstack[j].t = t => cstack[j].k \notin Locking
  BY <1>4, <1>7
<1>9. \A d \in 1..Len(f) : g[d] = f[d] OBVIOUS
<1> HIDE DEF a, f
<1>10. ActsOK(Append(cstack, a)) BY <1>1, <1>4, <1>5, <1>6, ActsCall
<1>11. ThreadOK(Append(cstack, a), t, g)
  BY <1>1, <1>2, <1>4, <1>8, <1>9, ThreadCalls
<1>12. IF Len(cstack) = 0 THEN t = Main ELSE t = cstack[Len(cstack)].t BY <1>1
<1> QED BY <1>1, <1>2, <1>3, <1>10, <1>11, <1>12, Enters DEF a, f

\* A metamethod is called.
LEMMA MetamethodStep ==
  ASSUME CoInv, NEW t \in AllThreads, K!CallMetamethod(t)
  PROVE  CoInv'
PROOF
<1> DEFINE g == ci[t]
           k == "call"
<1>1. K!InLua(t) /\ K!EnterCall(t, g, k) BY DEF K!CallMetamethod
<1>2. g \in Seq(CoFrames) BY <1>1, LuaFacts
<1>3. (\A d \in 1..Len(ci[t]) : g[d] = ci[t][d]) /\ Len(g) = Len(ci[t]) /\ k = "call" OBVIOUS
<1> HIDE DEF g, k
<1> QED BY <1>1, <1>2, <1>3, CallStep

\* A C function without a continuation calls back.
LEMMA SortStep ==
  ASSUME CoInv, NEW t \in AllThreads, K!CallSort(t)
  PROVE  CoInv'
PROOF
<1> DEFINE x == [kind |-> "sort", ypcall |-> FALSE]
           g == Append(ci[t], x)
           k == "callnoyield"
<1>1. K!InLua(t) /\ K!EnterCall(t, g, k) BY DEF K!CallSort, K!Frame
<1>2. x \in CoFrames /\ x.kind = "sort" /\ ~x.ypcall BY DEF CoFrames
<1>3. ci[t] \in Seq(CoFrames) BY <1>1, LuaFacts
<1>4. /\ g \in Seq(CoFrames) /\ Len(g) = Len(ci[t]) + 1 /\ g[Len(ci[t]) + 1] = x
      /\ \A d \in 1..Len(ci[t]) : g[d] = ci[t][d]
  <2> HIDE DEF x
  <2> QED BY <1>2, <1>3, AppendFacts
<1>5. g[Len(g)].kind = "sort" /\ ~g[Len(g)].ypcall /\ k = "callnoyield" BY <1>2, <1>4
<1> HIDE DEF g, k
<1> QED BY <1>1, <1>4, <1>5, CallStep

\* A pcall, with a place to jump to or with its flag.
LEMMA PcallStep ==
  ASSUME CoInv, NEW t \in AllThreads, K!lua_pcallk(t)
  PROVE  CoInv'
PROOF
<1> DEFINE y == ~(nny[t] > 0)
           x == [kind |-> "pcall", ypcall |-> y]
           g == Append(ci[t], x)
           k == IF y THEN "call" ELSE "pcall"
<1>1. K!InLua(t) BY DEF K!lua_pcallk
<1>2. K!EnterCall(t, g, k)
  <2>1. CASE nny[t] > 0
    <3>1. y = FALSE /\ k = "pcall" BY <2>1
    <3> QED BY <2>1, <3>1 DEF K!lua_pcallk, K!Frame
  <2>2. CASE ~(nny[t] > 0)
    <3>1. y = TRUE /\ k = "call" BY <2>2
    <3> QED BY <2>2, <3>1 DEF K!lua_pcallk, K!Frame
  <2> QED BY <2>1, <2>2
<1>3. y \in BOOLEAN /\ (y => k = "call" /\ nny[t] = 0) /\ (~y => k = "pcall")
  <2> DEFINE l == Locked(cstack, t, Len(cstack))
  <2>1. l \in Nat /\ nny[t] = l BY <1>1, LuaFacts, LockedNext
  <2> HIDE DEF l
  <2> QED BY <2>1
<1> HIDE DEF y
<1>4. x \in CoFrames /\ x.kind = "pcall" /\ x.ypcall = y BY <1>3 DEF CoFrames
<1>5. ci[t] \in Seq(CoFrames) BY <1>1, LuaFacts
<1>6. /\ g \in Seq(CoFrames) /\ Len(g) = Len(ci[t]) + 1 /\ g[Len(ci[t]) + 1] = x
      /\ \A d \in 1..Len(ci[t]) : g[d] = ci[t][d]
  <2> HIDE DEF x
  <2> QED BY <1>4, <1>5, AppendFacts
<1>7. g[Len(g)].kind = "pcall" /\ g[Len(g)].ypcall = y BY <1>4, <1>6
<1>8. \/ g[Len(g)].kind = "pcall" /\ ~g[Len(g)].ypcall /\ k = "pcall"
      \/ g[Len(g)].kind = "pcall" /\ k = "call" /\ g[Len(g)].ypcall /\ nny[t] = 0
  BY <1>3, <1>7
<1> HIDE DEF g, k
<1> QED BY <1>1, <1>2, <1>6, <1>8, CallStep

\* A coroutine that is resumed: created and not started, or suspended.
LEMMA Resumable ==
  ASSUME CoInv, NEW t \in AllThreads, K!InLua(t), NEW co \in Coroutines, ~K!Refused(t, co)
  PROVE  /\ co \in AllThreads /\ co # Main /\ co # t /\ ~InCo(cstack, co) /\ co \notin ended
         /\ ThreadOK(cstack, co, ci[co]) /\ Len(cstack) + 1 < LUAI_MAXCCALLS
         /\ \/ status[co] = "YIELD" /\ Len(ci[co]) >= 2
            \/ status[co] = "OK" /\ ci[co] = <<>>
PROOF
<1> DEFINE n == Len(cstack)
<1>1. co \in AllThreads /\ co # Main BY CoConstants DEF AllThreads
<1>2. /\ n \in Nat /\ n > 0 /\ nCcalls[t] = n /\ raising = "no" /\ (raising # "YIELD" /\ t = cstack[n].t)
  BY LuaFacts
<1>3. /\ status[co] # "OK" \/ ((ci[co] # <<>> \/ values[co]) /\ ci[co] = <<>>)
      /\ status[co] \in {"OK", "YIELD"} /\ ~(n + 1 >= LUAI_MAXCCALLS)
  BY <1>2 DEF K!Refused, K!gettop, K!errorstatus
<1>4. StatusOK(cstack, co, ci[co], status[co], values[co], ended, raising) BY <1>1 DEF CoInv
<1>5. ~InCo(cstack, co)
  <2> SUFFICES ASSUME InCo(cstack, co) PROVE FALSE OBVIOUS
  <2>1. ci[co] = <<>> BY <1>2, <1>3, <1>4 DEF StatusOK
  <2>2. PICK j \in 1..n : cstack[j].t = co BY DEF InCo
  <2>3. cstack[j].ci < Len(ci[co]) BY <1>2, <2>2 DEF CoInv, RaisingOK
  <2>4. cstack[j].ci \in Nat BY <1>2, RunningActs DEF CoInv
  <2>5. Len(ci[co]) = 0 BY <2>1
  <2> QED BY <2>3, <2>4, <2>5
<1>6. co # t
  <2>1. n \in 1..n BY <1>2
  <2> QED BY <1>2, <1>5, <2>1 DEF InCo
<1>7. co \notin ended BY <1>3, <1>4, <1>5 DEF StatusOK
<1>8. (status[co] = "YIELD" /\ Len(ci[co]) >= 2) \/ (status[co] = "OK" /\ ci[co] = <<>>)
  BY <1>4, <1>5, <1>7 DEF StatusOK
<1>9. ThreadOK(cstack, co, ci[co]) BY <1>1, <1>7 DEF CoInv
<1>10. n + 1 < LUAI_MAXCCALLS BY <1>2, <1>3, CoConstants
<1> QED BY <1>1, <1>5, <1>6, <1>7, <1>8, <1>9, <1>10

\* The frames with which the coroutine goes on.
LEMMA ResumedFrames ==
  ASSUME NEW c, ActsOK(c), NEW co, NEW f, ThreadOK(c, co, f), ~InCo(c, co), NEW s,
         (s = "YIELD" /\ Len(f) >= 2) \/ (s = "OK" /\ f = <<>>)
  PROVE  LET h == IF s = "OK" THEN <<[kind |-> "lua", ypcall |-> FALSE]>> ELSE SubSeq(f, 1, Len(f) - 1)
         IN  ThreadOK(c, co, h) /\ h \in Seq(CoFrames) /\ Len(h) \in Nat /\ Len(h) > 0
PROOF
<1> DEFINE x == [kind |-> "lua", ypcall |-> FALSE]
           h1 == <<x>>
           h2 == SubSeq(f, 1, Len(f) - 1)
           l == Len(f)
           n == Len(c)
<1>1. f \in Seq(CoFrames) /\ l \in Nat /\ n \in Nat /\ \A j \in 1..n : c[j].t # co
  BY DEF ThreadOK, InCo, ActsOK
<1>2. CASE s = "OK"
  <2>1. f = <<>> BY <1>2
  <2>2. x \in CoFrames /\ ~x.ypcall /\ x.kind = "lua" BY DEF CoFrames
  <2>3. h1 = Append(f, x) BY <2>1
  <2>4. ThreadOK(c, co, h1) /\ Len(h1) = l + 1
    <3> HIDE DEF x, h1
    <3> QED BY <2>2, <2>3, ThreadFrame
  <2>5. h1 \in Seq(CoFrames) /\ Len(h1) > 0 /\ Len(h1) \in Nat BY <1>1, <2>4 DEF ThreadOK
  <2> QED BY <1>2, <2>4, <2>5
<1>3. CASE s # "OK"
  <2>1. l >= 2 /\ l - 1 \in 0..l /\ l - 1 > 0 BY <1>1, <1>3
  <2>2. h2 \in Seq(CoFrames) /\ Len(h2) = l - 1 /\ \A d \in 1..(l - 1) : h2[d] = f[d]
    BY <1>1, <2>1, PrefixFacts
  <2>3. n \in 0..n /\ Len(c) = n /\ \A k \in 1..n : c[k] = c[k] BY <1>1
  <2>4. \A j \in 1..n : c[j].t = co => c[j].ci <= l - 1 BY <1>1
  <2>5. \A j \in (n + 1)..n : FALSE BY <1>1
  <2>6. \A j \in (n + 1)..n : c[j].t = co /\ c[j].k \in Locking /\ c[j].ci \in 1..(l - 1) =>
          f[c[j].ci].kind \notin {"sort", "pcall"}
    BY <2>5
  <2>7. ThreadOK(c, co, h2)
    <3> DEFINE c2 == c
               L == l - 1
    <3>1. Len(c2) = n /\ \A k \in 1..n : c2[k] = c[k] OBVIOUS
    <3>2. L \in 0..Len(f) /\ Len(h2) = L /\ (\A d \in 1..L : h2[d] = f[d])
          /\ (\A j \in 1..n : c[j].t = co => c[j].ci <= L)
          /\ \A j \in (n + 1)..Len(c) : c[j].t = co /\ c[j].k \in Locking /\ c[j].ci \in 1..L =>
               f[c[j].ci].kind \notin {"sort", "pcall"}
      BY <2>1, <2>2, <2>4, <2>6
    <3> HIDE DEF c2, L, h2
    <3>3. n \in 0..Len(c) BY <2>3
    <3>4. ThreadOK(c2, co, h2) BY <2>2, <3>1, <3>2, <3>3, ThreadCut
    <3> QED BY <3>4 DEF c2
  <2> QED BY <1>3, <2>1, <2>2, <2>7
<1> QED BY <1>2, <1>3

\* A coroutine is resumed, or refused.
LEMMA ResumeStep ==
  ASSUME CoInv, NEW t \in AllThreads, NEW co \in Coroutines, NEW kind \in {"resume", "wrap"},
         K!auxresume(t, co, kind)
  PROVE  CoInv'
PROOF
<1>1. K!InLua(t) BY DEF K!auxresume
<1>2. CASE K!Refused(t, co)
  <2>1. /\ ci' = ci /\ status' = status /\ nny' = nny /\ nCcalls' = nCcalls /\ values' = values
        /\ cstack' = cstack /\ ended' = ended /\ raising' \in {"no", "ERRRUN"}
    BY <1>2 DEF K!auxresume
  <2> QED BY <1>1, <2>1, RaiseStep
<1>3. CASE ~K!Refused(t, co)
  <2> DEFINE n == Len(cstack)
             a == [K!Activation(co, "resume", 0, t) EXCEPT !.nCcalls = nCcalls[t] + 1]
             c2 == Append(cstack, a)
             x == [kind |-> kind, ypcall |-> FALSE]
             g == Append(ci[t], x)
             h == IF status[co] = "OK" THEN <<[kind |-> "lua", ypcall |-> FALSE]>>
                  ELSE SubSeq(ci[co], 1, Len(ci[co]) - 1)
  <2>1. /\ n \in Nat /\ n > 0 /\ cstack \in Seq(Acts) /\ t = cstack[n].t /\ t \notin ended
        /\ ThreadOK(cstack, t, ci[t]) /\ Len(ci[t]) \in Nat /\ Len(ci[t]) > 0
        /\ \A j \in 1..n : cstack[j].t = t => cstack[j].ci < Len(ci[t])
        /\ nCcalls[t] = n /\ raising = "no" /\ raising # "YIELD" /\ status[t] = "OK"
    BY <1>1, LuaFacts
  <2>2. /\ co \in AllThreads /\ co # Main /\ co # t /\ ~InCo(cstack, co) /\ co \notin ended
        /\ ThreadOK(cstack, co, ci[co]) /\ n + 1 < LUAI_MAXCCALLS
        /\ \/ status[co] = "YIELD" /\ Len(ci[co]) >= 2
           \/ status[co] = "OK" /\ ci[co] = <<>>
    BY <1>1, <1>3, Resumable
  <2>3. /\ ci \in [AllThreads -> Seq(CoFrames)] /\ status \in [AllThreads -> {"OK", "YIELD", "ERRRUN"}]
        /\ nny \in [AllThreads -> Int] /\ nCcalls \in [AllThreads -> Int]
        /\ values \in [AllThreads -> BOOLEAN] /\ ended \subseteq Coroutines
        /\ ActsOK(cstack) /\ CountersOK(cstack, nny, nCcalls)
        /\ \A y \in AllThreads \ ended : ThreadOK(cstack, y, ci[y])
        /\ \A y \in AllThreads : StatusOK(cstack, y, ci[y], status[y], values[y], ended, raising)
        /\ status[Main] = "OK" /\ RaisingOK(cstack, ci, nny, raising)
    BY DEF CoInv
  <2>4. ThreadOK(cstack, co, h) /\ h \in Seq(CoFrames) /\ Len(h) \in Nat /\ Len(h) > 0
    <3> DEFINE f == ci[co]
               s == status[co]
    <3>1. ActsOK(cstack) /\ ThreadOK(cstack, co, f) /\ ~InCo(cstack, co)
          /\ ((s = "YIELD" /\ Len(f) >= 2) \/ (s = "OK" /\ f = <<>>))
      BY <2>2, <2>3
    <3> HIDE DEF f, s
    <3> QED BY <3>1, ResumedFrames DEF f, s
  <2>5. /\ a \in Acts /\ a.t = co /\ a.k = "resume" /\ a.ci = 0 /\ a.from = t /\ a.nCcalls = n + 1
    <3>1. a = [t |-> co, k |-> "resume", ci |-> 0, from |-> t, nny |-> nny[co], nCcalls |-> n + 1]
      BY <2>1 DEF K!Activation
    <3>2. nny[co] \in Int /\ n + 1 \in Int /\ co \in AllThreads BY <2>1, <2>2, <2>3
    <3> DEFINE nc == n + 1
    <3> HIDE DEF a, nc
    <3> QED BY <3>1, <3>2 DEF Acts, nc
  <2>6. x \in CoFrames /\ ~x.ypcall /\ x.kind \in {"resume", "wrap", "yield"} /\ x.kind = kind
    BY DEF CoFrames
  <2>7. /\ cstack' = c2 /\ ci' = [ci EXCEPT ![t] = g, ![co] = h]
        /\ status' = [status EXCEPT ![co] = "OK"]
        /\ nCcalls' = [nCcalls EXCEPT ![co] = n + 1] /\ nny' = [nny EXCEPT ![co] = 0]
        /\ values' = values /\ raising' = raising /\ ended' = ended
    <3>1. /\ cstack' = c2 /\ status' = [status EXCEPT ![co] = "OK"]
          /\ nCcalls' = [nCcalls EXCEPT ![co] = nCcalls[t] + 1] /\ nny' = [nny EXCEPT ![co] = 0]
          /\ values' = values /\ raising' = raising /\ ended' = ended
      BY <1>3 DEF K!auxresume
    <3>2. ci' = [ci EXCEPT ![t] = Append(@, [kind |-> kind, ypcall |-> FALSE]),
                           ![co] = IF status[co] = "OK" THEN <<[kind |-> "lua", ypcall |-> FALSE]>>
                                   ELSE SubSeq(@, 1, Len(@) - 1)]
      BY <1>3 DEF K!auxresume, K!Frame
    <3>3. ci' = [ci EXCEPT ![t] = g, ![co] = h] BY <2>2, <3>2
    <3> QED BY <2>1, <3>1, <3>3
  <2> HIDE DEF a, x, h
  <2>8. g \in Seq(CoFrames) /\ Len(g) = Len(ci[t]) + 1 /\ ThreadOK(cstack, t, g) /\ g[Len(g)] = x
    <3>1. ThreadOK(cstack, t, g) /\ Len(g) = Len(ci[t]) + 1
      <4> DEFINE f == ci[t]
      <4>1. ActsOK(cstack) /\ ThreadOK(cstack, t, f) /\ Len(f) > 0 BY <2>1, <2>3
      <4>2. \A j \in 1..Len(cstack) : cstack[j].t = t => cstack[j].ci < Len(f) BY <2>1
      <4> HIDE DEF f, n
      <4>3. ThreadOK(cstack, t, Append(f, x)) /\ Len(Append(f, x)) = Len(f) + 1
        BY <2>6, <4>1, <4>2, ThreadFrame
      <4> QED BY <4>3 DEF f
    <3>2. g[Len(ci[t]) + 1] = x BY <2>3, <2>6, AppendFacts
    <3> QED BY <3>1, <3>2 DEF ThreadOK
  <2>9. /\ Len(c2) = n + 1 /\ c2[n + 1] = a /\ \A i \in 1..n : c2[i] = cstack[i]
    BY <2>1, <2>5, AppendFacts
  <2>10. \A j \in 1..n : cstack[j].t # co /\ cstack[j].ci \in Nat /\ cstack[j].t \in AllThreads
    BY <2>1, <2>2, <2>3, RunningActs DEF InCo
  <2> HIDE DEF g
  <2>11. /\ ci' \in [AllThreads -> Seq(CoFrames)] /\ ci'[t] = g /\ ci'[co] = h
         /\ \A y \in AllThreads : y # t /\ y # co => ci'[y] = ci[y]
    BY <2>2, <2>3, <2>4, <2>7, <2>8
  <2>12. ActsOK(c2)
    <3>1. Len(cstack) > 0 /\ Len(cstack) + 1 < LUAI_MAXCCALLS BY <2>1, <2>2
    <3> QED BY <2>1, <2>3, <2>5, <2>10, <3>1, ActsResume
  <2>13. /\ nCcalls' \in [AllThreads -> Int] /\ nCcalls'[co] = n + 1
         /\ nny' \in [AllThreads -> Int] /\ nny'[co] = 0
         /\ status' \in [AllThreads -> {"OK", "YIELD", "ERRRUN"}] /\ status'[co] = "OK"
         /\ \A y \in AllThreads : y # co =>
              nCcalls'[y] = nCcalls[y] /\ nny'[y] = nny[y] /\ status'[y] = status[y]
    BY <2>1, <2>2, <2>3, <2>7
  <2>14. CountersOK(c2, nny', nCcalls')
    <3> DEFINE nn2 == nny'
               nc2 == nCcalls'
    <3>1. n + 1 \in Nat /\ \A j \in 1..(n + 1) : j \in 1..n \/ j = n + 1 BY <2>1
    <3>2. \A j \in 1..(n + 1) : c2[j].t = co => c2[j].k \notin Locking
      BY <2>5, <2>9, <2>10, <3>1 DEF Locking
    <3>3. Locked(c2, co, n + 1) = 0
      <4> HIDE DEF n, c2
      <4> QED BY <2>2, <3>1, <3>2, LockedNone
    <3>4. /\ Len(cstack) > 0 => a.t = cstack[Len(cstack)].t \/ \A j \in 1..Len(cstack) : cstack[j].t # a.t
          /\ \A y \in AllThreads : y # a.t => nn2[y] = nny[y] /\ nc2[y] = nCcalls[y]
          /\ nc2[a.t] = Len(cstack) + 1 /\ nn2[a.t] = Locked(Append(cstack, a), a.t, Len(cstack) + 1)
      BY <2>5, <2>10, <2>13, <3>3
    <3>5. ActsOK(cstack) /\ CountersOK(cstack, nny, nCcalls) /\ a \in Acts BY <2>3, <2>5
    <3> HIDE DEF nn2, nc2, n, c2
    <3>6. CountersOK(Append(cstack, a), nn2, nc2) BY <3>4, <3>5, CountersAppend
    <3> QED BY <3>6 DEF nn2, nc2, c2
  <2>15. ASSUME NEW y \in AllThreads \ ended PROVE ThreadOK(c2, y, ci'[y])
    <3>1. CASE y = co
      <4>1. \A j \in 1..Len(cstack) : cstack[j].t # co BY <2>10
      <4>2. ThreadOK(c2, co, h) BY <2>3, <2>4, <2>5, <4>1, ThreadResumed
      <4> QED BY <2>11, <3>1, <4>2
    <3>2. CASE y # co
      <4>1. ThreadOK(cstack, y, ci'[y]) BY <2>3, <2>8, <2>11, <3>2
      <4>2. \A j \in 1..n : j \in 1..(n + 1) /\ c2[j] = cstack[j] BY <2>1, <2>9
      <4>3. \A j \in 1..(n + 1) : j \in 1..n \/ j = n + 1 BY <2>1
      <4>4. \A j \in 1..(n + 1) : c2[j].t = y => j \in 1..n /\ c2[j] = cstack[j]
        BY <2>5, <2>9, <3>2, <4>2, <4>3
      <4>5. \A j \in 1..n : cstack[j].t = y => j \in 1..Len(c2) /\ c2[j] = cstack[j] BY <2>9, <4>2
      <4>6. \A j \in 1..Len(c2) : c2[j].t = y => j \in 1..n /\ c2[j] = cstack[j] BY <2>9, <4>4
      <4> DEFINE f == ci'[y]
      <4> HIDE DEF f, c2
      <4>7. ThreadOK(c2, y, f) BY <4>1, <4>5, <4>6, ThreadSame DEF f
      <4> QED BY <4>7 DEF f
    <3> QED BY <3>1, <3>2
  <2>16. \A y : InCo(c2, y) <=> InCo(cstack, y) \/ y = co BY <2>1, <2>5, InAppend
  <2>17. ASSUME NEW y \in AllThreads
         PROVE  StatusOK(c2, y, ci'[y], status'[y], values[y], ended, raising)
    <3>1. CASE y = co BY <2>1, <2>2, <2>13, <2>16, <3>1 DEF StatusOK
    <3>2. CASE y # co
      <4>1. StatusOK(cstack, y, ci[y], status[y], values[y], ended, raising) BY <2>3
      <4>2. InCo(c2, y) <=> InCo(cstack, y) BY <2>16, <3>2
      <4>3. CASE y = t
        <5>1. n \in 1..n BY <2>1
        <5>2. InCo(cstack, t) BY <2>1, <5>1 DEF InCo
        <5> QED BY <2>1, <2>13, <3>2, <4>2, <4>3, <5>2 DEF StatusOK
      <4>4. CASE y # t
        <5>1. StatusOK(c2, y, ci[y], status[y], values[y], ended, raising)
          BY <2>1, <4>1, <4>2, StatusSame
        <5> QED BY <2>11, <2>13, <3>2, <4>4, <5>1
      <4> QED BY <4>3, <4>4
    <3> QED BY <3>1, <3>2
  <2>18. RaisingOK(c2, ci', nny', raising)
    <3> DEFINE size2 == Len(c2)
    <3>0. raising \in {"no", "ERRRUN", "YIELD"} BY <2>1
    <3>1. size2 < LUAI_MAXCCALLS /\ size2 > 0
      <4>1. n \in Nat BY <2>1, Zenon
      <4>2. n + 1 < LUAI_MAXCCALLS BY <2>2, Zenon
      <4>3. size2 = n + 1 BY <2>9, Zenon
      <4> HIDE DEF n, size2
      <4> QED BY <4>1, <4>2, <4>3
    <3>2. ASSUME NEW j \in 1..(n + 1)
          PROVE  /\ c2[j].ci < Len(ci'[c2[j].t])
                 /\ c2[j].k = "resume" =>
                      ci'[c2[j - 1].t][Len(ci'[c2[j - 1].t])].kind \in {"resume", "wrap"}
      <4>1. CASE j = n + 1
        <5>1. c2[j] = a /\ c2[j - 1] = cstack[n] BY <2>1, <2>9, <4>1
        <5>2. c2[j].ci < Len(ci'[c2[j].t]) BY <2>4, <2>5, <2>11, <5>1
        <5>3. ci'[c2[j - 1].t] = g BY <2>1, <2>11, <5>1
        <5>4. g[Len(g)].kind \in {"resume", "wrap"}
          <6>1. x.kind = kind /\ kind \in {"resume", "wrap"} BY <2>6, Zenon
          <6>2. g[Len(g)] = x BY <2>8, Zenon
          <6> HIDE DEF x, g
          <6> QED BY <6>1, <6>2
        <5> QED BY <5>2, <5>3, <5>4
      <4>2. CASE j # n + 1
        <5>1. j \in 1..n BY <2>1, <4>2
        <5>2. c2[j] = cstack[j] /\ cstack[j].ci \in Nat /\ cstack[j].t \in AllThreads /\ cstack[j].t # co
          BY <2>9, <2>10, <5>1
        <5>3. /\ cstack[j].ci < Len(ci[cstack[j].t])
              /\ cstack[j].k = "resume" =>
                   ci[cstack[j - 1].t][Len(ci[cstack[j - 1].t])].kind \in {"resume", "wrap"}
          BY <2>1, <2>3, <5>1 DEF RaisingOK
        <5>4. cstack[j].ci < Len(ci'[cstack[j].t])
          <6>1. CASE cstack[j].t # t BY <2>11, <5>2, <5>3, <6>1
          <6>2. CASE cstack[j].t = t
            <7> DEFINE p == cstack[j].ci
                       l == Len(ci[t])
                       l2 == Len(g)
            <7>1. p \in Nat /\ l \in Nat /\ p < l /\ l2 = l + 1 BY <2>1, <2>8, <5>2, <5>3, <6>2
            <7> HIDE DEF p, l, l2
            <7>2. p < l2 BY <7>1
            <7> QED BY <2>11, <6>2, <7>2 DEF p, l2
          <6> QED BY <6>1, <6>2
        <5>5. ASSUME cstack[j].k = "resume"
              PROVE  ci'[c2[j - 1].t][Len(ci'[c2[j - 1].t])].kind \in {"resume", "wrap"}
          <6>1. j - 1 \in 1..n /\ cstack[j - 1].t # t BY <2>1, <2>3, <5>1, <5>5, ResumerWaits
          <6>2. cstack[j - 1].t \in AllThreads /\ c2[j - 1] = cstack[j - 1] /\ cstack[j - 1].t # co
            BY <2>9, <2>10, <6>1
          <6> QED BY <2>11, <5>3, <5>5, <6>1, <6>2
        <5> QED BY <5>2, <5>4, <5>5
      <4> QED BY <4>1, <4>2, Zenon
    <3>3. size2 = n + 1 /\ raising = "no" BY <2>1, <2>9
    <3> HIDE DEF c2, n
    <3> QED BY <3>0, <3>1, <3>2, <3>3 DEF RaisingOK
  <2>19. status'[Main] = "OK"
    <3>1. Main \in AllThreads BY DEF AllThreads
    <3> QED BY <2>2, <2>3, <2>13, <3>1
  <2> HIDE DEF c2
  <2> QED BY <2>3, <2>7, <2>11, <2>12, <2>13, <2>14, <2>15, <2>17, <2>18, <2>19 DEF CoInv
<1> QED BY <1>2, <1>3
-----------------------------------------------------------------------------
\* What holds while anything is on the stack of C.
LEMMA RunningFacts ==
  ASSUME CoInv, NEW t, Len(cstack) > 0, t = cstack[Len(cstack)].t
  PROVE  /\ Len(cstack) \in Nat /\ cstack \in Seq(Acts) /\ t \in AllThreads /\ t \notin ended
         /\ InCo(cstack, t) /\ (raising # "YIELD" => status[t] = "OK")
         /\ ThreadOK(cstack, t, ci[t]) /\ ci[t] \in Seq(CoFrames) /\ Len(ci[t]) \in Nat
         /\ Len(cstack) <= LUAI_MAXCCALLS /\ nny[t] = Locked(cstack, t, Len(cstack))
         /\ nCcalls[t] = Len(cstack)
         /\ \A j \in 1..Len(cstack) :
              /\ cstack[j].ci \in Nat /\ cstack[j].t \in AllThreads /\ ActOK(cstack, j)
              /\ cstack[j].ci < Len(ci[cstack[j].t]) \/ (j = Len(cstack) /\ raising = "ERRRUN")
              /\ cstack[j].k = "resume" =>
                   ci[cstack[j - 1].t][Len(ci[cstack[j - 1].t])].kind \in {"resume", "wrap"}
              /\ cstack[j].t = t => \A k \in j..Len(cstack) : cstack[k].t = t
PROOF
<1> DEFINE n == Len(cstack)
<1>1. /\ n \in Nat /\ n > 0 /\ cstack \in Seq(Acts) /\ t \in AllThreads /\ n <= LUAI_MAXCCALLS
      /\ \A j \in 1..n : cstack[j].ci \in Nat /\ cstack[j].t \in AllThreads /\ ActOK(cstack, j)
      /\ \A j \in 1..n : cstack[j].t = t => \A k \in j..n : cstack[k].t = t
  BY RunningActs DEF CoInv, ActsOK
<1>2. n \in 1..n BY <1>1
<1>3. InCo(cstack, t) BY <1>2 DEF InCo
<1>4. StatusOK(cstack, t, ci[t], status[t], values[t], ended, raising) BY <1>1 DEF CoInv
<1>5. t \notin ended /\ (raising # "YIELD" => status[t] = "OK") BY <1>3, <1>4 DEF StatusOK
<1>6. ThreadOK(cstack, t, ci[t]) BY <1>1, <1>5 DEF CoInv
<1>7. ci[t] \in Seq(CoFrames) /\ Len(ci[t]) \in Nat BY <1>6 DEF ThreadOK
<1>8. nny[t] = Locked(cstack, t, n) /\ nCcalls[t] = n BY <1>2 DEF CoInv, CountersOK
<1>9. \A j \in 1..n :
        /\ cstack[j].ci < Len(ci[cstack[j].t]) \/ (j = n /\ raising = "ERRRUN")
        /\ cstack[j].k = "resume" =>
             ci[cstack[j - 1].t][Len(ci[cstack[j - 1].t])].kind \in {"resume", "wrap"}
  BY DEF CoInv, RaisingOK
<1> QED BY <1>1, <1>3, <1>5, <1>6, <1>7, <1>8, <1>9

\* The running thread falls back to its first L frames and the first m calls, with
\* the counters of that place: a return, and an error that is caught.
FallsTo(t, m, L) ==
  /\ Len(cstack) > 0 /\ t = cstack[Len(cstack)].t /\ m \in 0..Len(cstack)
  /\ m > 0 => cstack[m].t = t
  /\ m = 0 => t = Main
  /\ m < LUAI_MAXCCALLS
  /\ cstack' = SubSeq(cstack, 1, m) /\ nny' = [nny EXCEPT ![t] = Locked(cstack, t, m)]
  /\ nCcalls' = [nCcalls EXCEPT ![t] = m]
  /\ L \in 0..Len(ci[t]) /\ ci' = [ci EXCEPT ![t] = SubSeq(@, 1, L)]
  /\ m = 0 => L = 0
  /\ \A j \in 1..m : cstack[j].t = t => cstack[j].ci < L
  /\ \A j \in (m + 1)..Len(cstack) :
       cstack[j].t = t /\ cstack[j].k \in Locking /\ cstack[j].ci \in 1..L =>
         ci[t][cstack[j].ci].kind \notin {"sort", "pcall"}
  /\ raising # "YIELD" /\ raising' = "no" /\ status' = status /\ values' = values /\ ended' = ended

\* A step that falls back keeps the invariant.
LEMMA CutBack ==
  ASSUME CoInv, NEW t, NEW m, NEW L, FallsTo(t, m, L)
  PROVE  CoInv'
PROOF
<1> SUFFICES
      ASSUME Len(cstack) > 0, t = cstack[Len(cstack)].t, m \in 0..Len(cstack),
             m > 0 => cstack[m].t = t, m = 0 => t = Main, m < LUAI_MAXCCALLS,
             cstack' = SubSeq(cstack, 1, m), nny' = [nny EXCEPT ![t] = Locked(cstack, t, m)],
             nCcalls' = [nCcalls EXCEPT ![t] = m],
             L \in 0..Len(ci[t]), ci' = [ci EXCEPT ![t] = SubSeq(@, 1, L)], m = 0 => L = 0,
             \A j \in 1..m : cstack[j].t = t => cstack[j].ci < L,
             \A j \in (m + 1)..Len(cstack) :
               cstack[j].t = t /\ cstack[j].k \in Locking /\ cstack[j].ci \in 1..L =>
                 ci[t][cstack[j].ci].kind \notin {"sort", "pcall"},
             raising # "YIELD", raising' = "no", status' = status, values' = values, ended' = ended
      PROVE  CoInv'
  BY DEF FallsTo
<1> DEFINE n == Len(cstack)
           c2 == SubSeq(cstack, 1, m)
           f == ci[t]
           f2 == SubSeq(f, 1, L)
<1>1. /\ n \in Nat /\ cstack \in Seq(Acts) /\ t \in AllThreads /\ t \notin ended
      /\ InCo(cstack, t) /\ status[t] = "OK" /\ ThreadOK(cstack, t, f) /\ f \in Seq(CoFrames)
      /\ \A j \in 1..n :
           /\ cstack[j].ci \in Nat /\ cstack[j].t \in AllThreads
           /\ cstack[j].ci < Len(ci[cstack[j].t]) \/ (j = n /\ raising = "ERRRUN")
           /\ cstack[j].k = "resume" =>
                ci[cstack[j - 1].t][Len(ci[cstack[j - 1].t])].kind \in {"resume", "wrap"}
           /\ cstack[j].t = t => \A k \in j..n : cstack[k].t = t
  BY RunningFacts
<1>2. /\ ci \in [AllThreads -> Seq(CoFrames)] /\ status \in [AllThreads -> {"OK", "YIELD", "ERRRUN"}]
      /\ nny \in [AllThreads -> Int] /\ nCcalls \in [AllThreads -> Int]
      /\ values \in [AllThreads -> BOOLEAN] /\ ended \subseteq Coroutines
      /\ ActsOK(cstack) /\ CountersOK(cstack, nny, nCcalls)
      /\ \A y \in AllThreads \ ended : ThreadOK(cstack, y, ci[y])
      /\ \A y \in AllThreads : StatusOK(cstack, y, ci[y], status[y], values[y], ended, raising)
      /\ status[Main] = "OK" /\ RaisingOK(cstack, ci, nny, raising)
  BY DEF CoInv
<1>3. /\ Len(c2) = m /\ \A k \in 1..m : c2[k] = cstack[k] /\ k \in 1..n
  BY <1>1, PrefixFacts
<1>4. f2 \in Seq(CoFrames) /\ Len(f2) = L /\ \A d \in 1..L : f2[d] = f[d]
  BY <1>1, PrefixFacts
<1>5. ActsOK(c2) BY <1>2, ActsPrefix
<1>6. /\ cstack' = c2 /\ t = cstack[n].t /\ m \in 0..n /\ n > 0 /\ L \in 0..Len(f) /\ m \in Nat
      /\ \A j \in 1..m : cstack[j].t = t => cstack[j].ci < L
      /\ (m > 0 => cstack[m].t = t) /\ (m = 0 => t = Main /\ L = 0)
  BY <1>1
<1>7. /\ ci' \in [AllThreads -> Seq(CoFrames)] /\ ci'[t] = f2
      /\ \A y \in AllThreads : y # t => ci'[y] = ci[y]
  <2>1. ci' = [ci EXCEPT ![t] = f2] OBVIOUS
  <2> HIDE DEF f2
  <2> QED BY <1>1, <1>2, <1>4, <2>1
<1>8. Locked(cstack, t, m) \in Nat BY <1>6, LockedNext
<1>9. /\ nny' \in [AllThreads -> Int] /\ nny'[t] = Locked(cstack, t, m)
      /\ nCcalls' \in [AllThreads -> Int] /\ nCcalls'[t] = m
      /\ \A y \in AllThreads : y # t => nny'[y] = nny[y] /\ nCcalls'[y] = nCcalls[y]
  <2> DEFINE l == Locked(cstack, t, m)
  <2>1. nny' = [nny EXCEPT ![t] = l] /\ l \in Int /\ m \in Int BY <1>6, <1>8
  <2> HIDE DEF l
  <2> QED BY <1>1, <1>2, <2>1 DEF l
<1>10. CountersOK(c2, nny', nCcalls')
  <2> DEFINE nn2 == nny'
             nc2 == nCcalls'
  <2>1. m = 0 => nn2[Main] = 1 /\ nc2[Main] = 0 BY <1>6, <1>9, LockedStart
  <2>2. m > 0 /\ cstack[m].t = t => nc2[t] = m /\ nn2[t] = Locked(cstack, t, m) BY <1>9
  <2>3. m > 0 /\ cstack[m].t # t => cstack[m + 1].t # cstack[m].t BY <1>6
  <2>4. \A y \in AllThreads : y # t => nn2[y] = nny[y] /\ nc2[y] = nCcalls[y] BY <1>9
  <2>5. ActsOK(cstack) /\ CountersOK(cstack, nny, nCcalls) BY <1>2
  <2> HIDE DEF nn2, nc2
  <2>6. CountersOK(SubSeq(cstack, 1, m), nn2, nc2)
    BY <2>1, <2>2, <2>3, <2>4, <2>5, CountersPrefix
  <2> QED BY <2>6 DEF nn2, nc2
<1> HIDE DEF c2, f, f2, n
<1>11. ThreadOK(c2, t, f2)
  <2>1. m \in 0..Len(cstack) /\ \A k \in 1..m : c2[k] = cstack[k] BY <1>3, <1>6 DEF n
  <2>2. \A j \in 1..m : cstack[j].t = t => cstack[j].ci <= L
    <3> SUFFICES ASSUME NEW j \in 1..m, cstack[j].t = t PROVE cstack[j].ci <= L OBVIOUS
    <3> DEFINE p == cstack[j].ci
    <3>1. p \in Nat /\ p < L /\ L \in Int BY <1>1, <1>3, <1>6
    <3> HIDE DEF p
    <3>2. p <= L BY <3>1
    <3> QED BY <3>2 DEF p
  <2>3. \A j \in (m + 1)..Len(cstack) :
          cstack[j].t = t /\ cstack[j].k \in Locking /\ cstack[j].ci \in 1..L =>
            f[cstack[j].ci].kind \notin {"sort", "pcall"}
    BY DEF f
  <2>4. ActsOK(cstack) /\ ThreadOK(cstack, t, f) /\ f2 \in Seq(CoFrames) /\ L \in 0..Len(f)
        /\ Len(f2) = L /\ Len(c2) = m /\ \A d \in 1..L : f2[d] = f[d]
    BY <1>1, <1>2, <1>3, <1>4, <1>6
  <2> QED BY <2>1, <2>2, <2>3, <2>4, ThreadCut
<1>12. \A y \in AllThreads : y # t => (\A j \in 1..n : cstack[j].t = y => j \in 1..m)
  <2> SUFFICES ASSUME NEW y \in AllThreads, y # t, NEW j \in 1..n, cstack[j].t = y, j \notin 1..m
               PROVE  FALSE
    OBVIOUS
  <2>1. CASE m = 0
    <3>1. 1 \in 1..n /\ j \in 1..n BY <1>1, <1>6
    <3>2. cstack[1].t = t
      <4>1. ActOK(cstack, 1) BY <1>2, <3>1 DEF ActsOK, n
      <4> QED BY <1>6, <2>1, <4>1 DEF ActOK
    <3>3. j \in 1..n /\ \A k \in 1..n : cstack[k].t = t BY <1>1, <3>1, <3>2
    <3> QED BY <3>3
  <2>2. CASE m > 0
    <3>1. m \in 1..n /\ j \in m..n BY <1>1, <1>6, <2>2
    <3> QED BY <1>1, <1>6, <2>2, <3>1
  <2> QED BY <1>6, <2>1, <2>2
<1>13. \A y \in AllThreads : y # t => (InCo(c2, y) <=> InCo(cstack, y))
  <2> SUFFICES ASSUME NEW y \in AllThreads, y # t PROVE InCo(c2, y) <=> InCo(cstack, y) OBVIOUS
  <2>1. InCo(c2, y) <=> \E j \in 1..m : cstack[j].t = y BY <1>3 DEF InCo
  <2>2. InCo(cstack, y) <=> \E j \in 1..n : cstack[j].t = y BY DEF InCo, n
  <2> QED BY <1>3, <1>12, <2>1, <2>2
<1>14. ASSUME NEW y \in AllThreads \ ended PROVE ThreadOK(c2, y, ci'[y])
  <2>1. CASE y = t BY <1>7, <1>11, <2>1
  <2>2. CASE y # t
    <3>1. ThreadOK(cstack, y, ci[y]) BY <1>2
    <3>2. \A j \in 1..Len(cstack) : cstack[j].t = y => j \in 1..Len(c2) /\ c2[j] = cstack[j]
      BY <1>3, <1>12, <2>2 DEF n
    <3>3. \A j \in 1..Len(c2) : c2[j].t = y => j \in 1..Len(cstack) /\ c2[j] = cstack[j]
      BY <1>3 DEF n
    <3>4. ThreadOK(c2, y, ci[y]) BY <3>1, <3>2, <3>3, ThreadSame
    <3> QED BY <1>7, <2>2, <3>4
  <2> QED BY <2>1, <2>2
<1>15. ASSUME NEW y \in AllThreads
       PROVE  StatusOK(c2, y, ci'[y], status[y], values[y], ended, "no")
  <2>1. CASE y = t
    <3>1. CASE InCo(c2, t) BY <1>1, <2>1, <3>1 DEF StatusOK
    <3>2. CASE ~InCo(c2, t)
      <4>1. m = 0
        <5> SUFFICES ASSUME m > 0 PROVE FALSE BY <1>6
        <5>1. m \in 1..m BY <1>6
        <5> QED BY <1>3, <1>6, <3>2, <5>1 DEF InCo
      <4>2. f2 = <<>> BY <1>4, <1>6, <4>1, EmptySeq
      <4> QED BY <1>1, <1>7, <2>1, <3>2, <4>2 DEF StatusOK
    <3> QED BY <3>1, <3>2
  <2>2. CASE y # t
    <3>1. StatusOK(cstack, y, ci[y], status[y], values[y], ended, raising) BY <1>2
    <3>2. InCo(c2, y) <=> InCo(cstack, y) BY <1>13, <2>2
    <3>3. StatusOK(c2, y, ci[y], status[y], values[y], ended, "no")
      <4> DEFINE r2 == "no"
      <4>1. r2 # "YIELD" OBVIOUS
      <4> HIDE DEF r2
      <4> QED BY <3>1, <3>2, <4>1, StatusSame DEF r2
    <3> QED BY <1>7, <2>2, <3>3
  <2> QED BY <2>1, <2>2
<1>16. RaisingOK(c2, ci', nny', "no")
  <2>1. Len(c2) < LUAI_MAXCCALLS BY <1>3
  <2>2. ASSUME NEW j \in 1..m
        PROVE  /\ c2[j].ci < Len(ci'[c2[j].t])
               /\ c2[j].k = "resume" =>
                    ci'[c2[j - 1].t][Len(ci'[c2[j - 1].t])].kind \in {"resume", "wrap"}
    <3>1. c2[j] = cstack[j] /\ j \in 1..n /\ cstack[j].t \in AllThreads BY <1>1, <1>3
    <3>2. c2[j].ci < Len(ci'[c2[j].t])
      <4>1. CASE cstack[j].t = t BY <1>4, <1>6, <1>7, <3>1, <4>1
      <4>2. CASE cstack[j].t # t BY <1>1, <1>6, <1>7, <3>1, <4>2
      <4> QED BY <4>1, <4>2
    <3>3. ASSUME cstack[j].k = "resume"
          PROVE  ci'[c2[j - 1].t][Len(ci'[c2[j - 1].t])].kind \in {"resume", "wrap"}
      <4>1. j - 1 \in 1..n /\ cstack[j - 1].t # t BY <1>2, <1>6, <3>1, <3>3, ResumerWaits DEF n
      <4>2. j - 1 \in 1..m /\ cstack[j - 1].t \in AllThreads BY <1>1, <1>6, <4>1
      <4>3. c2[j - 1] = cstack[j - 1] BY <1>3, <4>2
      <4> QED BY <1>1, <1>7, <3>1, <3>3, <4>1, <4>2, <4>3
    <3> QED BY <3>1, <3>2, <3>3
  <2> QED BY <1>3, <2>1, <2>2 DEF RaisingOK
<1>17. status' = status /\ values' = values /\ ended' = ended /\ raising' = "no" OBVIOUS
<1>18. /\ ActsOK(cstack') /\ CountersOK(cstack', nny', nCcalls') /\ RaisingOK(cstack', ci', nny', raising')
       /\ \A y \in AllThreads \ ended' : ThreadOK(cstack', y, ci'[y])
       /\ \A y \in AllThreads : StatusOK(cstack', y, ci'[y], status'[y], values'[y], ended', raising')
  BY <1>5, <1>6, <1>10, <1>14, <1>15, <1>16, <1>17
<1>19. /\ status' \in [AllThreads -> {"OK", "YIELD", "ERRRUN"}] /\ status'[Main] = "OK"
       /\ values' \in [AllThreads -> BOOLEAN] /\ ended' \subseteq Coroutines
  BY <1>2, <1>17
<1> QED BY <1>7, <1>9, <1>18, <1>19 DEF CoInv
\* The counters when the running thread has no calls left.
LEMMA CountersLeft ==
  ASSUME NEW c, ActsOK(c), Len(c) > 0, NEW nn, NEW nc, CountersOK(c, nn, nc), NEW m \in 1..Len(c),
         NEW t, t = c[Len(c)].t, c[m].t # t, c[m + 1].t = t, NEW nn2, NEW nc2,
         \A x \in AllThreads : x # t => nn2[x] = nn[x] /\ nc2[x] = nc[x]
  PROVE  CountersOK(SubSeq(c, 1, m), nn2, nc2)
PROOF
<1>1. c \in Seq(Acts) /\ Len(c) \in Nat BY DEF ActsOK
<1>2. m \in 0..Len(c) /\ m > 0 /\ m # 0 BY <1>1
<1> QED BY <1>2, CountersPrefix

\* The counters when the call that resumed the running thread ends.
LEMMA EndCounters ==
  ASSUME CoInv, NEW t, Len(cstack) > 0, t = cstack[Len(cstack)].t, NEW m \in 1..Len(cstack),
         cstack[m].t = t, cstack[m].k = "resume",
         \A y \in AllThreads : y # t => nny'[y] = nny[y] /\ nCcalls'[y] = nCcalls[y]
  PROVE  CountersOK(SubSeq(cstack, 1, m - 1), nny', nCcalls')
PROOF
<1> DEFINE M == m - 1
           nn2 == nny'
           nc2 == nCcalls'
<1>1. ActsOK(cstack) /\ CountersOK(cstack, nny, nCcalls) BY DEF CoInv
<1>2. ActOK(cstack, m) BY <1>1 DEF ActsOK
<1>3. M \in 1..Len(cstack) /\ M + 1 = m /\ cstack[M].t # t
  <2>1. m > 1 /\ \A j \in 1..M : cstack[j].t # t BY <1>2 DEF ActOK
  <2>2. Len(cstack) \in Nat BY <1>1 DEF ActsOK
  <2>3. M \in 1..M /\ M \in 1..Len(cstack) /\ M + 1 = m BY <2>1, <2>2
  <2> QED BY <2>1, <2>3
<1>4. cstack[M + 1].t = t BY <1>3
<1>5. \A y \in AllThreads : y # t => nn2[y] = nny[y] /\ nc2[y] = nCcalls[y] OBVIOUS
<1> HIDE DEF M, nn2, nc2
<1>6. CountersOK(SubSeq(cstack, 1, M), nn2, nc2) BY <1>1, <1>3, <1>4, <1>5, CountersLeft
<1> QED BY <1>6 DEF M, nn2, nc2

\* The call that resumed the running thread ends: the resumer runs on, without the
\* frame of the function that waited.
EndsAt(t, m, from) ==
  /\ Len(cstack) > 0 /\ t = cstack[Len(cstack)].t /\ m \in 1..Len(cstack)
  /\ cstack[m].t = t /\ cstack[m].k = "resume" /\ from = cstack[m].from
  /\ cstack' = SubSeq(cstack, 1, m - 1)
  /\ nny' = [nny EXCEPT ![t] = cstack[m].nny]
  /\ nCcalls' = [nCcalls EXCEPT ![t] = cstack[m].nCcalls - 1]
  /\ raising' \in {"no", "ERRRUN"}
  /\ ci' \in [AllThreads -> Seq(CoFrames)] /\ ci'[from] = SubSeq(ci[from], 1, Len(ci[from]) - 1)
  /\ \A y \in AllThreads : y # t /\ y # from => ci'[y] = ci[y]
  /\ t \in ended' \/ ThreadOK(SubSeq(cstack, 1, m - 1), t, ci'[t])
  /\ status' \in [AllThreads -> {"OK", "YIELD", "ERRRUN"}]
  /\ values' \in [AllThreads -> BOOLEAN]
  /\ \A y \in AllThreads : y # t => status'[y] = status[y] /\ values'[y] = values[y]
  /\ ended' = ended \/ ended' = ended \cup {t}
  /\ ~InCo(SubSeq(cstack, 1, m - 1), t) =>
       StatusOK(SubSeq(cstack, 1, m - 1), t, ci'[t], status'[t], values'[t], ended', raising')

\* A step that ends a resumed thread, or lets it wait, keeps the invariant.
LEMMA ResumeEnds ==
  ASSUME CoInv, NEW t, NEW m, NEW from, EndsAt(t, m, from)
  PROVE  CoInv'
PROOF
<1> SUFFICES
      ASSUME Len(cstack) > 0, t = cstack[Len(cstack)].t, m \in 1..Len(cstack),
             cstack[m].t = t, cstack[m].k = "resume", from = cstack[m].from,
             cstack' = SubSeq(cstack, 1, m - 1),
             nny' = [nny EXCEPT ![t] = cstack[m].nny],
             nCcalls' = [nCcalls EXCEPT ![t] = cstack[m].nCcalls - 1],
             raising' \in {"no", "ERRRUN"},
             ci' \in [AllThreads -> Seq(CoFrames)],
             ci'[from] = SubSeq(ci[from], 1, Len(ci[from]) - 1),
             \A y \in AllThreads : y # t /\ y # from => ci'[y] = ci[y],
             t \in ended' \/ ThreadOK(SubSeq(cstack, 1, m - 1), t, ci'[t]),
             status' \in [AllThreads -> {"OK", "YIELD", "ERRRUN"}],
             values' \in [AllThreads -> BOOLEAN],
             \A y \in AllThreads : y # t => status'[y] = status[y] /\ values'[y] = values[y],
             ended' = ended \/ ended' = ended \cup {t},
             ~InCo(SubSeq(cstack, 1, m - 1), t) =>
               StatusOK(SubSeq(cstack, 1, m - 1), t, ci'[t], status'[t], values'[t], ended', raising')
      PROVE  CoInv'
  BY DEF EndsAt
<1> DEFINE n == Len(cstack)
           M == m - 1
           c2 == SubSeq(cstack, 1, M)
           f == ci[from]
           L == Len(f) - 1
           f2 == SubSeq(f, 1, L)
<1>1. /\ n \in Nat /\ cstack \in Seq(Acts) /\ t \in AllThreads /\ t \notin ended
      /\ n <= LUAI_MAXCCALLS
      /\ \A j \in 1..n :
           /\ cstack[j].ci \in Nat /\ cstack[j].t \in AllThreads /\ ActOK(cstack, j)
           /\ cstack[j].ci < Len(ci[cstack[j].t]) \/ (j = n /\ raising = "ERRRUN")
           /\ cstack[j].k = "resume" =>
                ci[cstack[j - 1].t][Len(ci[cstack[j - 1].t])].kind \in {"resume", "wrap"}
           /\ cstack[j].t = t => \A k \in j..n : cstack[k].t = t
  BY RunningFacts
<1>2. /\ ci \in [AllThreads -> Seq(CoFrames)] /\ status \in [AllThreads -> {"OK", "YIELD", "ERRRUN"}]
      /\ nny \in [AllThreads -> Int] /\ nCcalls \in [AllThreads -> Int]
      /\ values \in [AllThreads -> BOOLEAN] /\ ended \subseteq Coroutines
      /\ ActsOK(cstack) /\ CountersOK(cstack, nny, nCcalls)
      /\ \A y \in AllThreads \ ended : ThreadOK(cstack, y, ci[y])
      /\ \A y \in AllThreads : StatusOK(cstack, y, ci[y], status[y], values[y], ended, raising)
      /\ status[Main] = "OK" /\ RaisingOK(cstack, ci, nny, raising)
  BY DEF CoInv
<1>3. /\ m > 1 /\ t \in Coroutines /\ \A j \in 1..M : cstack[j].t # t
      /\ M \in 1..n /\ M \in 0..n /\ M < n /\ M < LUAI_MAXCCALLS /\ M \in Nat /\ M > 0
      /\ cstack[M].t = from /\ from # t /\ from \in AllThreads /\ M + 1 = m
      /\ f[Len(f)].kind \in {"resume", "wrap"}
  <2>1. /\ m > 1 /\ m < LUAI_MAXCCALLS /\ t \in Coroutines /\ from = cstack[M].t
        /\ \A j \in 1..M : cstack[j].t # t
    BY <1>1 DEF ActOK
  <2>2. M \in 1..n /\ M \in 0..n /\ M < n /\ M \in Nat /\ M > 0 /\ M \in 1..M /\ M + 1 = m
    BY <1>1, <2>1
  <2>3. M < LUAI_MAXCCALLS BY <1>1, <2>2, CoConstants
  <2>4. from # t /\ from \in AllThreads BY <1>1, <2>1, <2>2
  <2>5. f[Len(f)].kind \in {"resume", "wrap"} BY <1>1, <2>1
  <2> QED BY <2>1, <2>2, <2>3, <2>4, <2>5
<1>4. /\ c2 \in Seq(Acts) /\ Len(c2) = M /\ \A k \in 1..M : c2[k] = cstack[k] /\ k \in 1..n
  <2> HIDE DEF M
  <2> QED BY <1>1, <1>3, PrefixFacts
<1>5. /\ cstack' = c2 /\ t = cstack[n].t /\ n > 0 /\ m \in 1..n /\ cstack[m].t = t
      /\ raising' \in {"no", "ERRRUN"} /\ ci' \in [AllThreads -> Seq(CoFrames)] /\ ci'[from] = f2
      /\ (\A y \in AllThreads : y # t /\ y # from => ci'[y] = ci[y])
      /\ (t \in ended' \/ ThreadOK(c2, t, ci'[t]))
      /\ (\A y \in AllThreads : y # t => status'[y] = status[y] /\ values'[y] = values[y])
      /\ (ended' = ended \/ ended' = ended \cup {t})
      /\ (~InCo(c2, t) => StatusOK(c2, t, ci'[t], status'[t], values'[t], ended', raising'))
  OBVIOUS
<1>6. f \in Seq(CoFrames) /\ L \in 0..Len(f) /\ L \in Nat /\ Len(f) = L + 1
  <2>1. f \in Seq(CoFrames) /\ Len(f) \in Nat BY <1>2, <1>3
  <2>2. cstack[M].ci < Len(f) /\ cstack[M].ci \in Nat BY <1>1, <1>3
  <2> DEFINE p == cstack[M].ci
             l == Len(f)
  <2>3. l \in Nat /\ p \in Nat /\ p < l BY <2>1, <2>2
  <2> HIDE DEF p, l
  <2>4. l - 1 \in 0..l /\ l - 1 \in Nat /\ l = (l - 1) + 1 BY <2>3
  <2> QED BY <2>1, <2>4 DEF l
<1>7. f2 \in Seq(CoFrames) /\ Len(f2) = L /\ \A d \in 1..L : f2[d] = f[d]
  <2> HIDE DEF L
  <2> QED BY <1>6, PrefixFacts
<1>8. ActsOK(c2)
  <2> HIDE DEF M
  <2> QED BY <1>2, <1>3, ActsPrefix
<1>9. /\ nny' \in [AllThreads -> Int] /\ nCcalls' \in [AllThreads -> Int]
      /\ \A y \in AllThreads : y # t => nny'[y] = nny[y] /\ nCcalls'[y] = nCcalls[y]
  <2>1. cstack[m] \in Acts BY <1>1
  <2>2. cstack[m].nny \in Int /\ cstack[m].nCcalls - 1 \in Int BY <2>1 DEF Acts
  <2> QED BY <1>1, <1>2, <2>2
<1> HIDE DEF M
<1>10. CountersOK(c2, nny', nCcalls')
  <2>1. CountersOK(SubSeq(cstack, 1, m - 1), nny', nCcalls') BY <1>9, EndCounters
  <2> QED BY <2>1 DEF M
<1>11. /\ \A j \in 1..M : cstack[j].t = from => cstack[j].ci < L
       /\ from \notin ended /\ ThreadOK(cstack, from, f)
  <2>1. InCo(cstack, from) BY <1>3 DEF InCo
  <2>2. StatusOK(cstack, from, f, status[from], values[from], ended, raising) BY <1>2, <1>3
  <2>3. from \notin ended BY <2>1, <2>2 DEF StatusOK
  <2>4. ThreadOK(cstack, from, f) BY <1>2, <1>3, <2>3
  <2>5. ASSUME NEW j \in 1..M, cstack[j].t = from PROVE cstack[j].ci < L
    <3> DEFINE p == cstack[j].ci
    <3>1. j \in 1..n /\ j # n BY <1>3
    <3>2. p \in Nat /\ p < Len(ci[from])
      <4> HIDE DEF c2, f, f2, L
      <4> QED BY <1>1, <2>5, <3>1, Zenon
    <3>3. f[p + 1].kind = "lua"
      <4>1. ThreadOK(cstack, from, ci[from]) BY <2>4
      <4>2. p < Len(ci[from]) => ci[from][p + 1].kind = "lua"
        <5> HIDE DEF c2, f, f2, L
        <5> QED BY <2>5, <3>1, <4>1, Zenon DEF ThreadOK, n
      <4> QED BY <3>2, <4>2
    <3>4. p + 1 # Len(f) BY <1>3, <3>3
    <3> HIDE DEF p, L
    <3>5. p < L BY <1>6, <3>2, <3>4
    <3> QED BY <3>5 DEF p
  <2> QED BY <2>3, <2>4, <2>5
<1> HIDE DEF c2, f, f2, n, L
<1>12. ThreadOK(c2, from, f2)
  <2>1. M \in 0..Len(cstack) /\ \A k \in 1..M : c2[k] = cstack[k] BY <1>3, <1>4 DEF n
  <2>2. \A j \in 1..M : cstack[j].t = from => cstack[j].ci <= L
    <3> SUFFICES ASSUME NEW j \in 1..M, cstack[j].t = from PROVE cstack[j].ci <= L OBVIOUS
    <3> DEFINE p == cstack[j].ci
    <3>1. p \in Nat /\ p < L /\ L \in Int BY <1>1, <1>4, <1>6, <1>11
    <3> HIDE DEF p
    <3>2. p <= L BY <3>1
    <3> QED BY <3>2 DEF p
  <2>3. \A j \in (M + 1)..n : cstack[j].t # from
    <3>1. \A j \in m..n : cstack[j].t = t BY <1>1, <1>5
    <3> QED BY <1>3, <3>1
  <2>4. \A j \in (M + 1)..Len(cstack) :
          cstack[j].t = from /\ cstack[j].k \in Locking /\ cstack[j].ci \in 1..L =>
            f[cstack[j].ci].kind \notin {"sort", "pcall"}
    BY <2>3 DEF n
  <2>5. ActsOK(cstack) /\ ThreadOK(cstack, from, f) /\ f2 \in Seq(CoFrames) /\ L \in 0..Len(f)
        /\ Len(f2) = L /\ Len(c2) = M /\ \A d \in 1..L : f2[d] = f[d]
    BY <1>2, <1>4, <1>6, <1>7, <1>11
  <2> QED BY <2>1, <2>2, <2>4, <2>5, ThreadCut
<1>13. \A j \in 1..n : cstack[j].t # t => j \in 1..M
  <2>1. \A j \in m..n : cstack[j].t = t BY <1>1, <1>5
  <2>2. \A j \in 1..n : j \in 1..M \/ j \in m..n BY <1>1, <1>3
  <2> QED BY <2>1, <2>2
<1>14. \A y \in AllThreads : y # t => (InCo(c2, y) <=> InCo(cstack, y))
  <2> SUFFICES ASSUME NEW y \in AllThreads, y # t PROVE InCo(c2, y) <=> InCo(cstack, y) OBVIOUS
  <2>1. InCo(c2, y) <=> \E j \in 1..M : cstack[j].t = y BY <1>4 DEF InCo
  <2>2. InCo(cstack, y) <=> \E j \in 1..n : cstack[j].t = y BY DEF InCo, n
  <2> QED BY <1>4, <1>13, <2>1, <2>2
<1>15. ~InCo(c2, t) BY <1>3, <1>4 DEF InCo
<1>16. ASSUME NEW y \in AllThreads \ ended' PROVE ThreadOK(c2, y, ci'[y])
  <2>1. CASE y = t BY <1>5, <1>16, <2>1
  <2>2. CASE y = from BY <1>5, <1>12, <2>2
  <2>3. CASE y # t /\ y # from
    <3>1. ThreadOK(cstack, y, ci[y]) BY <1>2, <1>5, <1>16, <2>3
    <3>2. \A j \in 1..Len(cstack) : cstack[j].t = y => j \in 1..Len(c2) /\ c2[j] = cstack[j]
      BY <1>4, <1>13, <2>3 DEF n
    <3>3. \A j \in 1..Len(c2) : c2[j].t = y => j \in 1..Len(cstack) /\ c2[j] = cstack[j]
      BY <1>4 DEF n
    <3>4. ThreadOK(c2, y, ci[y]) BY <3>1, <3>2, <3>3, ThreadSame
    <3> QED BY <1>5, <2>3, <3>4
  <2> QED BY <2>1, <2>2, <2>3
<1>17. ASSUME NEW y \in AllThreads
       PROVE  StatusOK(c2, y, ci'[y], status'[y], values'[y], ended', raising')
  <2>1. CASE y = t BY <1>5, <1>15, <2>1
  <2>2. CASE y # t
    <3>1. StatusOK(cstack, y, ci[y], status[y], values[y], ended, raising) BY <1>2
    <3>2. InCo(c2, y) <=> InCo(cstack, y) BY <1>14, <2>2
    <3>3. y \in ended' <=> y \in ended BY <1>5, <2>2
    <3>4. raising' # "YIELD" /\ y # cstack[n].t BY <1>5, <2>2
    <3>5. status'[y] = status[y] /\ values'[y] = values[y] BY <1>5, <2>2
    <3>6. CASE y = from
      <4>1. InCo(cstack, from) BY <1>3 DEF InCo, n
      <4> QED BY <3>1, <3>2, <3>3, <3>4, <3>5, <3>6, <4>1 DEF StatusOK, n
    <3>7. CASE y # from
      <4> DEFINE r2 == raising'
                 e2 == ended'
      <4>1. r2 # "YIELD" /\ (y \in e2 <=> y \in ended) BY <3>3, <3>4
      <4> HIDE DEF r2, e2
      <4>2. StatusOK(c2, y, ci[y], status[y], values[y], e2, r2)
        BY <3>1, <3>2, <3>4, <4>1, StatusSame DEF n
      <4> QED BY <1>5, <2>2, <3>5, <3>7, <4>2 DEF r2, e2
    <3> QED BY <3>6, <3>7
  <2> QED BY <2>1, <2>2
<1>18. RaisingOK(c2, ci', nny', raising')
  <2>1. Len(c2) < LUAI_MAXCCALLS /\ Len(c2) > 0 /\ raising' \in {"no", "ERRRUN"} BY <1>3, <1>4, <1>5
  <2>2. ASSUME NEW j \in 1..M
        PROVE  /\ c2[j].ci < Len(ci'[c2[j].t])
               /\ c2[j].k = "resume" =>
                    ci'[c2[j - 1].t][Len(ci'[c2[j - 1].t])].kind \in {"resume", "wrap"}
    <3>1. c2[j] = cstack[j] /\ j \in 1..n /\ j # n /\ cstack[j].t \in AllThreads /\ cstack[j].t # t
      BY <1>1, <1>3, <1>4
    <3>2. c2[j].ci < Len(ci'[c2[j].t])
      <4>1. CASE cstack[j].t = from BY <1>5, <1>7, <1>11, <3>1, <4>1
      <4>2. CASE cstack[j].t # from
        <5>1. ci'[cstack[j].t] = ci[cstack[j].t] BY <1>5, <3>1, <4>2
        <5>2. cstack[j].ci < Len(ci[cstack[j].t]) BY <1>1, <3>1
        <5> QED BY <3>1, <5>1, <5>2
      <4> QED BY <4>1, <4>2
    <3>3. ASSUME cstack[j].k = "resume"
          PROVE  ci'[c2[j - 1].t][Len(ci'[c2[j - 1].t])].kind \in {"resume", "wrap"}
      <4>1. j \in 1..Len(c2) /\ c2[j].k = "resume" BY <1>4, <3>1, <3>3
      <4>2. j - 1 \in 1..M /\ c2[j - 1].t # c2[M].t BY <1>4, <1>8, <4>1, ResumerWaits
      <4>3. c2[j - 1] = cstack[j - 1] /\ c2[M] = cstack[M] BY <1>3, <1>4, <4>2
      <4>4. cstack[j - 1].t \in AllThreads /\ cstack[j - 1].t # from /\ cstack[j - 1].t # t
        BY <1>1, <1>3, <1>4, <4>2, <4>3
      <4>5. ci'[cstack[j - 1].t] = ci[cstack[j - 1].t] BY <1>5, <4>4
      <4>6. ci[cstack[j - 1].t][Len(ci[cstack[j - 1].t])].kind \in {"resume", "wrap"}
        BY <1>1, <3>1, <3>3
      <4> QED BY <4>3, <4>5, <4>6
    <3> QED BY <3>1, <3>2, <3>3
  <2> QED BY <1>4, <2>1, <2>2 DEF RaisingOK
<1>19. status'[Main] = "OK"
  <2>1. Main \in AllThreads /\ Main # t BY <1>3, CoConstants DEF AllThreads
  <2> QED BY <1>2, <1>5, <2>1
<1>20. /\ ActsOK(cstack') /\ CountersOK(cstack', nny', nCcalls') /\ RaisingOK(cstack', ci', nny', raising')
       /\ \A y \in AllThreads \ ended' : ThreadOK(cstack', y, ci'[y])
       /\ \A y \in AllThreads : StatusOK(cstack', y, ci'[y], status'[y], values'[y], ended', raising')
  BY <1>5, <1>8, <1>10, <1>16, <1>17, <1>18
<1>21. /\ status' \in [AllThreads -> {"OK", "YIELD", "ERRRUN"}]
       /\ values' \in [AllThreads -> BOOLEAN] /\ ended' \subseteq Coroutines
  BY <1>2, <1>3, <1>5
<1> QED BY <1>5, <1>9, <1>19, <1>20, <1>21 DEF CoInv

\* The calls of the running thread end below a frame of a C function.
LEMMA CallsBelow ==
  ASSUME CoInv, NEW t, Len(cstack) > 0, t = cstack[Len(cstack)].t, NEW d \in 1..Len(ci[t]),
         ci[t][d].kind # "lua", NEW j \in 1..Len(cstack), cstack[j].t = t, cstack[j].ci < d
  PROVE  cstack[j].ci < d - 1
PROOF
<1> DEFINE p == cstack[j].ci
           l == Len(ci[t])
<1>1. p \in Nat /\ l \in Nat /\ d \in 1..l /\ p < d BY RunningFacts
<1>2. ThreadOK(cstack, t, ci[t]) BY RunningFacts
<1>3. p < l BY <1>1
<1>4. ci[t][p + 1].kind = "lua" BY <1>2, <1>3 DEF ThreadOK
<1>5. p + 1 # d BY <1>4
<1> HIDE DEF p, l
<1>6. p < d - 1 BY <1>1, <1>5
<1> QED BY <1>6 DEF p

\* The last function of a coroutine returns.
LEMMA LastReturn ==
  ASSUME CoInv, NEW t \in AllThreads, K!Return(t), Len(ci[t]) = 1, t # Main
  PROVE  CoInv'
PROOF
<1> DEFINE m == Len(cstack)
           from == cstack[m].from
           c2 == SubSeq(cstack, 1, m - 1)
<1>1. K!InLua(t) BY DEF K!Return
<1>2. /\ m \in Nat /\ m > 0 /\ cstack \in Seq(Acts) /\ t = cstack[m].t /\ t \notin ended
      /\ ci[t] \in Seq(CoFrames)
      /\ (\A j \in 1..m : cstack[j].t = t => cstack[j].ci < Len(ci[t]))
      /\ raising = "no" /\ status[t] = "OK"
  BY <1>1, LuaFacts
<1>3. m \in 1..m /\ ActOK(cstack, m) BY <1>2 DEF CoInv, ActsOK
<1>4. cstack[m].ci = 0
  <2>1. cstack[m].ci \in Nat BY <1>2, RunningFacts
  <2> QED BY <1>2, <1>3, <2>1
<1>5. cstack[m].k = "resume" BY <1>2, <1>3, <1>4 DEF ActOK
<1>6. /\ ci' = [ci EXCEPT ![t] = <<>>, ![from] = SubSeq(@, 1, Len(@) - 1)]
      /\ values' = [values EXCEPT ![t] = FALSE] /\ ended' = ended \cup {t} /\ status' = status
      /\ cstack' = c2 /\ nny' = [nny EXCEPT ![t] = cstack[m].nny]
      /\ nCcalls' = [nCcalls EXCEPT ![t] = cstack[m].nCcalls - 1] /\ raising' = "no"
  BY <1>2 DEF K!Return, K!Up, K!Depth, K!EndResume, K!Last
<1>7. /\ m > 1 /\ from = cstack[m - 1].t /\ (\A j \in 1..(m - 1) : cstack[j].t # t)
  BY <1>2, <1>3, <1>5 DEF ActOK
<1>8. from # t /\ from \in AllThreads
  <2>1. m - 1 \in 1..(m - 1) /\ m - 1 \in 1..m BY <1>2, <1>7
  <2> QED BY <1>2, <1>7, <2>1, RunningFacts
<1>9. /\ ci' \in [AllThreads -> Seq(CoFrames)] /\ ci'[from] = SubSeq(ci[from], 1, Len(ci[from]) - 1)
      /\ (\A y \in AllThreads : y # t /\ y # from => ci'[y] = ci[y]) /\ ci'[t] = <<>>
  <2> DEFINE f == ci[from]
             f2 == SubSeq(f, 1, Len(f) - 1)
  <2>1. ci \in [AllThreads -> Seq(CoFrames)] /\ f \in Seq(CoFrames) BY <1>8 DEF CoInv
  <2>2. f2 \in Seq(CoFrames)
    <3>1. Len(f) \in Nat /\ Len(f) > 0
      <4>1. m - 1 \in 1..m /\ m - 1 # m BY <1>2, <1>7
      <4>2. cstack[m - 1].ci < Len(f) /\ cstack[m - 1].ci \in Nat
        BY <1>2, <1>7, <4>1, RunningFacts
      <4> DEFINE p == cstack[m - 1].ci
                 l == Len(f)
      <4>3. p < l /\ p \in Nat /\ l \in Nat BY <2>1, <4>2
      <4> HIDE DEF p, l
      <4>4. l > 0 BY <4>3
      <4> QED BY <2>1, <4>4 DEF l
    <3>2. Len(f) - 1 \in 0..Len(f) BY <3>1
    <3> QED BY <2>1, <3>2, PrefixFacts
  <2>3. <<>> \in Seq(CoFrames) BY EmptySeq
  <2>4. ci' = [ci EXCEPT ![t] = <<>>, ![from] = f2] BY <1>6, <1>8
  <2> HIDE DEF f2
  <2> QED BY <1>8, <2>1, <2>2, <2>3, <2>4 DEF f2
<1>10. /\ values' \in [AllThreads -> BOOLEAN] /\ ~values'[t]
       /\ status' \in [AllThreads -> {"OK", "YIELD", "ERRRUN"}] /\ status'[t] = "OK"
       /\ \A y \in AllThreads : y # t => status'[y] = status[y] /\ values'[y] = values[y]
  BY <1>2, <1>6 DEF CoInv
<1>11. t \in ended' BY <1>6
<1>12. ~InCo(c2, t) => StatusOK(c2, t, ci'[t], status'[t], values'[t], ended', raising')
  BY <1>9, <1>10, <1>11 DEF StatusOK
<1>13. raising' \in {"no", "ERRRUN"} BY <1>6
<1>14. Len(cstack) > 0 /\ t = cstack[Len(cstack)].t /\ m \in 1..Len(cstack) /\ cstack[m].t = t
  BY <1>2, <1>3
<1>15. /\ from = cstack[m].from /\ cstack' = SubSeq(cstack, 1, m - 1)
       /\ nny' = [nny EXCEPT ![t] = cstack[m].nny] /\ nCcalls' = [nCcalls EXCEPT ![t] = cstack[m].nCcalls - 1]
       /\ t \in ended' \/ ThreadOK(SubSeq(cstack, 1, m - 1), t, ci'[t])
       /\ ended' = ended \/ ended' = ended \cup {t}
       /\ ~InCo(SubSeq(cstack, 1, m - 1), t) =>
            StatusOK(SubSeq(cstack, 1, m - 1), t, ci'[t], status'[t], values'[t], ended', raising')
  BY <1>6, <1>11, <1>12
<1> HIDE DEF m, from, c2
<1>16. EndsAt(t, m, from) BY <1>5, <1>9, <1>10, <1>13, <1>14, <1>15 DEF EndsAt
<1> QED BY <1>16, ResumeEnds

\* A sequence up to its end.
LEMMA FullPrefix ==
  ASSUME NEW S0, NEW s \in Seq(S0)
  PROVE  SubSeq(s, 1, Len(s)) = s
OBVIOUS

\* A function returns within its thread.
LEMMA InnerReturn ==
  ASSUME CoInv, NEW t \in AllThreads, K!Return(t), Len(ci[t]) # 1 \/ t = Main
  PROVE  CoInv'
PROOF
<1> DEFINE n == Len(cstack)
           f == ci[t]
           l == Len(f)
           below == l - 1
           act == cstack[n]
           called == act.k # "resume" /\ act.ci = below
           L == IF below > 0 /\ f[below].kind \in {"pcall", "sort"} THEN below - 1 ELSE below
           m == IF called THEN n - 1 ELSE n
<1>1. K!InLua(t) BY DEF K!Return
<1>2. /\ n \in Nat /\ n > 0 /\ n < LUAI_MAXCCALLS /\ cstack \in Seq(Acts) /\ t = cstack[n].t
      /\ t \notin ended /\ f \in Seq(CoFrames) /\ l \in Nat /\ l > 0
      /\ (\A j \in 1..n : cstack[j].t = t => cstack[j].ci < l)
      /\ nCcalls[t] = n /\ nny[t] = Locked(cstack, t, n)
      /\ raising = "no" /\ raising # "YIELD"
  BY <1>1, LuaFacts
<1>3. /\ n \in 1..n /\ ActOK(cstack, n) /\ act \in Acts
      /\ \A i, j \in 1..n : i < j /\ cstack[i].t = cstack[j].t => cstack[i].ci < cstack[j].ci
  <2>1. n \in 1..n BY <1>2
  <2>2. ActsOK(cstack) BY DEF CoInv
  <2>3. act \in Acts BY <1>2, <2>1
  <2> QED BY <2>1, <2>2, <2>3 DEF ActsOK
<1>4. \A j \in 1..n : cstack[j].ci \in Nat /\ (cstack[j].t = t => \A k \in j..n : cstack[k].t = t)
  BY <1>2, RunningFacts
<1>5. below \in Nat /\ l = below + 1 BY <1>2
<1>6. /\ ci' = [ci EXCEPT ![t] = SubSeq(@, 1, L)]
      /\ cstack' = (IF called THEN SubSeq(cstack, 1, n - 1) ELSE cstack)
      /\ nCcalls' = (IF called THEN [nCcalls EXCEPT ![t] = @ - 1] ELSE nCcalls)
      /\ nny' = (IF called /\ act.k # "call" THEN [nny EXCEPT ![t] = @ - 1] ELSE nny)
      /\ status' = status /\ values' = values /\ raising' = raising /\ ended' = ended
  <2>1. ~(below = 0 /\ t # Main) BY <1>2, <1>5
  <2> QED BY <1>2, <2>1 DEF K!Return, K!Up, K!Depth, K!Last, K!CFunctions
<1> HIDE DEF l, below, act
<1>7. /\ m \in 0..n /\ m \in Nat /\ m < LUAI_MAXCCALLS /\ L \in 0..l /\ L \in Nat
  BY <1>2, <1>5, CoConstants
<1>8. called /\ n = 1 => below = 0 /\ t = Main /\ L = 0 BY <1>2, <1>3, <1>5 DEF ActOK, act
<1>9. called /\ n > 1 => below > 0 /\ cstack[n - 1].t = t BY <1>2, <1>3, <1>5 DEF ActOK, act
<1>10. (m > 0 => cstack[m].t = t) /\ (m = 0 => t = Main /\ L = 0)
  BY <1>2, <1>8, <1>9
<1>11. ASSUME NEW j \in 1..m, cstack[j].t = t PROVE cstack[j].ci < below
  <2> DEFINE p == cstack[j].ci
             q == cstack[n].ci
  <2>1. j \in 1..n /\ p \in Nat /\ q \in Nat /\ q < l BY <1>2, <1>3, <1>4, <1>7, <1>11
  <2>2. p = q \/ p < q BY <1>2, <1>3, <1>11, <2>1
  <2>3. CASE called
    <3>1. j # n /\ j < n BY <1>2, <2>1, <2>3
    <3>2. p < q /\ q = below BY <1>2, <1>3, <1>11, <2>1, <2>3, <3>1 DEF act
    <3> QED BY <3>2
  <2>4. CASE act.k = "resume"
    <3>1. t \in Coroutines /\ q = 0 /\ \A i \in 1..(n - 1) : cstack[i].t # t
      BY <1>2, <1>3, <2>4 DEF ActOK, act
    <3>2. p = q
      <4>1. j = n \/ j \in 1..(n - 1) BY <1>2, <2>1
      <4> QED BY <1>11, <3>1, <4>1
    <3>3. l # 1 BY <3>1, CoConstants DEF l
    <3> HIDE DEF p, q
    <3> QED BY <1>2, <1>5, <3>1, <3>2, <3>3 DEF p
  <2>5. CASE act.k # "resume" /\ ~called
    <3>1. q # below BY <2>5 DEF act
    <3> HIDE DEF p, q
    <3>2. p < below BY <1>5, <2>1, <2>2, <3>1
    <3> QED BY <3>2 DEF p
  <2> QED BY <2>3, <2>4, <2>5
<1>12. \A j \in 1..m : cstack[j].t = t => cstack[j].ci < L
  <2> SUFFICES ASSUME NEW j \in 1..m, cstack[j].t = t PROVE cstack[j].ci < L OBVIOUS
  <2>1. cstack[j].ci < below BY <1>11
  <2>2. CASE below > 0 /\ f[below].kind \in {"pcall", "sort"}
    <3>1. below \in 1..Len(ci[t]) /\ ci[t][below].kind # "lua" /\ j \in 1..Len(cstack)
      BY <1>2, <1>5, <1>7, <2>2 DEF l
    <3>2. cstack[j].ci < below - 1
      <4> HIDE DEF n, f, m
      <4> QED BY <1>2, <2>1, <3>1, CallsBelow DEF n
    <3> QED BY <2>2, <3>2
  <2>3. CASE ~(below > 0 /\ f[below].kind \in {"pcall", "sort"}) BY <2>1, <2>3
  <2> QED BY <2>2, <2>3
<1>13. \A j \in (m + 1)..n : cstack[j].t = t /\ cstack[j].k \in Locking /\ cstack[j].ci \in 1..L =>
         f[cstack[j].ci].kind \notin {"sort", "pcall"}
  <2> SUFFICES ASSUME NEW j \in (m + 1)..n, cstack[j].ci \in 1..L
               PROVE  f[cstack[j].ci].kind \notin {"sort", "pcall"}
    OBVIOUS
  <2>1. called /\ j = n BY <1>2, <1>7
  <2>2. cstack[j].ci = below BY <2>1 DEF act
  <2>3. below <= L /\ below > 0 BY <1>5, <1>7, <2>2
  <2>4. ~(f[below].kind \in {"pcall", "sort"}) BY <1>5, <2>3
  <2> QED BY <2>2, <2>4
<1>14. cstack' = SubSeq(cstack, 1, m)
  <2>1. SubSeq(cstack, 1, n) = cstack BY <1>2, FullPrefix
  <2> QED BY <1>6, <2>1
<1>15. nCcalls' = [nCcalls EXCEPT ![t] = m]
  <2>1. nCcalls \in [AllThreads -> Int] BY DEF CoInv
  <2>2. CASE called BY <1>2, <1>6, <2>2
  <2>3. CASE ~called BY <1>2, <1>6, <2>1, <2>3
  <2> QED BY <2>2, <2>3
<1>16. nny' = [nny EXCEPT ![t] = Locked(cstack, t, m)]
  <2> DEFINE a == Locked(cstack, t, n)
             b == Locked(cstack, t, m)
  <2>1. nny \in [AllThreads -> Int] /\ nny[t] = a BY <1>2 DEF CoInv
  <2>2. called => /\ b \in Nat /\ (act.k \in Locking => a = b + 1)
                  /\ (act.k \notin Locking => a = b)
    <3> SUFFICES ASSUME called PROVE /\ b \in Nat /\ (act.k \in Locking => a = b + 1)
                                     /\ (act.k \notin Locking => a = b)
      OBVIOUS
    <3> DEFINE q == n - 1
    <3>1. q \in Nat /\ q + 1 = n /\ m = q BY <1>2
    <3> HIDE DEF q, m, n
    <3>2. /\ Locked(cstack, t, q) \in Nat
          /\ cstack[q + 1].t = t /\ cstack[q + 1].k \in Locking =>
               Locked(cstack, t, q + 1) = Locked(cstack, t, q) + 1
          /\ cstack[q + 1].t # t \/ cstack[q + 1].k \notin Locking =>
               Locked(cstack, t, q + 1) = Locked(cstack, t, q)
      BY <3>1, LockedNext
    <3> QED BY <1>2, <3>1, <3>2 DEF act
  <2>3. ~called => a = b OBVIOUS
  <2>4. called => (act.k # "call" <=> act.k \in Locking) BY <1>3 DEF Acts, Locking
  <2> HIDE DEF a, b, called, m
  <2>5. CASE called /\ act.k # "call"
    <3>1. nny' = [nny EXCEPT ![t] = nny[t] - 1] BY <1>6, <2>5
    <3>2. nny[t] - 1 = b BY <2>1, <2>2, <2>4, <2>5
    <3> QED BY <3>1, <3>2 DEF b
  <2>6. CASE ~(called /\ act.k # "call")
    <3>1. nny' = nny /\ nny[t] = b BY <1>6, <2>1, <2>2, <2>3, <2>4, <2>6
    <3> QED BY <2>1, <3>1 DEF b
  <2> QED BY <2>5, <2>6
<1> HIDE DEF L, m, called
<1>17. /\ Len(cstack) > 0 /\ t = cstack[Len(cstack)].t /\ m \in 0..Len(cstack) /\ L \in 0..Len(ci[t])
       /\ raising # "YIELD" /\ raising' = "no"
  BY <1>2, <1>6, <1>7 DEF l
<1>18. \A j \in (m + 1)..Len(cstack) :
         cstack[j].t = t /\ cstack[j].k \in Locking /\ cstack[j].ci \in 1..L =>
           ci[t][cstack[j].ci].kind \notin {"sort", "pcall"}
  BY <1>13
<1>19. FallsTo(t, m, L)
  BY <1>6, <1>7, <1>10, <1>12, <1>14, <1>15, <1>16, <1>17, <1>18 DEF FallsTo
<1> QED BY <1>19, CutBack
\* The place to which luaD_throw jumps: the last protected call or resume of the
\* running thread.
LEMMA TargetFacts ==
  ASSUME CoInv, raising # "no"
  PROVE  /\ Len(cstack) > 0 /\ K!Running = cstack[Len(cstack)].t
         /\ K!Target \in 1..Len(cstack) /\ cstack[K!Target].t = K!Running
         /\ cstack[K!Target].k \in {"pcall", "resume"}
         /\ \A j \in 1..Len(cstack) :
              cstack[j].t = K!Running /\ cstack[j].k \in {"pcall", "resume"} => j <= K!Target
PROOF
<1> DEFINE n == Len(cstack)
           t == K!Running
           s == {j \in 1..n : cstack[j].t = t /\ cstack[j].k \in {"pcall", "resume"}}
<1>1. n > 0 /\ cstack \in Seq(Acts) /\ n \in Nat /\ ActsOK(cstack)
  BY DEF CoInv, RaisingOK, ActsOK
<1>2. t = cstack[n].t /\ n \in 1..n BY <1>1 DEF K!Running, K!Last
<1>3. ActOK(cstack, n) BY <1>1, <1>2 DEF ActsOK
<1>4. PICK j \in 1..n : cstack[j].t = cstack[n].t /\ cstack[j].k \in {"pcall", "resume"}
  BY <1>3 DEF ActOK
<1>5. s \in SUBSET (1..n) /\ s # {} BY <1>2, <1>4
<1>6. K!Target = K!Max(s)
  <2>1. DOMAIN cstack = 1..n BY <1>1
  <2> QED BY <2>1 DEF K!Target
<1> DEFINE m == K!Max(s)
<1>7. m \in s /\ \A k \in s : k <= m
  <2> HIDE DEF s, n
  <2> QED BY <1>1, <1>5, MaxFacts
<1> HIDE DEF m, n, t
<1>8. /\ m \in 1..n /\ cstack[m].t = t /\ cstack[m].k \in {"pcall", "resume"}
      /\ \A k \in 1..n : cstack[k].t = t /\ cstack[k].k \in {"pcall", "resume"} => k <= m
  BY <1>7
<1> QED BY <1>1, <1>2, <1>6, <1>8 DEF m, n, t

\* A yield is thrown only where no call forbids it.
LEMMA YieldFree ==
  ASSUME CoInv, raising = "YIELD"
  PROVE  /\ K!Running # Main
         /\ \A j \in 1..Len(cstack) : cstack[j].t = K!Running => cstack[j].k \notin Locking
PROOF
<1> DEFINE n == Len(cstack)
           t == K!Running
<1>1. n > 0 /\ t = cstack[n].t BY TargetFacts
<1>2. n \in Nat /\ nny[t] = Locked(cstack, t, n) BY <1>1, RunningFacts
<1>3. nny[t] = 0 BY <1>1 DEF CoInv, RaisingOK
<1> HIDE DEF n, t
<1>4. Locked(cstack, t, n) = 0 BY <1>2, <1>3
<1> QED BY <1>2, <1>4, LockedZero DEF n, t

\* An error thrown to a pcall that jumps.
LEMMA PcallThrowStep == ASSUME CoInv, K!ThrowToPcall PROVE CoInv'
PROOF
<1> DEFINE n == Len(cstack)
           t == K!Running
           m == K!Target
           act == cstack[m]
           M == m - 1
           L == IF act.ci = 0 THEN 0 ELSE act.ci - 1
<1>1. raising # "no" /\ act.k = "pcall" BY DEF K!ThrowToPcall
<1>2. n > 0 /\ t = cstack[n].t /\ m \in 1..n /\ act.t = t BY <1>1, TargetFacts
<1>3. /\ cstack' = SubSeq(cstack, 1, M) /\ ci' = [ci EXCEPT ![t] = SubSeq(@, 1, L)]
      /\ nny' = [nny EXCEPT ![t] = act.nny] /\ nCcalls' = [nCcalls EXCEPT ![t] = act.nCcalls]
      /\ raising' = "no" /\ status' = status /\ values' = values /\ ended' = ended
  BY <1>2 DEF K!ThrowToPcall
<1>4. /\ n \in Nat /\ t \in AllThreads /\ ThreadOK(cstack, t, ci[t]) /\ Len(ci[t]) \in Nat
      /\ n <= LUAI_MAXCCALLS
      /\ \A j \in 1..n :
           /\ cstack[j].ci \in Nat /\ ActOK(cstack, j)
           /\ cstack[j].ci < Len(ci[cstack[j].t]) \/ (j = n /\ raising = "ERRRUN")
           /\ cstack[j].t = t => \A k \in j..n : cstack[k].t = t
  BY <1>2, RunningFacts
<1>5. \A i, j \in 1..n : i < j /\ cstack[i].t = cstack[j].t => cstack[i].ci < cstack[j].ci
  BY DEF CoInv, ActsOK
<1>6. raising # "YIELD" BY <1>1, <1>2, YieldFree DEF Locking
<1>7. M \in 0..n /\ M \in Nat /\ M < LUAI_MAXCCALLS /\ (M > 0 => M \in 1..n)
  BY <1>2, <1>4, CoConstants
<1>8. ActOK(cstack, m) BY <1>2, <1>4
<1>9. M = 0 => t = Main /\ act.ci = 0 BY <1>2, <1>7, <1>8 DEF ActOK
<1>10. M > 0 => cstack[M].t = t /\ act.ci > 0 BY <1>1, <1>2, <1>7, <1>8 DEF ActOK
<1>11. act.nny = Locked(cstack, t, M) /\ act.nCcalls = M BY <1>1, <1>2, <1>8 DEF ActOK
<1>12. /\ act.ci \in Nat /\ act.ci <= Len(ci[t])
       /\ act.ci > 0 => ci[t][act.ci].kind = "pcall"
  BY <1>1, <1>2, <1>4 DEF ThreadOK
<1>13. L \in 0..Len(ci[t]) /\ L \in Nat /\ (M = 0 => L = 0) /\ (act.ci > 0 => L = act.ci - 1)
       /\ (L > 0 => act.ci = L + 1)
  BY <1>4, <1>9, <1>12
<1>14. \A j \in 1..M : cstack[j].t = t => cstack[j].ci < L
  <2> SUFFICES ASSUME NEW j \in 1..M, cstack[j].t = t PROVE cstack[j].ci < L OBVIOUS
  <2>1. M > 0 /\ j \in 1..n /\ j < m BY <1>2, <1>7
  <2>2. act.ci > 0 /\ cstack[j].ci < act.ci BY <1>2, <1>5, <1>10, <2>1
  <2>3. act.ci \in 1..Len(ci[t]) /\ ci[t][act.ci].kind # "lua" BY <1>4, <1>12, <2>2
  <2> DEFINE d == act.ci
  <2>4. d \in 1..Len(ci[t]) /\ ci[t][d].kind # "lua" /\ cstack[j].ci < d /\ L = d - 1
    BY <1>13, <2>2, <2>3
  <2> HIDE DEF d, L, n, t
  <2>5. cstack[j].ci < d - 1 BY <1>2, <2>1, <2>4, CallsBelow DEF n
  <2> QED BY <2>4, <2>5
<1>15. \A j \in (M + 1)..n : cstack[j].t = t /\ cstack[j].k \in Locking /\ cstack[j].ci \in 1..L =>
         ci[t][cstack[j].ci].kind \notin {"sort", "pcall"}
  <2> SUFFICES ASSUME NEW j \in (M + 1)..n, cstack[j].t = t, cstack[j].ci \in 1..L PROVE FALSE
    OBVIOUS
  <2>1. j = m \/ (j \in 1..n /\ m < j) BY <1>2, <1>4, <1>7
  <2>2. cstack[j].ci <= L /\ L > 0 /\ act.ci = L + 1 BY <1>13
  <2>3. cstack[j].ci = act.ci \/ act.ci < cstack[j].ci BY <1>2, <1>5, <2>1
  <2>4. cstack[j].ci \in Nat BY <1>2, <1>4, <2>1
  <2> HIDE DEF L, act
  <2> QED BY <1>12, <1>13, <2>2, <2>3, <2>4
<1>16. nny' = [nny EXCEPT ![t] = Locked(cstack, t, M)] /\ nCcalls' = [nCcalls EXCEPT ![t] = M]
  BY <1>3, <1>11
<1> HIDE DEF M, L, t, act
<1>17. Len(cstack) > 0 /\ t = cstack[Len(cstack)].t /\ M \in 0..Len(cstack) BY <1>2, <1>7
<1>18. \A j \in (M + 1)..Len(cstack) :
         cstack[j].t = t /\ cstack[j].k \in Locking /\ cstack[j].ci \in 1..L =>
           ci[t][cstack[j].ci].kind \notin {"sort", "pcall"}
  BY <1>15
<1>19. FallsTo(t, M, L)
  BY <1>3, <1>6, <1>7, <1>9, <1>10, <1>13, <1>14, <1>16, <1>17, <1>18 DEF FallsTo
<1> QED BY <1>19, CutBack

\* The frame of the pcall to which recover takes an error.
LEMMA PcallFound ==
  ASSUME NEW t, ci[t] \in Seq(CoFrames), K!findpcall(t) # {}
  PROVE  /\ K!Max(K!findpcall(t)) \in 1..Len(ci[t]) /\ ci[t][K!Max(K!findpcall(t))].ypcall
         /\ \A d \in 1..Len(ci[t]) : ci[t][d].ypcall => d <= K!Max(K!findpcall(t))
PROOF
<1> DEFINE s == {d \in 1..Len(ci[t]) : ci[t][d].ypcall}
<1>1. DOMAIN ci[t] = 1..Len(ci[t]) /\ Len(ci[t]) \in Nat OBVIOUS
<1>2. K!findpcall(t) = s BY <1>1 DEF K!findpcall
<1>3. s \in SUBSET (1..Len(ci[t])) /\ s # {} BY <1>2
<1>4. K!Max(s) \in s /\ \A k \in s : k <= K!Max(s)
  <2> DEFINE n == Len(ci[t])
  <2>1. n \in Nat /\ s \in SUBSET (1..n) BY <1>1, <1>3
  <2> HIDE DEF s, n
  <2> QED BY <1>3, <2>1, MaxFacts
<1> QED BY <1>2, <1>4

\* An error that recover takes to a pcall of the coroutine.
LEMMA RecoverStep ==
  ASSUME CoInv, K!ThrowToResume, raising = "ERRRUN", K!findpcall(K!Running) # {}
  PROVE  CoInv'
PROOF
<1> DEFINE n == Len(cstack)
           t == K!Running
           m == K!Target
           act == cstack[m]
           d == K!Max(K!findpcall(t))
           L == d - 1
<1>1. raising # "no" /\ raising # "YIELD" /\ act.k = "resume" BY DEF K!ThrowToResume
<1>2. n > 0 /\ t = cstack[n].t /\ m \in 1..n /\ act.t = t BY <1>1, TargetFacts
<1>3. /\ cstack' = SubSeq(cstack, 1, m) /\ ci' = [ci EXCEPT ![t] = SubSeq(@, 1, L)]
      /\ nny' = [nny EXCEPT ![t] = 0] /\ nCcalls' = [nCcalls EXCEPT ![t] = act.nCcalls]
      /\ raising' = "no" /\ status' = status /\ values' = values /\ ended' = ended
  BY <1>2 DEF K!ThrowToResume, K!errorstatus
<1>4. /\ n \in Nat /\ t \in AllThreads /\ ThreadOK(cstack, t, ci[t]) /\ Len(ci[t]) \in Nat
      /\ ci[t] \in Seq(CoFrames)
      /\ \A j \in 1..n : cstack[j].ci \in Nat /\ ActOK(cstack, j)
  BY <1>2, RunningFacts
<1>5. /\ m < LUAI_MAXCCALLS /\ t \in Coroutines /\ act.ci = 0 /\ act.nCcalls = m
      /\ \A j \in 1..(m - 1) : cstack[j].t # t
  <2>1. ActOK(cstack, m) BY <1>2, <1>4
  <2> QED BY <1>1, <1>2, <2>1 DEF ActOK
<1>6. d \in 1..Len(ci[t]) /\ ci[t][d].ypcall BY <1>4, PcallFound
<1>7. /\ ci[t][1].kind = "lua" /\ ci[t][d].kind = "pcall"
      /\ \A j \in 1..n : cstack[j].t = t /\ cstack[j].k \in Locking => d < cstack[j].ci
  <2>1. Len(ci[t]) > 0 BY <1>4, <1>6
  <2> QED BY <1>4, <1>6, <2>1 DEF ThreadOK
<1> HIDE DEF d
<1>8. L \in 0..Len(ci[t]) /\ L > 0 /\ L \in Nat /\ d = L + 1
  <2>1. d # 1 BY <1>7
  <2> QED BY <1>4, <1>6, <2>1
<1>9. \A j \in 1..m : cstack[j].t = t => j = m BY <1>2, <1>5
<1>10. \A j \in 1..m : cstack[j].t = t => cstack[j].ci < L BY <1>5, <1>8, <1>9
<1>11. Locked(cstack, t, m) = 0
  <2>1. \A j \in 1..m : cstack[j].t = t => cstack[j].k \notin Locking BY <1>1, <1>9 DEF Locking
  <2>2. m \in Nat /\ t # Main BY <1>2, <1>5, CoConstants
  <2> HIDE DEF m, t
  <2> QED BY <2>1, <2>2, LockedNone
<1>12. \A j \in (m + 1)..n : cstack[j].t = t /\ cstack[j].k \in Locking /\ cstack[j].ci \in 1..L =>
         ci[t][cstack[j].ci].kind \notin {"sort", "pcall"}
  <2> SUFFICES ASSUME NEW j \in (m + 1)..n, cstack[j].t = t, cstack[j].k \in Locking,
                      cstack[j].ci \in 1..L
               PROVE  FALSE
    OBVIOUS
  <2>1. j \in 1..n BY <1>2, <1>4
  <2>2. d < cstack[j].ci /\ cstack[j].ci <= L /\ cstack[j].ci \in Nat BY <1>4, <1>7, <2>1
  <2> HIDE DEF L
  <2> QED BY <1>8, <2>2
<1>13. nny' = [nny EXCEPT ![t] = Locked(cstack, t, m)] /\ nCcalls' = [nCcalls EXCEPT ![t] = m]
  BY <1>3, <1>5, <1>11
<1> HIDE DEF m, L, t, act
<1>14. /\ Len(cstack) > 0 /\ t = cstack[Len(cstack)].t /\ m \in 0..Len(cstack)
       /\ (m > 0 => cstack[m].t = t) /\ (m = 0 => t = Main) /\ (m = 0 => L = 0)
  BY <1>2 DEF act
<1>15. \A j \in (m + 1)..Len(cstack) :
         cstack[j].t = t /\ cstack[j].k \in Locking /\ cstack[j].ci \in 1..L =>
           ci[t][cstack[j].ci].kind \notin {"sort", "pcall"}
  BY <1>12
<1>16. FallsTo(t, m, L)
  BY <1>1, <1>3, <1>5, <1>8, <1>10, <1>13, <1>14, <1>15 DEF FallsTo
<1> QED BY <1>16, CutBack

\* A yield, and an error that ends the coroutine.
LEMMA LeaveStep ==
  ASSUME CoInv, K!ThrowToResume, raising = "YIELD" \/ K!findpcall(K!Running) = {}
  PROVE  CoInv'
PROOF
<1> DEFINE t == K!Running
           m == K!Target
           act == cstack[m]
           from == act.from
           c2 == SubSeq(cstack, 1, m - 1)
           n == Len(cstack)
<1>1. raising # "no" /\ act.k = "resume" BY DEF K!ThrowToResume
<1>2. n > 0 /\ t = cstack[n].t /\ m \in 1..n /\ act.t = t BY <1>1, TargetFacts
<1>3. raising \in {"YIELD", "ERRRUN"} /\ (K!errorstatus(raising) <=> raising = "ERRRUN")
  BY <1>1 DEF CoInv, RaisingOK, K!errorstatus
<1>4. /\ ci' = [ci EXCEPT ![from] = SubSeq(ci[from], 1, Len(ci[from]) - 1)]
      /\ values' = values /\ ended' = (IF raising = "ERRRUN" THEN ended \cup {t} ELSE ended)
      /\ status' = [status EXCEPT ![t] = raising]
      /\ cstack' = c2 /\ nny' = [nny EXCEPT ![t] = act.nny]
      /\ nCcalls' = [nCcalls EXCEPT ![t] = act.nCcalls - 1] /\ raising' \in {"no", "ERRRUN"}
  BY <1>1, <1>2, <1>3 DEF K!ThrowToResume, K!EndResume
<1>5. /\ n \in Nat /\ t \in AllThreads /\ ThreadOK(cstack, t, ci[t]) /\ Len(ci[t]) \in Nat
      /\ cstack \in Seq(Acts) /\ ci[t] \in Seq(CoFrames) /\ t \notin ended
      /\ \A j \in 1..n :
           /\ cstack[j].ci \in Nat /\ cstack[j].t \in AllThreads /\ ActOK(cstack, j)
           /\ cstack[j].ci < Len(ci[cstack[j].t]) \/ (j = n /\ raising = "ERRRUN")
  BY <1>2, RunningFacts
<1>6. m > 1 /\ from = cstack[m - 1].t /\ \A j \in 1..(m - 1) : cstack[j].t # t
  <2>1. ActOK(cstack, m) BY <1>2, <1>5
  <2> QED BY <1>1, <1>2, <2>1 DEF ActOK
<1>7. from # t /\ from \in AllThreads
  <2>1. m - 1 \in 1..(m - 1) /\ m - 1 \in 1..n BY <1>2, <1>5, <1>6
  <2> QED BY <1>5, <1>6, <2>1
<1>8. /\ ci' \in [AllThreads -> Seq(CoFrames)] /\ ci'[from] = SubSeq(ci[from], 1, Len(ci[from]) - 1)
      /\ (\A y \in AllThreads : y # from => ci'[y] = ci[y])
  <2> DEFINE f == ci[from]
             f2 == SubSeq(f, 1, Len(f) - 1)
  <2>1. ci \in [AllThreads -> Seq(CoFrames)] /\ f \in Seq(CoFrames) BY <1>7 DEF CoInv
  <2>2. f2 \in Seq(CoFrames)
    <3>1. Len(f) \in Nat /\ Len(f) > 0
      <4>1. m - 1 \in 1..n /\ m - 1 # n BY <1>2, <1>5, <1>6
      <4>2. cstack[m - 1].ci < Len(f) /\ cstack[m - 1].ci \in Nat BY <1>5, <1>6, <4>1
      <4> DEFINE p == cstack[m - 1].ci
                 l == Len(f)
      <4>3. p < l /\ p \in Nat /\ l \in Nat BY <2>1, <4>2
      <4> HIDE DEF p, l
      <4>4. l > 0 BY <4>3
      <4> QED BY <2>1, <4>4 DEF l
    <3>2. Len(f) - 1 \in 0..Len(f) BY <3>1
    <3> QED BY <2>1, <3>2, PrefixFacts
  <2>3. ci' = [ci EXCEPT ![from] = f2] BY <1>4
  <2> HIDE DEF f2
  <2> QED BY <1>7, <2>1, <2>2, <2>3 DEF f2
<1>9. ci'[t] = ci[t] BY <1>5, <1>7, <1>8
<1>10. /\ status' \in [AllThreads -> {"OK", "YIELD", "ERRRUN"}] /\ status'[t] = raising
       /\ values' \in [AllThreads -> BOOLEAN]
       /\ \A y \in AllThreads : y # t => status'[y] = status[y] /\ values'[y] = values[y]
  BY <1>3, <1>4, <1>5 DEF CoInv
<1>11. t \in ended' \/ ThreadOK(c2, t, ci'[t])
  <2>1. CASE raising = "ERRRUN" BY <1>4, <2>1
  <2>2. CASE raising = "YIELD"
    <3> DEFINE f == ci[t]
               M == m - 1
               L == Len(f)
               c3 == SubSeq(cstack, 1, M)
    <3>1. \A j \in 1..Len(cstack) : cstack[j].t = t => cstack[j].k \notin Locking
      BY <2>2, YieldFree
    <3>2. M \in 0..Len(cstack) /\ L \in 0..Len(f) /\ \A j \in 1..M : cstack[j].t # t
      BY <1>2, <1>5, <1>6
    <3>3. Len(c3) = M /\ \A k \in 1..M : c3[k] = cstack[k]
      <4> HIDE DEF M
      <4> QED BY <1>5, <3>2, PrefixFacts
    <3>4. \A j \in (M + 1)..Len(cstack) : j \in 1..Len(cstack) BY <1>2, <1>5
    <3>5. /\ ActsOK(cstack) /\ ThreadOK(cstack, t, f) /\ f \in Seq(CoFrames) /\ Len(f) = L
          /\ (\A j \in 1..M : cstack[j].t = t => cstack[j].ci <= L)
          /\ \A j \in (M + 1)..Len(cstack) :
               cstack[j].t = t /\ cstack[j].k \in Locking /\ cstack[j].ci \in 1..L =>
                 f[cstack[j].ci].kind \notin {"sort", "pcall"}
      BY <1>5, <3>1, <3>2, <3>4 DEF CoInv
    <3> DEFINE f2 == f
    <3>6. f2 \in Seq(CoFrames) /\ Len(f2) = L /\ \A d \in 1..L : f2[d] = f[d] BY <3>5
    <3> HIDE DEF M, c3, f, L, t, f2
    <3>7. ThreadOK(c3, t, f2) BY <3>2, <3>3, <3>5, <3>6, ThreadCut
    <3> QED BY <1>9, <3>7 DEF c3, M, f2, f
  <2> QED BY <1>3, <2>1, <2>2
<1>12. ~InCo(c2, t) => StatusOK(c2, t, ci'[t], status'[t], values'[t], ended', raising')
  <2>1. CASE raising = "ERRRUN"
    <3>1. t \in ended' /\ status'[t] = "ERRRUN" BY <1>4, <1>10, <2>1
    <3> QED BY <3>1 DEF StatusOK
  <2>2. CASE raising = "YIELD"
    <3>1. t \notin ended' /\ status'[t] = "YIELD" BY <1>4, <1>5, <1>10, <2>2
    <3>2. Len(ci[t]) >= 2 BY <1>2, <2>2 DEF CoInv, RaisingOK
    <3> QED BY <1>9, <3>1, <3>2 DEF StatusOK
  <2> QED BY <1>3, <2>1, <2>2
<1> HIDE DEF t, m, from, n
<1>13. EndsAt(t, m, from)
  BY <1>1, <1>2, <1>4, <1>8, <1>10, <1>11, <1>12 DEF EndsAt, n, from
<1> QED BY <1>13, ResumeEnds

\* An error or a yield thrown to the call that resumed the thread.
LEMMA ResumeThrowStep == ASSUME CoInv, K!ThrowToResume PROVE CoInv'
PROOF
<1>1. raising \in {"no", "ERRRUN", "YIELD"} /\ raising # "no"
  BY DEF CoInv, RaisingOK, K!ThrowToResume
<1> QED BY <1>1, RecoverStep, LeaveStep
-----------------------------------------------------------------------------
\* Every step keeps the invariant.
LEMMA CoStep == ASSUME CoInv, K!Next PROVE CoInv'
PROOF
<1>1. CASE K!PCallFromMain BY <1>1, FirstCallStep
<1>2. ASSUME NEW t \in AllThreads,
             \/ K!CallLua(t) \/ K!CallMetamethod(t) \/ K!CallSort(t) \/ K!lua_pcallk(t)
             \/ K!lua_yieldk(t)
      PROVE  CoInv'
  BY <1>2, CallLuaStep, MetamethodStep, SortStep, PcallStep, YieldStep
<1>3. ASSUME NEW t \in AllThreads, K!Return(t) PROVE CoInv'
  <2>1. CASE Len(ci[t]) = 1 /\ t # Main BY <1>3, <2>1, LastReturn
  <2>2. CASE ~(Len(ci[t]) = 1 /\ t # Main) BY <1>3, <2>2, InnerReturn
  <2> QED BY <2>1, <2>2
<1>4. ASSUME NEW t \in AllThreads, K!Error(t) PROVE CoInv'
  <2>1. /\ K!InLua(t) /\ ci' = ci /\ status' = status /\ nny' = nny /\ nCcalls' = nCcalls
        /\ values' = values /\ cstack' = cstack /\ ended' = ended /\ raising' \in {"no", "ERRRUN"}
    BY <1>4 DEF K!Error
  <2> QED BY <2>1, RaiseStep
<1>5. ASSUME NEW t \in AllThreads, NEW co \in Coroutines,
             K!luaB_cocreate(t, co) \/ K!auxresume(t, co, "resume") \/ K!auxresume(t, co, "wrap")
      PROVE  CoInv'
  BY <1>5, CreateStep, ResumeStep
<1>6. CASE K!ThrowToPcall BY <1>6, PcallThrowStep
<1>7. CASE K!ThrowToResume BY <1>7, ResumeThrowStep
<1>8. K!Threads = AllThreads BY DEF K!Threads, AllThreads
<1> QED BY <1>1, <1>2, <1>3, <1>4, <1>5, <1>6, <1>7, <1>8 DEF K!Next

\* The invariant holds at the start.
LEMMA CoStarts == ASSUME K!Init PROVE CoInv
PROOF
<1>1. /\ ci = [t \in AllThreads |-> <<>>] /\ status = [t \in AllThreads |-> "OK"]
      /\ nny = [t \in AllThreads |-> 1] /\ nCcalls = [t \in AllThreads |-> 0]
      /\ values = [t \in AllThreads |-> FALSE]
      /\ cstack = <<>> /\ raising = "no" /\ ended = {}
  BY DEF K!Init, K!Threads, AllThreads
<1>2. Main \in AllThreads BY DEF AllThreads
<1>3. <<>> \in Seq(CoFrames) /\ cstack \in Seq(Acts) /\ Len(cstack) = 0 BY <1>1, EmptySeq
<1>4. /\ ci \in [AllThreads -> Seq(CoFrames)] /\ status \in [AllThreads -> {"OK", "YIELD", "ERRRUN"}]
      /\ nny \in [AllThreads -> Int] /\ nCcalls \in [AllThreads -> Int]
      /\ values \in [AllThreads -> BOOLEAN] /\ ended \subseteq Coroutines
  BY <1>1, <1>3
<1>5. ActsOK(cstack) BY <1>3, CoConstants DEF ActsOK
<1>6. CountersOK(cstack, nny, nCcalls) BY <1>1, <1>2, <1>3 DEF CountersOK
<1>7. ASSUME NEW t \in AllThreads
      PROVE  /\ ThreadOK(cstack, t, ci[t])
             /\ StatusOK(cstack, t, ci[t], status[t], values[t], ended, raising)
  <2>1. ci[t] = <<>> /\ status[t] = "OK" /\ t \notin ended BY <1>1
  <2>2. ThreadOK(cstack, t, <<>>) BY <1>3, EmptySeq DEF ThreadOK
  <2>3. ~InCo(cstack, t) BY <1>3 DEF InCo
  <2> QED BY <2>1, <2>2, <2>3 DEF StatusOK
<1>8. RaisingOK(cstack, ci, nny, raising) BY <1>1, <1>3, CoConstants DEF RaisingOK
<1>9. status[Main] = "OK" BY <1>1, <1>2
<1> QED BY <1>4, <1>5, <1>6, <1>7, <1>8, <1>9 DEF CoInv

\* What the run checks of the states.
LEMMA CoSafe == ASSUME CoInv PROVE K!CoroutinesInv
PROOF
<1>1. K!CountersExact BY CountersSound DEF CoInv
<1>2. K!Threads = AllThreads BY DEF K!Threads, AllThreads
<1>3. cstack \in Seq(Acts) /\ Len(cstack) \in Nat /\ DOMAIN cstack = 1..Len(cstack)
  BY DEF CoInv, ActsOK
<1>4. \A t : /\ K!Of(t) = {j \in 1..Len(cstack) : cstack[j].t = t}
             /\ (K!InChain(t) <=> InCo(cstack, t))
  BY <1>3 DEF K!Of, K!InChain, InCo
<1>5. K!FramesBacked
  <2>1. ASSUME NEW t \in AllThreads \ ended, NEW d \in DOMAIN ci[t]
        PROVE  /\ ci[t][d].kind = "sort" =>
                    \E j \in K!Of(t) : cstack[j].k = "callnoyield" /\ cstack[j].ci = d
               /\ ci[t][d].kind = "pcall" => ci[t][d].ypcall
                    \/ \E j \in K!Of(t) : cstack[j].k = "pcall" /\ cstack[j].ci = d
    <3>1. ThreadOK(cstack, t, ci[t]) BY DEF CoInv
    <3>2. d \in 1..Len(ci[t])
      <4>1. ci[t] \in Seq(CoFrames) BY <3>1 DEF ThreadOK
      <4> QED BY <4>1
    <3>3. /\ ci[t][d].kind = "sort" =>
               \E j \in 1..Len(cstack) : cstack[j].t = t /\ cstack[j].k = "callnoyield" /\ cstack[j].ci = d
          /\ ci[t][d].kind = "pcall" => ci[t][d].ypcall \/
               \E j \in 1..Len(cstack) : cstack[j].t = t /\ cstack[j].k = "pcall" /\ cstack[j].ci = d
      BY <3>1, <3>2 DEF ThreadOK
    <3> QED BY <1>4, <3>3
  <2>2. raising = "YIELD" => cstack[K!Target].k = "resume"
    <3> SUFFICES ASSUME raising = "YIELD" PROVE cstack[K!Target].k = "resume" OBVIOUS
    <3>1. raising # "no" OBVIOUS
    <3> QED BY <3>1, TargetFacts, YieldFree DEF Locking
  <2> QED BY <1>2, <2>1, <2>2 DEF K!FramesBacked
<1>6. K!StatusExact
  <2> SUFFICES ASSUME cstack # <<>>, raising = "no",
                      NEW co \in Coroutines, values[co] \/ co \in ended
               PROVE  K!luaB_costatus(K!Running, co) =
                        IF co = K!Running THEN "running" ELSE IF K!InChain(co) THEN "normal"
                        ELSE IF co \in ended THEN "dead" ELSE "suspended"
    BY DEF K!StatusExact
  <2>1. co \in AllThreads BY DEF AllThreads
  <2>2. StatusOK(cstack, co, ci[co], status[co], values[co], ended, raising) BY <2>1 DEF CoInv
  <2>3. CASE InCo(cstack, co)
    <3>1. status[co] = "OK" BY <2>2, <2>3 DEF StatusOK
    <3>2. ci[co] # <<>>
      <4>1. PICK j \in 1..Len(cstack) : cstack[j].t = co BY <2>3 DEF InCo
      <4>2. cstack[j].ci < Len(ci[co]) BY <4>1 DEF CoInv, RaisingOK
      <4>3. Len(cstack) > 0 BY <1>3, <4>1
      <4>4. cstack[j].ci \in Nat BY <4>1, <4>3, RunningActs DEF CoInv
      <4>5. ci[co] = <<>> => Len(ci[co]) = 0 OBVIOUS
      <4> QED BY <4>2, <4>4, <4>5
    <3> QED BY <1>4, <2>3, <3>1, <3>2 DEF K!luaB_costatus, K!errorstatus
  <2>4. CASE ~InCo(cstack, co)
    <3>1. co # K!Running
      <4>1. Len(cstack) > 0 BY <1>3, EmptySeq
      <4>2. Len(cstack) \in 1..Len(cstack) BY <1>3, <4>1
      <4> QED BY <2>4, <4>2 DEF InCo, K!Running, K!Last
    <3>2. CASE co \in ended
      <4>1. status[co] = "ERRRUN" \/ (status[co] = "OK" /\ ci[co] = <<>> /\ ~values[co])
        BY <2>2, <2>4, <3>2 DEF StatusOK
      <4> QED BY <1>4, <2>4, <3>1, <3>2, <4>1 DEF K!luaB_costatus, K!errorstatus
    <3>3. CASE co \notin ended
      <4>1. status[co] = "YIELD" \/ (status[co] = "OK" /\ ci[co] = <<>>)
        BY <2>2, <2>4, <3>3 DEF StatusOK
      <4> QED BY <1>4, <2>4, <3>1, <3>3, <4>1 DEF K!luaB_costatus, K!errorstatus
    <3> QED BY <3>2, <3>3
  <2> QED BY <2>3, <2>4
<1> QED BY <1>1, <1>5, <1>6 DEF K!CoroutinesInv

-----------------------------------------------------------------------------
\* The pcalls of the running thread that are inside the one to which luaD_throw
\* jumps would have a place of their own to jump to.
LEMMA NoneInside ==
  ASSUME CoInv, raising # "no", cstack[K!Target].k = "pcall",
         NEW d \in 1..Len(ci[K!Running]), ci[K!Running][d].kind = "pcall"
  PROVE  d <= cstack[K!Target].ci
PROOF
<1> DEFINE n == Len(cstack)
           t == K!Running
           m == K!Target
           p == cstack[m].ci
<1>1. /\ n > 0 /\ t = cstack[n].t /\ m \in 1..n /\ cstack[m].t = t
      /\ \A j \in 1..n : cstack[j].t = t /\ cstack[j].k \in {"pcall", "resume"} => j <= m
  BY TargetFacts
<1>2. ThreadOK(cstack, t, ci[t]) /\ n \in Nat /\ \A j \in 1..n : cstack[j].ci \in Nat
  BY <1>1, RunningFacts
<1>3. \A i, j \in 1..n : i < j /\ cstack[i].t = cstack[j].t => cstack[i].ci < cstack[j].ci
  BY DEF CoInv, ActsOK
<1>4. CASE ci[t][d].ypcall
  <2>1. d < p BY <1>1, <1>2, <1>4 DEF ThreadOK, Locking
  <2>2. p \in Nat BY <1>1, <1>2
  <2> HIDE DEF p
  <2>3. d <= p BY <2>1, <2>2
  <2> QED BY <2>3 DEF p
<1>5. CASE ~ci[t][d].ypcall
  <2>1. PICK j \in 1..n : cstack[j].t = t /\ cstack[j].k = "pcall" /\ cstack[j].ci = d
    BY <1>2, <1>5 DEF ThreadOK
  <2>2. j <= m BY <1>1, <2>1
  <2>3. j = m \/ cstack[j].ci < p BY <1>1, <1>3, <2>1, <2>2
  <2>4. p \in Nat /\ (d = p \/ d < p) BY <1>1, <1>2, <2>1, <2>3
  <2> HIDE DEF p
  <2>5. d <= p BY <2>4
  <2> QED BY <2>5 DEF p
<1> QED BY <1>4, <1>5

\* The pcalls of a coroutine that was resumed without one that jumps: recover finds
\* all of them.
LEMMA AllFound ==
  ASSUME CoInv, raising # "no", cstack[K!Target].k = "resume",
         NEW d \in 1..Len(ci[K!Running])
  PROVE  ci[K!Running][d].kind = "pcall" <=> ci[K!Running][d].ypcall
PROOF
<1> DEFINE n == Len(cstack)
           t == K!Running
           m == K!Target
<1>1. /\ n > 0 /\ t = cstack[n].t /\ m \in 1..n /\ cstack[m].t = t
      /\ \A j \in 1..n : cstack[j].t = t /\ cstack[j].k \in {"pcall", "resume"} => j <= m
  BY TargetFacts
<1>2. ThreadOK(cstack, t, ci[t]) /\ n \in Nat /\ ActOK(cstack, m) BY <1>1, RunningFacts
<1>3. \A j \in 1..(m - 1) : cstack[j].t # t BY <1>1, <1>2 DEF ActOK
<1>4. \A j \in 1..n : cstack[j].t = t => cstack[j].k # "pcall"
  <2> SUFFICES ASSUME NEW j \in 1..n, cstack[j].t = t, cstack[j].k = "pcall" PROVE FALSE OBVIOUS
  <2>1. j <= m /\ j # m BY <1>1
  <2>2. j \in 1..(m - 1) BY <1>1, <1>2, <2>1
  <2> QED BY <1>3, <2>2
<1> QED BY <1>2, <1>4 DEF ThreadOK

\* An error thrown to a pcall that jumps.
LEMMA PcallInnermost ==
  ASSUME CoInv, K!ThrowToPcall, raising = "ERRRUN" PROVE K!ErrorsToInnermost
PROOF
<1> DEFINE n == Len(cstack)
           t == K!Running
           m == K!Target
           M == m - 1
           p == cstack[m].ci
           pcalls == {d \in DOMAIN ci[t] : ci[t][d].kind = "pcall"}
<1>1. raising # "no" /\ cstack[m].k = "pcall" BY DEF K!ThrowToPcall
<1>2. n > 0 /\ t = cstack[n].t /\ m \in 1..n /\ cstack[m].t = t BY <1>1, TargetFacts
<1>3. /\ n \in Nat /\ t \in AllThreads /\ ThreadOK(cstack, t, ci[t]) /\ p \in Nat
      /\ ActOK(cstack, m) /\ cstack \in Seq(Acts) /\ ci[t] \in Seq(CoFrames)
      /\ ci \in [AllThreads -> Seq(CoFrames)]
  BY <1>2, RunningFacts DEF CoInv
<1>4. cstack' = SubSeq(cstack, 1, M) /\ ci' = [ci EXCEPT ![t] = SubSeq(@, 1, IF p = 0 THEN 0 ELSE p - 1)]
  BY <1>2 DEF K!ThrowToPcall
<1>5. DOMAIN ci[t] = 1..Len(ci[t]) /\ Len(ci[t]) \in Nat BY <1>3
<1>6. \A d \in pcalls : d <= p BY <1>1, <1>5, NoneInside
<1>7. CASE p > 0
  <2>1. p \in pcalls BY <1>1, <1>2, <1>3, <1>5, <1>7 DEF ThreadOK
  <2>2. K!Max(pcalls) = p
    <3> DEFINE l == Len(ci[t])
    <3>1. pcalls \in SUBSET (1..l) /\ l \in Nat BY <1>5
    <3> HIDE DEF pcalls, p, l
    <3> QED BY <1>6, <2>1, <3>1, MaxIs
  <2>3. ci'[t] = SubSeq(ci[t], 1, p - 1) BY <1>3, <1>4, <1>7
  <2>4. m > 1 /\ cstack[M].t = t
    <3>1. m # 1 BY <1>3, <1>7 DEF ActOK
    <3>2. m > 1 BY <1>2, <1>3, <3>1
    <3> QED BY <1>1, <1>2, <1>3, <3>2 DEF ActOK
  <2>5. cstack'[Len(cstack')].t = t
    <3>1. M \in 0..n /\ M > 0 /\ M \in 1..M BY <1>2, <1>3, <2>4
    <3> HIDE DEF M
    <3>2. Len(cstack') = M /\ cstack'[M] = cstack[M] BY <1>3, <1>4, <3>1, PrefixFacts
    <3> QED BY <2>4, <3>2
  <2> HIDE DEF p, M, m
  <2> QED BY <2>1, <2>2, <2>3, <2>5 DEF K!ErrorsToInnermost, K!Last
<1>8. CASE p = 0
  <2>1. pcalls = {}
    <3> SUFFICES ASSUME NEW d \in pcalls PROVE FALSE OBVIOUS
    <3>1. d <= 0 /\ d \in Nat /\ d > 0 BY <1>5, <1>6, <1>8
    <3> QED BY <3>1
  <2>2. m = 1 BY <1>1, <1>2, <1>3, <1>8 DEF ActOK
  <2>3. t = Main BY <1>2, <1>3, <2>2 DEF ActOK
  <2>4. cstack' = <<>> BY <1>3, <1>4, <2>2
  <2> HIDE DEF p, M, m
  <2> QED BY <2>1, <2>3, <2>4 DEF K!ErrorsToInnermost
<1>9. p = 0 \/ p > 0 BY <1>3
<1> QED BY <1>7, <1>8, <1>9

\* An error thrown to the call that resumed the coroutine.
LEMMA ResumeInnermost ==
  ASSUME CoInv, K!ThrowToResume, raising = "ERRRUN" PROVE K!ErrorsToInnermost
PROOF
<1> DEFINE n == Len(cstack)
           t == K!Running
           m == K!Target
           pcalls == {d \in DOMAIN ci[t] : ci[t][d].kind = "pcall"}
<1>1. raising # "no" /\ cstack[m].k = "resume" BY DEF K!ThrowToResume
<1>2. n > 0 /\ t = cstack[n].t /\ m \in 1..n /\ cstack[m].t = t BY <1>1, TargetFacts
<1>3. /\ n \in Nat /\ t \in AllThreads /\ ActOK(cstack, m) /\ cstack \in Seq(Acts)
      /\ ci[t] \in Seq(CoFrames) /\ ci \in [AllThreads -> Seq(CoFrames)]
  BY <1>2, RunningFacts DEF CoInv
<1>4. DOMAIN ci[t] = 1..Len(ci[t]) BY <1>3
<1>5. pcalls = K!findpcall(t) BY <1>1, <1>4, AllFound DEF K!findpcall
<1>6. /\ m > 1 /\ t \in Coroutines /\ t # Main /\ cstack[m].from = cstack[m - 1].t
      /\ \A j \in 1..(m - 1) : cstack[j].t # t
  BY <1>1, <1>2, <1>3, CoConstants DEF ActOK
<1>7. CASE pcalls # {}
  <2>1. /\ cstack' = SubSeq(cstack, 1, m)
        /\ ci' = [ci EXCEPT ![t] = SubSeq(@, 1, K!Max(K!findpcall(t)) - 1)]
    BY <1>2, <1>5, <1>7 DEF K!ThrowToResume, K!errorstatus
  <2>2. ci'[t] = SubSeq(ci[t], 1, K!Max(pcalls) - 1)
    <3> DEFINE x == K!Max(pcalls)
    <3>1. ci' = [ci EXCEPT ![t] = SubSeq(@, 1, x - 1)] BY <1>5, <2>1
    <3> HIDE DEF x, pcalls
    <3>2. ci'[t] = SubSeq(ci[t], 1, x - 1) BY <1>3, <3>1
    <3> QED BY <3>2 DEF x
  <2>3. cstack'[Len(cstack')].t = t
    <3>1. m \in 0..n /\ m \in 1..m BY <1>2, <1>3
    <3> HIDE DEF m
    <3>2. Len(cstack') = m /\ cstack'[m] = cstack[m] BY <1>3, <2>1, <3>1, PrefixFacts
    <3> QED BY <1>2, <3>2
  <2> QED BY <1>7, <2>2, <2>3 DEF K!ErrorsToInnermost, K!Last
<1>8. CASE pcalls = {}
  <2>1. cstack' = SubSeq(cstack, 1, m - 1) /\ ended' = ended \cup {t}
    BY <1>2, <1>5, <1>8 DEF K!ThrowToResume, K!EndResume, K!errorstatus
  <2>2. cstack'[Len(cstack')].t # t
    <3> DEFINE M == m - 1
    <3>1. M \in 0..n /\ M \in 1..M /\ cstack[M].t # t BY <1>2, <1>3, <1>6
    <3>2. cstack' = SubSeq(cstack, 1, M) BY <2>1
    <3> HIDE DEF M
    <3>3. Len(cstack') = M /\ cstack'[M] = cstack[M] BY <1>3, <3>1, <3>2, PrefixFacts
    <3> QED BY <3>1, <3>3
  <2> QED BY <1>6, <1>8, <2>1, <2>2 DEF K!ErrorsToInnermost, K!Last
<1> QED BY <1>7, <1>8

\* What the run checks of the steps.
LEMMA ErrorsGoRight == ASSUME CoInv, K!Next PROVE K!ErrorsToInnermost
PROOF
<1> SUFFICES ASSUME raising = "ERRRUN" PROVE K!ErrorsToInnermost BY DEF K!ErrorsToInnermost
<1>1. raising # "no" OBVIOUS
<1>2. \A t : ~K!InLua(t) BY <1>1 DEF K!InLua
<1>3. cstack # <<>>
  <2>1. Len(cstack) > 0 BY <1>1, TargetFacts
  <2> QED BY <2>1
<1>4. K!ThrowToPcall \/ K!ThrowToResume
  BY <1>2, <1>3 DEF K!Next, K!PCallFromMain, K!CallLua, K!CallMetamethod, K!CallSort, K!lua_pcallk,
    K!Return, K!Error, K!lua_yieldk, K!luaB_cocreate, K!auxresume
<1> QED BY <1>4, PcallInnermost, ResumeInnermost

-----------------------------------------------------------------------------
\* For every number of coroutines, of frames and of calls: the counters of calls from
\* C and of calls that cannot be yielded across are exact, what a frame waits for is
\* there, coroutine.status is true, and an error is caught by the innermost pcall of
\* its thread or ends just that thread.
THEOREM CoroutinesStaySound == Spec => CoroutinesSound
PROOF
<1> DEFINE I == part = "coroutines" => CoInv
           Safe == part = "coroutines" => K!CoroutinesInv
           Step == part = "coroutines" => K!ErrorsToInnermost
<1>1. Init => I BY CoStarts DEF Init
<1>2. I /\ [Next]_vars => I'
  <2> SUFFICES ASSUME part = "coroutines" => CoInv, [Next]_vars, part' = "coroutines"
      PROVE  CoInv'
    OBVIOUS
  <2>1. CASE Next
    <3>1. part = "coroutines" /\ K!Next BY <2>1 DEF Next
    <3> QED BY <3>1, CoStep
  <2>2. CASE UNCHANGED vars
    <3>1. /\ part' = part /\ ci' = ci /\ status' = status /\ nny' = nny /\ nCcalls' = nCcalls
          /\ values' = values /\ cstack' = cstack /\ raising' = raising /\ ended' = ended
      BY <2>2 DEF vars, coVars
    <3>2. CoInv BY <3>1
    <3>3. ActsOK(cstack') /\ CountersOK(cstack', nny', nCcalls') /\ RaisingOK(cstack', ci', nny', raising')
      BY <3>1, <3>2 DEF CoInv
    <3>4. /\ \A t \in AllThreads \ ended' : ThreadOK(cstack', t, ci'[t])
          /\ \A t \in AllThreads : StatusOK(cstack', t, ci'[t], status'[t], values'[t], ended', raising')
      BY <3>1, <3>2 DEF CoInv
    <3> QED BY <3>1, <3>2, <3>3, <3>4 DEF CoInv
  <2> QED BY <2>1, <2>2
<1>3. I => Safe BY CoSafe
<1>4. I /\ [Next]_vars => [Step]_vars
  <2> SUFFICES ASSUME part = "coroutines" => CoInv, Next, part = "coroutines"
      PROVE  K!ErrorsToInnermost
    OBVIOUS
  <2>1. K!Next BY DEF Next
  <2> QED BY <2>1, ErrorsGoRight
<1> QED BY <1>1, <1>2, <1>3, <1>4, PTL DEF Spec, CoroutinesSound
=============================================================================

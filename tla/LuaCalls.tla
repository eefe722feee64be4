------------------------------- MODULE LuaCalls -------------------------------
(***************************************************************************)
(* What a program can ask of the numbers of Lua: an instruction of the     *)
(* virtual machine, a numerical for loop, a conversion, or functions of    *)
(* bit32, math, utf8 or string.  A behaviour is one request, whose results are     *)
(* compared with what the numbers mean.                                    *)
(***************************************************************************)
EXTENDS LuaLibs

CONSTANTS
  Ints, Floats, Numerals,  \* integers, floats (in quarters) and texts of numbers
  Unsigneds,               \* arguments of bit32
  Codes, Utf8Texts,        \* characters, and sequences of bytes
  Sizes,                   \* sizes of new tables
  Texts, Positions,        \* texts of bytes, and positions in them
  Formats, PackInts, PackTexts, PackData,   \* what is packed, and unpacked
  MaxTurns                 \* the first turns of a loop that are looked at

VARIABLES op, args, res, ran, pc

vars == <<op, args, res, ran, pc>>

NumberValues == {IntV(n) : n \in Ints} \cup {FltV(a) : a \in Floats}
Values == NumberValues \cup {StrV(s) : s \in Numerals} \cup {Nil}
Arith == {"ADD", "SUB", "MUL", "DIV", "MOD", "IDIV"} \cup BitOps
Shifts == -(NBITS + 1)..(NBITS + 1)
Steps == NumberValues \ {IntV(0), FltV(0), FltV(NAN)}

\* The values that fit a format in number and kind.
RECURSIVE PackValues(_)
PackValues(fmt) ==
  IF fmt = <<>> THEN {<<>>}
  ELSE LET kind == getoption(fmt[1]).kind
           more == PackValues(IF kind = "paddalign" /\ Len(fmt) > 1 THEN Tail(Tail(fmt)) ELSE Tail(fmt))
       IN  IF ~Takes(kind) THEN more
           ELSE {<<v>> \o vs : v \in IF kind \in {"int", "uint"} THEN PackInts ELSE PackTexts, vs \in more}

Request(ops, arguments) == op \in ops /\ args \in arguments
Init ==
  /\ \/ Request(Arith, Values \X Values)
     \/ Request({"UNM"}, {<<v, v>> : v \in Values})
     \/ Request({"compare", "math2"}, NumberValues \X NumberValues)
     \/ Request({"for"}, Values \X Values \X Steps)
     \/ Request({"tostring"}, {<<v>> : v \in NumberValues})
     \/ Request({"tonumber", "math"}, {<<v>> : v \in Values})
     \/ Request({"newtable"}, {<<n>> : n \in Sizes})
     \/ Request({"random"}, Ints \X Ints \X (0..L_RANDMAX))
     \/ Request({"bits"}, Unsigneds \X Unsigneds \X Shifts)
     \/ Request({"utf8"}, {<<s>> : s \in Utf8Texts})
     \/ Request({"utfchar"}, Codes \X Codes)
     \/ Request({"string"}, Texts \X Positions \X Positions)
     \/ \E fmt \in Formats : Request({"pack"}, {<<fmt, vs>> : vs \in PackValues(fmt)})
     \/ Request({"unpack"}, Formats \X PackData \X {1})
  /\ res = Nil /\ ran = <<>> /\ pc = "call"

Called(ops) == op \in ops /\ pc = "call" /\ UNCHANGED <<op, args>>
Returns(r) == res' = r /\ pc' = "done" /\ UNCHANGED ran

\* The instructions do what luaO_arith does, each in lines of its own.
Arithmetic == Called(Arith \cup {"UNM"}) /\ Returns(luaO_arith(op, args[1], args[2]))
Compare ==
  /\ Called({"compare"})
  /\ Returns([lt |-> LTnum(args[1], args[2]), le |-> LEnum(args[1], args[2]),
              eq |-> luaV_equalobj(args[1], args[2])])
Convert ==
  \/ Called({"tostring"}) /\ Returns(StrV(luaO_tostring(args[1])))
  \/ Called({"tonumber"}) /\ Returns([n |-> tonumber(args[1]), i |-> tointeger(args[1])])
NewTable == Called({"newtable"}) /\ Returns(IntV(luaO_fb2int(luaO_int2fb(args[1]))))

ForPrep ==
  /\ Called({"for"})
  /\ res' = OP_FORPREP(args[1], args[2], args[3])
  /\ pc' = IF Bad(res') THEN "done" ELSE "loop"
  /\ UNCHANGED ran
ForLoop ==
  /\ pc = "loop" /\ Len(ran) < MaxTurns
  /\ LET l == OP_FORLOOP(res)
     IN  IF l.on THEN ran' = Append(ran, l.idx) /\ res' = [res EXCEPT !.idx = l.idx] /\ UNCHANGED pc
         ELSE pc' = "done" /\ UNCHANGED <<res, ran>>
  /\ UNCHANGED <<op, args>>

Math ==
  \/ /\ Called({"math"})
     /\ Returns([abs |-> math_abs(args[1]), int |-> math_toint(args[1]),
                 floor |-> math_floor(args[1]), ceil |-> math_ceil(args[1]),
                 modf |-> math_modf(args[1]), type |-> math_type(args[1])])
  \/ /\ Called({"math2"})
     /\ Returns([fmod |-> math_fmod(args[1], args[2]), min |-> math_min(args), max |-> math_max(args),
                 ult |-> ttisinteger(args[1]) /\ ttisinteger(args[2])
                           /\ math_ult(args[1].n, args[2].n)])
  \/ Called({"random"}) /\ Returns(math_random(args[1], args[2], args[3]))

Bits ==
  /\ Called({"bits"})
  /\ LET x == args[1]
         y == args[2]
         i == args[3]
     IN  Returns([band |-> andaux(<<x, y>>), btest |-> b_test(<<x, y>>), bor |-> b_or(<<x, y>>),
                  bxor |-> b_xor(<<x, y>>), bnot |-> b_not(x),
                  lshift |-> b_shift(x, i), rshift |-> b_rshift(x, i), arshift |-> b_arshift(x, i),
                  lrotate |-> b_rot(x, i), rrotate |-> b_rrot(x, i),
                  extract |-> [f, w \in 0..LUA_NBITS |->
                                 IF fieldargs(f, w) THEN b_extract(x, f, w) ELSE -1],
                  replace |-> [f, w \in 0..LUA_NBITS |->
                                 IF fieldargs(f, w) THEN b_replace(x, y, f, w) ELSE -1]])

\* The characters that a loop over utf8.codes visits.
RECURSIVE Visited(_, _)
Visited(s, n) ==
  LET r == iter_aux(s, n)
  IN  IF Fails(r) THEN <<>> ELSE IF Bad(r) THEN <<r>> ELSE <<r>> \o Visited(s, r.n)
Utf8 ==
  \/ /\ Called({"utf8"})
     /\ LET s == args[1]
        IN  Returns([len |-> utflen(s, 1, -1), codes |-> codepoint(s, 1, -1), visited |-> Visited(s, 0),
                     offset |-> [n \in -Len(s)..Len(s) |->
                                   byteoffset(s, n, IF n >= 0 THEN 1 ELSE Len(s) + 1)],
                     start |-> [i \in 1..(Len(s) + 1) |-> byteoffset(s, 0, i)]])
  \/ Called({"utfchar"}) /\ Returns(utfchar(args))

Strings ==
  \/ /\ Called({"string"})
     /\ LET s == args[1]
            i == args[2]
            j == args[3]
        IN  Returns([sub |-> str_sub(s, i, j), byte |-> str_byte(s, i, j), reverse |-> str_reverse(s),
                     rep |-> str_rep(s, j, <<0>>), char |-> str_char(<<i, j>>)])
  \/ /\ Called({"pack"})
     /\ LET packed == str_pack(args[1], args[2])
        IN  Returns([size |-> str_packsize(args[1]), packed |-> packed,
                     back |-> IF packed = Refusal THEN Failed ELSE str_unpack(args[1], packed, 1)])
  \/ Called({"unpack"}) /\ Returns(str_unpack(args[1], args[2], args[3]))

Next ==
  \/ Strings
  \/ Arithmetic \/ Compare \/ Convert \/ NewTable \/ ForPrep \/ ForLoop \/ Math \/ Bits \/ Utf8
Spec == Init /\ [][Next]_vars

-----------------------------------------------------------------------------
(* What the results should be.  The exact value of a number is a count of  *)
(* quarters, like a float.                                                 *)

Done(o) == op = o /\ pc = "done"
NumberOf(v) == IF v.t = "str" THEN luaO_str2num(v.s) ELSE v
Exact(v) == IF ttisinteger(v) THEN 4 * v.n ELSE v.n
Finite(v) == v.t \in {"int", "flt"} /\ ~(ttisfloat(v) /\ (v.n = NAN \/ Infinite(v.n)))
Integers_ == LUA_MININTEGER..LUA_MAXINTEGER
Same(m, n) == (m - n) % (2 * Half) = 0
FloorDiv(m, n) == IF n > 0 THEN m \div n ELSE (-m) \div (-n)
BitsOf(n) == {k \in 0..(NBITS - 1) : (l_castS2U(n) \div 2^k) % 2 = 1}
BitNumbers == 0..(NBITS - 1)

\* A comparison of any two numbers, an integer with a float too, has the answer
\* that their exact values give; nothing compares with NaN.
ComparisonsExact ==
  Done("compare") =>
    LET x == args[1]
        y == args[2]
        ordered == FltV(NAN) \notin {x, y}
    IN  /\ res.lt <=> ordered /\ Exact(x) < Exact(y)
        /\ res.le <=> ordered /\ Exact(x) <= Exact(y)
        /\ res.eq <=> ordered /\ Exact(x) = Exact(y)

IntegerResult(m, n, r) ==
  /\ r \in Integers_
  /\ op = "ADD" => Same(r, m + n)
  /\ op = "SUB" => Same(r, m - n)
  /\ op = "MUL" => Same(r, m * n)
  /\ op = "UNM" => Same(r, -m)
  /\ op = "IDIV" => Same(r, FloorDiv(m, n))
  /\ op = "MOD" => r = m - n * FloorDiv(m, n)
  /\ op = "BAND" => BitsOf(r) = BitsOf(m) \cap BitsOf(n)
  /\ op = "BOR" => BitsOf(r) = BitsOf(m) \cup BitsOf(n)
  /\ op = "BXOR" => BitsOf(r) = (BitsOf(m) \cup BitsOf(n)) \ (BitsOf(m) \cap BitsOf(n))
  /\ op = "BNOT" => BitsOf(r) = BitNumbers \ BitsOf(m)
  /\ op = "SHL" => BitsOf(r) = {k + n : k \in BitsOf(m)} \cap BitNumbers
  /\ op = "SHR" => BitsOf(r) = {k - n : k \in BitsOf(m)} \cap BitNumbers

\* Division and remainder of floats, up to the rounding of one operation.
FloatResult(x, y, r) ==
  Finite(FltV(x)) /\ Finite(FltV(y)) /\ y # 0 =>
    /\ op = "MOD" => r = Round(x - y * FloorDiv(x, y), 1)
    /\ op = "IDIV" => Round(4 * FloorDiv(x, y), 1) <= r /\ r <= Round(4 * FloorDiv(x, y) + 4, 1)

\* Integers wrap around and never leave their range, division rounds down also
\* where the signs differ, a shift by any distance moves bits or drops them, and
\* an operand of the wrong kind reaches no operation.
ArithmeticExact ==
  op \in Arith \cup {"UNM"} /\ pc = "done" =>
    LET p == NumberOf(args[1])
        q == NumberOf(args[2])
        Integral(v) == Finite(v) /\ Exact(v) % 4 = 0 /\ (Exact(v) \div 4) \in Integers_
        onIntegers == IF op \in BitOps THEN Integral(p) /\ Integral(q)
                      ELSE /\ op # "DIV" /\ ttisinteger(args[1]) /\ ttisinteger(args[2])
        onFloats == op \notin BitOps /\ ~Fails(p) /\ ~Fails(q)
    IN  IF onIntegers
        THEN IF op \in {"IDIV", "MOD"} /\ Exact(q) = 0 THEN Bad(res)
             ELSE ttisinteger(res) /\ IntegerResult(Exact(p) \div 4, Exact(q) \div 4, res.n)
        ELSE IF onFloats THEN ttisfloat(res) /\ FloatResult(nvalue(p), nvalue(q), res.n)
        ELSE res = Metamethod

\* The turns of a loop are those that arithmetic gives, as long as the next index
\* can be represented; so a loop up to any limit, also one that no integer is,
\* stops where it should.
LoopsExact ==
  op = "for" /\ ~Bad(res) /\ (pc = "done" \/ Len(ran) = MaxTurns) =>
    LET init == NumberOf(args[1])
        limit == NumberOf(args[2])
        step == args[3]
        integer == ttisinteger(args[1]) /\ ttisinteger(step)
        Turn(k) == Exact(init) + (k - 1) * Exact(step)
        last == IF integer THEN Exact(limit) ELSE nvalue(limit)
        Within(x) == IF Exact(step) > 0 THEN x <= last ELSE last <= x
        Precise(x) == IF integer THEN (x \div 4) \in Integers_ ELSE Abs(x) <= 2^NBM
    IN  /\ limit # FltV(NAN) => \A k \in DOMAIN ran : Within(Exact(ran[k]))
        /\ Finite(init) /\ Finite(step) /\ limit # FltV(NAN) /\ (integer \/ Precise(Turn(0))) =>
             \A k \in 1..MaxTurns :
               (\A j \in 1..k : Precise(Turn(j))) =>
                 /\ k <= Len(ran) <=> Within(Turn(k))
                 /\ k <= Len(ran) => Exact(ran[k]) = Turn(k)

\* A text is the number that it spells, if it spells one, and a number keeps its
\* kind, an integer its value, when it is written and read again.
TextsExact ==
  /\ Done("tostring") =>
       LET again == luaO_str2num(res.s)
       IN  IF Finite(args[1]) THEN again.t = args[1].t /\ (ttisinteger(args[1]) => again = args[1])
           ELSE Fails(again)
  /\ Done("tonumber") =>
       /\ ~Fails(res.i) <=> ~Fails(res.n) /\ (LET v == NumberOf(args[1])
                             IN  Finite(v) /\ Exact(v) % 4 = 0 /\ (Exact(v) \div 4) \in Integers_)
       /\ args[1].t = "str" =>
            LET u == Unsigned(Stripped(args[1].s))
                n == (IF isneg(Stripped(args[1].s)) THEN -1 ELSE 1) * Positional(u, 10)
            IN  ToSet(u) \subseteq DecDigits =>
                  IF u = <<>> THEN Fails(res.n)
                  ELSE IF n \in Integers_ THEN res.i = IntV(n)
                  ELSE Fails(res.i) /\ res.n = FltV(Round(4 * n, 1))

\* A new table has at least the size that was asked for, at most an eighth more.
SizesFit ==
  Done("newtable") => args[1] <= res.n /\ 8 * (res.n - args[1]) <= args[1]

\* The functions of math: what floor and ceil return lies next to the number and
\* is an integer whenever there is one; a random number is in its interval.
MathExact ==
  /\ Done("math") /\ Finite(NumberOf(args[1])) =>
       LET x == IF ttisinteger(args[1]) THEN Exact(args[1]) ELSE nvalue(NumberOf(args[1]))
           Integral(v) == Exact(v) % 4 = 0 /\ (ttisinteger(v) <=> (Exact(v) \div 4) \in Integers_)
       IN  /\ Integral(res.floor) /\ Exact(res.floor) <= x /\ x < Exact(res.floor) + 4
           /\ Integral(res.ceil) /\ x <= Exact(res.ceil) /\ Exact(res.ceil) < x + 4
           /\ Exact(res.abs) = Abs(x) \/ (res.abs = IntV(LUA_MININTEGER) /\ args[1] = res.abs)
           /\ Exact(res.modf[1]) + res.modf[2].n = x /\ Abs(res.modf[2].n) < 4
           /\ ~Fails(res.int) => Exact(res.int) = Exact(NumberOf(args[1]))
  /\ Done("math") /\ Fails(NumberOf(args[1])) => Bad(res.floor) /\ Bad(res.abs)
  /\ Done("math2") /\ Finite(args[1]) /\ Finite(args[2]) =>
       LET x == Exact(args[1])
           y == Exact(args[2])
       IN  /\ Exact(res.min) <= x /\ Exact(res.min) <= y /\ res.min \in ToSet(args)
           /\ Exact(res.max) >= x /\ Exact(res.max) >= y /\ res.max \in ToSet(args)
           /\ ~Bad(res.fmod) /\ y # 0 =>
                LET r == Exact(res.fmod)
                    integers == ttisinteger(args[1]) /\ ttisinteger(args[2])
                    a == IF integers THEN x ELSE nvalue(args[1])
                    b == IF integers THEN y ELSE nvalue(args[2])
                IN  Abs(r) < Abs(b) /\ (a - r) % Abs(b) = 0 /\ (r = 0 \/ r * a > 0)
  /\ Done("random") =>
       IF args[1] > args[2] \/ args[2] - args[1] > LUA_MAXINTEGER THEN Bad(res)
       ELSE args[1] <= res.n /\ res.n <= args[2]

\* bit32 knows LUA_NBITS bits, and its functions move and combine just these.
BitsExact ==
  Done("bits") =>
    LET X == BitsOf(args[1]) \cap (0..(LUA_NBITS - 1))
        Y == BitsOf(args[2]) \cap (0..(LUA_NBITS - 1))
        i == args[3]
        Known == 0..(LUA_NBITS - 1)
        Moved(d) == {k + d : k \in X} \cap Known
        Rotated(d) == {(k + d) % LUA_NBITS : k \in X}
        Field(f, w) == f..(f + w - 1)
    IN  /\ BitsOf(res.band) = X \cap Y /\ res.btest = (X \cap Y # {})
        /\ BitsOf(res.bor) = X \cup Y /\ BitsOf(res.bxor) = (X \cup Y) \ (X \cap Y)
        /\ BitsOf(res.bnot) = Known \ X
        /\ BitsOf(res.lshift) = Moved(i) /\ BitsOf(res.rshift) = Moved(-i)
        /\ BitsOf(res.lrotate) = Rotated(i) /\ BitsOf(res.rrotate) = Rotated(-i)
        /\ BitsOf(res.arshift) =
             Moved(-i) \cup IF i > 0 /\ LUA_NBITS - 1 \in X THEN {k \in Known : k >= LUA_NBITS - i} ELSE {}
        /\ \A f, w \in 0..LUA_NBITS :
             IF w > 0 /\ f + w <= LUA_NBITS
             THEN /\ BitsOf(res.extract[f, w]) = {k - f : k \in X \cap Field(f, w)}
                  /\ BitsOf(res.replace[f, w]) =
                       (X \ Field(f, w)) \cup ({k + f : k \in Y} \cap Field(f, w))
             ELSE res.extract[f, w] = -1

\* utf8 accepts each character in its shortest form only, and its functions agree
\* about where characters begin and what they are.
Utf8Exact ==
  /\ Done("utf8") =>
       LET s == args[1]
           d == Decoded(s, 1, Len(s))
           n == Len(d.codes)
           starts == [k \in 1..n |-> 1 + Len(utfchar(SubSeq(d.codes, 1, k - 1)))]
       IN  /\ utfchar(d.codes) = IF d.stop = 0 THEN s ELSE SubSeq(s, 1, d.stop - 1)
           /\ IF d.stop = 0
              THEN /\ res.len = IntV(n) /\ res.codes.codes = d.codes
                   /\ res.visited = [k \in 1..n |-> [t |-> "char", n |-> starts[k], code |-> d.codes[k]]]
                   /\ \A k \in 1..n : /\ res.offset[k] = IntV(starts[k])
                                      /\ res.offset[k - n - 1] = IntV(starts[k])
                                      /\ \A i \in starts[k]..(starts[k] + Len(luaO_utf8esc(d.codes[k])) - 1) :
                                           res.start[i] = IntV(starts[k])
              ELSE res.len.t = "invalid" /\ Bad(res.codes) /\ Bad(Last(res.visited))
  /\ Done("utfchar") => Decoded(res, 1, Len(res)).codes = args

\* Positions from either end mean the characters that they seem to mean.
PartsExact ==
  Done("string") =>
    LET s == args[1]
        n == Len(s)
        From(p, i) == IF i < 0 THEN p - n - 1 >= i ELSE p >= i
        To(p, j) == IF j < 0 THEN p - n - 1 <= j ELSE p <= j
        inside == {p \in 1..n : From(p, args[2]) /\ To(p, args[3])}
        reps == Max({args[3], 0})
    IN  /\ Len(res.sub) = Cardinality(inside) /\ res.byte = res.sub
        /\ inside # {} => res.sub = SubSeq(s, Min(inside), Max(inside))
        /\ Len(res.reverse) = n /\ \A p \in 1..n : res.reverse[p] = s[n + 1 - p]
        /\ IF res.rep = Refusal THEN reps * (n + 1) > MAXSIZE
           ELSE /\ Len(res.rep) <= MAXSIZE /\ Len(res.rep) = IF reps = 0 THEN 0 ELSE reps * (n + 1) - 1
                /\ \A p \in DOMAIN res.rep : res.rep[p] = (s \o <<0>>)[((p - 1) % (n + 1)) + 1]

\* The integer that bytes stand for, most significant byte first.
Spelled(bytes, issigned) ==
  LET u == FoldLeft(LAMBDA x, b : x * 2^NB + b, 0, bytes)
  IN  IF issigned /\ 2 * bytes[1] > MC THEN u - 2^(NB * Len(bytes)) ELSE u

\* What was packed is unpacked, but for the zeros that fill a fixed text, at the
\* size that packsize says; every integer starts at a multiple of its size with no
\* more padding than that takes; and bytes from elsewhere are the integer they
\* spell or, when no integer of Lua is that, an error.
PackExact ==
  /\ Done("pack") /\ res.packed # Refusal =>
       LET fmt == args[1]
           hasChar == \E n \in DOMAIN fmt : getoption(fmt[n]).kind = "char"
           Kept(v, w) == v = w \/ (hasChar /\ Len(v) < Len(w) /\ w = v \o Padding(Len(w) - Len(v)))
           o == getoption(Last(fmt))
           h == FoldLeft(LAMBDA x, y : Header(x, y), initheader, fmt)
           before == str_pack(Front(fmt), args[2])
           align == Min({o.size, h.maxalign})
           at == Len(res.packed) - o.size
       IN  /\ Len(res.back.vs) = Len(args[2]) /\ res.back.next = Len(res.packed) + 1
           /\ \A k \in DOMAIN args[2] : Kept(args[2][k], res.back.vs[k])
           /\ ~Bad(res.size) => res.size = IntV(Len(res.packed))
           /\ o.kind \in {"int", "uint"} /\ before # Refusal =>
                at % align = 0 /\ at - Len(before) \in 0..(align - 1)
  /\ Done("unpack") /\ Len(args[1]) = 1 =>
       LET o == getoption(args[1][1])
           bytes == Ordered(SubSeq(args[2], 1, o.size), ~NativeLittle)
           n == Spelled(bytes, o.kind = "int")
       IN  o.kind \in {"int", "uint"} /\ o.size <= Len(args[2]) =>
             IF o.kind = "int" /\ n \in Integers_ THEN res.vs = <<n>>
             ELSE IF o.kind = "uint" /\ n < 2 * Half THEN res.vs = <<l_castU2S(n)>>
             ELSE res = Failed

NumbersSound ==
  /\ PartsExact /\ PackExact
  /\ ComparisonsExact /\ ArithmeticExact /\ LoopsExact /\ TextsExact
  /\ SizesFit /\ MathExact /\ BitsExact /\ Utf8Exact
=============================================================================

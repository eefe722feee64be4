------------------------------- MODULE LuaLibs --------------------------------
(***************************************************************************)
(* The numbers of Lua and what works on them.  The numbers are integers    *)
(* that wrap around and floats that round, with the conversions between    *)
(* them and to and from text, the arithmetic and the comparisons of the    *)
(* virtual machine, and the registers of a numerical for loop.  A float is *)
(* a count of quarters; floats have NBM bits of precision, no negative     *)
(* zero and no fraction finer than a quarter, so that the limits of both   *)
(* kinds are close together.  A numeral is a sequence of characters.       *)
(*                                                                         *)
(* On the numbers: the functions of bit32 (lbitlib.c), math (lmathlib.c)   *)
(* and utf8 (lutf8lib.c), and those of string (lstrlib.c) that use no      *)
(* patterns.  Arguments are values that the call has been given; an        *)
(* argument of the wrong kind is an Error.  Bytes of a UTF-8 text are      *)
(* numbers, its positions count from 1.                                    *)
(***************************************************************************)
EXTENDS Integers, Sequences, FiniteSets, FiniteSetsExt, SequencesExt, Bitwise

CONSTANTS
  NBITS,      \* bits of an integer
  NBM         \* bits of the mantissa of a float, fewer than NBITS - 1

Half == 2^(NBITS - 1)
LUA_MAXINTEGER == Half - 1
LUA_MININTEGER == -Half
Abs(n) == IF n < 0 THEN -n ELSE n
Sign(n) == IF n < 0 THEN -1 ELSE 1
CDiv(m, n) == Sign(m) * Sign(n) * (Abs(m) \div Abs(n))
CMod(m, n) == m - CDiv(m, n) * n

\* intop: the operation on unsigned integers, whose result is taken as signed.
l_castS2U(n) == n % (2 * Half)
l_castU2S(n) == ((n + Half) % (2 * Half)) - Half

INF == 20000
NAN == 30000
MaxFloat == (2^NBM - 1) * 2^(NBITS + 2 - NBM)

\* The float nearest to p / q, of two the one with the even mantissa.
Nearest(p, q, d) ==
  LET m == p \div d
  IN  IF 2 * (p % d) > d \/ (2 * (p % d) = d /\ m % 2 = 1) THEN (m + 1) * (d \div q) ELSE m * (d \div q)
Bounded(x, sign) == IF Abs(x) > MaxFloat THEN sign * INF ELSE x
Round(p, q) ==
  IF Abs(p) > q * 2 * MaxFloat THEN Sign(p) * INF
  ELSE Bounded(Nearest(p, q, q * 2^Min({e \in 0..NBITS : Abs(p) < q * 2^(NBM + e) \/ e = NBITS})), Sign(p))

Infinite(a) == Abs(a) = INF
cast_num(i) == Round(4 * i, 1)
numunm(a) == IF a = NAN THEN NAN ELSE -a
numadd(a, b) ==
  IF NAN \in {a, b} \/ (Infinite(a) /\ a = -b) THEN NAN ELSE Round(a + b, 1)
numsub(a, b) == numadd(a, numunm(b))
nummul(a, b) ==
  IF NAN \in {a, b} \/ (0 \in {a, b} /\ {INF, -INF} \cap {a, b} # {}) THEN NAN
  ELSE Round(a * b, 4)
numdiv(a, b) ==
  IF NAN \in {a, b} \/ (a = 0 /\ b = 0) \/ (Infinite(a) /\ Infinite(b)) THEN NAN
  ELSE IF b = 0 \/ Infinite(a) THEN Sign(a) * Sign(b) * INF
  ELSE Round(4 * a * Sign(b), Abs(b))
l_floor(a) == IF a = NAN \/ Infinite(a) THEN a ELSE 4 * (a \div 4)
fmod(a, b) ==
  IF NAN \in {a, b} \/ Infinite(a) \/ b = 0 THEN NAN ELSE IF Infinite(b) THEN a ELSE CMod(a, b)
luai_nummod(a, b) ==
  LET Adjusted(m) == IF m # NAN /\ m * b < 0 THEN numadd(m, b) ELSE m IN Adjusted(fmod(a, b))
luai_numidiv(a, b) == l_floor(numdiv(a, b))
luai_numlt(a, b) == NAN \notin {a, b} /\ a < b
luai_numle(a, b) == NAN \notin {a, b} /\ a <= b

\* Values: an integer, a float, a text or nil, which also stands for a failure.
IntV(n) == [t |-> "int", n |-> n]
FltV(a) == [t |-> "flt", n |-> a]
StrV(s) == [t |-> "str", s |-> s]
BoolV(b) == [t |-> "bool", b |-> b]
Nil == [t |-> "nil"]
Error == [t |-> "error"]
Metamethod == [t |-> "tm"]
ttisinteger(v) == v.t = "int"
ttisfloat(v) == v.t = "flt"
Fails(v) == v.t = "nil"

-----------------------------------------------------------------------------
\* Numerals.
Digits == <<"0", "1", "2", "3", "4", "5", "6", "7", "8", "9", "a", "b", "c", "d", "e", "f">>
DecDigits == {Digits[i] : i \in 1..10}
HexDigits == {Digits[i] : i \in 1..16}
luaO_hexavalue(c) == (CHOOSE i \in 1..16 : Digits[i] = c) - 1

Stripped(s) ==
  LET text == {i \in DOMAIN s : s[i] # " "}
  IN  IF text = {} THEN <<>> ELSE SubSeq(s, Min(text), Max(text))
isneg(s) == s # <<>> /\ s[1] = "-"
Unsigned(s) == IF s # <<>> /\ s[1] \in {"-", "+"} THEN Tail(s) ELSE s
IsHex(u) == Len(u) >= 2 /\ u[1] = "0" /\ u[2] \in {"x", "X"}

MAXBY10 == LUA_MAXINTEGER \div 10
MAXLASTD == LUA_MAXINTEGER % 10
Overflow == -1
AddDigit(a, d, neg) ==
  IF a = Overflow \/ (a >= MAXBY10 /\ (a > MAXBY10 \/ d > MAXLASTD + (IF neg THEN 1 ELSE 0)))
  THEN Overflow ELSE a * 10 + d

\* An integer in hexadecimal wraps around, one in decimal that is too large is
\* not accepted.
Spelled10(digits, neg) == FoldLeft(LAMBDA x, c : AddDigit(x, luaO_hexavalue(c), neg), 0, digits)
Spelled16(digits) == FoldLeft(LAMBDA x, c : (x * 16 + luaO_hexavalue(c)) % (2 * Half), 0, digits)
IntegerText(u, neg) ==
  LET Value(a) == IF a = Overflow THEN Nil ELSE IntV(l_castU2S(IF neg THEN -a ELSE a))
      In(digits, known) == digits # <<>> /\ ToSet(digits) \subseteq known
  IN  IF IsHex(u)
      THEN IF In(SubSeq(u, 3, Len(u)), HexDigits) THEN Value(Spelled16(SubSeq(u, 3, Len(u)))) ELSE Nil
      ELSE IF In(u, DecDigits) THEN Value(Spelled10(u, neg)) ELSE Nil
l_str2int(s) == LET Text(t) == IntegerText(Unsigned(t), isneg(t)) IN Text(Stripped(s))

\* strtod, without exponents; it must take the whole text.
Positional(digits, base) == FoldLeft(LAMBDA x, c : x * base + luaO_hexavalue(c), 0, digits)
FloatText(m, base, neg) ==
  LET dots == {i \in DOMAIN m : m[i] = "."}
      Value(digits) ==
        IF digits = <<>> \/ ~(ToSet(digits) \subseteq IF base = 16 THEN HexDigits ELSE DecDigits) THEN Nil
        ELSE FltV(Round((IF neg THEN -4 ELSE 4) * Positional(digits, base),
                        IF dots = {} THEN 1 ELSE base^(Len(m) - Min(dots))))
  IN  IF Cardinality(dots) > 1 THEN Nil ELSE Value(SelectSeq(m, LAMBDA c : c # "."))
strtod(s) ==
  LET Text(u) == IF IsHex(u) THEN FloatText(SubSeq(u, 3, Len(u)), 16, isneg(s)) ELSE FloatText(u, 10, isneg(s))
  IN  Text(Unsigned(s))

l_str2d(s) ==
  LET special == {i \in DOMAIN s : s[i] \in {".", "x", "X", "n", "N"}}
  IN  IF special # {} /\ s[Min(special)] \in {"n", "N"} THEN Nil ELSE strtod(Stripped(s))
luaO_str2num(s) == LET Else(i) == IF Fails(i) THEN l_str2d(s) ELSE i IN Else(l_str2int(s))

\* The decimal numeral of n, and what snprintf makes of a float.
decimal[n \in Nat] ==
  IF n < 10 THEN <<Digits[n + 1]>> ELSE Append(decimal[n \div 10], Digits[(n % 10) + 1])
signed(n) == IF n < 0 THEN <<"-">> \o decimal[-n] ELSE decimal[n]
number2str(a) ==
  IF a = NAN THEN <<"n", "a", "n">>
  ELSE (IF a < 0 THEN <<"-">> ELSE <<>>)
       \o (IF Infinite(a) THEN <<"i", "n", "f">>
           ELSE decimal[Abs(a) \div 4]
                \o <<<<>>, <<".", "2", "5">>, <<".", "5">>, <<".", "7", "5">>>>[(Abs(a) % 4) + 1])
luaO_tostring(v) ==
  LET Marked(buff) == IF ToSet(buff) \subseteq DecDigits \cup {"-"} THEN buff \o <<".", "0">> ELSE buff
  IN  IF ttisinteger(v) THEN signed(v.n) ELSE Marked(number2str(v.n))

-----------------------------------------------------------------------------
\* Conversions.
nvalue(v) == IF ttisinteger(v) THEN cast_num(v.n) ELSE v.n
luaV_tonumber_(v) ==
  LET Number(w) == IF Fails(w) THEN Nil ELSE FltV(nvalue(w))
  IN  IF ttisinteger(v) THEN FltV(cast_num(v.n))
      ELSE IF v.t # "str" THEN Nil ELSE Number(luaO_str2num(v.s))
tonumber(v) == IF ttisfloat(v) THEN v ELSE luaV_tonumber_(v)

lua_numbertointeger(a) ==
  IF a # NAN /\ a >= 4 * LUA_MININTEGER /\ a < -4 * LUA_MININTEGER THEN IntV(CDiv(a, 4)) ELSE Nil
Rounded(a, mode) ==
  IF a = l_floor(a) THEN lua_numbertointeger(a)
  ELSE IF mode = 0 THEN Nil
  ELSE lua_numbertointeger(IF mode > 1 THEN l_floor(a) + 4 ELSE l_floor(a))
luaV_tointeger(v, mode) ==
  LET Integer(w) == IF ttisfloat(w) THEN Rounded(w.n, mode) ELSE IF ttisinteger(w) THEN w ELSE Nil
  IN  Integer(IF v.t = "str" THEN luaO_str2num(v.s) ELSE v)
tointeger(v) == luaV_tointeger(v, 0)

-----------------------------------------------------------------------------
\* Comparisons.
l_intfitsf(i) == -(2^NBM) <= i /\ i <= 2^NBM
LTintfloat(i, f) ==
  IF l_intfitsf(i) THEN luai_numlt(cast_num(i), f)
  ELSE IF luai_numle(-cast_num(LUA_MININTEGER), f) THEN TRUE
  ELSE luai_numlt(cast_num(LUA_MININTEGER), f) /\ i < CDiv(f, 4)
\* Mutant: all integers are compared as floats.
LEintfloat_Floats(i, f) == luai_numle(cast_num(i), f)
LEintfloat(i, f) ==
  IF l_intfitsf(i) THEN luai_numle(cast_num(i), f)
  ELSE IF luai_numle(-cast_num(LUA_MININTEGER), f) THEN TRUE
  ELSE luai_numle(cast_num(LUA_MININTEGER), f) /\ i <= CDiv(f, 4)
LTnum(l, r) ==
  IF ttisinteger(l) THEN IF ttisinteger(r) THEN l.n < r.n ELSE LTintfloat(l.n, r.n)
  ELSE IF ttisfloat(r) THEN luai_numlt(l.n, r.n)
  ELSE l.n # NAN /\ ~LEintfloat(r.n, l.n)
LEnum(l, r) ==
  IF ttisinteger(l) THEN IF ttisinteger(r) THEN l.n <= r.n ELSE LEintfloat(l.n, r.n)
  ELSE IF ttisfloat(r) THEN luai_numle(l.n, r.n)
  ELSE l.n # NAN /\ ~LTintfloat(r.n, l.n)
luaV_equalobj(l, r) ==
  LET Equal(i, j) == ~Fails(i) /\ i = j
  IN  IF l.t = r.t THEN l = r /\ l # FltV(NAN)
      ELSE {l.t, r.t} = {"int", "flt"} /\ Equal(tointeger(l), tointeger(r))

-----------------------------------------------------------------------------
\* Arithmetic.
luaV_div(m, n) ==
  IF n = -1 THEN l_castU2S(-m)
  ELSE IF m * n < 0 /\ CMod(m, n) # 0 THEN CDiv(m, n) - 1 ELSE CDiv(m, n)
luaV_mod(m, n) ==
  IF n = -1 THEN 0
  ELSE IF CMod(m, n) # 0 /\ m * n < 0 THEN CMod(m, n) + n ELSE CMod(m, n)
luaV_shiftl(x, y) ==
  IF Abs(y) >= NBITS THEN 0
  ELSE IF y < 0 THEN l_castU2S(l_castS2U(x) \div 2^(-y)) ELSE l_castU2S(x * 2^y)

BitOps == {"BAND", "BOR", "BXOR", "SHL", "SHR", "BNOT"}
intarith(op, a, b) ==
  LET x == l_castS2U(a)
      y == l_castS2U(b)
  IN  CASE op = "ADD" -> l_castU2S(a + b)
        [] op = "SUB" -> l_castU2S(a - b)
        [] op = "MUL" -> l_castU2S(a * b)
        [] op = "MOD" -> luaV_mod(a, b)
        [] op = "IDIV" -> luaV_div(a, b)
        [] op = "BAND" -> l_castU2S(x & y)
        [] op = "BOR" -> l_castU2S(x | y)
        [] op = "BXOR" -> l_castU2S(x ^^ y)
        [] op = "SHL" -> luaV_shiftl(a, b)
        [] op = "SHR" -> luaV_shiftl(a, l_castU2S(-b))
        [] op = "UNM" -> l_castU2S(-a)
        [] op = "BNOT" -> l_castU2S((2 * Half - 1) ^^ x)
numarith(op, a, b) ==
  CASE op = "ADD" -> numadd(a, b)
    [] op = "SUB" -> numsub(a, b)
    [] op = "MUL" -> nummul(a, b)
    [] op = "DIV" -> numdiv(a, b)
    [] op = "IDIV" -> luai_numidiv(a, b)
    [] op = "UNM" -> numunm(a)
    [] op = "MOD" -> luai_nummod(a, b)

OnIntegers(op, p, q) ==
  IF Fails(p) \/ Fails(q) THEN Metamethod
  ELSE IF op \in {"MOD", "IDIV"} /\ q.n = 0 THEN Error ELSE IntV(intarith(op, p.n, q.n))
OnFloats(op, x, y) ==
  IF Fails(x) \/ Fails(y) THEN Metamethod ELSE FltV(numarith(op, x.n, y.n))
luaO_arith(op, p, q) ==
  IF op \in BitOps THEN OnIntegers(op, tointeger(p), tointeger(q))
  ELSE IF op # "DIV" /\ ttisinteger(p) /\ ttisinteger(q) THEN OnIntegers(op, p, q)
  ELSE OnFloats(op, tonumber(p), tonumber(q))

-----------------------------------------------------------------------------
\* The limit of a loop over integers: clipped when it is out of their range.
forlimit(v, step) ==
  LET Clipped(x) == IF luai_numlt(0, x.n) THEN [p |-> LUA_MAXINTEGER, stopnow |-> step < 0]
                    ELSE [p |-> LUA_MININTEGER, stopnow |-> step >= 0]
      Limit(i) == IF ~Fails(i) THEN [p |-> i.n, stopnow |-> FALSE] ELSE Clipped(tonumber(v))
  IN  Limit(luaV_tointeger(v, IF step < 0 THEN 2 ELSE 1))

\* The index, the limit and the step of a loop, before its first test.
Prepared(idx, limit, step) == [t |-> "loop", idx |-> idx, limit |-> limit, step |-> step]
OP_FORPREP(init, limit, step) ==
  LET OfIntegers(l) == Prepared(IntV(l_castU2S((IF l.stopnow THEN 0 ELSE init.n) - step.n)), IntV(l.p), step)
      OfFloats(ninit, nlimit, nstep) ==
        IF Nil \in {ninit, nlimit, nstep} THEN Error
        ELSE Prepared(FltV(numsub(ninit.n, nstep.n)), nlimit, nstep)
  IN  IF ttisinteger(init) /\ ttisinteger(step) /\ ~Fails(tonumber(limit))
      THEN OfIntegers(forlimit(limit, step.n)) ELSE OfFloats(tonumber(init), tonumber(limit), tonumber(step))

\* The next index, and whether the loop goes on with it.
OP_FORLOOP(r) ==
  LET IntTurn(idx) ==
        [idx |-> IntV(idx), on |-> IF 0 < r.step.n THEN idx <= r.limit.n ELSE r.limit.n <= idx]
      FltTurn(idx) ==
        [idx |-> FltV(idx), on |-> IF luai_numlt(0, r.step.n) THEN luai_numle(idx, r.limit.n)
                                   ELSE luai_numle(r.limit.n, idx)]
  IN  IF ttisinteger(r.idx) THEN IntTurn(l_castU2S(r.idx.n + r.step.n)) ELSE FltTurn(numadd(r.idx.n, r.step.n))

-----------------------------------------------------------------------------
\* Sizes of new tables in one byte.
RECURSIVE FloatingByte(_, _)
FloatingByte(x, e) ==
  IF x >= 128 THEN FloatingByte((x + 15) \div 16, e + 4)
  ELSE IF x >= 16 THEN FloatingByte((x + 1) \div 2, e + 1)
  ELSE (e + 1) * 8 + x - 8
luaO_int2fb(x) == IF x < 8 THEN x ELSE FloatingByte(x, 0)
luaO_fb2int(x) == IF x < 8 THEN x ELSE ((x % 8) + 8) * 2^((x \div 8) - 1)

-----------------------------------------------------------------------------
(* The libraries *)

CONSTANTS
  LUA_NBITS,    \* bits that bit32 works on, a power of two, fewer than NBITS
  L_RANDMAX,    \* greatest random number: 3, as a float has two fractional bits
  NB,                               \* bits of a byte; NBITS is a multiple
  SZSHORT, SZINTC, SZSIZET, SZLONG, \* sizes of the types of C
  MAXINTSIZE, MAXALIGN,
  MAXSIZE,                          \* greatest length of a string
  NativeLittle,
  NoNumber

\* luaL_checkinteger and luaL_checknumber.
Checked(r) == IF Fails(r) THEN Error ELSE r
checkinteger(v) == Checked(tointeger(v))
checknumber(v) == Checked(tonumber(v))
Bad(v) == v.t = "error"

-----------------------------------------------------------------------------
\* bit32: the arguments are unsigned integers.
ALLONES == 2^LUA_NBITS - 1
trim(x) == x % 2^LUA_NBITS
AllBits == 2 * Half - 1
mask(n) == AllBits - ((ALLONES * 2^n) % (2 * Half))

andaux(xs) == trim(FoldLeft(LAMBDA r, x : r & x, AllBits, xs))
b_test(xs) == andaux(xs) # 0
b_or(xs) == trim(FoldLeft(LAMBDA r, x : r | x, 0, xs))
b_xor(xs) == trim(FoldLeft(LAMBDA r, x : r ^^ x, 0, xs))
b_not(x) == trim(AllBits - x)

b_shift(r, i) ==
  IF Abs(i) >= LUA_NBITS THEN 0
  ELSE IF i < 0 THEN trim(r) \div 2^(-i) ELSE trim(r * 2^i)
b_rshift(r, i) == b_shift(r, -i)
b_arshift(r, i) ==
  IF i < 0 \/ (r & 2^(LUA_NBITS - 1)) = 0 THEN b_shift(r, -i)
  ELSE IF i >= LUA_NBITS THEN ALLONES
  ELSE trim((r \div 2^i) | (AllBits - (ALLONES \div 2^i)))
b_rot(x, d) ==
  LET i == d % LUA_NBITS
      r == trim(x)
  IN  IF i = 0 THEN r ELSE trim((r * 2^i) | (r \div 2^(LUA_NBITS - i)))
b_rrot(x, d) == b_rot(x, -d)

fieldargs(f, w) == 0 <= f /\ 0 < w /\ f + w <= LUA_NBITS
b_extract(x, f, w) == (trim(x) \div 2^f) & mask(w)
b_replace(x, y, f, w) ==
  LET m == mask(w)
      field == (m * 2^f) % (2 * Half)
  IN  (trim(x) & (AllBits - field)) | ((trim(y) & m) * 2^f)

-----------------------------------------------------------------------------
\* math.
math_abs(v) ==
  LET Float(x) == IF Bad(x) THEN Error ELSE FltV(IF x.n < 0 THEN numunm(x.n) ELSE x.n)
  IN  IF ttisinteger(v) THEN IntV(IF v.n < 0 THEN l_castU2S(-v.n) ELSE v.n) ELSE Float(checknumber(v))
math_toint(v) == tointeger(v)
pushnumint(a) == LET Else(i) == IF Fails(i) THEN FltV(a) ELSE i IN Else(lua_numbertointeger(a))
ceil(a) == numunm(l_floor(numunm(a)))
math_floor(v) ==
  LET Float(x) == IF Bad(x) THEN Error ELSE pushnumint(l_floor(x.n))
  IN  IF ttisinteger(v) THEN v ELSE Float(checknumber(v))
math_ceil(v) ==
  LET Float(x) == IF Bad(x) THEN Error ELSE pushnumint(ceil(x.n))
  IN  IF ttisinteger(v) THEN v ELSE Float(checknumber(v))
math_fmod(v, w) ==
  LET Float(x, y) == IF Bad(x) \/ Bad(y) THEN Error ELSE FltV(fmod(x.n, y.n))
  IN  IF ttisinteger(v) /\ ttisinteger(w)
      THEN IF w.n = 0 THEN Error ELSE IF w.n = -1 THEN IntV(0) ELSE IntV(CMod(v.n, w.n))
      ELSE Float(checknumber(v), checknumber(w))
math_modf(v) ==
  LET Parts(n, ip) == <<pushnumint(ip), FltV(IF n = ip /\ n # NAN THEN 0 ELSE numsub(n, ip))>>
      Float(x) == IF Bad(x) THEN <<Error, Error>>
                  ELSE Parts(x.n, IF luai_numlt(x.n, 0) THEN ceil(x.n) ELSE l_floor(x.n))
  IN  IF ttisinteger(v) THEN <<v, FltV(0)>> ELSE Float(checknumber(v))
math_ult(m, n) == l_castS2U(m) < l_castS2U(n)
math_min(vs) == FoldLeft(LAMBDA least, v : IF LTnum(v, least) THEN v ELSE least, vs[1], vs)
math_max(vs) == FoldLeft(LAMBDA most, v : IF LTnum(most, v) THEN v ELSE most, vs[1], vs)
math_type(v) == IF ttisinteger(v) THEN "integer" ELSE IF ttisfloat(v) THEN "float" ELSE "nil"

\* math.random(low, up) when l_rand gives rand.
math_random(low, up, rand) ==
  IF low > up \/ ~(low >= 0 \/ up <= LUA_MAXINTEGER + low) THEN Error
  ELSE IntV(CDiv(nummul(rand, numadd(cast_num(up - low), 4)), 4) + low)

-----------------------------------------------------------------------------
\* utf8.
MAXUNICODE == 1114111
RECURSIVE WithContinuation(_, _, _)
WithContinuation(x, mfb, tail) ==
  LET bytes == <<128 + (x % 64)>> \o tail
      rest == x \div 64
  IN  IF rest > (mfb \div 2) THEN WithContinuation(rest, mfb \div 2, bytes)
      ELSE <<(((255 - (mfb \div 2)) * 2) % 256) + rest>> \o bytes
luaO_utf8esc(x) == IF x < 128 THEN <<x>> ELSE WithContinuation(x, 63, <<>>)
utfchar(codes) == FlattenSeq([i \in DOMAIN codes |-> luaO_utf8esc(codes[i])])

Byte(s, i) == IF i \in DOMAIN s THEN s[i] ELSE 0
iscont(s, i) == Byte(s, i) \in 128..191
u_posrelat(pos, len) == IF pos >= 0 THEN pos ELSE IF -pos > len THEN 0 ELSE len + pos + 1

\* The character at i, and the position after it, or 0.
limits == <<255, 127, 2047, 65535>>
Continuations(c) == Cardinality({k \in 0..6 : \A j \in k..6 : (c \div 2^j) % 2 = 1})
Invalid == [val |-> 0, next |-> 0]
Decode(s, i, c, count, tail) ==
  LET Value(res) == IF res > MAXUNICODE \/ res <= limits[count + 1] THEN Invalid
                    ELSE [val |-> res, next |-> i + count + 1]
  IN  IF c < 128 THEN [val |-> c, next |-> i + 1]
      ELSE IF count > 3 \/ \E k \in 1..count : ~iscont(s, i + k) THEN Invalid
      ELSE Value(FoldLeft(LAMBDA r, cc : r * 64 + cc, 0, tail) + ((c * 2^count) % 128) * 2^(count * 5))
Lead(s, i, c, count) == Decode(s, i, c, count, [k \in 1..count |-> Byte(s, i + k) % 64])
utf8_decode(s, i) == Lead(s, i, Byte(s, i), Continuations(Byte(s, i)))

\* The characters that start in i..j, up to the first invalid one, at stop.
RECURSIVE Decoded(_, _, _)
Decoded(s, i, j) ==
  LET With(d, rest) == [rest EXCEPT !.codes = <<d.val>> \o @]
      First(d) == IF d.next = 0 THEN [codes |-> <<>>, stop |-> i] ELSE With(d, Decoded(s, d.next, j))
  IN  IF i > j THEN [codes |-> <<>>, stop |-> 0] ELSE First(utf8_decode(s, i))
utflen(s, i, j) ==
  LET Length(d) == IF d.stop # 0 THEN [t |-> "invalid", n |-> d.stop] ELSE IntV(Len(d.codes))
      Between(posi, posj) ==
        IF ~(1 <= posi /\ posi <= Len(s) + 1 /\ posj <= Len(s)) THEN Error
        ELSE Length(Decoded(s, posi, posj))
  IN  Between(u_posrelat(i, Len(s)), u_posrelat(j, Len(s)))
codepoint(s, i, j) ==
  LET Found(d) == IF d.stop # 0 THEN Error ELSE [t |-> "codes", codes |-> d.codes]
      Between(posi, pose) == IF ~(posi >= 1 /\ pose <= Len(s)) THEN Error ELSE Found(Decoded(s, posi, pose))
  IN  Between(u_posrelat(i, Len(s)), u_posrelat(j, Len(s)))

RECURSIVE Back(_, _), Forward(_, _), MoveBack(_, _, _), MoveOn(_, _, _)
Back(s, p) == IF p > 1 /\ iscont(s, p) THEN Back(s, p - 1) ELSE p
Forward(s, p) == IF iscont(s, p) THEN Forward(s, p + 1) ELSE p
MoveBack(s, n, p) == IF n < 0 /\ p > 1 THEN MoveBack(s, n + 1, Back(s, p - 1)) ELSE <<n, p>>
MoveOn(s, n, p) == IF n > 0 /\ p <= Len(s) THEN MoveOn(s, n - 1, Forward(s, p + 1)) ELSE <<n, p>>
byteoffset(s, n, i) ==
  LET At(moved) == IF moved[1] = 0 THEN IntV(moved[2]) ELSE Nil
      From(posi) ==
        IF ~(1 <= posi /\ posi <= Len(s) + 1) \/ (n # 0 /\ iscont(s, posi)) THEN Error
        ELSE At(IF n = 0 THEN <<0, Back(s, posi)>>
                ELSE IF n < 0 THEN MoveBack(s, n, posi) ELSE MoveOn(s, n - 1, posi))
  IN  From(u_posrelat(i, Len(s)))

\* One step of utf8.codes after position n.
iter_aux(s, n) ==
  LET Here(p, d) == IF d.next = 0 \/ iscont(s, d.next) THEN Error
                    ELSE [t |-> "char", n |-> p, code |-> d.val]
      From(p) == IF p > Len(s) THEN Nil ELSE Here(p, utf8_decode(s, p))
  IN  From(IF n = 0 THEN 1 ELSE IF n <= Len(s) THEN Forward(s, n + 1) ELSE n)

-----------------------------------------------------------------------------
(* Parts of texts, and packed data.  A format is a sequence of options, each with   *)
(* the number written after it or NoNumber; the bytes of packed data are numbers of *)
(* NB bits, an integer has SZINT of them.  The options for floats copy bytes and    *)
(* are left out.                                                                    *)

Refusal == <<-1>>    \* an error, where the result is a text
SZINT == NBITS \div NB
MC == 2^NB - 1

posrelat(pos, len) == IF pos >= 0 THEN pos ELSE IF -pos > len THEN 0 ELSE len + pos + 1
Slice(s, i, j) == SubSeq(s, Max({i, 1}), Min({j, Len(s)}))
str_sub(s, i, j) == Slice(s, posrelat(i, Len(s)), posrelat(j, Len(s)))
str_byte(s, i, j) == Slice(s, posrelat(i, Len(s)), posrelat(j, Len(s)))
str_reverse(s) == Reverse(s)
str_rep(s, n, sep) ==
  IF n <= 0 THEN <<>>
  ELSE IF Len(s) + Len(sep) > MAXSIZE \div n THEN Refusal
  ELSE FlattenSeq([k \in 1..n |-> IF k < n THEN s \o sep ELSE s])
str_char(codes) == IF \E k \in DOMAIN codes : codes[k] \notin 0..MC THEN Refusal ELSE codes

-----------------------------------------------------------------------------
\* Options.  h: byte order and greatest alignment.
initheader == [islittle |-> NativeLittle, maxalign |-> 1]
getnum(o, df) == IF o.n = NoNumber THEN df ELSE o.n
getnumlimit(o, df) == LET sz == getnum(o, df) IN IF sz > MAXINTSIZE \/ sz <= 0 THEN -1 ELSE sz

\* kind is "bad" when the option is not one or its number is out of limits.
Option(kind, size) == [kind |-> IF size < 0 THEN "bad" ELSE kind, size |-> size]
getoption(o) ==
  CASE o.c = "b" -> Option("int", 1)
    [] o.c = "B" -> Option("uint", 1)
    [] o.c = "h" -> Option("int", SZSHORT)
    [] o.c = "H" -> Option("uint", SZSHORT)
    [] o.c = "l" -> Option("int", SZLONG)
    [] o.c = "L" -> Option("uint", SZLONG)
    [] o.c = "j" -> Option("int", SZINT)
    [] o.c = "J" -> Option("uint", SZINT)
    [] o.c = "T" -> Option("uint", SZSIZET)
    [] o.c = "i" -> Option("int", getnumlimit(o, SZINTC))
    [] o.c = "I" -> Option("uint", getnumlimit(o, SZINTC))
    [] o.c = "s" -> Option("string", getnumlimit(o, SZSIZET))
    [] o.c = "c" -> Option("char", getnum(o, -1))
    [] o.c = "z" -> Option("zstr", 0)
    [] o.c = "x" -> Option("padding", 1)
    [] o.c = "X" -> Option("paddalign", 0)
    [] o.c \in {" ", "<", ">", "="} -> Option("nop", 0)
    [] o.c = "!" -> [kind |-> IF getnumlimit(o, MAXALIGN) < 0 THEN "bad" ELSE "nop", size |-> 0]
    [] OTHER -> Option("bad", 0)
\* What reading the option sets.
Header(h, o) ==
  CASE o.c = "<" -> [h EXCEPT !.islittle = TRUE]
    [] o.c = ">" -> [h EXCEPT !.islittle = FALSE]
    [] o.c = "=" -> [h EXCEPT !.islittle = NativeLittle]
    [] o.c = "!" -> [h EXCEPT !.maxalign = getnumlimit(o, MAXALIGN)]
    [] OTHER -> h

PowersOf2 == {2^k : k \in 0..5}
ntoalign(align, totalsize) == (align - (totalsize % align)) % align

\* The option at the head of fmt, the padding before it, and the rest: X takes
\* its alignment from the option after it, which it uses up.
Details(h, totalsize, fmt, o, next) ==
  LET X == o.kind = "paddalign"
      size == IF X THEN next.size ELSE o.size
      align == Min({size, h.maxalign})
      aligns == size > 1 /\ o.kind # "char"
      bad == \/ o.kind = "bad"
             \/ X /\ (next.kind \in {"bad", "char"} \/ next.size = 0)
             \/ aligns /\ align \notin PowersOf2
  IN  [kind |-> IF bad THEN "bad" ELSE o.kind, size |-> o.size, h |-> h,
       pad |-> IF aligns /\ ~bad THEN ntoalign(align, totalsize) ELSE 0,
       rest |-> SubSeq(fmt, IF X THEN 3 ELSE 2, Len(fmt))]
getdetails(h, totalsize, fmt) ==
  Details(Header(h, fmt[1]), totalsize, fmt, getoption(fmt[1]),
          IF Len(fmt) > 1 THEN getoption(fmt[2]) ELSE Option("bad", 0))

-----------------------------------------------------------------------------
\* pack.
Ordered(bytes, islittle) == IF islittle THEN bytes ELSE Reverse(bytes)
packint(n, islittle, size, neg) ==
  Ordered([k \in 1..size |-> IF k <= SZINT THEN (l_castS2U(n) \div 2^(NB * (k - 1))) % 2^NB
                             ELSE IF neg THEN MC ELSE 0], islittle)

Padding(n) == [k \in 1..n |-> 0]
Takes(kind) == kind \in {"int", "uint", "char", "string", "zstr"}
\* The argument is refused.
Refused(kind, size, v) ==
  \/ kind = "int" /\ size < SZINT /\ v \notin -(2^(size * NB - 1))..(2^(size * NB - 1) - 1)
  \/ kind = "uint" /\ size < SZINT /\ l_castS2U(v) >= 2^(size * NB)
  \/ kind = "char" /\ Len(v) > size
  \/ kind = "string" /\ size < SZSIZET /\ Len(v) >= 2^(size * NB)
  \/ kind = "zstr" /\ 0 \in ToSet(v)
BytesOf(d, v) ==
  CASE d.kind \in {"int", "uint"} -> packint(v, d.h.islittle, d.size, d.kind = "int" /\ v < 0)
    [] d.kind = "char" -> v \o Padding(d.size - Len(v))
    [] d.kind = "string" -> packint(Len(v), d.h.islittle, d.size, FALSE) \o v
    [] d.kind = "zstr" -> v \o <<0>>
    [] d.kind = "padding" -> <<0>>
    [] OTHER -> <<>>

RECURSIVE Packed(_, _, _, _)
Packed(h, fmt, vs, out) ==
  LET Item(d, v, more) ==
        IF d.kind = "bad" \/ (Takes(d.kind) /\ Refused(d.kind, d.size, v)) THEN Refusal
        ELSE Packed(d.h, d.rest, IF Takes(d.kind) THEN more ELSE vs, out \o Padding(d.pad) \o BytesOf(d, v))
  IN  IF fmt = <<>> THEN out
      ELSE Item(getdetails(h, Len(out), fmt), IF vs = <<>> THEN 0 ELSE vs[1], SubSeq(vs, 2, Len(vs)))
str_pack(fmt, vs) == Packed(initheader, fmt, vs, <<>>)

RECURSIVE Sized(_, _, _)
Sized(h, fmt, total) ==
  LET Item(d) ==
        IF d.kind \in {"bad", "string", "zstr"} \/ total > MAXSIZE - (d.size + d.pad) THEN Error
        ELSE Sized(d.h, d.rest, total + d.size + d.pad)
  IN  IF fmt = <<>> THEN IntV(total) ELSE Item(getdetails(h, total, fmt))
str_packsize(fmt) == Sized(initheader, fmt, 0)

-----------------------------------------------------------------------------
\* unpack.
LowBytes(b) ==
  FoldLeft(LAMBDA x, k : x + b[k] * 2^(NB * (k - 1)), 0, [k \in 1..Min({Len(b), SZINT}) |-> k])
\* The bytes that an integer of Lua has no room for must repeat its sign.
Extended(res, b, issigned) ==
  IF \E k \in (SZINT + 1)..Len(b) : b[k] # IF ~issigned \/ res >= 0 THEN 0 ELSE MC THEN Error ELSE IntV(res)
unpackint(bytes, islittle, issigned) ==
  LET size == Len(bytes)
      Value(low) == IF size < SZINT /\ issigned /\ low >= 2^(size * NB - 1) THEN low - 2^(size * NB)
                    ELSE l_castU2S(low)
      Of(b) == Extended(Value(LowBytes(b)), b, issigned)
  IN  Of(Ordered(bytes, islittle))

\* The values and the next position.  The end of a counted text is computed in
\* size_t; when that wraps, what is read is undefined.
Failed == [vs |-> <<>>, next |-> 0]
Undefined == [vs |-> <<>>, next |-> -1]
RECURSIVE Unpacked(_, _, _, _, _)
Unpacked(h, fmt, data, pos, vs) ==
  LET \* The value that d, at position at, has taken from size bytes.
      More(d, at, new, size) == Unpacked(d.h, d.rest, data, at + size, vs \o new)
      Counted(d, at, r) ==
        IF r.t = "error" \/ (at + d.size + r.n) % 2^(NB * SZSIZET) > Len(data) THEN Failed
        ELSE IF r.n < 0 \/ at + d.size + r.n > Len(data) THEN Undefined
        ELSE More(d, at, <<SubSeq(data, at + d.size + 1, at + d.size + r.n)>>, d.size + r.n)
      Value(d, at, bytes, r, stop) ==
        CASE r.t = "error" /\ d.kind # "string" -> Failed
          [] r.t # "error" /\ d.kind \in {"int", "uint"} -> More(d, at, <<r.n>>, d.size)
          [] d.kind = "char" -> More(d, at, <<bytes>>, d.size)
          [] d.kind = "string" -> Counted(d, at, r)
          [] d.kind = "zstr" -> More(d, at, <<SubSeq(data, at + 1, stop - 1)>>, stop - at)
          [] OTHER -> More(d, at, <<>>, d.size)
      Read(d, at, bytes) ==
        Value(d, at, bytes,
              IF d.kind \in {"int", "uint", "string"} THEN unpackint(bytes, d.h.islittle, d.kind = "int") ELSE Nil,
              Min({Len(data) + 1} \cup {k \in (at + 1)..Len(data) : data[k] = 0}))
      Item(d, at) ==
        IF d.kind = "bad" \/ at + d.size > Len(data) THEN Failed
        ELSE Read(d, at, SubSeq(data, at + 1, at + d.size))
      Padded(d) == Item(d, pos + d.pad)
  IN  IF fmt = <<>> THEN [vs |-> vs, next |-> pos + 1] ELSE Padded(getdetails(h, pos, fmt))
str_unpack(fmt, data, init) ==
  LET pos == posrelat(init, Len(data)) - 1
  IN  IF pos \notin 0..Len(data) THEN Failed ELSE Unpacked(initheader, fmt, data, pos, <<>>)
=============================================================================

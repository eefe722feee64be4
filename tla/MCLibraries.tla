----------------------------- MODULE MCLibraries ------------------------------
EXTENDS Libraries, LuaVm, TLC
CONSTANTS n1, n2, n3

\* Tables: two names collide with each other, and all with some integer.
MCHashOf == n1 :> 1 @@ n2 :> 1 @@ n3 :> 2

\* Patterns of two or three items over the characters a and b.
Item(set, rep) == <<[kind |-> "set", set |-> set, rep |-> rep]>>
Of(kind) == <<[kind |-> kind]>>
AB == {"a", "b"}
Singles == {Item(set, rep) : set \in {{"a"}, AB}, rep \in {"1", "?", "*", "+", "-"}}
Captured ==
  {Of("open") \o x \o Of("close") :
     x \in {Item(AB, rep) : rep \in {"1", "*", "-"}} \cup {Item({"a"}, rep) : rep \in {"?", "-"}}}
Specials ==
  {Of("position"), <<[kind |-> "frontier", set |-> {"a"}]>>, <<[kind |-> "balance", b |-> "a", e |-> "b"]>>}
Back == <<[kind |-> "capture", l |-> 1]>>
Ends == {Item({"a"}, "1"), Of("end")}
Some == Singles \cup Captured \cup Specials
MCPatterns ==
  {x \o y : x \in Some, y \in Some \cup Ends}
  \cup {c \o x \o Back : c \in Captured, x \in Some \cup {<<>>}}
  \cup {c \o x \o Back \o y : c \in Captured, x \in Captured, y \in Ends}
  \cup {Of("open") \o c \o x \o Of("close") \o y : c \in Captured, x \in Singles, y \in Ends}
MCSubjects == UNION {[1..n -> AB] : n \in 0..3} \cup {<<"a", "a", "b", "b">>, <<"a", "b", "a", "b">>}

\* The programs that are compiled, and the states they are run from.  A name is a
\* sequence of numbers; the functions have the parameters a and b, the upvalues
\* _ENV and u, and read the globals x, g (a function that is logged), i and l.
nA == <<1>>
nB == <<2>>
nU == <<3>>
nX == <<4>>
nG == <<7>>
nI == <<9>>
nL == <<10>>
C(v) == [kind |-> "const", val |-> v]
N(n) == [kind |-> "name", name |-> n]
Bin(o, l, r) == [kind |-> "bin", op |-> o, l |-> l, r |-> r]
Un(o, e) == [kind |-> "un", op |-> o, of |-> e]
CallG(xs) == [kind |-> "call", of |-> N(nG), args |-> xs]
At(tab, k) == [kind |-> "index", of |-> tab, key |-> k]
Paren(e) == [kind |-> "paren", of |-> e]
vA == N(nA)
vB == N(nB)
vU == N(nU)
vX == N(nX)
vI == N(nI)
vL == N(nL)

Local(n, xs) == [kind |-> "local", names |-> n, xs |-> xs]
Set(ts, xs) == [kind |-> "assign", targets |-> ts, xs |-> xs]
CallSt(e) == [kind |-> "callstat", x |-> e]
Ret(xs) == [kind |-> "return", xs |-> xs]
If1(c, th, el) == [kind |-> "if", parts |-> <<[cond |-> c, body |-> th]>>, else |-> el]
If2(c, th, c2, t2, el) == [kind |-> "if", parts |-> <<[cond |-> c, body |-> th], [cond |-> c2, body |-> t2]>>, else |-> el]
Break == [kind |-> "break"]
While(c, bd) == [kind |-> "while", cond |-> c, body |-> bd]
Repeat(bd, c) == [kind |-> "repeat", cond |-> c, body |-> bd]
For(n, f0, t0, s0, bd) == [kind |-> "for", name |-> n, from |-> f0, to |-> t0, step |-> s0, body |-> bd]
Do(bd) == [kind |-> "do", body |-> bd]


\* Expressions: conditions two operators deep, and operations that fold, join,
\* spill constants and take registers.
Atoms == {vA, CallG(<<vX>>), C(Bool(FALSE))}
Logic(ls, rs) == {Bin(o, l, r) : o \in {"and", "or", "=="}, l \in ls, r \in rs}
L1 == Atoms \cup {Un("not", e) : e \in Atoms} \cup Logic(Atoms, Atoms)
L2 == L1 \cup Logic(L1, Atoms) \cup Logic(Atoms, L1) \cup {Un("not", e) : e \in L1}
Plain == {vA, vX, C(Num(1)), C(Str(<<1, 2>>)), CallG(<<vA, vB>>), At(vU, vA)}
Ops(ls, rs) == {Bin(o, l, r) : o \in {"+", "-", "..", "<", ">="}, l \in ls, r \in rs}
Mixed == {Un("-", vA), Un("-", C(Num(2))), Bin("..", vX, vB), Bin("-", C(Num(3)), C(Num(1))),
         Bin("or", vA, vB), Bin("<=", vB, vX), CallG(<<CallG(<<vX>>)>>), Paren(CallG(<<vA, vB>>)), vU}
E2 == Ops(Plain, Plain) \cup Ops(Mixed, Plain) \cup Ops(Plain, Mixed)
Contexts(e) ==
  {<<Ret(<<e>>)>>, <<Local(<<nL>>, <<e>>), Ret(<<vL, vA>>)>>, <<Set(<<vB>>, <<e>>), Ret(<<vB, vA>>)>>,
   <<If1(e, <<Ret(<<C(Num(1))>>)>>, <<>>), Ret(<<C(Num(2))>>)>>}
Uses(e) ==
  {<<Set(<<vX>>, <<e>>), Ret(<<vX, e>>)>>, <<Set(<<vU>>, <<e>>), CallSt(CallG(<<e, vB>>))>>,
   <<Local(<<nL>>, <<vB, e>>), Local(<<nI, nA>>, <<e>>), Ret(<<CallG(<<vL, vI, vA>>)>>)>>}

\* Assignments to several targets.
Targets == {vA, vX, vU, At(vA, vB), At(vA, C(Num(1))), At(vU, vA), At(vX, vX)}
Lists == {<<C(Nil)>>, <<vB, vA>>, <<CallG(<<vB, vX>>)>>, <<vB, CallG(<<vA>>)>>, <<vA, vB, vX>>}
Assigns == {<<Set(<<t1, t2>>, xs), Ret(<<vA, vB, vU>>)>> : t1, t2 \in Targets, xs \in Lists}
  \cup {<<Set(<<t1, vA, t2>>, <<vU, vB>>), Ret(<<vA>>)>> : t1, t2 \in Targets}
Locals == {<<Local(<<nL>>, xs), Local(<<nI>>, <<>>), st, Local(<<nX, nU>>, <<>>), Ret(<<vL, vI, vX, vU>>)>> :
             xs \in {<<>>, <<C(Nil)>>, <<vB>>},
             st \in {Do(<<Local(<<nA>>, <<>>)>>), If1(vA, <<Set(<<vI>>, <<vB>>)>>, <<>>), Set(<<vL>>, <<vI>>)}}

\* Loops and branches.
Inc == Set(<<vX>>, <<Bin("+", vX, C(Num(1)))>>)
Conds == {vA, Un("not", vA), Bin("and", vA, Bin("<", vX, vB)), Bin("or", Un("not", vA), Bin("<", vB, vX)), C(Nil), C(Bool(TRUE))}
Steps == {CallSt(CallG(<<vX>>)), Break, Ret(<<vX>>), Local(<<nL>>, <<vX>>)}
Branches == {If1(c, <<s>>, e) : c \in Conds, s \in Steps, e \in {<<>>, <<Inc>>}}
  \cup {If2(c, <<s>>, vA, <<Break>>, <<CallSt(CallG(<<vB>>))>>) : c \in Conds, s \in Steps}
Loops(s) ==
  {<<While(Bin("<", vX, vB), <<Inc, s, CallSt(CallG(<<>>))>>), Ret(<<vX>>)>>,
   <<Repeat(<<Inc, Local(<<nI>>, <<vX>>), s>>, Bin("or", Bin(">", vI, C(Num(3))), Un("not", vA))), Ret(<<vX>>)>>,
   <<For(nI, C(Num(1)), vB, <<>>, <<Inc, s, CallSt(CallG(<<vI>>))>>), Ret(<<vX, vI>>)>>,
   <<For(nI, vB, vX, <<Un("-", C(Num(2)))>>, <<Do(<<s>>), CallSt(CallG(<<vI>>))>>)>>,
   <<While(Bin("<", vX, vB), <<Inc, If1(vB, <<s>>, <<CallSt(CallG(<<vU>>))>>)>>), Ret(<<vX>>)>>}

MCPrograms ==
  UNION {Contexts(e) : e \in L2} \cup UNION {Uses(e) : e \in E2} \cup Assigns \cup Locals
    \cup UNION {Loops(s) : s \in Branches}

G0 == <<Table(0), Str(nG)>>
In(av, bv, uv, xv) ==
  [params |-> <<av, bv>>, up |-> <<Table(0), uv>>,
   heap |-> [p \in {G0, <<Table(0), Str(nX)>>, <<Table(1), Num(1)>>} |->
               CASE p = G0 -> Func [] p = <<Table(1), Num(1)>> -> Num(8) [] OTHER -> xv]]
MCInputs == {In(Nil, Num(3), Table(1), Num(1)), In(Num(1), Num(5), Table(1), Num(2)),
             In(Bool(FALSE), Num(2), Num(3), Bool(FALSE)), In(Table(1), Num(1), Table(2), Str(<<1>>)),
             In(Table(2), Table(1), Str(<<2>>), Table(2))}
MCUpNames == <<<<0>>, nU>>
MCParamNames == <<nA, nB>>

\* Numbers around the limits of six bits, as integers and in quarters.
INF == 20000
NAN == 30000
MCInts == {-32, -31, -18, -17, -16, -7, -3, -1, 0, 1, 2, 5, 15, 16, 17, 18, 19, 29, 30, 31}
MCFloats == {0, 1, -1, 3, 4, -6, 8, 15, -20, 60, 64, 72, -72, 120, 128, -128, -144, 240, INF, -INF, NAN}
MCNumerals ==
  {<<>>, <<" ", "-", "3", "2">>, <<"3", "2">>, <<"3", "1", " ">>, <<"0", "x", "3", "f">>, <<"1", ".", "5">>,
   <<"n", "a", "n">>, <<"i", "n", "f">>, <<"-">>, <<"1", "x">>, <<".", "5">>, <<"0", "x", ".", "8">>,
   <<"-", "0", "x", "4", "1">>, <<"1", "7", ".", "0">>, <<".">>, <<"1", " ", "0">>, <<"5", "0">>}
MCUnsigneds == {0, 1, 5, 8, 9, 15, 16, 24, 42, 63}
MCCodes == {0, 65, 127, 128, 255, 2047, 2048, 65535, 65536, 1114111}
Bs == {65, 128, 143, 144, 191, 193, 194, 223, 224, 237, 240, 244, 248, 255}
MCUtf8Texts == UNION {[1..n -> Bs] : n \in 0..3} \cup [1..4 -> {65, 128, 144, 224, 240, 244, 245}]
\* Bytes of two bits.
MCBytes == UNION {[1..n -> 0..3] : n \in 0..2} \cup {<<1, 0, 3, 2>>}
MCBytePositions == {-6, -5, -4, -2, -1, 0, 1, 2, 4, 5, 6, 31}
MCPackInts == {-32, -31, -9, -8, -3, -2, -1, 0, 1, 2, 3, 7, 8, 15, 16, 31}
MCPackTexts == {<<>>, <<1>>, <<0>>, <<3, 2>>, <<1, 2, 3>>, <<1, 1, 1, 1>>}
No == NoNumber
O(c) == [c |-> c, n |-> NoNumber]
On(c, n) == [c |-> c, n |-> n]
Integers1 == {O(c) : c \in {"b", "B", "h", "H", "l", "L", "j", "J", "T", "i", "I"}} \cup
             {On(c, n) : c \in {"i", "I"}, n \in {0, 1, 3, 4, 5, 6}}
Texts1 == {O("s"), On("s", 1), On("s", 4), O("z"), O("c"), On("c", 0), On("c", 2), On("c", 3)}
Others1 == {O("x"), O(" "), O("<"), O(">"), O("="), O("!"), On("!", 2), On("!", 3), O("?")}
MCFormats ==
  {<<o>> : o \in Integers1 \cup Texts1 \cup Others1 \cup {O("X")}}
  \cup {<<p, o>> : p \in Others1, o \in Integers1 \cup {On("s", 3)}}
  \cup {<<O("!"), O(">"), p, O("X"), o>> : p \in {O("b"), O("x")}, o \in {O("i"), O("z"), O("j"), On("c", 2), On("i", 4)}}
  \cup {<<p, q, o>> : p \in {O("!"), On("!", 2), O(">")}, q \in {O("b"), O("h"), On("s", 1), O("z"), On("c", 3)},
                      o \in {O("l"), On("i", 4), On("I", 3), O("T"), O("s")}}
MCPackData == UNION {[1..n -> 0..3] : n \in 0..3} \cup [1..4 -> {0, 2, 3}] \cup [1..5 -> {0, 3}]

G == INSTANCE SchemeParts

\* The gadget of the firmware with a second keyboard and an Ethernet function,
\* and labels that are or are not ambiguous.
Hid(i, label, desc) ==
  [G!NewFunction("hid", i) EXCEPT !.label = label, !.attrs = [@ EXCEPT !.report_desc = desc, !.protocol = 1]]
Rndis == [G!NewFunction("rndis", "usb0") EXCEPT !.osd = [rndis |-> <<"RNDIS", "5162001">>]]
Functions(l, m) == {Hid("usb0", l, <<5, 255>>), Hid("usb1", m, <<>>), G!NewFunction("acm", "usb0"), Rndis}
Config(id, name, binds) ==
  [id |-> id, name |-> name, attrs |-> [bmAttributes |-> 160, bMaxPower |-> 500],
   strs |-> (1033 :> [configuration |-> "1xHID"]), binds |-> binds]
Binding(name, type) == [name |-> name, type |-> type, instance |-> "usb0"]
Bindings ==
  {Binding(<<"hid", ".", "usb0">>, "hid"), Binding(<<"acm.GS0">>, "acm"),
   [name |-> <<"second">>, type |-> "hid", instance |-> "usb1"]}
Labels == {NoLabel, <<"keyboard">>, <<"hid", "usb0">>, <<"hid", "usb1">>, <<"acm", "usb0">>}
MCGadgets ==
  {[G!NewGadget EXCEPT
      !.attrs = [@ EXCEPT !.idVendor = 7531, !.bcdUSB = 512],
      !.strs = (1033 :> [manufacturer |-> "Pimoroni", product |-> "Keybow", serialnumber |-> "empty"]),
      !.funcs = Functions(l, m), !.oscfg = 2,
      !.configs = {Config(1, "config", Bindings), Config(2, "other", {Binding(<<"net">>, "rndis")})},
      !.os = [use |-> 1, b_vendor_code |-> 205, qw_sign |-> "MSFT100"]] : l, m \in Labels}
  \cup {G!NewGadget}

\* Texts that the kernel cuts, refuses or shows in two lines.
MCTexts == {<<>>, <<"a">>, <<"b", "\n", "a">>, <<"a", "b", "a", "b">>}
MCAddrs == {<<"02">>, <<"04">>}
MCStrs == {<<>>, <<"a", "b", "a", "b">>}
MCReports == {<<>>, <<5, 10>>}

\* Sequences to sort, with any relation as their order.
MCPositions == {-8, -7, -1, 0, 1, 2, 3, 4, 5, 6, 7}
Id(n) == [i \in 1..n |-> i]
LessPairs(xs) == {p \in xs \X xs : p[1] < p[2]}
MCSortTasks ==
  {[a |-> Id(3), lt |-> lt] : lt \in SUBSET ((1..3) \X (1..3))}
  \cup {[a |-> Id(4), lt |-> lt] : lt \in SUBSET {p \in (1..4) \X (1..4) : p[1] # p[2]}}
  \cup {[a |-> a, lt |-> LessPairs(1..3)] : a \in UNION {[1..n -> 1..3] : n \in 0..7}}

\* Functions with constants of every type, names around the size of one byte, and
\* functions in functions, from one source.
Names == {<<>>, <<7>>, <<7, 8>>, <<7, 8, 9>>, <<7, 8, 9, 1>>}
Leaf(source, name) ==
  [source |-> source, linedefined |-> 2, lastlinedefined |-> 3, numparams |-> 1, is_vararg |-> 0,
   maxstacksize |-> 2, code |-> <<11, 12>>, k |-> <<[t |-> 4, v |-> name], [t |-> 0, v |-> <<>>]>>,
   upvalues |-> <<[instack |-> 1, idx |-> 0]>>, p |-> <<>>, lineinfo |-> <<2, 3>>,
   locvars |-> <<[varname |-> name, startpc |-> 0, endpc |-> 2]>>, names |-> <<name>>]
Outer(source, ps) ==
  [source |-> source, linedefined |-> 0, lastlinedefined |-> 0, numparams |-> 0, is_vararg |-> 1,
   maxstacksize |-> 3, code |-> <<10>>,
   k |-> <<[t |-> 19, v |-> <<5>>], [t |-> 1, v |-> <<1>>], [t |-> 3, v |-> <<2>>]>>,
   upvalues |-> <<[instack |-> 1, idx |-> 0], [instack |-> 0, idx |-> 1]>>, p |-> ps,
   lineinfo |-> <<1>>, locvars |-> <<>>, names |-> <<<<9>>, <<>>>>]
MCProtos ==
  {Leaf(s, n) : s \in Names, n \in Names}
  \cup {Outer(s, <<Leaf(s, n), Outer(s, <<Leaf(s, <<>>)>>)>>) : s \in Names \cup {NULL}, n \in Names}
  \cup {Outer(NULL, <<>>)}
=============================================================================

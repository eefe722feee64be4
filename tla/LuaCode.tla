------------------------------- MODULE LuaCode -------------------------------
(***************************************************************************)
(* The one-pass compiler of Lua (lcode.c and the statements and            *)
(* expressions of lparser.c): expressions are kept half done, in           *)
(* registers, instructions or pending jumps, and finished when their use   *)
(* is known.  keybow.lua goes through it on every start.  The programs are *)
(* syntax trees, visited in the order in which the parser meets the        *)
(* tokens.  No closures, goto, varargs, constructors, or generic for.      *)
(*                                                                         *)
(* A state s stands for FuncState: code, constants k, pending jumps to     *)
(* here (jpc), lasttarget, registers (freereg, maxstack), active variables *)
(* (actvar, nactvar), blocks bl and pending breaks gt, the upvalues' names *)
(* (ups), and the expdescs e of the parser's calls, the innermost last.    *)
(* ok tells whether every assertion of the code held; after one that did   *)
(* not, no more is compiled.                                               *)
(***************************************************************************)
EXTENDS LuaVm

CONSTANT MAXINDEXRK         \* the largest constant that fits in an operand

NO_JUMP == 0
NO_REG == 255

pc(s) == Len(s.code) + 1
lua_assert(s, P) == [s EXCEPT !.ok = @ /\ P]
ISK(r) == r >= BITRK

open_func(ups, params) ==
  [code |-> <<>>, k |-> <<>>, jpc |-> NO_JUMP, lasttarget |-> 1, freereg |-> Len(params),
   maxstack |-> 2, actvar |-> params, nactvar |-> Len(params), gt |-> <<>>, ups |-> ups,
   bl |-> <<[isloop |-> FALSE, nactvar |-> 0, firstgoto |-> 1]>>, e |-> <<>>, ok |-> TRUE]

\* An expdesc: kind, and register, constant, instruction or table; for an indexed
\* variable also the index and where the table is; the lists of jumps that leave
\* the expression when it is true and when it is false.
Exp(k, info) == [k |-> k, info |-> info, idx |-> 0, vt |-> "", val |-> Nil, t |-> NO_JUMP, f |-> NO_JUMP]
Push(s, e) == [s EXCEPT !.e = Append(@, e)]
Pop(s) == [s EXCEPT !.e = Front(@)]
Top(s) == Len(s.e)
hasjumps(e) == e.t # e.f

-----------------------------------------------------------------------------
(* Jump lists: each jump holds the position of the next one *)

RECURSIVE Jumps(_, _)
Jumps(code, list) == IF list = NO_JUMP THEN <<>> ELSE <<list>> \o Jumps(code, code[list].b)

\* luaK_concat: the code and the head of list l1 with l2 behind it.
Joined(code, l1, l2) ==
  IF l1 = NO_JUMP \/ l2 = NO_JUMP THEN code ELSE [code EXCEPT ![Last(Jumps(code, l1))].b = l2]
Either(l1, l2) == IF l1 = NO_JUMP THEN l2 ELSE l1
ConcatT(s, i, l) == [s EXCEPT !.code = Joined(@, s.e[i].t, l), !.e[i].t = Either(@, l)]
ConcatF(s, i, l) == [s EXCEPT !.code = Joined(@, s.e[i].f, l), !.e[i].f = Either(@, l)]

getjumpcontrol(code, j) == IF j > 1 /\ code[j - 1].op \in TMode THEN j - 1 ELSE j
IsTestset(code, j) == code[getjumpcontrol(code, j)].op = "TESTSET"

\* A TESTSET puts its value in reg, or becomes a TEST when there is no register for
\* it or it is there already.
TestReg(code, i, reg) ==
  IF code[i].op # "TESTSET" THEN code
  ELSE IF reg # NO_REG /\ reg # code[i].b THEN [code EXCEPT ![i].a = reg]
  ELSE [code EXCEPT ![i] = [@ EXCEPT !.op = "TEST", !.a = code[i].b, !.b = 0]]
patchtestreg(code, j, reg) == TestReg(code, getjumpcontrol(code, j), reg)
removevalues(code, list) == FoldLeft(LAMBDA c, j : patchtestreg(c, j, NO_REG), code, Jumps(code, list))

\* Tests that produce a value go to vtarget and put it in reg, the others to dtarget.
patchlistaux(code, list, vtarget, reg, dtarget) ==
  FoldLeft(LAMBDA c, j : [patchtestreg(c, j, reg) EXCEPT
                            ![j].b = IF IsTestset(c, j) THEN vtarget ELSE dtarget],
           code, Jumps(code, list))

dischargejpc(s) ==
  [s EXCEPT !.code = patchlistaux(@, s.jpc, pc(s), NO_REG, pc(s)), !.jpc = NO_JUMP]
luaK_getlabel(s) == [s EXCEPT !.lasttarget = pc(s)]
luaK_patchtohere(s, list) ==
  [luaK_getlabel(s) EXCEPT !.code = Joined(@, s.jpc, list), !.jpc = Either(@, list)]
luaK_patchlist(s, list, target) ==
  IF target = pc(s) THEN luaK_patchtohere(s, list)
  ELSE lua_assert([s EXCEPT !.code = patchlistaux(@, list, target, NO_REG, target)], target < pc(s))

luaK_code(s, op, a, b, c) ==
  [dischargejpc(s) EXCEPT !.code = Append(@, [op |-> op, a |-> a, b |-> b, c |-> c])]

\* The jumps to here wait with the new jump for its destination.
luaK_jump(s) ==
  [luaK_code([s EXCEPT !.jpc = NO_JUMP], "JMP", 0, NO_JUMP, 0)
     EXCEPT !.code = Joined(@, Len(@), s.jpc)]
condjump(s, op, a, b, c) == luaK_jump(luaK_code(s, op, a, b, c))

-----------------------------------------------------------------------------
(* Registers and constants *)

luaK_reserveregs(s, n) == [s EXCEPT !.freereg = @ + n, !.maxstack = Max({@, s.freereg + n})]
freereg(s, r) ==
  IF ISK(r) \/ r < s.nactvar THEN s ELSE lua_assert([s EXCEPT !.freereg = @ - 1], r = s.freereg - 1)
freeexp(s, i) == IF s.e[i].k = "VNONRELOC" THEN freereg(s, s.e[i].info) ELSE s
freeexps(s, i, j) ==
  LET Reg(n) == IF s.e[n].k = "VNONRELOC" THEN s.e[n].info ELSE -1
  IN  IF Reg(i) > Reg(j) THEN freeexp(freeexp(s, i), j) ELSE freeexp(freeexp(s, j), i)

addk(s, x) == IF x \in Range(s.k) THEN s ELSE [s EXCEPT !.k = Append(@, x)]
IndexK(s, x) == (CHOOSE n \in DOMAIN s.k : s.k[n] = x) - 1

\* A LOADNIL just before, that no jump comes between, takes the registers in.
Merged(p, from, l) ==
  LET first == Min({p.a, from}) IN [p EXCEPT !.a = first, !.b = Max({l, p.a + p.b}) - first]
luaK_nil(s, from, n) ==
  LET p == s.code[Len(s.code)]
  IN  IF /\ pc(s) > s.lasttarget /\ p.op = "LOADNIL"
         /\ (p.a <= from /\ from <= p.a + p.b + 1) \/ (from <= p.a /\ p.a <= from + n)
      THEN [s EXCEPT !.code[Len(s.code)] = Merged(@, from, from + n - 1)]
      ELSE luaK_code(s, "LOADNIL", from, n - 1, 0)

-----------------------------------------------------------------------------
(* From expdescs to values *)

Becomes(s, i, k, info) == [s EXCEPT !.e[i].k = k, !.e[i].info = info]
Reloc(s, i) == Becomes(s, i, "VRELOCABLE", Len(s.code))   \* by the last instruction

luaK_setoneret(s, i) ==
  LET e == s.e[i]
  IN  IF e.k = "VCALL" THEN lua_assert(Becomes(s, i, "VNONRELOC", s.code[e.info].a), s.code[e.info].c = 2)
      ELSE s
luaK_setreturns(s, i, n) ==
  IF s.e[i].k = "VCALL" THEN [s EXCEPT !.code[s.e[i].info].c = n + 1] ELSE lua_assert(s, n = -1)

luaK_dischargevars(s, i) ==
  LET e == s.e[i]
  IN  CASE e.k = "VLOCAL" -> Becomes(s, i, "VNONRELOC", e.info)
        [] e.k = "VUPVAL" -> Reloc(luaK_code(s, "GETUPVAL", 0, e.info, 0), i)
        [] e.k = "VINDEXED" ->
             LET free == freereg(s, e.idx)
             IN  IF e.vt = "VLOCAL"
                 THEN Reloc(luaK_code(freereg(free, e.info), "GETTABLE", 0, e.info, e.idx), i)
                 ELSE Reloc(luaK_code(free, "GETTABUP", 0, e.info, e.idx), i)
        [] e.k = "VCALL" -> luaK_setoneret(s, i)
        [] OTHER -> s

\* discharge2reg of variables that are values already.
LoadK(s, x, reg) == luaK_code(s, "LOADK", reg, IndexK(s, x), 0)
Load(d, i, reg) ==
  LET e == d.e[i]
  IN  CASE e.k = "VNIL" -> luaK_nil(d, reg, 1)
        [] e.k \in {"VFALSE", "VTRUE"} -> luaK_code(d, "LOADBOOL", reg, IF e.k = "VTRUE" THEN 1 ELSE 0, 0)
        [] e.k = "VK" -> luaK_code(d, "LOADK", reg, e.info, 0)
        [] e.k = "VKINT" -> LoadK(addk(d, e.val), e.val, reg)
        [] e.k = "VRELOCABLE" -> [d EXCEPT !.code[e.info].a = reg]
        [] e.k = "VNONRELOC" /\ reg # e.info -> luaK_code(d, "MOVE", reg, e.info, 0)
        [] OTHER -> d
InReg(s, i, reg) == IF s.e[i].k = "VJMP" THEN s ELSE Becomes(s, i, "VNONRELOC", reg)
discharge2reg(s, i, reg) == InReg(Load(luaK_dischargevars(s, i), i, reg), i, reg)
InLastReg(s, i) == discharge2reg(s, i, s.freereg - 1)
discharge2anyreg(s, i) ==
  IF s.e[i].k = "VNONRELOC" THEN s
  ELSE InLastReg(luaK_reserveregs(s, 1), i)

code_loadbool(s, reg, b, jump) == luaK_code(luaK_getlabel(s), "LOADBOOL", reg, b, jump)
need_value(code, list) == \E n \in DOMAIN Jumps(code, list) : ~IsTestset(code, Jumps(code, list)[n])

\* Mutant: only the jumps that leave with false are looked at.
NeedsLoads_False(s, i) == need_value(s.code, s.e[i].f)
NeedsLoads(s, i) == need_value(s.code, s.e[i].t) \/ need_value(s.code, s.e[i].f)

\* The jumps of e come here: those that have no value to the loads of false and
\* true at PF and PT, the others with theirs in reg.
PatchExp(s, e, i, reg, PF, PT) ==
  [s EXCEPT !.code = patchlistaux(patchlistaux(@, e.f, pc(s), reg, PF), e.t, pc(s), reg, PT),
            !.e[i] = Exp("VNONRELOC", reg)]
\* The two loads, which a value that has come so far jumps over.
Loads(s, reg) == code_loadbool(code_loadbool(s, reg, 0, 1), reg, 1, 0)
LoadsBehind(s, reg) == luaK_patchtohere(Loads(s, reg), Len(s.code))
PatchLoads(s, e, i, reg) ==
  IF e.k = "VJMP" THEN PatchExp(luaK_getlabel(Loads(s, reg)), e, i, reg, pc(s), pc(s) + 1)
  ELSE PatchExp(LoadsBehind(luaK_jump(s), reg), e, i, reg, pc(s) + 1, pc(s) + 2)
Finish(s, i, reg) ==
  IF ~hasjumps(s.e[i]) THEN [s EXCEPT !.e[i] = Exp("VNONRELOC", reg)]
  ELSE IF NeedsLoads(s, i) THEN PatchLoads(s, s.e[i], i, reg)
  ELSE PatchExp(luaK_getlabel(s), s.e[i], i, reg, NO_JUMP, NO_JUMP)
TakeJump(s, i) == IF s.e[i].k = "VJMP" THEN ConcatT(s, i, s.e[i].info) ELSE s
\* The value ends in reg, also that of the jumps, some of which need a load.
exp2reg(s, i, reg) == Finish(TakeJump(discharge2reg(s, i, reg), i), i, reg)

ToLastReg(s, i) == exp2reg(s, i, s.freereg - 1)
OneMore(s, i) == luaK_reserveregs(freeexp(s, i), 1)
luaK_exp2nextreg(s, i) == ToLastReg(OneMore(luaK_dischargevars(s, i), i), i)
\* Jumps need a register that is no variable's: its own, or the next.
Settled(s, i, own) == exp2reg(s, i, IF own THEN s.e[i].info ELSE s.freereg - 1)
OwnReg(s, e) == e.k = "VNONRELOC" /\ e.info >= s.nactvar
AnyReg(s, i) ==
  IF s.e[i].k = "VNONRELOC" /\ ~hasjumps(s.e[i]) THEN s
  ELSE Settled(IF OwnReg(s, s.e[i]) THEN s ELSE OneMore(s, i), i, OwnReg(s, s.e[i]))
luaK_exp2anyreg(s, i) == AnyReg(luaK_dischargevars(s, i), i)
luaK_exp2anyregup(s, i) ==
  IF s.e[i].k # "VUPVAL" \/ hasjumps(s.e[i]) THEN luaK_exp2anyreg(s, i) ELSE s
luaK_exp2val(s, i) == IF hasjumps(s.e[i]) THEN luaK_exp2anyreg(s, i) ELSE luaK_dischargevars(s, i)

\* A constant goes to the constants, whether it then fits in an operand or not;
\* RK is the operand.
ToConstant(s, i, x) == Becomes(s, i, "VK", IndexK(s, x))
Add(s, i, x) == ToConstant(addk(s, x), i, x)
ConstantOf(e) ==
  CASE e.k = "VTRUE" -> Bool(TRUE) [] e.k = "VFALSE" -> Bool(FALSE) [] e.k = "VKINT" -> e.val [] OTHER -> Nil
AddConstant(s, i) ==
  IF s.e[i].k \in {"VTRUE", "VFALSE", "VKINT", "VNIL"} THEN Add(s, i, ConstantOf(s.e[i])) ELSE s
InOperand(s, i) == IF s.e[i].k = "VK" /\ s.e[i].info <= MAXINDEXRK THEN s ELSE luaK_exp2anyreg(s, i)
luaK_exp2RK(s, i) == InOperand(AddConstant(luaK_exp2val(s, i), i), i)
RK(e) == IF e.k = "VK" THEN BITRK + e.info ELSE e.info

luaK_storevar(s, i, j) ==
  LET var == s.e[i]
      SetUp(x) == luaK_code(x, "SETUPVAL", x.e[j].info, var.info, 0)
      SetTab(x) == luaK_code(x, IF var.vt = "VLOCAL" THEN "SETTABLE" ELSE "SETTABUP",
                             var.info, var.idx, RK(x.e[j]))
  IN  CASE var.k = "VLOCAL" -> exp2reg(freeexp(s, j), j, var.info)
        [] var.k = "VUPVAL" -> freeexp(SetUp(luaK_exp2anyreg(s, j)), j)
        [] var.k = "VINDEXED" -> freeexp(SetTab(luaK_exp2RK(s, j)), j)

luaK_indexed(s, i, j) ==
  LET t == s.e[i]
      Field(x) == [x EXCEPT !.e[i] = [Exp("VINDEXED", t.info) EXCEPT
                                        !.vt = IF t.k = "VUPVAL" THEN "VUPVAL" ELSE "VLOCAL", !.idx = RK(x.e[j])]]
  IN  lua_assert(Field(luaK_exp2RK(s, j)), ~hasjumps(t) /\ t.k \in {"VNONRELOC", "VLOCAL", "VUPVAL"})

-----------------------------------------------------------------------------
(* Conditions *)

negatecondition(s, i) ==
  LET j == getjumpcontrol(s.code, s.e[i].info)
  IN  lua_assert([s EXCEPT !.code[j].a = 1 - @], s.code[j].op \in {"EQ", "LT", "LE"})

\* A test and a jump taken when e is c; a NOT just coded is taken back.
jumponcond(s, i, c) ==
  LET e == s.e[i]
      Test(d) == condjump(freeexp(d, i), "TESTSET", NO_REG, d.e[i].info, c)
  IN  IF e.k = "VRELOCABLE" /\ s.code[e.info].op = "NOT"
      THEN condjump([s EXCEPT !.code = Front(@)], "TEST", s.code[e.info].b, 0, 1 - c)
      ELSE Test(discharge2anyreg(s, i))

\* The jumps of the one outcome get one more, those of the other come here.
GoIfTrue(s, i) ==
  LET e == s.e[i]
      Jump(x) == ConcatF(x, i, Len(x.code))
      f == CASE e.k = "VJMP" -> ConcatF(negatecondition(s, i), i, e.info)
             [] e.k \in {"VK", "VKINT", "VTRUE"} -> s
             [] OTHER -> Jump(jumponcond(s, i, 0))
  IN  [luaK_patchtohere(f, e.t) EXCEPT !.e[i].t = NO_JUMP]
luaK_goiftrue(s, i) == GoIfTrue(luaK_dischargevars(s, i), i)

GoIfFalse(s, i) ==
  LET e == s.e[i]
      Jump(x) == ConcatT(x, i, Len(x.code))
      t == CASE e.k = "VJMP" -> ConcatT(s, i, e.info)
             [] e.k \in {"VNIL", "VFALSE"} -> s
             [] OTHER -> Jump(jumponcond(s, i, 1))
  IN  [luaK_patchtohere(t, e.f) EXCEPT !.e[i].f = NO_JUMP]
luaK_goiffalse(s, i) == GoIfFalse(luaK_dischargevars(s, i), i)

Negated(s, i) ==
  LET e == s.e[i]
      Not(x) == Reloc(luaK_code(freeexp(x, i), "NOT", 0, x.e[i].info, 0), i)
  IN  CASE e.k \in {"VNIL", "VFALSE"} -> [s EXCEPT !.e[i].k = "VTRUE"]
        [] e.k \in {"VK", "VKINT", "VTRUE"} -> [s EXCEPT !.e[i].k = "VFALSE"]
        [] e.k = "VJMP" -> negatecondition(s, i)
        [] OTHER -> Not(discharge2anyreg(s, i))
\* The lists change places, and no jump on them keeps a value.
codenot(s, i) ==
  LET Swapped(x, e) ==
        [x EXCEPT !.e[i].f = e.t, !.e[i].t = e.f, !.code = removevalues(removevalues(@, e.t), e.f)]
      Of(d) == Swapped(Negated(d, i), d.e[i])
  IN  Of(luaK_dischargevars(s, i))

-----------------------------------------------------------------------------
(* Operators *)

tonumeral(e) == ~hasjumps(e) /\ e.k = "VKINT"

codeunexpval(s, op, i) ==
  LET Code(x) == Reloc(luaK_code(freeexp(x, i), op, 0, x.e[i].info, 0), i)
  IN  Code(luaK_exp2anyreg(s, i))
\* The second operand first: it may have the later registers.
codebinexpval(s, op, i, j) ==
  LET Code(x) == Reloc(luaK_code(freeexps(x, i, j), op, 0, RK(x.e[i]), RK(x.e[j])), i)
  IN  Code(luaK_exp2RK(luaK_exp2RK(s, j), i))

\* > and >= swap their operands.
codecomp(s, op, i, j) ==
  LET swap == op \in {">", ">="}
      test == CASE op \in {"==", "~="} -> "EQ" [] op \in {"<", ">"} -> "LT" [] OTHER -> "LE"
      a == IF op = "~=" THEN 0 ELSE 1
      Code(f, x, y) == condjump(f, test, a, IF swap THEN y ELSE x, IF swap THEN x ELSE y)
      Test(r) == Code(freeexps(lua_assert(r, s.e[i].k \in {"VK", "VNONRELOC"}), i, j), RK(r.e[i]), RK(r.e[j]))
      Jump(c) == Becomes(c, i, "VJMP", Len(c.code))
  IN  Jump(Test(luaK_exp2RK(s, j)))

luaK_prefix(s, op) ==
  LET i == Top(s)
  IN  IF op = "not" THEN codenot(s, i)
      ELSE IF tonumeral(s.e[i]) THEN [s EXCEPT !.e[i].val = Unm(@)] ELSE codeunexpval(s, "UNM", i)

luaK_infix(s, op) ==
  LET i == Top(s)
  IN  CASE op = "and" -> luaK_goiftrue(s, i)
        [] op = "or" -> luaK_goiffalse(s, i)
        [] op = ".." -> luaK_exp2nextreg(s, i)
        [] op \in {"+", "-"} /\ tonumeral(s.e[i]) -> s
        [] OTHER -> luaK_exp2RK(s, i)

OpCode(op) == CASE op = "+" -> "ADD" [] op = "-" -> "SUB" [] op = ".." -> "CONCAT"
\* A concatenation on the right that is not in a register yet takes one more
\* operand.
Joins(s, j) == s.e[j].k = "VRELOCABLE" /\ s.code[s.e[j].info].op = "CONCAT"
CodeConcat(s, i, j) ==
  LET at == s.e[j].info
  IN  Becomes([freeexp(lua_assert(s, s.e[i].info = s.code[at].b - 1), i)
                 EXCEPT !.code[at].b = s.e[i].info], i, "VRELOCABLE", at)
Operation(s, op, i, j) ==
  CASE op = ".." /\ Joins(s, j) -> CodeConcat(s, i, j)
    [] op # ".." /\ tonumeral(s.e[i]) /\ tonumeral(s.e[j]) ->
         [s EXCEPT !.e[i].val = Arith(OpCode(op), @, s.e[j].val)]
    [] OTHER -> codebinexpval(IF op = ".." THEN luaK_exp2nextreg(s, j) ELSE s, OpCode(op), i, j)

\* The two innermost expdescs, e1 and e2, become one.
luaK_posfix(s, op) ==
  LET j == Top(s)
      i == j - 1
      Take(x) == [x EXCEPT !.e[i] = x.e[j]]
  IN  Pop(CASE op = "and" ->
                 lua_assert(Take(ConcatF(luaK_dischargevars(s, j), j, s.e[i].f)), s.e[i].t = NO_JUMP)
            [] op = "or" ->
                 lua_assert(Take(ConcatT(luaK_dischargevars(s, j), j, s.e[i].t)), s.e[i].f = NO_JUMP)
            [] op \in {"..", "+", "-"} -> Operation(IF op = ".." THEN luaK_exp2val(s, j) ELSE s, op, i, j)
            [] OTHER -> codecomp(s, op, i, j))

-----------------------------------------------------------------------------
(* Expressions *)

PushK(s, x) == Push(s, Exp("VK", IndexK(s, x)))
codestring(s, x) == PushK(addk(s, x), x)

\* A local of the function, the innermost of that name; an upvalue; or a field of
\* the first upvalue, the environment.
Indexed(s) == Pop(luaK_indexed(s, Top(s) - 1, Top(s)))
singlevar(s, name) ==
  LET locals == {n \in 1..s.nactvar : s.actvar[n] = name}
      ups == {n \in DOMAIN s.ups : s.ups[n] = name}
  IN  CASE locals # {} -> Push(s, Exp("VLOCAL", Max(locals) - 1))
        [] locals = {} /\ ups # {} -> Push(s, Exp("VUPVAL", Min(ups) - 1))
        [] OTHER -> Indexed(codestring(Push(s, Exp("VUPVAL", 0)), Str(name)))

Constant(s, x) ==
  CASE x = Nil -> Push(s, Exp("VNIL", 0))
    [] x = Bool(TRUE) -> Push(s, Exp("VTRUE", 0))
    [] x = Bool(FALSE) -> Push(s, Exp("VFALSE", 0))
    [] x.t = "integer" -> Push(s, [Exp("VKINT", 0) EXCEPT !.val = x])
    [] OTHER -> codestring(s, x)

\* An open last argument passes all its results.
funcargs(s, nargs) ==
  LET n == Top(s)
      f == IF nargs = 0 THEN n ELSE n - 1
      base == s.e[f].info
      open == nargs > 0 /\ s.e[n].k = "VCALL"
      Passed == IF nargs = 0 THEN s
                ELSE IF open THEN luaK_setreturns(s, n, -1) ELSE luaK_exp2nextreg(s, n)
      Call1(x) == luaK_code(x, "CALL", base, IF open THEN 0 ELSE x.freereg - base, 2)
      Result(x) == [Becomes(x, f, "VCALL", Len(x.code)) EXCEPT !.freereg = base + 1]
      Drop(x) == IF nargs = 0 THEN x ELSE Pop(x)
  IN  lua_assert(Drop(Result(Call1(Passed))), s.e[f].k = "VNONRELOC")

\* Both sorts of trees: expressions and statements.
RECURSIVE visit(_, _)
ExprKinds == {"const", "name", "paren", "index", "call", "un", "bin"}

\* All but the last go to the next registers; the last one is left to the caller.
ToNextReg(s) == Pop(luaK_exp2nextreg(s, Top(s)))
Next1(s, x) == ToNextReg(visit(s, x))
explist(s, xs) == IF xs = <<>> THEN s ELSE visit(FoldLeft(Next1, s, Front(xs)), Last(xs))

DischargeTop(s) == luaK_dischargevars(s, Top(s))
TableTop(s) == luaK_exp2anyregup(s, Top(s))
KeyTop(s) == luaK_exp2val(s, Top(s))
CalleeTop(s) == luaK_exp2nextreg(s, Top(s))
expr(s, x) ==
  CASE x.kind = "const" -> Constant(s, x.val)
    [] x.kind = "name" -> singlevar(s, x.name)
    [] x.kind = "paren" -> DischargeTop(visit(s, x.of))
    [] x.kind = "index" -> Indexed(KeyTop(visit(TableTop(visit(s, x.of)), x.key)))
    [] x.kind = "call" -> funcargs(explist(CalleeTop(visit(s, x.of)), x.args), Len(x.args))
    [] x.kind = "un" -> luaK_prefix(visit(s, x.of), x.op)
    [] x.kind = "bin" -> luaK_posfix(visit(luaK_infix(visit(s, x.l), x.op), x.r), x.op)

-----------------------------------------------------------------------------
(* Blocks and statements *)

enterblock(s, isloop) ==
  lua_assert([s EXCEPT !.bl = Append(@, [isloop |-> isloop, nactvar |-> s.nactvar,
                                     firstgoto |-> Len(s.gt) + 1])],
         s.freereg = s.nactvar)

\* breaklabel: the pending breaks of a loop come here.
breaklabel(s, bl) ==
  LET mine == SubSeq(s.gt, bl.firstgoto, Len(s.gt))
      here == FoldLeft(LAMBDA x, g : lua_assert(luaK_patchlist(x, g.pc, pc(x)), g.nactvar >= s.nactvar),
                       s, mine)
  IN  [here EXCEPT !.gt = SubSeq(@, 1, bl.firstgoto - 1)]
\* leaveblock, with the breaks that remain moved out.
leaveblock(s) ==
  LET bl == Last(s.bl)
      b == IF bl.isloop THEN breaklabel(s, bl) ELSE s
  IN  [b EXCEPT !.bl = Front(@), !.actvar = SubSeq(@, 1, bl.nactvar), !.nactvar = bl.nactvar,
         !.freereg = bl.nactvar,
         !.gt = [n \in DOMAIN @ |-> IF n >= bl.firstgoto
                                    THEN [@[n] EXCEPT !.nactvar = Min({@, bl.nactvar})] ELSE @[n]]]

gotostat(s, list) == [s EXCEPT !.gt = Append(@, [pc |-> list, nactvar |-> s.nactvar])]
new_localvar(s, name) == [s EXCEPT !.actvar = Append(@, name)]
adjustlocalvars(s, n) == [s EXCEPT !.nactvar = @ + n]

\* nexps expressions, the last one still open in the innermost expdesc if there is
\* any, give nvars values.
Filled(s, extra) == IF extra > 0 THEN luaK_nil(luaK_reserveregs(s, extra), s.freereg, extra) ELSE s
OpenResults(s, more) ==
  LET Reserved(x) == IF more > 1 THEN luaK_reserveregs(x, more - 1) ELSE x
  IN  Reserved(luaK_setreturns(s, Top(s), more))
adjust_assign(s, nvars, nexps) ==
  LET extra == nvars - nexps
      All == IF nexps > 0 /\ s.e[Top(s)].k = "VCALL" THEN OpenResults(s, Max({extra + 1, 0}))
             ELSE Filled(IF nexps > 0 THEN luaK_exp2nextreg(s, Top(s)) ELSE s, extra)
  IN  [All EXCEPT !.freereg = IF nexps > nvars THEN @ - (nexps - nvars) ELSE @]

DropOpen(s, xs) == IF xs = <<>> THEN s ELSE Pop(s)
localstat(s, names, xs) ==
  adjustlocalvars(DropOpen(adjust_assign(explist(FoldLeft(new_localvar, s, names), xs),
                                         Len(names), Len(xs)), xs), Len(names))

\* A variable about to be assigned that an earlier target needs as its table or
\* index is saved in a register for it.
check_conflict(s, first, i) ==
  LET v == s.e[i]
      AsTable(h) == h.k = "VINDEXED" /\ h.vt = v.k /\ h.info = v.info
      AsIndex(h) == h.k = "VINDEXED" /\ v.k = "VLOCAL" /\ h.idx = v.info
      Saved(h) == [h EXCEPT !.vt = IF AsTable(h) THEN "VLOCAL" ELSE @,
                            !.info = IF AsTable(h) THEN s.freereg ELSE @,
                            !.idx = IF AsIndex(h) THEN s.freereg ELSE @]
      new == [s EXCEPT !.e = [n \in DOMAIN @ |-> IF n \in first..(i - 1) THEN Saved(@[n]) ELSE @[n]]]
      op == IF v.k = "VLOCAL" THEN "MOVE" ELSE "GETUPVAL"
  IN  IF \E n \in first..(i - 1) : AsTable(s.e[n]) \/ AsIndex(s.e[n])
      THEN luaK_reserveregs(luaK_code(new, op, s.freereg, v.info, 0), 1) ELSE s

Checked(s, first) ==
  IF Top(s) > first /\ s.e[Top(s)].k # "VINDEXED" THEN check_conflict(s, first, Top(s)) ELSE s
PutTop(s, i) == Pop(luaK_storevar(s, i, Top(s)))
\* Target to.i gets the value of the innermost expdesc, or else the last register.
StoreTarget(s, to) ==
  PutTop(IF to.direct THEN luaK_setoneret(s, Top(s)) ELSE Push(s, Exp("VNONRELOC", s.freereg - 1)), to.i)
Ready(s, nvars, nexps) == IF nvars = nexps THEN s ELSE Pop(adjust_assign(s, nvars, nexps))
Cleared(s, n) == [s EXCEPT !.e = SubSeq(@, 1, n)]
\* The targets stay in the expdescs, and the last one is assigned first.
assignment(s, targets, xs) ==
  LET n == Len(targets)
      Target(x, a) == Checked(visit(x, a), Top(s) + 1)
      To(k) == [i |-> Top(s) + n + 1 - k, direct |-> Len(xs) = n /\ k = 1]
  IN  Cleared(FoldLeft(StoreTarget, Ready(explist(FoldLeft(Target, s, targets), xs), n, Len(xs)),
                       [k \in 1..n |-> To(k)]), Top(s))

\* The expression statement, a call without results.
NoResults(s) == Pop(luaK_setreturns(s, Top(s), 0))
exprstat(s, x) == NoResults(visit(s, x))

\* An open call returns all it gives, as a tail call when it is the only value.
ReturnOpen(s, tail) ==
  LET at == s.e[Top(s)].info
      Tailed(x) == IF tail THEN lua_assert([x EXCEPT !.code[at].op = "TAILCALL"], x.code[at].a = x.nactvar)
                   ELSE x
      Leave(x) == Pop(luaK_code(x, "RETURN", x.nactvar, 0, 0))
  IN  Leave(Tailed(luaK_setreturns(s, Top(s), -1)))
ReturnOne(s) ==
  LET Leave(x) == Pop(luaK_code(x, "RETURN", x.e[Top(x)].info, 2, 0))
  IN  Leave(luaK_exp2anyreg(s, Top(s)))
ReturnAll(s, n) ==
  lua_assert(luaK_code(s, "RETURN", s.nactvar, n + 1, 0), n = s.freereg - s.nactvar)
ReturnValues(s, n) ==
  IF s.e[Top(s)].k = "VCALL" THEN ReturnOpen(s, n = 1)
  ELSE IF n = 1 THEN ReturnOne(s) ELSE ReturnAll(ToNextReg(s), n)
retstat(s, xs) ==
  IF xs = <<>> THEN luaK_code(s, "RETURN", 0, 1, 0) ELSE ReturnValues(explist(s, xs), Len(xs))

\* A condition leaves in the innermost expdesc its jumps to where it is false.
Test(s) ==
  luaK_goiftrue([s EXCEPT !.e[Top(s)].k = IF @ = "VNIL" THEN "VFALSE" ELSE @], Top(s))
cond(s, x) == Test(visit(s, x))
FalseTo(s) == s.e[Top(s)].f

block(s, body) == leaveblock(FoldLeft(visit, enterblock(s, FALSE), body))
statlist(s, body) == FoldLeft(visit, s, body)

whilestat(s, st) ==
  LET Back(x) == leaveblock(luaK_patchlist(x, Len(x.code), pc(s)))
      Turn(x) == luaK_jump(block(enterblock(Pop(x), TRUE), st.body))
      While(x) == luaK_patchtohere(Back(Turn(x)), FalseTo(x))
  IN  While(cond(luaK_getlabel(s), st.cond))

repeatstat(s, st) ==
  LET Body == statlist(enterblock(enterblock(luaK_getlabel(s), TRUE), FALSE), st.body)
      Until(x) == leaveblock(luaK_patchlist(leaveblock(Pop(x)), FalseTo(x), pc(s)))
  IN  Until(cond(Body, st.cond))

\* Names that no program can use.
Hidden(n) == <<0, n>>
\* fornum and forbody: three hidden variables and the visible one.
StepOne(s) == luaK_reserveregs(luaK_code(s, "LOADK", s.freereg, IndexK(s, Num(1)), 0), 1)
Range3(s, st) ==
  IF st.step = <<>> THEN StepOne(addk(FoldLeft(Next1, s, <<st.from, st.to>>), Num(1)))
  ELSE FoldLeft(Next1, s, <<st.from, st.to, st.step[1]>>)
forbody(s, base, st) ==
  LET Prep == luaK_code(adjustlocalvars(s, 3), "FORPREP", base, NO_JUMP, 0)
      Turn(x) == leaveblock(block(luaK_reserveregs(adjustlocalvars(enterblock(x, FALSE), 1), 1), st.body))
      Loop(x) == luaK_code(luaK_patchtohere(x, pc(s)), "FORLOOP", base, NO_JUMP, 0)
      Back(x) == luaK_patchlist(x, Len(x.code), pc(s) + 1)
  IN  leaveblock(Back(Loop(Turn(Prep))))
fornum(s, st) ==
  LET names == <<Hidden(1), Hidden(2), Hidden(3), st.name>>
  IN  forbody(Range3(FoldLeft(new_localvar, enterblock(s, TRUE), names), st), s.freereg, st)

\* One condition and its block.  A break as the whole block needs no jump of its
\* own.  The result also holds the list of jumps over the parts that follow.
SkipTo(s, list) == leaveblock(gotostat(enterblock(Pop(s), FALSE), list))
BreakWith(s) == SkipTo(s, s.e[Top(s)].t)
BreakIf(s) == BreakWith(luaK_goiffalse(s, Top(s)))
Then(s, body, follows, escape) ==
  LET Block == leaveblock(statlist(enterblock(Pop(s), FALSE), body))
      Over(x) == [s |-> luaK_patchtohere([x EXCEPT !.code = Joined(@, escape, Len(@))], FalseTo(s)),
                  escape |-> Either(escape, Len(x.code))]
  IN  IF follows THEN Over(luaK_jump(Block))
      ELSE [s |-> luaK_patchtohere(Block, FalseTo(s)), escape |-> escape]
test_then_block(x, part) ==
  IF part.body = <<[kind |-> "break"]>> THEN [x EXCEPT !.s = BreakIf(visit(@, part.cond))]
  ELSE Then(luaK_goiftrue(visit(x.s, part.cond), Top(x.s) + 1), part.body, part.follows, x.escape)

Else(x, body) == luaK_patchtohere(IF body = <<>> THEN x.s ELSE block(x.s, body), x.escape)
ifstat(s, st) ==
  LET n == Len(st.parts)
      Part(p) == st.parts[p] @@ [follows |-> p < n \/ st.else # <<>>]
  IN  Else(FoldLeft(test_then_block, [s |-> s, escape |-> NO_JUMP], [p \in 1..n |-> Part(p)]), st.else)

breakstat(s) == gotostat(s, Len(s.code))
statement(s, st) ==
  CASE st.kind = "local" -> localstat(s, st.names, st.xs)
    [] st.kind = "assign" -> assignment(s, st.targets, st.xs)
    [] st.kind = "callstat" -> exprstat(s, st.x)
    [] st.kind = "do" -> block(s, st.body)
    [] st.kind = "if" -> ifstat(s, st)
    [] st.kind = "while" -> whilestat(s, st)
    [] st.kind = "repeat" -> repeatstat(s, st)
    [] st.kind = "for" -> fornum(s, st)
    [] st.kind = "return" -> retstat(s, st.xs)
    [] st.kind = "break" -> breakstat(luaK_jump(s))
\* After a statement only its variables keep registers.
FreeTemporaries(s) ==
  lua_assert([s EXCEPT !.freereg = s.nactvar], s.maxstack >= s.freereg /\ s.freereg >= s.nactvar)

visit(s, x) ==
  CASE ~s.ok -> s
    [] s.ok /\ x.kind \in ExprKinds -> expr(s, x)
    [] OTHER -> FreeTemporaries(statement(s, x))

close_func(s) ==
  lua_assert(luaK_code(s, "RETURN", 0, 1, 0), s.e = <<>> /\ s.gt = <<>>)
\* The whole function.
Compiled(ups, params, body) ==
  close_func(statlist(open_func(ups, params), body))
=============================================================================

-------------------------------- MODULE LuaVm --------------------------------
(***************************************************************************)
(* The virtual machine of Lua (lvm.c) for one function without closures:   *)
(* values, their operations, and the instructions.  A value is             *)
(* [t, v] with a sequence of integers in v; integers stay small, there are *)
(* no floats, no metamethods, and no strings that look like numbers.       *)
(* Instruction positions count from 1; a jump carries its destination.     *)
(***************************************************************************)
EXTENDS Integers, Sequences, FiniteSets, FiniteSetsExt, SequencesExt

Nil == [t |-> "nil", v |-> <<>>]
Bool(b) == [t |-> "boolean", v |-> IF b THEN <<1>> ELSE <<0>>]
Num(n) == [t |-> "integer", v |-> <<n>>]
Str(s) == [t |-> "string", v |-> s]
Table(n) == [t |-> "table", v |-> <<n>>]
Func == [t |-> "function", v |-> <<>>]
Garbage == [t |-> "garbage", v |-> <<>>]     \* what a register nobody wrote holds
Error == [t |-> "error", v |-> <<>>]         \* the outcome of a failed operation

l_isfalse(x) == x \in {Nil, Bool(FALSE)}

\* Strings compare character by character.
StrLess(a, b) ==
  \E n \in 0..(Len(b) - 1) :
    /\ n <= Len(a) /\ SubSeq(a, 1, n) = SubSeq(b, 1, n)
    /\ n = Len(a) \/ a[n + 1] < b[n + 1]

\* The operations of two operands that give a value, or Error.
Arith(op, x, y) ==
  IF x.t # "integer" \/ y.t # "integer" THEN Error
  ELSE Num(IF op = "ADD" THEN x.v[1] + y.v[1] ELSE x.v[1] - y.v[1])
Unm(x) == IF x.t = "integer" THEN Num(-x.v[1]) ELSE Error
Less(x, y) ==
  IF x.t # y.t \/ x.t \notin {"integer", "string"} THEN Error
  ELSE Bool(IF x.t = "integer" THEN x.v[1] < y.v[1] ELSE StrLess(x.v, y.v))
LessEqual(x, y) == IF Less(y, x) = Error THEN Error ELSE Bool(Less(y, x) = Bool(FALSE))
Compare(op, x, y) ==
  IF op = "EQ" THEN Bool(x = y) ELSE IF op = "LT" THEN Less(x, y) ELSE LessEqual(x, y)

\* An integer becomes the text of its number, here one character.
Text(x) == IF x.t = "integer" THEN <<100 + x.v[1]>> ELSE x.v
Concat(x, y) ==
  IF {x.t, y.t} \subseteq {"integer", "string"} THEN Str(Text(x) \o Text(y)) ELSE Error
\* luaV_concat: from the right, until one is left.
RECURSIVE luaV_concat(_)
luaV_concat(xs) ==
  IF Len(xs) = 1 THEN xs[1]
  ELSE LET n == Len(xs)
           y == Concat(xs[n - 1], xs[n])
       IN  IF y = Error THEN Error ELSE luaV_concat(Append(SubSeq(xs, 1, n - 2), y))

\* A heap maps <<table, key>> to a value.
GetTable(heap, x, key) ==
  IF x.t # "table" THEN Error
  ELSE IF <<x, key>> \in DOMAIN heap THEN heap[<<x, key>>] ELSE Nil
CanSet(x, key) == x.t = "table" /\ key # Nil
SetTable(heap, x, key, val) ==
  [p \in DOMAIN heap \cup {<<x, key>>} |-> IF p = <<x, key>> THEN val ELSE heap[p]]

-----------------------------------------------------------------------------
(* A machine m runs a function [code, k]: program counter, registers R,    *)
(* top, upvalues, heap, the calls made so far, and how it ended.           *)

TMode == {"EQ", "LT", "LE", "TEST", "TESTSET"}
BITRK == 256
NREG == 24

Start(in) ==
  [pc |-> 1, top |-> 0, up |-> in.up, heap |-> in.heap, log |-> <<>>, end |-> "", vals |-> <<>>,
   R |-> [r \in 0..(NREG - 1) |-> IF r < Len(in.params) THEN in.params[r + 1] ELSE Garbage]]

Fails(m) == [m EXCEPT !.end = "error"]
Go(m, pc) == [m EXCEPT !.pc = pc]
\* Register a gets x, unless the operation failed.
Put(m, a, x) == IF x = Error THEN Fails(m) ELSE [m EXCEPT !.R[a] = x, !.pc = @ + 1]
Regs(m, a, n) == [j \in 1..n |-> m.R[a + j - 1]]
\* A test that skips the next instruction, a jump, when it does not hold.
Branch(f, m, holds) == Go(m, IF holds THEN f.code[m.pc + 1].b ELSE m.pc + 2)

\* Every function of the programs is a C function that notes its arguments and
\* returns them.  With C = 0 all results stay and set top; else C - 1, filled
\* with nil.
Call(m, i, c) ==
  LET n == IF i.b = 0 THEN m.top - i.a - 1 ELSE i.b - 1
      args == Regs(m, i.a + 1, n)
      got == IF c = 0 THEN n ELSE c - 1
      new == [j \in 1..got |-> IF j <= n THEN args[j] ELSE Nil]
  IN  IF m.R[i.a] # Func THEN Fails(m)
      ELSE [m EXCEPT !.log = Append(@, args), !.pc = @ + 1,
              !.R = [r \in DOMAIN @ |-> IF r \in i.a..(i.a + got - 1) THEN new[r - i.a + 1] ELSE @[r]],
              !.top = IF c = 0 THEN i.a + got ELSE @]

Return(m, i) ==
  [m EXCEPT !.end = "return", !.vals = Regs(m, i.a, IF i.b = 0 THEN m.top - i.a ELSE i.b - 1)]

\* The loop starts one step before its first value; the index after limit ends it.
ForPrep(m, i) ==
  IF {m.R[i.a + j].t : j \in 0..2} # {"integer"} THEN Fails(m)
  ELSE [m EXCEPT !.R[i.a] = Arith("SUB", @, m.R[i.a + 2]), !.pc = i.b]
ForLoop(m, i) ==
  LET idx == Arith("ADD", m.R[i.a], m.R[i.a + 2])
      limit == m.R[i.a + 1]
      more == IF m.R[i.a + 2].v[1] > 0 THEN LessEqual(idx, limit) ELSE LessEqual(limit, idx)
  IN  IF more = Bool(TRUE) THEN [m EXCEPT !.R[i.a] = idx, !.R[i.a + 3] = idx, !.pc = i.b]
      ELSE Go(m, m.pc + 1)

Store(m, x, key, val) ==
  IF CanSet(x, key) THEN [m EXCEPT !.heap = SetTable(@, x, key, val), !.pc = @ + 1] ELSE Fails(m)

luaV_execute(f, m) ==
  LET i == f.code[m.pc]
      RK(r) == IF r >= BITRK THEN f.k[r - BITRK + 1] ELSE m.R[r]
  IN  CASE i.op = "MOVE" -> Put(m, i.a, m.R[i.b])
        [] i.op = "LOADK" -> Put(m, i.a, f.k[i.b + 1])
        [] i.op = "LOADBOOL" -> Go(Put(m, i.a, Bool(i.b = 1)), m.pc + 1 + i.c)
        [] i.op = "LOADNIL" -> [m EXCEPT !.pc = @ + 1, !.R =
                                  [r \in DOMAIN @ |-> IF r \in i.a..(i.a + i.b) THEN Nil ELSE @[r]]]
        [] i.op = "GETUPVAL" -> Put(m, i.a, m.up[i.b + 1])
        [] i.op = "SETUPVAL" -> [m EXCEPT !.up[i.b + 1] = m.R[i.a], !.pc = @ + 1]
        [] i.op = "GETTABUP" -> Put(m, i.a, GetTable(m.heap, m.up[i.b + 1], RK(i.c)))
        [] i.op = "GETTABLE" -> Put(m, i.a, GetTable(m.heap, m.R[i.b], RK(i.c)))
        [] i.op = "SETTABUP" -> Store(m, m.up[i.a + 1], RK(i.b), RK(i.c))
        [] i.op = "SETTABLE" -> Store(m, m.R[i.a], RK(i.b), RK(i.c))
        [] i.op \in {"ADD", "SUB"} -> Put(m, i.a, Arith(i.op, RK(i.b), RK(i.c)))
        [] i.op = "UNM" -> Put(m, i.a, Unm(m.R[i.b]))
        [] i.op = "NOT" -> Put(m, i.a, Bool(l_isfalse(m.R[i.b])))
        [] i.op = "CONCAT" -> Put(m, i.a, luaV_concat(Regs(m, i.b, i.c - i.b + 1)))
        [] i.op = "JMP" -> Go(m, i.b)
        [] i.op \in {"EQ", "LT", "LE"} ->
             LET x == Compare(i.op, RK(i.b), RK(i.c))
             IN  IF x = Error THEN Fails(m) ELSE Branch(f, m, x = Bool(i.a = 1))
        [] i.op = "TEST" -> Branch(f, m, l_isfalse(m.R[i.a]) = (i.c = 0))
        [] i.op = "TESTSET" ->
             IF l_isfalse(m.R[i.b]) = (i.c = 0)
             THEN Branch(f, [m EXCEPT !.R[i.a] = m.R[i.b]], TRUE) ELSE Branch(f, m, FALSE)
        [] i.op = "CALL" -> Call(m, i, i.c)
        [] i.op = "TAILCALL" -> Call(m, i, 0)
        [] i.op = "RETURN" -> Return(m, i)
        [] i.op = "FORPREP" -> ForPrep(m, i)
        [] i.op = "FORLOOP" -> ForLoop(m, i)

\* The machine's end, after at most fuel instructions.
RECURSIVE Run(_, _, _)
Run(f, m, fuel) ==
  IF m.end # "" THEN m
  ELSE IF fuel = 0 THEN [m EXCEPT !.end = "long"]
  ELSE IF m.pc \notin DOMAIN f.code THEN [m EXCEPT !.end = "lost"]
  ELSE Run(f, luaV_execute(f, m), fuel - 1)
=============================================================================

------------------------------ MODULE LuaProgram ------------------------------
(***************************************************************************)
(* What a program means, read off its syntax tree, and the comparison with *)
(* what its compiled code does: the same calls with the same arguments, in *)
(* order, the same values returned or an error at the same point, and the  *)
(* same tables and upvalues left.                                          *)
(***************************************************************************)
EXTENDS LuaCode

CONSTANTS
  Programs,      \* function bodies, as sequences of statements
  Inputs,        \* what a run starts from: [params, up, heap]
  UpNames, ParamNames,
  Fuel           \* bound on the instructions of a run

VARIABLES prog, f
vars == <<prog, f>>

NoCode == [ok |-> TRUE, code |-> <<>>]
Init == prog \in Programs /\ f = NoCode
Compile ==
  /\ f = NoCode
  /\ f' = Compiled(UpNames, ParamNames, prog)
  /\ UNCHANGED prog
Next == Compile
Spec == Init /\ [][Next]_vars

-----------------------------------------------------------------------------
(* A state q of the program: the bindings in scope, the innermost last; the *)
(* values of the last expression; and sig, set when the flow is broken.    *)

Begin(in) ==
  [env |-> [n \in DOMAIN ParamNames |-> [name |-> ParamNames[n], val |-> in.params[n]]],
   up |-> in.up, heap |-> in.heap, log |-> <<>>, vals |-> <<>>, sig |-> ""]
Fail(q) == [q EXCEPT !.sig = "error", !.vals = <<>>]
Gives(q, x) == IF x = Error THEN Fail(q) ELSE [q EXCEPT !.vals = <<x>>]
First(q) == IF q.vals = <<>> THEN Nil ELSE q.vals[1]

Bindings(q, name) == {n \in DOMAIN q.env : q.env[n].name = name}
Ups(name) == {n \in DOMAIN UpNames : UpNames[n] = name}
Lookup(q, name) ==
  IF Bindings(q, name) # {} THEN q.env[Max(Bindings(q, name))].val
  ELSE IF Ups(name) # {} THEN q.up[Min(Ups(name))]
  ELSE GetTable(q.heap, q.up[1], Str(name))
Store1(q, x, key, val) ==
  IF CanSet(x, key) THEN [q EXCEPT !.heap = SetTable(@, x, key, val)] ELSE Fail(q)

Binary(op, x, y) ==
  CASE op = "+" -> Arith("ADD", x, y) [] op = "-" -> Arith("SUB", x, y) [] op = ".." -> Concat(x, y)
    [] op = "==" -> Bool(x = y) [] op = "~=" -> Bool(x # y)
    [] op = "<" -> Less(x, y) [] op = ">" -> Less(y, x)
    [] op = "<=" -> LessEqual(x, y) [] op = ">=" -> LessEqual(y, x)

\* A run of an expression or a statement.
RECURSIVE Eval(_, _), Concats(_)
\* The operands of a chain of concatenations.
Concats(x) == IF x.kind = "bin" /\ x.op = ".." THEN <<x.l>> \o Concats(x.r) ELSE <<x>>

\* One value each, gathered before those that vals has at the end.
Gather(acc, x) ==
  LET With(e) == [q |-> e, vs |-> Append(acc.vs, First(e))] IN With(Eval(acc.q, x))
Gathered(q, xs) == FoldLeft(Gather, [q |-> q, vs |-> <<>>], xs)
\* The values of a list: one each, and all of the last.
EvalList(q, xs) ==
  LET Last1(acc) == LET Join(e) == IF e.sig # "" THEN e ELSE [e EXCEPT !.vals = acc.vs \o @]
                    IN  Join(Eval(acc.q, Last(xs)))
  IN  IF q.sig # "" \/ xs = <<>> THEN [q EXCEPT !.vals = <<>>] ELSE Last1(Gathered(q, Front(xs)))

\* What is done with the values of the parts, unless one of them failed.
Field(acc) == IF acc.q.sig # "" THEN acc.q ELSE Gives(acc.q, GetTable(acc.q.heap, acc.vs[1], acc.vs[2]))
Called(c, a) ==
  IF a.sig # "" THEN a ELSE IF First(c) # Func THEN Fail(a) ELSE [a EXCEPT !.log = Append(@, a.vals)]
Unary(q, op) ==
  IF q.sig # "" THEN q ELSE Gives(q, IF op = "not" THEN Bool(l_isfalse(First(q))) ELSE Unm(First(q)))
Only(q) == IF q.sig # "" THEN q ELSE Gives(q, First(q))
Operated(acc, op) == IF acc.q.sig # "" THEN acc.q ELSE Gives(acc.q, Binary(op, acc.vs[1], acc.vs[2]))
Joined1(acc) == IF acc.q.sig # "" THEN acc.q ELSE Gives(acc.q, luaV_concat(acc.vs))
\* and, or: the first operand decides whether it is the value.
Logical(q, op, r) == IF q.sig # "" \/ l_isfalse(First(q)) = (op = "and") THEN Only(q) ELSE Only(Eval(q, r))

\* Leaves the values in vals: one, except for a call.
Expression(q, x) ==
  LET Call1(c) == Called(c, EvalList(c, x.args))
  IN  CASE x.kind = "const" -> Gives(q, x.val)
        [] x.kind = "name" -> Gives(q, Lookup(q, x.name))
        [] x.kind = "paren" -> Only(Eval(q, x.of))
        [] x.kind = "index" -> Field(Gathered(q, <<x.of, x.key>>))
        [] x.kind = "call" -> Call1(Eval(q, x.of))
        [] x.kind = "un" -> Unary(Eval(q, x.of), x.op)
        [] x.kind = "bin" /\ x.op \in {"and", "or"} -> Logical(Eval(q, x.l), x.op, x.r)
        [] x.kind = "bin" /\ x.op = ".." -> Joined1(Gathered(q, Concats(x)))
        [] OTHER -> Operated(Gathered(q, <<x.l, x.r>>), x.op)

Adjusted(vs, n) == [j \in 1..n |-> IF j \in DOMAIN vs THEN vs[j] ELSE Nil]

\* Assignments are done from the last target to the first.  Tables and keys are
\* evaluated before, from the first target on.
SetName(q, name, val) ==
  IF Bindings(q, name) # {} THEN [q EXCEPT !.env[Max(Bindings(q, name))].val = val]
  ELSE IF Ups(name) # {} THEN [q EXCEPT !.up[Min(Ups(name))] = val]
  ELSE Store1(q, q.up[1], Str(name), val)
Places(targets) ==
  FoldLeft(LAMBDA ps, a : ps \o (IF a.kind = "name" THEN <<>> ELSE <<a.of, a.key>>), <<>>, targets)
Assign(q, targets, places, vs) ==
  LET At(n) == 2 * Cardinality({m \in 1..(n - 1) : targets[m].kind # "name"})
      One(acc, n) ==
        IF acc.sig # "" THEN acc
        ELSE IF targets[n].kind = "name" THEN SetName(acc, targets[n].name, vs[n])
        ELSE Store1(acc, places[At(n) + 1], places[At(n) + 2], vs[n])
  IN  IF q.sig # "" THEN q ELSE FoldLeft(One, q, Reverse([n \in DOMAIN targets |-> n]))
Assignment(q, targets, xs) ==
  LET Values(acc) == LET Do(r) == Assign(r, targets, acc.vs, Adjusted(r.vals, Len(targets)))
                     IN  Do(EvalList(acc.q, xs))
  IN  Values(Gathered(q, Places(targets)))

ExecAll(q, body) == FoldLeft(Eval, q, body)
Leave(q, r) == [r EXCEPT !.env = SubSeq(@, 1, Len(q.env))]
InBlock(q, body) == Leave(q, ExecAll(q, body))
EndLoop(r) == [r EXCEPT !.sig = IF @ = "break" THEN "" ELSE @]

Declared(q, names) ==
  LET Bound(n) == [name |-> names[n], val |-> Adjusted(q.vals, Len(names))[n]]
  IN  [q EXCEPT !.env = @ \o [n \in DOMAIN names |-> Bound(n)]]

\* The first part whose condition holds; the others are another such statement.
Chosen(c, st) ==
  IF c.sig # "" THEN c
  ELSE IF l_isfalse(First(c)) THEN Eval(c, [st EXCEPT !.parts = Tail(@)]) ELSE InBlock(c, st.parts[1].body)
If(q, st) == IF st.parts = <<>> THEN InBlock(q, st.else) ELSE Chosen(Eval(q, st.parts[1].cond), st)

\* A loop is followed by the same loop; a repeat's condition sees the variables of
\* its block.
While(c, st) ==
  LET Again(r) == IF r.sig # "" THEN EndLoop(r) ELSE Eval(r, st)
  IN  IF c.sig # "" \/ l_isfalse(First(c)) THEN c ELSE Again(InBlock(c, st.body))
Until(q, u, st) ==
  IF u.sig # "" THEN Leave(q, EndLoop(u))
  ELSE IF ~l_isfalse(First(u)) THEN Leave(q, u) ELSE Eval(Leave(q, u), st)
\* A for loop that has its numbers is a loop of kind "turns".
Turns(q, st) ==
  LET Body == Leave(q, ExecAll([q EXCEPT !.env = Append(@, [name |-> st.name, val |-> Num(st.idx)])], st.body))
      Again(r) == IF r.sig # "" THEN EndLoop(r) ELSE Eval(r, [st EXCEPT !.idx = @ + st.by])
  IN  IF IF st.by > 0 THEN st.idx > st.limit ELSE st.idx < st.limit THEN q ELSE Again(Body)
For(q, st) ==
  LET v(n) == Adjusted(q.vals, 3)[n].v[1]
  IN  IF q.sig # "" THEN q
      ELSE IF \E n \in 1..3 : Adjusted(q.vals, 3)[n].t # "integer" THEN Fail(q)
      ELSE Eval(q, [kind |-> "turns", idx |-> v(1), limit |-> v(2), by |-> v(3), name |-> st.name, body |-> st.body])
One == [kind |-> "const", val |-> Num(1)]

Statement(q, st) ==
  CASE st.kind = "local" -> Declared(EvalList(q, st.xs), st.names)
    [] st.kind = "assign" -> Assignment(q, st.targets, st.xs)
    [] st.kind = "callstat" -> Eval(q, st.x)
    [] st.kind = "do" -> InBlock(q, st.body)
    [] st.kind = "if" -> If(q, st)
    [] st.kind = "while" -> While(Eval(q, st.cond), st)
    [] st.kind = "repeat" -> LET Turn(b) == Until(q, Eval(b, st.cond), st) IN Turn(ExecAll(q, st.body))
    [] st.kind = "for" ->
         For(EvalList(q, <<st.from, st.to, IF st.step = <<>> THEN One ELSE st.step[1]>>), st)
    [] st.kind = "turns" -> Turns(q, st)
    [] st.kind = "return" ->
         LET Ends(r) == IF r.sig # "" THEN r ELSE [r EXCEPT !.sig = "return"] IN Ends(EvalList(q, st.xs))
    [] st.kind = "break" -> [q EXCEPT !.sig = "break"]

Eval(q, x) ==
  CASE q.sig # "" -> q
    [] q.sig = "" /\ x.kind \in ExprKinds -> Expression(q, x)
    [] OTHER -> Statement(q, x)

-----------------------------------------------------------------------------
\* What can be told from outside after a run of the code and of the tree.
OfCode(m) ==
  [end |-> m.end, vals |-> m.vals, up |-> m.up, heap |-> m.heap, log |-> m.log]
OfTree(q) ==
  [end |-> IF q.sig = "" THEN "return" ELSE q.sig, vals |-> IF q.sig = "return" THEN q.vals ELSE <<>>,
   up |-> q.up, heap |-> q.heap, log |-> q.log]

\* The code does what the program says, whatever the parameters, upvalues and
\* tables, although the compiler writes it in one pass, patches jumps later,
\* reuses registers and drops tests; and no assertion in it fails.
CodeMeansSource ==
  f # NoCode =>
    /\ f.ok
    /\ \A in \in Inputs : OfCode(Run(f, Start(in), Fuel)) = OfTree(ExecAll(Begin(in), prog))
=============================================================================

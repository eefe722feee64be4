------------------------------- MODULE LuaDump --------------------------------
(***************************************************************************)
(* Compiled functions as data: string.dump writes a function and those     *)
(* that it contains (ldump.c), load reads them again (lundump.c), as this  *)
(* or another build of Lua.  A chunk is a sequence of numbers, each a byte,*)
(* an integer, a number or a character; the writer takes it in blocks and  *)
(* may fail, and what is read may be cut short.                            *)
(***************************************************************************)
EXTENDS Integers, Sequences, SequencesExt

CONSTANTS
  Protos,      \* the functions that are dumped
  NULL,        \* no string
  MAXBYTESIZE  \* 0xFF: sizes of strings from here on do not fit in a byte

VARIABLES
  proto, strip,   \* what is dumped
  chunk, status,  \* what the writer took, and whether it took all
  loaded          \* what load made of it, or an error

vars == <<proto, strip, chunk, status, loaded>>

\* Type tags of constants.
TNIL == 0
TBOOLEAN == 1
TNUMFLT == 3
TSHRSTR == 4
TNUMINT == 19
TLNGSTR == 20

\* The signature, the version and the format, data that conversions would damage,
\* the sizes of the types and two numbers that show how numbers are kept.
Header == <<27, 83, 0, 2510, 4, 4, 4, 8, 8, 22136, 370>>

-----------------------------------------------------------------------------
\* ldump.c: sequences of blocks.  An empty vector is no block.
DumpVector(v) == IF v = <<>> THEN <<>> ELSE <<v>>
DumpByte(x) == <<<<x>>>>
DumpInt(x) == <<<<x>>>>
DumpString(s) ==
  IF s = NULL THEN DumpByte(0)
  ELSE (IF Len(s) + 1 < MAXBYTESIZE THEN DumpByte(Len(s) + 1) ELSE DumpByte(MAXBYTESIZE) \o DumpInt(Len(s) + 1))
         \o DumpVector(s)
DumpCode(f) == DumpInt(Len(f.code)) \o DumpVector(f.code)
DumpConstant(o) ==
  DumpByte(o.t) \o (CASE o.t = TNIL -> <<>>
                      [] o.t = TBOOLEAN -> DumpByte(o.v[1])
                      [] o.t \in {TNUMFLT, TNUMINT} -> DumpInt(o.v[1])
                      [] o.t \in {TSHRSTR, TLNGSTR} -> DumpString(o.v))
DumpConstants(f) == DumpInt(Len(f.k)) \o FlattenSeq([i \in DOMAIN f.k |-> DumpConstant(f.k[i])])
DumpUpvalues(f) ==
  DumpInt(Len(f.upvalues))
    \o FlattenSeq([i \in DOMAIN f.upvalues |-> DumpByte(f.upvalues[i].instack) \o DumpByte(f.upvalues[i].idx)])
Debug(v, stripped) == IF stripped THEN <<>> ELSE v
DumpLocvar(l) == DumpString(l.varname) \o DumpInt(l.startpc) \o DumpInt(l.endpc)
DumpLocvars(ls) == DumpInt(Len(ls)) \o FlattenSeq([i \in DOMAIN ls |-> DumpLocvar(ls[i])])
DumpNames(ns) == DumpInt(Len(ns)) \o FlattenSeq([i \in DOMAIN ns |-> DumpString(ns[i])])
DumpLines(ls) == DumpInt(Len(ls)) \o DumpVector(ls)
DumpDebug(f, s) == DumpLines(Debug(f.lineinfo, s)) \o DumpLocvars(Debug(f.locvars, s)) \o DumpNames(Debug(f.names, s))

RECURSIVE DumpFunction(_, _, _)
DumpFunction(f, psource, s) ==
  DumpString(IF s \/ f.source = psource THEN NULL ELSE f.source)
    \o DumpInt(f.linedefined) \o DumpInt(f.lastlinedefined)
    \o DumpByte(f.numparams) \o DumpByte(f.is_vararg) \o DumpByte(f.maxstacksize)
    \o DumpCode(f) \o DumpConstants(f) \o DumpUpvalues(f)
    \o DumpInt(Len(f.p)) \o FlattenSeq([i \in DOMAIN f.p |-> DumpFunction(f.p[i], f.source, s)])  \* DumpProtos
    \o DumpDebug(f, s)
DumpHeader == [i \in DOMAIN Header |-> <<Header[i]>>]
luaU_dump(f, s) == DumpHeader \o DumpByte(Len(f.upvalues)) \o DumpFunction(f, NULL, s)

-----------------------------------------------------------------------------
\* lundump.c: what is read, and the position after it, which is 0 after an error.
Truncated == [v |-> "truncated", at |-> 0]
Mismatch == [v |-> "mismatch", at |-> 0]
LoadVar(c, at) == IF at \in DOMAIN c THEN [v |-> c[at], at |-> at + 1] ELSE Truncated
LoadChars(c, at, n) == IF at + n - 1 > Len(c) THEN Truncated ELSE [v |-> SubSeq(c, at, at + n - 1), at |-> at + n]
LoadString(c, at) ==
  LET Sized(size) == IF size.at = 0 THEN size ELSE IF size.v = 0 THEN [v |-> NULL, at |-> size.at]
                     ELSE LoadChars(c, size.at, size.v - 1)
      Byte(x) == Sized(IF x.at # 0 /\ x.v = MAXBYTESIZE THEN LoadVar(c, x.at) ELSE x)
  IN  Byte(LoadVar(c, at))
LoadConstant(c, at) ==
  LET Of(t, x) == IF x.at = 0 THEN x ELSE [v |-> [t |-> t, v |-> x.v], at |-> x.at]
      One(x) == IF x.at = 0 THEN x ELSE [x EXCEPT !.v = <<x.v>>]
      Typed(t) == IF t.at = 0 THEN t ELSE IF t.v = TNIL THEN Of(t.v, [v |-> <<>>, at |-> t.at])
                  ELSE IF t.v \in {TSHRSTR, TLNGSTR} THEN Of(t.v, LoadString(c, t.at))
                  ELSE Of(t.v, One(LoadVar(c, t.at)))
  IN  Typed(LoadVar(c, at))

\* What LoadFunction and the loops in it read, in order.
FunctionFields ==
  <<<<"source", "string">>, <<"linedefined", "int">>, <<"lastlinedefined", "int">>, <<"numparams", "byte">>,
    <<"is_vararg", "byte">>, <<"maxstacksize", "byte">>, <<"code", "vector", "int">>,
    <<"k", "vector", "constant">>, <<"upvalues", "vector", "upvalue">>, <<"p", "vector", "function">>,
    <<"lineinfo", "vector", "int">>, <<"locvars", "vector", "locvar">>, <<"names", "vector", "string">>>>
UpvalueFields == <<<<"instack", "byte">>, <<"idx", "byte">>>>
LocvarFields == <<<<"varname", "string">>, <<"startpc", "int">>, <<"endpc", "int">>>>

RECURSIVE Load(_, _, _, _)
LoadVector(c, at, kind, psource) ==
  LET Item(r, x) == IF x.at = 0 THEN x ELSE [v |-> Append(r.v, x.v), at |-> x.at]
      Items(n) == IF n.at = 0 THEN n
                  ELSE FoldLeft(LAMBDA r, i : IF r.at = 0 THEN r ELSE Item(r, Load(c, r.at, <<kind>>, psource)),
                                [v |-> <<>>, at |-> n.at], [i \in 1..n.v |-> i])
  IN  Items(LoadVar(c, at))
LoadFields(c, at, fields, psource) ==
  LET Parent(r) == IF "source" \in DOMAIN r.v THEN r.v.source ELSE psource
      Set(r, name, x) ==
        IF x.at = 0 THEN x
        ELSE [v |-> [n \in DOMAIN r.v \cup {name} |->
                       IF n # name THEN r.v[n] ELSE IF n = "source" /\ x.v = NULL THEN psource ELSE x.v],
              at |-> x.at]
  IN  FoldLeft(LAMBDA r, f : IF r.at = 0 THEN r ELSE Set(r, f[1], Load(c, r.at, Tail(f), Parent(r))),
               [v |-> <<>>, at |-> at], fields)
Load(c, at, kind, psource) ==
  CASE kind[1] \in {"int", "byte"} -> LoadVar(c, at)
    [] kind[1] = "string" -> LoadString(c, at)
    [] kind[1] = "constant" -> LoadConstant(c, at)
    [] kind[1] = "vector" -> LoadVector(c, at, kind[2], psource)
    [] OTHER -> LoadFields(c, at, [upvalue |-> UpvalueFields, locvar |-> LocvarFields,
                                   function |-> FunctionFields][kind[1]], psource)

checkHeader(c) ==
  FoldLeft(LAMBDA r, x : IF r.at = 0 THEN r ELSE IF r.at \notin DOMAIN c THEN Truncated
                         ELSE IF c[r.at] # x THEN Mismatch ELSE [r EXCEPT !.at = @ + 1],
           [v |-> "header", at |-> 1], Header)
luaU_undump(c) ==
  LET Upvalues(n) == IF n.at = 0 THEN n ELSE Load(c, n.at, <<"function">>, NULL)
      Checked(h) == IF h.at = 0 THEN h ELSE Upvalues(LoadVar(c, h.at))
  IN  Checked(checkHeader(c))

-----------------------------------------------------------------------------
Nothing == [v |-> "nothing", at |-> -1]
NotLoaded == loaded.at = -1
Init == proto \in Protos /\ strip \in BOOLEAN /\ chunk = <<>> /\ status = "no" /\ loaded = Nothing

\* The writer fails at any block, after which nothing is written.
Dump ==
  /\ status = "no"
  /\ LET blocks == luaU_dump(proto, strip)
     IN  \E room \in 0..Len(blocks) :
           /\ chunk' = FlattenSeq(SubSeq(blocks, 1, room))
           /\ status' = IF room = Len(blocks) THEN "ok" ELSE "failed"
  /\ UNCHANGED <<proto, strip, loaded>>

\* The chunk comes from a build whose header differs, or loses its end.
Damage ==
  /\ status = "ok" /\ NotLoaded
  /\ \/ \E i \in DOMAIN Header : chunk' = [chunk EXCEPT ![i] = @ + 1]
     \/ \E n \in 0..(Len(chunk) - 1) : chunk' = SubSeq(chunk, 1, n)
  /\ status' = "failed"
  /\ UNCHANGED <<proto, strip, loaded>>

Undump ==
  /\ status # "no" /\ NotLoaded /\ loaded' = luaU_undump(chunk)
  /\ UNCHANGED <<proto, strip, chunk, status>>

Next == Dump \/ Damage \/ Undump
Spec == Init /\ [][Next]_vars

-----------------------------------------------------------------------------
RECURSIVE Stripped(_)
Stripped(f) ==
  [f EXCEPT !.source = NULL, !.lineinfo = <<>>, !.locvars = <<>>, !.names = <<>>,
            !.p = [i \in DOMAIN f.p |-> Stripped(f.p[i])]]

\* A function that was dumped completely is loaded as it was, but for what was
\* stripped, and dumps to the same chunk again; one that was not, or that another
\* build dumped, is an error and never a function.
ChunkRoundTrip ==
  ~NotLoaded =>
    IF status = "ok"
    THEN /\ loaded.v = IF strip THEN Stripped(proto) ELSE proto
         /\ loaded.at = Len(chunk) + 1
         /\ FlattenSeq(luaU_dump(loaded.v, strip)) = chunk
    ELSE loaded.at = 0
=============================================================================

------------------------------ MODULE Libraries -------------------------------
(***************************************************************************)
(* The algorithms of the libraries under the firmware: the tables          *)
(* (LuaTable), the table library (LuaTableLib), the patterns (LuaMatch),   *)
(* the compiler (LuaProgram) and the compiled chunks (LuaDump) of Lua, its *)
(* numbers with the libraries that work on them (LuaCalls), and the gadget *)
(* schemes (Schemes), attributes (Attributes) and function types           *)
(* (FunctionTypes) of libusbgx.  They share no state: a behaviour of this  *)
(* module runs one of them, and the others' variables hold NIL.            *)
(***************************************************************************)
EXTENDS Integers, Sequences

CONSTANTS
  IntKeys, StrKeys, HashOf, NIL, SomeValue, Presizes, MaxSteps,
  Patterns, Subjects, NUL,
  Programs, Inputs, UpNames, ParamNames, Fuel, MAXINDEXRK,
  NBITS, NBM, LUA_NBITS, L_RANDMAX, SomeInts, Floats, Numerals, Unsigneds, Codes, Utf8Texts, Sizes,
  MaxTurns, NB, SZSHORT, SZINTC, SZSIZET, SZLONG, MAXINTSIZE, MAXALIGN, MAXSIZE, NativeLittle,
  NoNumber, ByteTexts, BytePositions, Formats, PackInts, PackTexts, PackData,
  Gadgets, Instances, Ids, NoGadget, NoLabel, Wrong, CharIsSigned, MaxCalls,
  MAXINTEGER, MaxUnpacked, RANLIMIT, Imbalance, Rnds, Lengths, Positions, SortTasks, NewItem, Sep,
  Protos, NULL, MAXBYTESIZE,
  KernelMax, SmallMax, Langs, Texts, Numbers, MaxAttrCalls,
  Addrs, Words16, Strs, Reports, MAX_LUNS, MaxFunctionCalls

VARIABLES
  t, map, walk, steps,
  pat, subj, loop, src, lastmatch, found, out, over,
  prog, f,
  op, args, res, ran, pc,
  gadgets, file, last, nCalls,
  files, binding, link, called, turns,
  ftype, tree, luns, luns_initiated, scheme, did, calls,
  request, answer,
  proto, strip, chunk, status, loaded,
  part      \* the part that runs

T == INSTANCE LuaTable
M == INSTANCE LuaMatch
P == INSTANCE LuaProgram
L == INSTANCE LuaCalls WITH
       Ints <- SomeInts, Texts <- ByteTexts, Positions <- BytePositions
S == INSTANCE Schemes
A == INSTANCE Attributes
U == INSTANCE FunctionTypes
B == INSTANCE LuaTableLib WITH MaxResults <- MaxUnpacked
D == INSTANCE LuaDump

tableVars == <<t, map, walk, steps>>
matchVars == <<pat, subj, loop, src, lastmatch, found, out, over>>
programVars == <<prog, f>>
numberVars == <<op, args, res, ran, pc>>
schemeVars == <<gadgets, file, last, nCalls>>
attributeVars == <<files, binding, link, called, turns>>
functionVars == <<ftype, tree, luns, luns_initiated, scheme, did, calls>>
callVars == <<request, answer>>
chunkVars == <<proto, strip, chunk, status, loaded>>
luaVars == <<tableVars, matchVars, programVars, callVars, chunkVars>>
usbVars == <<numberVars, schemeVars, attributeVars, functionVars>>
vars == <<luaVars, usbVars, part>>

NoTable == t = NIL /\ map = NIL /\ walk = NIL /\ steps = NIL
NoMatch ==
  /\ pat = NIL /\ subj = NIL /\ loop = NIL /\ src = NIL /\ lastmatch = NIL
  /\ found = NIL /\ out = NIL /\ over = NIL
NoProgram == prog = NIL /\ f = NIL
NoNumbers == op = NIL /\ args = NIL /\ res = NIL /\ ran = NIL /\ pc = NIL
NoScheme == gadgets = NIL /\ file = NIL /\ last = NIL /\ nCalls = NIL

NoAttribute == files = NIL /\ binding = NIL /\ link = NIL /\ called = NIL /\ turns = NIL
NoFunction ==
  /\ ftype = NIL /\ tree = NIL /\ luns = NIL /\ luns_initiated = NIL
  /\ scheme = NIL /\ did = NIL /\ calls = NIL

NoCall == request = NIL /\ answer = NIL
NoChunk == proto = NIL /\ strip = NIL /\ chunk = NIL /\ status = NIL /\ loaded = NIL

Init ==
  \/ /\ NoNumbers /\ NoScheme /\ NoAttribute /\ NoFunction
     /\ \/ part = "table" /\ T!Init /\ NoMatch /\ NoProgram /\ NoCall /\ NoChunk
        \/ part = "match" /\ M!Init /\ NoTable /\ NoProgram /\ NoCall /\ NoChunk
        \/ part = "program" /\ P!Init /\ NoTable /\ NoMatch /\ NoCall /\ NoChunk
        \/ part = "tablelib" /\ B!Init /\ NoTable /\ NoMatch /\ NoProgram /\ NoChunk
        \/ part = "chunk" /\ D!Init /\ NoTable /\ NoMatch /\ NoProgram /\ NoCall
  \/ /\ NoTable /\ NoMatch /\ NoProgram /\ NoCall /\ NoChunk
     /\ \/ part = "numbers" /\ L!Init /\ NoScheme /\ NoAttribute /\ NoFunction
        \/ part = "schemes" /\ S!Init /\ NoNumbers /\ NoAttribute /\ NoFunction
        \/ part = "attributes" /\ A!Init /\ NoNumbers /\ NoScheme /\ NoFunction
        \/ part = "functions" /\ U!Init /\ NoNumbers /\ NoScheme /\ NoAttribute

Next ==
  /\ UNCHANGED part
  /\ \/ /\ UNCHANGED usbVars
        /\ \/ part = "table" /\ T!Next /\ UNCHANGED <<matchVars, programVars, callVars, chunkVars>>
           \/ part = "match" /\ M!Next /\ UNCHANGED <<tableVars, programVars, callVars, chunkVars>>
           \/ part = "program" /\ P!Next /\ UNCHANGED <<tableVars, matchVars, callVars, chunkVars>>
           \/ part = "tablelib" /\ B!Next /\ UNCHANGED <<tableVars, matchVars, programVars, chunkVars>>
           \/ part = "chunk" /\ D!Next /\ UNCHANGED <<tableVars, matchVars, programVars, callVars>>
     \/ /\ UNCHANGED luaVars
        /\ \/ part = "numbers" /\ L!Next /\ UNCHANGED <<schemeVars, attributeVars, functionVars>>
           \/ part = "schemes" /\ S!Next /\ UNCHANGED <<numberVars, attributeVars, functionVars>>
           \/ part = "attributes" /\ A!Next /\ UNCHANGED <<numberVars, schemeVars, functionVars>>
           \/ part = "functions" /\ U!Next /\ UNCHANGED <<numberVars, schemeVars, attributeVars>>

Spec == Init /\ [][Next]_vars

-----------------------------------------------------------------------------
\* A table stays the map that the assignments made of it, its length is a border
\* and traversals miss and repeat nothing (LuaTable); what the table library moves,
\* joins and sorts is all there, where it should be (LuaTableLib).
TableSound == (part = "table" => T!TableSound) /\ (part = "tablelib" => B!TableLibSound)

\* match finds the preferred way to match, and the loops over all matches are
\* complete (LuaMatch).
MatchSound == part = "match" => M!MatchSound

\* The code that the compiler writes does what the program says (LuaProgram), and
\* a function that is dumped and loaded has the code that it had (LuaDump).
CodeMeansSource == (part = "program" => P!CodeMeansSource) /\ (part = "chunk" => D!ChunkRoundTrip)

\* Arithmetic, comparisons, loops, conversions, and the functions of bit32, math,
\* utf8 and string give what the numbers and texts mean (LuaCalls).
NumbersSound == part = "numbers" => L!NumbersSound

\* What was exported can be imported, a failed import disturbs nothing, and every
\* link has its end (Schemes).
SchemeRoundTrip == part = "schemes" => S!SchemeRoundTrip

\* A call on the attributes of a gadget changes what it was asked to and nothing
\* else, and what is read is what was set (Attributes); the same of functions, whose
\* luns are those the library thinks there are, and which a scheme brings back
\* (FunctionTypes).
SettingsSound == (part = "attributes" => A!AttributesSound) /\ (part = "functions" => U!FunctionsSound)
=============================================================================

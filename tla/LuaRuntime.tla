------------------------------ MODULE LuaRuntime ------------------------------
(***************************************************************************)
(* The parts of Lua that run while the firmware's program runs: the        *)
(* collector (LuaGc), the stack under the calls of the firmware            *)
(* (LuaStack), and coroutines with protected calls (LuaCoroutines).  They  *)
(* are modelled without shared state: a behaviour of this module runs one  *)
(* of them, and the others' variables hold NIL.                            *)
(***************************************************************************)
EXTENDS Integers, Sequences

CONSTANTS
  NIL,
  Tables, Closures, Userdata, StringObjs, Registry, Main, NoObject, Slots, Keys, Modes, GCSWEEPMAX,
  MaxStack, Full,
  LUA_MINSTACK, EXTRA_STACK, LUAI_MAXSTACK, ErrorSpace, MaxCCalls, FrameSizes, MaxResults,
  HasTick, MaxEvents,
  Coroutines, LUAI_MAXCCALLS, MaxFrames

VARIABLES
  color, entry, mode, stack, lists, gray, grayagain, allweak, gcstate, sweepgc, full, emergency,
  top, size, cis, jmps, inC, phase, left, events,
  ci, status, nny, nCcalls, values, cstack, raising, ended,
  part      \* the part that runs

G == INSTANCE LuaGc
S == INSTANCE LuaStack WITH nCcalls <- inC, LUAI_MAXCCALLS <- MaxCCalls
K == INSTANCE LuaCoroutines

ASSUME ObjectsFit == G!LuaGcAssumption
ASSUME StackFits == S!LuaStackAssumption
ASSUME CoroutinesFit == K!LuaCoroutinesAssumption

gcVars ==
  <<color, entry, mode, stack, lists, gray, grayagain, allweak, gcstate, sweepgc, full, emergency>>
stackVars == <<top, size, cis, jmps, inC, phase, left, events>>
coVars == <<ci, status, nny, nCcalls, values, cstack, raising, ended>>
vars == <<gcVars, stackVars, coVars, part>>

NoGc ==
  /\ color = NIL /\ entry = NIL /\ mode = NIL /\ stack = NIL /\ lists = NIL
  /\ gray = NIL /\ grayagain = NIL /\ allweak = NIL
  /\ gcstate = NIL /\ sweepgc = NIL /\ full = NIL /\ emergency = NIL
NoStack ==
  /\ top = NIL /\ size = NIL /\ cis = NIL /\ jmps = NIL /\ inC = NIL
  /\ phase = NIL /\ left = NIL /\ events = NIL
NoCo ==
  /\ ci = NIL /\ status = NIL /\ nny = NIL /\ nCcalls = NIL /\ values = NIL
  /\ cstack = NIL /\ raising = NIL /\ ended = NIL

Init ==
  \/ part = "gc" /\ G!Init /\ NoStack /\ NoCo
  \/ part = "stack" /\ S!Init /\ NoGc /\ NoCo
  \/ part = "coroutines" /\ K!Init /\ NoGc /\ NoStack

Next ==
  /\ UNCHANGED part
  /\ \/ part = "gc" /\ G!Next /\ UNCHANGED <<stackVars, coVars>>
     \/ part = "stack" /\ S!Next /\ UNCHANGED <<gcVars, coVars>>
     \/ part = "coroutines" /\ K!Next /\ UNCHANGED <<gcVars, stackVars>>

Spec == Init /\ [][Next]_vars

-----------------------------------------------------------------------------
\* The program never meets a freed object, and between two steps of the collector
\* the colours keep the invariants of lgc.h, whatever it stores (LuaGc).
HeapSound == part = "gc" => G!NoDangling /\ G!ColorsSound

\* Nothing with a finalizer is freed before it ran, none runs for an object in use,
\* and a weak entry goes only with one of its sides (LuaGc).
FinalizersSound == [][part = "gc" => G!FinalizerStep /\ G!WeakStep]_vars

\* Every frame lies within the stack of Lua, and a call from the main loop leaves
\* the stack, the pending pcalls and the count of C calls as they were, but for the
\* values that failures leave (LuaStack).
StackSound == part = "stack" => S!FramesFit /\ S!BaseRestored

\* The counters of C calls and of calls that cannot yield are those of the calls in
\* progress, a coroutine's status is true, and an error is taken to the innermost
\* pcall of its thread or ends just that thread (LuaCoroutines).
CoroutinesSound ==
  [](part = "coroutines" => K!CoroutinesInv) /\ [][part = "coroutines" => K!ErrorsToInnermost]_vars
=============================================================================

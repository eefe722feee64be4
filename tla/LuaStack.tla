------------------------------ MODULE LuaStack ------------------------------
(***************************************************************************)
(* The Lua stack under the firmware.  The base level is keybow's C code    *)
(* (lua-config.c), which pushes and calls handlers with lua_pcall; inside  *)
(* a handler Lua and C functions call each other, return, raise errors,    *)
(* catch them and grow or shrink the stack (ldo.c, lapi.c, lvm.c).  Values *)
(* do not matter: a frame is where its function sits and how far it may    *)
(* go, and slots are counted from the bottom of the stack.                 *)
(***************************************************************************)
EXTENDS Integers, Sequences, FiniteSets

CONSTANTS
  LUA_MINSTACK, EXTRA_STACK, LUAI_MAXSTACK, ErrorSpace, LUAI_MAXCCALLS,
  FrameSizes,     \* frame sizes of the Lua functions of the layout
  MaxResults,     \* bound on the values a function returns
  HasTick,        \* the chunk defines tick
  MaxEvents       \* bound on the calls from the main loop

\* What the constants have to satisfy.
LuaStackAssumption ==
  /\ LUA_MINSTACK \in Nat \ {0} /\ EXTRA_STACK \in Nat \ {0}
  /\ LUAI_MAXSTACK \in Nat /\ LUAI_MAXSTACK >= 2 * LUA_MINSTACK
  /\ ErrorSpace \in Nat \ {0} /\ LUAI_MAXCCALLS \in Nat
  /\ FrameSizes \subseteq Nat \ {0} /\ MaxResults \in Nat
  /\ HasTick \in BOOLEAN /\ MaxEvents \in Nat

MULTRET == -1
ERRORSTACKSIZE == LUAI_MAXSTACK + ErrorSpace

VARIABLES
  top,      \* L->top
  size,     \* L->stacksize
  cis,      \* the CallInfo chain, the base level first
  jmps,     \* the pending luaD_pcalls, outermost first
  nCcalls,  \* L->nCcalls
  phase,    \* "chunk", "setup", then the "loop" of main
  left,     \* ghost: values that base-level calls have left behind
  events    \* calls left

vars == <<top, size, cis, jmps, nCcalls, phase, left, events>>

base    == cis[1]
current == cis[Len(cis)]
inCall  == Len(cis) > 1
stack_last(sz) == sz - EXTRA_STACK
Larger(a, b)   == IF a > b THEN a ELSE b
Smaller(a, b)  == IF a < b THEN a ELSE b

TypeOK ==
  /\ top \in Nat /\ size \in Nat /\ nCcalls \in 0..LUAI_MAXCCALLS
  /\ cis \in Seq([lua : BOOLEAN, func : Nat, top : Nat, want : Int, viaC : BOOLEAN])
  /\ jmps \in Seq([depth : Nat, top : Nat, nC : Nat])
  /\ phase \in {"chunk", "setup", "loop"} /\ left \in Nat /\ events \in 0..MaxEvents

\* stack_init: one slot below the base level.
Init ==
  /\ top = 1 /\ size = 2 * LUA_MINSTACK
  /\ cis = <<[lua |-> FALSE, func |-> 0, top |-> 1 + LUA_MINSTACK, want |-> 0,
              viaC |-> FALSE]>>
  /\ jmps = <<>> /\ nCcalls = 0 /\ phase = "chunk" /\ left = 0 /\ events = MaxEvents

-----------------------------------------------------------------------------
\* luaD_shrinkstack: the size a stack in use up to t shrinks to.
InUse(t, chain) ==
  1 + CHOOSE m \in {t} \cup {chain[i].top : i \in DOMAIN chain} :
        \A k \in {t} \cup {chain[i].top : i \in DOMAIN chain} : k <= m
Shrunk(t, chain, sz) ==
  LET inuse == InUse(t, chain)
      good  == Smaller(inuse + (inuse \div 8) + 2 * EXTRA_STACK, LUAI_MAXSTACK)
  IN  IF inuse <= LUAI_MAXSTACK - EXTRA_STACK /\ good < sz THEN good ELSE sz

\* luaD_growstack with the top at t: the new size, or the size at which it
\* throws.
Grown(t, n) ==
  LET new == Larger(Smaller(2 * size, LUAI_MAXSTACK), t + n + EXTRA_STACK)
  IN  IF size > LUAI_MAXSTACK THEN [ok |-> FALSE, size |-> size]
      ELSE IF new > LUAI_MAXSTACK THEN [ok |-> FALSE, size |-> ERRORSTACKSIZE]
      ELSE [ok |-> TRUE, size |-> new]
Checked(t, n) ==
  IF stack_last(size) - t > n THEN [ok |-> TRUE, size |-> size] ELSE Grown(t, n)

\* Mutant of Throw: nCcalls is not restored.
Throw_CCallsKept(pending, sz) ==
  LET h     == pending[Len(pending)]
      chain == SubSeq(cis, 1, h.depth)
  IN  /\ cis' = chain /\ top' = h.top + 1 /\ size' = Shrunk(h.top + 1, chain, sz)
      /\ jmps' = SubSeq(pending, 1, Len(pending) - 1)
      /\ left' = IF h.depth = 1 THEN left + 1 ELSE left
      /\ UNCHANGED nCcalls

\* luaD_throw, caught by the innermost of the given luaD_pcalls: the message
\* takes the place of the called function, the callers' state comes back.
Throw(pending, sz) ==
  LET h     == pending[Len(pending)]
      chain == SubSeq(cis, 1, h.depth)
  IN  /\ cis' = chain /\ top' = h.top + 1
      /\ size' = Shrunk(h.top + 1, chain, sz)
      /\ nCcalls' = h.nC
      /\ jmps' = SubSeq(pending, 1, Len(pending) - 1)
      /\ left' = IF h.depth = 1 THEN left + 1 ELSE left

\* luaD_call and luaD_precall of the function in slot func, the top at t.
Call(lua, fsize, func, t, want, viaC, pending) ==
  LET need  == IF lua THEN fsize ELSE LUA_MINSTACK
      room  == Checked(t, need)
      limit == IF lua THEN func + 1 + fsize ELSE t + LUA_MINSTACK
  IN  IF (viaC /\ nCcalls + 1 >= LUAI_MAXCCALLS) \/ ~room.ok
      THEN Throw(pending, IF room.ok THEN size ELSE room.size)
      ELSE /\ cis' = Append(cis, [lua |-> lua, func |-> func, top |-> limit,
                                  want |-> want, viaC |-> viaC])
           /\ top' = IF lua THEN limit ELSE t
           /\ size' = room.size
           /\ nCcalls' = IF viaC THEN nCcalls + 1 ELSE nCcalls
           /\ jmps' = pending /\ UNCHANGED left

\* What may be called: a Lua function by its frame size, or a C function (0).
Callees == {0} \cup FrameSizes
Protect(func) == Append(jmps, [depth |-> Len(cis), top |-> func, nC |-> nCcalls])

-----------------------------------------------------------------------------
\* Keybow's side.  lua_getglobal and lua_pushboolean are pushes without a check
\* of the stack; then lua_pcall with nargs arguments.
PCallFromBase(nargs, want) ==
  \E f \in Callees : Call(f # 0, f, top, top + 1 + nargs, want, TRUE, Protect(top))

PushAtBase(n) ==
  /\ top' = top + n /\ left' = left + n
  /\ UNCHANGED <<size, cis, jmps, nCcalls>>

\* The chunk of keys.lua, loaded and called for all its results.
RunChunk ==
  /\ phase = "chunk" /\ ~inCall /\ left = 0 /\ events = MaxEvents
  /\ events' = events - 1
  /\ PCallFromBase(0, MULTRET) /\ UNCHANGED phase

\* lua_getglobal "tick", which stays on the stack.
FindTick ==
  /\ phase = "chunk" /\ ~inCall /\ events < MaxEvents
  /\ PushAtBase(1) /\ phase' = "setup" /\ UNCHANGED events

luaCallSetup ==
  /\ phase = "setup" /\ ~inCall
  /\ \/ PushAtBase(1)              \* no setup function: its nil stays
     \/ PCallFromBase(0, 0)
  /\ phase' = "loop" /\ UNCHANGED events

luaHandleKey ==
  /\ phase = "loop" /\ ~inCall /\ events > 0 /\ events' = events - 1
  /\ \/ PushAtBase(1)              \* not defined: return 1, nothing popped
     \/ PCallFromBase(1, 0)
  /\ UNCHANGED phase

luaTick ==
  /\ phase = "loop" /\ ~inCall /\ HasTick /\ events > 0 /\ events' = events - 1
  /\ PCallFromBase(1, 0) /\ UNCHANGED phase

-----------------------------------------------------------------------------
\* Inside a handler.  OP_CALL takes a slot of the Lua frame for the function,
\* or the open results of the call before as its arguments.
OpCall ==
  /\ inCall /\ current.lua
  /\ \E func \in (current.func + 1)..(top - 1), want \in {MULTRET, 0, 1}, f \in Callees :
       Call(f # 0, f, func, top, want, FALSE, jmps)

\* OP_TAILCALL of a Lua function: its frame moves down over the caller's.
OpTailCall ==
  /\ inCall /\ current.lua
  /\ \E func \in (current.func + 1)..(top - 1), f \in FrameSizes :
       LET room  == Checked(top, f)
           limit == current.func + 1 + f
       IN  IF ~room.ok THEN Throw(jmps, room.size)
           ELSE /\ cis' = [cis EXCEPT ![Len(cis)].top = limit]
                /\ top' = limit /\ size' = room.size
                /\ UNCHANGED <<jmps, nCcalls, left>>

\* A C function pushes within its frame, or makes room first (lua_checkstack).
Push ==
  /\ inCall /\ ~current.lua /\ top < current.top
  /\ top' = top + 1 /\ UNCHANGED <<size, cis, jmps, nCcalls, left>>

lua_checkstack ==
  /\ inCall /\ ~current.lua /\ top = current.top
  /\ LET room == Checked(top, 1)
     IN  /\ stack_last(size) - top > 1 \/ top + EXTRA_STACK <= LUAI_MAXSTACK - 1
         /\ room.ok /\ size' = room.size
         /\ cis' = [cis EXCEPT ![Len(cis)].top = top + 1]
  /\ UNCHANGED <<top, jmps, nCcalls, left>>

\* A C function calls: lua_callk, or lua_pcallk which catches.
CallFromC ==
  /\ inCall /\ ~current.lua /\ top > current.func + 1
  /\ \E want \in {MULTRET, 0}, protected \in BOOLEAN, f \in Callees :
       Call(f # 0, f, top - 1, top, want, TRUE, IF protected THEN Protect(top - 1) ELSE jmps)

\* luaD_poscall.  A luaD_pcall that made the call ends with it; the caller gets
\* what it wanted: a Lua caller its own top back, a C caller a frame that holds
\* all results (adjustresults).
Return ==
  /\ inCall
  /\ \E nres \in 0..MaxResults :
       LET n      == IF current.want = MULTRET THEN nres ELSE current.want
           chain  == SubSeq(cis, 1, Len(cis) - 1)
           caller == chain[Len(chain)]
           after  == current.func + n
       IN  /\ nres <= top - current.func - 1
           /\ top' = IF caller.lua /\ current.want # MULTRET THEN caller.top ELSE after
           /\ cis' = IF ~caller.lua /\ current.want = MULTRET
                     THEN [chain EXCEPT ![Len(chain)].top = Larger(@, after)] ELSE chain
           /\ nCcalls' = IF current.viaC THEN nCcalls - 1 ELSE nCcalls
           /\ jmps' = IF jmps # <<>> /\ jmps[Len(jmps)].depth = Len(chain)
                         /\ jmps[Len(jmps)].top = current.func /\ current.viaC
                      THEN SubSeq(jmps, 1, Len(jmps) - 1) ELSE jmps
           /\ left' = IF Len(chain) = 1 THEN left + n ELSE left
  /\ UNCHANGED size

Error == inCall /\ Throw(jmps, size)

\* The collector runs in a call and shrinks the stack it finds.
Collect ==
  /\ inCall /\ size' = Shrunk(top, cis, size)
  /\ UNCHANGED <<top, cis, jmps, nCcalls, left>>

Inside ==
  /\ OpCall \/ OpTailCall \/ Push \/ lua_checkstack \/ CallFromC \/ Return \/ Error \/ Collect
  /\ UNCHANGED <<phase, events>>

Next == RunChunk \/ FindTick \/ luaCallSetup \/ luaHandleKey \/ luaTick \/ Inside
Spec == Init /\ [][Next]_vars

-----------------------------------------------------------------------------
\* Every frame lies within the stack, whatever was grown and shrunk under it
\* (the asserts ci->top <= L->stack_last of ldo.c), and a running function stays
\* within its frame, however many values the base level has left below.  The
\* stack has a legal size: above LUAI_MAXSTACK only while an overflow is handled
\* (luaD_reallocstack's assert).
FramesFit ==
  /\ \A i \in 2..Len(cis) : cis[i].top <= stack_last(size) /\ cis[i].func < cis[i].top
  /\ inCall => top <= stack_last(size) /\ (current.lua \/ top <= current.top)
  /\ size <= LUAI_MAXSTACK \/ size = ERRORSTACKSIZE

\* Whatever happens inside - nested calls, errors caught or not, growth - the
\* counted C calls are the frames entered from C, and a call from the main loop
\* comes back with no pending pcall, no C call counted and nothing on the stack
\* but what failures and missing functions left.
BaseRestored ==
  /\ nCcalls = Cardinality({i \in DOMAIN cis : cis[i].viaC})
  /\ ~inCall => jmps = <<>> /\ nCcalls = 0 /\ top = 1 + left
=============================================================================

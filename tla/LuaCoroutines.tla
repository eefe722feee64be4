----------------------------- MODULE LuaCoroutines -----------------------------
(***************************************************************************)
(* Coroutines and protected calls of Lua (ldo.c, lcorolib.c).  Every       *)
(* thread has a chain of frames, ci, that survives a yield, and all share  *)
(* the stack of C, where the calls from C to Lua and the places to which   *)
(* errors and yields jump are.  A yield cuts off what its coroutine has on *)
(* the stack of C, so that later an error must be taken to a pcall that is *)
(* only in the chain, and a return to a C function that no longer runs.    *)
(* The firmware calls into the main thread, once at a time; what the       *)
(* functions do is open.                                                   *)
(***************************************************************************)
EXTENDS Integers, Sequences, FiniteSets, FiniteSetsExt, SequencesExt

CONSTANTS
  Main, Coroutines,    \* the threads; a coroutine is created once
  LUAI_MAXCCALLS,      \* limit of the calls from C to Lua
  MaxFrames            \* frames of a thread that are looked at

LuaCoroutinesAssumption ==
  Main \notin Coroutines /\ LUAI_MAXCCALLS \in Nat \ {0} /\ MaxFrames \in Nat

VARIABLES
  ci,          \* the frames of each thread, the running function last
  status,      \* "OK", "YIELD", or the error that ended the thread
  nny,         \* calls in progress that cannot be yielded across
  nCcalls,     \* calls from C to Lua in progress
  values,      \* whether there is a function or a result at the base of a thread
  cstack,      \* the stack of C: [t, k, ci, from, nny, nCcalls]
  raising,     \* "no", or the status that is being thrown
  ended        \* history: coroutines whose body returned or failed

threadVars == <<ci, status, nny, nCcalls, values>>
vars == <<ci, status, nny, nCcalls, values, cstack, raising, ended>>

Threads == {Main} \cup Coroutines
Frame(kind) == [kind |-> kind, ypcall |-> FALSE]
CFunctions == {"pcall", "sort"}
Running == Last(cstack).t
Depth(t) == Len(ci[t])
Up(t) == Depth(t) - 1
InLua(t) == cstack # <<>> /\ t = Running /\ raising = "no" /\ Last(ci[t]).kind = "lua"
Room(t) == Depth(t) + 1 < MaxFrames
errorstatus(s) == s \notin {"OK", "YIELD"}

Init ==
  /\ ci = [t \in Threads |-> <<>>]
  /\ status = [t \in Threads |-> "OK"]
  /\ nny = [t \in Threads |-> 1] /\ nCcalls = [t \in Threads |-> 0]
  /\ values = [t \in Threads |-> FALSE]
  /\ cstack = <<>> /\ raising = "no" /\ ended = {}

Activation(t, k, depth, from) ==
  [t |-> t, k |-> k, ci |-> depth, from |-> from, nny |-> nny[t], nCcalls |-> nCcalls[t]]

\* A call from C to a Lua function, of frame f if f is a C function that makes it;
\* k is the function of ldo.c that is called.
EnterCall(t, frames, k) ==
  LET overflow == nCcalls[t] + 1 >= LUAI_MAXCCALLS
  IN  /\ nCcalls' = [nCcalls EXCEPT ![t] = @ + 1]
      /\ nny' = IF k = "call" THEN nny ELSE [nny EXCEPT ![t] = @ + 1]
      /\ cstack' = Append(cstack, Activation(t, k, Len(frames), t))
      /\ ci' = [ci EXCEPT ![t] = IF overflow THEN frames ELSE Append(frames, Frame("lua"))]
      /\ raising' = IF overflow THEN "ERRRUN" ELSE "no"
      /\ UNCHANGED <<status, values, ended>>

\* The firmware calls Lua.
PCallFromMain == cstack = <<>> /\ EnterCall(Main, <<>>, "pcall")

CallLua(t) ==
  /\ InLua(t) /\ Room(t)
  /\ ci' = [ci EXCEPT ![t] = Append(@, Frame("lua"))]
  /\ UNCHANGED <<status, nny, nCcalls, values, cstack, raising, ended>>

\* A metamethod, and a C function that calls back without a continuation.
CallMetamethod(t) == InLua(t) /\ Room(t) /\ EnterCall(t, ci[t], "call")
CallSort(t) == InLua(t) /\ Room(t) /\ EnterCall(t, Append(ci[t], Frame("sort")), "callnoyield")

\* Where a yield is possible pcall does without a jump of its own: an error finds
\* its frame by the flag.
lua_pcallk(t) ==
  /\ InLua(t) /\ Room(t)
  /\ IF nny[t] > 0 THEN EnterCall(t, Append(ci[t], Frame("pcall")), "pcall")
     ELSE EnterCall(t, Append(ci[t], [kind |-> "pcall", ypcall |-> TRUE]), "call")

-----------------------------------------------------------------------------
\* The end of the lua_resume in place i of the stack of C: the resumer goes on, or
\* fails with coroutine.wrap.
EndResume(i, failed) ==
  LET act == cstack[i]
      from == act.from
  IN  /\ cstack' = SubSeq(cstack, 1, i - 1)
      /\ nny' = [nny EXCEPT ![act.t] = act.nny]
      /\ nCcalls' = [nCcalls EXCEPT ![act.t] = act.nCcalls - 1]
      /\ raising' = IF failed /\ Last(ci[from]).kind = "wrap" THEN "ERRRUN" ELSE "no"

\* The running function returns: to Lua, to the C function that called it, to the
\* continuation of one that was cut off (unroll), or out of the thread.
Return(t) ==
  /\ InLua(t)
  /\ LET below == Up(t)
         act == Last(cstack)
         called == act.t = t /\ act.k # "resume" /\ act.ci = below
         rest == SubSeq(ci[t], 1, IF below > 0 /\ ci[t][below].kind \in CFunctions THEN below - 1 ELSE below)
     IN  IF below = 0 /\ t # Main
         THEN /\ ci' = [ci EXCEPT ![t] = <<>>, ![act.from] = SubSeq(@, 1, Len(@) - 1)]
              /\ values' = [values EXCEPT ![t] = FALSE]
              /\ ended' = ended \cup {t}
              /\ EndResume(Len(cstack), FALSE) /\ UNCHANGED status
         ELSE /\ ci' = [ci EXCEPT ![t] = rest]
              /\ cstack' = IF called THEN SubSeq(cstack, 1, Len(cstack) - 1) ELSE cstack
              /\ nCcalls' = IF called THEN [nCcalls EXCEPT ![t] = @ - 1] ELSE nCcalls
              /\ nny' = IF called /\ act.k # "call" THEN [nny EXCEPT ![t] = @ - 1] ELSE nny
              /\ UNCHANGED <<status, values, raising, ended>>

Error(t) ==
  /\ InLua(t) /\ raising' = "ERRRUN"
  /\ UNCHANGED <<ci, status, nny, nCcalls, values, cstack, ended>>

\* Mutant: a yield is allowed everywhere.
lua_yieldk_Anywhere(t) ==
  /\ InLua(t) /\ t # Main
  /\ raising' = "YIELD" /\ status' = [status EXCEPT ![t] = "YIELD"]
  /\ ci' = [ci EXCEPT ![t] = Append(@, Frame("yield"))]
  /\ UNCHANGED <<nny, nCcalls, values, cstack, ended>>
lua_yieldk(t) ==
  /\ InLua(t)
  /\ IF nny[t] > 0 THEN raising' = "ERRRUN" /\ UNCHANGED status
     ELSE raising' = "YIELD" /\ status' = [status EXCEPT ![t] = "YIELD"]
  /\ ci' = [ci EXCEPT ![t] = Append(@, Frame("yield"))]
  /\ UNCHANGED <<nny, nCcalls, values, cstack, ended>>

\* luaD_throw: out of everything that the thread does above the innermost place to
\* jump to, a protected call from C or the call that resumed the thread.
Target == Max({j \in DOMAIN cstack : cstack[j].t = Running /\ cstack[j].k \in {"pcall", "resume"}})
ThrowToPcall ==
  /\ raising # "no" /\ cstack[Target].k = "pcall"
  /\ LET act == cstack[Target]
     IN  /\ cstack' = SubSeq(cstack, 1, Target - 1)
         /\ ci' = [ci EXCEPT ![act.t] = SubSeq(@, 1, IF act.ci = 0 THEN 0 ELSE act.ci - 1)]
         /\ nny' = [nny EXCEPT ![act.t] = act.nny]
         /\ nCcalls' = [nCcalls EXCEPT ![act.t] = act.nCcalls]
         /\ raising' = "no"
         /\ UNCHANGED <<status, values, ended>>

findpcall(t) == {d \in DOMAIN ci[t] : ci[t][d].ypcall}
\* In lua_resume: an error goes to the pcall that recover finds, whose continuation
\* returns to its caller at once; without one it ends the thread.
ThrowToResume ==
  /\ raising # "no" /\ cstack[Target].k = "resume"
  /\ LET act == cstack[Target]
         t == act.t
         from == SubSeq(ci[act.from], 1, Len(ci[act.from]) - 1)
     IN  IF errorstatus(raising) /\ findpcall(t) # {}
         THEN /\ cstack' = SubSeq(cstack, 1, Target)
              /\ ci' = [ci EXCEPT ![t] = SubSeq(@, 1, Max(findpcall(t)) - 1)]
              /\ nny' = [nny EXCEPT ![t] = 0]
              /\ nCcalls' = [nCcalls EXCEPT ![t] = act.nCcalls]
              /\ raising' = "no" /\ UNCHANGED <<status, values, ended>>
         ELSE /\ EndResume(Target, errorstatus(raising))
              /\ ci' = [ci EXCEPT ![act.from] = from]
              /\ status' = [status EXCEPT ![t] = raising]
              /\ ended' = IF errorstatus(raising) THEN ended \cup {t} ELSE ended
              /\ UNCHANGED values

-----------------------------------------------------------------------------
\* coroutine.create: a thread with its function on the stack.
luaB_cocreate(t, co) ==
  /\ InLua(t) /\ ~values[co] /\ co \notin ended /\ ci[co] = <<>>
  /\ values' = [values EXCEPT ![co] = TRUE]
  /\ UNCHANGED <<ci, status, nny, nCcalls, cstack, raising, ended>>

\* The values that co has in its running function, or at its base.
gettop(co) == ci[co] # <<>> \/ values[co]
Refused(t, co) ==
  \/ status[co] = "OK" /\ (~gettop(co) \/ ci[co] # <<>>)
  \/ errorstatus(status[co])
  \/ nCcalls[t] + 1 >= LUAI_MAXCCALLS

\* auxresume for coroutine.resume or for the function that coroutine.wrap returns.
auxresume(t, co, kind) ==
  /\ InLua(t) /\ Room(t)
  /\ values[co] \/ ci[co] # <<>> \/ co \in ended
  /\ IF Refused(t, co)
     THEN /\ raising' = IF kind = "wrap" THEN "ERRRUN" ELSE "no"
          /\ UNCHANGED <<ci, status, nny, nCcalls, values, cstack, ended>>
     ELSE /\ ci' = [ci EXCEPT ![t] = Append(@, Frame(kind)),
                              ![co] = IF status[co] = "OK" THEN <<Frame("lua")>>
                                      ELSE SubSeq(@, 1, Len(@) - 1)]
          /\ status' = [status EXCEPT ![co] = "OK"]
          /\ nCcalls' = [nCcalls EXCEPT ![co] = nCcalls[t] + 1]
          /\ nny' = [nny EXCEPT ![co] = 0]
          /\ cstack' = Append(cstack, [Activation(co, "resume", 0, t) EXCEPT !.nCcalls = nCcalls[t] + 1])
          /\ UNCHANGED <<values, raising, ended>>

luaB_costatus(t, co) ==
  IF t = co THEN "running"
  ELSE IF status[co] = "YIELD" THEN "suspended"
  ELSE IF errorstatus(status[co]) THEN "dead"
  ELSE IF ci[co] # <<>> THEN "normal"
  ELSE IF values[co] THEN "suspended" ELSE "dead"

Next ==
  \/ PCallFromMain
  \/ \E t \in Threads :
       \/ CallLua(t) \/ CallMetamethod(t) \/ CallSort(t) \/ lua_pcallk(t)
       \/ Return(t) \/ Error(t) \/ lua_yieldk(t)
       \/ \E co \in Coroutines :
            luaB_cocreate(t, co) \/ auxresume(t, co, "resume") \/ auxresume(t, co, "wrap")
  \/ ThrowToPcall \/ ThrowToResume

Spec == Init /\ [][Next]_vars

-----------------------------------------------------------------------------
Of(t) == {j \in DOMAIN cstack : cstack[j].t = t}
InChain(t) == Of(t) # {}

\* The counters that guard the stack of C are exact for every thread that runs or
\* waits for one that it resumed, whatever errors and yields jumped over: calls
\* from C, and calls that cannot be yielded across.
CountersExact ==
  \A t \in Threads :
    InChain(t) =>
      /\ nCcalls[t] = Max(Of(t)) /\ nCcalls[t] <= LUAI_MAXCCALLS
      /\ nny[t] = Cardinality({j \in Of(t) : cstack[j].k \in {"pcall", "callnoyield"}})
                    + (IF t = Main THEN 1 ELSE 0)

\* What a frame waits for is there: a C function without a continuation still runs
\* on the stack of C, every pcall in progress can be found, by a jump or by its
\* flag, and a yield jumps to the call that resumed its coroutine.
FramesBacked ==
  /\ \A t \in Threads \ ended : \A d \in DOMAIN ci[t] :
       LET Called(k) == \E j \in Of(t) : cstack[j].k = k /\ cstack[j].ci = d
       IN  /\ ci[t][d].kind = "sort" => Called("callnoyield")
           /\ ci[t][d].kind = "pcall" => ci[t][d].ypcall \/ Called("pcall")
  /\ raising = "YIELD" => cstack[Target].k = "resume"

\* What coroutine.status says is so.
StatusExact ==
  cstack # <<>> /\ raising = "no" =>
    \A co \in {c \in Coroutines : values[c] \/ c \in ended} :
      luaB_costatus(Running, co) =
        IF co = Running THEN "running" ELSE IF InChain(co) THEN "normal"
        ELSE IF co \in ended THEN "dead" ELSE "suspended"

\* An error is caught by the innermost pcall of its thread and takes away just what
\* was called in it; without a pcall it ends its thread and no other.
ErrorsToInnermost ==
  raising = "ERRRUN" =>
    LET t == Running
        pcalls == {d \in DOMAIN ci[t] : ci[t][d].kind = "pcall"}
    IN  IF pcalls # {} THEN ci'[t] = SubSeq(ci[t], 1, Max(pcalls) - 1) /\ Last(cstack').t = t
        ELSE IF t = Main THEN cstack' = <<>> ELSE ended' = ended \cup {t} /\ t # Last(cstack').t

CoroutinesInv == CountersExact /\ FramesBacked /\ StatusExact
CoroutinesSound == []CoroutinesInv /\ [][ErrorsToInnermost]_vars
=============================================================================

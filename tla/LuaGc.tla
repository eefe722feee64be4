------------------------------- MODULE LuaGc --------------------------------
(***************************************************************************)
(* Lua's incremental collector (lgc.c) between the steps of a program that *)
(* makes, links and drops objects.  Colours are relative to the current    *)
(* white: "dead" is the other white of the code, so that flipping the      *)
(* whites turns what is white into what is dead.  An entry of an object is *)
(* a pair of a key and a value; NoObject as value is an empty entry, NoObject as key *)
(* one that is no object.                                                  *)
(***************************************************************************)
EXTENDS Integers, Sequences, FiniteSets, SequencesExt

CONSTANTS
  Tables, Closures, Userdata, StringObjs,   \* objects by type
  Registry,      \* the table that is always reachable
  Main, NoObject,     \* the main thread; no object
  Slots,         \* entries of an object
  Keys,          \* the objects that are used as keys
  Modes,         \* the __mode of the metatables in use: subsets of {"k", "v"}
  GCSWEEPMAX,
  MaxStack,      \* bound on the values the program holds
  Full           \* TRUE if the program may ask for full collections

Objects == Tables \cup Closures \cup Userdata \cup StringObjs
Lists == {"allgc", "finobj", "tobefnz"}

\* What the constants have to satisfy: an object has one type, and the names of
\* lists, the main thread and "no object" are no objects.
LuaGcAssumption ==
  /\ Registry \in Tables /\ GCSWEEPMAX \in Nat \ {0} /\ MaxStack \in Nat
  /\ Keys \subseteq Objects
  /\ Modes \subseteq SUBSET {"k", "v"} /\ {} \in Modes /\ Full \in BOOLEAN
  /\ Tables \cap (Closures \cup Userdata \cup StringObjs) = {}
  /\ StringObjs \cap (Closures \cup Userdata) = {} /\ Closures \cap Userdata = {}
  /\ Objects \cap (Lists \cup {Main, NoObject, "null"}) = {}

VARIABLES
  color,     \* "free" or a colour, of each object
  entry,     \* what each object refers to
  mode,      \* the weakness of each table's metatable
  stack,     \* the values the program holds
  lists,     \* g->allgc, g->finobj, g->tobefnz
  gray, grayagain, allweak,   \* the lists of gray objects
  gcstate,
  sweepgc,   \* "null", a list (its header), or the object whose next it is
  full,      \* pauses until a full collection is over
  emergency

heap == <<color, entry, mode>>
work == <<gray, grayagain, allweak>>
control == <<gcstate, sweepgc, full, emergency>>
vars == <<heap, stack, lists, work, control>>

Allocated(col) == {o \in Objects : col[o] # "free"}
White(col)     == {o \in Objects : col[o] = "white"}
Marked(col)    == {o \in Objects : col[o] \in {"gray", "black"}}
Listed(l)      == ToSet(lists[l])
issweepphase   == gcstate \in Lists \cup {"swpend"}
keepinvariant  == gcstate \in {"propagate", "atomic"}

Empty == <<NoObject, NoObject>>
Entries(e, o) == {e[o][i] : i \in Slots} \ {Empty}
Refs(e, o) == (UNION {{p[1], p[2]} : p \in Entries(e, o)}) \ {NoObject}

TypeOK ==
  /\ color \in [Objects -> {"free", "white", "dead", "gray", "black"}]
  /\ entry \in [Objects -> [Slots -> (Objects \cup {NoObject}) \X (Objects \cup {NoObject})]]
  /\ mode \in [Objects -> SUBSET {"k", "v"}]
  /\ stack \subseteq Allocated(color)
  /\ lists \in [Lists -> Seq(Objects)]
  /\ gray \subseteq Objects \cup {Main} /\ grayagain \subseteq Objects \cup {Main}
  /\ allweak \subseteq Tables
  /\ gcstate \in Lists \cup {"pause", "propagate", "atomic", "swpend", "callfin"}
  /\ sweepgc \in Objects \cup Lists \cup {"null"}
  /\ full \in 0..2 /\ emergency \in BOOLEAN

Init ==
  /\ color = [o \in Objects |-> IF o = Registry THEN "white" ELSE "free"]
  /\ entry = [o \in Objects |-> [i \in Slots |-> Empty]]
  /\ mode = [o \in Objects |-> {}]
  /\ stack = {} /\ lists = [l \in Lists |-> IF l = "allgc" THEN <<Registry>> ELSE <<>>]
  /\ gray = {} /\ grayagain = {} /\ allweak = {}
  /\ gcstate = "pause" /\ sweepgc = "null" /\ full = 0 /\ emergency = FALSE

-----------------------------------------------------------------------------
\* What a visit to o marks when the objects of C are marked: all of a strong
\* object; of a weak table the other side of each entry, for an ephemeron only
\* if its key is marked; strings are never weak (iscleared).
Mode(o) == IF o \in allweak THEN {"k", "v"} ELSE mode[o]
Stays(x, C) == x \in C \cup StringObjs \cup {NoObject}
MarksKey(o, p)    == "k" \notin Mode(o) \/ p[1] \in StringObjs
MarksValue(o, p, C) ==
  \/ p[2] \in StringObjs /\ ("v" \in Mode(o) \/ Stays(p[1], C))
  \/ "v" \notin Mode(o) /\ ("k" \in Mode(o) => Stays(p[1], C))
Marks(o, C) ==
  ({p[1] : p \in {q \in Entries(entry, o) : MarksKey(o, q)}}
    \cup {p[2] : p \in {q \in Entries(entry, o) : MarksValue(o, q, C)}}) \ {NoObject}

\* The least set that has S and what visits to those of its objects in T mark.
Spread(S, T) ==
  {o \in Objects :
     \A C \in SUBSET Objects :
       (S \subseteq C /\ \A x \in C \cap T : Marks(x, C) \subseteq C) => o \in C}

\* reallymarkobject on each white object of S: strings and userdata turn black
\* at once, userdata with what they refer to; the others are gray and listed.
NewlyMarked(S) == Spread(S \cap White(color), Userdata \cap White(color)) \cap White(color)
Paint(S) ==
  LET new == NewlyMarked(S)
  IN  [o \in Objects |-> IF o \notin new THEN color[o]
                         ELSE IF o \in StringObjs \cup Userdata THEN "black" ELSE "gray"]
Queued(S) == NewlyMarked(S) \ (StringObjs \cup Userdata)

-----------------------------------------------------------------------------
\* The objects of a list that are in K, in their order (a recursive function, so
\* that the provers can work with it).
Keep(s, K) ==
  LET kept[n \in 0..Len(s)] ==
        IF n = 0 THEN <<>>
        ELSE IF s[n] \in K THEN Append(kept[n - 1], s[n]) ELSE kept[n - 1]
  IN  kept[Len(s)]

\* sweeplist: at most n objects from the pointer on; the dead leave the list
\* and the others turn white.  heapOf is [color, lists], the result has the
\* new pointer, too.
ListOf(ls, ptr) == IF ptr \in Lists THEN ptr ELSE CHOOSE l \in Lists : ptr \in ToSet(ls[l])
Position(ls, ptr) ==
  IF ptr \in Lists THEN 0
  ELSE CHOOSE i \in DOMAIN ls[ListOf(ls, ptr)] : ls[ListOf(ls, ptr)][i] = ptr
sweeplist(col, ls, ptr, n) ==
  LET l     == ListOf(ls, ptr)
      first == Position(ls, ptr)
      last  == IF first + n < Len(ls[l]) THEN first + n ELSE Len(ls[l])
      seen  == SubSeq(ls[l], first + 1, last)
      alive == Keep(seen, {o \in Objects : col[o] # "dead"})
  IN  [color |-> [o \in Objects |-> IF o \notin ToSet(seen) THEN col[o]
                                    ELSE IF col[o] = "dead" THEN "free" ELSE "white"],
       lists |-> [ls EXCEPT ![l] = SubSeq(@, 1, first) \o alive
                                     \o SubSeq(@, last + 1, Len(@))],
       sweepgc |-> IF last = Len(ls[l]) THEN "null"
                   ELSE IF alive = <<>> THEN ptr ELSE Last(alive)]

\* A freed object has no entries and no metatable.
Swept(r) ==
  /\ color' = r.color /\ lists' = r.lists /\ sweepgc' = r.sweepgc

Scrub(e, col) == [o \in Objects |-> IF col[o] = "free" THEN [i \in Slots |-> Empty] ELSE e[o]]
ScrubMode(col) == [o \in Objects |-> IF col[o] = "free" THEN {} ELSE mode[o]]

-----------------------------------------------------------------------------
\* The states of singlestep.

\* restartcollection
Restart ==
  /\ gcstate = "pause"
  /\ LET roots == {Registry} \cup Listed("tobefnz")
     IN  color' = Paint(roots) /\ gray' = Queued(roots) \cup {Main}
  /\ grayagain' = {} /\ allweak' = {}
  /\ gcstate' = "propagate"
  /\ UNCHANGED <<entry, mode, stack, lists, sweepgc, full, emergency>>

\* propagatemark: threads and weak tables stay gray, to be visited again.
Propagate ==
  /\ gcstate = "propagate"
  /\ \E o \in gray :
       LET weak  == o # Main /\ mode[o] # {}
           found == IF o = Main THEN stack
                    ELSE IF mode[o] = {"k", "v"} THEN {} ELSE Marks(o, Marked(color))
           painted == Paint(found)
       IN  /\ gray' = (gray \ {o}) \cup Queued(found)
           /\ color' = [x \in Objects |-> IF x = o /\ ~weak THEN "black" ELSE painted[x]]
           /\ grayagain' = IF o = Main \/ (weak /\ mode[o] # {"k", "v"})
                           THEN grayagain \cup {o} ELSE grayagain
           /\ allweak' = IF weak /\ mode[o] = {"k", "v"} THEN allweak \cup {o} ELSE allweak
  /\ gcstate' = IF gray' = {} THEN "atomic" ELSE "propagate"
  /\ UNCHANGED <<entry, mode, stack, lists, sweepgc, full, emergency>>

\* The parts of atomic: what is marked again at the start; the objects with
\* finalizers that are left unmarked; the entries that go, given what was marked
\* before and after these came back.
Roots == stack \cup {Registry}

\* Mutant: the reachable ones are taken, too.
Separated_All(M) == lists["finobj"]
Separated(M) == Keep(lists["finobj"], Objects \ M)

Cleared(o, p, M1, M2) ==
  \/ "k" \in Mode(o) /\ ~Stays(p[1], M2)
  \/ "v" \in Mode(o) /\ p[2] \notin IF o \in M1 THEN M1 ELSE M2

\* atomic: visits everything white or gray that is reached, clears weak values,
\* takes the unmarked objects with finalizers apart and marks them, clears weak
\* keys and the values of tables that came back, flips the white.
Atomic ==
  /\ gcstate = "atomic"
  /\ LET visits == White(color) \cup gray \cup grayagain \cup allweak
         M1   == Spread(Marked(color) \cup Roots, visits)
         lost == Separated(M1)
         M2   == Spread(M1 \cup ToSet(lost), visits)
         flipped == [o \in Objects |->
                       IF color[o] = "free" THEN "free" ELSE IF o \notin M2 THEN "dead"
                       ELSE IF o \in visits /\ Mode(o) # {} THEN "gray" ELSE "black"]
         kept == [o \in Objects |-> [i \in Slots |->
                    IF o \in visits \cap M2 /\ Cleared(o, entry[o][i], M1, M2)
                    THEN Empty ELSE entry[o][i]]]
         swept == sweeplist(flipped,
                    [lists EXCEPT !["finobj"] = Keep(@, Objects \ ToSet(lost)),
                                  !["tobefnz"] = @ \o lost], "allgc", 1)
     IN  /\ Swept(swept)                     \* entersweep
         /\ entry' = Scrub(kept, swept.color) /\ mode' = ScrubMode(swept.color)
  /\ gcstate' = "allgc" /\ gray' = {} /\ grayagain' = {} /\ allweak' = {}
  /\ UNCHANGED <<stack, full, emergency>>

\* sweepstep
NextSweep == [allgc |-> "finobj", finobj |-> "tobefnz", tobefnz |-> "swpend"]
Sweep ==
  /\ gcstate \in Lists
  /\ LET r    == IF sweepgc = "null" THEN [color |-> color, lists |-> lists, sweepgc |-> "null"]
                 ELSE sweeplist(color, lists, sweepgc, GCSWEEPMAX)
         done == r.sweepgc = "null"
         next == NextSweep[gcstate]
     IN  /\ color' = r.color /\ lists' = r.lists
         /\ entry' = Scrub(entry, r.color) /\ mode' = ScrubMode(r.color)
         /\ gcstate' = IF done THEN next ELSE gcstate
         /\ sweepgc' = IF done THEN (IF next \in Lists THEN next ELSE "null") ELSE r.sweepgc
  /\ UNCHANGED <<stack, work, full, emergency>>

EndSweep ==
  /\ gcstate = "swpend" /\ gcstate' = "callfin"
  /\ UNCHANGED <<heap, stack, lists, work, sweepgc, full, emergency>>

\* The cycle ends when no finalizer is left, or at once in an emergency.
EndCycle ==
  /\ gcstate = "callfin" /\ (lists["tobefnz"] = <<>> \/ emergency)
  /\ gcstate' = "pause"
  /\ full' = IF full > 0 THEN full - 1 ELSE 0
  /\ emergency' = (emergency /\ full' > 0)
  /\ UNCHANGED <<heap, stack, lists, work, sweepgc>>

singlestep == Restart \/ Propagate \/ Atomic \/ Sweep \/ EndSweep \/ EndCycle

\* luaC_fullgc: a marking under way is given up by sweeping with the white that
\* it began with.
FullGC(isemergency) ==
  /\ Full /\ full = 0
  /\ emergency' = isemergency
  /\ full' = IF gcstate = "pause" THEN 1 ELSE 2
  /\ IF keepinvariant
     THEN /\ Swept(sweeplist(color, lists, "allgc", 1)) /\ gcstate' = "allgc"
          /\ gray' = {} /\ grayagain' = {} /\ allweak' = {}
     ELSE UNCHANGED <<color, lists, sweepgc, gcstate, work>>
  /\ UNCHANGED <<entry, mode, stack>>

-----------------------------------------------------------------------------
\* The program; it stands still during a full collection, but for finalizers.
Running == full = 0 \/ (gcstate = "callfin" /\ ~emergency)
Held == stack \cup {Registry}
Takes(o) == stack' = stack \cup {o} /\ Cardinality(stack \cup {o}) <= MaxStack

\* GCTM and udata2finalize: the first object to be finalized goes back to the
\* other objects and its finalizer gets it.
CallFinalizer ==
  /\ lists["tobefnz"] # <<>> /\ gcstate # "pause" /\ Running
  /\ LET o == Head(lists["tobefnz"])
     IN  /\ Takes(o)
         /\ lists' = [lists EXCEPT !["tobefnz"] = Tail(@), !["allgc"] = <<o>> \o @]
         /\ color' = IF issweepphase THEN [color EXCEPT ![o] = "white"] ELSE color
  /\ UNCHANGED <<entry, mode, work, control>>

luaC_newobj(o) ==
  /\ Running /\ color[o] = "free" /\ Takes(o)
  /\ color' = [color EXCEPT ![o] = "white"]
  /\ lists' = [lists EXCEPT !["allgc"] = <<o>> \o @]
  /\ UNCHANGED <<entry, mode, work, control>>

\* internshrstr finds a string that is still in the string table.
FindString(o) ==
  /\ Running /\ o \in StringObjs /\ color[o] # "free" /\ o \notin stack /\ Takes(o)
  /\ color' = IF color[o] = "dead" THEN [color EXCEPT ![o] = "white"] ELSE color
  /\ UNCHANGED <<entry, mode, lists, work, control>>

GetField(o) ==
  /\ Running
  /\ \E x \in Refs(entry, o) : x \notin stack /\ Takes(x)
  /\ UNCHANGED <<heap, lists, work, control>>

Pop(o) == Running /\ stack' = stack \ {o} /\ UNCHANGED <<heap, lists, work, control>>

\* The barriers: a black table turns gray again; for other black objects the new
\* value is marked, or in the sweep phase the object turned white.  Mutant: none.
barrier_Never(o, x) == UNCHANGED <<color, work>>
barrierback(o, xs) ==
  IF color[o] = "black" /\ xs \cap White(color) # {}
  THEN /\ color' = [color EXCEPT ![o] = "gray"] /\ grayagain' = grayagain \cup {o}
       /\ UNCHANGED <<gray, allweak>>
  ELSE UNCHANGED <<color, work>>
barrier(o, x) ==
  IF color[o] # "black" \/ x \notin White(color) THEN UNCHANGED <<color, work>>
  ELSE IF keepinvariant
  THEN color' = Paint({x}) /\ gray' = gray \cup Queued({x}) /\ UNCHANGED <<grayagain, allweak>>
  ELSE color' = [color EXCEPT ![o] = "white"] /\ UNCHANGED work

\* t[k] = v; a new key takes a free slot.
SetTable(t, k, v) ==
  /\ Running
  /\ \E i \in Slots :
       /\ entry[t][i] = Empty => \A j \in Slots : k = NoObject \/ entry[t][j][1] # k
       /\ entry[t][i] # Empty => entry[t][i][1] = k
       /\ entry[t][i][2] # v
       /\ entry' = [entry EXCEPT ![t][i] = IF v = NoObject THEN Empty ELSE <<k, v>>]
  /\ IF v = NoObject THEN UNCHANGED <<color, work>> ELSE barrierback(t, {k, v} \ {NoObject})
  /\ UNCHANGED <<mode, stack, lists, control>>

\* lua_setupvalue of a closure, lua_setuservalue of a userdata.
SetValue(o, v) ==
  /\ Running /\ \E i \in Slots : entry[o][i][2] # v /\ entry' = [entry EXCEPT ![o][i] = <<NoObject, v>>]
  /\ barrier(o, v)
  /\ UNCHANGED <<mode, stack, lists, control>>

\* lua_setmetatable with a __mode.
SetMode(t, m) ==
  /\ Running /\ mode[t] # m /\ mode' = [mode EXCEPT ![t] = m]
  /\ UNCHANGED <<color, entry, stack, lists, work, control>>

\* luaC_checkfinalizer, called by lua_setmetatable with a __gc: o goes to the
\* objects with finalizers; a sweep that stands behind it goes on to the next
\* object that stays (sweeptolive).
luaC_checkfinalizer(o) ==
  /\ Running /\ o \in Listed("allgc")
  /\ LET col   == IF issweepphase THEN [color EXCEPT ![o] = "white"] ELSE color
         rest  == SubSeq(lists["allgc"], Position(lists, o) + 1, Len(lists["allgc"]))
         dying == {n \in DOMAIN rest : \A i \in 1..n : col[rest[i]] = "dead"}
         r == IF issweepphase /\ sweepgc = o
              THEN sweeplist(col, lists, o, Cardinality(dying) + 1)
              ELSE [color |-> col, lists |-> lists, sweepgc |-> sweepgc]
     IN  /\ color' = r.color /\ sweepgc' = r.sweepgc
         /\ lists' = [r.lists EXCEPT !["allgc"] = RemoveAt(@, Position(lists, o)),
                                     !["finobj"] = <<o>> \o @]
         /\ entry' = Scrub(entry, r.color) /\ mode' = ScrubMode(r.color)
  /\ UNCHANGED <<stack, work, gcstate, full, emergency>>

Mutate ==
  \/ \E o \in Objects : luaC_newobj(o) \/ FindString(o)
  \/ \E o \in Held : GetField(o)
  \/ \E o \in stack : Pop(o)
  \/ \E t \in Held \cap Tables, k \in (stack \cap Keys) \cup {NoObject}, v \in stack \cup {NoObject} : SetTable(t, k, v)
  \/ \E o \in stack \cap (Closures \cup Userdata), v \in stack : SetValue(o, v)
  \/ \E t \in Held \cap Tables, m \in Modes : SetMode(t, m)
  \/ \E o \in stack \cap Userdata : luaC_checkfinalizer(o)

Next == singlestep \/ CallFinalizer \/ Mutate
          \/ \E isemergency \in BOOLEAN : FullGC(isemergency)

Spec == Init /\ [][Next]_vars

-----------------------------------------------------------------------------
\* What holds its memory: what is reached through strong references.
Reachable == Spread(Held, Objects)

\* The program never meets a freed object, however its stores, its strings found
\* again, its weak tables and its finalizers fall between the collector's steps.
NoDangling ==
  \E C \in SUBSET Allocated(color) :
    Held \cup Listed("tobefnz") \subseteq C /\ \A o \in C : Refs(entry, o) \subseteq C

\* lgc.h: while marking, a black object never points to a white one, and a gray
\* one is on a list to be visited again.
TriColor ==
  keepinvariant =>
    /\ \A o \in Objects : color[o] = "black" => Refs(entry, o) \cap White(color) = {}
    /\ \A o \in Objects : color[o] = "gray" => o \in gray \cup grayagain \cup allweak

\* lgc.h: when the sweep ends all objects are white again, and stay so until the
\* next cycle begins.
AllWhite == gcstate \in {"callfin", "pause"} => Allocated(color) = White(color)

\* The two invariants of lgc.h under which a step of the collector may stop and
\* the program go on: the colours of a cycle are sound, and the next cycle finds
\* none of them.
ColorsSound == TriColor /\ AllWhite

\* An object with a finalizer is not freed before its finalizer was called, and
\* none is called for an object that the program still reaches when the cycle
\* closes.
FinalizerStep ==
  \A o \in Objects :
    /\ color[o] # "free" /\ color'[o] = "free" => o \in Listed("allgc")
    /\ Atomic /\ o \in ToSet(lists'["tobefnz"]) \ Listed("tobefnz") => o \notin Reachable

\* A weak entry goes only if one of its own sides is not reachable otherwise: the
\* others of its table stay as they are.
WeakStep ==
  Atomic => \A t \in Reachable : \A i \in Slots :
    entry[t][i] # Empty /\ {entry[t][i][1], entry[t][i][2]} \ {NoObject} \subseteq Reachable
      => entry'[t][i] = entry[t][i]
=============================================================================

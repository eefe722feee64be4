------------------------------- MODULE LuaTable -------------------------------
(***************************************************************************)
(* The tables of Lua (ltable.c): an array part for the integers 1, 2, ...  *)
(* and a hash part of nodes chained by collisions, which grows when no     *)
(* free node is left.  keybow.lua keeps its key maps and its callbacks in  *)
(* them.  A key is an integer or a name; the hash of a name is arbitrary.  *)
(* Node numbers start at 1, and 0 ends a chain.                            *)
(***************************************************************************)
EXTENDS Integers, Sequences, FiniteSets, FiniteSetsExt, SequencesExt

CONSTANTS
  IntKeys, StrKeys, HashOf,  \* the keys assigned to; the hash of each name
  NIL, SomeValue,              \* the values are NIL and SomeValue
  Presizes,                \* sizes a constructor asks for
  MaxSteps                 \* bound on assignments and collections

VARIABLES
  t,        \* the table
  map,      \* history: the value of each key according to the assignments
  walk,     \* a traversal with next: [key, seen, due], or NoWalk
  steps

vars == <<t, map, walk, steps>>

Keys == IntKeys \cup StrKeys
NoWalk == [on |-> FALSE, key |-> NIL, seen |-> <<>>, due |-> {}]

\* The smallest power of two that is at least n.
RECURSIVE TwoTo(_, _)
TwoTo(p, n) == IF p >= n THEN p ELSE TwoTo(2 * p, n)

FreeNode == [key |-> NIL, val |-> NIL, next |-> 0, dead |-> FALSE]
setnodevector(size) == [i \in 1..(IF size = 0 THEN 0 ELSE TwoTo(1, size)) |-> FreeNode]

\* luaH_new and luaH_resize of an empty table; without nodes the table uses the
\* common dummy node, that is never free.
New(nasize, nhsize) ==
  LET node == setnodevector(nhsize)
  IN  [array |-> [i \in 1..nasize |-> NIL], node |-> node, lastfree |-> Len(node) + 1]

InArray(tb, k) == k \in DOMAIN tb.array
mainposition(tb, k) == 1 + ((IF k \in StrKeys THEN HashOf[k] ELSE k) % Len(tb.node))

-----------------------------------------------------------------------------
(* Search *)

\* The nodes of the chain from n on, and the first one that is wanted, or 0.
RECURSIVE Chain(_, _)
Chain(node, n) == IF n = 0 THEN <<>> ELSE <<n>> \o Chain(node, node[n].next)
InChain(node, n, wanted) ==
  LET found == SelectSeq(Chain(node, n), LAMBDA i : i \in wanted)
  IN  IF found = <<>> THEN 0 ELSE Head(found)
Find(tb, k) ==
  IF tb.node = <<>> THEN 0
  ELSE InChain(tb.node, mainposition(tb, k), {i \in DOMAIN tb.node : tb.node[i].key = k /\ ~tb.node[i].dead})

luaH_get(tb, k) ==
  IF InArray(tb, k) THEN tb.array[k]
  ELSE IF Find(tb, k) = 0 THEN NIL ELSE tb.node[Find(tb, k)].val

-----------------------------------------------------------------------------
(* Insertion *)

\* The free node nearest below lastfree, or 0: nodes once passed are never
\* looked at again.
getfreepos(tb) ==
  LET free == {i \in 1..(tb.lastfree - 1) : tb.node[i].key = NIL}
  IN  IF free = {} THEN 0 ELSE Max(free)

Filled(n, k) == [n EXCEPT !.key = k, !.val = NIL, !.dead = FALSE]
Linked(node, n, to) == [node EXCEPT ![n].next = to]

\* Mutant: the chain of a moved node is not joined to its new place.
Move_Unlinked(node, othern, mp, f, k) ==
  [node EXCEPT ![f] = node[mp], ![mp] = Filled(FreeNode, k)]

\* The colliding node in mp is out of its main position othern: it moves to f,
\* the chain with it, and the key takes its place.
Move(node, othern, mp, f, k) ==
  LET previous == InChain(node, othern, {i \in DOMAIN node : node[i].next = mp})
  IN  [Linked(node, previous, f) EXCEPT ![f] = node[mp], ![mp] = Filled(FreeNode, k)]

\* luaH_newkey for a table with room: the key gets a node, with no value yet.
Place(tb, k) ==
  LET mp == mainposition(tb, k)
      f == getfreepos(tb)
      othern == mainposition(tb, tb.node[mp].key)
  IN  IF tb.node[mp].val = NIL
      THEN [tb EXCEPT !.node[mp] = Filled(@, k)]
      ELSE [tb EXCEPT !.lastfree = f,
              !.node = IF othern # mp THEN Move(@, othern, mp, f, k)
                       ELSE [@ EXCEPT ![f] = [Filled(FreeNode, k) EXCEPT !.next = tb.node[mp].next],
                                      ![mp].next = f]]
HasRoom(tb, k) ==
  /\ tb.node # <<>>
  /\ tb.node[mainposition(tb, k)].val = NIL \/ getfreepos(tb) # 0

-----------------------------------------------------------------------------
(* Rehash *)

\* The keys with a value, and the one to be added.
Present(tb) == {i \in DOMAIN tb.array : tb.array[i] # NIL}
                 \cup {n.key : n \in {x \in Range(tb.node) : x.val # NIL}}
Below(keys, n) == Cardinality({k \in keys \cap IntKeys : k \in 1..n})

\* computesizes: the largest power of two more than half of whose slots would be
\* used.
computesizes(keys) ==
  LET sizes == {2^i : i \in 0..4}
      good == {n \in sizes : Below(keys, n) > n \div 2}
  IN  IF good = {} THEN 0 ELSE Max(good)

RECURSIVE luaH_resize(_, _, _), luaH_set(_, _, _)

\* The entries of the array part beyond nasize, and those of the old hash part
\* from the last node to the first: what a resize inserts again.
Vanishing(tb, nasize) ==
  LET all == [i \in DOMAIN tb.array |-> [key |-> i, val |-> tb.array[i]]]
  IN  SelectSeq(SubSeq(all, nasize + 1, Len(all)), LAMBDA x : x.val # NIL)
OldNodes(tb) == SelectSeq(Reverse(tb.node), LAMBDA x : x.val # NIL)

luaH_resize(tb, nasize, nhsize) ==
  LET array == [i \in 1..nasize |-> IF i \in DOMAIN tb.array THEN tb.array[i] ELSE NIL]
      empty == [New(0, nhsize) EXCEPT !.array = array]
  IN  FoldLeft(LAMBDA new, x : luaH_set(new, x.key, x.val), empty,
               Vanishing(tb, nasize) \o OldNodes(tb))

rehash(tb, ek) ==
  LET keys == Present(tb) \cup {ek}
      asize == computesizes(keys)
  IN  luaH_resize(tb, asize, Cardinality(keys) - Below(keys, asize))

luaH_set(tb, k, v) ==
  IF InArray(tb, k) THEN [tb EXCEPT !.array[k] = v]
  ELSE IF Find(tb, k) # 0 THEN [tb EXCEPT !.node[Find(tb, k)].val = v]
  ELSE IF HasRoom(tb, k)
       THEN LET new == Place(tb, k) IN [new EXCEPT !.node[Find(new, k)].val = v]
       ELSE luaH_set(rehash(tb, k), k, v)

-----------------------------------------------------------------------------
(* Length and traversal *)

\* The boundary that binary search finds between i, present or 0, and j, absent.
RECURSIVE Search(_, _, _)
Search(tb, i, j) ==
  IF j - i <= 1 THEN i
  ELSE LET m == (i + j) \div 2
       IN  IF luaH_get(tb, m) = NIL THEN Search(tb, i, m) ELSE Search(tb, m, j)
RECURSIVE unbound_search(_, _, _)
unbound_search(tb, i, j) ==
  IF luaH_get(tb, j) # NIL THEN unbound_search(tb, j, 2 * j) ELSE Search(tb, i, j)

luaH_getn(tb) ==
  LET j == Len(tb.array)
  IN  IF j > 0 /\ tb.array[j] = NIL THEN Search(tb, 0, j)
      ELSE IF tb.node = <<>> THEN j
      ELSE unbound_search(tb, j, j + 1)

\* Where key stands in the order of a traversal, array before nodes; 0 for the
\* start, -1 when the key is not found.  A key that the collector has declared
\* dead still counts.
findindex(tb, key) ==
  IF key = NIL THEN 0
  ELSE IF InArray(tb, key) THEN key
  ELSE LET n == IF tb.node = <<>> THEN 0
                ELSE InChain(tb.node, mainposition(tb, key), {i \in DOMAIN tb.node : tb.node[i].key = key})
       IN  IF n = 0 THEN -1 ELSE Len(tb.array) + n

\* The entries in the order of a traversal.
Entries(tb) ==
  [i \in DOMAIN tb.array |-> [key |-> i, val |-> tb.array[i]]]
    \o [i \in DOMAIN tb.node |-> [key |-> tb.node[i].key, val |-> tb.node[i].val]]
luaH_next(tb, key) ==
  LET all == Entries(tb)
      more == {i \in DOMAIN all : i > findindex(tb, key) /\ all[i].val # NIL}
  IN  IF more = {} THEN NIL ELSE all[Min(more)].key

-----------------------------------------------------------------------------
Init ==
  /\ \E na, nh \in Presizes : t = New(na, nh)
  /\ map = [k \in Keys |-> NIL] /\ walk = NoWalk /\ steps = 0

Step == steps < MaxSteps /\ steps' = steps + 1

\* An assignment t[k] = v.  A traversal may assign to the fields there are, also
\* nil; what it finds after the assignment of a new field is not defined.
Assign(k, v) ==
  /\ Step
  /\ t' = luaH_set(t, k, v) /\ map' = [map EXCEPT ![k] = v]
  /\ walk' = IF walk.on /\ map[k] = NIL THEN NoWalk
             ELSE [walk EXCEPT !.due = IF v = NIL THEN @ \ {k} ELSE @]

\* The collector declares dead the names that are keys without a value and may
\* be gone.
Collect ==
  /\ Step
  /\ \E gone \in SUBSET StrKeys :
       t' = [t EXCEPT !.node = [i \in DOMAIN t.node |->
               IF t.node[i].val = NIL /\ t.node[i].key \in gone
               THEN [t.node[i] EXCEPT !.dead = TRUE] ELSE t.node[i]]]
  /\ t' # t /\ UNCHANGED <<map, walk>>

StartWalk ==
  /\ ~walk.on /\ steps > 0
  /\ walk' = [on |-> TRUE, key |-> NIL, seen |-> <<>>, due |-> {k \in Keys : map[k] # NIL}]
  /\ UNCHANGED <<t, map, steps>>
Next1 ==
  /\ walk.on /\ findindex(t, walk.key) >= 0
  /\ LET k == luaH_next(t, walk.key)
     IN  walk' = IF k = NIL THEN NoWalk
                 ELSE [walk EXCEPT !.key = k, !.seen = Append(@, k)]
  /\ UNCHANGED <<t, map, steps>>

Next == (\E k \in Keys, v \in {NIL, SomeValue} : Assign(k, v)) \/ Collect \/ StartWalk \/ Next1
Spec == Init /\ [][Next]_vars

-----------------------------------------------------------------------------
\* Through collisions, moves, rehashes and shrinking arrays a table stays the map
\* that the assignments made of it.
IsMap == \A k \in Keys : luaH_get(t, k) = map[k]

\* #t is a border: the element there is, the next one is not.
LengthIsBorder ==
  LET n == luaH_getn(t)
  IN  /\ n # 0 => n \in IntKeys /\ map[n] # NIL
      /\ n + 1 \in IntKeys => map[n + 1] = NIL

\* A traversal never loses its place, comes to no key twice, and has come to every
\* key still there when it ends - although fields are set to nil and their keys
\* collected meanwhile.
WalkExact ==
  walk.on => /\ findindex(t, walk.key) >= 0
             /\ IsInjective(walk.seen)
             /\ luaH_next(t, walk.key) = NIL => walk.due \subseteq Range(walk.seen)

TableSound == IsMap /\ LengthIsBorder /\ WalkExact
=============================================================================

------------------------------ MODULE LuaTableLib ------------------------------
(***************************************************************************)
(* The functions of the table library, ltablib.c.  A table is a function   *)
(* from the integers to values, with NIL where nothing is; its length is   *)
(* the border that the firmware's tables have, the number of the elements  *)
(* from 1 on.  A behaviour is one call.  The order that table.sort is      *)
(* given is any relation, as a program can pass any function.              *)
(***************************************************************************)
EXTENDS Integers, Sequences, FiniteSets, FiniteSetsExt, SequencesExt

CONSTANTS
  MAXINTEGER,      \* greatest integer; the least is -MAXINTEGER - 1
  MaxResults,      \* results that a function can return
  RANLIMIT,        \* from this size on the pivot may be random
  Imbalance,       \* partitions with more than 1 : Imbalance are out of balance
  Rnds,            \* what l_randomizePivot can return
  Lengths,         \* lengths of tables
  Positions,       \* integers that are passed
  SortTasks,       \* sequences and orders to sort: [a, lt]
  NIL, NewItem, Sep    \* no value, the value to insert, the separator

VARIABLES request, answer

vars == <<request, answer>>

MININTEGER == -MAXINTEGER - 1
Keys == MININTEGER..MAXINTEGER
Table(n) == [k \in Keys |-> IF 1 <= k /\ k <= n THEN <<k>> ELSE NIL]
Error == <<Sep>>
Ints(from, to) == [i \in 1..(IF to >= from THEN to - from + 1 ELSE 0) |-> from + i - 1]

\* lua_geti and lua_seti, one after the other.
Copy(t, to, from) == [t EXCEPT ![to] = t[from]]

tinsert(t, n, pos) ==
  LET e == n + 1
      up == FoldLeft(LAMBDA u, i : Copy(u, i, i - 1), t, Reverse(Ints(pos + 1, e)))
  IN  IF 1 <= pos /\ pos <= e THEN [up EXCEPT ![pos] = NewItem] ELSE Error

tremove(t, size, pos) ==
  LET down == FoldLeft(LAMBDA u, i : Copy(u, i, i + 1), t, Ints(pos, size - 1))
      last == IF pos < size THEN size ELSE pos
  IN  IF pos # size /\ ~(1 <= pos /\ pos <= size + 1) THEN Error
      ELSE [t |-> [down EXCEPT ![last] = NIL], v |-> t[pos]]

\* Within one table, upwards if that overwrites nothing that is still to be moved.
tmove(t, f, e, to) ==
  LET n == e - f + 1
      MoveOne(u, i) == Copy(u, to + i, f + i)
  IN  IF e < f THEN t
      ELSE IF ~(f > 0 \/ e < MAXINTEGER + f) \/ to > MAXINTEGER - n + 1 THEN Error
      ELSE FoldLeft(MoveOne, t, IF to > e \/ to <= f THEN Ints(0, n - 1) ELSE Reverse(Ints(0, n - 1)))

\* The fields i to last with the separator between them.
tconcat(t, i, last) ==
  IF \E k \in i..last : t[k] = NIL THEN Error
  ELSE FlattenSeq([j \in DOMAIN Ints(i, last) |-> IF i + j - 1 < last THEN t[i + j - 1] \o <<Sep>>
                                                  ELSE t[i + j - 1]])

pack(vs) == [k \in Keys |-> IF k \in DOMAIN vs THEN vs[k] ELSE NIL]
unpack(t, i, e) ==
  IF i > e THEN <<>>
  ELSE IF (e - i) % (2 * (MAXINTEGER + 1)) >= MaxResults THEN Error
  ELSE [j \in DOMAIN Ints(i, e) |-> t[i + j - 1]]

-----------------------------------------------------------------------------
\* table.sort: a is the sequence, lt the pairs <<x, y>> with x less than y.
set2(a, i, j) == [a EXCEPT ![i] = a[j], ![j] = a[i]]
choosePivot(lo, up, rnd) == LET r4 == (up - lo) \div 4 IN (rnd % (r4 * 2)) + lo + r4
InvalidOrder(a) == [a |-> a, p |-> 0]

RECURSIVE partition(_, _, _, _, _)
partition(a, lt, i, j, up) ==
  LET P == a[up - 1]
      is == {k \in (i + 1)..(up - 1) : <<a[k], P>> \notin lt}
      js == {k \in (Min(is \cup {j}) - 1)..(j - 1) : <<P, a[k]>> \notin lt}
  IN  IF is = {} \/ js = {} THEN InvalidOrder(a)
      ELSE IF Max(js) < Min(is) THEN [a |-> set2(a, up - 1, Min(is)), p |-> Min(is)]
      ELSE partition(set2(a, Min(is), Max(js)), lt, Min(is), Max(js), up)

\* The smallest, the greatest and the middle of three stand in order, and the
\* middle one, the pivot, moves to up - 1.
Ordered(a, lt, i, j) == IF <<a[j], a[i]>> \in lt THEN set2(a, i, j) ELSE a
Median(a, lt, lo, p, up) ==
  IF <<a[p], a[lo]>> \in lt THEN set2(a, p, lo) ELSE Ordered(a, lt, p, up)

RECURSIVE auxsort(_, _, _, _, _, _)
auxsort(a, lt, lo, up, rnd, seed) ==
  LET ends == Ordered(a, lt, lo, up)
      mid == IF up - lo < RANLIMIT \/ rnd = 0 THEN (lo + up) \div 2 ELSE choosePivot(lo, up, rnd)
      three == Median(ends, lt, lo, mid, up)
      split == partition(set2(three, mid, up - 1), lt, lo, up - 1, up)
      p == split.p
      n == IF p - lo < up - p THEN p - lo ELSE up - p
      first == IF p - lo < up - p THEN auxsort(split.a, lt, lo, p - 1, rnd, seed)
               ELSE auxsort(split.a, lt, p + 1, up, rnd, seed)
      lo2 == IF p - lo < up - p THEN p + 1 ELSE lo
      up2 == IF p - lo < up - p THEN up ELSE p - 1
  IN  IF lo >= up THEN [a |-> a, p |-> 1]
      ELSE IF up - lo = 1 THEN [a |-> ends, p |-> 1]
      ELSE IF up - lo = 2 THEN [a |-> three, p |-> 1]
      ELSE IF p = 0 \/ first.p = 0 THEN IF p = 0 THEN split ELSE first
      ELSE auxsort(first.a, lt, lo2, up2,
                   IF up2 > lo2 /\ (up2 - lo2) \div Imbalance > n THEN seed ELSE rnd, seed)
sort(a, lt, seed) == auxsort(a, lt, 1, Len(a), 0, seed)

-----------------------------------------------------------------------------
Init ==
  /\ request \in [op : {"insert", "remove"}, n : Lengths, pos : Positions]
               \cup [op : {"move"}, n : Lengths, f : Positions, e : Positions, to : Positions]
               \cup [op : {"concat", "unpack"}, n : Lengths, i : Positions, e : Positions]
               \cup [op : {"sort"}, task : SortTasks, seed : Rnds]
  /\ answer = NIL

Answer(op, r) == request.op = op /\ answer = NIL /\ answer' = <<r>> /\ UNCHANGED request
T0 == Table(request.n)
Insert == Answer("insert", tinsert(T0, request.n, request.pos))
Remove_ == Answer("remove", tremove(T0, request.n, request.pos))
Move == Answer("move", tmove(T0, request.f, request.e, request.to))
Concat == Answer("concat", tconcat(T0, request.i, request.e))
Unpack == Answer("unpack", unpack(T0, request.i, request.e))
Sort == Answer("sort", sort(request.task.a, request.task.lt, request.seed))

Next == Insert \/ Remove_ \/ Move \/ Concat \/ Unpack \/ Sort
Spec == Init /\ [][Next]_vars

-----------------------------------------------------------------------------
\* insert and remove shift what stands behind the position and nothing else; to
\* move within a table is to read everything first and then to write it; a range
\* is unpacked up to the greatest integer and packed again; and whatever is
\* refused leaves no trace.
RangesSound ==
  LET r == request
      a == answer[1]
  IN  /\ r.op = "insert" =>
           IF r.pos \in 1..(r.n + 1)
           THEN \A k \in Keys : a[k] = IF k < r.pos THEN T0[k] ELSE IF k = r.pos THEN NewItem
                                       ELSE IF k <= r.n + 1 THEN T0[k - 1] ELSE NIL
           ELSE a = Error
      /\ r.op = "remove" =>
           IF r.pos \in 1..(r.n + 1) \/ r.pos = r.n
           THEN /\ a.v = T0[r.pos]
                /\ \A k \in 1..(r.n - 1) : a.t[k] = T0[IF k < r.pos THEN k ELSE k + 1]
                /\ \A k \in Keys \ (1..(r.n - 1)) : a.t[k] = IF k = r.n /\ r.pos = r.n + 1 THEN T0[k] ELSE NIL
           ELSE a = Error
      /\ r.op = "move" =>
           IF r.e < r.f THEN a = T0
           ELSE IF r.e - r.f >= MAXINTEGER \/ r.to + (r.e - r.f) > MAXINTEGER THEN a = Error
           ELSE \A k \in Keys : a[k] = IF k \in r.to..(r.to + r.e - r.f) THEN T0[r.f + k - r.to] ELSE T0[k]
      /\ r.op = "unpack" =>
           IF r.e - r.i >= MaxResults THEN a = Error
           ELSE /\ Len(a) = Cardinality(r.i..r.e)
                /\ \A k \in r.i..r.e : pack(a)[k - r.i + 1] = T0[k]
      /\ r.op = "concat" =>
           IF a = Error THEN \E k \in r.i..r.e : T0[k] = NIL
           ELSE SelectSeq(a, LAMBDA c : c # Sep) = Ints(r.i, r.e)
                /\ Len(a) = Max({0, 2 * Cardinality(r.i..r.e) - 1})

\* A sort ends, also with an order that is none: then the sequence still has all
\* its elements.  With a strict weak order it has them in that order.
StrictWeak(lt, S) ==
  /\ \A x, y \in S : <<x, y>> \in lt => <<y, x>> \notin lt
  /\ \A x, y, z \in S : <<x, y>> \in lt => <<x, z>> \in lt \/ <<z, y>> \in lt
SortSound ==
  request.op = "sort" =>
    LET a == request.task.a
        lt == request.task.lt
        b == answer[1].a
    IN  /\ \A x \in ToSet(a) : Cardinality({i \in DOMAIN a : a[i] = x}) = Cardinality({i \in DOMAIN b : b[i] = x})
        /\ DOMAIN a = DOMAIN b
        /\ StrictWeak(lt, ToSet(a)) =>
             answer[1].p # 0 /\ \A i, j \in DOMAIN b : i < j => <<b[j], b[i]>> \notin lt

TableLibSound == answer # NIL => RangesSound /\ SortSound
=============================================================================

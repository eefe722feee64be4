------------------------------- MODULE LuaMatch -------------------------------
(***************************************************************************)
(* Pattern matching of lstrlib.c, which keybow.lua programs use to take    *)
(* text apart: the backtracking matcher and the two loops over all matches *)
(* (gmatch and gsub).  A pattern is a sequence of items, as match and      *)
(* classEnd cut it up; a set item matches the characters of its set, once  *)
(* ("1") or as its suffix says.  Positions count from 1, and 0 is NULL.    *)
(***************************************************************************)
EXTENDS Integers, Sequences, FiniteSets, FiniteSetsExt, SequencesExt

CONSTANTS
  Patterns,    \* the patterns, each well formed
  Subjects,    \* the subjects, sequences of characters
  NUL          \* what stands before and after the subject

VARIABLES
  pat, subj,        \* pattern and subject
  loop,             \* "gmatch", "gsub", or "^gsub" for an anchored pattern
  src, lastmatch,   \* where the loop looks next; end of the last match
  found,            \* history: the matches, as [s, e, capture]
  out,              \* gsub: the subject's characters copied or replaced so far
  over

vars == <<pat, subj, loop, src, lastmatch, found, out, over>>

CAP_UNFINISHED == -1
CAP_POSITION == -2

src_end == Len(subj) + 1
CharAt(s) == IF s \in DOMAIN subj THEN subj[s] ELSE NUL
singlematch(s, p) == s < src_end /\ subj[s] \in pat[p].set

\* The match state: captures up to level; those above are left from attempts
\* that failed.
reprepstate == [level |-> 0, capture |-> [i \in 1..Len(pat) |-> [init |-> 0, len |-> 0]]]
Fail(ms) == [e |-> 0, ms |-> ms]

capture_to_close(ms) == Max({i \in 1..ms.level : ms.capture[i].len = CAP_UNFINISHED})

\* The position after the character that closes what *s opens.
matchbalance(s, p) ==
  LET Of(c, e) == Cardinality({i \in s..e : subj[i] = c})
      ends == {e \in s..Len(subj) : subj[e] = pat[p].e /\ Of(pat[p].b, e) = Of(pat[p].e, e)}
  IN  IF CharAt(s) = pat[p].b /\ ends # {} THEN Min(ends) + 1 ELSE 0

Frontier(s, p) == CharAt(s - 1) \notin pat[p].set /\ CharAt(s) \in pat[p].set

\* The position after a copy of what capture l holds, or 0.
match_capture(ms, s, l) ==
  LET c == ms.capture[l]
      text == SubSeq(subj, c.init, c.init + c.len - 1)
  IN  IF IsPrefix(text, SubSeq(subj, s, Len(subj))) THEN s + c.len ELSE 0

RECURSIVE match(_, _, _), Retry(_, _, _, _), min_expand(_, _, _)

\* max_expand: as many repetitions as there are, then one less each time.
max_expand(ms, s, p) == Retry(ms, s, p, Min({i \in s..src_end : ~singlematch(i, p)}))
Retry(ms, s, p, i) ==
  IF i < s THEN Fail(ms)
  ELSE LET r == match(ms, i, p + 1) IN IF r.e # 0 THEN r ELSE Retry(r.ms, s, p, i - 1)

min_expand(ms, s, p) ==
  LET r == match(ms, s, p + 1)
  IN  IF r.e # 0 THEN r
      ELSE IF singlematch(s, p) THEN min_expand(r.ms, s + 1, p) ELSE r

\* A failed match takes its capture back.
start_capture(ms, s, p, what) ==
  LET level == ms.level + 1
      r == match([level |-> level, capture |-> [ms.capture EXCEPT ![level] =
                                                  [init |-> s, len |-> what]]], s, p + 1)
  IN  IF r.e # 0 THEN r ELSE Fail([r.ms EXCEPT !.level = @ - 1])

end_capture(ms, s, p) ==
  LET l == capture_to_close(ms)
      r == match([ms EXCEPT !.capture[l].len = s - ms.capture[l].init], s, p + 1)
  IN  IF r.e # 0 THEN r ELSE Fail([r.ms EXCEPT !.capture[l].len = CAP_UNFINISHED])

Then(ms, s, p) == IF s = 0 THEN Fail(ms) ELSE match(ms, s, p + 1)

\* A set item and its suffix.
Default(ms, s, p) ==
  LET rep == pat[p].rep
  IN  IF ~singlematch(s, p)
      THEN IF rep \in {"*", "?", "-"} THEN match(ms, s, p + 1) ELSE Fail(ms)
      ELSE CASE rep = "?" -> LET r == match(ms, s + 1, p + 1)
                             IN  IF r.e # 0 THEN r ELSE match(r.ms, s, p + 1)
             [] rep = "+" -> max_expand(ms, s + 1, p)
             [] rep = "*" -> max_expand(ms, s, p)
             [] rep = "-" -> min_expand(ms, s, p)
             [] OTHER -> match(ms, s + 1, p + 1)

match(ms, s, p) ==
  IF p > Len(pat) THEN [e |-> s, ms |-> ms]
  ELSE CASE pat[p].kind = "open" -> start_capture(ms, s, p, CAP_UNFINISHED)
         [] pat[p].kind = "position" -> start_capture(ms, s, p, CAP_POSITION)
         [] pat[p].kind = "close" -> end_capture(ms, s, p)
         [] pat[p].kind = "end" -> IF s = src_end THEN [e |-> s, ms |-> ms] ELSE Fail(ms)
         [] pat[p].kind = "balance" -> Then(ms, matchbalance(s, p), p)
         [] pat[p].kind = "frontier" -> IF Frontier(s, p) THEN match(ms, s, p + 1) ELSE Fail(ms)
         [] pat[p].kind = "capture" -> Then(ms, match_capture(ms, s, pat[p].l), p)
         [] OTHER -> Default(ms, s, p)

MatchAt(s) == match(reprepstate, s, 1)
push_captures(r) == [l \in 1..r.ms.level |-> r.ms.capture[l]]

-----------------------------------------------------------------------------
(* The loops *)

Init ==
  /\ pat \in Patterns /\ subj \in Subjects /\ loop \in {"gmatch", "gsub", "^gsub"}
  /\ src = 1 /\ lastmatch = 0 /\ found = <<>> /\ out = <<>> /\ over = FALSE

Matches(s) == MatchAt(s).e \notin {0, lastmatch}
Found(s) ==
  LET r == MatchAt(s)
  IN  /\ found' = Append(found, [s |-> s, e |-> r.e, capture |-> push_captures(r)])
      /\ src' = r.e /\ lastmatch' = r.e

\* One call of the function that gmatch returns.
gmatch_aux ==
  /\ loop = "gmatch" /\ ~over
  /\ LET starts == {s \in src..src_end : Matches(s)}
     IN  IF starts # {} THEN Found(Min(starts)) /\ UNCHANGED over
         ELSE over' = TRUE /\ UNCHANGED <<src, lastmatch, found>>
  /\ UNCHANGED <<pat, subj, loop, out>>

\* One turn of the loop of str_gsub, that replaces a match by itself.  Mutant: an
\* empty match right after a match counts.
str_gsub_Empty ==
  /\ loop # "gmatch" /\ ~over
  /\ IF MatchAt(src).e # 0
     THEN /\ Found(src) /\ out' = out \o SubSeq(subj, src, MatchAt(src).e - 1)
          /\ over' = (loop = "^gsub" \/ (MatchAt(src).e = src /\ src = src_end))
     ELSE IF src < src_end
     THEN /\ out' = Append(out, subj[src]) /\ src' = src + 1
          /\ over' = (loop = "^gsub") /\ UNCHANGED <<lastmatch, found>>
     ELSE over' = TRUE /\ UNCHANGED <<src, lastmatch, found, out>>
  /\ UNCHANGED <<pat, subj, loop>>
str_gsub ==
  /\ loop # "gmatch" /\ ~over
  /\ IF Matches(src)
     THEN /\ Found(src) /\ out' = out \o SubSeq(subj, src, MatchAt(src).e - 1)
          /\ over' = (loop = "^gsub")
     ELSE IF src < src_end
     THEN /\ out' = Append(out, subj[src]) /\ src' = src + 1
          /\ over' = (loop = "^gsub") /\ UNCHANGED <<lastmatch, found>>
     ELSE over' = TRUE /\ UNCHANGED <<src, lastmatch, found, out>>
  /\ UNCHANGED <<pat, subj, loop>>

Next == gmatch_aux \/ str_gsub
Spec == Init /\ [][Next]_vars

-----------------------------------------------------------------------------
(* What a pattern means: a way to match gives each item a stretch of the   *)
(* subject, as the sequence of the positions where items begin and the     *)
(* last one ends.                                                          *)

Opens == SelectSeq([p \in DOMAIN pat |-> p], LAMBDA p : pat[p].kind \in {"open", "position"})
\* The item that closes what item p opens.
CloseOf(p) ==
  LET Depth(q) == Cardinality({i \in p..q : pat[i].kind = "open"})
                    - Cardinality({i \in p..q : pat[i].kind = "close"})
  IN  Min({q \in p..Len(pat) : Depth(q) = 0})
Capture(w, l) ==
  LET p == Opens[l]
  IN  IF pat[p].kind = "position" THEN [init |-> w[p], len |-> CAP_POSITION]
      ELSE [init |-> w[p], len |-> w[CloseOf(p)] - w[p]]

\* Item p may take the stretch from s up to e, after the way w so far.
Fits(w, p, s, e) ==
  LET n == e - s
      inSet == \A i \in s..(e - 1) : subj[i] \in pat[p].set
  IN  CASE pat[p].kind \in {"open", "position", "close"} -> n = 0
        [] pat[p].kind = "end" -> n = 0 /\ s = src_end
        [] pat[p].kind = "frontier" -> n = 0 /\ Frontier(s, p)
        [] pat[p].kind = "balance" -> n > 0 /\ e = matchbalance(s, p)
        [] pat[p].kind = "capture" ->
             LET c == Capture(w, pat[p].l)
             IN  n = c.len /\ SubSeq(subj, s, e - 1) = SubSeq(subj, c.init, c.init + n - 1)
        [] OTHER -> /\ inSet
                    /\ pat[p].rep = "1" => n = 1
                    /\ pat[p].rep = "?" => n <= 1
                    /\ pat[p].rep = "+" => n >= 1
Ways(s) ==
  FoldLeft(LAMBDA ways, p : UNION {{Append(w, e) : e \in {e \in Last(w)..src_end :
                                                           Fits(w, p, Last(w), e)}} : w \in ways},
           {<<s>>}, [p \in DOMAIN pat |-> p])

\* The first item on which two ways differ takes as much as it can, or with "-"
\* as little.
Preferred(w, v) ==
  w # v => LET i == Min({j \in DOMAIN w : w[j] # v[j]})
           IN  IF pat[i - 1].rep = "-" THEN w[i] < v[i] ELSE w[i] > v[i]

\* match finds a way when there is one, the preferred one with its captures, and
\* leaves nothing of the attempts that failed behind (looked at once for each
\* pattern and subject).
MatchIsPreferred ==
  loop = "gmatch" /\ found = <<>> => \A s \in 1..src_end :
    LET r == MatchAt(s)
    IN  IF Ways(s) = {} THEN r.e = 0 /\ r.ms.level = 0
        ELSE \E w \in Ways(s) :
               /\ \A v \in Ways(s) : Preferred(w, v)
               /\ r.e = Last(w)
               /\ push_captures(r) = [l \in DOMAIN Opens |-> Capture(w, l)]

\* The loops leave no match out, never overlap two, find none twice, and gsub
\* keeps the text in between.
LoopsComplete ==
  LET End(i) == IF i = 0 THEN 0 ELSE found[i].e
      From(i) == IF i = 0 THEN 1 ELSE found[i].e
      To(i) == IF i < Len(found) THEN found[i + 1].s ELSE src
  IN  /\ \A i \in DOMAIN found : From(i - 1) <= found[i].s /\ found[i].e # End(i - 1)
      /\ loop # "^gsub" =>
           \A i \in 0..Len(found) :
             \A s \in From(i)..(To(i) - 1) : Ways(s) = {} \/ MatchAt(s).e = End(i)
      /\ over /\ loop # "^gsub" =>
           \A s \in src..src_end : Ways(s) = {} \/ MatchAt(s).e = lastmatch
      /\ loop # "gmatch" => out = SubSeq(subj, 1, src - 1)

MatchSound == MatchIsPreferred /\ LoopsComplete
=============================================================================

--------------------------- MODULE DevicesProofs ----------------------------
(***************************************************************************)
(* Theorems about Devices: for any lines that fit the buffer and any       *)
(* values, however the characters arrive, wherever the cable is pulled and *)
(* the power fails.                                                        *)
(***************************************************************************)
EXTENDS Devices, SequenceTheorems, WellFoundedInduction, TLAPS

\* What goes over the line, and what a file may hold.
Text == Chars \cup {"n"}
FileText == Text \cup {"0"}

LEMMA BindingsConstants ==
    /\ Lines \subseteq Seq(Chars) /\ "n" \notin Chars
    /\ READLINE_BUFFER_LEN \in Nat /\ READLINE_BUFFER_LEN > 0
    /\ \A ln \in Lines : Len(ln) < READLINE_BUFFER_LEN
    /\ Values \subseteq Seq(FileText) /\ NoFile \notin Values /\ MaxCuts \in Nat
PROOF
<1>1. Chars \cup {"n", "0"} = FileText
  BY DEF Text, FileText
<1> QED
  BY <1>1, BindingsFit DEF B!BindingsAssumption

-----------------------------------------------------------------------------
(* Texts *)

TextOver(text, Places, raw, from, to) ==
  \E f \in [Places -> (from + 1)..to] :
    /\ \A j, k \in Places : j < k => f[j] < f[k]
    /\ \A j \in Places : text[j] = raw[f[j]]
    /\ \A p \in (from + 1)..to :
         raw[p] \notin {"r", "n"} <=> \E j \in Places : f[j] = p

LEMMA TextPlaces ==
    ASSUME NEW text, NEW Places, DOMAIN text = Places, NEW raw, NEW from, NEW to
    PROVE  B!IsTextOf(text, raw, from, to) <=> TextOver(text, Places, raw, from, to)
PROOF
<1>1. B!IsTextOf(text, raw, from, to) <=> TextOver(text, DOMAIN text, raw, from, to)
  BY DEF B!IsTextOf, TextOver
<1> QED
  BY <1>1

LEMMA EmptyText ==
    ASSUME NEW raw, NEW n \in Nat
    PROVE  B!IsTextOf(<<>>, raw, n, n)
PROOF
<1>1. DOMAIN <<>> = {} /\ (n + 1)..n = {}
  OBVIOUS
<1>2. <<>> \in [{} -> {}]
  OBVIOUS
<1> QED
  BY <1>1, <1>2 DEF B!IsTextOf

\* A text stays what it was when more characters come.
LEMMA TextKept ==
    ASSUME NEW S, NEW raw \in Seq(S), NEW c \in S, NEW text,
           NEW from \in Nat, NEW to \in 0..Len(raw),
           B!IsTextOf(text, raw, from, to)
    PROVE  B!IsTextOf(text, Append(raw, c), from, to)
PROOF
<1>1. \A p \in (from + 1)..to : Append(raw, c)[p] = raw[p]
  OBVIOUS
<1>2. PICK f \in [DOMAIN text -> (from + 1)..to] :
         /\ \A j, k \in DOMAIN text : j < k => f[j] < f[k]
         /\ \A j \in DOMAIN text : text[j] = raw[f[j]]
         /\ \A p \in (from + 1)..to :
              raw[p] \notin {"r", "n"} <=> \E j \in DOMAIN text : f[j] = p
  BY DEF B!IsTextOf
<1>3. \A j \in DOMAIN text : text[j] = Append(raw, c)[f[j]]
  BY <1>1, <1>2
<1>4. \A p \in (from + 1)..to :
        Append(raw, c)[p] \notin {"r", "n"} <=> \E j \in DOMAIN text : f[j] = p
  BY <1>1, <1>2
<1> QED
  BY <1>2, <1>3, <1>4 DEF B!IsTextOf

\* A carriage return or a newline adds nothing to the text.
LEMMA TextSkips ==
    ASSUME NEW S, NEW raw \in Seq(S), NEW c \in S \cap {"r", "n"}, NEW text,
           NEW from \in 0..Len(raw), B!IsTextOf(text, raw, from, Len(raw))
    PROVE  B!IsTextOf(text, Append(raw, c), from, Len(raw) + 1)
PROOF
<1> DEFINE to == Len(raw)
<1>0. to \in Nat /\ from \in Nat /\ from <= to
  OBVIOUS
<1>1. PICK f \in [DOMAIN text -> (from + 1)..to] :
         /\ \A j, k \in DOMAIN text : j < k => f[j] < f[k]
         /\ \A j \in DOMAIN text : text[j] = raw[f[j]]
         /\ \A p \in (from + 1)..to :
              raw[p] \notin {"r", "n"} <=> \E j \in DOMAIN text : f[j] = p
  BY DEF B!IsTextOf
<1>2. /\ \A p \in (from + 1)..to : Append(raw, c)[p] = raw[p]
      /\ Append(raw, c)[to + 1] = c
  OBVIOUS
<1>3. f \in [DOMAIN text -> (from + 1)..(to + 1)]
  BY <1>0, <1>1
<1>4. \A j \in DOMAIN text : text[j] = Append(raw, c)[f[j]]
  BY <1>1, <1>2
<1>5. ASSUME NEW p \in (from + 1)..(to + 1)
      PROVE  Append(raw, c)[p] \notin {"r", "n"} <=> \E j \in DOMAIN text : f[j] = p
  <2>1. CASE p = to + 1
    <3>1. \A j \in DOMAIN text : f[j] # p
      BY <1>0, <1>1, <2>1
    <3> QED
      BY <1>2, <2>1, <3>1
  <2>2. CASE p # to + 1
    <3>1. p \in (from + 1)..to
      BY <1>0, <1>5, <2>2
    <3> QED
      BY <1>1, <1>2, <3>1
  <2> QED
    BY <2>1, <2>2
<1> HIDE DEF to
<1> QED
  BY <1>1, <1>3, <1>4, <1>5 DEF B!IsTextOf, to

\* Any other character is added to it.
LEMMA TextGrows ==
    ASSUME NEW S, NEW raw \in Seq(S), NEW c \in S, c \notin {"r", "n"},
           NEW text \in Seq(S), NEW from \in 0..Len(raw),
           B!IsTextOf(text, raw, from, Len(raw))
    PROVE  B!IsTextOf(Append(text, c), Append(raw, c), from, Len(raw) + 1)
PROOF
<1> DEFINE to == Len(raw)
           n == Len(text)
           longer == Append(text, c)
<1>0. to \in Nat /\ from \in Nat /\ from <= to /\ n \in Nat /\ DOMAIN text = 1..n
  OBVIOUS
<1>a. TextOver(text, 1..n, raw, from, to)
  BY <1>0, TextPlaces
<1> HIDE DEF n
<1>1. PICK f \in [1..n -> (from + 1)..to] :
         /\ \A j, k \in 1..n : j < k => f[j] < f[k]
         /\ \A j \in 1..n : text[j] = raw[f[j]]
         /\ \A p \in (from + 1)..to :
              raw[p] \notin {"r", "n"} <=> \E j \in 1..n : f[j] = p
  BY <1>a DEF TextOver
<1> USE DEF n
<1>2. /\ \A p \in (from + 1)..to : Append(raw, c)[p] = raw[p]
      /\ Append(raw, c)[to + 1] = c
      /\ DOMAIN longer = 1..(n + 1) /\ longer[n + 1] = c
      /\ \A j \in 1..n : longer[j] = text[j]
  OBVIOUS
<1> DEFINE g == [j \in 1..(n + 1) |-> IF j = n + 1 THEN to + 1 ELSE f[j]]
<1> HIDE DEF to, n, longer
<1>3. \A j \in 1..n : j \in 1..(n + 1) /\ j # n + 1 /\ f[j] \in (from + 1)..to
  BY <1>0, <1>1
<1>4. g \in [1..(n + 1) -> (from + 1)..(to + 1)]
  <2>1. ASSUME NEW j \in 1..(n + 1) PROVE g[j] \in (from + 1)..(to + 1)
    <3>1. CASE j = n + 1
      BY <1>0, <3>1
    <3>2. CASE j # n + 1
      <4>1. j \in 1..n
        BY <1>0, <3>2
      <4> QED
        BY <1>0, <1>3, <3>2, <4>1
    <3> QED
      BY <3>1, <3>2
  <2> QED
    BY <2>1
<1>5. ASSUME NEW j \in 1..(n + 1), NEW k \in 1..(n + 1), j < k PROVE g[j] < g[k]
  <2>1. j \in 1..n
    BY <1>0, <1>5
  <2>2. CASE k = n + 1
    BY <1>0, <1>3, <2>1, <2>2
  <2>3. CASE k # n + 1
    BY <1>0, <1>1, <1>3, <1>5, <2>1, <2>3
  <2> QED
    BY <2>2, <2>3
<1>6. ASSUME NEW j \in 1..(n + 1) PROVE longer[j] = Append(raw, c)[g[j]]
  <2>1. CASE j = n + 1
    BY <1>2, <2>1
  <2>2. CASE j # n + 1
    <3>1. j \in 1..n
      BY <1>0, <2>2
    <3> QED
      BY <1>1, <1>2, <1>3, <2>2, <3>1
  <2> QED
    BY <2>1, <2>2
<1>7. ASSUME NEW p \in (from + 1)..(to + 1)
      PROVE  Append(raw, c)[p] \notin {"r", "n"} <=> \E j \in 1..(n + 1) : g[j] = p
  <2>1. CASE p = to + 1
    <3>1. n + 1 \in 1..(n + 1) /\ g[n + 1] = p
      BY <1>0, <2>1
    <3> QED
      BY <1>2, <2>1, <3>1
  <2>2. CASE p # to + 1
    <3>1. p \in (from + 1)..to
      BY <1>0, <1>7, <2>2
    <3>2. (\E j \in 1..(n + 1) : g[j] = p) <=> (\E j \in 1..n : f[j] = p)
      <4>1. ASSUME NEW j \in 1..(n + 1), g[j] = p PROVE j \in 1..n /\ f[j] = p
        BY <1>0, <2>2, <4>1
      <4>2. ASSUME NEW j \in 1..n, f[j] = p PROVE j \in 1..(n + 1) /\ g[j] = p
        BY <1>0, <4>2
      <4> QED
        BY <4>1, <4>2
    <3> QED
      BY <1>1, <1>2, <3>1, <3>2
  <2> QED
    BY <2>1, <2>2
<1> HIDE DEF g
<1>8. TextOver(longer, 1..(n + 1), Append(raw, c), from, to + 1)
  BY <1>4, <1>5, <1>6, <1>7 DEF TextOver
<1>9. B!IsTextOf(longer, Append(raw, c), from, to + 1)
  BY <1>2, <1>8, TextPlaces
<1> QED
  BY <1>9 DEF longer, to

-----------------------------------------------------------------------------
(* The serial port *)

Piece == [text : Seq(Text), end : {"newline", "unopened", "open", "gone"}, to : Nat]
LineTypes ==
  /\ sent \in Seq(Text) /\ wire \in Seq(Text) /\ input \in Seq(Text) /\ taken \in Seq(Text)
  /\ buffer \in Seq(Text) /\ reading \in BOOLEAN
  /\ port \in {"unopened", "open", "gone"}
  /\ pieces \in Seq(Piece)

\* The characters go through the wire and the queue in order.
Flow == IF port = "gone"
        THEN wire = <<>> /\ input = <<>> /\ B!IsPrefix(taken, sent)
        ELSE taken \o input \o wire = sent

\* Among any so many characters next to each other is a newline.
Windows(raw, len, size) ==
  \A i \in 0..len : i + size <= len => \E p \in (i + 1)..(i + size) : raw[p] = "n"

\* What the other end sent is whole lines, none longer than the buffer.
Framed ==
  /\ sent # <<>> => sent[Len(sent)] = "n"
  /\ Windows(sent, Len(sent), READLINE_BUFFER_LEN)

Start(them, i) == IF i = 1 THEN 0 ELSE them[i - 1].to
PiecesSound(them, raw) == \A i \in DOMAIN them : B!IsPieceOf(them[i], raw, Start(them, i))

\* The buffer holds the characters taken since the last call, among them no newline.
BufferSound(text, raw, from, busy) ==
  /\ from \in 0..Len(raw)
  /\ B!IsTextOf(text, raw, from, Len(raw))
  /\ Len(text) <= Len(raw) - from
  /\ ~busy => from = Len(raw)
  /\ \A p \in (from + 1)..Len(raw) : raw[p] # "n"

SerialInv ==
  /\ LineTypes /\ Flow /\ Framed
  /\ PiecesSound(pieces, taken)
  /\ BufferSound(buffer, taken, Start(pieces, Len(pieces) + 1), reading)

\* What came is a part of what was sent.
LEMMA TakenFits ==
    ASSUME LineTypes, Flow
    PROVE  /\ Len(taken) \in Nat /\ Len(sent) \in Nat /\ Len(taken) <= Len(sent)
           /\ \A p \in 1..Len(taken) : taken[p] = sent[p]
PROOF
<1>0. taken \in Seq(Text) /\ input \in Seq(Text) /\ wire \in Seq(Text) /\ sent \in Seq(Text)
  BY DEF LineTypes
<1>1. CASE port = "gone"
  <2>1. Len(taken) <= Len(sent) /\ SubSeq(taken, 1, Len(taken)) = SubSeq(sent, 1, Len(taken))
    BY <1>1 DEF Flow, B!IsPrefix
  <2>2. SubSeq(taken, 1, Len(taken)) = taken
    BY <1>0, SubSeqFull
  <2>3. \A p \in 1..Len(taken) : SubSeq(sent, 1, Len(taken))[p] = sent[p]
    BY <1>0, <2>1
  <2> QED
    BY <1>0, <2>1, <2>2, <2>3
<1>2. CASE port # "gone"
  <2> DEFINE rest == input \o wire
  <2>1. rest \in Seq(Text)
    BY <1>0
  <2>2. sent = taken \o rest
    <3>1. sent = (taken \o input) \o wire
      BY <1>2 DEF Flow
    <3>2. (taken \o input) \o wire = taken \o (input \o wire)
      BY <1>0, ConcatAssociative
    <3> QED
      BY <3>1, <3>2
  <2> HIDE DEF rest
  <2> QED
    BY <1>0, <2>1, <2>2, ConcatProperties
<1> QED
  BY <1>1, <1>2

\* So few characters without a newline fit the buffer.
LEMMA BufferFits ==
    ASSUME LineTypes, Flow, Framed, NEW from,
           BufferSound(buffer, taken, from, reading)
    PROVE  Len(buffer) < READLINE_BUFFER_LEN
PROOF
<1> DEFINE n == READLINE_BUFFER_LEN
<1>1. /\ from \in 0..Len(taken) /\ Len(buffer) <= Len(taken) - from
      /\ \A p \in (from + 1)..Len(taken) : taken[p] # "n"
  BY DEF BufferSound
<1>2. /\ Len(taken) \in Nat /\ Len(sent) \in Nat /\ Len(taken) <= Len(sent)
      /\ \A p \in 1..Len(taken) : taken[p] = sent[p]
  BY TakenFits
<1>3. n \in Nat /\ Len(buffer) \in Nat
  BY BindingsConstants DEF LineTypes
<1>4. \A i \in 0..Len(sent) : i + n <= Len(sent) => \E p \in (i + 1)..(i + n) : sent[p] = "n"
  BY DEF Framed, Windows
<1> HIDE DEF n
<1>5. ASSUME from + n <= Len(taken) PROVE FALSE
  <2>1. PICK p \in (from + 1)..(from + n) : sent[p] = "n"
    <3>1. from \in 0..Len(sent) /\ from + n <= Len(sent)
      BY <1>1, <1>2, <1>3, <1>5
    <3> QED
      BY <1>4, <3>1
  <2>2. p \in (from + 1)..Len(taken) /\ p \in 1..Len(taken)
    BY <1>1, <1>2, <1>3, <1>5
  <2> QED
    BY <1>1, <1>2, <2>1, <2>2
<1>6. Len(buffer) < n
  BY <1>1, <1>2, <1>3, <1>5
<1> QED
  BY <1>6 DEF n

LEMMA SerialInvGivesLines ==
    ASSUME SerialInv
    PROVE  LinesIntact
PROOF
<1> DEFINE from == Start(pieces, Len(pieces) + 1)
<1>1. BufferSound(buffer, taken, from, reading)
  BY DEF SerialInv
<1>2. \A i : B!From(i) = Start(pieces, i)
  BY DEF B!From, Start
<1>3. Len(buffer) < READLINE_BUFFER_LEN
  BY <1>1, BufferFits DEF SerialInv
<1>4. IF port = "gone" THEN B!IsPrefix(taken, sent) ELSE taken \o input \o wire = sent
  BY DEF SerialInv, Flow
<1>5. \A i \in DOMAIN pieces : B!IsPieceOf(pieces[i], taken, B!From(i))
  BY <1>2 DEF SerialInv, PiecesSound
<1>6. /\ ~reading => B!From(Len(pieces) + 1) = Len(taken)
      /\ B!IsTextOf(buffer, taken, B!From(Len(pieces) + 1), Len(taken))
  BY <1>1, <1>2 DEF BufferSound
<1> QED
  BY <1>3, <1>4, <1>5, <1>6 DEF LinesIntact, B!LinesIntact

\* A piece stays what it was when more characters come.
LEMMA PieceKept ==
    ASSUME NEW raw \in Seq(Text), NEW c \in Text, NEW from \in Nat, NEW piece,
           B!IsPieceOf(piece, raw, from)
    PROVE  B!IsPieceOf(piece, Append(raw, c), from)
PROOF
<1>0. Len(raw) \in Nat /\ Len(Append(raw, c)) = Len(raw) + 1
  OBVIOUS
<1>1. piece.to \in from..Len(raw)
  BY DEF B!IsPieceOf
<1>2. piece.to \in from..Len(Append(raw, c)) /\ piece.to \in 0..Len(raw)
  BY <1>0, <1>1
<1>3. \A p \in (from + 1)..piece.to : Append(raw, c)[p] = raw[p]
  BY <1>2
<1>4. {p \in (from + 1)..piece.to : Append(raw, c)[p] = "n"}
        = {p \in (from + 1)..piece.to : raw[p] = "n"}
  BY <1>3
<1>5. B!IsTextOf(piece.text, Append(raw, c), from, piece.to)
  BY <1>2, TextKept DEF B!IsPieceOf
<1> QED
  BY <1>2, <1>4, <1>5 DEF B!IsPieceOf

LEMMA StartInNat ==
    ASSUME NEW them \in Seq(Piece), NEW i \in 1..(Len(them) + 1)
    PROVE  Start(them, i) \in Nat
PROOF
<1>1. CASE i = 1
  BY <1>1 DEF Start
<1>2. CASE i # 1
  <2>1. i - 1 \in 1..Len(them)
    BY <1>2
  <2>2. them[i - 1] \in Piece
    BY <2>1
  <2> QED
    BY <1>2, <2>2 DEF Start, Piece
<1> QED
  BY <1>1, <1>2

LEMMA PiecesKept ==
    ASSUME NEW raw \in Seq(Text), NEW c \in Text, NEW them \in Seq(Piece),
           PiecesSound(them, raw)
    PROVE  PiecesSound(them, Append(raw, c))
PROOF
<1> SUFFICES ASSUME NEW i \in DOMAIN them
             PROVE  B!IsPieceOf(them[i], Append(raw, c), Start(them, i))
  BY DEF PiecesSound
<1>1. i \in 1..(Len(them) + 1)
  OBVIOUS
<1>2. Start(them, i) \in Nat
  BY <1>1, StartInNat
<1>3. B!IsPieceOf(them[i], raw, Start(them, i))
  BY DEF PiecesSound
<1> QED
  BY <1>2, <1>3, PieceKept

LEMMA PieceAdded ==
    ASSUME NEW raw, NEW them \in Seq(Piece), NEW piece \in Piece,
           PiecesSound(them, raw), B!IsPieceOf(piece, raw, Start(them, Len(them) + 1))
    PROVE  /\ PiecesSound(Append(them, piece), raw)
           /\ Append(them, piece) \in Seq(Piece)
           /\ Start(Append(them, piece), Len(Append(them, piece)) + 1) = piece.to
PROOF
<1> DEFINE all == Append(them, piece)
           len == Len(them)
<1>1. /\ len \in Nat /\ all \in Seq(Piece) /\ Len(all) = len + 1 /\ all[len + 1] = piece
      /\ \A i \in 1..len : all[i] = them[i]
      /\ DOMAIN all = 1..(len + 1) /\ DOMAIN them = 1..len
  OBVIOUS
<1> HIDE DEF all
<1>2. \A i \in 1..(len + 1) : Start(all, i) = Start(them, i)
  <2> SUFFICES ASSUME NEW i \in 1..(len + 1), i # 1
               PROVE  all[i - 1] = them[i - 1]
    BY DEF Start
  <2>1. i - 1 \in 1..len
    BY <1>1
  <2> QED
    BY <1>1, <2>1
<1>3. ASSUME NEW i \in 1..(len + 1)
      PROVE  B!IsPieceOf(all[i], raw, Start(all, i))
  <2>1. CASE i = len + 1
    BY <1>1, <1>2, <2>1
  <2>2. CASE i # len + 1
    <3>1. i \in 1..len
      BY <1>1, <2>2
    <3> QED
      BY <1>1, <1>2, <3>1 DEF PiecesSound
  <2> QED
    BY <2>1, <2>2
<1>4. PiecesSound(all, raw)
  BY <1>1, <1>3 DEF PiecesSound
<1>5. Start(all, Len(all) + 1) = piece.to
  <2>1. Len(all) + 1 # 1 /\ Len(all) + 1 - 1 = len + 1
    BY <1>1
  <2> QED
    BY <1>1, <2>1 DEF Start
<1> QED
  BY <1>1, <1>4, <1>5 DEF all

-----------------------------------------------------------------------------
\* Where every window of a text has a newline, and it ends with one, a short line
\* leaves it so.
LEMMA WindowsGrow ==
    ASSUME NEW size \in Nat, NEW old \in Nat, NEW add \in Nat, add < size,
           NEW was, NEW is, \A p \in 1..old : is[p] = was[p],
           old # 0 => was[old] = "n", is[old + add + 1] = "n",
           Windows(was, old, size)
    PROVE  Windows(is, old + add + 1, size)
PROOF
<1> SUFFICES ASSUME NEW i \in 0..(old + add + 1), i + size <= old + add + 1
             PROVE  \E p \in (i + 1)..(i + size) : is[p] = "n"
  BY DEF Windows
<1>1. CASE i + size <= old
  <2>0. i \in 0..old
    BY <1>1
  <2>1. PICK p \in (i + 1)..(i + size) : was[p] = "n"
    BY <1>1, <2>0 DEF Windows
  <2>2. p \in 1..old
    BY <1>1
  <2> QED
    BY <2>1, <2>2
<1>2. CASE i + size = old + add + 1
  BY <1>2
<1>3. CASE i + size > old /\ i + size <= old + add
  <2>1. old \in (i + 1)..(i + size) /\ old \in 1..old /\ old # 0
    BY <1>3
  <2> QED
    BY <2>1
<1> QED
  BY <1>1, <1>2, <1>3

\* The other end adds a line.
LEMMA LineFramed ==
    ASSUME NEW ln \in Lines, sent \in Seq(Text), Framed, sent' = sent \o ln \o <<"n">>
    PROVE  Framed' /\ sent' \in Seq(Text)
PROOF
<1> DEFINE size == READLINE_BUFFER_LEN
           old == Len(sent)
           add == Len(ln)
<1>0. ln \in Seq(Text) /\ size \in Nat /\ size > 0 /\ add \in Nat /\ add < size /\ old \in Nat
  <2>1. ln \in Seq(Chars) /\ Chars \subseteq Text
    BY BindingsConstants DEF Text
  <2>2. ln \in Seq(Text)
    BY <2>1, SeqMonotonic
  <2> QED
    BY <2>2, BindingsConstants
<1>1. /\ sent' \in Seq(Text) /\ Len(sent') = old + add + 1 /\ sent'[old + add + 1] = "n"
      /\ \A p \in 1..old : sent'[p] = sent[p]
  <2>1. /\ sent \o ln \in Seq(Text) /\ Len(sent \o ln) = old + add
        /\ \A p \in 1..old : (sent \o ln)[p] = sent[p]
    BY <1>0, ConcatProperties
  <2>2. sent' = Append(sent \o ln, "n") /\ "n" \in Text
    BY <2>1, AppendIsConcat DEF Text
  <2> QED
    BY <1>0, <2>1, <2>2, AppendProperties
<1>2. /\ old # 0 => sent[old] = "n"
      /\ Windows(sent, old, size)
  BY <1>0, EmptySeq DEF Framed
<1> HIDE DEF size, old, add
<1>3. Windows(sent', old + add + 1, size)
  BY <1>0, <1>1, <1>2, WindowsGrow
<1> QED
  BY <1>1, <1>3 DEF Framed, size

-----------------------------------------------------------------------------
(* The steps of the serial port *)

\* A call that begins where the last one ended has read nothing.
LEMMA BufferEmpty ==
    ASSUME NEW raw \in Seq(Text), NEW busy \in BOOLEAN
    PROVE  BufferSound(<<>>, raw, Len(raw), busy)
PROOF
<1>1. Len(raw) \in Nat /\ Len(<<>>) = 0
  OBVIOUS
<1>2. B!IsTextOf(<<>>, raw, Len(raw), Len(raw))
  BY <1>1, EmptyText
<1> QED
  BY <1>1, <1>2 DEF BufferSound

\* A step that takes nothing from the queue and returns nothing.
LEMMA ReadingUndisturbed ==
    ASSUME SerialInv, UNCHANGED <<taken, buffer, reading, pieces>>,
           sent' \in Seq(Text), wire' \in Seq(Text), input' \in Seq(Text),
           port' \in {"unopened", "open", "gone"}, Flow', Framed'
    PROVE  SerialInv'
BY DEF SerialInv, LineTypes, PiecesSound, BufferSound

LEMMA TextsJoin == \A x, y, z \in Seq(Text) : (x \o y) \o z = x \o (y \o z)
BY ConcatAssociative

LEMMA SendLineStep ==
    ASSUME SerialInv, B!SendLine
    PROVE  SerialInv'
PROOF
<1>1. PICK ln \in Lines : wire' = wire \o ln \o <<"n">> /\ sent' = sent \o ln \o <<"n">>
  BY DEF B!SendLine
<1>2. /\ taken \in Seq(Text) /\ input \in Seq(Text) /\ wire \in Seq(Text) /\ sent \in Seq(Text)
      /\ port # "gone" /\ taken \o input \o wire = sent /\ Framed
      /\ port \in {"unopened", "open", "gone"}
  BY DEF SerialInv, LineTypes, Flow, B!SendLine
<1>3. ln \in Seq(Text) /\ <<"n">> \in Seq(Text)
  <2>1. ln \in Seq(Chars) /\ Chars \subseteq Text /\ "n" \in Text
    BY BindingsConstants DEF Text
  <2> QED
    BY <2>1, SeqMonotonic
<1>4. sent' \in Seq(Text) /\ Framed'
  BY <1>1, <1>2, LineFramed
<1>5. wire' \in Seq(Text)
  BY <1>1, <1>2, <1>3
<1>6. taken \o input \o wire' = sent'
  <2> DEFINE come == taken \o input
  <2>1. come \in Seq(Text) /\ come \o wire = sent /\ wire \o ln \in Seq(Text)
    BY <1>2, <1>3
  <2>5. come \in Seq(Text) /\ wire \in Seq(Text) /\ ln \in Seq(Text)
    BY <1>2, <1>3
  <2> HIDE DEF come
  <2>2. come \o ((wire \o ln) \o <<"n">>) = (come \o (wire \o ln)) \o <<"n">>
    BY <1>3, <2>1, TextsJoin
  <2>3. come \o (wire \o ln) = (come \o wire) \o ln
    BY <2>5, TextsJoin
  <2>4. come \o wire' = sent'
    BY <1>1, <2>1, <2>2, <2>3
  <2> QED
    BY <2>4 DEF come
<1>7. UNCHANGED <<port, input, taken, buffer, reading, pieces>>
  BY DEF B!SendLine
<1>8. Flow'
  BY <1>2, <1>6, <1>7 DEF Flow
<1> QED
  BY <1>2, <1>4, <1>5, <1>7, <1>8, ReadingUndisturbed

LEMMA HeadMoves ==
    ASSUME NEW S, NEW first \in Seq(S), NEW second \in Seq(S), second # <<>>
    PROVE  /\ Append(first, Head(second)) \o Tail(second) = first \o second
           /\ Append(first, Head(second)) \in Seq(S) /\ Tail(second) \in Seq(S)
           /\ Head(second) \in S
PROOF
<1> DEFINE h == Head(second)
           rest == Tail(second)
<1>1. /\ h \in S /\ rest \in Seq(S) /\ <<h>> \in Seq(S) /\ 1 \in 1..Len(second)
      /\ Len(second) \in 1..Len(second) /\ second[1] = h /\ rest = SubSeq(second, 2, Len(second))
  BY HeadTailProperties, TailIsSubSeq
<1>2. SubSeq(second, 1, Len(second)) = <<second[1]>> \o SubSeq(second, 1 + 1, Len(second))
  BY <1>1, SubSeqRecursiveFirst
<1>3. SubSeq(second, 1, Len(second)) = second
  BY SubSeqFull
<1>4. second = <<h>> \o rest
  BY <1>1, <1>2, <1>3
<1>5. Append(first, h) \in Seq(S) /\ Append(first, h) = first \o <<h>>
  BY <1>1, AppendProperties, AppendIsConcat
<1> HIDE DEF h, rest
<1>6. (first \o <<h>>) \o rest = first \o (<<h>> \o rest)
  <2>1. first \in Seq(S) /\ <<h>> \in Seq(S) /\ rest \in Seq(S)
    BY <1>1
  <2> DEFINE one == <<h>>
  <2> HIDE DEF one
  <2>2. (first \o one) \o rest = first \o (one \o rest)
    BY <2>1, ConcatAssociative DEF one
  <2> QED
    BY <2>2 DEF one
<1> QED
  BY <1>1, <1>4, <1>5, <1>6 DEF h, rest

LEMMA ArriveStep ==
    ASSUME SerialInv, B!Arrive
    PROVE  SerialInv'
PROOF
<1>1. /\ taken \in Seq(Text) /\ input \in Seq(Text) /\ wire \in Seq(Text) /\ sent \in Seq(Text)
      /\ port = "open" /\ wire # <<>> /\ taken \o input \o wire = sent /\ Framed
  BY DEF SerialInv, LineTypes, Flow, B!Arrive
<1>2. /\ input' = Append(input, Head(wire)) /\ wire' = Tail(wire)
      /\ UNCHANGED <<port, sent, taken, buffer, reading, pieces>>
  BY DEF B!Arrive
<1>3. input' \o wire' = input \o wire /\ input' \in Seq(Text) /\ wire' \in Seq(Text)
  BY <1>1, <1>2, HeadMoves
<1>4. (taken \o input') \o wire' = (taken \o input) \o wire
  <2>1. \A x, y \in Seq(Text) : (taken \o x) \o y = taken \o (x \o y)
    BY <1>1, TextsJoin
  <2>2. (taken \o input') \o wire' = taken \o (input' \o wire')
    BY <1>3, <2>1, Zenon
  <2>3. (taken \o input) \o wire = taken \o (input \o wire)
    BY <1>1, <2>1, Zenon
  <2> QED
    BY <1>3, <2>2, <2>3, Zenon
<1>5. Flow' /\ Framed'
  BY <1>1, <1>2, <1>4 DEF Flow, Framed
<1> QED
  BY <1>1, <1>2, <1>3, <1>5, ReadingUndisturbed

LEMMA UnplugStep ==
    ASSUME SerialInv, B!Unplug
    PROVE  SerialInv'
PROOF
<1>1. /\ taken \in Seq(Text) /\ input \in Seq(Text) /\ wire \in Seq(Text) /\ sent \in Seq(Text)
      /\ port = "open" /\ taken \o input \o wire = sent /\ Framed
  BY DEF SerialInv, LineTypes, Flow, B!Unplug
<1>2. /\ port' = "gone" /\ input' = <<>> /\ wire' = <<>>
      /\ UNCHANGED <<sent, taken, buffer, reading, pieces>>
  BY DEF B!Unplug
<1>3. B!IsPrefix(taken, sent)
  <2>1. /\ Len(taken) <= Len(sent) /\ Len(taken) \in Nat /\ Len(sent) \in Nat
        /\ \A p \in 1..Len(taken) : taken[p] = sent[p]
    BY TakenFits DEF SerialInv
  <2>2. SubSeq(taken, 1, Len(taken)) = SubSeq(sent, 1, Len(taken))
    <3>1. SubSeq(taken, 1, Len(taken)) = [p \in 1..Len(taken) |-> taken[p]]
      BY <1>1, <2>1
    <3>2. SubSeq(sent, 1, Len(taken)) = [p \in 1..Len(taken) |-> sent[p]]
      BY <1>1, <2>1
    <3> QED
      BY <2>1, <3>1, <3>2
  <2> QED
    BY <2>1, <2>2 DEF B!IsPrefix
<1>4. Flow' /\ Framed'
  BY <1>1, <1>2, <1>3 DEF Flow, Framed, B!IsPrefix
<1>5. input' \in Seq(Text) /\ wire' \in Seq(Text)
  BY <1>2
<1> QED
  BY <1>1, <1>2, <1>4, <1>5, ReadingUndisturbed

LEMMA SerialReadStep ==
    ASSUME SerialInv, B!SerialRead
    PROVE  SerialInv'
PROOF
<1>1. /\ LineTypes /\ Flow /\ Framed /\ PiecesSound(pieces, taken)
      /\ BufferSound(buffer, taken, Start(pieces, Len(pieces) + 1), FALSE) /\ taken \in Seq(Text)
  BY DEF SerialInv, B!SerialRead, B!Idle, LineTypes
<1>2. /\ reading' = TRUE /\ buffer' = <<>> /\ UNCHANGED <<sent, wire, input, taken, pieces>>
      /\ port' \in {"unopened", "open", "gone"} /\ (port' = "gone" <=> port = "gone")
  BY <1>1 DEF B!SerialRead, B!serial_open, LineTypes
<1>3. Start(pieces, Len(pieces) + 1) = Len(taken)
  BY <1>1 DEF BufferSound
<1>4. BufferSound(<<>>, taken, Len(taken), TRUE)
  BY <1>1, BufferEmpty
<1>5. BufferSound(buffer', taken', Start(pieces', Len(pieces') + 1), reading')
  BY <1>2, <1>3, <1>4
<1>6. LineTypes' /\ Flow' /\ Framed' /\ PiecesSound(pieces', taken')
  BY <1>1, <1>2 DEF LineTypes, Flow, Framed
<1> QED
  BY <1>5, <1>6 DEF SerialInv

\* What holds of the buffer when a character is taken.
LEMMA CharacterTaken ==
    ASSUME NEW raw \in Seq(Text), NEW c \in Text, NEW text \in Seq(Text), NEW from,
           BufferSound(text, raw, from, TRUE)
    PROVE  /\ c = "r" => BufferSound(text, Append(raw, c), from, TRUE)
           /\ c \notin {"r", "n"} => BufferSound(Append(text, c), Append(raw, c), from, TRUE)
           /\ c = "n" => /\ B!IsTextOf(text, Append(raw, c), from, Len(Append(raw, c)))
                         /\ {p \in (from + 1)..Len(Append(raw, c)) : Append(raw, c)[p] = "n"}
                              = {Len(Append(raw, c))}
                         /\ Len(Append(raw, c)) \in from..Len(Append(raw, c))
PROOF
<1> DEFINE more == Append(raw, c)
<1>1. /\ Len(raw) \in Nat /\ Len(more) = Len(raw) + 1 /\ more \in Seq(Text)
      /\ more[Len(raw) + 1] = c /\ \A p \in 1..Len(raw) : more[p] = raw[p]
  OBVIOUS
<1>2. /\ from \in 0..Len(raw) /\ B!IsTextOf(text, raw, from, Len(raw))
      /\ Len(text) <= Len(raw) - from /\ \A p \in (from + 1)..Len(raw) : raw[p] # "n"
  BY DEF BufferSound
<1>3. /\ Len(text) \in Nat /\ Len(Append(text, c)) = Len(text) + 1
  OBVIOUS
<1> HIDE DEF more
<1>4. \A p \in (from + 1)..Len(raw) : more[p] # "n"
  BY <1>1, <1>2
<1>5. \A p \in (from + 1)..(Len(raw) + 1) : p = Len(raw) + 1 \/ p \in (from + 1)..Len(raw)
  BY <1>1, <1>2
<1>6. c # "n" => \A p \in (from + 1)..Len(more) : more[p] # "n"
  BY <1>1, <1>4, <1>5
<1>7. from \in 0..Len(more) /\ Len(more) \in from..Len(more)
  BY <1>1, <1>2
<1>8. ASSUME c \in {"r", "n"}
      PROVE  B!IsTextOf(text, more, from, Len(more))
  BY <1>1, <1>2, <1>8, TextSkips DEF more
<1>9. ASSUME c \notin {"r", "n"}
      PROVE  B!IsTextOf(Append(text, c), more, from, Len(more))
  BY <1>1, <1>2, <1>9, TextGrows DEF more
<1>10. c = "r" => BufferSound(text, more, from, TRUE)
  BY <1>1, <1>2, <1>3, <1>6, <1>7, <1>8 DEF BufferSound
<1>11. c \notin {"r", "n"} => BufferSound(Append(text, c), more, from, TRUE)
  BY <1>1, <1>2, <1>3, <1>6, <1>7, <1>9 DEF BufferSound
<1>12. c = "n" => {p \in (from + 1)..Len(more) : more[p] = "n"} = {Len(more)}
  <2> SUFFICES ASSUME c = "n", NEW p
               PROVE  p \in (from + 1)..Len(more) /\ more[p] = "n" <=> p = Len(more)
    OBVIOUS
  <2> QED
    BY <1>1, <1>2, <1>4, <1>5
<1> QED
  BY <1>7, <1>8, <1>10, <1>11, <1>12 DEF more

LEMMA ReadCharStep ==
    ASSUME SerialInv, B!ReadChar
    PROVE  SerialInv'
PROOF
<1> DEFINE from == Start(pieces, Len(pieces) + 1)
<1>1. /\ taken \in Seq(Text) /\ input \in Seq(Text) /\ wire \in Seq(Text) /\ sent \in Seq(Text)
      /\ buffer \in Seq(Text) /\ pieces \in Seq(Piece) /\ port \in {"unopened", "open", "gone"}
      /\ reading = TRUE /\ input # <<>>
  BY DEF SerialInv, LineTypes, B!ReadChar
<1>2. /\ Flow /\ Framed /\ PiecesSound(pieces, taken) /\ BufferSound(buffer, taken, from, TRUE)
  BY <1>1 DEF SerialInv
<1>3. PICK c : c = Head(input)
  OBVIOUS
<1>4. /\ input' = Tail(input) /\ taken' = Append(taken, c) /\ UNCHANGED <<port, sent, wire>>
      /\ c = "n" => /\ pieces' = Append(pieces, [text |-> buffer, end |-> "newline",
                                                to |-> Len(taken')])
                    /\ reading' = FALSE /\ buffer' = <<>>
      /\ c # "n" => /\ buffer' = IF c = "r" THEN buffer ELSE Append(buffer, c)
                    /\ UNCHANGED <<reading, pieces>>
  BY <1>3 DEF B!ReadChar, B!Return, B!Stored
<1>5. /\ Append(taken, Head(input)) \o Tail(input) = taken \o input
      /\ Append(taken, Head(input)) \in Seq(Text) /\ Tail(input) \in Seq(Text)
      /\ Head(input) \in Text
  BY <1>1, HeadMoves
<1>6. taken' \o input' = taken \o input /\ taken' \in Seq(Text) /\ input' \in Seq(Text) /\ c \in Text
  BY <1>3, <1>4, <1>5
<1>7. Flow' /\ Framed'
  BY <1>1, <1>2, <1>4, <1>6 DEF Flow, Framed
<1>8. PiecesSound(pieces, taken')
  BY <1>1, <1>2, <1>4, <1>6, PiecesKept
<1>9. /\ c = "r" => BufferSound(buffer, taken', from, TRUE)
      /\ c \notin {"r", "n"} => BufferSound(Append(buffer, c), taken', from, TRUE)
      /\ c = "n" => /\ B!IsTextOf(buffer, taken', from, Len(taken'))
                    /\ {p \in (from + 1)..Len(taken') : taken'[p] = "n"} = {Len(taken')}
                    /\ Len(taken') \in from..Len(taken')
  <2> DEFINE more == Append(taken, c)
  <2>1. /\ c = "r" => BufferSound(buffer, more, from, TRUE)
        /\ c \notin {"r", "n"} => BufferSound(Append(buffer, c), more, from, TRUE)
        /\ c = "n" => /\ B!IsTextOf(buffer, more, from, Len(more))
                      /\ {p \in (from + 1)..Len(more) : more[p] = "n"} = {Len(more)}
                      /\ Len(more) \in from..Len(more)
    <3> HIDE DEF from
    <3> QED
      BY <1>1, <1>2, <1>6, CharacterTaken
  <2>2. taken' = more
    BY <1>4
  <2> HIDE DEF more, from
  <2> QED
    BY <2>1, <2>2
<1>10. CASE c # "n"
  <2>1. buffer' \in Seq(Text) /\ reading' = TRUE /\ pieces' = pieces
    <3>1. buffer' = IF c = "r" THEN buffer ELSE Append(buffer, c)
      BY <1>4, <1>10
    <3>2. Append(buffer, c) \in Seq(Text)
      BY <1>1, <1>6, AppendProperties
    <3>3. reading' = reading /\ pieces' = pieces
      BY <1>4, <1>10
    <3> QED
      BY <1>1, <3>1, <3>2, <3>3
  <2>2. BufferSound(buffer', taken', from, TRUE)
    BY <1>4, <1>9, <1>10
  <2>3. BufferSound(buffer', taken', Start(pieces', Len(pieces') + 1), reading')
    BY <2>1, <2>2
  <2>4. LineTypes'
    BY <1>1, <1>4, <1>6, <2>1 DEF LineTypes
  <2> QED
    BY <1>7, <1>8, <2>1, <2>3, <2>4 DEF SerialInv
<1>11. CASE c = "n"
  <2> DEFINE to == Len(taken')
             piece == [text |-> buffer, end |-> "newline", to |-> to]
  <2>1. piece \in Piece /\ piece.to = to /\ piece.text = buffer /\ piece.end = "newline"
    BY <1>1, <1>6 DEF Piece
  <2>2. pieces' = Append(pieces, piece) /\ reading' = FALSE /\ buffer' = <<>>
    BY <1>4, <1>11
  <2>3. Len(buffer) < READLINE_BUFFER_LEN
    BY <1>2, BufferFits DEF SerialInv
  <2>4. /\ B!IsTextOf(buffer, taken', from, to) /\ to \in from..to
        /\ {p \in (from + 1)..to : taken'[p] = "n"} = {to}
    BY <1>9, <1>11
  <2> HIDE DEF piece, to, from
  <2>5. to = Len(taken')
    BY DEF to
  <2>6. B!IsPieceOf(piece, taken', from)
    BY <2>1, <2>3, <2>4, <2>5 DEF B!IsPieceOf
  <2>7. /\ PiecesSound(pieces', taken') /\ pieces' \in Seq(Piece)
        /\ Start(pieces', Len(pieces') + 1) = to
    BY <1>1, <1>8, <2>1, <2>2, <2>6, PieceAdded DEF from
  <2>8. BufferSound(<<>>, taken', to, FALSE)
    BY <1>6, <2>5, BufferEmpty
  <2>9. BufferSound(buffer', taken', Start(pieces', Len(pieces') + 1), reading')
    BY <2>2, <2>7, <2>8
  <2>10. LineTypes'
    <3>1. buffer' \in Seq(Text) /\ reading' \in BOOLEAN
      BY <2>2, EmptySeq
    <3>2. UNCHANGED <<port, sent, wire>>
      BY <1>4
    <3> QED
      BY <1>1, <1>6, <2>7, <3>1, <3>2 DEF LineTypes
  <2> QED
    BY <1>7, <2>7, <2>9, <2>10 DEF SerialInv
<1> QED
  BY <1>10, <1>11

LEMMA ReadNothingStep ==
    ASSUME SerialInv, B!ReadNothing
    PROVE  SerialInv'
PROOF
<1> DEFINE from == Start(pieces, Len(pieces) + 1)
           to == Len(taken)
           piece == [text |-> buffer, end |-> port, to |-> to]
<1>1. /\ taken \in Seq(Text) /\ input \in Seq(Text) /\ wire \in Seq(Text) /\ sent \in Seq(Text)
      /\ buffer \in Seq(Text) /\ pieces \in Seq(Piece) /\ port \in {"unopened", "open", "gone"}
  BY DEF SerialInv, LineTypes
<1>2. /\ Flow /\ Framed /\ PiecesSound(pieces, taken) /\ BufferSound(buffer, taken, from, reading)
  BY DEF SerialInv
<1>3. /\ UNCHANGED <<port, sent, wire, input, taken>>
      /\ pieces' = Append(pieces, piece) /\ reading' = FALSE /\ buffer' = <<>>
  BY DEF B!ReadNothing, B!Return
<1>4. /\ piece \in Piece /\ piece.to = to /\ piece.text = buffer /\ piece.end # "newline"
      /\ to \in Nat
  BY <1>1 DEF Piece
<1>5. /\ B!IsTextOf(buffer, taken, from, to) /\ from \in 0..to
      /\ \A p \in (from + 1)..to : taken[p] # "n"
  BY <1>2 DEF BufferSound
<1>6. Len(buffer) < READLINE_BUFFER_LEN
  BY <1>2, BufferFits DEF SerialInv
<1> HIDE DEF from, piece
<1>7. {p \in (from + 1)..to : taken[p] = "n"} = {} /\ to \in from..to
  BY <1>4, <1>5
<1>8. B!IsPieceOf(piece, taken, from)
  BY <1>4, <1>5, <1>6, <1>7 DEF B!IsPieceOf
<1>9. /\ PiecesSound(pieces', taken) /\ pieces' \in Seq(Piece)
      /\ Start(pieces', Len(pieces') + 1) = to
  BY <1>1, <1>2, <1>3, <1>4, <1>8, PieceAdded DEF from
<1>10. BufferSound(buffer', taken', Start(pieces', Len(pieces') + 1), reading')
  BY <1>1, <1>3, <1>9, BufferEmpty
<1>11. LineTypes'
  <2>1. buffer' \in Seq(Text) /\ reading' \in BOOLEAN
    <3>1. buffer' = <<>> /\ reading' = FALSE
      BY <1>3
    <3> QED
      BY <3>1, EmptySeq
  <2>2. UNCHANGED <<port, sent, wire, input, taken>>
    BY <1>3
  <2> QED
    BY <1>1, <1>9, <2>1, <2>2 DEF LineTypes
<1>12. Flow' /\ Framed'
  BY <1>2, <1>3 DEF Flow, Framed
<1> QED
  BY <1>3, <1>9, <1>10, <1>11, <1>12 DEF SerialInv

\* Nothing was sent and nothing read.
SerialResting ==
  /\ port = "unopened" /\ sent = <<>> /\ wire = <<>> /\ input = <<>>
  /\ taken = <<>> /\ buffer = <<>> /\ reading = FALSE /\ pieces = <<>>

LEMMA SerialAtRest == SerialResting => SerialInv
PROOF
<1> SUFFICES ASSUME SerialResting
             PROVE  SerialInv
  OBVIOUS
<1> USE DEF SerialResting
<1>1. LineTypes
  BY EmptySeq DEF LineTypes
<1>2. taken \o input \o wire = sent
  <2>1. <<>> \o <<>> = <<>>
    BY EmptySeq, ConcatEmptySeq
  <2> QED
    BY <2>1
<1>3. Flow
  BY <1>2 DEF Flow
<1>4. Len(sent) = 0 /\ READLINE_BUFFER_LEN \in Nat /\ READLINE_BUFFER_LEN > 0
  BY EmptySeq, BindingsConstants
<1>5. Framed
  BY <1>4 DEF Framed, Windows
<1>6. Start(pieces, Len(pieces) + 1) = 0 /\ DOMAIN pieces = {} /\ Len(taken) = 0
  BY EmptySeq DEF Start
<1>7. BufferSound(<<>>, taken, Len(taken), FALSE)
  BY <1>1, BufferEmpty DEF LineTypes
<1> QED
  BY <1>1, <1>3, <1>5, <1>6, <1>7 DEF SerialInv, PiecesSound

LEMMA SerialSteps ==
    ASSUME SerialInv, [B!Next]_(B!vars)
    PROVE  SerialInv'
PROOF
<1>1. CASE B!SendLine
  BY <1>1, SendLineStep
<1>2. CASE B!Arrive
  BY <1>2, ArriveStep
<1>3. CASE B!SerialRead
  BY <1>3, SerialReadStep
<1>4. CASE B!ReadChar
  BY <1>4, ReadCharStep
<1>5. CASE B!ReadNothing
  BY <1>5, ReadNothingStep
<1>6. CASE B!Unplug
  BY <1>6, UnplugStep
<1>7. CASE UNCHANGED serialVars
  BY <1>7 DEF serialVars, SerialInv, LineTypes, Flow, Framed
<1>8. CASE B!OpenForSave \/ B!WriteAndClose \/ B!WriteBack \/ B!l_load \/ UNCHANGED B!vars
  <2>1. UNCHANGED serialVars
    BY <1>8 DEF B!OpenForSave, B!WriteAndClose, B!WriteBack, B!l_load, B!vars,
                B!serialVars, serialVars
  <2> QED
    BY <1>7, <2>1
<1>9. CASE B!PowerCut
  <2>1. SerialResting'
    BY <1>9 DEF B!PowerCut, SerialResting
  <2>2. SerialResting' => SerialInv'
    BY SerialAtRest, PTL
  <2> QED
    BY <2>1, <2>2
<1> QED
  BY <1>1, <1>2, <1>3, <1>4, <1>5, <1>6, <1>8, <1>9 DEF B!Next, B!Reads

-----------------------------------------------------------------------------
(* Files *)

\* A beginning of one of the saves.
IsStage(s, them) == s \in Seq(FileText) /\ \E i \in DOMAIN them : B!IsPrefix(s, them[i])

StoreInv ==
  /\ saves \in Seq(Values) /\ whole \in BOOLEAN
  /\ \A s \in disk \cup {file} : s = NoFile \/ IsStage(s, saves)
  /\ saving # NoFile =>
       saves # <<>> /\ saving = saves[1] /\ file = <<>> /\ loaded = NoFile
  /\ whole => saves # <<>> /\ file = saves[1] /\ saving = NoFile
  /\ StoreSound

LEMMA StoreInvGivesStore == StoreInv => StoreSound
BY DEF StoreInv

LEMMA SavesTypes ==
    ASSUME NEW them \in Seq(Values), NEW i \in DOMAIN them
    PROVE  them[i] \in Values /\ them[i] \in Seq(FileText) /\ them[i] # NoFile
PROOF
<1>1. them[i] \in Values
  OBVIOUS
<1> QED
  BY <1>1, BindingsConstants

\* The beginning of a value, and what is written over an empty file.
LEMMA Beginning ==
    ASSUME NEW v \in Seq(FileText), NEW n \in 0..Len(v)
    PROVE  /\ SubSeq(v, 1, n) \in Seq(FileText) /\ Len(SubSeq(v, 1, n)) = n
           /\ B!IsPrefix(SubSeq(v, 1, n), v)
PROOF
<1>1. \A i \in 1..n : v[i] \in FileText
  OBVIOUS
<1>2. /\ SubSeq(v, 1, n) \in Seq(FileText)
      /\ Len(SubSeq(v, 1, n)) = IF 1 <= n THEN n - 1 + 1 ELSE 0
  BY <1>1, SubSeqProperties
<1>3. Len(SubSeq(v, 1, n)) = n
  BY <1>2
<1>4. SubSeq(SubSeq(v, 1, n), 1, Len(SubSeq(v, 1, n))) = SubSeq(v, 1, n)
  BY <1>2, SubSeqFull
<1> QED
  BY <1>2, <1>3, <1>4 DEF B!IsPrefix

LEMMA WholeIsPrefix == \A v \in Seq(FileText) : B!IsPrefix(v, v)
BY DEF B!IsPrefix

LEMMA OverNothing == \A v \in Seq(FileText) : B!Over(<<>>, v) = v
PROOF
<1> SUFFICES ASSUME NEW v \in Seq(FileText)
             PROVE  B!Over(<<>>, v) = v
  OBVIOUS
<1>1. Len(v) + 1 \in Int /\ Len(<<>>) \in Int /\ Len(<<>>) < Len(v) + 1
  OBVIOUS
<1>2. SubSeq(<<>>, Len(v) + 1, Len(<<>>)) = <<>>
  BY <1>1, SubSeqEmpty
<1>3. v \o <<>> = v
  BY ConcatEmptySeq
<1> QED
  BY <1>2, <1>3 DEF B!Over

\* A value saved earlier is still among the saves, one place further on.
LEMMA SavesGrow ==
    ASSUME NEW them \in Seq(Values), NEW v \in Values
    PROVE  /\ <<v>> \o them \in Seq(Values) /\ <<v>> \o them # <<>> /\ (<<v>> \o them)[1] = v
           /\ \A s : IsStage(s, them) => IsStage(s, <<v>> \o them)
           /\ IsStage(<<>>, <<v>> \o them)
PROOF
<1> DEFINE one == <<v>>
           more == one \o them
<1>1. one \in Seq(Values) /\ Len(one) = 1 /\ one[1] = v
  OBVIOUS
<1>2. Len(them) \in Nat /\ DOMAIN them = 1..Len(them)
  OBVIOUS
<1> HIDE DEF one
<1>3. /\ more \in Seq(Values) /\ Len(more) = 1 + Len(them)
      /\ \A i \in 1..(1 + Len(them)) : more[i] = IF i <= 1 THEN one[i] ELSE them[i - 1]
  <2>1. /\ more \in Seq(Values) /\ Len(more) = Len(one) + Len(them)
        /\ \A i \in 1..(Len(one) + Len(them)) :
             more[i] = IF i <= Len(one) THEN one[i] ELSE them[i - Len(one)]
    BY <1>1, ConcatProperties
  <2> QED
    BY <1>1, <2>1
<1> HIDE DEF more
<1>4. DOMAIN more = 1..(1 + Len(them)) /\ more # <<>> /\ more[1] = v
  BY <1>1, <1>2, <1>3, EmptySeq
<1>5. ASSUME NEW i \in 1..Len(them)
      PROVE  i + 1 \in DOMAIN more /\ more[i + 1] = them[i]
  <2>1. i + 1 \in 1..(1 + Len(them)) /\ ~(i + 1 <= 1) /\ i + 1 - 1 = i
    BY <1>2
  <2> QED
    BY <1>3, <1>4, <2>1
<1>6. ASSUME NEW s, IsStage(s, them) PROVE IsStage(s, more)
  <2>1. PICK i \in DOMAIN them : B!IsPrefix(s, them[i])
    BY <1>6 DEF IsStage
  <2>2. i + 1 \in DOMAIN more /\ more[i + 1] = them[i]
    BY <1>2, <1>5
  <2> QED
    BY <1>6, <2>1, <2>2 DEF IsStage
<1>7. IsStage(<<>>, more)
  <2>1. 1 \in DOMAIN more /\ more[1] \in Seq(FileText)
    BY <1>2, <1>3, <1>4, SavesTypes
  <2>2. SubSeq(<<>>, 1, 0) = <<>> /\ SubSeq(more[1], 1, 0) = <<>>
    BY SubSeqEmpty
  <2>3. Len(<<>>) = 0 /\ Len(more[1]) \in Nat
    BY <2>1
  <2>4. B!IsPrefix(<<>>, more[1])
    BY <2>2, <2>3 DEF B!IsPrefix
  <2> QED
    BY <2>1, <2>4, EmptySeq DEF IsStage
<1>8. \A s : IsStage(s, them) => IsStage(s, more)
  BY <1>6
<1> QED
  BY <1>3, <1>4, <1>7, <1>8 DEF more, one

-----------------------------------------------------------------------------
(* The steps of the file store *)

LEMMA OpenForSaveStep ==
    ASSUME StoreInv, B!OpenForSave
    PROVE  StoreInv'
PROOF
<1>1. /\ saves \in Seq(Values)
      /\ \A s \in disk \cup {file} : s = NoFile \/ IsStage(s, saves)
  BY DEF StoreInv
<1>2. loaded' = NoFile
  BY DEF B!OpenForSave
<1>3. StoreSound'
  BY <1>2 DEF StoreSound, B!StoreSound
<1>4. ASSUME NEW v \in Values, saving' = v, saves' = <<v>> \o saves,
             file' = <<>>, disk' = disk \cup {<<>>}, whole' = FALSE
      PROVE  StoreInv'
  <2>1. /\ saves' \in Seq(Values) /\ saves' # <<>> /\ saves'[1] = v
        /\ \A s : IsStage(s, saves) => IsStage(s, saves')
        /\ IsStage(<<>>, saves')
    BY <1>1, <1>4, SavesGrow
  <2>2. \A s \in disk' \cup {file'} : s = NoFile \/ IsStage(s, saves')
    BY <1>1, <1>4, <2>1
  <2>3. v # NoFile
    BY BindingsConstants
  <2> QED
    BY <1>2, <1>3, <1>4, <2>1, <2>2, <2>3 DEF StoreInv
<1>5. CASE UNCHANGED <<file, disk, saving, saves, whole>>
  BY <1>2, <1>3, <1>5 DEF StoreInv
<1>6. \/ \E v \in Values : /\ saving' = v /\ saves' = <<v>> \o saves
                           /\ file' = <<>> /\ disk' = disk \cup {<<>>} /\ whole' = FALSE
      \/ UNCHANGED <<file, disk, saving, saves, whole>>
  BY DEF B!OpenForSave
<1> QED
  BY <1>4, <1>5, <1>6

LEMMA WriteAndCloseStep ==
    ASSUME StoreInv, B!WriteAndClose
    PROVE  StoreInv'
PROOF
<1>1. /\ saves \in Seq(Values)
      /\ \A s \in disk \cup {file} : s = NoFile \/ IsStage(s, saves)
      /\ saves # <<>> /\ saving = saves[1] /\ file = <<>> /\ loaded = NoFile
  BY DEF StoreInv, B!WriteAndClose
<1>2. PICK n \in 0..Len(saving) :
        /\ file' = B!Over(<<>>, SubSeq(saving, 1, n)) /\ whole' = (n = Len(saving))
        /\ disk' = disk \cup {B!Over(<<>>, SubSeq(saving, 1, k)) : k \in 0..n}
  BY <1>1 DEF B!WriteAndClose
<1>3. saving' = NoFile /\ UNCHANGED <<saves, loaded>>
  BY DEF B!WriteAndClose
<1>4. 1 \in DOMAIN saves /\ saving \in Seq(FileText)
  <2>1. 1 \in DOMAIN saves
    BY <1>1, EmptySeq
  <2> QED
    BY <1>1, <2>1, SavesTypes
<1>5. ASSUME NEW k \in 0..Len(saving)
      PROVE  /\ B!Over(<<>>, SubSeq(saving, 1, k)) = SubSeq(saving, 1, k)
             /\ IsStage(SubSeq(saving, 1, k), saves)
  <2>1. SubSeq(saving, 1, k) \in Seq(FileText) /\ B!IsPrefix(SubSeq(saving, 1, k), saving)
    BY <1>4, Beginning
  <2>2. B!Over(<<>>, SubSeq(saving, 1, k)) = SubSeq(saving, 1, k)
    BY <2>1, OverNothing
  <2> QED
    BY <1>1, <1>4, <2>1, <2>2 DEF IsStage
<1>6. file' = SubSeq(saving, 1, n) /\ IsStage(file', saves)
  BY <1>2, <1>5
<1>7. \A s \in disk' \cup {file'} : s = NoFile \/ IsStage(s, saves')
  <2>1. \A k \in 0..n : k \in 0..Len(saving)
    BY <1>2, <1>4
  <2> QED
    BY <1>1, <1>2, <1>3, <1>5, <1>6, <2>1
<1>8. whole' \in BOOLEAN /\ (whole' => file' = saves'[1])
  <2>1. SubSeq(saving, 1, Len(saving)) = saving
    BY <1>4, SubSeqFull
  <2> QED
    BY <1>1, <1>2, <1>3, <1>6, <2>1
<1>9. StoreSound'
  BY <1>1, <1>3 DEF StoreSound, B!StoreSound
<1> QED
  BY <1>1, <1>3, <1>7, <1>8, <1>9 DEF StoreInv

LEMMA WriteBackStep ==
    ASSUME StoreInv, B!WriteBack
    PROVE  StoreInv'
PROOF
<1>1. disk' = {file} /\ UNCHANGED <<file, saving, saves, whole, loaded>>
  BY DEF B!WriteBack
<1>2. StoreSound'
  BY <1>1 DEF StoreInv, StoreSound, B!StoreSound
<1> QED
  BY <1>1, <1>2 DEF StoreInv

\* lua_pushstring takes a beginning of what was read.
LEMMA CutAtNul ==
    ASSUME NEW v \in Seq(FileText)
    PROVE  /\ B!IsPrefix(B!UpToNul(v), v) /\ Len(B!UpToNul(v)) \in 0..Len(v)
           /\ B!UpToNul(v) = SubSeq(v, 1, Len(B!UpToNul(v)))
PROOF
<1> DEFINE places == B!Nuls(v)
           first == B!Min(places)
<1>1. places \subseteq 1..Len(v) /\ Len(v) \in Nat
  BY DEF B!Nuls
<1> HIDE DEF places
<1>2. ASSUME places # {}
      PROVE  first - 1 \in 0..Len(v)
  <2>1. places \subseteq Nat
    BY <1>1
  <2>2. PICK u \in places : \A i \in places : ~(<<i, u>> \in OpToRel(<, Nat))
    BY <1>2, <2>1, WFMin, NatLessThanWellFounded, Zenon
  <2>3. \A i \in places : ~(i < u)
    BY <2>1, <2>2, Zenon DEF OpToRel
  <2>4. \A i \in places : u =< i
    BY <2>1, <2>3
  <2>5. first \in places
    BY <2>2, <2>4 DEF B!Min
  <2> HIDE DEF first
  <2> QED
    BY <1>1, <2>5
<1> HIDE DEF first
<1>3. PICK n \in 0..Len(v) : B!UpToNul(v) = SubSeq(v, 1, n)
  <2>1. CASE places = {}
    <3>1. B!UpToNul(v) = v /\ v = SubSeq(v, 1, Len(v)) /\ Len(v) \in 0..Len(v)
      BY <1>1, <2>1, SubSeqFull DEF B!UpToNul, places
    <3> QED
      BY <3>1
  <2>2. CASE places # {}
    <3>1. B!UpToNul(v) = SubSeq(v, 1, first - 1)
      BY <2>2 DEF B!UpToNul, places, first
    <3> QED
      BY <1>2, <2>2, <3>1
  <2> QED
    BY <2>1, <2>2
<1>4. Len(SubSeq(v, 1, n)) = n /\ B!IsPrefix(SubSeq(v, 1, n), v)
  BY Beginning
<1> QED
  BY <1>3, <1>4

LEMMA PrefixesChain ==
    ASSUME NEW r \in Seq(FileText), NEW s \in Seq(FileText), NEW v \in Seq(FileText),
           B!IsPrefix(r, s), B!IsPrefix(s, v)
    PROVE  B!IsPrefix(r, v)
PROOF
<1> DEFINE n == Len(r)
           m == Len(s)
<1>1. n \in Nat /\ m \in Nat /\ Len(v) \in Nat /\ n <= m /\ m <= Len(v)
  BY DEF B!IsPrefix
<1>2. SubSeq(r, 1, n) = SubSeq(s, 1, n) /\ SubSeq(s, 1, m) = SubSeq(v, 1, m)
  BY DEF B!IsPrefix
<1> HIDE DEF n, m
<1>3. \A i \in 1..m : s[i] = v[i]
  <2> SUFFICES ASSUME NEW i \in 1..m
               PROVE  s[i] = v[i]
    OBVIOUS
  <2>1. SubSeq(s, 1, m)[i] = s[i] /\ SubSeq(v, 1, m)[i] = v[i]
    BY <1>1 DEF m
  <2> QED
    BY <1>2, <2>1
<1>4. SubSeq(s, 1, n) = SubSeq(v, 1, n)
  BY <1>1, <1>3 DEF m
<1> QED
  BY <1>1, <1>2, <1>4 DEF B!IsPrefix, n, m

\* load pushes a beginning of the file, and after a whole save a text with a NUL ends there.
LEMMA LoadStep ==
    ASSUME StoreInv, B!l_load
    PROVE  StoreInv'
PROOF
<1>1. /\ saves \in Seq(Values)
      /\ file = NoFile \/ IsStage(file, saves)
      /\ saving = NoFile /\ (whole => file = saves[1])
  BY DEF StoreInv, B!l_load, B!Idle
<1>2. UNCHANGED <<file, disk, saving, saves, whole>>
  BY DEF B!l_load
<1>3. CASE loaded' = NoFile
  <2>1. StoreSound'
    BY <1>3 DEF StoreSound, B!StoreSound
  <2> QED
    BY <1>1, <1>2, <2>1 DEF StoreInv
<1>4. CASE file # NoFile /\ \E n \in 0..Len(file), rest \in Rests :
             LET read == SubSeq(file, 1, n)
             IN  loaded' = [text |-> B!UpToNul(read), all |-> n = Len(file),
                            rest |-> IF B!Nuls(read) = {} THEN rest ELSE <<>>]
  <2>1. PICK n \in 0..Len(file), rest \in Rests :
          loaded' = [text |-> B!UpToNul(SubSeq(file, 1, n)), all |-> n = Len(file),
                     rest |-> IF B!Nuls(SubSeq(file, 1, n)) = {} THEN rest ELSE <<>>]
    BY <1>4
  <2>2. PICK i \in DOMAIN saves : B!IsPrefix(file, saves[i])
    BY <1>1, <1>4 DEF IsStage
  <2>3. file \in Seq(FileText) /\ saves[i] \in Seq(FileText)
    BY <1>1, <1>4, SavesTypes DEF IsStage
  <2> DEFINE read == SubSeq(file, 1, n)
  <2>4. read \in Seq(FileText) /\ B!IsPrefix(read, file)
    BY <2>3, Beginning
  <2>5. n = Len(file) => read = file
    BY <2>3, SubSeqFull
  <2>6. /\ loaded'.text = B!UpToNul(read) /\ loaded'.all = (n = Len(file))
        /\ B!Nuls(read) # {} => loaded'.rest = <<>>
    BY <2>1
  <2> HIDE DEF read
  <2>7. B!UpToNul(read) \in Seq(FileText) /\ B!IsPrefix(B!UpToNul(read), read)
    <3>1. /\ B!IsPrefix(B!UpToNul(read), read) /\ Len(B!UpToNul(read)) \in 0..Len(read)
          /\ B!UpToNul(read) = SubSeq(read, 1, Len(B!UpToNul(read)))
      BY <2>4, CutAtNul
    <3>2. SubSeq(read, 1, Len(B!UpToNul(read))) \in Seq(FileText)
      BY <2>4, <3>1, Beginning
    <3> QED
      BY <3>1, <3>2
  <2>8. B!IsPrefix(loaded'.text, saves[i])
    <3>1. B!IsPrefix(B!UpToNul(read), file)
      BY <2>3, <2>4, <2>7, PrefixesChain
    <3> QED
      BY <2>2, <2>3, <2>6, <2>7, <3>1, PrefixesChain
  <2>9. whole /\ loaded'.all => /\ loaded'.text = B!UpToNul(saves[1])
                                /\ B!Nuls(saves[1]) # {} => loaded'.rest = <<>>
    BY <1>1, <2>5, <2>6
  <2>10. StoreSound'
    BY <1>2, <2>2, <2>8, <2>9 DEF StoreSound, B!StoreSound
  <2> QED
    BY <1>1, <1>2, <2>10 DEF StoreInv
<1> QED
  BY <1>3, <1>4 DEF B!l_load

LEMMA PowerCutStep ==
    ASSUME StoreInv, B!PowerCut
    PROVE  StoreInv'
PROOF
<1>1. PICK left \in disk : file' = left /\ disk' = {left}
  BY DEF B!PowerCut
<1>2. /\ whole' = (whole /\ disk = {file})
      /\ saving' = NoFile /\ loaded' = NoFile /\ saves' = saves
  BY DEF B!PowerCut
<1>3. whole' => whole /\ file' = file
  BY <1>1, <1>2
<1>4. StoreSound'
  BY <1>2 DEF StoreSound, B!StoreSound
<1> QED
  BY <1>1, <1>2, <1>3, <1>4 DEF StoreInv

LEMMA StoreSteps ==
    ASSUME StoreInv, [B!Next]_(B!vars)
    PROVE  StoreInv'
PROOF
<1>1. CASE B!OpenForSave
  BY <1>1, OpenForSaveStep
<1>2. CASE B!WriteAndClose
  BY <1>2, WriteAndCloseStep
<1>3. CASE B!WriteBack
  BY <1>3, WriteBackStep
<1>4. CASE B!l_load
  BY <1>4, LoadStep
<1>5. CASE B!PowerCut
  BY <1>5, PowerCutStep
<1>6. CASE B!SendLine \/ B!Arrive \/ B!SerialRead \/ B!Reads \/ B!Unplug \/ UNCHANGED B!vars
  <2>1. UNCHANGED <<file, disk, saving, saves, whole, loaded, cuts>>
    BY <1>6 DEF B!SendLine, B!Arrive, B!SerialRead, B!Reads, B!ReadChar, B!ReadNothing,
                B!Unplug, B!vars, B!storeVars
  <2>2. StoreSound'
    BY <2>1 DEF StoreInv, StoreSound, B!StoreSound
  <2> QED
    BY <2>1, <2>2 DEF StoreInv
<1> QED
  BY <1>1, <1>2, <1>3, <1>4, <1>5, <1>6 DEF B!Next

-----------------------------------------------------------------------------
LEMMA BindingsStep == [Next]_vars => [B!Next]_(B!vars)
BY DEF Next, vars, OnlySerial, OnlyFiles, OnlyBcm2835, OnlyAux, OnlyPins, AtRest, Others,
       serialVars, storeVars, B!vars, B!serialVars, B!storeVars

LEMMA StoreAtRest == B!Init => StoreInv
PROOF
<1> SUFFICES ASSUME B!Init
             PROVE  StoreInv
  OBVIOUS
<1>1. /\ file = NoFile /\ disk = {NoFile} /\ saving = NoFile /\ saves = <<>>
      /\ loaded = NoFile /\ whole = FALSE
  BY DEF B!Init
<1>2. saves \in Seq(Values)
  BY <1>1, EmptySeq
<1> QED
  BY <1>1, <1>2 DEF StoreInv, StoreSound, B!StoreSound

\* What serial_read returns is never a mixture of two lines, skips and repeats no
\* character, and fits readline_buffer, whatever lines the other end sends and
\* wherever the cable is pulled (serial.c:17-60).
THEOREM NoLineTorn == Spec => []LinesIntact
PROOF
<1>1. Init => SerialInv
  <2>1. Init => SerialResting
    BY DEF Init, B!Init, SerialResting
  <2> QED
    BY <2>1, SerialAtRest
<1>2. SerialInv /\ [Next]_vars => SerialInv'
  BY BindingsStep, SerialSteps
<1>3. SerialInv => LinesIntact
  BY SerialInvGivesLines
<1> QED
  BY <1>1, <1>2, <1>3, PTL DEF Spec

\* What load has from the file is the beginning of one saved value, whichever opens,
\* writes and reads fail and wherever the power does; and the last value whose file
\* could be opened, up to a NUL, once it was written whole and until a power cut comes
\* before it is on the disk (lua-config.c:103-157).
THEOREM NoValueMixed == Spec => []StoreSound
PROOF
<1>1. Init => StoreInv
  BY StoreAtRest DEF Init
<1>2. StoreInv /\ [Next]_vars => StoreInv'
  BY BindingsStep, StoreSteps
<1>3. StoreInv => StoreSound
  BY StoreInvGivesStore
<1> QED
  BY <1>1, <1>2, <1>3, PTL DEF Spec

=============================================================================

------------------------------ MODULE Bindings -------------------------------
(***************************************************************************)
(* The calls of keybow.lua that leave the process: reading lines from the  *)
(* serial port (serial.c) and keeping values in files (l_save and l_load   *)
(* of lua-config.c).  Handlers make them one after the other on the main   *)
(* thread; the other end of the line and the power of the Pi do what they  *)
(* want meanwhile.  A character is "n" for a newline, "r" for a carriage   *)
(* return, "0" for a NUL, or any other value; a text is a sequence of      *)
(* characters.                                                             *)
(***************************************************************************)
EXTENDS Integers, Sequences, SequencesExt

CONSTANTS
  Chars,               \* the characters of texts other than the newline
  Lines,               \* what the other end sends, each without its newline
  READLINE_BUFFER_LEN, \* 512 in the source
  MaxSent,             \* bound on the characters sent
  MaxReads,            \* bound on the reads of one connection
  Values,              \* what handlers save
  NoFile,              \* the file does not exist
  Rests,               \* what malloc may have left behind a text, up to a NUL
  MaxSaves,            \* bound on saves
  MaxCuts              \* bound on power cuts

\* The code does not look at the size of readline_buffer: lines are taken to fit,
\* with their terminator.
BindingsAssumption ==
  /\ Lines \subseteq Seq(Chars) /\ "n" \notin Chars
  /\ READLINE_BUFFER_LEN \in Nat \ {0} /\ \A line \in Lines : Len(line) < READLINE_BUFFER_LEN
  /\ Values \subseteq Seq(Chars \cup {"n", "0"}) /\ NoFile \notin Values /\ MaxCuts \in Nat

VARIABLES
  port,      \* port_fd: "unopened", "open", or "gone" after the cable was pulled
  sent,      \* history: the characters sent since the port was opened or lost
  wire,      \* characters that the other end has sent and are still to arrive
  input,     \* characters in the tty's input queue
  taken,     \* history: the characters that read has returned
  buffer,    \* what sp_readline has stored since it was called
  reading,   \* a handler is in sp_readline
  pieces,    \* history: what the calls returned, with how they ended, and how many
             \* characters had been taken then
  file,      \* the file as the process sees it
  disk,      \* what a power cut may leave of it
  saving,    \* l_save: the value still to be written, or NoFile
  saves,     \* history: the values whose file was opened, the last one first
  whole,     \* history: the last of them was written and is not lost
  loaded,    \* history: what the last l_load returned: what it has from the file, what
             \* follows that, and whether the file was read to its end
  cuts       \* power cuts left

serialVars == <<port, sent, wire, input, taken, buffer, reading, pieces>>
storeVars == <<file, disk, saving, saves, whole, loaded, cuts>>
vars == <<serialVars, storeVars>>

Init ==
  /\ port = "unopened" /\ sent = <<>> /\ wire = <<>> /\ input = <<>>
  /\ taken = <<>> /\ buffer = <<>> /\ reading = FALSE /\ pieces = <<>>
  /\ file = NoFile /\ disk = {NoFile} /\ saving = NoFile
  /\ saves = <<>> /\ whole = FALSE /\ loaded = NoFile /\ cuts = MaxCuts

Idle == ~reading /\ saving = NoFile

-----------------------------------------------------------------------------
(* The serial port *)

\* The other end sends a line; its characters arrive when they do.
SendLine ==
  /\ Len(sent) < MaxSent /\ port # "gone"
  /\ \E line \in Lines : wire' = wire \o line \o <<"n">> /\ sent' = sent \o line \o <<"n">>
  /\ UNCHANGED <<port, input, taken, buffer, reading, pieces, storeVars>>

Arrive ==
  /\ wire # <<>> /\ port = "open"
  /\ input' = Append(input, Head(wire)) /\ wire' = Tail(wire)
  /\ UNCHANGED <<port, sent, taken, buffer, reading, pieces, storeVars>>

\* serial_open: only a port that was never opened is, if it can be; the descriptor
\* of a port that is gone is kept.
serial_open == port' \in IF port = "unopened" THEN {"unopened", "open"} ELSE {port}

SerialRead ==
  /\ Idle /\ Len(pieces) < MaxReads /\ serial_open /\ reading' = TRUE /\ buffer' = <<>>
  /\ UNCHANGED <<sent, wire, input, taken, pieces, storeVars>>

\* sp_readline stores what it takes but for carriage returns.
Stored(c) == IF c = "r" THEN buffer ELSE Append(buffer, c)
Return(why) ==
  /\ pieces' = Append(pieces, [text |-> buffer, end |-> why, to |-> Len(taken')])
  /\ reading' = FALSE /\ buffer' = <<>>

\* Mutant: a newline does not end the line.
ReadChar_NoBreak ==
  /\ reading /\ input # <<>>
  /\ input' = Tail(input) /\ taken' = Append(taken, Head(input))
  /\ buffer' = Stored(Head(input)) /\ UNCHANGED <<reading, pieces>>
  /\ UNCHANGED <<port, sent, wire, storeVars>>

\* read returned a character.
ReadChar ==
  /\ reading /\ input # <<>>
  /\ input' = Tail(input) /\ taken' = Append(taken, Head(input))
  /\ IF Head(input) = "n"
     THEN Return("newline")
     ELSE buffer' = Stored(Head(input)) /\ UNCHANGED <<reading, pieces>>
  /\ UNCHANGED <<port, sent, wire, storeVars>>

\* Mutant: VMIN = 1, a read waits for ever.
ReadNothing_Blocks ==
  /\ reading /\ input = <<>> /\ port = "gone"
  /\ UNCHANGED taken /\ Return(port)
  /\ UNCHANGED <<port, sent, wire, input, storeVars>>

\* read returned 0 after a second without a character (VTIME), or an error.
ReadNothing ==
  /\ reading /\ input = <<>>
  /\ UNCHANGED taken /\ Return(port)
  /\ UNCHANGED <<port, sent, wire, input, storeVars>>

\* The cable is pulled: what was not read is lost.
Unplug ==
  /\ port = "open" /\ port' = "gone" /\ input' = <<>> /\ wire' = <<>>
  /\ UNCHANGED <<sent, taken, buffer, reading, pieces, storeVars>>

-----------------------------------------------------------------------------
(* Files *)

\* Mutant of OpenForSave: fopen with "r+" keeps the old text.
OpenForSave_Kept ==
  /\ Idle /\ Len(saves) < MaxSaves
  /\ \E v \in Values : saving' = v /\ saves' = <<v>> \o saves
  /\ file' = IF file = NoFile THEN <<>> ELSE file
  /\ disk' = disk \cup {file'}
  /\ whole' = FALSE /\ loaded' = NoFile /\ UNCHANGED <<serialVars, cuts>>

\* l_save: fopen with "w" truncates, or fails, and nobody is told; fwrite and fclose
\* follow, without fsync.  Until the kernel has written back, a power cut leaves any
\* stage on the disk.
OpenForSave ==
  /\ Idle /\ Len(saves) < MaxSaves
  /\ \/ /\ \E v \in Values : saving' = v /\ saves' = <<v>> \o saves
        /\ file' = <<>> /\ disk' = disk \cup {<<>>} /\ whole' = FALSE
     \/ UNCHANGED <<file, disk, saving, saves, whole>>
  /\ loaded' = NoFile /\ UNCHANGED <<serialVars, cuts>>

\* The card may be full or fail: n characters get there, and nobody looks at the
\* results.
Over(old, new) == new \o SubSeq(old, Len(new) + 1, Len(old))
WriteAndClose ==
  /\ saving # NoFile /\ saving' = NoFile
  /\ \E n \in 0..Len(saving) :
       /\ file' = Over(file, SubSeq(saving, 1, n)) /\ whole' = (n = Len(saving))
       /\ disk' = disk \cup {Over(file, SubSeq(saving, 1, k)) : k \in 0..n}
  /\ UNCHANGED <<serialVars, saves, loaded, cuts>>

WriteBack ==
  /\ disk # {file} /\ disk' = {file}
  /\ UNCHANGED <<serialVars, file, saving, saves, whole, loaded, cuts>>

\* What lua_pushstring takes of a text that has a NUL.
Nuls(text) == {i \in DOMAIN text : text[i] = "0"}
UpToNul(text) == IF Nuls(text) = {} THEN text ELSE SubSeq(text, 1, Min(Nuls(text)) - 1)

\* l_load: fread may fail after n characters.  What is in the buffer is not
\* terminated: without a NUL of its own the text goes on with what malloc left there.
l_load ==
  /\ Idle
  /\ \/ loaded' = NoFile     \* no file, or fopen fails
     \/ /\ file # NoFile
        /\ \E n \in 0..Len(file), rest \in Rests :
             LET read == SubSeq(file, 1, n)
             IN  loaded' = [text |-> UpToNul(read), all |-> n = Len(file),
                            rest |-> IF Nuls(read) = {} THEN rest ELSE <<>>]
  /\ UNCHANGED <<serialVars, file, disk, saving, saves, whole, cuts>>

\* The Pi loses its power and boots again.
PowerCut ==
  /\ cuts > 0 /\ cuts' = cuts - 1
  /\ \E left \in disk : file' = left /\ disk' = {left}
  /\ whole' = (whole /\ disk = {file})
  /\ saving' = NoFile /\ loaded' = NoFile
  /\ port' = "unopened" /\ reading' = FALSE
  /\ sent' = <<>> /\ wire' = <<>> /\ input' = <<>>
  /\ taken' = <<>> /\ buffer' = <<>> /\ pieces' = <<>>
  /\ UNCHANGED saves

-----------------------------------------------------------------------------
Reads == ReadChar \/ ReadNothing
Next == SendLine \/ Arrive \/ SerialRead \/ Reads \/ Unplug
          \/ OpenForSave \/ WriteAndClose \/ WriteBack \/ l_load \/ PowerCut

\* A read returns within a second and a write returns; nobody need send,
\* and a handler need not call.
Fairness == WF_vars(Reads) /\ WF_vars(WriteAndClose)
Spec == Init /\ [][Next]_vars /\ Fairness

-----------------------------------------------------------------------------
\* Where the characters of a call begin, after those of the call before.
From(i) == IF i = 1 THEN 0 ELSE pieces[i - 1].to

\* The text is the characters of raw from one place to another, in order, without
\* carriage returns and newlines: f is where its characters come from.
IsTextOf(text, raw, from, to) ==
  \E f \in [DOMAIN text -> (from + 1)..to] :
    /\ \A j, k \in DOMAIN text : j < k => f[j] < f[k]
    /\ \A j \in DOMAIN text : text[j] = raw[f[j]]
    /\ \A p \in (from + 1)..to :
         raw[p] \notin {"r", "n"} <=> \E j \in DOMAIN text : f[j] = p

\* A piece ends with its line, or has no newline.
IsPieceOf(piece, raw, from) ==
  /\ piece.to \in from..Len(raw)
  /\ {p \in (from + 1)..piece.to : raw[p] = "n"}
       = IF piece.end = "newline" THEN {piece.to} ELSE {}
  /\ IsTextOf(piece.text, raw, from, piece.to)
  /\ Len(piece.text) < READLINE_BUFFER_LEN

\* What keybow.serial_read returns is never a mixture of two lines, although one
\* line may come in several pieces: a piece ends with its line unless a second
\* passed without a character or the cable is out, nothing that arrived is
\* skipped or read twice, and a line that fits readline_buffer never leaves it.
LinesIntact ==
  /\ IF port = "gone" THEN IsPrefix(taken, sent) ELSE taken \o input \o wire = sent
  /\ \A i \in DOMAIN pieces : IsPieceOf(pieces[i], taken, From(i))
  /\ ~reading => From(Len(pieces) + 1) = Len(taken)
  /\ IsTextOf(buffer, taken, From(Len(pieces) + 1), Len(taken))
  /\ Len(buffer) < READLINE_BUFFER_LEN

\* What keybow.load has from the file is the beginning of one saved value and never a
\* mixture of two, whichever opens, writes and reads failed and wherever the power was
\* cut.  Once a save has written everything, and until the power fails before the kernel
\* has written that back, it is the last value whose file could be opened, up to
\* its first NUL; and nothing follows if there is one.
StoreSound ==
  loaded # NoFile =>
    /\ \E i \in DOMAIN saves : IsPrefix(loaded.text, saves[i])
    /\ (whole /\ loaded.all) =>
         /\ loaded.text = UpToNul(saves[1])
         /\ (Nuls(saves[1]) # {}) => (loaded.rest = <<>>)

\* No binding keeps the main thread: each call returns.
CallsEnd == ~Idle ~> Idle
=============================================================================

-------------------------- MODULE TransfersProofs ---------------------------
(***************************************************************************)
(* A theorem about the transfers of Devices: whatever the depth of the     *)
(* FIFOs and the lengths and delays asked for, and however the controllers *)
(* and the process take turns, a call that reports success has moved its   *)
(* bytes once and in order, and no delay ends early.  Each kind of         *)
(* transfer has its invariant, that places every byte on the line, in one  *)
(* of the FIFOs or in rbuf: SpiInv, I2cInv and DelayInv for Bcm2835, XInv   *)
(* for AuxSpi.                                                             *)
(***************************************************************************)
EXTENDS Devices, SequenceTheorems, TLAPS

LEMMA TransfersConstants ==
    /\ FIFO \in Nat /\ FIFO > 0 /\ Word \in Nat /\ Word > 0
    /\ SpiLengths \subseteq Nat /\ I2cLengths \subseteq Nat \ {0} /\ Micros \subseteq Nat
    /\ AUX_FIFO \in Nat /\ AUX_FIFO > 0 /\ AuxLengths \subseteq Nat
BY TransfersFit DEF H!TransfersAssumption, X!AuxAssumption

-----------------------------------------------------------------------------
(* Runs of bytes *)

\* The bytes from + 1, from + 2, ...; the answers of a call to them.
Numbers(s, from) == s \in Seq(Nat) /\ \A i \in 1..Len(s) : s[i] = from + i
Replies(s, x, from) == s \in Seq(Nat \X Nat) /\ \A i \in 1..Len(s) : s[i] = <<x, from + i>>

LEMMA Appended ==
    ASSUME NEW S, NEW s \in Seq(S), NEW b \in S
    PROVE  /\ Append(s, b) \in Seq(S) /\ Len(Append(s, b)) = Len(s) + 1
           /\ \A i \in 1..Len(s) : Append(s, b)[i] = s[i]
           /\ Append(s, b)[Len(s) + 1] = b
BY AppendProperties

LEMMA NumbersEmpty ==
    ASSUME NEW from
    PROVE  Numbers(<<>>, from) /\ Len(<<>>) = 0
BY EmptySeq DEF Numbers

LEMMA NumbersAppend ==
    ASSUME NEW s, NEW from \in Nat, Numbers(s, from), NEW b, b = from + Len(s) + 1
    PROVE  Numbers(Append(s, b), from) /\ Len(Append(s, b)) = Len(s) + 1 /\ Len(s) \in Nat
PROOF
<1>1. s \in Seq(Nat) /\ b \in Nat
  BY DEF Numbers
<1>2. /\ Append(s, b) \in Seq(Nat) /\ Len(Append(s, b)) = Len(s) + 1
      /\ \A i \in 1..(Len(s) + 1) : Append(s, b)[i] = IF i <= Len(s) THEN s[i] ELSE b
  BY <1>1, AppendProperties
<1> QED
  BY <1>1, <1>2 DEF Numbers

LEMMA NumbersTail ==
    ASSUME NEW s, NEW from \in Nat, Numbers(s, from), s # <<>>
    PROVE  /\ Numbers(Tail(s), from + 1) /\ Head(s) = from + 1
           /\ Len(Tail(s)) = Len(s) - 1 /\ Len(s) \in Nat /\ Len(s) > 0
PROOF
<1>1. s \in Seq(Nat) /\ Len(s) > 0
  BY DEF Numbers
<1>2. /\ Tail(s) \in Seq(Nat) /\ Len(Tail(s)) = Len(s) - 1 /\ Head(s) = s[1]
      /\ \A i \in 1..(Len(s) - 1) : Tail(s)[i] = s[i + 1]
  BY <1>1
<1> QED
  BY <1>1, <1>2 DEF Numbers

LEMMA RepliesEmpty ==
    ASSUME NEW x, NEW from
    PROVE  Replies(<<>>, x, from)
BY EmptySeq DEF Replies

LEMMA RepliesAppend ==
    ASSUME NEW s, NEW x \in Nat, NEW from \in Nat, Replies(s, x, from),
           NEW k, k = from + Len(s) + 1
    PROVE  /\ Replies(Append(s, <<x, k>>), x, from)
           /\ Len(Append(s, <<x, k>>)) = Len(s) + 1 /\ Len(s) \in Nat
PROOF
<1> DEFINE b == <<x, k>>
<1>1. s \in Seq(Nat \X Nat) /\ Len(s) \in Nat
  BY DEF Replies
<1>2. b \in Nat \X Nat /\ b = <<x, from + (Len(s) + 1)>>
  BY <1>1
<1> HIDE DEF b
<1>3. /\ Append(s, b) \in Seq(Nat \X Nat) /\ Len(Append(s, b)) = Len(s) + 1
      /\ \A i \in 1..Len(s) : Append(s, b)[i] = s[i]
      /\ Append(s, b)[Len(s) + 1] = b
  BY <1>1, <1>2, Appended
<1>4. \A i \in 1..Len(s) : s[i] = <<x, from + i>>
  BY DEF Replies
<1>5. ASSUME NEW i \in 1..Len(Append(s, b))
      PROVE  Append(s, b)[i] = <<x, from + i>>
  <2>1. CASE i <= Len(s)
    BY <1>1, <1>3, <1>4, <2>1
  <2>2. CASE i = Len(s) + 1
    BY <1>1, <1>2, <1>3, <2>2
  <2> QED
    BY <1>1, <1>3, <2>1, <2>2
<1>6. Replies(Append(s, b), x, from) /\ Len(Append(s, b)) = Len(s) + 1
  BY <1>3, <1>5 DEF Replies
<1> QED
  BY <1>1, <1>6 DEF b

LEMMA RepliesTail ==
    ASSUME NEW s, NEW x \in Nat, NEW from \in Nat, Replies(s, x, from), s # <<>>
    PROVE  /\ Replies(Tail(s), x, from + 1) /\ Head(s) = <<x, from + 1>>
           /\ Len(Tail(s)) = Len(s) - 1 /\ Len(s) \in Nat /\ Len(s) > 0
PROOF
<1>1. s \in Seq(Nat \X Nat) /\ Len(s) > 0
  BY DEF Replies
<1>2. /\ Tail(s) \in Seq(Nat \X Nat) /\ Len(Tail(s)) = Len(s) - 1 /\ Head(s) = s[1]
      /\ \A i \in 1..(Len(s) - 1) : Tail(s)[i] = s[i + 1]
  BY <1>1
<1>3. \A i \in 1..Len(s) : s[i] = <<x, from + i>>
  BY DEF Replies
<1>4. ASSUME NEW i \in 1..(Len(s) - 1)
      PROVE  Tail(s)[i] = <<x, (from + 1) + i>>
  <2>1. i + 1 \in 1..Len(s) /\ from + (i + 1) = (from + 1) + i
    BY <1>1
  <2> QED
    BY <1>2, <1>3, <2>1
<1> QED
  BY <1>1, <1>2, <1>3, <1>4 DEF Replies

\* A run from the start is what was asked for.
LEMMA WholeRun ==
    ASSUME NEW n \in Nat
    PROVE  /\ \A s : Numbers(s, 0) /\ Len(s) = n => s = H!Bytes(n)
           /\ \A s : Replies(s, calls, 0) /\ Len(s) = n => s = H!Answers(n)
PROOF
<1>1. ASSUME NEW s, Numbers(s, 0), Len(s) = n
      PROVE  s = H!Bytes(n)
  <2>1. s \in Seq(Nat) /\ DOMAIN s = 1..n /\ \A i \in 1..n : s[i] = i
    BY <1>1 DEF Numbers
  <2> QED
    BY <2>1 DEF H!Bytes
<1>2. ASSUME NEW s, Replies(s, calls, 0), Len(s) = n
      PROVE  s = H!Answers(n)
  <2>1. s \in Seq(Nat \X Nat) /\ DOMAIN s = 1..n /\ \A i \in 1..n : s[i] = <<calls, 0 + i>>
    BY <1>2 DEF Replies
  <2>2. \A i \in 1..n : s[i] = <<calls, i>>
    BY <2>1
  <2> QED
    BY <2>1, <2>2 DEF H!Answers, H!Answer
<1> QED
  BY <1>1, <1>2

-----------------------------------------------------------------------------
(* SPI *)

IsOp(o) == o = [name |-> o.name, len |-> o.len, stage |-> o.stage] /\ o.len \in Nat
SpiNames == {"transfernb", "writenb", "transfer", "write"}
SameCall == op'.name = op.name /\ op'.len = op.len /\ calls' = calls

LEMMA GotoKeeps ==
    ASSUME IsOp(op), NEW stage, H!Goto(stage)
    PROVE  IsOp(op') /\ op'.name = op.name /\ op'.len = op.len /\ op'.stage = stage
BY DEF IsOp, H!Goto

LEMMA NoOpTyped ==
    IsOp(H!NoOp) /\ H!NoOp.name = "none"
BY DEF IsOp, H!NoOp

\* What has been written is on the line or in the one FIFO, in order; what has come back
\* is in the other one or, where the call reads it, in rbuf.
SpiFlow ==
  /\ TA = TRUE /\ TXCnt \in Nat /\ calls \in Nat /\ TXCnt <= op.len
  /\ Numbers(line, 0) /\ Numbers(txf, Len(line)) /\ Len(line) + Len(txf) = TXCnt
  /\ Len(rxf) <= Len(line) /\ Replies(rxf, calls, Len(line) - Len(rxf))
  /\ Replies(got, calls, 0)
  /\ op.name \in {"transfernb", "transfer"} => Len(got) + Len(rxf) = Len(line)

SpiStages ==
  /\ op.stage = "done" => TXCnt = op.len
  /\ op.name = "transfernb" /\ op.stage = "done" => Len(got) = op.len
  /\ op.name = "transfer" =>
       /\ op.len = 1
       /\ op.stage = "tx" => TXCnt = 0
       /\ op.stage = "rx" => TXCnt = 1 /\ Len(got) = 0
       /\ op.stage = "done" => Len(got) = 1
  /\ op.name = "write" => op.len = 2 /\ (op.stage = "tx" => TXCnt = 0)

SpiInv ==
  /\ IsOp(op)
  /\ op.name \in SpiNames => SpiFlow /\ SpiStages
  /\ op.name \notin SpiNames => TA = FALSE

LEMMA FlowNumbers ==
    ASSUME SpiFlow
    PROVE  /\ Len(line) \in Nat /\ Len(txf) \in Nat /\ Len(rxf) \in Nat /\ Len(got) \in Nat
           /\ Len(line) - Len(rxf) \in Nat
BY DEF SpiFlow, Numbers, Replies

LEMMA ExchangeFlow ==
    ASSUME SpiFlow, H!SpiExchange
    PROVE  SpiFlow' /\ UNCHANGED <<op, TXCnt, got>>
PROOF
<1>1. /\ txf # <<>> /\ txf' = Tail(txf) /\ line' = Append(line, Head(txf))
      /\ rxf' = Append(rxf, <<calls, Len(line) + 1>>) /\ UNCHANGED <<op, calls, TA, got, TXCnt>>
  BY DEF H!SpiExchange, H!Answer
<1>2. /\ Len(line) \in Nat /\ Len(rxf) \in Nat /\ Len(line) - Len(rxf) \in Nat
  BY FlowNumbers
<1>3. /\ Numbers(txf', Len(line) + 1) /\ Head(txf) = Len(line) + 1 /\ Len(txf') = Len(txf) - 1
      /\ Len(txf) \in Nat /\ Len(txf) > 0
  BY <1>1, <1>2, NumbersTail DEF SpiFlow
<1>4. Numbers(line', 0) /\ Len(line') = Len(line) + 1
  BY <1>1, <1>2, <1>3, NumbersAppend DEF SpiFlow
<1>5. Replies(rxf', calls, Len(line) - Len(rxf)) /\ Len(rxf') = Len(rxf) + 1
  <2>1. Len(line) + 1 = (Len(line) - Len(rxf)) + Len(rxf) + 1 /\ calls \in Nat
    BY <1>2 DEF SpiFlow
  <2> QED
    BY <1>1, <1>2, <2>1, RepliesAppend DEF SpiFlow
<1>6. Len(line') - Len(rxf') = Len(line) - Len(rxf) /\ Len(rxf') <= Len(line')
  BY <1>2, <1>4, <1>5 DEF SpiFlow
<1>7. Len(line') + Len(txf') = TXCnt
  BY <1>2, <1>3, <1>4 DEF SpiFlow
<1>8. Replies(rxf', calls, Len(line') - Len(rxf')) /\ Numbers(txf', Len(line'))
  BY <1>3, <1>4, <1>5, <1>6
<1>9. op.name \in {"transfernb", "transfer"} => Len(got) + Len(rxf') = Len(line')
  <2>1. Len(got) \in Nat
    BY FlowNumbers
  <2> QED
    BY <1>2, <1>4, <1>5, <2>1 DEF SpiFlow
<1> QED
  BY <1>1, <1>4, <1>6, <1>7, <1>8, <1>9 DEF SpiFlow

LEMMA WriteFlow ==
    ASSUME SpiFlow, H!WriteFifo, SameCall, TXCnt < op.len, op.len \in Nat, line' = line
    PROVE  SpiFlow' /\ TXCnt' = TXCnt + 1 /\ UNCHANGED got
PROOF
<1>1. txf' = Append(txf, TXCnt + 1) /\ TXCnt' = TXCnt + 1 /\ UNCHANGED <<rxf, TA, got>>
  BY DEF H!WriteFifo
<1>2. Len(line) \in Nat /\ Len(txf) \in Nat /\ TXCnt + 1 = Len(line) + Len(txf) + 1
  BY FlowNumbers DEF SpiFlow
<1>3. Numbers(txf', Len(line)) /\ Len(txf') = Len(txf) + 1
  BY <1>1, <1>2, NumbersAppend DEF SpiFlow
<1>4. TXCnt' \in Nat /\ TXCnt' <= op'.len /\ Len(line') + Len(txf') = TXCnt'
  BY <1>1, <1>2, <1>3 DEF SpiFlow, SameCall
<1> QED
  BY <1>1, <1>3, <1>4 DEF SpiFlow, SameCall

\* The byte that is read is the answer that comes next.
LEMMA ReadFlow ==
    ASSUME SpiFlow, H!ReadFifo, SameCall, rxf # <<>>, line' = line,
           op.name \in {"transfernb", "transfer"}
    PROVE  SpiFlow' /\ Len(got') = Len(got) + 1 /\ UNCHANGED TXCnt
PROOF
<1>1. rxf' = Tail(rxf) /\ got' = Append(got, Head(rxf)) /\ UNCHANGED <<txf, TA, TXCnt>>
  BY DEF H!ReadFifo
<1>2. /\ Len(line) \in Nat /\ Len(rxf) \in Nat /\ Len(got) \in Nat
      /\ Len(line) - Len(rxf) = Len(got) /\ calls \in Nat
  BY FlowNumbers DEF SpiFlow
<1>3. /\ Replies(rxf', calls, Len(got) + 1) /\ Head(rxf) = <<calls, Len(got) + 1>>
      /\ Len(rxf') = Len(rxf) - 1 /\ Len(rxf) > 0
  BY <1>1, <1>2, RepliesTail DEF SpiFlow
<1>4. Replies(got', calls, 0) /\ Len(got') = Len(got) + 1
  <2>1. Replies(got, calls, 0) /\ Len(got) + 1 = 0 + Len(got) + 1
    BY <1>2 DEF SpiFlow
  <2>2. got' = Append(got, <<calls, Len(got) + 1>>)
    BY <1>1, <1>3
  <2> QED
    BY <1>2, <2>1, <2>2, RepliesAppend
<1>5. /\ Len(line) - Len(rxf') = Len(got) + 1 /\ Len(rxf') <= Len(line)
      /\ Len(got') + Len(rxf') = Len(line)
  BY <1>2, <1>3, <1>4
<1> QED
  BY <1>1, <1>3, <1>4, <1>5 DEF SpiFlow, SameCall

LEMMA DropFlow ==
    ASSUME SpiFlow, H!DropFifo, SameCall, rxf # <<>>, line' = line, op.name = "writenb"
    PROVE  SpiFlow' /\ UNCHANGED TXCnt
PROOF
<1>1. rxf' = Tail(rxf) /\ UNCHANGED <<txf, TA, TXCnt, got>>
  BY DEF H!DropFifo
<1>2. Len(line) \in Nat /\ Len(rxf) \in Nat /\ Len(line) - Len(rxf) \in Nat /\ calls \in Nat
  BY FlowNumbers DEF SpiFlow
<1>3. /\ Replies(rxf', calls, (Len(line) - Len(rxf)) + 1)
      /\ Len(rxf') = Len(rxf) - 1 /\ Len(rxf) > 0
  BY <1>1, <1>2, RepliesTail DEF SpiFlow
<1>4. Len(line) - Len(rxf') = (Len(line) - Len(rxf)) + 1 /\ Len(rxf') <= Len(line)
  BY <1>2, <1>3 DEF SpiFlow
<1> QED
  BY <1>1, <1>3, <1>4 DEF SpiFlow, SameCall

LEMMA StayFlow ==
    ASSUME SpiFlow, H!Stay, SameCall, line' = line
    PROVE  SpiFlow' /\ UNCHANGED <<TXCnt, got>>
BY DEF SpiFlow, H!Stay, H!spi, SameCall

\* A call starts with both FIFOs empty.
LEMMA SpiBeginStep ==
    ASSUME SpiInv, NEW name \in SpiNames, NEW n \in Nat, H!SpiBegin(name, n),
           name = "transfer" => n = 1, name = "write" => n = 2, calls \in Nat
    PROVE  SpiInv'
PROOF
<1>1. /\ op' = [name |-> name, len |-> n, stage |-> "tx"] /\ calls' = calls + 1
      /\ line' = <<>> /\ got' = <<>> /\ TXCnt' = 0 /\ txf' = <<>> /\ rxf' = <<>> /\ TA' = TRUE
  BY DEF H!SpiBegin, H!Begin
<1>2. IsOp(op') /\ op'.name = name /\ op'.len = n /\ op'.stage = "tx"
  BY <1>1 DEF IsOp
<1>3. Numbers(line', 0) /\ Numbers(txf', 0) /\ Replies(rxf', calls', 0) /\ Replies(got', calls', 0)
  BY <1>1, NumbersEmpty, RepliesEmpty
<1>4. Len(line') = 0 /\ Len(txf') = 0 /\ Len(rxf') = 0 /\ Len(got') = 0
  BY <1>1
<1>5. SpiFlow'
  BY <1>1, <1>2, <1>3, <1>4 DEF SpiFlow
<1>6. SpiStages'
  BY <1>1, <1>2, <1>4 DEF SpiStages
<1> QED
  BY <1>2, <1>5, <1>6 DEF SpiInv

SpiExact ==
  /\ line = H!Bytes(op.len)
  /\ op.name \in {"transfernb", "transfer"} => got = H!Answers(op.len)

\* The call ends when all that was written is on the line.
LEMMA SpiFinishStep ==
    ASSUME SpiInv, H!SpiFinish, op.name \in SpiNames, op.stage = "done"
    PROVE  SpiInv' /\ SpiExact
PROOF
<1>1. /\ SpiFlow /\ SpiStages /\ txf = <<>> /\ op' = H!NoOp /\ TA' = FALSE /\ IsOp(op)
  BY DEF SpiInv, H!SpiFinish, H!DONE, H!Finish
<1>2. Len(line) = op.len /\ op.len \in Nat
  BY <1>1, FlowNumbers DEF SpiFlow, SpiStages, IsOp
<1>3. line = H!Bytes(op.len)
  BY <1>1, <1>2, WholeRun DEF SpiFlow
<1>4. ASSUME op.name \in {"transfernb", "transfer"}
      PROVE  got = H!Answers(op.len)
  BY <1>1, <1>2, <1>4, WholeRun DEF SpiFlow, SpiStages
<1>5. SpiInv'
  BY <1>1, NoOpTyped DEF SpiInv, SpiNames
<1> QED
  BY <1>3, <1>4, <1>5 DEF SpiExact

\* What a step of a call keeps, and what it has done when it returns.
SpiDone == SpiInv' /\ (op'.name = "none" => SpiExact) /\ (op'.name # "none" => SameCall)

LEMMA SpiGoes ==
    ASSUME SpiInv, op.name \in SpiNames, IsOp(op'), SameCall, SpiFlow', SpiStages'
    PROVE  SpiDone
BY DEF SpiDone, SpiInv, SameCall, SpiNames

LEMMA StepFacts ==
    ASSUME SpiInv, op.name \in SpiNames, H!SpiStep
    PROVE  /\ SpiFlow /\ SpiStages /\ IsOp(op) /\ op.len \in Nat /\ calls' = calls /\ line' = line
           /\ Len(got) \in Nat /\ TXCnt \in Nat
           /\ op' = op => SameCall /\ IsOp(op')
           /\ \A stage : H!Goto(stage) => SameCall /\ IsOp(op') /\ op'.stage = stage
BY GotoKeeps, FlowNumbers DEF SpiInv, IsOp, SpiFlow, H!SpiStep, SameCall

LEMMA TransfernbStep ==
    ASSUME SpiInv, H!Transfernb, H!SpiStep
    PROVE  SpiDone
PROOF
<1>1. op.name = "transfernb" /\ op.name \in SpiNames
  BY DEF H!Transfernb, H!At, SpiNames
<1>2. /\ SpiFlow /\ SpiStages /\ IsOp(op) /\ op.len \in Nat /\ calls' = calls /\ line' = line
      /\ Len(got) \in Nat /\ TXCnt \in Nat
      /\ op' = op => SameCall /\ IsOp(op')
      /\ \A stage : H!Goto(stage) => SameCall /\ IsOp(op') /\ op'.stage = stage
  BY <1>1, StepFacts
<1>3. CASE op.stage = "tx" /\ TXCnt < op.len /\ H!WriteFifo /\ op' = op
  <2>1. SpiFlow' /\ TXCnt' = TXCnt + 1 /\ UNCHANGED got
    BY <1>2, <1>3, WriteFlow
  <2> QED
    BY <1>1, <1>2, <1>3, <2>1, SpiGoes DEF SpiStages
<1>4. CASE op.stage = "tx" /\ H!Stay /\ H!Goto("rx")
  BY <1>1, <1>2, <1>4, StayFlow, SpiGoes DEF SpiStages, SameCall
<1>5. CASE op.stage = "rx" /\ rxf # <<>> /\ H!ReadFifo /\ op' = op
  <2>1. SpiFlow'
    BY <1>1, <1>2, <1>5, ReadFlow
  <2> QED
    BY <1>1, <1>2, <1>5, <2>1, SpiGoes DEF SpiStages
<1>6. CASE /\ op.stage = "rx" /\ H!Stay
           /\ H!Goto(IF TXCnt < op.len \/ Len(got) < op.len THEN "tx" ELSE "done")
  <2>1. SpiFlow' /\ UNCHANGED <<TXCnt, got>>
    BY <1>2, <1>6, StayFlow
  <2>2. op'.stage = "done" => TXCnt = op.len /\ Len(got) = op.len
    <3>1. Len(got) <= TXCnt /\ TXCnt <= op.len
      BY <1>1, <1>2, FlowNumbers DEF SpiFlow
    <3>2. CASE TXCnt < op.len \/ Len(got) < op.len
      BY <1>2, <1>6, <3>2
    <3> QED
      BY <1>2, <3>1, <3>2
  <2>3. SpiStages'
    BY <1>1, <1>2, <1>6, <2>1, <2>2 DEF SpiStages, SameCall
  <2> QED
    BY <1>1, <1>2, <1>6, <2>1, <2>3, SpiGoes
<1>7. CASE op.stage = "done" /\ H!SpiFinish
  <2>1. op'.name = "none"
    BY <1>7, NoOpTyped DEF H!SpiFinish, H!Finish
  <2> QED
    BY <1>1, <1>7, <2>1, SpiFinishStep DEF SpiDone
<1> QED
  BY <1>3, <1>4, <1>5, <1>6, <1>7 DEF H!Transfernb, H!At, H!TXD, H!RXD

LEMMA WritenbStep ==
    ASSUME SpiInv, H!Writenb, H!SpiStep
    PROVE  SpiDone
PROOF
<1>1. op.name = "writenb" /\ op.name \in SpiNames
  BY DEF H!Writenb, H!At, SpiNames
<1>2. /\ SpiFlow /\ SpiStages /\ IsOp(op) /\ op.len \in Nat /\ calls' = calls /\ line' = line
      /\ op' = op => SameCall /\ IsOp(op')
      /\ \A stage : H!Goto(stage) => SameCall /\ IsOp(op') /\ op'.stage = stage
  BY <1>1, StepFacts
<1>3. CASE op.stage = "tx" /\ TXCnt < op.len /\ H!WriteFifo /\ H!Goto("rx")
  BY <1>1, <1>2, <1>3, WriteFlow, SpiGoes DEF SpiStages, SameCall
<1>4. CASE op.stage = "tx" /\ TXCnt = op.len /\ H!Stay /\ H!Goto("done")
  BY <1>1, <1>2, <1>4, StayFlow, SpiGoes DEF SpiStages, SameCall
<1>5. CASE rxf # <<>> /\ H!DropFifo /\ op' = op
  BY <1>1, <1>2, <1>5, DropFlow, SpiGoes DEF SpiStages, SameCall
<1>6. CASE op.stage = "rx" /\ H!Stay /\ H!Goto("tx")
  BY <1>1, <1>2, <1>6, StayFlow, SpiGoes DEF SpiStages, SameCall
<1>7. CASE op.stage = "done" /\ H!SpiFinish
  <2>1. op'.name = "none"
    BY <1>7, NoOpTyped DEF H!SpiFinish, H!Finish
  <2> QED
    BY <1>1, <1>7, <2>1, SpiFinishStep DEF SpiDone
<1> QED
  BY <1>3, <1>4, <1>5, <1>6, <1>7 DEF H!Writenb, H!At, H!RXD

LEMMA OneByteStep ==
    ASSUME SpiInv, H!Transfer, H!SpiStep
    PROVE  SpiDone
PROOF
<1>1. op.name = "transfer" /\ op.name \in SpiNames
  BY DEF H!Transfer, H!At, SpiNames
<1>2. /\ SpiFlow /\ SpiStages /\ IsOp(op) /\ op.len \in Nat /\ calls' = calls /\ line' = line
      /\ \A stage : H!Goto(stage) => SameCall /\ IsOp(op') /\ op'.stage = stage
  BY <1>1, StepFacts
<1>3. CASE op.stage = "tx" /\ H!WriteFifo /\ H!Goto("rx")
  <2>1. TXCnt = 0 /\ op.len = 1 /\ SpiFlow' /\ TXCnt' = 1 /\ UNCHANGED got
    BY <1>1, <1>2, <1>3, WriteFlow DEF SpiStages
  <2>2. Len(got) = 0
    BY <1>1, <1>2, <2>1, FlowNumbers DEF SpiFlow
  <2> QED
    BY <1>1, <1>2, <1>3, <2>1, <2>2, SpiGoes DEF SpiStages, SameCall
<1>4. CASE op.stage = "rx" /\ H!DONE /\ H!ReadFifo /\ H!Goto("done")
  <2>1. TXCnt = 1 /\ op.len = 1 /\ Len(got) = 0 /\ txf = <<>>
    BY <1>1, <1>2, <1>4 DEF SpiStages, H!DONE
  <2>2. rxf # <<>>
    <3>1. Len(line) \in Nat /\ Len(rxf) \in Nat /\ Len(line) + Len(txf) = 1 /\ Len(txf) = 0
      BY <1>2, <2>1, FlowNumbers DEF SpiFlow
    <3>2. Len(got) + Len(rxf) = Len(line)
      BY <1>1, <1>2 DEF SpiFlow
    <3>3. Len(rxf) = 1
      BY <2>1, <3>1, <3>2
    <3> QED
      BY <3>3
  <2>3. SpiFlow' /\ Len(got') = 1 /\ UNCHANGED TXCnt
    BY <1>1, <1>2, <1>4, <2>1, <2>2, ReadFlow
  <2> QED
    BY <1>1, <1>2, <1>4, <2>1, <2>3, SpiGoes DEF SpiStages, SameCall
<1>5. CASE op.stage = "done" /\ H!SpiFinish
  <2>1. op'.name = "none"
    BY <1>5, NoOpTyped DEF H!SpiFinish, H!Finish
  <2> QED
    BY <1>1, <1>5, <2>1, SpiFinishStep DEF SpiDone
<1> QED
  BY <1>3, <1>4, <1>5 DEF H!Transfer, H!At

LEMMA Write16Step ==
    ASSUME SpiInv, H!Write16, H!SpiStep
    PROVE  SpiDone
PROOF
<1>1. op.name = "write" /\ op.name \in SpiNames
  BY DEF H!Write16, H!At, SpiNames
<1>2. /\ SpiFlow /\ SpiStages /\ IsOp(op) /\ op.len \in Nat /\ calls' = calls /\ line' = line
      /\ \A stage : H!Goto(stage) => SameCall /\ IsOp(op') /\ op'.stage = stage
  BY <1>1, StepFacts
<1>3. CASE /\ op.stage = "tx" /\ txf' = txf \o H!Bytes(2) /\ TXCnt' = 2
           /\ UNCHANGED <<rxf, TA, got>> /\ H!Goto("done")
  <2>1. TXCnt = 0 /\ op.len = 2
    BY <1>1, <1>2, <1>3 DEF SpiStages
  <2>2. Len(line) = 0 /\ Len(txf) = 0 /\ txf = <<>>
    BY <1>2, <2>1, FlowNumbers DEF SpiFlow, Numbers
  <2>3. H!Bytes(2) \in Seq(Nat) /\ Len(H!Bytes(2)) = 2 /\ \A i \in 1..2 : H!Bytes(2)[i] = i
    BY DEF H!Bytes
  <2>4. txf' = H!Bytes(2)
    BY <1>3, <2>2, <2>3
  <2>5. Numbers(txf', 0) /\ Len(txf') = 2
    BY <2>3, <2>4 DEF Numbers
  <2>6. SpiFlow'
    BY <1>1, <1>2, <1>3, <2>1, <2>2, <2>5 DEF SpiFlow, SameCall
  <2> QED
    BY <1>1, <1>2, <1>3, <2>1, <2>6, SpiGoes DEF SpiStages, SameCall
<1>4. CASE op.stage = "done" /\ H!SpiFinish
  <2>1. op'.name = "none"
    BY <1>4, NoOpTyped DEF H!SpiFinish, H!Finish
  <2> QED
    BY <1>1, <1>4, <2>1, SpiFinishStep DEF SpiDone
<1> QED
  BY <1>3, <1>4 DEF H!Write16, H!At

-----------------------------------------------------------------------------
(* Delays *)

\* The words of a number over W.
LEMMA Words ==
    ASSUME NEW W \in Nat, W > 0, NEW m \in Nat
    PROVE  /\ m \div W \in Nat /\ m % W \in Nat /\ m % W < W
           /\ ((m \div W) * W) + (m % W) = m
OBVIOUS

LEMMA TimesMonotone ==
    ASSUME NEW W \in Nat, NEW j \in Nat, NEW k \in Nat, j < k
    PROVE  (j * W) + W <= k * W
PROOF
<1>1. k - j - 1 \in Nat
  OBVIOUS
<1>2. (k - j - 1) * W >= 0
  BY <1>1
<1> QED
  BY <1>2

LEMMA WordsGrow ==
    ASSUME NEW W \in Nat, W > 0, NEW m \in Nat, NEW n \in Nat, m <= n
    PROVE  /\ m \div W <= n \div W
           /\ n <= m + W => n \div W <= (m \div W) + 1
PROOF
<1> DEFINE a == m \div W
           b == n \div W
<1>1. /\ a \in Nat /\ b \in Nat /\ a * W <= m /\ m < (a * W) + W /\ b * W <= n /\ n < (b * W) + W
  BY Words
<1> HIDE DEF a, b
<1>2. a * W \in Nat /\ b * W \in Nat
  BY <1>1
<1>3. ~(b < a)
  <2> SUFFICES ASSUME b < a
               PROVE  FALSE
    OBVIOUS
  <2>1. (b * W) + W <= a * W
    BY <1>1, TimesMonotone
  <2> QED
    BY <1>1, <1>2, <2>1
<1>4. n <= m + W => ~(a + 1 < b)
  <2> SUFFICES ASSUME n <= m + W, a + 1 < b
               PROVE  FALSE
    OBVIOUS
  <2>1. ((a + 1) * W) + W <= b * W
    BY <1>1, TimesMonotone
  <2>2. (a + 1) * W = (a * W) + W
    BY <1>1
  <2> QED
    BY <1>1, <1>2, <2>1, <2>2
<1> QED
  BY <1>1, <1>3, <1>4 DEF a, b

LEMMA Squeezed ==
    ASSUME NEW a \in Nat, NEW h \in Nat, NEW b \in Nat, NEW c \in Nat,
           a <= h, h <= b, b <= c, c <= a + 1
    PROVE  (c = h => h = b) /\ (c # h => c = a + 1)
OBVIOUS

Times == [start : Nat, hi : Nat, lo : Nat, micros : Nat, asked : Nat, read : Nat]

\* The words that have been read are those of times since the last whole reading, and
\* less than a word has passed since then.
DelayFlow ==
  /\ 1 <= t.asked /\ t.asked <= t.read /\ t.read <= now /\ now <= t.read + Word
  /\ t.start = 0 \/ t.asked <= t.start
  /\ op.stage = "lo" => t.read \div Word <= t.hi /\ t.hi <= now \div Word
  /\ op.stage = "rehi" =>
       \E m \in Nat : /\ t.read <= m /\ m <= now /\ t.lo = m % Word
                      /\ t.read \div Word <= t.hi /\ t.hi <= m \div Word
  /\ op.stage = "relo" => t.hi = (t.read \div Word) + 1 /\ t.hi <= now \div Word
DelayInv == /\ IsOp(op) /\ now \in Nat /\ now >= 1 /\ t \in Times
            /\ op.name = "delay" => DelayFlow

LEMMA DelayFacts ==
    ASSUME DelayInv, op.name = "delay"
    PROVE  /\ t.start \in Nat /\ t.hi \in Nat /\ t.lo \in Nat /\ t.micros \in Nat
           /\ t.asked \in Nat /\ t.read \in Nat /\ now \in Nat /\ Word \in Nat /\ Word > 0
           /\ DelayFlow
           /\ now \div Word \in Nat /\ now % Word \in Nat /\ t.read \div Word \in Nat
           /\ now \div Word <= (t.read \div Word) + 1 /\ t.read \div Word <= now \div Word
PROOF
<1>1. /\ t.start \in Nat /\ t.hi \in Nat /\ t.lo \in Nat /\ t.micros \in Nat
      /\ t.asked \in Nat /\ t.read \in Nat /\ now \in Nat /\ Word \in Nat /\ Word > 0
      /\ DelayFlow /\ t.read <= now /\ now <= t.read + Word
  BY TransfersConstants DEF DelayInv, DelayFlow, Times
<1> QED
  BY <1>1, Words, WordsGrow

LEMMA TickStep ==
    ASSUME DelayInv, H!Tick
    PROVE  DelayInv'
PROOF
<1>1. op.name = "delay" /\ now - t.read < Word /\ now' = now + 1 /\ UNCHANGED <<op, t>>
  BY DEF H!Tick
<1>2. /\ t.read \in Nat /\ now \in Nat /\ Word \in Nat /\ Word > 0 /\ DelayFlow
  BY <1>1, DelayFacts
<1>3. now \div Word <= (now + 1) \div Word /\ now \div Word \in Nat /\ (now + 1) \div Word \in Nat
  BY <1>2, WordsGrow, Words
<1>4. now' <= t.read + Word /\ now' >= 1 /\ now' \in Nat /\ t.read <= now'
  BY <1>1, <1>2 DEF DelayFlow
<1>5. op.stage = "lo" => t.hi <= now' \div Word
  BY <1>1, <1>2, <1>3 DEF DelayFlow, DelayInv, Times
<1>6. op.stage = "relo" => t.hi <= now' \div Word
  BY <1>1, <1>2, <1>3 DEF DelayFlow, DelayInv, Times
<1>7. op.stage = "rehi" =>
        \E m \in Nat : /\ t.read <= m /\ m <= now' /\ t.lo = m % Word
                       /\ t.read \div Word <= t.hi /\ t.hi <= m \div Word
  BY <1>1, <1>2 DEF DelayFlow
<1>8. DelayFlow'
  BY <1>1, <1>2, <1>4, <1>5, <1>6, <1>7 DEF DelayFlow
<1> QED
  BY <1>1, <1>4, <1>8 DEF DelayInv

LEMMA DelayBegins ==
    ASSUME DelayInv, NEW us \in Micros, H!Delay(us)
    PROVE  DelayInv'
PROOF
<1>1. /\ t' = [start |-> 0, hi |-> 0, lo |-> 0, micros |-> us, asked |-> now, read |-> now]
      /\ op' = [name |-> "delay", len |-> 0, stage |-> "hi"] /\ now' = now
  BY DEF H!Delay, H!Begin, H!NoTimes
<1>2. t' \in Times /\ now \in Nat /\ now >= 1 /\ now <= now + Word
  BY <1>1, TransfersConstants DEF Times, DelayInv
<1>3. IsOp(op') /\ op'.stage = "hi"
  BY <1>1 DEF IsOp
<1>4. t'.asked = now /\ t'.read = now /\ t'.start = 0
  BY <1>1
<1> QED
  BY <1>1, <1>2, <1>3, <1>4 DEF DelayInv, DelayFlow

\* What a step of the delay keeps, and when it is over.
DelayDone == DelayInv' /\ (op'.name = "none" => now >= t.asked + t.micros)

\* A value that has been read whole is a time between the last reading and now.
LEMMA StReadStep ==
    ASSUME DelayInv, op.name = "delay", NEW value, H!StRead(value), now' = now,
           t.read <= value, value <= now, value \in Nat
    PROVE  DelayDone
PROOF
<1>1. /\ t.start \in Nat /\ t.micros \in Nat /\ t.asked \in Nat /\ t.read \in Nat /\ now \in Nat
      /\ DelayFlow /\ t \in Times /\ IsOp(op) /\ Word \in Nat
  BY DelayFacts DEF DelayInv
<1>2. t.asked <= value /\ 1 <= value /\ now >= 1
  BY <1>1 DEF DelayFlow, DelayInv
<1>3. CASE /\ t.start = 0 /\ t' = [t EXCEPT !.start = value, !.read = now]
           /\ H!Goto(IF t.micros > Long THEN "sleep" ELSE "hi")
  <2>1. t' \in Times /\ t'.start = value /\ t'.read = now /\ t'.asked = t.asked
    BY <1>1, <1>3 DEF Times
  <2>2. IsOp(op') /\ op'.name = "delay" /\ op'.stage \in {"sleep", "hi"}
    BY <1>1, <1>3, GotoKeeps
  <2>3. DelayFlow'
    BY <1>1, <1>2, <2>1, <2>2 DEF DelayFlow
  <2> QED
    BY <1>1, <1>2, <2>1, <2>2, <2>3 DEF DelayDone, DelayInv
<1>4. CASE t.start # 0 /\ t' = [t EXCEPT !.read = now] /\ H!Goto("hi")
  <2>1. t' \in Times /\ t'.start = t.start /\ t'.read = now /\ t'.asked = t.asked
    BY <1>1, <1>4 DEF Times
  <2>2. IsOp(op') /\ op'.name = "delay" /\ op'.stage = "hi"
    BY <1>1, <1>4, GotoKeeps
  <2>3. DelayFlow'
    BY <1>1, <1>2, <2>1, <2>2 DEF DelayFlow
  <2> QED
    BY <1>1, <1>2, <2>1, <2>2, <2>3 DEF DelayDone, DelayInv
<1>5. CASE t.start # 0 /\ ~(value < t.start + t.micros) /\ op' = H!NoOp /\ t' = H!NoTimes
  <2>1. now >= t.asked + t.micros
    BY <1>1, <1>5 DEF DelayFlow
  <2>2. t' \in Times
    BY <1>5 DEF H!NoTimes, Times
  <2> QED
    BY <1>1, <1>2, <1>5, <2>1, <2>2, NoOpTyped DEF DelayDone, DelayInv
<1> QED
  BY <1>3, <1>4, <1>5 DEF H!StRead, H!Finish

LEMMA TimerStep ==
    ASSUME DelayInv, H!Timer, now' = now
    PROVE  DelayDone
PROOF
<1>1. op.name = "delay"
  BY DEF H!Timer, H!At, H!Rehi
<1>2. /\ t.start \in Nat /\ t.hi \in Nat /\ t.lo \in Nat /\ t.micros \in Nat
      /\ t.asked \in Nat /\ t.read \in Nat /\ now \in Nat /\ Word \in Nat /\ Word > 0
      /\ DelayFlow
      /\ now \div Word \in Nat /\ now % Word \in Nat /\ t.read \div Word \in Nat
      /\ now \div Word <= (t.read \div Word) + 1 /\ t.read \div Word <= now \div Word
  BY <1>1, DelayFacts
<1>3. t \in Times /\ IsOp(op) /\ now >= 1
  BY DEF DelayInv
<1>4. CASE op.stage = "hi" /\ t' = [t EXCEPT !.hi = now \div Word] /\ H!Goto("lo")
  <2>1. /\ t' \in Times /\ t'.hi = now \div Word
        /\ t'.start = t.start /\ t'.read = t.read /\ t'.asked = t.asked
    BY <1>2, <1>3, <1>4 DEF Times
  <2>2. IsOp(op') /\ op'.name = "delay" /\ op'.stage = "lo"
    BY <1>1, <1>3, <1>4, GotoKeeps
  <2>3. DelayFlow'
    BY <1>2, <2>1, <2>2 DEF DelayFlow
  <2> QED
    BY <1>2, <1>3, <2>1, <2>2, <2>3 DEF DelayDone, DelayInv
<1>5. CASE op.stage = "lo" /\ t' = [t EXCEPT !.lo = now % Word] /\ H!Goto("rehi")
  <2>1. /\ t' \in Times /\ t'.lo = now % Word /\ t'.hi = t.hi
        /\ t'.start = t.start /\ t'.read = t.read /\ t'.asked = t.asked
    BY <1>2, <1>3, <1>5 DEF Times
  <2>2. IsOp(op') /\ op'.name = "delay" /\ op'.stage = "rehi"
    BY <1>1, <1>3, <1>5, GotoKeeps
  <2>3. /\ t'.read <= now /\ now <= now' /\ t'.lo = now % Word
        /\ t'.read \div Word <= t'.hi /\ t'.hi <= now \div Word
    BY <1>2, <1>5, <2>1 DEF DelayFlow
  <2>4. DelayFlow'
    BY <1>2, <2>1, <2>2, <2>3 DEF DelayFlow
  <2> QED
    BY <1>2, <1>3, <2>1, <2>2, <2>4 DEF DelayDone, DelayInv
<1>6. CASE H!Rehi
  <2>1. PICK m \in Nat : /\ t.read <= m /\ m <= now /\ t.lo = m % Word
                         /\ t.read \div Word <= t.hi /\ t.hi <= m \div Word
    BY <1>2, <1>6 DEF DelayFlow, H!Rehi, H!At
  <2>2. m \div Word <= now \div Word /\ m \div Word \in Nat /\ ((m \div Word) * Word) + (m % Word) = m
    BY <1>2, <2>1, Words, WordsGrow
  <2>5. (now \div Word = t.hi => t.hi = m \div Word)
           /\ (now \div Word # t.hi => now \div Word = (t.read \div Word) + 1)
    BY <1>2, <2>1, <2>2, Squeezed
  <2>3. CASE now \div Word = t.hi /\ H!StRead((t.hi * Word) + t.lo)
    <3>1. (t.hi * Word) + t.lo = m
      <4>1. t.hi = m \div Word
        BY <2>3, <2>5
      <4> QED
        BY <2>1, <2>2, <4>1
    <3>2. H!StRead(m)
      BY <2>3, <3>1
    <3> QED
      BY <1>1, <2>1, <3>2, StReadStep
  <2>4. CASE now \div Word # t.hi /\ t' = [t EXCEPT !.hi = now \div Word] /\ H!Goto("relo")
    <3>1. /\ t' \in Times /\ t'.hi = now \div Word
          /\ t'.start = t.start /\ t'.read = t.read /\ t'.asked = t.asked
      BY <1>2, <1>3, <2>4 DEF Times
    <3>2. IsOp(op') /\ op'.name = "delay" /\ op'.stage = "relo"
      BY <1>1, <1>3, <2>4, GotoKeeps
    <3>3. now \div Word = (t.read \div Word) + 1
      BY <2>4, <2>5
    <3>4. DelayFlow'
      BY <1>2, <3>1, <3>2, <3>3 DEF DelayFlow
    <3> QED
      BY <1>2, <1>3, <3>1, <3>2, <3>4 DEF DelayDone, DelayInv
  <2> QED
    BY <1>6, <2>3, <2>4 DEF H!Rehi
<1>7. CASE op.stage = "relo" /\ H!StRead((t.hi * Word) + (now % Word))
  <2>1. t.hi = now \div Word
    BY <1>2, <1>7 DEF DelayFlow
  <2>2. (t.hi * Word) + (now % Word) = now
    BY <1>2, <2>1, Words
  <2>3. H!StRead(now) /\ t.read <= now
    BY <1>2, <1>7, <2>2 DEF DelayFlow
  <2> QED
    BY <1>1, <1>2, <2>3, StReadStep
<1>8. CASE op.stage = "sleep" /\ t' = [t EXCEPT !.read = now] /\ H!Goto("hi")
  <2>1. t' \in Times /\ t'.start = t.start /\ t'.read = now /\ t'.asked = t.asked
    BY <1>2, <1>3, <1>8 DEF Times
  <2>2. IsOp(op') /\ op'.name = "delay" /\ op'.stage = "hi"
    BY <1>1, <1>3, <1>8, GotoKeeps
  <2>3. DelayFlow'
    BY <1>2, <2>1, <2>2 DEF DelayFlow
  <2> QED
    BY <1>2, <1>3, <2>1, <2>2, <2>3 DEF DelayDone, DelayInv
<1> QED
  BY <1>4, <1>5, <1>6, <1>7, <1>8 DEF H!Timer, H!At

-----------------------------------------------------------------------------
(* I2C *)

I2cReads == {"i2c_read", "i2c_read_rs"}
I2cNames == I2cReads \cup {"i2c_write"}
IsBsc(b) ==
  b = [transfer |-> b.transfer, then |-> b.then, dlen |-> b.dlen, fifo |-> b.fifo,
       line |-> b.line, DONE |-> b.DONE, ERR |-> b.ERR, CLKT |-> b.CLKT]

\* What the controller has been given is on its line or in its FIFO, in order.
WriteOnBus ==
  /\ TXCnt \in Nat /\ TXCnt <= op.len /\ bsc.then = 0
  /\ Numbers(bsc.line, 0) /\ Numbers(bsc.fifo, Len(bsc.line))
  /\ Len(bsc.line) + Len(bsc.fifo) = TXCnt
  /\ \/ /\ bsc.transfer = "write" /\ bsc.DONE = FALSE
        /\ bsc.dlen \in Nat /\ bsc.dlen > 0 /\ bsc.dlen = op.len - Len(bsc.line)
     \/ bsc.transfer = "none" /\ Len(bsc.line) = op.len

\* The byte that names the register is to be written; it has been; the answers come.
RegisterAsked ==
  /\ bsc.transfer = "write" /\ Len(got) = 0 /\ Len(bsc.fifo) = 1 /\ bsc.dlen = 1
  /\ \E b : bsc.fifo = <<b>>
  /\ bsc.then = IF op.stage = "start" THEN 0 ELSE op.len
RegisterGiven ==
  op.stage = "start" /\ bsc.transfer = "none" /\ Len(got) = 0 /\ bsc.fifo = <<>> /\ bsc.then = 0
AnswersCome ==
  /\ op.stage # "start" /\ bsc.transfer # "write" /\ bsc.then = 0
  /\ Replies(bsc.fifo, calls, Len(got)) /\ Len(bsc.line) = Len(got) + Len(bsc.fifo)
  /\ bsc.line \in Seq(Nat)
ReadOnBus ==
  /\ op.len > 0 /\ Replies(got, calls, 0) /\ Len(got) <= op.len
  /\ RegisterAsked \/ RegisterGiven \/ AnswersCome

NoFault == ~bsc.ERR /\ ~bsc.CLKT
I2cInv ==
  /\ IsOp(op) /\ IsBsc(bsc) /\ calls \in Nat
  /\ NoFault /\ op.name = "i2c_write" => WriteOnBus
  /\ NoFault /\ op.name \in I2cReads => ReadOnBus

\* What the controller does with a byte.
LEMMA ByteFacts ==
    ASSUME IsBsc(bsc), H!BscByte
    PROVE  /\ IsBsc(bsc') /\ bsc'.ERR = bsc.ERR /\ bsc'.CLKT = bsc.CLKT
           /\ bsc.transfer # "none" /\ UNCHANGED <<op, calls, got, TXCnt>>
           /\ bsc.transfer = "write" => bsc.fifo # <<>> /\ bsc'.fifo = Tail(bsc.fifo)
           /\ bsc.transfer # "write" => bsc'.fifo = Append(bsc.fifo, <<calls, Len(bsc.line) + 1>>)
           /\ \/ /\ bsc.dlen - 1 # 0 /\ bsc'.dlen = bsc.dlen - 1 /\ bsc'.DONE = bsc.DONE
                 /\ bsc'.transfer = bsc.transfer /\ bsc'.then = bsc.then
                 /\ bsc'.line = Append(bsc.line, IF bsc.transfer = "write" THEN Head(bsc.fifo) ELSE 0)
              \/ /\ bsc.dlen - 1 = 0 /\ bsc.then > 0
                 /\ bsc'.transfer = "read" /\ bsc'.then = 0 /\ bsc'.line = <<>>
              \/ /\ bsc.dlen - 1 = 0 /\ ~(bsc.then > 0) /\ bsc'.transfer = "none"
                 /\ bsc'.then = bsc.then
                 /\ bsc'.line = Append(bsc.line, IF bsc.transfer = "write" THEN Head(bsc.fifo) ELSE 0)
PROOF
<1> DEFINE sends == bsc.transfer = "write"
           after == [bsc EXCEPT !.dlen = @ - 1,
                       !.line = Append(@, IF sends THEN Head(bsc.fifo) ELSE 0),
                       !.fifo = IF sends THEN Tail(@) ELSE Append(@, H!Answer(Len(bsc.line) + 1))]
<1>1. /\ bsc.transfer # "none" /\ UNCHANGED <<op, calls, got, TXCnt>>
      /\ IF sends THEN bsc.fifo # <<>> ELSE Len(bsc.fifo) < FIFO
      /\ bsc' = IF after.dlen = 0 THEN H!Stopped(after) ELSE after
  BY DEF H!BscByte
<1>2. /\ IsBsc(after) /\ after.ERR = bsc.ERR /\ after.CLKT = bsc.CLKT /\ after.DONE = bsc.DONE
      /\ after.transfer = bsc.transfer /\ after.then = bsc.then /\ after.dlen = bsc.dlen - 1
      /\ after.line = Append(bsc.line, IF sends THEN Head(bsc.fifo) ELSE 0)
      /\ sends => after.fifo = Tail(bsc.fifo)
      /\ ~sends => after.fifo = Append(bsc.fifo, <<calls, Len(bsc.line) + 1>>)
  <2> DEFINE byte == IF sends THEN Head(bsc.fifo) ELSE 0
             queue == IF sends THEN Tail(bsc.fifo) ELSE Append(bsc.fifo, H!Answer(Len(bsc.line) + 1))
  <2>1. /\ sends => queue = Tail(bsc.fifo)
        /\ ~sends => queue = Append(bsc.fifo, <<calls, Len(bsc.line) + 1>>)
    BY DEF H!Answer
  <2>2. after = [bsc EXCEPT !.dlen = bsc.dlen - 1, !.line = Append(bsc.line, byte), !.fifo = queue]
    BY Zenon DEF IsBsc
  <2> HIDE DEF byte, queue, after, sends
  <2>3. /\ IsBsc(after) /\ after.ERR = bsc.ERR /\ after.CLKT = bsc.CLKT /\ after.DONE = bsc.DONE
        /\ after.transfer = bsc.transfer /\ after.then = bsc.then /\ after.dlen = bsc.dlen - 1
        /\ after.line = Append(bsc.line, byte) /\ after.fifo = queue
    BY <2>2 DEF IsBsc
  <2> QED
    BY <2>1, <2>3 DEF byte
<1> HIDE DEF after
<1>3. ASSUME NEW b, IsBsc(b)
      PROVE  /\ IsBsc(H!Stopped(b)) /\ H!Stopped(b).ERR = b.ERR /\ H!Stopped(b).CLKT = b.CLKT
             /\ H!Stopped(b).fifo = b.fifo /\ H!Stopped(b).then = IF b.then > 0 THEN 0 ELSE b.then
             /\ b.then > 0 => H!Stopped(b).transfer = "read" /\ H!Stopped(b).line = <<>>
             /\ ~(b.then > 0) => H!Stopped(b).transfer = "none" /\ H!Stopped(b).line = b.line
  BY <1>3 DEF IsBsc, H!Stopped
<1>4. CASE bsc.dlen - 1 # 0
  BY <1>1, <1>2, <1>4
<1>5. CASE bsc.dlen - 1 = 0
  BY <1>1, <1>2, <1>3, <1>5
<1> QED
  BY <1>4, <1>5

LEMMA BscByteStep ==
    ASSUME I2cInv, H!BscByte
    PROVE  I2cInv'
PROOF
<1>1. /\ IsBsc(bsc') /\ bsc'.ERR = bsc.ERR /\ bsc'.CLKT = bsc.CLKT
      /\ bsc.transfer # "none" /\ UNCHANGED <<op, calls, got, TXCnt>>
      /\ bsc.transfer = "write" => bsc.fifo # <<>> /\ bsc'.fifo = Tail(bsc.fifo)
      /\ bsc.transfer # "write" => bsc'.fifo = Append(bsc.fifo, <<calls, Len(bsc.line) + 1>>)
      /\ \/ /\ bsc.dlen - 1 # 0 /\ bsc'.dlen = bsc.dlen - 1 /\ bsc'.DONE = bsc.DONE
            /\ bsc'.transfer = bsc.transfer /\ bsc'.then = bsc.then
            /\ bsc'.line = Append(bsc.line, IF bsc.transfer = "write" THEN Head(bsc.fifo) ELSE 0)
         \/ /\ bsc.dlen - 1 = 0 /\ bsc.then > 0
            /\ bsc'.transfer = "read" /\ bsc'.then = 0 /\ bsc'.line = <<>>
         \/ /\ bsc.dlen - 1 = 0 /\ ~(bsc.then > 0) /\ bsc'.transfer = "none"
            /\ bsc'.then = bsc.then
            /\ bsc'.line = Append(bsc.line, IF bsc.transfer = "write" THEN Head(bsc.fifo) ELSE 0)
  BY ByteFacts DEF I2cInv
<1>2. ASSUME WriteOnBus
      PROVE  WriteOnBus'
  <2>1. /\ bsc.transfer = "write" /\ bsc.DONE = FALSE /\ bsc.then = 0
        /\ bsc.dlen \in Nat /\ bsc.dlen > 0 /\ bsc.dlen = op.len - Len(bsc.line)
        /\ Len(bsc.line) \in Nat /\ op.len \in Nat
    BY <1>1, <1>2 DEF WriteOnBus, Numbers, I2cInv, IsOp
  <2>2. /\ Numbers(bsc'.fifo, Len(bsc.line) + 1) /\ Head(bsc.fifo) = Len(bsc.line) + 1
        /\ Len(bsc'.fifo) = Len(bsc.fifo) - 1 /\ Len(bsc.fifo) \in Nat
    BY <1>1, <1>2, <2>1, NumbersTail DEF WriteOnBus
  <2>3. bsc'.line = Append(bsc.line, Head(bsc.fifo)) /\ bsc'.then = 0
    BY <1>1, <2>1
  <2>4. Numbers(bsc'.line, 0) /\ Len(bsc'.line) = Len(bsc.line) + 1
    <3> DEFINE b == Head(bsc.fifo)
    <3>1. b = 0 + Len(bsc.line) + 1 /\ Numbers(bsc.line, 0)
      BY <1>2, <2>1, <2>2 DEF WriteOnBus
    <3> HIDE DEF b
    <3>2. Numbers(Append(bsc.line, b), 0) /\ Len(Append(bsc.line, b)) = Len(bsc.line) + 1
      BY <3>1, NumbersAppend
    <3> QED
      BY <2>3, <3>2 DEF b
  <2>5. Len(bsc'.line) + Len(bsc'.fifo) = TXCnt /\ Numbers(bsc'.fifo, Len(bsc'.line))
    <3>1. /\ Len(bsc.line) + Len(bsc.fifo) = TXCnt /\ TXCnt \in Nat
          /\ Len(bsc.line) \in Nat /\ Len(bsc.fifo) \in Nat
      BY <1>2, <2>1, <2>2 DEF WriteOnBus
    <3>2. \A a, b \in Nat : (a + 1) + (b - 1) = a + b
      OBVIOUS
    <3>3. Len(bsc'.line) + Len(bsc'.fifo) = TXCnt
      BY <2>2, <2>4, <3>1, <3>2
    <3> QED
      BY <2>2, <2>4, <3>3
  <2>6. CASE bsc.dlen - 1 # 0
    <3>1. /\ bsc'.dlen = bsc.dlen - 1 /\ bsc'.DONE = FALSE /\ bsc'.transfer = "write"
      BY <1>1, <2>1, <2>6
    <3>2. bsc'.dlen \in Nat /\ bsc'.dlen > 0 /\ bsc'.dlen = op.len - Len(bsc'.line)
      BY <2>1, <2>4, <2>6, <3>1
    <3> QED
      BY <1>1, <1>2, <2>3, <2>4, <2>5, <3>1, <3>2 DEF WriteOnBus
  <2>7. CASE bsc.dlen - 1 = 0
    <3>1. bsc'.transfer = "none" /\ Len(bsc'.line) = op.len
      BY <1>1, <2>1, <2>4, <2>7
    <3> QED
      BY <1>1, <1>2, <2>3, <2>4, <2>5, <3>1 DEF WriteOnBus
  <2> QED
    BY <2>6, <2>7
<1>3. ASSUME ReadOnBus
      PROVE  ReadOnBus'
  <2>1. /\ op.len \in Nat /\ op.len > 0 /\ calls \in Nat /\ Len(got) \in Nat
    BY <1>3 DEF ReadOnBus, Replies, I2cInv, IsOp
  <2>2. CASE RegisterAsked
    <3>1. bsc'.fifo = <<>>
      BY <1>1, <2>2 DEF RegisterAsked
    <3>2. CASE op.stage = "start"
      <4>1. bsc'.transfer = "none" /\ bsc'.then = 0
        BY <1>1, <2>2, <3>2 DEF RegisterAsked
      <4>2. RegisterGiven'
        BY <1>1, <2>2, <3>1, <3>2, <4>1 DEF RegisterAsked, RegisterGiven
      <4> QED
        BY <1>1, <1>3, <4>2 DEF ReadOnBus
    <3>3. CASE op.stage # "start"
      <4>1. bsc'.transfer = "read" /\ bsc'.then = 0 /\ bsc'.line = <<>>
        BY <1>1, <2>1, <2>2, <3>3 DEF RegisterAsked
      <4>2. Replies(bsc'.fifo, calls, Len(got)) /\ Len(bsc'.fifo) = 0 /\ Len(bsc'.line) = 0
               /\ bsc'.line \in Seq(Nat) /\ Len(got) = 0
        BY <2>2, <3>1, <4>1, RepliesEmpty, EmptySeq DEF RegisterAsked
      <4>3. AnswersCome'
        BY <1>1, <3>3, <4>1, <4>2 DEF AnswersCome
      <4> QED
        BY <1>1, <1>3, <4>3 DEF ReadOnBus
    <3> QED
      BY <3>2, <3>3
  <2>3. CASE AnswersCome
    <3>1. bsc'.then = 0 /\ bsc'.transfer # "write" /\ bsc'.line = Append(bsc.line, 0)
      BY <1>1, <2>3 DEF AnswersCome
    <3>2. /\ bsc'.fifo = Append(bsc.fifo, <<calls, Len(bsc.line) + 1>>)
          /\ Replies(bsc.fifo, calls, Len(got)) /\ Len(bsc.line) = Len(got) + Len(bsc.fifo)
          /\ bsc.line \in Seq(Nat)
      BY <1>1, <2>3 DEF AnswersCome
    <3>3. /\ Replies(bsc'.fifo, calls, Len(got)) /\ Len(bsc'.fifo) = Len(bsc.fifo) + 1
          /\ Len(bsc.fifo) \in Nat
      BY <2>1, <3>2, RepliesAppend
    <3>4. bsc'.line \in Seq(Nat) /\ Len(bsc'.line) = Len(bsc.line) + 1
      BY <3>1, <3>2, Appended
    <3>5. Len(bsc'.line) = Len(got) + Len(bsc'.fifo)
      BY <2>1, <3>2, <3>3, <3>4
    <3>6. AnswersCome'
      BY <1>1, <2>3, <3>1, <3>3, <3>4, <3>5 DEF AnswersCome
    <3> QED
      BY <1>1, <1>3, <3>6 DEF ReadOnBus
  <2>4. ~RegisterGiven
    BY <1>1 DEF RegisterGiven
  <2> QED
    BY <1>3, <2>2, <2>3, <2>4 DEF ReadOnBus
<1> QED
  BY <1>1, <1>2, <1>3 DEF I2cInv, NoFault

LEMMA RunLengths ==
    /\ \A s, from : Numbers(s, from) => Len(s) \in Nat
    /\ \A s, x, from : Replies(s, x, from) => Len(s) \in Nat
BY DEF Numbers, Replies

LEMMA MovedOn ==
    \A a, b \in Nat : (a + 1) + (b - 1) = a + b /\ a + (b + 1) = (a + b) + 1
OBVIOUS

\* A run of bytes from the start.
LEMMA BytesRun ==
    ASSUME NEW k \in Nat
    PROVE  Numbers(H!Bytes(k), 0) /\ Len(H!Bytes(k)) = k
BY DEF H!Bytes, Numbers

LEMMA PrefilledFacts ==
    /\ \A n \in Nat : H!Prefilled(n) \in Nat /\ H!Prefilled(n) <= n
    /\ H!Prefilled(0) = 0 /\ H!Prefilled(1) = 1
BY TransfersConstants DEF H!Prefilled

LEMMA I2cBeginStep ==
    ASSUME calls \in Nat, NEW name \in I2cNames, NEW n \in Nat \ {0}, H!I2cBegin(name, n)
    PROVE  I2cInv'
PROOF
<1> DEFINE writes == IF name = "i2c_read" THEN 0 ELSE IF name = "i2c_write" THEN n ELSE 1
<1>1. /\ calls' = calls + 1 /\ got' = <<>>
      /\ TXCnt' = H!Prefilled(writes)
      /\ bsc' = [H!Quiet EXCEPT !.transfer = IF writes = 0 THEN "read" ELSE "write",
                                !.dlen = IF writes = 0 THEN n ELSE writes,
                                !.fifo = H!Bytes(H!Prefilled(writes))]
      /\ op' = [name |-> name, len |-> n,
                stage |-> IF name = "i2c_read_rs" THEN "start" ELSE "poll"]
  BY DEF H!I2cBegin
<1>2. /\ IsOp(op') /\ op'.name = name /\ op'.len = n
      /\ op'.stage = IF name = "i2c_read_rs" THEN "start" ELSE "poll"
  BY <1>1 DEF IsOp
<1>3. writes \in Nat /\ H!Prefilled(writes) \in Nat /\ H!Prefilled(writes) <= writes
  BY PrefilledFacts
<1> HIDE DEF writes
<1>4. /\ IsBsc(bsc') /\ bsc'.line = <<>> /\ bsc'.then = 0 /\ bsc'.DONE = FALSE
      /\ bsc'.transfer = (IF writes = 0 THEN "read" ELSE "write")
      /\ bsc'.dlen = (IF writes = 0 THEN n ELSE writes)
      /\ bsc'.fifo = H!Bytes(H!Prefilled(writes))
  BY <1>1 DEF H!Quiet, IsBsc
<1>5. Numbers(bsc'.fifo, 0) /\ Len(bsc'.fifo) = H!Prefilled(writes)
  BY <1>3, <1>4, BytesRun
<1>6. ASSUME name = "i2c_write"
      PROVE  WriteOnBus'
  <2>1. writes = n /\ writes # 0
    BY <1>6 DEF writes
  <2>2. Numbers(bsc'.line, 0) /\ Len(bsc'.line) = 0
    BY <1>4, NumbersEmpty
  <2>3. Len(bsc'.line) + Len(bsc'.fifo) = TXCnt' /\ bsc'.dlen = op'.len - Len(bsc'.line)
    BY <1>1, <1>2, <1>3, <1>4, <1>5, <2>1, <2>2
  <2>4. Numbers(bsc'.fifo, Len(bsc'.line))
    BY <1>5, <2>2
  <2>5. TXCnt' \in Nat /\ TXCnt' <= op'.len /\ bsc'.dlen \in Nat /\ bsc'.dlen > 0
    BY <1>1, <1>2, <1>3, <1>4, <2>1
  <2> QED
    BY <1>4, <2>1, <2>2, <2>3, <2>4, <2>5 DEF WriteOnBus
<1>7. ASSUME name \in I2cReads
      PROVE  ReadOnBus'
  <2>1. op'.len > 0 /\ Replies(got', calls', 0) /\ Len(got') = 0 /\ Len(got') <= op'.len
    BY <1>1, <1>2, RepliesEmpty
  <2>2. CASE name = "i2c_read"
    <3>1. writes = 0 /\ op'.stage # "start"
      BY <1>2, <2>2 DEF writes
    <3>2. bsc'.transfer = "read" /\ Len(bsc'.fifo) = 0
      BY <1>4, <1>5, <3>1, PrefilledFacts
    <3>3. bsc'.fifo = <<>> /\ Len(bsc'.line) = 0 /\ bsc'.line \in Seq(Nat)
      BY <1>4, <1>5, <3>2, EmptySeq DEF Numbers
    <3>4. Replies(bsc'.fifo, calls', Len(got'))
      BY <3>3, RepliesEmpty
    <3>5. AnswersCome'
      BY <1>4, <2>1, <3>1, <3>2, <3>3, <3>4 DEF AnswersCome
    <3> QED
      BY <2>1, <3>5 DEF ReadOnBus
  <2>3. CASE name = "i2c_read_rs"
    <3>1. writes = 1 /\ op'.stage = "start"
      BY <1>2, <2>3 DEF writes
    <3>2. bsc'.transfer = "write" /\ bsc'.dlen = 1 /\ Len(bsc'.fifo) = 1
      BY <1>4, <1>5, <3>1, PrefilledFacts
    <3>3. bsc'.fifo \in Seq(Nat)
      BY <1>5 DEF Numbers
    <3>4. bsc'.fifo = <<bsc'.fifo[1]>>
      BY <3>2, <3>3
    <3>5. RegisterAsked'
      BY <1>4, <2>1, <3>1, <3>2, <3>4 DEF RegisterAsked
    <3> QED
      BY <2>1, <3>5 DEF ReadOnBus
  <2> QED
    BY <1>7, <2>2, <2>3 DEF I2cReads
<1> QED
  BY <1>1, <1>2, <1>4, <1>6, <1>7 DEF I2cInv, I2cNames, I2cReads

LEMMA BscFailStep ==
    ASSUME I2cInv, H!BscFail
    PROVE  I2cInv'
PROOF
<1>1. PICK flag \in {"ERR", "CLKT"} :
        bsc' = [bsc EXCEPT ![flag] = TRUE, !.transfer = "none", !.then = 0, !.DONE = TRUE]
  BY DEF H!BscFail
<1>2. UNCHANGED <<op, calls>> /\ IsBsc(bsc)
  BY DEF H!BscFail, I2cInv
<1>3. CASE flag = "ERR"
  <2>1. bsc' = [bsc EXCEPT !.ERR = TRUE, !.transfer = "none", !.then = 0, !.DONE = TRUE]
    BY <1>1, <1>3
  <2>2. IsBsc(bsc') /\ bsc'.ERR = TRUE
    BY <1>2, <2>1 DEF IsBsc
  <2> QED
    BY <1>2, <2>2 DEF I2cInv, NoFault
<1>4. CASE flag = "CLKT"
  <2>1. bsc' = [bsc EXCEPT !.CLKT = TRUE, !.transfer = "none", !.then = 0, !.DONE = TRUE]
    BY <1>1, <1>4
  <2>2. IsBsc(bsc') /\ bsc'.CLKT = TRUE
    BY <1>2, <2>1 DEF IsBsc
  <2> QED
    BY <1>2, <2>2 DEF I2cInv, NoFault
<1> QED
  BY <1>3, <1>4

\* What an I2C call has done when it reports success.
I2cExact ==
  /\ op.name = "i2c_write" => bsc.line = H!Bytes(op.len)
  /\ op.name \in I2cReads => got = H!Answers(op.len)
I2cDone == I2cInv' /\ (op'.name = "none" /\ reason' = "ok" => I2cExact)

LEMMA ResultOk ==
    ASSUME NEW left, H!Result(left) = "ok"
    PROVE  NoFault /\ ~(left > 0)
BY DEF H!Result, NoFault

LEMMA I2cWriteStep ==
    ASSUME I2cInv, H!I2cWrite, H!BscStep
    PROVE  I2cDone
PROOF
<1>1. /\ op.name = "i2c_write" /\ op.stage = "poll" /\ calls' = calls /\ IsOp(op)
      /\ IsBsc(bsc) /\ calls \in Nat /\ op.len \in Nat
      /\ NoFault => WriteOnBus
  BY DEF H!I2cWrite, H!At, H!BscStep, I2cInv, IsOp
<1>2. CASE bsc.DONE
  <2>1. op' = H!NoOp /\ reason' = H!Result(op.len - TXCnt) /\ UNCHANGED <<TXCnt, got, bsc>>
    BY <1>2 DEF H!I2cWrite, H!Finish
  <2>2. I2cInv'
    BY <1>1, <2>1, NoOpTyped DEF I2cInv, I2cReads
  <2>3. ASSUME reason' = "ok"
        PROVE  bsc.line = H!Bytes(op.len)
    <3>1. NoFault
      BY <2>1, <2>3, ResultOk
    <3>2. Numbers(bsc.line, 0) /\ Len(bsc.line) = op.len
      BY <1>1, <1>2, <3>1 DEF WriteOnBus
    <3> QED
      BY <1>1, <3>2, WholeRun
  <2> QED
    BY <1>1, <2>2, <2>3 DEF I2cDone, I2cExact, I2cReads
<1>3. CASE ~bsc.DONE
  <2>1. /\ TXCnt < op.len /\ TXCnt' = TXCnt + 1 /\ UNCHANGED <<op, got>>
        /\ bsc' = [bsc EXCEPT !.fifo = Append(bsc.fifo, TXCnt + 1)]
    BY <1>3, Zenon DEF H!I2cWrite
  <2> DEFINE queue == Append(bsc.fifo, TXCnt + 1)
  <2>2. /\ IsBsc(bsc') /\ bsc'.fifo = queue /\ bsc'.line = bsc.line /\ bsc'.transfer = bsc.transfer
        /\ bsc'.then = bsc.then /\ bsc'.dlen = bsc.dlen /\ bsc'.DONE = bsc.DONE
        /\ bsc'.ERR = bsc.ERR /\ bsc'.CLKT = bsc.CLKT
    <3> HIDE DEF queue
    <3>1. bsc' = [bsc EXCEPT !.fifo = queue]
      BY <2>1 DEF queue
    <3> QED
      BY <1>1, <3>1 DEF IsBsc
  <2>3. ASSUME WriteOnBus
        PROVE  WriteOnBus'
    <3>1. /\ TXCnt \in Nat /\ Len(bsc.line) \in Nat /\ Numbers(bsc.fifo, Len(bsc.line))
          /\ Len(bsc.line) + Len(bsc.fifo) = TXCnt /\ Len(bsc.fifo) \in Nat
      BY <2>3, RunLengths DEF WriteOnBus
    <3>2. TXCnt + 1 = Len(bsc.line) + Len(bsc.fifo) + 1
      BY <3>1
    <3>3. Numbers(queue, Len(bsc.line)) /\ Len(queue) = Len(bsc.fifo) + 1
      BY <3>1, <3>2, NumbersAppend
    <3> HIDE DEF queue
    <3>4. Len(bsc.line) + Len(queue) = TXCnt + 1
      <4>1. Len(bsc.line) + (Len(bsc.fifo) + 1) = (Len(bsc.line) + Len(bsc.fifo)) + 1
        BY <3>1, MovedOn
      <4> QED
        BY <3>1, <3>3, <4>1
    <3>5. TXCnt + 1 \in Nat /\ TXCnt + 1 <= op.len
      BY <1>1, <2>1, <3>1
    <3> QED
      BY <1>1, <2>1, <2>2, <2>3, <3>3, <3>4, <3>5 DEF WriteOnBus
  <2>4. I2cInv'
    BY <1>1, <2>1, <2>2, <2>3 DEF I2cInv, NoFault, I2cReads
  <2> QED
    BY <1>1, <2>1, <2>4 DEF I2cDone
<1> QED
  BY <1>2, <1>3

LEMMA ReadBscStep ==
    ASSUME I2cInv, H!ReadBsc, H!BscStep, op.name \in I2cReads
    PROVE  I2cInv' /\ UNCHANGED op
PROOF
<1>1. /\ bsc.transfer # "write" /\ bsc.fifo # <<>> /\ Len(got) < op.len
      /\ got' = Append(got, Head(bsc.fifo)) /\ bsc' = [bsc EXCEPT !.fifo = Tail(bsc.fifo)]
      /\ UNCHANGED <<op, TXCnt, calls>>
  BY Zenon DEF H!ReadBsc, H!BscRXD, H!BscStep
<1>2. /\ IsBsc(bsc') /\ bsc'.fifo = Tail(bsc.fifo) /\ bsc'.line = bsc.line
      /\ bsc'.transfer = bsc.transfer /\ bsc'.then = bsc.then
      /\ bsc'.ERR = bsc.ERR /\ bsc'.CLKT = bsc.CLKT
  BY <1>1 DEF I2cInv, IsBsc
<1>3. IsOp(op) /\ calls \in Nat /\ op.len \in Nat
  BY DEF I2cInv, IsOp
<1>4. ASSUME ReadOnBus
      PROVE  ReadOnBus'
  <2>1. AnswersCome
    BY <1>1, <1>4 DEF ReadOnBus, RegisterAsked, RegisterGiven
  <2>2. /\ Replies(got, calls, 0) /\ Len(got) \in Nat
        /\ Replies(bsc.fifo, calls, Len(got)) /\ Len(bsc.line) = Len(got) + Len(bsc.fifo)
    BY <1>4, <2>1, RunLengths DEF ReadOnBus, AnswersCome
  <2>3. /\ Replies(bsc'.fifo, calls, Len(got) + 1) /\ Head(bsc.fifo) = <<calls, Len(got) + 1>>
        /\ Len(bsc'.fifo) = Len(bsc.fifo) - 1 /\ Len(bsc.fifo) \in Nat
    BY <1>1, <1>2, <1>3, <2>2, RepliesTail
  <2>4. Replies(got', calls, 0) /\ Len(got') = Len(got) + 1
    <3>1. Len(got) + 1 = 0 + Len(got) + 1
      BY <2>2
    <3>2. got' = Append(got, <<calls, Len(got) + 1>>)
      BY <1>1, <2>3
    <3> QED
      BY <1>3, <2>2, <3>1, <3>2, RepliesAppend
  <2>5. Len(bsc'.line) = Len(got') + Len(bsc'.fifo) /\ Len(got') <= op.len
    <3>2. Len(bsc'.line) = Len(got') + Len(bsc'.fifo)
      BY <1>2, <2>2, <2>3, <2>4, MovedOn
    <3>3. Len(got) < op.len /\ op.len \in Nat /\ Len(got) \in Nat
      BY <1>1, <1>3, <2>2
    <3>4. Len(got) + 1 <= op.len
      BY <3>3
    <3> QED
      BY <2>4, <3>2, <3>4
  <2>6. AnswersCome'
    BY <1>1, <1>2, <2>1, <2>3, <2>4, <2>5 DEF AnswersCome
  <2> QED
    BY <1>1, <1>4, <2>4, <2>5, <2>6 DEF ReadOnBus
<1> QED
  BY <1>1, <1>2, <1>3, <1>4 DEF I2cInv, NoFault, I2cReads

LEMMA I2cReadStep ==
    ASSUME I2cInv, H!I2cRead, H!BscStep
    PROVE  I2cDone
PROOF
<1>1. /\ op.name \in I2cReads /\ calls' = calls /\ IsOp(op) /\ IsBsc(bsc) /\ calls \in Nat
      /\ op.len \in Nat
      /\ NoFault => ReadOnBus
  BY DEF H!I2cRead, H!BscStep, I2cInv, IsOp, I2cReads
<1>2. CASE H!ReadBsc
  BY <1>1, <1>2, ReadBscStep DEF I2cDone, I2cReads
<1>3. CASE op.stage = "poll" /\ H!Goto("rest") /\ UNCHANGED <<got, TXCnt, bsc>>
  <2>1. IsOp(op') /\ op'.name = op.name /\ op'.len = op.len /\ op'.stage = "rest"
    BY <1>1, <1>3, GotoKeeps
  <2>2. ReadOnBus => ReadOnBus'
    BY <1>1, <1>3, <2>1 DEF ReadOnBus, RegisterAsked, RegisterGiven, AnswersCome
  <2>3. I2cInv'
    BY <1>1, <1>3, <2>1, <2>2 DEF I2cInv, NoFault, I2cReads
  <2> QED
    BY <1>1, <2>1, <2>3 DEF I2cDone, I2cReads
<1>4. CASE H!Finish(H!Result(op.len - Len(got))) /\ UNCHANGED <<got, TXCnt, bsc>>
  <2>1. op' = H!NoOp /\ reason' = H!Result(op.len - Len(got))
    BY <1>4 DEF H!Finish
  <2>2. I2cInv'
    BY <1>1, <1>4, <2>1, NoOpTyped DEF I2cInv, I2cReads
  <2>3. ASSUME reason' = "ok"
        PROVE  got = H!Answers(op.len)
    <3>1. NoFault /\ ~(op.len - Len(got) > 0)
      BY <2>1, <2>3, ResultOk
    <3>2. Replies(got, calls, 0) /\ Len(got) <= op.len /\ Len(got) \in Nat
      BY <1>1, <3>1, RunLengths DEF ReadOnBus
    <3>3. Len(got) = op.len
      BY <1>1, <3>1, <3>2
    <3> QED
      BY <1>1, <3>2, <3>3, WholeRun
  <2> QED
    BY <1>1, <2>2, <2>3 DEF I2cDone, I2cExact, I2cReads
<1> QED
  BY <1>2, <1>3, <1>4 DEF H!I2cRead

LEMMA RepeatedStartStep ==
    ASSUME I2cInv, H!RepeatedStart
    PROVE  I2cDone
PROOF
<1>1. /\ op.name = "i2c_read_rs" /\ op.stage = "start" /\ UNCHANGED <<calls, got, TXCnt>>
      /\ H!Goto("poll")
      /\ IsOp(op) /\ IsBsc(bsc) /\ calls \in Nat /\ op.len \in Nat
      /\ NoFault => ReadOnBus
  BY DEF H!RepeatedStart, H!At, I2cInv, IsOp, I2cReads
<1>2. IsOp(op') /\ op'.name = op.name /\ op'.len = op.len /\ op'.stage = "poll"
  BY <1>1, GotoKeeps
<1>3. CASE bsc.transfer = "write"
  <2>1. bsc' = [bsc EXCEPT !.then = op.len]
    BY <1>3 DEF H!RepeatedStart
  <2>2. /\ IsBsc(bsc') /\ bsc'.fifo = bsc.fifo /\ bsc'.transfer = "write" /\ bsc'.dlen = bsc.dlen
        /\ bsc'.then = op.len /\ bsc'.ERR = bsc.ERR /\ bsc'.CLKT = bsc.CLKT
    BY <1>1, <1>3, <2>1 DEF IsBsc
  <2>3. ASSUME ReadOnBus
        PROVE  ReadOnBus'
    <3>1. RegisterAsked
      BY <1>1, <1>3, <2>3 DEF ReadOnBus, RegisterGiven, AnswersCome
    <3>2. RegisterAsked'
      BY <1>1, <1>2, <2>2, <3>1 DEF RegisterAsked
    <3> QED
      BY <1>1, <1>2, <2>3, <3>2 DEF ReadOnBus
  <2>4. I2cInv'
    BY <1>1, <1>2, <2>2, <2>3 DEF I2cInv, NoFault, I2cReads
  <2> QED
    BY <1>1, <1>2, <2>4 DEF I2cDone
<1>4. CASE bsc.transfer # "write"
  <2>1. bsc' = [bsc EXCEPT !.transfer = "read", !.dlen = op.len, !.line = <<>>]
    BY <1>4 DEF H!RepeatedStart
  <2>2. /\ IsBsc(bsc') /\ bsc'.fifo = bsc.fifo /\ bsc'.transfer = "read" /\ bsc'.line = <<>>
        /\ bsc'.then = bsc.then /\ bsc'.ERR = bsc.ERR /\ bsc'.CLKT = bsc.CLKT
    BY <1>1, <2>1 DEF IsBsc
  <2>3. ASSUME ReadOnBus
        PROVE  ReadOnBus'
    <3>1. RegisterGiven
      BY <1>1, <1>4, <2>3 DEF ReadOnBus, RegisterAsked, AnswersCome
    <3>2. /\ Replies(bsc'.fifo, calls, Len(got')) /\ Len(bsc'.fifo) = 0 /\ Len(bsc'.line) = 0
          /\ bsc'.line \in Seq(Nat) /\ Len(got') = 0 /\ bsc'.then = 0
      BY <1>1, <2>2, <3>1, RepliesEmpty, EmptySeq DEF RegisterGiven
    <3>3. AnswersCome'
      BY <1>1, <1>2, <2>2, <3>2 DEF AnswersCome
    <3> QED
      BY <1>1, <1>2, <2>3, <3>3 DEF ReadOnBus
  <2>4. I2cInv'
    BY <1>1, <1>2, <2>2, <2>3 DEF I2cInv, NoFault, I2cReads
  <2> QED
    BY <1>1, <1>2, <2>4 DEF I2cDone
<1> QED
  BY <1>3, <1>4

-----------------------------------------------------------------------------
(* All transfers.  A step of one kind leaves the invariants of the others. *)

HInv == SpiInv /\ DelayInv /\ I2cInv
HDone == HInv' /\ H!TransferStep

LEMMA SpiKept ==
    ASSUME SpiInv
    PROVE  /\ UNCHANGED <<op, calls, txf, rxf, TA, line, got, TXCnt>> => SpiInv'
           /\ IsOp(op') /\ op.name \notin SpiNames /\ op'.name \notin SpiNames /\ TA' = TA => SpiInv'
BY DEF SpiInv, SpiFlow, SpiStages

LEMMA DelayKept ==
    ASSUME DelayInv, UNCHANGED <<now, t>>
    PROVE  /\ UNCHANGED op => DelayInv'
           /\ IsOp(op') /\ op'.name # "delay" => DelayInv'
BY DEF DelayInv, DelayFlow

LEMMA I2cKept ==
    ASSUME I2cInv, UNCHANGED bsc
    PROVE  /\ UNCHANGED <<op, calls, got, TXCnt>> => I2cInv'
           /\ IsOp(op') /\ op'.name \notin I2cNames /\ calls' \in Nat => I2cInv'
BY DEF I2cInv, I2cNames, NoFault, WriteOnBus, ReadOnBus, RegisterAsked, RegisterGiven, AnswersCome

LEMMA KindsApart ==
    /\ \A name \in SpiNames : name \notin I2cNames /\ name # "delay" /\ name # "none"
    /\ \A name \in I2cNames : name \notin SpiNames /\ name # "delay" /\ name # "none"
    /\ "delay" \notin SpiNames /\ "delay" \notin I2cNames
    /\ "none" \notin SpiNames /\ "none" \notin I2cNames
BY DEF SpiNames, I2cNames, I2cReads

LEMMA SpiBegins ==
    ASSUME HInv, op.name = "none", NEW name \in SpiNames, NEW n \in Nat, H!SpiBegin(name, n),
           name = "transfer" => n = 1, name = "write" => n = 2
    PROVE  HDone
PROOF
<1>1. calls \in Nat /\ SpiInv /\ DelayInv /\ I2cInv
  BY DEF HInv, I2cInv
<1>2. SpiInv'
  BY <1>1, SpiBeginStep
<1>3. /\ op'.name = name /\ calls' = calls + 1 /\ UNCHANGED <<bsc, now, t>>
  BY DEF H!SpiBegin, H!Begin, H!clock
<1>4. IsOp(op') /\ calls' \in Nat
  BY <1>1, <1>2, <1>3 DEF SpiInv
<1> QED
  BY <1>1, <1>2, <1>3, <1>4, DelayKept, I2cKept, KindsApart DEF HDone, HInv, H!TransferStep

LEMMA I2cBegins ==
    ASSUME HInv, op.name = "none", NEW name \in I2cNames, NEW n \in Nat \ {0},
           H!I2cBegin(name, n)
    PROVE  HDone
PROOF
<1>1. calls \in Nat /\ SpiInv /\ DelayInv /\ I2cInv
  BY DEF HInv, I2cInv
<1>2. I2cInv'
  BY <1>1, I2cBeginStep
<1>3. op'.name = name /\ UNCHANGED <<TA, now, t>>
  BY DEF H!I2cBegin, H!clock, H!spi
<1>4. IsOp(op')
  BY <1>2 DEF I2cInv
<1> QED
  BY <1>1, <1>2, <1>3, <1>4, SpiKept, DelayKept, KindsApart DEF HDone, HInv, H!TransferStep

LEMMA DelayCalled ==
    ASSUME HInv, op.name = "none", NEW us \in Micros, H!Delay(us)
    PROVE  HDone
PROOF
<1>1. calls \in Nat /\ SpiInv /\ DelayInv /\ I2cInv
  BY DEF HInv, I2cInv
<1>2. DelayInv'
  BY <1>1, DelayBegins
<1>3. op'.name = "delay" /\ UNCHANGED <<TA, bsc>> /\ calls' = calls + 1
  BY DEF H!Delay, H!Begin, H!spi
<1>4. IsOp(op') /\ calls' \in Nat
  BY <1>1, <1>2, <1>3 DEF DelayInv
<1> QED
  BY <1>1, <1>2, <1>3, <1>4, SpiKept, I2cKept, KindsApart DEF HDone, HInv, H!TransferStep

LEMMA CallSteps ==
    ASSUME HInv, H!Call
    PROVE  HDone
PROOF
<1>1. op.name = "none"
  BY DEF H!Call, H!SpiBegin, H!Begin, H!I2cBegin, H!Delay, H!Idle
<1>2. CASE \E n \in SpiLengths : \E name \in {"transfernb", "writenb"} : H!SpiBegin(name, n)
  <2>1. PICK n \in SpiLengths, name \in {"transfernb", "writenb"} : H!SpiBegin(name, n)
    BY <1>2
  <2> QED
    BY <1>1, <2>1, SpiBegins, TransfersConstants DEF SpiNames
<1>3. CASE \E n \in I2cLengths :
             \E name \in {"i2c_write", "i2c_read", "i2c_read_rs"} : H!I2cBegin(name, n)
  <2>1. PICK n \in I2cLengths : \E name \in I2cNames : H!I2cBegin(name, n)
    BY <1>3 DEF I2cNames, I2cReads
  <2>2. PICK name \in I2cNames : H!I2cBegin(name, n)
    BY <2>1
  <2> QED
    BY <1>1, <2>2, I2cBegins, TransfersConstants
<1>4. CASE H!SpiBegin("transfer", 1)
  BY <1>1, <1>4, SpiBegins DEF SpiNames
<1>5. CASE H!SpiBegin("write", 2)
  BY <1>1, <1>5, SpiBegins DEF SpiNames
<1>6. CASE \E us \in Micros : now < MaxNow /\ H!Delay(us)
  BY <1>1, <1>6, DelayCalled
<1> QED
  BY <1>2, <1>3, <1>4, <1>5, <1>6 DEF H!Call

LEMMA SpiCode ==
    ASSUME HInv, H!Transfernb \/ H!Writenb \/ H!Transfer \/ H!Write16, H!SpiStep
    PROVE  HDone
PROOF
<1>1. calls \in Nat /\ SpiInv /\ DelayInv /\ I2cInv
  BY DEF HInv, I2cInv
<1>2. op.name \in SpiNames
  BY DEF H!Transfernb, H!Writenb, H!Transfer, H!Write16, H!At, SpiNames
<1>3. SpiDone
  BY <1>1, TransfernbStep, WritenbStep, OneByteStep, Write16Step
<1>4. UNCHANGED <<calls, bsc, now, t>>
  BY DEF H!SpiStep, H!clock
<1>5. SpiInv' /\ IsOp(op') /\ (op'.name = "none" \/ op'.name = op.name)
  BY <1>3 DEF SpiDone, SpiInv, SameCall
<1>6. op'.name \notin I2cNames /\ op'.name # "delay"
  BY <1>2, <1>5, KindsApart
<1>7. H!TransferStep
  BY <1>2, <1>3, KindsApart DEF H!TransferStep, SpiDone, SpiExact, I2cNames, I2cReads, SpiNames
<1> QED
  BY <1>1, <1>4, <1>5, <1>6, <1>7, DelayKept, I2cKept DEF HDone, HInv

LEMMA I2cCode ==
    ASSUME HInv, \/ (H!I2cWrite \/ H!I2cRead) /\ H!BscStep
                 \/ H!RepeatedStart
    PROVE  HDone
PROOF
<1>1. SpiInv /\ DelayInv /\ I2cInv
  BY DEF HInv
<1>2. op.name \in I2cNames
  BY DEF H!I2cWrite, H!I2cRead, H!RepeatedStart, H!At, I2cNames, I2cReads
<1>3. I2cDone
  BY <1>1, I2cWriteStep, I2cReadStep, RepeatedStartStep
<1>4. UNCHANGED <<TA, now, t>>
  BY DEF H!BscStep, H!RepeatedStart, H!clock, H!spi
<1>5. I2cInv' /\ IsOp(op')
  BY <1>3 DEF I2cDone, I2cInv
<1>6. op'.name = "none" \/ op'.name = op.name
  BY <1>1, GotoKeeps, NoOpTyped
     DEF H!I2cWrite, H!I2cRead, H!ReadBsc, H!RepeatedStart, H!Finish, I2cInv
<1>7. op'.name \notin SpiNames /\ op'.name # "delay" /\ op.name \notin SpiNames
  BY <1>2, <1>6, KindsApart
<1>8. H!TransferStep
  BY <1>2, <1>3, KindsApart DEF H!TransferStep, I2cDone, I2cExact, I2cNames, I2cReads, SpiNames
<1> QED
  BY <1>1, <1>4, <1>5, <1>7, <1>8, DelayKept, SpiKept DEF HDone, HInv

LEMMA TimerCode ==
    ASSUME HInv, H!Timer, UNCHANGED <<calls, txf, rxf, TA, line, got, TXCnt, bsc, now>>
    PROVE  HDone
PROOF
<1>1. SpiInv /\ DelayInv /\ I2cInv /\ calls \in Nat
  BY DEF HInv, I2cInv
<1>2. op.name = "delay"
  BY DEF H!Timer, H!Rehi, H!At
<1>3. DelayDone
  BY <1>1, TimerStep
<1>4. DelayInv' /\ IsOp(op')
  BY <1>3 DEF DelayDone, DelayInv
<1>5. op'.name = "none" \/ op'.name = op.name
  BY <1>1, GotoKeeps, NoOpTyped DEF H!Timer, H!Rehi, H!StRead, H!Finish, DelayInv
<1>6. op'.name \notin SpiNames /\ op'.name \notin I2cNames /\ op.name \notin SpiNames
  BY <1>2, <1>5, KindsApart
<1>7. H!TransferStep
  BY <1>2, <1>3, KindsApart DEF H!TransferStep, DelayDone, I2cNames, I2cReads, SpiNames
<1>8. SpiInv'
  BY <1>1, <1>4, <1>6, SpiKept
<1>9. I2cInv'
  BY <1>1, <1>4, <1>6, I2cKept
<1> QED
  BY <1>4, <1>7, <1>8, <1>9 DEF HDone, HInv

LEMMA HardwareSteps ==
    ASSUME HInv, H!Hardware \/ H!BscFail
    PROVE  HDone
PROOF
<1>1. SpiInv /\ DelayInv /\ I2cInv /\ calls \in Nat /\ IsOp(op)
  BY DEF HInv, I2cInv
<1>2. op' = op
  BY DEF H!Hardware, H!BscFail, H!SpiExchange, H!BscByte, H!Tick
<1>3. H!TransferStep
  BY <1>2 DEF H!TransferStep
<1>4. CASE H!SpiExchange
  <2>1. UNCHANGED <<op, calls, got, TXCnt, bsc, now, t>> /\ TA = TRUE
    BY <1>4, <1>1 DEF H!SpiExchange, H!clock, SpiInv, SpiFlow
  <2>2. op.name \in SpiNames
    BY <1>1, <2>1 DEF SpiInv
  <2>3. SpiFlow' /\ SpiStages'
    BY <1>1, <1>4, <2>1, <2>2, ExchangeFlow DEF SpiInv, SpiStages
  <2>4. SpiInv'
    BY <1>1, <2>1, <2>2, <2>3 DEF SpiInv
  <2> QED
    BY <1>1, <1>3, <2>1, <2>4, DelayKept, I2cKept DEF HDone, HInv
<1>5. CASE H!BscByte
  <2>1. UNCHANGED <<op, calls, txf, rxf, TA, line, got, TXCnt, now, t>>
    BY <1>5 DEF H!BscByte, H!spi, H!clock
  <2> QED
    BY <1>1, <1>3, <1>5, <2>1, BscByteStep, SpiKept, DelayKept DEF HDone, HInv
<1>6. CASE H!BscFail
  <2>1. UNCHANGED <<op, calls, txf, rxf, TA, line, got, TXCnt, now, t>>
    BY <1>6 DEF H!BscFail, H!spi, H!clock
  <2> QED
    BY <1>1, <1>3, <1>6, <2>1, BscFailStep, SpiKept, DelayKept DEF HDone, HInv
<1>7. CASE H!Tick
  <2>1. UNCHANGED <<op, calls, txf, rxf, TA, line, got, TXCnt, bsc>>
    BY <1>7 DEF H!Tick, H!spi
  <2> QED
    BY <1>1, <1>3, <1>7, <2>1, TickStep, SpiKept, I2cKept DEF HDone, HInv
<1> QED
  BY <1>4, <1>5, <1>6, <1>7 DEF H!Hardware

LEMMA HSteps ==
    ASSUME HInv, [H!Next]_(H!vars)
    PROVE  HInv' /\ [H!TransferStep]_(H!vars)
PROOF
<1>1. CASE H!Next
  <2>1. CASE H!Call
    BY <2>1, CallSteps DEF HDone
  <2>2. CASE H!Code
    BY <2>2, SpiCode, I2cCode, TimerCode DEF HDone, H!Code, H!spi
  <2>3. CASE H!Hardware \/ H!BscFail
    BY <2>3, HardwareSteps DEF HDone
  <2> QED
    BY <1>1, <2>1, <2>2, <2>3 DEF H!Next
<1>2. CASE UNCHANGED H!vars
  <2>1. UNCHANGED <<op, calls, txf, rxf, TA, line, got, TXCnt, bsc, now, t>>
    BY <1>2 DEF H!vars, H!spi, H!clock
  <2> QED
    BY <1>2, <2>1, SpiKept, DelayKept, I2cKept DEF HInv
<1> QED
  BY <1>1, <1>2

LEMMA HStarts == H!Init => HInv
PROOF
<1> SUFFICES ASSUME H!Init
             PROVE  HInv
  OBVIOUS
<1>1. /\ op = H!NoOp /\ calls = 0 /\ TA = FALSE /\ bsc = H!Quiet /\ now = 1 /\ t = H!NoTimes
  BY DEF H!Init
<1>2. IsOp(op) /\ op.name = "none"
  BY <1>1, NoOpTyped
<1>3. IsBsc(bsc) /\ t \in Times
  BY <1>1 DEF IsBsc, H!Quiet, Times, H!NoTimes
<1> QED
  BY <1>1, <1>2, <1>3, KindsApart DEF HInv, SpiInv, DelayInv, I2cInv, I2cNames


-----------------------------------------------------------------------------
(* The auxiliary SPI *)

Bytes2 == Nat \X Nat

\* The bytes of an entry are of calls before x.
Below(e, x) == e \in Seq(Bytes2) /\ \A k \in 1..Len(e) : e[k][1] < x

\* The last n bytes of w are the first n of call x, and no other is of it.
LastOwn(w, n, x) ==
  /\ w \in Seq(Bytes2) /\ n \in Nat /\ n <= Len(w)
  /\ \A i \in 1..Len(w) : i > Len(w) - n => w[i] = <<x, i - (Len(w) - n)>>
  /\ \A i \in 1..Len(w) : i <= Len(w) - n => w[i][1] # x

LEMMA Joined ==
    ASSUME NEW S, NEW s \in Seq(S), NEW e \in Seq(S)
    PROVE  /\ s \o e \in Seq(S) /\ Len(s \o e) = Len(s) + Len(e)
           /\ \A i \in 1..Len(s) : (s \o e)[i] = s[i]
           /\ \A i \in 1..(Len(s) + Len(e)) : i > Len(s) => (s \o e)[i] = e[i - Len(s)]
BY ConcatProperties

LEMMA RepliesJoined ==
    ASSUME NEW s, NEW e, NEW x \in Nat, NEW from \in Nat, Replies(s, x, from),
           Replies(e, x, from + Len(s))
    PROVE  Replies(s \o e, x, from) /\ Len(s \o e) = Len(s) + Len(e)
PROOF
<1>1. s \in Seq(Bytes2) /\ e \in Seq(Bytes2) /\ Len(s) \in Nat /\ Len(e) \in Nat
  BY DEF Replies, Bytes2
<1>2. /\ s \o e \in Seq(Bytes2) /\ Len(s \o e) = Len(s) + Len(e)
      /\ \A i \in 1..Len(s) : (s \o e)[i] = s[i]
      /\ \A i \in 1..(Len(s) + Len(e)) : i > Len(s) => (s \o e)[i] = e[i - Len(s)]
  BY <1>1, Joined
<1>3. /\ \A i \in 1..Len(s) : s[i] = <<x, from + i>>
      /\ \A i \in 1..Len(e) : e[i] = <<x, (from + Len(s)) + i>>
  BY DEF Replies
<1>4. ASSUME NEW i \in 1..Len(s \o e)
      PROVE  (s \o e)[i] = <<x, from + i>>
  <2>1. CASE i <= Len(s)
    BY <1>1, <1>2, <1>3, <2>1
  <2>2. CASE i > Len(s)
    <3>1. i - Len(s) \in 1..Len(e) /\ (from + Len(s)) + (i - Len(s)) = from + i
      BY <1>1, <1>2, <2>2
    <3>2. i \in 1..(Len(s) + Len(e))
      BY <1>2
    <3>3. (s \o e)[i] = e[i - Len(s)]
      BY <1>2, <2>2, <3>2
    <3> QED
      BY <1>3, <3>1, <3>3
  <2> QED
    BY <1>1, <2>1, <2>2
<1> QED
  BY <1>2, <1>4 DEF Replies, Bytes2

LEMMA ForeignJoined ==
    ASSUME NEW w, NEW e, NEW x \in Nat, LastOwn(w, 0, x), Below(e, x)
    PROVE  LastOwn(w \o e, 0, x)
PROOF
<1>1. w \in Seq(Bytes2) /\ e \in Seq(Bytes2) /\ Len(w) \in Nat /\ Len(e) \in Nat
  BY DEF LastOwn, Below
<1>2. /\ w \o e \in Seq(Bytes2) /\ Len(w \o e) = Len(w) + Len(e)
      /\ \A i \in 1..Len(w) : (w \o e)[i] = w[i]
      /\ \A i \in 1..(Len(w) + Len(e)) : i > Len(w) => (w \o e)[i] = e[i - Len(w)]
  BY <1>1, Joined
<1>3. ASSUME NEW i \in 1..Len(w \o e)
      PROVE  (w \o e)[i][1] # x
  <2>1. CASE i <= Len(w)
    BY <1>1, <1>2, <2>1 DEF LastOwn
  <2>2. CASE i > Len(w)
    <3>1. i - Len(w) \in 1..Len(e) /\ i \in 1..(Len(w) + Len(e))
      BY <1>1, <1>2, <2>2
    <3>2. (w \o e)[i] = e[i - Len(w)]
      BY <1>2, <2>2, <3>1
    <3>3. e[i - Len(w)] \in Bytes2 /\ e[i - Len(w)][1] < x
      BY <1>1, <3>1 DEF Below
    <3>4. e[i - Len(w)][1] \in Nat
      BY <3>3 DEF Bytes2
    <3> QED
      BY <3>2, <3>3, <3>4
  <2> QED
    BY <1>1, <2>1, <2>2
<1>4. \A i \in 1..Len(w \o e) : ~(i > Len(w \o e) - 0)
  BY <1>1, <1>2
<1> QED
  BY <1>1, <1>2, <1>3, <1>4 DEF LastOwn

LEMMA OwnJoined ==
    ASSUME NEW w, NEW e, NEW n, NEW x \in Nat, LastOwn(w, n, x), Replies(e, x, n)
    PROVE  LastOwn(w \o e, n + Len(e), x)
PROOF
<1>1. /\ w \in Seq(Bytes2) /\ e \in Seq(Bytes2) /\ Len(w) \in Nat /\ Len(e) \in Nat
      /\ n \in Nat /\ n <= Len(w)
  BY DEF LastOwn, Replies, Bytes2
<1>2. /\ w \o e \in Seq(Bytes2) /\ Len(w \o e) = Len(w) + Len(e)
      /\ \A i \in 1..Len(w) : (w \o e)[i] = w[i]
      /\ \A i \in 1..(Len(w) + Len(e)) : i > Len(w) => (w \o e)[i] = e[i - Len(w)]
  BY <1>1, Joined
<1>3. Len(w \o e) - (n + Len(e)) = Len(w) - n
  BY <1>1, <1>2
<1>4. /\ \A i \in 1..Len(w) : i > Len(w) - n => w[i] = <<x, i - (Len(w) - n)>>
      /\ \A i \in 1..Len(w) : i <= Len(w) - n => w[i][1] # x
      /\ \A i \in 1..Len(e) : e[i] = <<x, n + i>>
  BY DEF LastOwn, Replies
<1>5. ASSUME NEW i \in 1..Len(w \o e), i > Len(w) - n
      PROVE  (w \o e)[i] = <<x, i - (Len(w) - n)>>
  <2>1. CASE i <= Len(w)
    BY <1>1, <1>2, <1>4, <1>5, <2>1
  <2>2. CASE i > Len(w)
    <3>1. /\ i - Len(w) \in 1..Len(e) /\ i \in 1..(Len(w) + Len(e))
          /\ n + (i - Len(w)) = i - (Len(w) - n)
      BY <1>1, <1>2, <2>2
    <3>2. (w \o e)[i] = e[i - Len(w)]
      BY <1>2, <2>2, <3>1
    <3> QED
      BY <1>4, <3>1, <3>2
  <2> QED
    BY <1>1, <2>1, <2>2
<1>6. ASSUME NEW i \in 1..Len(w \o e), i <= Len(w) - n
      PROVE  (w \o e)[i][1] # x
  <2>1. i \in 1..Len(w)
    BY <1>1, <1>2, <1>6
  <2> QED
    BY <1>2, <1>4, <1>6, <2>1
<1>7. n + Len(e) \in Nat /\ n + Len(e) <= Len(w \o e)
  BY <1>1, <1>2
<1> QED
  BY <1>2, <1>3, <1>5, <1>6, <1>7 DEF LastOwn

\* What the properties say of it.
LEMMA OwnSeen ==
    /\ \A n : LastOwn(wire_, n, nCall) => X!SentLast(n)
    /\ \A s : \A n \in Nat : Replies(s, nCall, 0) /\ Len(s) = n => s = X!Own(n)
PROOF
<1>1. ASSUME NEW n, LastOwn(wire_, n, nCall)
      PROVE  X!SentLast(n)
  <2>1. /\ n \in Nat /\ n <= Len(wire_) /\ Len(wire_) \in Nat
        /\ \A i \in 1..Len(wire_) : i > Len(wire_) - n => wire_[i] = <<nCall, i - (Len(wire_) - n)>>
        /\ \A i \in 1..Len(wire_) : i <= Len(wire_) - n => wire_[i][1] # nCall
    BY <1>1 DEF LastOwn
  <2>2. ASSUME NEW i \in 1..Len(wire_)
        PROVE  LET rest == Len(wire_) - n
               IN  IF i > rest THEN wire_[i] = <<nCall, i - rest>> ELSE wire_[i][1] # nCall
    <3>1. CASE i > Len(wire_) - n
      BY <2>1, <3>1
    <3>2. CASE ~(i > Len(wire_) - n)
      BY <2>1, <3>2
    <3> QED
      BY <3>1, <3>2
  <2> QED
    BY <2>1, <2>2 DEF X!SentLast
<1>2. ASSUME NEW s, NEW n \in Nat, Replies(s, nCall, 0), Len(s) = n
      PROVE  s = X!Own(n)
  <2>1. s \in Seq(Nat \X Nat) /\ DOMAIN s = 1..n /\ \A i \in 1..n : s[i] = <<nCall, 0 + i>>
    BY <1>2 DEF Replies
  <2>2. \A i \in 1..n : s[i] = <<nCall, i>>
    BY <2>1
  <2> QED
    BY <2>1, <2>2 DEF X!Own
<1> QED
  BY <1>1, <1>2

-----------------------------------------------------------------------------
(* Entries: the e-th of a transfer holds the bytes after the first 3 * (e - 1). *)

Reached(n, e) == X!Least(3 * e, n)

LEMMA EntryCounts ==
    ASSUME NEW n \in Nat
    PROVE  /\ X!Entries(n) \in Nat /\ Reached(n, X!Entries(n)) = n
           /\ \A e \in Nat : e < X!Entries(n) =>
                /\ 3 * e < n /\ Reached(n, e) = 3 * e /\ X!Count(n - 3 * e) \in 1..3
                /\ Reached(n, e + 1) = 3 * e + X!Count(n - 3 * e)
           /\ \A e \in Nat : Reached(n, e) \in Nat /\ Reached(n, e) <= n
           /\ \A e \in Nat : e <= X!Entries(n) /\ Reached(n, e) = n => e = X!Entries(n)
           /\ Reached(n, 0) = 0
PROOF
<1>1. X!Entries(n) \in Nat /\ n <= 3 * X!Entries(n) /\ 3 * X!Entries(n) <= n + 2
  BY DEF X!Entries
<1>2. \A e \in Nat : e < X!Entries(n) => 3 * e < n
  BY <1>1
<1> QED
  BY <1>1, <1>2 DEF Reached, X!Least, X!Count

LEMMA EntryStep ==
    ASSUME NEW n \in Nat, NEW e \in Nat, e < X!Entries(n)
    PROVE  /\ 3 * e < n /\ Reached(n, e) = 3 * e /\ X!Count(n - 3 * e) \in 1..3
           /\ Reached(n, e + 1) = 3 * e + X!Count(n - 3 * e)
BY EntryCounts

\* Entries a + 1 to b, in order.
IsEntry(s, e, x, n) == Replies(s, x, 3 * e) /\ Len(s) = X!Count(n - 3 * e)
Stretch(s, a, b, x, n) ==
  /\ s \in Seq(Seq(Bytes2)) /\ Len(s) = b - a
  /\ \A j \in 1..Len(s) : IsEntry(s[j], a + (j - 1), x, n)

LEMMA StretchAppend ==
    ASSUME NEW x, NEW n, NEW s, NEW a \in Nat, NEW b \in Nat, a <= b, Stretch(s, a, b, x, n), NEW e, IsEntry(e, b, x, n)
    PROVE  Stretch(Append(s, e), a, b + 1, x, n)
PROOF
<1>1. s \in Seq(Seq(Bytes2)) /\ e \in Seq(Bytes2) /\ Len(s) = b - a /\ Len(s) \in Nat
  BY DEF Stretch, IsEntry, Replies, Bytes2
<1>2. /\ Append(s, e) \in Seq(Seq(Bytes2)) /\ Len(Append(s, e)) = Len(s) + 1
      /\ \A i \in 1..Len(s) : Append(s, e)[i] = s[i]
      /\ Append(s, e)[Len(s) + 1] = e
  BY <1>1, Appended
<1>3. ASSUME NEW j \in 1..Len(Append(s, e))
      PROVE  IsEntry(Append(s, e)[j], a + (j - 1), x, n)
  <2>1. CASE j <= Len(s)
    <3>1. j \in 1..Len(s)
      BY <1>1, <1>2, <2>1
    <3> QED
      BY <1>2, <3>1 DEF Stretch
  <2>2. CASE j = Len(s) + 1
    <3>1. a + (j - 1) = b
      BY <1>1, <2>2
    <3> QED
      BY <1>2, <2>2, <3>1
  <2> QED
    BY <1>1, <1>2, <2>1, <2>2
<1>4. Len(Append(s, e)) = (b + 1) - a
  BY <1>1, <1>2
<1> QED
  BY <1>2, <1>3, <1>4 DEF Stretch

LEMMA StretchTail ==
    ASSUME NEW x, NEW n, NEW s, NEW a \in Nat, NEW b \in Nat, Stretch(s, a, b, x, n), s # <<>>
    PROVE  /\ Stretch(Tail(s), a + 1, b, x, n) /\ IsEntry(Head(s), a, x, n) /\ a < b
PROOF
<1>1. s \in Seq(Seq(Bytes2)) /\ Len(s) = b - a /\ Len(s) \in Nat /\ Len(s) > 0
  BY DEF Stretch
<1>2. /\ Tail(s) \in Seq(Seq(Bytes2)) /\ Len(Tail(s)) = Len(s) - 1 /\ Head(s) = s[1]
      /\ \A i \in 1..(Len(s) - 1) : Tail(s)[i] = s[i + 1]
  BY <1>1
<1>3. \A j \in 1..Len(s) : IsEntry(s[j], a + (j - 1), x, n)
  BY DEF Stretch
<1>4. ASSUME NEW j \in 1..Len(Tail(s))
      PROVE  IsEntry(Tail(s)[j], (a + 1) + (j - 1), x, n)
  <2>1. j \in 1..(Len(s) - 1) /\ j + 1 \in 1..Len(s) /\ (a + 1) + (j - 1) = a + ((j + 1) - 1)
    BY <1>1, <1>2
  <2> QED
    BY <1>2, <1>3, <2>1
<1>5. IsEntry(Head(s), a, x, n)
  <2>1. 1 \in 1..Len(s) /\ a + (1 - 1) = a
    BY <1>1
  <2> QED
    BY <1>2, <1>3, <2>1
<1>6. Len(Tail(s)) = b - (a + 1) /\ a < b
  BY <1>1, <1>2
<1> QED
  BY <1>2, <1>4, <1>5, <1>6 DEF Stretch

LEMMA StretchEmpty ==
    ASSUME NEW x, NEW n, NEW a \in Nat
    PROVE  Stretch(<<>>, a, a, x, n)
PROOF
<1>1. <<>> \in Seq(Seq(Bytes2)) /\ Len(<<>>) = 0 /\ a - a = 0
  BY EmptySeq
<1> QED
  BY <1>1 DEF Stretch

LEMMA StretchLength ==
    ASSUME NEW x, NEW n, NEW s, NEW a \in Nat, NEW b \in Nat, Stretch(s, a, b, x, n)
    PROVE  Len(s) = b - a /\ (s = <<>> <=> a = b)
PROOF
<1>1. s \in Seq(Seq(Bytes2)) /\ Len(s) = b - a
  BY DEF Stretch
<1>2. s = <<>> <=> Len(s) = 0
  BY <1>1
<1>3. a = b <=> b - a = 0
  OBVIOUS
<1> QED
  BY <1>1, <1>2, <1>3

-----------------------------------------------------------------------------
(* The invariant of the auxiliary SPI *)

Written == call.len - tx_len
Foreign(q, x) == \A j \in 1..Len(q) : Below(q[j], x)
AuxTyped ==
  /\ nCall \in Nat /\ IsOp(call)
  /\ call.name # "none" => tx_len \in Nat /\ tx_len <= call.len
  /\ call.name = "aux_write" => tx_len = 2
  /\ hold \in Seq(Seq(Bytes2)) /\ Foreign(hold, nCall + 1)

\* A write that waits: before its first entry there may be entries of earlier calls in
\* the FIFO; from then on the last entry, if any, is the one that it waits for.
Foremost == Written = 0 /\ Foreign(hold, nCall) /\ LastOwn(wire_, 0, nCall)
Over == hold = <<>> /\ LastOwn(wire_, Written, nCall)
Pending(before) ==
  /\ hold # <<>> /\ LastOwn(wire_, before, nCall)
  /\ Replies(hold[Len(hold)], nCall, before) /\ Written = before + Len(hold[Len(hold)])
  /\ \A j \in 1..(Len(hold) - 1) : Below(hold[j], nCall)
  /\ before = 0 \/ Len(hold) = 1
WritenbFlow ==
  \/ call.stage = "tx" /\ (Foremost \/ Over)
  \/ call.stage = "wait" /\ (Over \/ \E before \in Nat : Pending(before))

\* A transfer: the entries up to R have been read, those up to W are on the wire, and
\* those up to N have been written.
Flow(R, W, N) ==
  /\ R <= W /\ W <= N /\ N <= X!Entries(call.len)
  /\ Stretch(hold, W, N, nCall, call.len) /\ Stretch(recv, R, W, nCall, call.len)
  /\ Replies(wire_, nCall, 0) /\ Len(wire_) = Reached(call.len, W)
  /\ Replies(rbuf, nCall, 0) /\ Len(rbuf) = Reached(call.len, R)
  /\ Written = Reached(call.len, N) /\ rx_len = call.len - Reached(call.len, R)
  /\ call.stage \in {"tx", "rx", "idle"} /\ (call.stage # "tx" => N = X!Entries(call.len))
TransferFlow == \E R, W, N \in Nat : Flow(R, W, N)

Fits == call.name = "aux_transfernb" /\ X!Entries(call.len) <= AUX_FIFO /\ ~stale
XInv ==
  /\ AuxTyped
  /\ call.name = "aux_writenb" => WritenbFlow
  /\ Fits => TransferFlow

\* The bytes of a new entry.
EntryOf(x, from, n) == [k \in 1..n |-> <<x, from + k>>]

LEMMA NewEntry ==
    ASSUME NEW x \in Nat, NEW from \in Nat, NEW n \in Nat
    PROVE  LET e == EntryOf(x, from, n)
           IN  Replies(e, x, from) /\ Len(e) = n /\ Below(e, x + 1) /\ e \in Seq(Bytes2)
PROOF
<1> DEFINE e == EntryOf(x, from, n)
<1>1. e \in Seq(Bytes2) /\ Len(e) = n /\ \A k \in 1..n : e[k] = <<x, from + k>>
  BY DEF Bytes2, EntryOf
<1> HIDE DEF e
<1>2. \A k \in 1..n : e[k][1] < x + 1
  BY <1>1
<1> QED
  BY <1>1, <1>2 DEF Replies, Below, Bytes2, e

LEMMA ForeignAppend ==
    ASSUME NEW q \in Seq(Seq(Bytes2)), NEW x, Foreign(q, x), NEW e \in Seq(Bytes2), Below(e, x)
    PROVE  Append(q, e) \in Seq(Seq(Bytes2)) /\ Foreign(Append(q, e), x)
PROOF
<1>1. /\ Append(q, e) \in Seq(Seq(Bytes2)) /\ Len(Append(q, e)) = Len(q) + 1 /\ Len(q) \in Nat
      /\ \A i \in 1..Len(q) : Append(q, e)[i] = q[i]
      /\ Append(q, e)[Len(q) + 1] = e
  BY Appended
<1>2. ASSUME NEW j \in 1..Len(Append(q, e))
      PROVE  Below(Append(q, e)[j], x)
  <2>1. CASE j \in 1..Len(q)
    BY <1>1, <2>1 DEF Foreign
  <2>2. CASE j = Len(q) + 1
    BY <1>1, <2>2
  <2> QED
    BY <1>1, <2>1, <2>2
<1> QED
  BY <1>1, <1>2 DEF Foreign

LEMMA ForeignTail ==
    ASSUME NEW q \in Seq(Seq(Bytes2)), NEW x, Foreign(q, x), q # <<>>
    PROVE  /\ Tail(q) \in Seq(Seq(Bytes2)) /\ Foreign(Tail(q), x) /\ Below(Head(q), x)
           /\ Head(q) = q[1] /\ Len(Tail(q)) = Len(q) - 1 /\ Len(q) \in Nat /\ Len(q) > 0
           /\ \A i \in 1..(Len(q) - 1) : Tail(q)[i] = q[i + 1]
PROOF
<1>1. /\ Tail(q) \in Seq(Seq(Bytes2)) /\ Len(Tail(q)) = Len(q) - 1 /\ Head(q) = q[1]
      /\ Len(q) \in Nat /\ Len(q) > 0
      /\ \A i \in 1..(Len(q) - 1) : Tail(q)[i] = q[i + 1]
  OBVIOUS
<1>2. ASSUME NEW j \in 1..Len(Tail(q))
      PROVE  Below(Tail(q)[j], x)
  <2>1. j \in 1..(Len(q) - 1) /\ j + 1 \in 1..Len(q)
    BY <1>1
  <2> QED
    BY <1>1, <2>1 DEF Foreign
<1>3. Below(Head(q), x)
  <2>1. 1 \in 1..Len(q)
    BY <1>1
  <2> QED
    BY <1>1, <2>1 DEF Foreign
<1> QED
  BY <1>1, <1>2, <1>3 DEF Foreign

\* Every byte of an earlier call is below the next one.
LEMMA ForeignLater ==
    ASSUME NEW q \in Seq(Seq(Bytes2)), NEW x \in Nat, Foreign(q, x)
    PROVE  Foreign(q, x + 1)
PROOF
<1>1. ASSUME NEW j \in 1..Len(q), NEW k \in 1..Len(q[j])
      PROVE  q[j][k][1] < x + 1
  <2>1. q[j] \in Seq(Bytes2) /\ q[j][k][1] < x
    BY DEF Foreign, Below
  <2>2. q[j][k] \in Nat \X Nat
    BY <2>1 DEF Bytes2
  <2> QED
    BY <2>1, <2>2
<1>2. \A j \in 1..Len(q) : q[j] \in Seq(Bytes2)
  OBVIOUS
<1> QED
  BY <1>1, <1>2 DEF Foreign, Below

-----------------------------------------------------------------------------
(* The steps of the auxiliary SPI *)

LEMMA EntryWritten ==
    ASSUME AuxTyped, call.name # "none", NEW n \in Nat, n <= tx_len, X!WriteEntry(n)
    PROVE  /\ Written \in Nat /\ Written + tx_len = call.len
           /\ tx_len' = tx_len - n /\ tx_len' \in Nat /\ tx_len' <= call.len
           /\ hold' \in Seq(Seq(Bytes2)) /\ Foreign(hold', nCall + 1)
           /\ \E e \in Seq(Bytes2) : /\ hold' = Append(hold, e)
                                     /\ Replies(e, nCall, Written) /\ Len(e) = n
PROOF
<1> DEFINE e == [k \in 1..n |-> <<nCall, call.len - tx_len + k>>]
<1>1. hold' = Append(hold, e) /\ tx_len' = tx_len - n
  BY DEF X!WriteEntry
<1>2. /\ nCall \in Nat /\ call.len \in Nat /\ tx_len \in Nat /\ tx_len <= call.len
      /\ hold \in Seq(Seq(Bytes2)) /\ Foreign(hold, nCall + 1)
  BY DEF AuxTyped, IsOp
<1>3. Written \in Nat /\ Written + tx_len = call.len
  BY <1>2 DEF Written
<1>4. tx_len' \in Nat /\ tx_len' <= call.len
  BY <1>1, <1>2
<1>5. e = EntryOf(nCall, Written, n)
  BY DEF Written, EntryOf
<1> HIDE DEF e
<1>6. Replies(e, nCall, Written) /\ Len(e) = n /\ Below(e, nCall + 1) /\ e \in Seq(Bytes2)
  BY <1>2, <1>3, <1>5, NewEntry
<1>7. Append(hold, e) \in Seq(Seq(Bytes2)) /\ Foreign(Append(hold, e), nCall + 1)
  BY <1>2, <1>6, ForeignAppend
<1> QED
  BY <1>1, <1>3, <1>4, <1>6, <1>7

\* The controller exchanges an entry.
LEMMA ExchangeFacts ==
    ASSUME AuxTyped, X!Exchange
    PROVE  /\ AuxTyped' /\ hold # <<>> /\ hold' = Tail(hold) /\ wire_' = wire_ \o Head(hold)
           /\ UNCHANGED <<call, nCall, tx_len, rx_len, rbuf, stale>>
           /\ Head(hold) = hold[1] /\ Len(hold') = Len(hold) - 1 /\ Len(hold) \in Nat
           /\ Len(hold) > 0
           /\ \A i \in 1..(Len(hold) - 1) : hold'[i] = hold[i + 1]
PROOF
<1>1. /\ hold # <<>> /\ hold' = Tail(hold) /\ wire_' = wire_ \o Head(hold)
      /\ UNCHANGED <<call, nCall, tx_len, rx_len, rbuf, stale>>
  BY DEF X!Exchange, X!BUSY
<1>2. hold \in Seq(Seq(Bytes2)) /\ Foreign(hold, nCall + 1)
  BY DEF AuxTyped
<1>3. /\ Tail(hold) \in Seq(Seq(Bytes2)) /\ Foreign(Tail(hold), nCall + 1)
      /\ Head(hold) = hold[1] /\ Len(Tail(hold)) = Len(hold) - 1 /\ Len(hold) \in Nat
      /\ Len(hold) > 0
      /\ \A i \in 1..(Len(hold) - 1) : Tail(hold)[i] = hold[i + 1]
  BY <1>1, <1>2, ForeignTail
<1>4. AuxTyped'
  BY <1>1, <1>3 DEF AuxTyped
<1> QED
  BY <1>1, <1>3, <1>4

LEMMA ExchangeWritenb ==
    ASSUME AuxTyped, WritenbFlow, X!Exchange
    PROVE  WritenbFlow'
PROOF
<1>1. /\ hold # <<>> /\ hold' = Tail(hold) /\ wire_' = wire_ \o Head(hold)
      /\ UNCHANGED <<call, nCall, tx_len>>
      /\ Head(hold) = hold[1] /\ Len(hold') = Len(hold) - 1 /\ Len(hold) \in Nat /\ Len(hold) > 0
      /\ \A i \in 1..(Len(hold) - 1) : hold'[i] = hold[i + 1]
  BY ExchangeFacts
<1>2. hold \in Seq(Seq(Bytes2)) /\ nCall \in Nat /\ Written' = Written
  BY <1>1 DEF AuxTyped, Written
<1>3. CASE call.stage = "tx" /\ Foremost
  <2>1. Foreign(hold, nCall) /\ LastOwn(wire_, 0, nCall) /\ Written = 0
    BY <1>3 DEF Foremost
  <2>2. Foreign(Tail(hold), nCall) /\ Below(Head(hold), nCall)
    BY <1>1, <1>2, <2>1, ForeignTail
  <2>3. LastOwn(wire_ \o Head(hold), 0, nCall)
    BY <1>2, <2>1, <2>2, ForeignJoined
  <2>4. Foremost'
    BY <1>1, <1>2, <2>1, <2>2, <2>3 DEF Foremost
  <2> QED
    BY <1>1, <1>3, <2>4 DEF WritenbFlow
<1>4. CASE call.stage = "wait" /\ \E before \in Nat : Pending(before)
  <2>1. PICK before \in Nat : Pending(before)
    BY <1>4
  <2>2. /\ LastOwn(wire_, before, nCall) /\ Replies(hold[Len(hold)], nCall, before)
        /\ Written = before + Len(hold[Len(hold)])
        /\ before = 0 \/ Len(hold) = 1
        /\ \A j \in 1..(Len(hold) - 1) : Below(hold[j], nCall)
    BY <2>1 DEF Pending
  <2>3. CASE Len(hold) = 1
    <3>0. hold[Len(hold)] = Head(hold)
      BY <1>1, <2>3
    <3>1. Replies(Head(hold), nCall, before) /\ Written = before + Len(Head(hold))
      BY <2>2, <3>0
    <3>2. LastOwn(wire_', Written, nCall)
      BY <1>1, <1>2, <2>2, <3>1, OwnJoined
    <3>3. hold' = <<>>
      BY <1>1, <1>2, <2>3
    <3>4. Over'
      BY <1>1, <1>2, <3>2, <3>3 DEF Over
    <3> QED
      BY <1>1, <1>4, <3>4 DEF WritenbFlow
  <2>4. CASE Len(hold) # 1
    <3>1. before = 0 /\ 1 \in 1..(Len(hold) - 1)
      BY <1>1, <2>2, <2>4
    <3>2. Below(Head(hold), nCall)
      BY <1>1, <2>2, <3>1
    <3>3. LastOwn(wire_', 0, nCall)
      BY <1>1, <1>2, <2>2, <3>1, <3>2, ForeignJoined
    <3>4. Len(hold') > 0 /\ Len(hold') \in 1..(Len(hold) - 1) /\ Len(hold') + 1 = Len(hold)
      BY <1>1, <2>4
    <3>5. hold'[Len(hold')] = hold[Len(hold)] /\ hold' # <<>>
      <4> DEFINE i == Len(hold')
      <4>1. i \in 1..(Len(hold) - 1) /\ i + 1 = Len(hold)
        BY <3>4
      <4> HIDE DEF i
      <4>2. hold'[i] = hold[i + 1]
        BY <1>1, <4>1
      <4> QED
        BY <3>4, <4>1, <4>2 DEF i
    <3>6. ASSUME NEW j \in 1..(Len(hold') - 1)
          PROVE  Below(hold'[j], nCall)
      <4>1. j \in 1..(Len(hold) - 1) /\ j + 1 \in 1..(Len(hold) - 1)
        BY <1>1
      <4> QED
        BY <1>1, <2>2, <4>1
    <3>7. Pending(before)'
      BY <1>1, <1>2, <2>2, <3>1, <3>3, <3>5, <3>6 DEF Pending
    <3> QED
      BY <1>1, <1>4, <3>7 DEF WritenbFlow
  <2> QED
    BY <2>3, <2>4
<1>5. ~Over
  BY <1>1 DEF Over
<1> QED
  BY <1>3, <1>4, <1>5 DEF WritenbFlow

LEMMA ExchangeTransfer ==
    ASSUME AuxTyped, TransferFlow, X!Entries(call.len) <= AUX_FIFO, X!Exchange
    PROVE  TransferFlow'
PROOF
<1>1. /\ hold # <<>> /\ hold' = Tail(hold) /\ wire_' = wire_ \o Head(hold)
      /\ UNCHANGED <<call, nCall, tx_len, rx_len, rbuf>>
  BY ExchangeFacts
<1>2. nCall \in Nat /\ Written' = Written /\ call.len \in Nat /\ AUX_FIFO \in Nat
  BY <1>1, TransfersConstants DEF AuxTyped, IsOp, Written
<1>3. PICK R, W, N \in Nat : Flow(R, W, N)
  BY DEF TransferFlow
<1> DEFINE n == call.len
<1>4. /\ R <= W /\ W <= N /\ N <= X!Entries(n) /\ X!Entries(n) \in Nat
      /\ Stretch(hold, W, N, nCall, n) /\ Stretch(recv, R, W, nCall, n)
      /\ Replies(wire_, nCall, 0) /\ Len(wire_) = Reached(n, W)
  BY <1>2, <1>3, EntryCounts DEF Flow
<1>5. Stretch(hold', W + 1, N, nCall, n) /\ IsEntry(Head(hold), W, nCall, n) /\ W < N
  BY <1>1, <1>4, StretchTail
<1>6. Len(recv) = W - R /\ W - R < AUX_FIFO
  <2>1. Len(recv) = W - R
    BY <1>4, StretchLength
  <2>2. X!Entries(n) <= AUX_FIFO
    OBVIOUS
  <2> HIDE DEF n
  <2> QED
    BY <1>2, <1>4, <1>5, <2>1, <2>2
<1>7. recv' = Append(recv, Head(hold))
  BY <1>2, <1>4, <1>6 DEF X!Exchange
<1>8. Stretch(recv', R, W + 1, nCall, n)
  BY <1>4, <1>5, <1>7, StretchAppend
<1>9. Reached(n, W) = 3 * W /\ Reached(n, W + 1) = 3 * W + X!Count(n - 3 * W)
  BY <1>2, <1>4, <1>5, EntryStep
<1>10. Replies(wire_', nCall, 0) /\ Len(wire_') = Reached(n, W + 1)
  <2>1. Replies(Head(hold), nCall, 0 + Len(wire_)) /\ Len(Head(hold)) = X!Count(n - 3 * W)
    BY <1>4, <1>5, <1>9 DEF IsEntry
  <2>2. Replies(wire_ \o Head(hold), nCall, 0)
        /\ Len(wire_ \o Head(hold)) = Len(wire_) + Len(Head(hold))
    BY <1>2, <1>4, <2>1, RepliesJoined
  <2> QED
    BY <1>1, <1>4, <1>9, <2>1, <2>2
<1>11. Flow(R, W + 1, N)'
  BY <1>1, <1>2, <1>3, <1>4, <1>5, <1>8, <1>10 DEF Flow
<1> QED
  BY <1>11 DEF TransferFlow

XDone == XInv' /\ X!AuxTransferStep

\* An idle call says nothing of what is under way.
LEMMA IdleTyped ==
    /\ IsOp(X!NoCall) /\ X!NoCall.name = "none"
    /\ X!Idle => call.name = "none"
BY DEF IsOp, X!NoCall, X!Idle

LEMMA ReturnKeeps ==
    ASSUME X!Return, nCall \in Nat, nCall' = nCall, hold' \in Seq(Seq(Bytes2)),
           Foreign(hold', nCall + 1)
    PROVE  XInv'
PROOF
<1>1. IsOp(call') /\ call'.name = "none"
  BY IdleTyped DEF X!Return
<1>2. AuxTyped'
  BY <1>1 DEF AuxTyped
<1> QED
  BY <1>1, <1>2 DEF XInv, Fits

LEMMA NextKeeps ==
    ASSUME IsOp(call), NEW stage, X!Next_(stage)
    PROVE  /\ IsOp(call') /\ call'.name = call.name /\ call'.len = call.len /\ call'.stage = stage
           /\ call.name # "none" => X!AuxTransferStep
PROOF
<1>1. IsOp(call') /\ call'.name = call.name /\ call'.len = call.len /\ call'.stage = stage
  BY DEF IsOp, X!Next_
<1>2. call.name # "none" => X!AuxTransferStep
  BY <1>1, IdleTyped DEF X!AuxTransferStep
<1> QED
  BY <1>1, <1>2

LEMMA AuxBegins ==
    ASSUME XInv, NEW name \in {"aux_write", "aux_writenb", "aux_transfernb"}, NEW n \in Nat,
           name = "aux_write" => n = 2, X!Begin(name, n)
    PROVE  XDone
PROOF
<1>1. /\ X!Idle /\ nCall' = nCall + 1 /\ tx_len' = n /\ rx_len' = n /\ wire_' = <<>> /\ rbuf' = <<>>
      /\ call' = [name |-> name, len |-> n, stage |-> "tx"]
      /\ stale' = (recv # <<>> \/ X!BUSY) /\ UNCHANGED <<hold, recv>>
  BY DEF X!Begin
<1>2. /\ nCall \in Nat /\ hold \in Seq(Seq(Bytes2)) /\ Foreign(hold, nCall + 1)
  BY DEF XInv, AuxTyped
<1>3. IsOp(call') /\ call'.name = name /\ call'.len = n /\ call'.stage = "tx"
  BY <1>1 DEF IsOp
<1>4. Foreign(hold', nCall') /\ Foreign(hold', nCall' + 1) /\ nCall' \in Nat
  BY <1>1, <1>2, ForeignLater
<1>5. AuxTyped'
  BY <1>1, <1>2, <1>3, <1>4 DEF AuxTyped
<1>6. Written' = 0
  BY <1>1, <1>3 DEF Written
<1>7. ASSUME name = "aux_writenb"
      PROVE  WritenbFlow'
  <2>1. LastOwn(wire_', 0, nCall')
    BY <1>1, EmptySeq DEF LastOwn
  <2>2. Foremost'
    BY <1>4, <1>6, <2>1 DEF Foremost
  <2> QED
    BY <1>3, <2>2 DEF WritenbFlow
<1>8. ASSUME ~stale'
      PROVE  TransferFlow'
  <2>1. recv' = <<>> /\ hold' = <<>>
    BY <1>1, <1>8 DEF X!BUSY
  <2>2. Stretch(recv', 0, 0, nCall', n) /\ Stretch(hold', 0, 0, nCall', n)
    BY <2>1, StretchEmpty
  <2>3. Reached(n, 0) = 0 /\ X!Entries(n) \in Nat
    BY EntryCounts
  <2>4. /\ Replies(wire_', nCall', 0) /\ Len(wire_') = 0
        /\ Replies(rbuf', nCall', 0) /\ Len(rbuf') = 0
    BY <1>1, RepliesEmpty
  <2>5. Flow(0, 0, 0)'
    BY <1>1, <1>3, <1>6, <2>2, <2>3, <2>4 DEF Flow
  <2> QED
    BY <2>5 DEF TransferFlow
<1>9. X!AuxTransferStep
  BY <1>1 DEF X!AuxTransferStep
<1> QED
  BY <1>3, <1>5, <1>7, <1>8, <1>9 DEF XDone, XInv, Fits

LEMMA AuxWriteStep ==
    ASSUME XInv, X!bcm2835_aux_spi_write
    PROVE  XDone
PROOF
<1>1. call.name = "aux_write" /\ X!WriteEntry(2) /\ X!Return /\ nCall' = nCall
  BY DEF X!bcm2835_aux_spi_write, X!In, X!Quiet
<1>2. AuxTyped /\ tx_len = 2 /\ nCall \in Nat
  BY <1>1 DEF XInv, AuxTyped
<1>3. hold' \in Seq(Seq(Bytes2)) /\ Foreign(hold', nCall + 1)
  BY <1>1, <1>2, EntryWritten
<1>4. XInv'
  BY <1>1, <1>2, <1>3, ReturnKeeps
<1> QED
  BY <1>1, <1>4 DEF XDone, X!AuxTransferStep

LEMMA AuxWritenbStep ==
    ASSUME XInv, X!bcm2835_aux_spi_writenb
    PROVE  XDone
PROOF
<1>1. /\ call.name = "aux_writenb" /\ AuxTyped /\ WritenbFlow /\ IsOp(call) /\ nCall \in Nat
      /\ nCall' = nCall /\ wire_' = wire_ /\ tx_len \in Nat /\ tx_len <= call.len
      /\ call.len \in Nat /\ hold \in Seq(Seq(Bytes2)) /\ Foreign(hold, nCall + 1)
  BY DEF X!bcm2835_aux_spi_writenb, X!In, X!Quiet, XInv, AuxTyped, IsOp
<1>2. CASE call.stage = "tx" /\ tx_len = 0 /\ X!Return /\ UNCHANGED hold
  <2>1. XInv'
    BY <1>1, <1>2, ReturnKeeps
  <2>2. LastOwn(wire_, call.len, nCall)
    <3>1. Written = call.len
      BY <1>1, <1>2 DEF Written
    <3> QED
      BY <1>1, <1>2, <3>1 DEF WritenbFlow, Foremost, Over
  <2>3. X!SentLast(call.len)
    BY <2>2, OwnSeen
  <2> QED
    BY <1>1, <2>1, <2>3 DEF XDone, X!AuxTransferStep
<1>3. CASE call.stage = "tx" /\ tx_len # 0 /\ X!WriteEntry(X!Count(tx_len)) /\ X!Next_("wait")
  <2> DEFINE n == X!Count(tx_len)
  <2>1. n \in Nat /\ n <= tx_len
    BY <1>1 DEF X!Count, X!Least
  <2>2. /\ IsOp(call') /\ call'.name = call.name /\ call'.len = call.len /\ call'.stage = "wait"
        /\ X!AuxTransferStep
    BY <1>1, <1>3, NextKeeps
  <2> HIDE DEF n
  <2>3. X!WriteEntry(n)
    BY <1>3 DEF n
  <2>4. /\ Written \in Nat /\ Written + tx_len = call.len
        /\ tx_len' = tx_len - n /\ tx_len' \in Nat /\ tx_len' <= call.len
        /\ hold' \in Seq(Seq(Bytes2)) /\ Foreign(hold', nCall + 1)
        /\ \E e \in Seq(Bytes2) : /\ hold' = Append(hold, e)
                                  /\ Replies(e, nCall, Written) /\ Len(e) = n
    BY <1>1, <2>1, <2>3, EntryWritten
  <2>5. PICK e \in Seq(Bytes2) :
               hold' = Append(hold, e) /\ Replies(e, nCall, Written) /\ Len(e) = n
    BY <2>4
  <2>6. AuxTyped'
    BY <1>1, <2>2, <2>4 DEF AuxTyped
  <2>7. Written' = Written + n
    BY <1>1, <2>1, <2>2, <2>4 DEF Written
  <2>8. /\ Len(hold') = Len(hold) + 1 /\ Len(hold) \in Nat /\ hold'[Len(hold) + 1] = e
        /\ \A i \in 1..Len(hold) : hold'[i] = hold[i]
    BY <1>1, <2>5, Appended
  <2>9. hold'[Len(hold')] = e /\ hold' # <<>> /\ Len(hold') - 1 = Len(hold)
    BY <2>4, <2>8
  <2>10. /\ LastOwn(wire_, Written, nCall) /\ Foreign(hold, nCall)
         /\ Written = 0 \/ Len(hold') = 1
    <3>1. CASE Foremost
      BY <3>1 DEF Foremost
    <3>2. CASE Over
      <4>1. Len(hold) = 0
        BY <3>2 DEF Over
      <4> QED
        BY <2>8, <3>2, <4>1 DEF Over, Foreign
    <3> QED
      BY <1>1, <1>3, <3>1, <3>2 DEF WritenbFlow
  <2>11. \A j \in 1..(Len(hold') - 1) : Below(hold'[j], nCall)
    BY <2>8, <2>9, <2>10 DEF Foreign
  <2>12. PICK before \in Nat : before = Written
    BY <2>4
  <2>13. Pending(before)'
    BY <1>1, <2>5, <2>7, <2>9, <2>10, <2>11, <2>12 DEF Pending
  <2> QED
    BY <1>1, <2>2, <2>4, <2>6, <2>13 DEF XDone, XInv, WritenbFlow, Fits
<1>4. CASE call.stage = "wait" /\ ~X!BUSY /\ X!Next_("tx") /\ UNCHANGED <<hold, tx_len>>
  <2>1. /\ IsOp(call') /\ call'.name = call.name /\ call'.len = call.len /\ call'.stage = "tx"
        /\ X!AuxTransferStep
    BY <1>1, <1>4, NextKeeps
  <2>2. AuxTyped' /\ Written' = Written
    BY <1>1, <1>4, <2>1 DEF AuxTyped, Written
  <2>3. Over
    BY <1>1, <1>4 DEF WritenbFlow, Pending, X!BUSY
  <2>4. Over'
    BY <1>1, <1>4, <2>2, <2>3 DEF Over
  <2> QED
    BY <1>1, <2>1, <2>2, <2>4 DEF XDone, XInv, WritenbFlow, Fits
<1> QED
  BY <1>2, <1>3, <1>4 DEF X!bcm2835_aux_spi_writenb, X!In

\* A transfer fills the FIFO: the entry that it writes is the next one.
LEMMA FlowWrites ==
    ASSUME AuxTyped, call.name = "aux_transfernb", NEW R \in Nat, NEW W \in Nat, NEW N \in Nat,
           Flow(R, W, N), tx_len > 0, X!WriteEntry(X!Count(tx_len)), call.stage = "tx",
           UNCHANGED <<call, nCall, recv, wire_, rbuf, rx_len>>
    PROVE  AuxTyped' /\ Flow(R, W, N + 1)'
PROOF
<1> DEFINE c == X!Count(tx_len)
           n == call.len
<1>1. /\ IsOp(call) /\ nCall \in Nat /\ tx_len \in Nat /\ tx_len <= n /\ n \in Nat
      /\ hold \in Seq(Seq(Bytes2))
  BY DEF AuxTyped, IsOp
<1>2. c \in Nat /\ c <= tx_len
  BY <1>1 DEF X!Count, X!Least
<1>3. /\ R <= W /\ W <= N /\ N <= X!Entries(n) /\ X!Entries(n) \in Nat
      /\ Stretch(hold, W, N, nCall, n)
      /\ Written = Reached(n, N)
  BY <1>1, EntryCounts DEF Flow
<1> HIDE DEF c, n
<1>4. X!WriteEntry(c)
  BY DEF c
<1>5. /\ Written \in Nat /\ Written + tx_len = n
      /\ tx_len' = tx_len - c /\ tx_len' \in Nat /\ tx_len' <= n
      /\ hold' \in Seq(Seq(Bytes2)) /\ Foreign(hold', nCall + 1)
      /\ \E e \in Seq(Bytes2) : /\ hold' = Append(hold, e)
                                /\ Replies(e, nCall, Written) /\ Len(e) = c
  BY <1>1, <1>2, <1>4, EntryWritten DEF n
<1>6. N < X!Entries(n)
  <2>1. Reached(n, X!Entries(n)) = n
    BY <1>1, EntryCounts
  <2>2. Written # n
    BY <1>1, <1>5
  <2>3. N # X!Entries(n)
    BY <1>3, <2>1, <2>2
  <2> QED
    BY <1>3, <2>3
<1>7. Reached(n, N) = 3 * N /\ Reached(n, N + 1) = 3 * N + X!Count(n - 3 * N)
  BY <1>1, <1>3, <1>6, EntryStep
<1>8. tx_len = n - 3 * N
  BY <1>1, <1>3, <1>5, <1>7
<1>9. c = X!Count(n - 3 * N)
  BY <1>8 DEF c
<1>10. PICK e \in Seq(Bytes2) : hold' = Append(hold, e) /\ Replies(e, nCall, Written) /\ Len(e) = c
  BY <1>5
<1>11. IsEntry(e, N, nCall, n)
  BY <1>3, <1>7, <1>9, <1>10 DEF IsEntry
<1>12. Stretch(hold', W, N + 1, nCall, n)
  BY <1>3, <1>10, <1>11, StretchAppend
<1>13. call'.len - tx_len' = Reached(n, N + 1)
  BY <1>1, <1>2, <1>3, <1>5, <1>7, <1>9 DEF n
<1>14. N + 1 \in Nat /\ W <= N + 1 /\ N + 1 <= X!Entries(n)
  BY <1>3, <1>6
<1>15. AuxTyped'
  BY <1>1, <1>5 DEF AuxTyped, n
<1> QED
  BY <1>3, <1>12, <1>13, <1>14, <1>15 DEF Flow, Written, n

\* What is read is the next answer.
LEMMA FlowReads ==
    ASSUME AuxTyped, NEW R \in Nat, NEW W \in Nat, NEW N \in Nat, Flow(R, W, N),
           rx_len > 0, recv # <<>>, X!ReadEntry,
           UNCHANGED <<call, nCall, hold, tx_len, wire_>>
    PROVE  AuxTyped' /\ Flow(R + 1, W, N)'
PROOF
<1> DEFINE n == call.len
           s == Head(recv)
<1>1. IsOp(call) /\ nCall \in Nat /\ n \in Nat
  BY DEF AuxTyped, IsOp
<1>2. /\ R <= W /\ W <= N /\ N <= X!Entries(n) /\ X!Entries(n) \in Nat
      /\ Stretch(recv, R, W, nCall, n)
      /\ Replies(rbuf, nCall, 0) /\ Len(rbuf) = Reached(n, R)
      /\ rx_len = n - Reached(n, R)
  BY <1>1, EntryCounts DEF Flow
<1>3. Stretch(Tail(recv), R + 1, W, nCall, n) /\ IsEntry(s, R, nCall, n) /\ R < W
  BY <1>2, StretchTail
<1>4. R < X!Entries(n)
  BY <1>2, <1>3
<1>5. /\ 3 * R < n /\ Reached(n, R) = 3 * R /\ X!Count(n - 3 * R) \in 1..3
      /\ Reached(n, R + 1) = 3 * R + X!Count(n - 3 * R)
  BY <1>1, <1>4, EntryStep
<1>6. X!Count(rx_len) = X!Count(n - 3 * R)
  BY <1>2, <1>5
<1>7. /\ s \in Seq(Bytes2) /\ Len(s) = X!Count(rx_len) /\ Replies(s, nCall, 3 * R)
      /\ Len(s) \in Nat
  BY <1>3, <1>6 DEF IsEntry, Replies, Bytes2
<1>8. X!Entry = s
  BY DEF X!Entry, X!RX_EMPTY
<1> HIDE DEF s
<1>9. X!Taken = s
  <2>1. X!Taken = [k \in 1..Len(s) |-> IF k <= Len(s) THEN s[k] ELSE Garbage]
    BY <1>7, <1>8, Zenon DEF X!Taken
  <2>2. X!Taken = [k \in 1..Len(s) |-> s[k]]
    BY <1>7, <2>1
  <2> QED
    BY <1>7, <2>2
<1>10. rbuf' = rbuf \o s /\ rx_len' = rx_len - Len(s) /\ recv' = Tail(recv)
  BY <1>9 DEF X!ReadEntry, X!RX_EMPTY
<1>11. Replies(rbuf', nCall, 0) /\ Len(rbuf') = Len(rbuf) + Len(s)
  <2>1. Replies(s, nCall, 0 + Len(rbuf))
    BY <1>2, <1>5, <1>7
  <2> QED
    BY <1>1, <1>2, <1>10, <2>1, RepliesJoined
<1> HIDE DEF n
<1>12. Len(rbuf') = Reached(n, R + 1) /\ rx_len' = n - Reached(n, R + 1)
  BY <1>1, <1>2, <1>5, <1>6, <1>7, <1>10, <1>11
<1>13. R + 1 \in Nat /\ R + 1 <= W
  BY <1>2, <1>3
<1>14. AuxTyped'
  BY DEF AuxTyped
<1> QED
  BY <1>1, <1>3, <1>10, <1>11, <1>12, <1>13, <1>14 DEF Flow, Written, n

\* What any step of a transfer keeps, whether it fits or not.
LEMMA TransfernbTyped ==
    ASSUME XInv, X!bcm2835_aux_spi_transfernb
    PROVE  /\ AuxTyped /\ AuxTyped' /\ call.name = "aux_transfernb" /\ UNCHANGED <<nCall, wire_, stale>>
           /\ call' = X!NoCall \/ (call'.name = call.name /\ call'.len = call.len)
PROOF
<1>1. /\ call.name = "aux_transfernb" /\ AuxTyped /\ IsOp(call) /\ nCall \in Nat
      /\ UNCHANGED <<nCall, wire_, stale>> /\ tx_len \in Nat /\ tx_len <= call.len
      /\ hold \in Seq(Seq(Bytes2)) /\ Foreign(hold, nCall + 1)
  BY DEF X!bcm2835_aux_spi_transfernb, X!In, X!Quiet, XInv, AuxTyped
<1>2. CASE X!WriteEntry(X!Count(tx_len)) /\ UNCHANGED call
  <2> DEFINE c == X!Count(tx_len)
  <2>1. c \in Nat /\ c <= tx_len
    BY <1>1 DEF X!Count, X!Least
  <2> HIDE DEF c
  <2>2. X!WriteEntry(c)
    BY <1>2 DEF c
  <2>3. /\ tx_len' \in Nat /\ tx_len' <= call.len
        /\ hold' \in Seq(Seq(Bytes2)) /\ Foreign(hold', nCall + 1)
    BY <1>1, <2>1, <2>2, EntryWritten
  <2> QED
    BY <1>1, <1>2, <2>3 DEF AuxTyped
<1>3. ASSUME UNCHANGED <<hold, tx_len>>, IsOp(call'), call'.name = call.name,
             call'.len = call.len
      PROVE  AuxTyped'
  BY <1>1, <1>3 DEF AuxTyped
<1>4. CASE UNCHANGED <<call, hold, tx_len>>
  BY <1>1, <1>3, <1>4
<1>5. CASE UNCHANGED <<hold, tx_len>> /\ \E stage : X!Next_(stage)
  BY <1>1, <1>3, <1>5, NextKeeps
<1>6. CASE UNCHANGED hold /\ X!Return
  BY <1>1, <1>6, ReturnKeeps DEF XInv, X!Return
<1> QED
  BY <1>2, <1>4, <1>5, <1>6 DEF X!bcm2835_aux_spi_transfernb

LEMMA AuxTransfernbStep ==
    ASSUME XInv, X!bcm2835_aux_spi_transfernb
    PROVE  XDone
PROOF
<1>1. /\ AuxTyped /\ AuxTyped' /\ call.name = "aux_transfernb" /\ UNCHANGED <<nCall, wire_, stale>>
      /\ call' = X!NoCall \/ (call'.name = call.name /\ call'.len = call.len)
  BY TransfernbTyped
<1>2. CASE ~Fits
  BY <1>1, <1>2, IdleTyped DEF XDone, XInv, Fits, X!AuxTransferStep
<1>3. CASE Fits
  <2> DEFINE n == call.len
  <2>1. TransferFlow /\ X!Entries(n) <= AUX_FIFO /\ AUX_FIFO \in Nat /\ IsOp(call)
    BY <1>3, TransfersConstants DEF XInv, Fits, AuxTyped
  <2>2. PICK R, W, N \in Nat : Flow(R, W, N)
    BY <2>1 DEF TransferFlow
  <2>3. /\ nCall \in Nat /\ n \in Nat /\ tx_len \in Nat /\ tx_len <= n /\ X!Entries(n) \in Nat
        /\ Reached(n, X!Entries(n)) = n
    BY <1>1, EntryCounts DEF AuxTyped, IsOp
  <2>4. /\ R <= W /\ W <= N /\ N <= X!Entries(n)
        /\ Stretch(hold, W, N, nCall, n) /\ Stretch(recv, R, W, nCall, n)
        /\ Replies(wire_, nCall, 0) /\ Len(wire_) = Reached(n, W)
        /\ Replies(rbuf, nCall, 0) /\ Len(rbuf) = Reached(n, R)
        /\ Written = Reached(n, N) /\ rx_len = n - Reached(n, R)
        /\ call.stage \in {"tx", "rx", "idle"} /\ (call.stage # "tx" => N = X!Entries(n))
    BY <2>2 DEF Flow
  <2>5. /\ Len(hold) = N - W /\ (hold = <<>> <=> W = N) /\ (recv = <<>> <=> R = W)
    BY <2>4, StretchLength
  <2>6. ASSUME TransferFlow', call'.name = call.name
        PROVE  XDone
    BY <1>1, <2>6, IdleTyped DEF XDone, XInv, X!AuxTransferStep
  <2> HIDE DEF n
  <2>7. ASSUME NEW stage \in {"tx", "rx", "idle"}, X!Next_(stage),
               stage # "tx" => N = X!Entries(n),
               UNCHANGED <<hold, tx_len, recv, rx_len, rbuf>>
        PROVE  XDone
    <3>1. call'.name = call.name /\ call'.len = n /\ call'.stage = stage
      BY <2>1, <2>7, NextKeeps DEF n
    <3>2. Flow(R, W, N)'
      BY <1>1, <2>4, <2>7, <3>1 DEF Flow, Written, n
    <3> QED
      BY <2>6, <3>1, <3>2 DEF TransferFlow
  <2>8. CASE /\ call.stage = "tx" /\ tx_len > 0 /\ X!WriteEntry(X!Count(tx_len))
             /\ UNCHANGED <<call, recv, rx_len, rbuf>>
    <3>1. Flow(R, W, N + 1)'
      BY <1>1, <2>2, <2>8, FlowWrites
    <3> QED
      BY <2>6, <2>8, <3>1 DEF TransferFlow
  <2>9. CASE /\ call.stage = "tx" /\ ~(~X!TX_FULL /\ tx_len > 0) /\ X!Next_("rx")
             /\ UNCHANGED <<hold, tx_len, recv, rx_len, rbuf>>
    <3>1. N = X!Entries(n)
      <4>1. CASE X!TX_FULL
        <5>1. N - W = AUX_FIFO
          BY <2>5, <4>1 DEF X!TX_FULL
        <5>2. X!Entries(n) <= AUX_FIFO
          BY <2>1 DEF n
        <5> QED
          BY <2>1, <2>3, <2>4, <5>1, <5>2
      <4>2. CASE ~(tx_len > 0)
        <5>1. Written = n
          BY <2>3, <4>2 DEF Written, n
        <5> QED
          BY <2>3, <2>4, <5>1, EntryCounts
      <4> QED
        BY <2>9, <4>1, <4>2
    <3> QED
      BY <2>7, <2>9, <3>1
  <2>10. ASSUME rx_len > 0, recv # <<>>, X!ReadEntry, UNCHANGED <<call, hold, tx_len>>
         PROVE  XDone
    <3>1. Flow(R + 1, W, N)'
      BY <1>1, <2>2, <2>10, FlowReads
    <3> QED
      BY <2>6, <2>10, <3>1 DEF TransferFlow
  <2>11. CASE /\ call.stage = "rx" /\ ~X!RX_EMPTY /\ rx_len > 0 /\ X!ReadEntry
              /\ UNCHANGED <<call, hold, tx_len>>
    BY <2>10, <2>11 DEF X!RX_EMPTY
  <2>12. CASE /\ call.stage = "rx" /\ X!Next_("idle")
              /\ UNCHANGED <<hold, tx_len, recv, rx_len, rbuf>>
    BY <2>4, <2>7, <2>12
  <2>13. CASE /\ call.stage = "idle" /\ ~X!BUSY /\ rx_len > 0 /\ X!ReadEntry
              /\ UNCHANGED <<call, hold, tx_len>>
    <3>1. W = X!Entries(n)
      BY <2>4, <2>5, <2>13 DEF X!BUSY
    <3>2. R # W
      BY <2>3, <2>4, <2>13, <3>1
    <3> QED
      BY <2>5, <2>10, <2>13, <3>2
  <2>14. CASE /\ call.stage = "idle" /\ X!Next_("tx")
              /\ UNCHANGED <<hold, tx_len, recv, rx_len, rbuf>>
    BY <2>7, <2>14
  <2>15. CASE /\ call.stage = "idle" /\ ~(tx_len > 0 \/ rx_len > 0) /\ X!Return
              /\ UNCHANGED <<hold, tx_len, recv, rx_len, rbuf>>
    <3>1. Reached(n, R) = n
      <4>1. Reached(n, R) \in Nat /\ Reached(n, R) <= n
        BY <2>3, EntryCounts
      <4> QED
        BY <2>3, <2>4, <2>15, <4>1
    <3>2. R = X!Entries(n) /\ W = X!Entries(n)
      <4>1. R <= X!Entries(n)
        BY <2>3, <2>4
      <4>2. R = X!Entries(n)
        BY <2>3, <3>1, <4>1, EntryCounts
      <4> QED
        BY <2>3, <2>4, <4>2
    <3>3. Len(wire_) = n /\ Len(rbuf) = n
      BY <2>3, <2>4, <3>1, <3>2
    <3>4. wire_ = X!Own(n) /\ rbuf = X!Own(n)
      BY <2>3, <2>4, <3>3, OwnSeen
    <3>5. XInv'
      BY <1>1, <2>3, <2>15, ReturnKeeps DEF AuxTyped
    <3> QED
      BY <1>1, <2>15, <3>4, <3>5 DEF XDone, X!AuxTransferStep, n
  <2> QED
    BY <2>8, <2>9, <2>11, <2>12, <2>13, <2>14, <2>15 DEF X!bcm2835_aux_spi_transfernb, X!In
<1> QED
  BY <1>2, <1>3

LEMMA XSteps ==
    ASSUME XInv, [X!Next]_(X!vars)
    PROVE  XInv' /\ [X!AuxTransferStep]_(X!vars)
PROOF
<1>1. CASE X!AuxCall
  <2>1. CASE X!Begin("aux_write", 2)
    BY <2>1, AuxBegins DEF XDone
  <2>2. CASE \E n \in AuxLengths, name \in {"aux_writenb", "aux_transfernb"} : X!Begin(name, n)
    <3>1. PICK n \in AuxLengths :
                 \E name \in {"aux_writenb", "aux_transfernb"} : X!Begin(name, n)
      BY <2>2
    <3>2. PICK name \in {"aux_writenb", "aux_transfernb"} : X!Begin(name, n)
      BY <3>1
    <3> QED
      BY <3>2, AuxBegins, TransfersConstants DEF XDone
  <2> QED
    BY <1>1, <2>1, <2>2 DEF X!AuxCall
<1>2. CASE X!ClearFifo
  <2>1. /\ X!Idle /\ UNCHANGED <<call, nCall, tx_len, hold>>
    BY <1>2 DEF X!ClearFifo
  <2>2. AuxTyped'
    BY <2>1 DEF XInv, AuxTyped
  <2> QED
    BY <2>1, <2>2, IdleTyped DEF XInv, Fits, X!AuxTransferStep
<1>3. CASE X!AuxCode
  BY <1>3, AuxWriteStep, AuxWritenbStep, AuxTransfernbStep DEF X!AuxCode, XDone
<1>4. CASE X!Exchange
  <2>1. AuxTyped /\ AuxTyped' /\ UNCHANGED <<call, stale>>
    BY <1>4, ExchangeFacts DEF XInv
  <2>2. call.name = "aux_writenb" => WritenbFlow'
    BY <1>4, <2>1, ExchangeWritenb DEF XInv
  <2>3. Fits => TransferFlow'
    BY <1>4, <2>1, ExchangeTransfer DEF XInv, Fits
  <2> QED
    BY <2>1, <2>2, <2>3 DEF XInv, Fits, X!AuxTransferStep, X!Idle
<1>5. CASE UNCHANGED X!vars
  <2>1. UNCHANGED <<call, nCall, tx_len, rx_len, hold, recv, wire_, rbuf, stale>>
    BY <1>5 DEF X!vars, X!queues
  <2> QED
    BY <1>5, <2>1 DEF XInv, AuxTyped, WritenbFlow, Foremost, Over, Pending, Fits, TransferFlow,
                      Flow, Written
<1> QED
  BY <1>1, <1>2, <1>3, <1>4, <1>5 DEF X!Next

LEMMA XStarts == X!Init => XInv
PROOF
<1> SUFFICES ASSUME X!Init
             PROVE  XInv
  OBVIOUS
<1>1. call = X!NoCall /\ nCall = 0 /\ hold = <<>>
  BY DEF X!Init
<1>2. hold \in Seq(Seq(Bytes2)) /\ Len(hold) = 0
  BY <1>1, EmptySeq
<1>3. AuxTyped
  BY <1>1, <1>2, IdleTyped DEF AuxTyped, Foreign
<1> QED
  BY <1>1, <1>3, IdleTyped DEF XInv, Fits

-----------------------------------------------------------------------------
(* The theorem *)

TransfersInv == HInv /\ (part = "aux" => XInv)

LEMMA TransfersSteps ==
    ASSUME [Next]_vars
    PROVE  /\ [H!Next]_(H!vars)
           /\ part' = part
           /\ part = "aux" => [X!Next]_(X!vars)
PROOF
<1>1. [H!Next]_(H!vars)
  BY DEF Next, vars, OnlySerial, OnlyFiles, OnlyBcm2835, OnlyAux, OnlyPins, AtRest, Others,
         bcm2835Vars, H!vars, H!spi, H!clock
<1>2. part' = part
  BY DEF Next, vars, OnlySerial, OnlyFiles, OnlyBcm2835, OnlyAux, OnlyPins, AtRest, Others
<1>3. part = "aux" => [X!Next]_(X!vars)
  BY DEF Next, vars, OnlySerial, OnlyFiles, OnlyBcm2835, OnlyAux, OnlyPins, auxVars, X!vars,
         X!queues
<1> QED
  BY <1>1, <1>2, <1>3

LEMMA TransfersInvariant == Spec => []TransfersInv
PROOF
<1>1. Init => TransfersInv
  BY HStarts, XStarts DEF Init, TransfersInv
<1>2. TransfersInv /\ [Next]_vars => TransfersInv'
  BY TransfersSteps, HSteps, XSteps DEF TransfersInv
<1> QED
  BY <1>1, <1>2, PTL DEF Spec

\* A call of the bcm2835 library that reports success has moved every byte that it was
\* asked to move, once and in order, and has read the answers to its own bytes; no
\* delay ends early; and the same holds on the auxiliary SPI within the limits that
\* AuxSpi states (bcm2835.c:497-531, 655-835, 898-1063, 1153-1385, 1492-1532).
THEOREM TransfersAreExact == Spec => TransferExact
PROOF
<1>1. TransfersInv /\ [Next]_vars => [H!TransferStep]_(H!vars)
  BY TransfersSteps, HSteps DEF TransfersInv
<1>2. TransfersInv /\ [Next]_vars => [part = "aux" => X!AuxTransferStep]_vars
  <2>1. ASSUME TransfersInv, [Next]_vars, part = "aux", vars' # vars
        PROVE  X!AuxTransferStep
    <3>1. [X!AuxTransferStep]_(X!vars)
      BY <2>1, TransfersSteps, XSteps DEF TransfersInv
    <3>2. CASE UNCHANGED X!vars
      BY <3>2 DEF X!vars, X!AuxTransferStep, X!Idle
    <3> QED
      BY <3>1, <3>2
  <2> QED
    BY <2>1
<1>3. Spec => H!TransferExact
  BY <1>1, TransfersInvariant, PTL DEF Spec, H!TransferExact
<1>4. Spec => [][part = "aux" => X!AuxTransferStep]_vars
  BY <1>2, TransfersInvariant, PTL DEF Spec
<1> QED
  BY <1>3, <1>4 DEF TransferExact
=============================================================================

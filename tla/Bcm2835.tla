------------------------------ MODULE Bcm2835 -------------------------------
(***************************************************************************)
(* The polled transfers of the bcm2835 library: SPI (the lights go out     *)
(* through bcm2835_spi_writenb), I2C, and delays on the system timer.  The *)
(* code polls status registers and moves bytes to and from FIFOs that the  *)
(* hardware works on at the same time.  A write sends the bytes 1, 2, ...; *)
(* a device answers byte k of transfer number x with <<x, k>>, so that an  *)
(* answer shows where it comes from.                                       *)
(***************************************************************************)
EXTENDS Integers, Sequences

CONSTANTS
  FIFO,           \* depth of the FIFOs
  SpiLengths, I2cLengths,   \* lengths of the transfers asked for
  Micros, Long,   \* delays asked for; from Long on the process sleeps first
  Word,           \* values of the low word of the timer
  MaxNow,         \* bound on the time at which a delay is asked for
  MaxOps          \* bound on the calls

\* What the BSC does with a data length of zero is not for this code to say.
TransfersAssumption ==
  /\ FIFO \in Nat \ {0} /\ Word \in Nat \ {0} /\ Long \in Nat
  /\ SpiLengths \subseteq Nat /\ I2cLengths \subseteq Nat \ {0} /\ Micros \subseteq Nat
  /\ MaxNow \in Nat /\ MaxOps \in Nat

VARIABLES
  op,         \* the call under way: its name, len and stage
  calls,      \* calls made
  txf, rxf,   \* SPI FIFOs
  TA,         \* SPI transfer active
  line,       \* bytes that have reached the SPI device in this call
  got,        \* rbuf
  TXCnt,      \* bytes written to the FIFO
  bsc,        \* the I2C controller: transfer, dlen, fifo, the bytes on its line,
              \* and status bits
  reason,     \* what the last call returned
  now, t      \* the system timer; what the delay has read of it

spi == <<txf, rxf, TA>>
clock == <<now, t>>
vars == <<op, calls, spi, line, got, TXCnt, bsc, reason, clock>>

Bytes(n) == [i \in 1..n |-> i]
Answer(k) == <<calls, k>>
Answers(n) == [k \in 1..n |-> Answer(k)]
Idle == op.name = "none"
At(name, stage) == op.name = name /\ op.stage = stage
Goto(stage) == op' = [op EXCEPT !.stage = stage]

Quiet == [transfer |-> "none", then |-> 0, dlen |-> 0, fifo |-> <<>>, line |-> <<>>,
          DONE |-> FALSE, ERR |-> FALSE, CLKT |-> FALSE]
NoTimes == [start |-> 0, hi |-> 0, lo |-> 0, micros |-> 0, asked |-> 0, read |-> 0]
NoOp == [name |-> "none", len |-> 0, stage |-> "none"]

Init ==
  /\ op = NoOp /\ calls = 0
  /\ txf = <<>> /\ rxf = <<>> /\ TA = FALSE
  /\ line = <<>> /\ got = <<>> /\ TXCnt = 0 /\ bsc = Quiet /\ reason = "none"
  /\ now = 1 /\ t = NoTimes

Finish(result) ==
  /\ op' = NoOp /\ reason' = result
Begin(name, n, stage) ==
  /\ Idle /\ calls < MaxOps /\ calls' = calls + 1
  /\ op' = [name |-> name, len |-> n, stage |-> stage]
  /\ line' = <<>> /\ got' = <<>> /\ TXCnt' = 0 /\ reason' = "none"

-----------------------------------------------------------------------------
(* SPI *)

TXD  == Len(txf) < FIFO
RXD  == rxf # <<>>
DONE == TA /\ txf = <<>>

\* The controller exchanges a byte; it stands still while the receive FIFO is
\* full.
SpiExchange ==
  /\ TA /\ txf # <<>> /\ Len(rxf) < FIFO
  /\ txf' = Tail(txf) /\ line' = Append(line, Head(txf))
  /\ rxf' = Append(rxf, Answer(Len(line) + 1))
  /\ UNCHANGED <<op, calls, TA, got, TXCnt, bsc, reason, clock>>

\* Each call clears the FIFOs and sets TA.  Mutant: they are not cleared.
SpiBegin_Unclear(name, n) ==
  /\ Begin(name, n, "tx") /\ TA' = TRUE
  /\ UNCHANGED <<txf, rxf, bsc, clock>>
SpiBegin(name, n) ==
  /\ Begin(name, n, "tx")
  /\ txf' = <<>> /\ rxf' = <<>> /\ TA' = TRUE
  /\ UNCHANGED <<bsc, clock>>

WriteFifo ==
  /\ txf' = Append(txf, TXCnt + 1) /\ TXCnt' = TXCnt + 1
  /\ UNCHANGED <<rxf, TA, got>>
ReadFifo ==
  /\ rxf' = Tail(rxf) /\ got' = Append(got, Head(rxf))
  /\ UNCHANGED <<txf, TA, TXCnt>>
DropFifo == rxf' = Tail(rxf) /\ UNCHANGED <<txf, TA, TXCnt, got>>
Stay == UNCHANGED <<spi, TXCnt, got>>
SpiFinish ==
  /\ DONE /\ TA' = FALSE /\ Finish("ok") /\ UNCHANGED <<txf, rxf, TXCnt, got>>

SpiStep == UNCHANGED <<calls, line, bsc, clock>>
Unreturned == UNCHANGED reason

\* bcm2835_spi_transfernb fills one FIFO and empties the other in turn.
Transfernb ==
  \/ /\ At("transfernb", "tx") /\ Unreturned
     /\ IF TXD /\ TXCnt < op.len THEN WriteFifo /\ UNCHANGED op ELSE Stay /\ Goto("rx")
  \/ /\ At("transfernb", "rx") /\ Unreturned
     /\ IF RXD /\ Len(got) < op.len THEN ReadFifo /\ UNCHANGED op
        ELSE Stay /\ Goto(IF TXCnt < op.len \/ Len(got) < op.len THEN "tx" ELSE "done")
  \/ At("transfernb", "done") /\ SpiFinish

\* bcm2835_spi_writenb reads the answers away so that the controller goes on.
Writenb ==
  \/ At("writenb", "tx") /\ TXCnt < op.len /\ TXD /\ WriteFifo /\ Goto("rx") /\ Unreturned
  \/ At("writenb", "tx") /\ TXCnt = op.len /\ Stay /\ Goto("done") /\ Unreturned
  \/ /\ At("writenb", "rx") /\ Unreturned
     /\ IF RXD THEN DropFifo /\ UNCHANGED op ELSE Stay /\ Goto("tx")
  \/ At("writenb", "done") /\ SpiFinish
  \/ At("writenb", "done") /\ ~DONE /\ RXD /\ DropFifo /\ UNCHANGED op /\ Unreturned

\* bcm2835_spi_transfer: one byte each way.
Transfer ==
  \/ At("transfer", "tx") /\ TXD /\ WriteFifo /\ Goto("rx") /\ Unreturned
  \/ At("transfer", "rx") /\ DONE /\ ReadFifo /\ Goto("done") /\ Unreturned
  \/ At("transfer", "done") /\ SpiFinish

\* bcm2835_spi_write: two bytes after one look at TXD.
Write16 ==
  \/ /\ At("write", "tx") /\ TXD /\ txf' = txf \o Bytes(2) /\ TXCnt' = 2
     /\ UNCHANGED <<rxf, TA, got>> /\ Goto("done") /\ Unreturned
  \/ At("write", "done") /\ SpiFinish

-----------------------------------------------------------------------------
(* I2C: transfer is "write" or "read" while the controller is active; then is   *)
(* the length of a read that a repeated start has asked for meanwhile.     *)

Stopped(b) == IF b.then > 0 THEN [b EXCEPT !.transfer = "read", !.dlen = b.then, !.then = 0,
                                       !.line = <<>>]
              ELSE [b EXCEPT !.transfer = "none", !.DONE = TRUE]
BscByte ==
  /\ bsc.transfer # "none"
  /\ LET sends == bsc.transfer = "write"
         after == [bsc EXCEPT !.dlen = @ - 1,
                     !.line = Append(@, IF sends THEN Head(bsc.fifo) ELSE 0),
                     !.fifo = IF sends THEN Tail(@) ELSE Append(@, Answer(Len(bsc.line) + 1))]
     IN  /\ IF sends THEN bsc.fifo # <<>> ELSE Len(bsc.fifo) < FIFO
         /\ bsc' = IF after.dlen = 0 THEN Stopped(after) ELSE after
  /\ UNCHANGED <<op, calls, spi, line, got, TXCnt, reason, clock>>

\* The device does not acknowledge, or stretches the clock too long.
BscFail ==
  /\ bsc.transfer # "none"
  /\ \E flag \in {"ERR", "CLKT"} :
       bsc' = [bsc EXCEPT ![flag] = TRUE, !.transfer = "none", !.then = 0, !.DONE = TRUE]
  /\ UNCHANGED <<op, calls, spi, line, got, TXCnt, reason, clock>>

\* A call clears FIFO and status, sets the length, and starts; a write fills the
\* FIFO first.
Prefilled(n) == IF n < FIFO THEN n ELSE FIFO
I2cBegin(name, n) ==
  /\ Idle /\ calls < MaxOps /\ calls' = calls + 1
  /\ got' = <<>> /\ reason' = "none"
  /\ LET writes == IF name = "i2c_read" THEN 0 ELSE IF name = "i2c_write" THEN n ELSE 1
     IN  /\ TXCnt' = Prefilled(writes)
         /\ bsc' = [Quiet EXCEPT !.transfer = IF writes = 0 THEN "read" ELSE "write",
                                 !.dlen = IF writes = 0 THEN n ELSE writes,
                                 !.fifo = Bytes(Prefilled(writes))]
  /\ op' = [name |-> name, len |-> n,
            stage |-> IF name = "i2c_read_rs" THEN "start" ELSE "poll"]
  /\ UNCHANGED <<spi, line, clock>>

\* The order in which the causes are looked at.
Result(left) ==
  IF bsc.ERR THEN "nack" ELSE IF bsc.CLKT THEN "clkt" ELSE IF left > 0 THEN "data" ELSE "ok"

BscStep == UNCHANGED <<calls, spi, line, clock>>
I2cWrite ==
  /\ At("i2c_write", "poll")
  /\ IF bsc.DONE
     THEN Finish(Result(op.len - TXCnt)) /\ UNCHANGED <<TXCnt, got, bsc>>
     ELSE /\ TXCnt < op.len /\ Len(bsc.fifo) < FIFO /\ TXCnt' = TXCnt + 1
          /\ bsc' = [bsc EXCEPT !.fifo = Append(@, TXCnt + 1)]
          /\ UNCHANGED <<op, got>> /\ Unreturned

\* Both reads empty the FIFO until DONE, and then once more.
BscRXD == bsc.transfer # "write" /\ bsc.fifo # <<>>
ReadBsc ==
  /\ BscRXD /\ Len(got) < op.len
  /\ got' = Append(got, Head(bsc.fifo)) /\ bsc' = [bsc EXCEPT !.fifo = Tail(@)]
  /\ UNCHANGED <<op, TXCnt>> /\ Unreturned
I2cRead ==
  /\ op.name \in {"i2c_read", "i2c_read_rs"}
  /\ \/ op.stage \in {"poll", "rest"} /\ ReadBsc
     \/ /\ op.stage = "poll" /\ bsc.DONE /\ Goto("rest") /\ Unreturned
        /\ UNCHANGED <<got, TXCnt, bsc>>
     \/ /\ op.stage = "rest" /\ (~BscRXD \/ Len(got) = op.len)
        /\ Finish(Result(op.len - Len(got))) /\ UNCHANGED <<got, TXCnt, bsc>>

\* The repeated start of bcm2835_i2c_read_register_rs and _write_read_rs, once
\* the write is seen to be active, or over when the process was away that long:
\* then DONE is set already and stays so.
RepeatedStart ==
  /\ At("i2c_read_rs", "start") /\ (bsc.transfer = "write" \/ bsc.DONE)
  /\ IF bsc.transfer = "write" THEN bsc' = [bsc EXCEPT !.then = op.len]
     ELSE bsc' = [bsc EXCEPT !.transfer = "read", !.dlen = op.len, !.line = <<>>]
  /\ Goto("poll") /\ Unreturned /\ UNCHANGED <<calls, spi, line, got, TXCnt, clock>>

-----------------------------------------------------------------------------
(* Delays *)

\* A call of bcm2835_st_read lasts less than the low word needs to come round.
Tick ==
  /\ op.name = "delay" /\ now - t.read < Word
  /\ now' = now + 1
  /\ UNCHANGED <<op, calls, spi, line, got, TXCnt, bsc, reason, t>>

Delay(us) ==
  /\ Begin("delay", 0, "hi")
  /\ t' = [NoTimes EXCEPT !.micros = us, !.asked = now, !.read = now]
  /\ UNCHANGED <<spi, bsc, now>>

\* bcm2835_st_read: the high word, the low word, the high word again; when it
\* has changed, the low word again.
StRead(value) ==
  IF t.start = 0
  THEN /\ t' = [t EXCEPT !.start = value, !.read = now]
       /\ Goto(IF t.micros > Long THEN "sleep" ELSE "hi") /\ Unreturned
  ELSE IF value < t.start + t.micros
  THEN t' = [t EXCEPT !.read = now] /\ Goto("hi") /\ Unreturned
  ELSE Finish("ok") /\ t' = NoTimes
Rehi ==
  /\ At("delay", "rehi")
  /\ IF now \div Word = t.hi THEN StRead((t.hi * Word) + t.lo)
     ELSE t' = [t EXCEPT !.hi = now \div Word] /\ Goto("relo") /\ Unreturned
Timer ==
  \/ At("delay", "hi") /\ t' = [t EXCEPT !.hi = now \div Word] /\ Goto("lo") /\ Unreturned
  \/ At("delay", "lo") /\ t' = [t EXCEPT !.lo = now % Word] /\ Goto("rehi") /\ Unreturned
  \/ Rehi
  \/ At("delay", "relo") /\ StRead((t.hi * Word) + (now % Word))
  \* nanosleep, which a signal may end at once
  \/ At("delay", "sleep") /\ t' = [t EXCEPT !.read = now] /\ Goto("hi") /\ Unreturned

-----------------------------------------------------------------------------
Call ==
  \/ \E n \in SpiLengths : \E name \in {"transfernb", "writenb"} : SpiBegin(name, n)
  \/ \E n \in I2cLengths :
       \E name \in {"i2c_write", "i2c_read", "i2c_read_rs"} : I2cBegin(name, n)
  \/ SpiBegin("transfer", 1) \/ SpiBegin("write", 2)
  \/ \E us \in Micros : now < MaxNow /\ Delay(us)

Code ==
  \/ (Transfernb \/ Writenb \/ Transfer \/ Write16) /\ SpiStep
  \/ (I2cWrite \/ I2cRead) /\ BscStep
  \/ RepeatedStart
  \/ Timer /\ UNCHANGED <<calls, spi, line, got, TXCnt, bsc, now>>
Hardware == SpiExchange \/ BscByte \/ Tick

Next == Call \/ Code \/ Hardware \/ BscFail

\* The process runs, the controllers go on as long as they can, time passes.
Fairness == WF_vars(Code) /\ WF_vars(Hardware)
Spec == Init /\ [][Next]_vars /\ Fairness

-----------------------------------------------------------------------------
\* A call that reports success has moved every byte once and in order: what was
\* asked for has reached the device, and what was read are the answers to this
\* call, none of them left over from an earlier one - although FIFOs overflow,
\* devices refuse and the process is away at any point.  And no delay ends early,
\* even when the words of the timer are read across an overflow.
TransferStep ==
  op.name # "none" /\ op'.name = "none" /\ reason' = "ok" =>
    /\ op.name \in {"transfernb", "writenb", "transfer", "write"} => line = Bytes(op.len)
    /\ op.name = "i2c_write" => bsc.line = Bytes(op.len)
    /\ op.name \in {"transfernb", "transfer", "i2c_read", "i2c_read_rs"} => got = Answers(op.len)
    /\ op.name = "delay" => now >= t.asked + t.micros
TransferExact == [][TransferStep]_vars

\* Every call returns, although it waits for the hardware without a timeout.
TransfersEnd == ~Idle ~> Idle
=============================================================================

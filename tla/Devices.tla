------------------------------- MODULE Devices --------------------------------
(***************************************************************************)
(* What the firmware does with the outside world besides USB: the serial  *)
(* port and the files that the bindings of keybow.lua reach (Bindings),    *)
(* and the bcm2835 library under the lights: its transfers (Bcm2835,       *)
(* AuxSpi) and its registers (Pins).  They share nothing but the thread    *)
(* that calls them, and no step of one depends on another, so a behaviour  *)
(* of this module runs one of them and leaves the others at rest, or at    *)
(* NIL.                                                                    *)
(***************************************************************************)
EXTENDS Integers, Sequences

CONSTANTS
  Chars, Lines, READLINE_BUFFER_LEN, MaxSent, MaxReads, Values, NoFile, Rests,
  MaxSaves, MaxCuts,
  FIFO, SpiLengths, I2cLengths, Micros, Long, Word, MaxNow, MaxOps,
  AUX_FIFO, AuxLengths, MaxAuxOps, Garbage,
  SomePins, Modes, Masks, LevelPins, Speeds, Dividers, MaxPinCalls,
  NIL

VARIABLES
  port, sent, wire, input, taken, buffer, reading, pieces,
  file, disk, saving, saves, whole, loaded, cuts,
  op, calls, txf, rxf, TA, line, got, TXCnt, bsc, reason, now, t,
  call, nCall, tx_len, rx_len, hold, recv, wire_, rbuf, stale,
  mapped, regs, pull, high, i2c_byte_wait_us, spi1_speed, asked, result, nAsked,
  part       \* the part that runs

B == INSTANCE Bindings
H == INSTANCE Bcm2835
X == INSTANCE AuxSpi
P == INSTANCE Pins

ASSUME BindingsFit == B!BindingsAssumption
ASSUME TransfersFit == H!TransfersAssumption /\ X!AuxAssumption

serialVars == <<port, sent, wire, input, taken, buffer, reading, pieces>>
storeVars == <<file, disk, saving, saves, whole, loaded, cuts>>
bcm2835Vars == <<op, calls, txf, rxf, TA, line, got, TXCnt, bsc, reason, now, t>>
auxVars == <<call, nCall, tx_len, rx_len, hold, recv, wire_, rbuf, stale>>
pinVars == <<mapped, regs, pull, high, i2c_byte_wait_us, spi1_speed, asked, result, nAsked>>
vars == <<serialVars, storeVars, bcm2835Vars, auxVars, pinVars, part>>

NoAux ==
  /\ call = NIL /\ nCall = NIL /\ tx_len = NIL /\ rx_len = NIL /\ hold = NIL
  /\ recv = NIL /\ wire_ = NIL /\ rbuf = NIL /\ stale = NIL
NoPins ==
  /\ mapped = NIL /\ regs = NIL /\ pull = NIL /\ high = NIL /\ i2c_byte_wait_us = NIL
  /\ spi1_speed = NIL /\ asked = NIL /\ result = NIL /\ nAsked = NIL

Init ==
  /\ B!Init /\ H!Init
  /\ \/ part \in {"serial", "files", "bcm2835"} /\ NoAux /\ NoPins
     \/ part = "aux" /\ X!Init /\ NoPins
     \/ part = "pins" /\ P!Init /\ NoAux

Others == UNCHANGED <<auxVars, pinVars, part>>
OnlySerial == part = "serial" /\ UNCHANGED <<storeVars, bcm2835Vars>> /\ Others
OnlyFiles == part = "files" /\ UNCHANGED <<serialVars, bcm2835Vars>> /\ Others
OnlyBcm2835 == part = "bcm2835" /\ UNCHANGED <<serialVars, storeVars>> /\ Others
AtRest == UNCHANGED <<serialVars, storeVars, bcm2835Vars, part>>
OnlyAux == part = "aux" /\ AtRest /\ UNCHANGED pinVars
OnlyPins == part = "pins" /\ AtRest /\ UNCHANGED auxVars

Next ==
  \/ (OnlySerial \/ OnlyFiles) /\ B!Next
  \/ OnlyBcm2835 /\ H!Next
  \/ OnlyAux /\ X!Next
  \/ OnlyPins /\ P!Next

\* A read or a write of a binding returns, the polling code runs, and the
\* controllers go on as long as they can (the Fairness of the three modules).
Returns ==
  \/ (OnlySerial \/ OnlyFiles) /\ (B!Reads \/ B!WriteAndClose)
  \/ OnlyBcm2835 /\ H!Code
  \/ OnlyAux /\ X!AuxCode
Hardware == (OnlyBcm2835 /\ H!Hardware) \/ (OnlyAux /\ X!Exchange)
Spec == Init /\ [][Next]_vars /\ WF_vars(Returns) /\ WF_vars(Hardware)

-----------------------------------------------------------------------------
\* serial_read never mixes two lines and skips or repeats nothing (Bindings).
LinesIntact == B!LinesIntact

\* load returns the last saved value as far as it was written, is kept and has no
\* NUL (Bindings).
StoreSound == B!StoreSound

\* A transfer that reports success moved its bytes once and in order, and no
\* delay ends early (Bcm2835); the same on the auxiliary SPI, within the limits that
\* AuxSpi states.
TransferExact == H!TransferExact /\ [][part = "aux" => X!AuxTransferStep]_vars

\* A call changes the setting that it names and no other, although they share words
\* of registers (Pins).
PinsSound == [][part = "pins" => P!PinsStep]_vars

\* Every binding, every transfer and every delay returns, although none but the
\* read of the serial port has a timeout.
Busy == ~B!Idle \/ ~H!Idle \/ (part = "aux" /\ ~X!Idle)
CallsEnd == Busy ~> ~Busy
=============================================================================

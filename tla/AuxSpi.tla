-------------------------------- MODULE AuxSpi --------------------------------
(***************************************************************************)
(* The auxiliary SPI of the bcm2835 library.  An entry of its FIFOs holds  *)
(* up to three bytes, the call looks at the status between any two steps   *)
(* of the controller, and no call but bcm2835_aux_spi_begin clears what an *)
(* earlier one has left.  Byte k of call number x is <<x, k>>, and so is   *)
(* the answer of the device to it.                                         *)
(***************************************************************************)
EXTENDS Integers, Sequences

CONSTANTS
  AUX_FIFO,       \* entries of a FIFO
  AuxLengths,     \* lengths of the transfers
  MaxAuxOps,      \* bound on the calls
  Garbage         \* what an empty FIFO gives

AuxAssumption ==
  AUX_FIFO \in Nat \ {0} /\ AuxLengths \subseteq Nat /\ MaxAuxOps \in Nat

VARIABLES
  call, nCall,           \* the call under way, its number
  tx_len, rx_len,        \* bytes left to write and to read
  hold, recv,            \* the FIFOs; recv of entries of answers
  wire_, rbuf,           \* bytes that have reached the device, bytes read
  stale                  \* history: an earlier write was not over when the call began,
                         \* or its answer not read

queues == <<hold, recv, wire_>>
vars == <<call, nCall, tx_len, rx_len, queues, rbuf, stale>>

Least(m, n) == IF m < n THEN m ELSE n
Count(n) == Least(n, 3)
Entries(n) == (n + 2) \div 3
TX_FULL == Len(hold) = AUX_FIFO
RX_EMPTY == recv = <<>>
BUSY == hold # <<>>
NoCall == [name |-> "none", len |-> 0, stage |-> "none"]
Idle == call = NoCall

Init ==
  /\ call = NoCall /\ nCall = 0 /\ tx_len = 0 /\ rx_len = 0
  /\ hold = <<>> /\ recv = <<>> /\ wire_ = <<>> /\ rbuf = <<>> /\ stale = FALSE

\* bcm2835_aux_spi_begin, when it is called anew.
ClearFifo ==
  /\ Idle /\ nCall < MaxAuxOps
  /\ recv # <<>> /\ recv' = <<>>
  /\ UNCHANGED <<call, nCall, tx_len, rx_len, hold, wire_, rbuf, stale>>

\* The controller exchanges an entry; an answer that has no room is lost.
Exchange ==
  /\ BUSY
  /\ hold' = Tail(hold) /\ wire_' = wire_ \o Head(hold)
  /\ recv' = IF Len(recv) = AUX_FIFO THEN recv ELSE Append(recv, Head(hold))
  /\ UNCHANGED <<call, nCall, tx_len, rx_len, rbuf, stale>>

Begin(name, n) ==
  /\ Idle /\ nCall < MaxAuxOps /\ nCall' = nCall + 1
  /\ call' = [name |-> name, len |-> n, stage |-> "tx"]
  /\ tx_len' = n /\ rx_len' = n
  /\ wire_' = <<>> /\ rbuf' = <<>> /\ stale' = (recv # <<>> \/ BUSY)
  /\ UNCHANGED <<hold, recv>>

Next_(stage) == call' = [call EXCEPT !.stage = stage]
In(name, stage) == call.name = name /\ call.stage = stage
Return == call' = NoCall
\* The next entry: from the byte after those already taken.
WriteEntry(n) ==
  /\ hold' = Append(hold, [k \in 1..n |-> <<nCall, call.len - tx_len + k>>])
  /\ tx_len' = tx_len - n
Quiet == UNCHANGED <<nCall, wire_, stale>>

bcm2835_aux_spi_write ==
  /\ In("aux_write", "tx") /\ ~TX_FULL
  /\ WriteEntry(2) /\ Return /\ UNCHANGED <<recv, rx_len, rbuf>> /\ Quiet

bcm2835_aux_spi_writenb ==
  \/ /\ In("aux_writenb", "tx")
     /\ IF tx_len = 0 THEN Return /\ UNCHANGED <<hold, tx_len>>
        ELSE ~TX_FULL /\ WriteEntry(Count(tx_len)) /\ Next_("wait")
     /\ UNCHANGED <<recv, rx_len, rbuf>> /\ Quiet
  \/ /\ In("aux_writenb", "wait") /\ ~BUSY
     /\ recv' = IF RX_EMPTY THEN recv ELSE Tail(recv)
     /\ Next_("tx") /\ UNCHANGED <<hold, tx_len, rx_len, rbuf>> /\ Quiet

\* What a read of the FIFO puts into rbuf: count bytes of the entry.
Entry == IF RX_EMPTY THEN <<Garbage, Garbage, Garbage>> ELSE Head(recv)
Taken ==
  LET n == Count(rx_len)
  IN  [k \in 1..n |-> IF k <= Len(Entry) THEN Entry[k] ELSE Garbage]
ReadEntry ==
  /\ rbuf' = rbuf \o Taken /\ rx_len' = rx_len - Len(Taken)
  /\ recv' = IF RX_EMPTY THEN recv ELSE Tail(recv)

\* Three loops in turn: fill while there is room, read while there are answers, and
\* read on when the controller is not busy.
bcm2835_aux_spi_transfernb ==
  \/ /\ In("aux_transfernb", "tx")
     /\ IF ~TX_FULL /\ tx_len > 0 THEN WriteEntry(Count(tx_len)) /\ UNCHANGED call
        ELSE Next_("rx") /\ UNCHANGED <<hold, tx_len>>
     /\ UNCHANGED <<recv, rx_len, rbuf>> /\ Quiet
  \/ /\ In("aux_transfernb", "rx")
     /\ IF ~RX_EMPTY /\ rx_len > 0 THEN ReadEntry /\ UNCHANGED call
        ELSE Next_("idle") /\ UNCHANGED <<recv, rx_len, rbuf>>
     /\ UNCHANGED <<hold, tx_len>> /\ Quiet
  \/ /\ In("aux_transfernb", "idle")
     /\ IF ~BUSY /\ rx_len > 0 THEN ReadEntry /\ UNCHANGED call
        ELSE /\ IF tx_len > 0 \/ rx_len > 0 THEN Next_("tx") ELSE Return
             /\ UNCHANGED <<recv, rx_len, rbuf>>
     /\ UNCHANGED <<hold, tx_len>> /\ Quiet

AuxCall ==
  \/ Begin("aux_write", 2)
  \/ \E n \in AuxLengths, name \in {"aux_writenb", "aux_transfernb"} : Begin(name, n)
AuxCode == bcm2835_aux_spi_write \/ bcm2835_aux_spi_writenb \/ bcm2835_aux_spi_transfernb
Next == AuxCall \/ ClearFifo \/ AuxCode \/ Exchange
Fairness == WF_vars(AuxCode) /\ WF_vars(Exchange)
Spec == Init /\ [][Next]_vars /\ Fairness

-----------------------------------------------------------------------------
\* A call that waits for its answers returns when the device has had every byte
\* once and in order, and a transfer returns its own answers - if it fits the FIFO
\* and no earlier write was still to be sent or answered.
Own(n) == [k \in 1..n |-> <<nCall, k>>]
\* The last n bytes on the wire are those of this call, and no other is.
SentLast(n) ==
  /\ n <= Len(wire_)
  /\ \A i \in 1..Len(wire_) :
       LET rest == Len(wire_) - n
       IN  IF i > rest THEN wire_[i] = <<nCall, i - rest>> ELSE wire_[i][1] # nCall
AuxTransferStep ==
  ~Idle /\ call' = NoCall =>
    /\ call.name = "aux_writenb" => SentLast(call.len)
    /\ call.name = "aux_transfernb" /\ Entries(call.len) <= AUX_FIFO /\ ~stale =>
         wire_ = Own(call.len) /\ rbuf' = Own(call.len)
AuxTransferExact == [][AuxTransferStep]_vars

\* Every call returns.
AuxCallsEnd == ~Idle ~> Idle
=============================================================================

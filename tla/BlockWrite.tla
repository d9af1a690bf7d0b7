------------------------------ MODULE BlockWrite ------------------------------
(***************************************************************************)
(* CMD_SENDBLOCK after the command and the size have been exchanged (the   *)
(* exchange itself is in Session).  Four actors run side by side:          *)
(*                                                                         *)
(*   - the controller, FastUPDI::write_block, which sends one packet for   *)
(*     every ACK it reads;                                                 *)
(*   - the programmer's main loop (main.cpp, CMD_SENDBLOCK), which frames  *)
(*     the block into UPDI segments and polls the receive buffer;          *)
(*   - the programmer's receive interrupt, which fills that buffer;        *)
(*   - the UART, which holds only FifoDepth bytes nobody has read yet.     *)
(*                                                                         *)
(* The two sides never exchange the size of a packet: the code is correct  *)
(* because both cut the block at the same places.  The firmware compares a *)
(* 16-bit pointer it loads byte by byte while the interrupt stores it.     *)
(*                                                                         *)
(* A data byte is named by its position in the block (1 .. size), so that  *)
(* a lost, repeated or reordered byte can be told from the right one.      *)
(* Fast mode (Config.h, ENABLE_BLOCK_FASTMODE) is what the repository      *)
(* builds: the target does not acknowledge the bytes of a block.           *)
(***************************************************************************)
EXTENDS Integers, Sequences

CONSTANTS
  Radix,      \* 256: values of a byte, hence of the segment counter
  RxBaseL,    \* the address of rxBuffer: its low byte,
  RxBaseH,    \*   and what its high byte stands for (a multiple of Radix)
  BufSize,    \* 1024: bytes in rxBuffer
  FifoDepth,  \* 3: unread bytes the UART holds
  MaxSize     \* the largest block write_block is called with

ASSUME RadixAssumption     == Radix \in Nat /\ Radix > 1
ASSUME RxBaseAssumption    == RxBaseL \in 0 .. Radix - 1 /\ RxBaseH \in Nat
ASSUME BufSizeAssumption   == BufSize \in Nat /\ BufSize >= Radix
ASSUME FifoDepthAssumption == FifoDepth \in Nat /\ FifoDepth > 0
ASSUME MaxSizeAssumption   == MaxSize \in Nat

VARIABLES
  size,      \* bytes in the block, agreed by both sides
  hpc,       \* controller: "await", "result", "ok"
  sent,      \* controller: bytes given to the port so far
  wire,      \* bytes written by the controller, not yet at the UART
  fifo,      \* bytes in the UART's receive FIFO
  overrun,   \* a byte arrived at a full FIFO and was dropped
  replies,   \* bytes from the programmer to the controller
  irq,       \* the receive interrupt is enabled
  rxBuffer,  \* rxBuffer, by offset from RxBase
  rxBufPosL, \* address the interrupt stores to next: its low byte,
  rxBufPosH, \*   and what its high byte stands for
  fpc,       \* firmware: the program counter of CMD_SENDBLOCK
  bytesLeft, \* firmware
  repeats,   \* firmware: REPEAT operand of the current segment
  i,         \* firmware: the byte counter that ends the segment when it wraps
  sendPos,   \* firmware: address of the next byte to forward
  bufPosLo,  \* firmware: low byte of the pointer as it was loaded
  target     \* [rpt, expect, mem]: REPEAT operand, bytes the ST still takes,
             \* bytes stored, in order

hostVars == <<hpc, sent>>
lineVars == <<wire, fifo, overrun>>
isrVars  == <<irq, rxBuffer, rxBufPosL, rxBufPosH>>
fwVars   == <<fpc, bytesLeft, repeats, i, sendPos, bufPosLo>>
vars == <<size, hostVars, lineVars, replies, isrVars, fwVars, target>>

MinOf(a, b) == IF a < b THEN a ELSE b

\* Addresses as the 16-bit values they are
RxBase   == RxBaseL + RxBaseH
rxBufPos == rxBufPosL + rxBufPosH

\* Mutants of the two constants on which both sides must agree
DataPacketSizeDouble == 2 * Radix
DataPacketSizeShort  == Radix - 1
SegmentSizeOffByOne  == Radix + 1

\* data_packet_size of the controller
DataPacketSize == Radix

\* The largest segment of the firmware, in bytes
SegmentSize == Radix

\* n bytes of the block, after the first m
Packet(m, n) == [k \in 1 .. n |-> m + k]

Init ==
  /\ size \in 0 .. MaxSize
  /\ hpc = IF size = 0 THEN "result" ELSE "await"
  /\ sent = 0
  /\ wire = << >> /\ fifo = << >> /\ overrun = FALSE
  /\ replies = << >>
  /\ irq = FALSE
  /\ rxBuffer = [k \in 0 .. BufSize - 1 |-> 0]
  /\ \/ rxBufPosL = 0 /\ rxBufPosH = 0       \* no block was sent yet
     \/ \E k \in 1 .. Radix :                \* where an earlier block left it
           IF RxBaseL + k < Radix
             THEN rxBufPosL = RxBaseL + k /\ rxBufPosH = RxBaseH
             ELSE rxBufPosL = RxBaseL + k - Radix /\ rxBufPosH = RxBaseH + Radix
  /\ fpc = "segment" /\ bytesLeft = size
  /\ repeats = 0 /\ i = 0 /\ sendPos = RxBase /\ bufPosLo = 0
  /\ target = [rpt |-> 0, expect |-> 0, mem |-> << >>]

-------------------------------------------------------------------------------
(* The controller: write_block *)

SendPacket ==
  /\ hpc = "await" /\ replies # << >> /\ Head(replies) = "ack"
  /\ replies' = Tail(replies)
  /\ LET toSend == MinOf(DataPacketSize, size - sent)
     IN  /\ wire' = wire \o Packet(sent, toSend)
         /\ sent' = sent + toSend
         /\ hpc' = IF sent + toSend = size THEN "result" ELSE "await"
  /\ UNCHANGED <<size, fifo, overrun, isrVars, fwVars, target>>

CheckResult ==
  /\ hpc = "result" /\ replies # << >> /\ Head(replies) = "ok"
  /\ replies' = Tail(replies)
  /\ hpc' = "ok"
  /\ UNCHANGED <<size, sent, lineVars, isrVars, fwVars, target>>

Host == SendPacket \/ CheckResult

-------------------------------------------------------------------------------
(* The UART and the receive interrupt *)

\* An enabled interrupt is served faster than bytes arrive (SERIAL_MAX_BAUD)
Arrive ==
  /\ wire # << >>
  /\ irq => Len(fifo) < FifoDepth
  /\ wire' = Tail(wire)
  /\ IF Len(fifo) < FifoDepth
       THEN fifo' = Append(fifo, Head(wire)) /\ UNCHANGED overrun
       ELSE overrun' = TRUE /\ UNCHANGED fifo
  /\ UNCHANGED <<size, hostVars, replies, isrVars, fwVars, target>>

\* Mutant: the pointer is incremented without the carry
RxInterruptNoCarry ==
  /\ irq /\ fifo # << >>
  /\ fifo' = Tail(fifo)
  /\ rxBuffer' = [rxBuffer EXCEPT ![rxBufPos - RxBase] = Head(fifo)]
  /\ rxBufPosL' = (rxBufPosL + 1) % Radix
  /\ UNCHANGED <<size, hostVars, wire, overrun, replies, irq, rxBufPosH, fwVars, target>>

RxInterrupt ==
  /\ irq /\ fifo # << >>
  /\ fifo' = Tail(fifo)
  /\ rxBuffer' = [rxBuffer EXCEPT ![rxBufPos - RxBase] = Head(fifo)]
  /\ IF rxBufPosL = Radix - 1
       THEN rxBufPosL' = 0 /\ rxBufPosH' = rxBufPosH + Radix
       ELSE rxBufPosL' = rxBufPosL + 1 /\ UNCHANGED rxBufPosH
  /\ UNCHANGED <<size, hostVars, wire, overrun, replies, irq, fwVars, target>>

-------------------------------------------------------------------------------
(* The firmware's main loop *)

NextSegment ==
  /\ fpc = "segment" /\ bytesLeft > 0
  /\ LET n == MinOf(SegmentSize, bytesLeft)
     IN  /\ repeats' = n - 1
         /\ bytesLeft' = bytesLeft - n
         /\ fpc' = IF n > 1 THEN "repeat" ELSE "resetLo"
  /\ UNCHANGED <<size, hostVars, lineVars, replies, isrVars, i, sendPos, bufPosLo, target>>

\* Mutant: REPEAT is given the number of bytes, not of repetitions
RepeatCountsBytes ==
  /\ fpc = "repeat" /\ fpc' = "resetLo"
  /\ target' = [target EXCEPT !.rpt = repeats + 1]
  /\ UNCHANGED <<size, hostVars, lineVars, replies, isrVars,
                 bytesLeft, repeats, i, sendPos, bufPosLo>>

Repeat ==
  /\ fpc = "repeat" /\ fpc' = "resetLo"
  /\ target' = [target EXCEPT !.rpt = repeats]
  /\ UNCHANGED <<size, hostVars, lineVars, replies, isrVars,
                 bytesLeft, repeats, i, sendPos, bufPosLo>>

\* start_buffered_receive stores the two bytes of the pointer one after the other
ResetLo ==
  /\ fpc = "resetLo" /\ fpc' = "resetHi"
  /\ rxBufPosL' = RxBaseL
  /\ UNCHANGED <<size, hostVars, lineVars, replies, irq, rxBuffer, rxBufPosH,
                 bytesLeft, repeats, i, sendPos, bufPosLo, target>>

\* Mutant: only the low byte of the pointer is reset
ResetHiOmitted ==
  /\ fpc = "resetHi" /\ fpc' = "arm"
  /\ UNCHANGED <<size, hostVars, lineVars, replies, isrVars,
                 bytesLeft, repeats, i, sendPos, bufPosLo, target>>

ResetHi ==
  /\ fpc = "resetHi" /\ fpc' = "arm"
  /\ rxBufPosH' = RxBaseH
  /\ UNCHANGED <<size, hostVars, lineVars, replies, irq, rxBuffer, rxBufPosL,
                 bytesLeft, repeats, i, sendPos, bufPosLo, target>>

\* Mutant: the ACK goes out with the interrupt not enabled
ArmOmitted ==
  /\ fpc = "arm" /\ fpc' = "ack"
  /\ UNCHANGED <<size, hostVars, lineVars, replies, isrVars,
                 bytesLeft, repeats, i, sendPos, bufPosLo, target>>

Arm ==
  /\ fpc = "arm" /\ fpc' = "ack"
  /\ irq' = TRUE
  /\ UNCHANGED <<size, hostVars, lineVars, replies, rxBuffer, rxBufPosL, rxBufPosH,
                 bytesLeft, repeats, i, sendPos, bufPosLo, target>>

SendAck ==
  /\ fpc = "ack" /\ fpc' = "store"
  /\ replies' = Append(replies, "ack")
  /\ UNCHANGED <<size, hostVars, lineVars, isrVars,
                 bytesLeft, repeats, i, sendPos, bufPosLo, target>>

Store ==
  /\ fpc = "store" /\ fpc' = "pollLo"
  /\ target' = [target EXCEPT !.expect = target.rpt + 1, !.rpt = 0]
  /\ i' = Radix - 1 - repeats
  /\ sendPos' = RxBase
  /\ UNCHANGED <<size, hostVars, lineVars, replies, isrVars, bytesLeft, repeats, bufPosLo>>

\* The interrupt may run between the two loads
PollLo ==
  /\ fpc = "pollLo" /\ fpc' = "pollHi"
  /\ bufPosLo' = rxBufPosL
  /\ UNCHANGED <<size, hostVars, lineVars, replies, isrVars,
                 bytesLeft, repeats, i, sendPos, target>>

\* Mutant: the wait loop is optimised away, as the comment at main.cpp:177-179 fears
PollHiOptimisedAway ==
  /\ fpc = "pollHi" /\ fpc' = "send"
  /\ UNCHANGED <<size, hostVars, lineVars, replies, isrVars,
                 bytesLeft, repeats, i, sendPos, bufPosLo, target>>

PollHi ==
  /\ fpc = "pollHi"
  /\ LET bufPos == bufPosLo + rxBufPosH
     IN  fpc' = IF sendPos = bufPos THEN "pollLo" ELSE "send"
  /\ UNCHANGED <<size, hostVars, lineVars, replies, isrVars,
                 bytesLeft, repeats, i, sendPos, bufPosLo, target>>

\* Mutant: the segment ends when the counter is about to wrap
ForwardOneShort ==
  /\ fpc = "send"
  /\ target' = [target EXCEPT !.mem = Append(target.mem, rxBuffer[sendPos - RxBase]),
                              !.expect = target.expect - 1]
  /\ sendPos' = sendPos + 1
  /\ i' = IF i = Radix - 1 THEN 0 ELSE i + 1
  /\ fpc' = IF i' = Radix - 1 THEN "segment" ELSE "pollLo"
  /\ UNCHANGED <<size, hostVars, lineVars, replies, isrVars, bytesLeft, repeats, bufPosLo>>

Forward ==
  /\ fpc = "send"
  /\ target' = [target EXCEPT !.mem = Append(target.mem, rxBuffer[sendPos - RxBase]),
                              !.expect = target.expect - 1]
  /\ sendPos' = sendPos + 1
  /\ i' = IF i = Radix - 1 THEN 0 ELSE i + 1
  /\ fpc' = IF i' = 0 THEN "segment" ELSE "pollLo"
  /\ UNCHANGED <<size, hostVars, lineVars, replies, isrVars, bytesLeft, repeats, bufPosLo>>

EndBlock ==
  /\ fpc = "segment" /\ bytesLeft = 0 /\ fpc' = "idle"
  /\ irq' = FALSE
  /\ replies' = Append(replies, "ok")
  /\ UNCHANGED <<size, hostVars, lineVars, rxBuffer, rxBufPosL, rxBufPosH,
                 bytesLeft, repeats, i, sendPos, bufPosLo, target>>

Firmware ==
  \/ NextSegment \/ Repeat \/ ResetLo \/ ResetHi \/ Arm \/ SendAck
  \/ Store \/ PollLo \/ PollHi \/ Forward \/ EndBlock

-------------------------------------------------------------------------------
Next == Host \/ Arrive \/ RxInterrupt \/ Firmware

Spec == Init /\ [][Next]_vars

\* Every actor keeps running: two processors, one UART, one interrupt source
Fairness == WF_vars(Host) /\ WF_vars(Arrive) /\ WF_vars(RxInterrupt) /\ WF_vars(Firmware)

FairSpec == Spec /\ Fairness

-------------------------------------------------------------------------------
(* Properties *)

Bytes == 0 .. MaxSize

\* Types.  bytesLeft stays a uint16_t and i a uint8_t, so neither wraps below 0
TypeOK ==
  /\ size \in Bytes
  /\ hpc \in {"await", "result", "ok"} /\ sent \in Bytes
  /\ wire \in Seq(Bytes) /\ fifo \in Seq(Bytes) /\ overrun \in BOOLEAN
  /\ replies \in Seq({"ack", "ok"})
  /\ irq \in BOOLEAN
  /\ rxBuffer \in [0 .. BufSize - 1 -> Bytes]
  /\ rxBufPosL \in 0 .. Radix - 1 /\ rxBufPosH \in Nat
  /\ fpc \in {"segment", "repeat", "resetLo", "resetHi", "arm", "ack", "store",
              "pollLo", "pollHi", "send", "idle"}
  /\ bytesLeft \in Bytes /\ repeats \in 0 .. Radix - 1 /\ i \in 0 .. Radix - 1
  /\ sendPos \in Nat /\ bufPosLo \in 0 .. Radix - 1
  /\ target \in [rpt : 0 .. Radix - 1, expect : 0 .. Radix, mem : Seq(Bytes)]

\* The target has stored a prefix of the block: nothing lost, doubled, swapped
\* or read from the buffer before it arrived (main.cpp:178-193)
DataInOrder ==
  /\ Len(target.mem) <= size
  /\ \A k \in 1 .. Len(target.mem) : target.mem[k] = k

\* The interrupt never stores outside rxBuffer, which has no bound check
\* (SerialInterf.cpp:51)
BufferBound == irq /\ fifo # << >> => rxBufPos - RxBase \in 0 .. BufSize - 1

\* No byte of a packet reaches the UART while nobody empties it: the interrupt is
\* armed before the ACK that asks for the packet (main.cpp:165-166)
NoOverrun == ~overrun

\* The two-byte store that resets rxBufPos is never cut by the interrupt, though
\* the interrupt stays enabled between segments (SerialInterf.h:46-51)
QuietReset == fpc \in {"resetLo", "resetHi", "arm"} => wire = << >> /\ fifo = << >>

\* The target takes every byte as data of the ST in progress, and takes none of
\* the next instruction for data (main.cpp:157-193)
TargetFraming ==
  /\ fpc = "send" => target.expect > 0
  /\ fpc \in {"segment", "repeat", "store", "idle"} => target.expect = 0

\* What a block write promises
Promise == INSTANCE BlockCopy WITH copied <- target.mem, reported <- hpc = "ok"
Implements == Promise!Spec

\* The controller and the firmware cut the block alike, so neither waits for a
\* packet or an ACK the other will not send: every block write ends
Completes == <>(hpc = "ok")

-------------------------------------------------------------------------------
(* The inductive invariant: where every byte of the block is, for each value of *)
(* the firmware's program counter.  None of the properties above is inductive   *)
(* alone: that a byte arriving now lands in the right place depends on what the *)
(* controller counted, on the pointer, and on how far the firmware has read.    *)

SegmentStart == size - bytesLeft - (repeats + 1)  \* bytes in earlier segments
Received == rxBufPos - RxBase                     \* bytes of the segment in rxBuffer
Taken == IF fpc = "store" THEN 0 ELSE sendPos - RxBase  \* of these, forwarded

\* The controller has sent n bytes, all of them were taken, and it waits
Settled(n) ==
  /\ sent = n /\ wire = << >> /\ fifo = << >>
  /\ hpc = IF n = size THEN "result" ELSE "await"

\* Between segments
BetweenSegments ==
  fpc = "segment" =>
    /\ bytesLeft = size - Len(target.mem)
    /\ Settled(Len(target.mem)) /\ replies = << >>
    /\ target.expect = 0 /\ target.rpt = 0

\* A segment is chosen and not yet asked for
Preparing ==
  fpc \in {"repeat", "resetLo", "resetHi", "arm", "ack"} =>
    /\ Len(target.mem) = SegmentStart
    /\ Settled(SegmentStart) /\ replies = << >>
    /\ target.expect = 0
    /\ target.rpt = IF fpc = "repeat" THEN 0 ELSE repeats
    /\ fpc \in {"resetHi", "arm", "ack"} => rxBufPosL = RxBaseL
    /\ fpc \in {"arm", "ack"} => rxBufPosH = RxBaseH
    /\ fpc = "ack" => irq

\* Both sides cut the block here
SameCut ==
  fpc \notin {"segment", "idle"} =>
    repeats + 1 = MinOf(Radix, size - SegmentStart)

\* The ACK is on its way, or the packet it asked for is
Asked ==
  Settled(SegmentStart) /\ replies = <<"ack">> /\ Received = 0

InFlight ==
  /\ replies = << >>
  /\ sent = SegmentStart + repeats + 1
  /\ hpc = IF sent = size THEN "result" ELSE "await"
  /\ Received + Len(fifo) + Len(wire) = repeats + 1
  /\ \A k \in 0 .. Received - 1 : rxBuffer[k] = SegmentStart + k + 1
  /\ \A k \in 1 .. Len(fifo) : fifo[k] = SegmentStart + Received + k
  /\ \A k \in 1 .. Len(wire) : wire[k] = SegmentStart + Received + Len(fifo) + k

Transferring ==
  fpc \in {"store", "pollLo", "pollHi", "send"} =>
    /\ irq
    /\ Asked \/ InFlight
    /\ Taken \in 0 .. repeats /\ Taken <= Received
    /\ Len(target.mem) = SegmentStart + Taken
    /\ fpc = "store" => target.expect = 0 /\ target.rpt = repeats
    /\ fpc # "store" => /\ target.expect = repeats + 1 - Taken /\ target.rpt = 0
                        /\ i = Radix - 1 - repeats + Taken
    /\ fpc = "pollHi" => (rxBufPos = sendPos => bufPosLo = rxBufPosL)
    /\ fpc = "send" => Taken < Received

AllDone ==
  fpc = "idle" =>
    /\ bytesLeft = 0 /\ Len(target.mem) = size /\ target.expect = 0
    /\ wire = << >> /\ fifo = << >> /\ sent = size
    /\ \/ replies = <<"ok">> /\ hpc = "result"
       \/ replies = << >> /\ hpc = "ok"

\* Every byte of the block is accounted for
IInv ==
  /\ TypeOK /\ DataInOrder /\ NoOverrun
  /\ BetweenSegments /\ Preparing /\ SameCut /\ Transferring /\ AllDone
=============================================================================

--------------------------- MODULE BlockWriteProofs ---------------------------
(***************************************************************************)
(* For every byte width, buffer address and size, FIFO depth and largest   *)
(* block: the invariants of BlockWrite, and that it implements BlockCopy.  *)
(***************************************************************************)
EXTENDS BlockWrite, SequenceTheorems, TLAPS

-------------------------------------------------------------------------------
(* The sequence operators the queues are built from *)

\* What reading from the front of a queue returns and leaves behind
LEMMA TakeHead ==
  ASSUME NEW S, NEW s \in Seq(S), s # << >>
  PROVE  /\ Head(s) \in S /\ Head(s) = s[1] /\ Len(s) \in Nat /\ Len(s) > 0
         /\ Tail(s) \in Seq(S) /\ Len(Tail(s)) = Len(s) - 1
         /\ \A k \in 1 .. Len(s) - 1 : Tail(s)[k] = s[k + 1]
  OBVIOUS

\* What adding at the back of a queue does
LEMMA PutLast ==
  ASSUME NEW S, NEW s \in Seq(S), NEW e \in S
  PROVE  /\ Append(s, e) \in Seq(S) /\ Len(Append(s, e)) = Len(s) + 1
         /\ \A k \in 1 .. Len(s) : Append(s, e)[k] = s[k]
         /\ Append(s, e)[Len(s) + 1] = e
  OBVIOUS

\* What the controller puts on an empty line is the packet itself
LEMMA PacketOnEmptyLine ==
  ASSUME NEW n \in Nat, NEW m \in Nat, m + n <= MaxSize
  PROVE  /\ << >> \o Packet(m, n) \in Seq(Bytes)
         /\ Len(<< >> \o Packet(m, n)) = n
         /\ \A k \in 1 .. n : (<< >> \o Packet(m, n))[k] = m + k
<1>1. /\ Packet(m, n) \in Seq(Bytes) /\ Len(Packet(m, n)) = n
      /\ \A k \in 1 .. n : Packet(m, n)[k] = m + k
  <2>1. \A k \in 1 .. n : m + k \in Bytes  BY MaxSizeAssumption DEF Bytes
  <2>. QED  BY <2>1, IsASeq DEF Packet
<1>2. << >> \o Packet(m, n) = Packet(m, n)  BY <1>1, ConcatEmptySeq
<1>. QED  BY <1>1, <1>2

\* When all of a segment has been received, none of it is on the line or in the FIFO
LEMMA NothingLeft ==
  ASSUME NEW received \in Int, NEW b \in Nat, NEW c \in Nat, NEW n \in Nat,
         received + b + c = n + 1, n < received
  PROVE  b = 0 /\ c = 0
  OBVIOUS

\* The two cuts are the same number of bytes
LEMMA MinFacts ==
  ASSUME NEW a \in Nat, NEW b \in Nat
  PROVE  /\ MinOf(a, b) \in Nat /\ MinOf(a, b) <= a /\ MinOf(a, b) <= b
         /\ a > 0 /\ b > 0 => MinOf(a, b) > 0
  BY DEF MinOf

-------------------------------------------------------------------------------
(* The invariant holds initially *)

\* Before the first segment nothing is sent, received or stored, wherever an earlier
\* block left the pointer
LEMMA InitIInv == Init => IInv
<1> SUFFICES ASSUME Init PROVE IInv  OBVIOUS
<1> USE DEF Init
<1>1. TypeOK
  BY RadixAssumption, RxBaseAssumption, BufSizeAssumption, MaxSizeAssumption
     DEF TypeOK, Bytes
<1>2. DataInOrder /\ NoOverrun
  BY DEF DataInOrder, NoOverrun
<1>3. BetweenSegments
  BY DEF BetweenSegments, Settled
<1>4. Preparing /\ SameCut /\ Transferring /\ AllDone
  BY DEF Preparing, SameCut, Transferring, AllDone
<1>. QED  BY <1>1, <1>2, <1>3, <1>4 DEF IInv

-------------------------------------------------------------------------------
(* Every step of the controller preserves it *)

\* The packet the controller cuts is the segment the firmware asked for
\* (write_block)
LEMMA SendPacketIInv == IInv /\ SendPacket => IInv'
<1> SUFFICES ASSUME IInv, SendPacket PROVE IInv'  OBVIOUS
<1>0. TypeOK /\ DataInOrder /\ NoOverrun  BY DEF IInv
\* the ACK read here is the one the firmware sent for its current segment
<1>1. /\ fpc \in {"store", "pollLo", "pollHi", "send"} /\ Asked
      /\ Transferring /\ SameCut
  BY <1>0 DEF IInv, TypeOK, SendPacket, BetweenSegments, Preparing, Transferring,
              AllDone, Asked, InFlight, Settled
<1>2. /\ sent = SegmentStart /\ wire = << >> /\ fifo = << >> /\ Received = 0
      /\ replies = <<"ack">>
  BY <1>1 DEF Asked, Settled
<1> DEFINE n == MinOf(DataPacketSize, size - sent)
<1>3. n = repeats + 1 /\ n \in Nat /\ sent + n <= size
  BY <1>0, <1>1, <1>2 DEF SameCut, DataPacketSize, MinOf, SegmentStart, TypeOK, Bytes
<1>4. /\ wire' = << >> \o Packet(sent, n)
      /\ sent' = sent + n /\ replies' = << >>
      /\ hpc' = IF sent + n = size THEN "result" ELSE "await"
      /\ UNCHANGED <<size, fifo, overrun, irq, rxBuffer, rxBufPosL, rxBufPosH, fpc,
                     bytesLeft, repeats, i, sendPos, bufPosLo, target>>
  BY <1>2 DEF SendPacket, isrVars, fwVars
<1> HIDE DEF n
<1>5. /\ wire' \in Seq(Bytes) /\ Len(wire') = n
      /\ \A k \in 1 .. n : wire'[k] = sent + k
  <2>1. sent \in Nat /\ sent + n <= MaxSize
    BY <1>0, <1>3, MaxSizeAssumption DEF TypeOK, Bytes
  <2>. QED  BY <1>3, <1>4, <2>1, PacketOnEmptyLine
<1>6. TypeOK'
  <2>1. replies' \in Seq({"ack", "ok"})  BY <1>4
  <2>2. sent' \in Bytes
    BY <1>0, <1>3, <1>4, MaxSizeAssumption DEF TypeOK, Bytes
  <2>. QED  BY <1>0, <1>4, <1>5, <2>1, <2>2 DEF TypeOK
<1>7. (DataInOrder /\ NoOverrun)'
  BY <1>0, <1>4 DEF DataInOrder, NoOverrun
<1>8. (BetweenSegments /\ Preparing /\ AllDone)'
  BY <1>1, <1>4 DEF BetweenSegments, Preparing, AllDone
<1>9. SegmentStart' = SegmentStart /\ Received' = Received /\ Taken' = Taken
  BY <1>4 DEF SegmentStart, Received, Taken, rxBufPos
<1>10. SameCut'
  BY <1>1, <1>4, <1>9 DEF SameCut
<1>11. InFlight'
  <2>1. sent' = SegmentStart' + repeats' + 1
    <3>1. SegmentStart \in Int /\ repeats \in Int
      BY <1>0, RadixAssumption DEF TypeOK, Bytes, SegmentStart
    <3>. QED  BY <1>2, <1>3, <1>4, <1>9, <3>1
  <2>2. Received' + Len(fifo') + Len(wire') = repeats' + 1
    BY <1>0, <1>2, <1>3, <1>4, <1>5, <1>9 DEF TypeOK
  <2>3. \A k \in 1 .. Len(wire') : wire'[k] = SegmentStart' + Received' + Len(fifo') + k
    <3>1. SegmentStart + 0 + 0 = SegmentStart
      BY <1>0 DEF TypeOK, Bytes, SegmentStart
    <3>. QED  BY <1>2, <1>4, <1>5, <1>9, <3>1
  <2>. QED  BY <1>2, <1>4, <1>9, <2>1, <2>2, <2>3 DEF InFlight
<1>12. Transferring'
  BY <1>1, <1>4, <1>9, <1>11 DEF Transferring, rxBufPos
<1>. QED  BY <1>6, <1>7, <1>8, <1>10, <1>12 DEF IInv

\* The only OK is the one that ends the block
LEMMA OkEndsBlock == IInv /\ CheckResult => fpc = "idle" /\ replies = <<"ok">> /\ AllDone
  BY DEF IInv, TypeOK, CheckResult, BetweenSegments, Preparing, Transferring,
         AllDone, Asked, InFlight, Settled

\* Reading the OK leaves nothing behind (write_block)
LEMMA CheckResultIInv == IInv /\ CheckResult => IInv'
<1> SUFFICES ASSUME IInv, CheckResult PROVE IInv'  OBVIOUS
<1>0. TypeOK /\ DataInOrder /\ NoOverrun  BY DEF IInv
<1>1. fpc = "idle" /\ replies = <<"ok">> /\ AllDone
  BY OkEndsBlock
<1>2. /\ replies' = << >> /\ hpc' = "ok"
      /\ UNCHANGED <<size, sent, wire, fifo, overrun, irq, rxBuffer, rxBufPosL, rxBufPosH,
                     fpc, bytesLeft, repeats, i, sendPos, bufPosLo, target>>
  BY <1>1 DEF CheckResult, lineVars, isrVars, fwVars
<1>3. TypeOK'
  <2>1. replies' \in Seq({"ack", "ok"})  BY <1>2
  <2>. QED  BY <1>0, <1>2, <2>1 DEF TypeOK
<1>4. (DataInOrder /\ NoOverrun)'
  BY <1>0, <1>2 DEF DataInOrder, NoOverrun
<1>5. (BetweenSegments /\ Preparing /\ SameCut /\ Transferring /\ AllDone)'
  BY <1>1, <1>2 DEF BetweenSegments, Preparing, SameCut, Transferring, AllDone
<1>. QED  BY <1>3, <1>4, <1>5 DEF IInv

-------------------------------------------------------------------------------
(* Every step of the line and of the interrupt preserves it *)

\* A byte moves from the line to the FIFO, which has room for it
LEMMA ArriveIInv == IInv /\ Arrive => IInv'
<1> SUFFICES ASSUME IInv, Arrive PROVE IInv'  OBVIOUS
<1>0. TypeOK /\ DataInOrder /\ NoOverrun  BY DEF IInv
\* bytes travel only while the interrupt is armed
<1>1. /\ fpc \in {"store", "pollLo", "pollHi", "send"} /\ irq /\ InFlight
      /\ Transferring /\ SameCut
  BY <1>0 DEF IInv, TypeOK, Arrive, BetweenSegments, Preparing, Transferring, AllDone,
              Asked, Settled
<1>2. /\ wire # << >> /\ wire' = Tail(wire) /\ fifo' = Append(fifo, Head(wire))
      /\ UNCHANGED <<size, hpc, sent, overrun, replies, irq, rxBuffer, rxBufPosL, rxBufPosH,
                     fpc, bytesLeft, repeats, i, sendPos, bufPosLo, target>>
  BY <1>1 DEF Arrive, hostVars, isrVars, fwVars
<1>3. wire \in Seq(Bytes) /\ fifo \in Seq(Bytes)  BY <1>0 DEF TypeOK
<1>4. /\ Head(wire) \in Bytes /\ Head(wire) = wire[1] /\ Len(wire) > 0 /\ Len(wire) \in Nat
      /\ wire' \in Seq(Bytes) /\ Len(wire') = Len(wire) - 1
      /\ \A k \in 1 .. Len(wire) - 1 : wire'[k] = wire[k + 1]
  BY <1>2, <1>3, TakeHead
<1>5. /\ fifo' \in Seq(Bytes) /\ Len(fifo') = Len(fifo) + 1 /\ Len(fifo) \in Nat
      /\ \A k \in 1 .. Len(fifo) : fifo'[k] = fifo[k]
      /\ fifo'[Len(fifo) + 1] = Head(wire)
  BY <1>2, <1>3, <1>4, PutLast
<1>6. TypeOK'
  BY <1>0, <1>2, <1>4, <1>5 DEF TypeOK
<1>7. (DataInOrder /\ NoOverrun)'
  BY <1>0, <1>2 DEF DataInOrder, NoOverrun
<1>8. (BetweenSegments /\ Preparing /\ AllDone)'
  BY <1>1, <1>2 DEF BetweenSegments, Preparing, AllDone
<1>9. SegmentStart' = SegmentStart /\ Received' = Received /\ Taken' = Taken
  BY <1>2 DEF SegmentStart, Received, Taken, rxBufPos
<1>10. SegmentStart \in Int /\ Received \in Int
  BY <1>0, RxBaseAssumption DEF TypeOK, Bytes, SegmentStart, Received, rxBufPos, RxBase
<1>11. SameCut'
  BY <1>1, <1>2, <1>9 DEF SameCut
<1>12. InFlight'
  <2>1. Received' + Len(fifo') + Len(wire') = repeats' + 1
    BY <1>1, <1>2, <1>4, <1>5, <1>9, <1>10 DEF InFlight
  <2>2. \A k \in 1 .. Len(fifo') : fifo'[k] = SegmentStart + Received + k
    <3>1. wire[1] = SegmentStart + Received + Len(fifo) + 1
      BY <1>1, <1>4 DEF InFlight
    <3>2. \A k \in 1 .. Len(fifo) : fifo'[k] = SegmentStart + Received + k
      BY <1>1, <1>5 DEF InFlight
    <3>3. fifo'[Len(fifo) + 1] = SegmentStart + Received + (Len(fifo) + 1)
      BY <1>4, <1>5, <1>10, <3>1
    <3>4. \A k \in 1 .. Len(fifo') : k \in 1 .. Len(fifo) \/ k = Len(fifo) + 1
      BY <1>5
    <3>. QED  BY <3>2, <3>3, <3>4
  <2>3. \A k \in 1 .. Len(wire') : wire'[k] = SegmentStart + Received + Len(fifo') + k
    <3>1. SUFFICES ASSUME NEW k \in 1 .. Len(wire')
                   PROVE  wire'[k] = SegmentStart + Received + Len(fifo') + k
      OBVIOUS
    <3>2. wire'[k] = wire[k + 1] /\ k + 1 \in 1 .. Len(wire)  BY <1>4
    <3>3. wire[k + 1] = SegmentStart + Received + Len(fifo) + (k + 1)
      BY <1>1, <3>2 DEF InFlight
    <3>. QED  BY <1>5, <1>10, <3>2, <3>3
  <2>. QED  BY <1>1, <1>2, <1>9, <2>1, <2>2, <2>3 DEF InFlight
<1>13. Transferring'
  BY <1>1, <1>2, <1>9, <1>12 DEF Transferring, rxBufPos
<1>. QED  BY <1>6, <1>7, <1>8, <1>11, <1>13 DEF IInv

\* The interrupt stores the next byte of the segment at its place, and the carry of the
\* pointer changes nothing about that (SerialInterf.cpp:47-60)
LEMMA RxInterruptIInv == IInv /\ RxInterrupt => IInv'
<1> SUFFICES ASSUME IInv, RxInterrupt PROVE IInv'  OBVIOUS
<1>0. TypeOK /\ DataInOrder /\ NoOverrun  BY DEF IInv
<1>1. /\ fpc \in {"store", "pollLo", "pollHi", "send"} /\ InFlight
      /\ Transferring /\ SameCut
  BY <1>0 DEF IInv, TypeOK, RxInterrupt, BetweenSegments, Preparing, Transferring, AllDone,
              Asked, Settled
<1>2. /\ fifo # << >> /\ fifo' = Tail(fifo)
      /\ rxBuffer' = [rxBuffer EXCEPT ![Received] = Head(fifo)]
      /\ UNCHANGED <<size, hpc, sent, wire, overrun, replies, irq,
                     fpc, bytesLeft, repeats, i, sendPos, bufPosLo, target>>
  BY DEF RxInterrupt, hostVars, fwVars, Received
<1>3. fifo \in Seq(Bytes) /\ wire \in Seq(Bytes) /\ Len(wire) \in Nat
  BY <1>0 DEF TypeOK
<1>4. /\ Head(fifo) \in Bytes /\ Head(fifo) = fifo[1] /\ Len(fifo) > 0 /\ Len(fifo) \in Nat
      /\ fifo' \in Seq(Bytes) /\ Len(fifo') = Len(fifo) - 1
      /\ \A k \in 1 .. Len(fifo) - 1 : fifo'[k] = fifo[k + 1]
  BY <1>2, <1>3, TakeHead
\* the carry into the high byte loses nothing
<1>5. /\ rxBufPos' = rxBufPos + 1
      /\ rxBufPosL' \in 0 .. Radix - 1 /\ rxBufPosH' \in Nat
  <2>1. rxBufPosL \in 0 .. Radix - 1 /\ rxBufPosH \in Nat  BY <1>0 DEF TypeOK
  <2>2. IF rxBufPosL = Radix - 1
          THEN rxBufPosL' = 0 /\ rxBufPosH' = rxBufPosH + Radix
          ELSE rxBufPosL' = rxBufPosL + 1 /\ rxBufPosH' = rxBufPosH
    BY DEF RxInterrupt
  <2>. QED  BY <2>1, <2>2, RadixAssumption DEF rxBufPos
<1>6. Received' = Received + 1 /\ SegmentStart' = SegmentStart /\ Taken' = Taken
  <2>1. rxBufPos \in Int /\ RxBase \in Int
    BY <1>0, RxBaseAssumption DEF TypeOK, rxBufPos, RxBase
  <2>2. Received' = rxBufPos' - RxBase  BY DEF Received, RxBase
  <2>3. Received' = Received + 1  BY <1>5, <2>1, <2>2 DEF Received
  <2>. QED  BY <1>2, <2>3 DEF SegmentStart, Taken, RxBase
<1>7. Received \in Nat /\ Received <= repeats /\ SegmentStart \in Int
  <2>1. Received \in Int /\ SegmentStart \in Int /\ Taken \in Int
    BY <1>0, RxBaseAssumption
       DEF TypeOK, Bytes, Received, rxBufPos, RxBase, SegmentStart, Taken
  <2>2. Taken >= 0 /\ Taken <= Received  BY <1>0, <1>1 DEF Transferring, TypeOK
  <2>3. Received + Len(fifo) + Len(wire) = repeats + 1  BY <1>1 DEF InFlight
  <2>. QED  BY <1>0, <1>3, <1>4, <2>1, <2>2, <2>3 DEF TypeOK
<1>8. Received \in 0 .. BufSize - 1
  BY <1>0, <1>7, BufSizeAssumption, RadixAssumption DEF TypeOK
<1>9. /\ rxBuffer' \in [0 .. BufSize - 1 -> Bytes]
      /\ rxBuffer'[Received] = Head(fifo)
      /\ \A k \in 0 .. Received - 1 : rxBuffer'[k] = rxBuffer[k]
  BY <1>0, <1>2, <1>4, <1>7, <1>8 DEF TypeOK
<1>10. TypeOK'
  BY <1>0, <1>2, <1>4, <1>5, <1>9 DEF TypeOK
<1>11. (DataInOrder /\ NoOverrun)'
  BY <1>0, <1>2 DEF DataInOrder, NoOverrun
<1>12. (BetweenSegments /\ Preparing /\ AllDone)'
  BY <1>1, <1>2 DEF BetweenSegments, Preparing, AllDone
<1>13. SameCut'
  BY <1>1, <1>2, <1>6 DEF SameCut
<1>14. InFlight'
  <2>1. \A k \in 0 .. Received' - 1 : rxBuffer'[k] = SegmentStart + k + 1
    <3>1. rxBuffer'[Received] = SegmentStart + Received + 1
      BY <1>1, <1>4, <1>9 DEF InFlight
    <3>2. \A k \in 0 .. Received - 1 : rxBuffer'[k] = SegmentStart + k + 1
      BY <1>1, <1>9 DEF InFlight
    <3>. QED  BY <1>6, <1>7, <3>1, <3>2
  <2>2. \A k \in 1 .. Len(fifo') : fifo'[k] = SegmentStart + Received' + k
    <3>1. SUFFICES ASSUME NEW k \in 1 .. Len(fifo')
                   PROVE  fifo'[k] = SegmentStart + Received' + k
      OBVIOUS
    <3>2. fifo'[k] = fifo[k + 1] /\ k + 1 \in 1 .. Len(fifo)  BY <1>4
    <3>3. fifo[k + 1] = SegmentStart + Received + (k + 1)  BY <1>1, <3>2 DEF InFlight
    <3>. QED  BY <1>6, <1>7, <3>2, <3>3
  <2>3. \A k \in 1 .. Len(wire) : wire[k] = SegmentStart + Received' + Len(fifo') + k
    <3>1. Received' + Len(fifo') = Received + Len(fifo)  BY <1>4, <1>6, <1>7
    <3>2. \A k \in 1 .. Len(wire) :
             SegmentStart + Received + Len(fifo) + k = SegmentStart + Received' + Len(fifo') + k
      BY <1>4, <1>6, <1>7, <3>1
    <3>. QED  BY <1>1, <3>2 DEF InFlight
  <2>4. Received' + Len(fifo') + Len(wire') = repeats' + 1
    BY <1>1, <1>2, <1>3, <1>4, <1>6, <1>7 DEF InFlight
  <2>. QED  BY <1>1, <1>2, <1>6, <2>1, <2>2, <2>3, <2>4 DEF InFlight
<1>15. Transferring'
  <2>1. Taken \in 0 .. repeats /\ Taken <= Received' /\ Taken < Received'
    <3>1. Taken \in 0 .. repeats /\ Taken <= Received  BY <1>1 DEF Transferring
    <3>2. repeats \in Nat  BY <1>0 DEF TypeOK
    <3>. QED  BY <1>6, <1>7, <3>1, <3>2
  <2>2. fpc = "pollHi" => rxBufPos' # sendPos
    <3>1. fpc = "pollHi" => Taken = sendPos - RxBase  BY DEF Taken
    <3>2. Taken < rxBufPos' - RxBase  BY <2>1 DEF Received
    <3>3. rxBufPos' \in Int /\ RxBase \in Int
      BY <1>5, RxBaseAssumption DEF rxBufPos, RxBase
    <3>. QED  BY <3>1, <3>2, <3>3
  <2>. QED  BY <1>1, <1>2, <1>6, <1>14, <2>1, <2>2 DEF Transferring
<1>. QED  BY <1>10, <1>11, <1>12, <1>13, <1>15 DEF IInv

-------------------------------------------------------------------------------
(* Every step of the firmware preserves it *)

\* The counters of the current segment are integers, so sums can be rearranged
LEMMA Numbers ==
  ASSUME TypeOK
  PROVE  /\ size \in Nat /\ size <= MaxSize /\ bytesLeft \in Nat /\ repeats \in Nat
         /\ SegmentStart \in Int /\ Received \in Int /\ Taken \in Int
         /\ RxBase \in Nat /\ rxBufPos \in Nat /\ Len(target.mem) \in Nat
  BY RadixAssumption, RxBaseAssumption, MaxSizeAssumption
     DEF TypeOK, Bytes, SegmentStart, Received, Taken, rxBufPos, RxBase

\* The firmware cuts the next segment where the controller will (main.cpp:133-154)
LEMMA NextSegmentIInv == IInv /\ NextSegment => IInv'
<1> SUFFICES ASSUME IInv, NextSegment PROVE IInv'  OBVIOUS
<1>0. TypeOK /\ DataInOrder /\ NoOverrun /\ BetweenSegments  BY DEF IInv
<1> DEFINE n == MinOf(SegmentSize, bytesLeft)
<1>1. /\ fpc = "segment" /\ bytesLeft > 0 /\ repeats' = n - 1 /\ bytesLeft' = bytesLeft - n
      /\ fpc' = IF n > 1 THEN "repeat" ELSE "resetLo"
      /\ UNCHANGED <<size, hpc, sent, wire, fifo, overrun, replies, irq, rxBuffer,
                     rxBufPosL, rxBufPosH, i, sendPos, bufPosLo, target>>
  BY DEF NextSegment, hostVars, lineVars, isrVars
<1>2. n \in 1 .. Radix /\ n <= bytesLeft /\ n = MinOf(Radix, bytesLeft)
  BY <1>0, <1>1, RadixAssumption, Numbers DEF MinOf, SegmentSize
<1> HIDE DEF n
<1>3. /\ Len(target.mem) = size - bytesLeft /\ Settled(Len(target.mem)) /\ replies = << >>
      /\ target.expect = 0 /\ target.rpt = 0
  BY <1>0, <1>1, Numbers DEF BetweenSegments
<1>4. SegmentStart' = Len(target.mem) /\ size - SegmentStart' = bytesLeft
  <2>1. size \in Int /\ bytesLeft \in Int /\ n \in Int
    BY <1>0, <1>2, RadixAssumption, Numbers
  <2>. QED  BY <1>1, <1>3, <2>1 DEF SegmentStart
<1>5. TypeOK'
  <2>1. repeats' \in 0 .. Radix - 1  BY <1>1, <1>2, RadixAssumption
  <2>2. bytesLeft' \in Bytes
    <3>1. bytesLeft \in 0 .. MaxSize  BY <1>0 DEF TypeOK, Bytes
    <3>. QED  BY <1>1, <1>2, <3>1, MaxSizeAssumption, RadixAssumption DEF Bytes
  <2>. QED  BY <1>0, <1>1, <2>1, <2>2 DEF TypeOK
<1>6. (DataInOrder /\ NoOverrun)'
  BY <1>0, <1>1 DEF DataInOrder, NoOverrun
<1>7. Preparing'
  <2>1. target.rpt = IF fpc' = "repeat" THEN 0 ELSE repeats'
    BY <1>1, <1>2, <1>3, RadixAssumption
  <2>. QED  BY <1>1, <1>3, <1>4, <2>1 DEF Preparing, Settled
<1>8. SameCut'
  BY <1>1, <1>2, <1>4 DEF SameCut
<1>9. (BetweenSegments /\ Transferring /\ AllDone)'
  BY <1>1 DEF BetweenSegments, Transferring, AllDone
<1>. QED  BY <1>5, <1>6, <1>7, <1>8, <1>9 DEF IInv

\* REPEAT is told the length of the segment
LEMMA RepeatIInv == IInv /\ Repeat => IInv'
<1> SUFFICES ASSUME IInv, Repeat PROVE IInv'  OBVIOUS
<1>0. TypeOK /\ DataInOrder /\ NoOverrun /\ Preparing /\ SameCut  BY DEF IInv
<1>1. /\ fpc = "repeat" /\ fpc' = "resetLo"
      /\ target' = [target EXCEPT !.rpt = repeats]
      /\ UNCHANGED <<size, hpc, sent, wire, fifo, overrun, replies, irq, rxBuffer,
                     rxBufPosL, rxBufPosH, bytesLeft, repeats, i, sendPos, bufPosLo>>
  BY DEF Repeat, hostVars, lineVars, isrVars
<1>2. target'.rpt = repeats /\ target'.expect = target.expect /\ target'.mem = target.mem
  BY <1>0, <1>1 DEF TypeOK
<1>3. TypeOK'
  BY <1>0, <1>1 DEF TypeOK
<1>4. (DataInOrder /\ NoOverrun)'
  BY <1>0, <1>1, <1>2 DEF DataInOrder, NoOverrun
<1>5. (Preparing /\ SameCut)'
  BY <1>0, <1>1, <1>2 DEF Preparing, SameCut, Settled, SegmentStart
<1>6. (BetweenSegments /\ Transferring /\ AllDone)'
  BY <1>1 DEF BetweenSegments, Transferring, AllDone
<1>. QED  BY <1>3, <1>4, <1>5, <1>6 DEF IInv

\* The pointer is reset, and the interrupt armed, before anything is asked for
\* (SerialInterf.h:46-51)
LEMMA ResetIInv == IInv /\ (ResetLo \/ ResetHi \/ Arm) => IInv'
<1> SUFFICES ASSUME IInv, ResetLo \/ ResetHi \/ Arm PROVE IInv'  OBVIOUS
<1>0. TypeOK /\ DataInOrder /\ NoOverrun /\ Preparing /\ SameCut  BY DEF IInv
<1>1. UNCHANGED <<size, hpc, sent, wire, fifo, overrun, replies, rxBuffer,
                  bytesLeft, repeats, i, sendPos, bufPosLo, target>>
  BY DEF ResetLo, ResetHi, Arm, hostVars, lineVars
<1>2. \/ /\ fpc = "resetLo" /\ fpc' = "resetHi" /\ rxBufPosL' = RxBaseL
         /\ UNCHANGED <<irq, rxBufPosH>>
      \/ /\ fpc = "resetHi" /\ fpc' = "arm" /\ rxBufPosH' = RxBaseH
         /\ UNCHANGED <<irq, rxBufPosL>>
      \/ fpc = "arm" /\ fpc' = "ack" /\ irq' = TRUE /\ UNCHANGED <<rxBufPosL, rxBufPosH>>
  BY DEF ResetLo, ResetHi, Arm
<1>3. TypeOK'
  BY <1>0, <1>1, <1>2, RxBaseAssumption DEF TypeOK
<1>4. (DataInOrder /\ NoOverrun)'
  BY <1>0, <1>1 DEF DataInOrder, NoOverrun
<1>5. (Preparing /\ SameCut)'
  BY <1>0, <1>1, <1>2 DEF Preparing, SameCut, Settled, SegmentStart
<1>6. (BetweenSegments /\ Transferring /\ AllDone)'
  BY <1>2 DEF BetweenSegments, Transferring, AllDone
<1>. QED  BY <1>3, <1>4, <1>5, <1>6 DEF IInv

\* The ACK goes out when everything is ready for the packet
LEMMA SendAckIInv == IInv /\ SendAck => IInv'
<1> SUFFICES ASSUME IInv, SendAck PROVE IInv'  OBVIOUS
<1>0. TypeOK /\ DataInOrder /\ NoOverrun /\ Preparing /\ SameCut  BY DEF IInv
<1>1. /\ fpc = "ack" /\ fpc' = "store" /\ replies' = Append(replies, "ack")
      /\ UNCHANGED <<size, hpc, sent, wire, fifo, overrun, irq, rxBuffer,
                     rxBufPosL, rxBufPosH, bytesLeft, repeats, i, sendPos, bufPosLo, target>>
  BY DEF SendAck, hostVars, lineVars, isrVars
<1>2. /\ irq /\ Len(target.mem) = SegmentStart /\ Settled(SegmentStart) /\ replies = << >>
      /\ target.expect = 0 /\ target.rpt = repeats
      /\ rxBufPosL = RxBaseL /\ rxBufPosH = RxBaseH
  BY <1>0, <1>1 DEF Preparing
<1>3. replies' = <<"ack">>  BY <1>1, <1>2
<1>4. Received' = 0 /\ Taken' = 0 /\ SegmentStart' = SegmentStart
  <2>1. rxBufPos' = RxBase /\ RxBase \in Nat  BY <1>1, <1>2, <1>0, Numbers DEF rxBufPos, RxBase
  <2>. QED  BY <1>1, <2>1 DEF Received, Taken, SegmentStart, RxBase
<1>5. TypeOK'
  <2>1. replies' \in Seq({"ack", "ok"})  BY <1>3
  <2>. QED  BY <1>0, <1>1, <2>1 DEF TypeOK
<1>6. (DataInOrder /\ NoOverrun)'
  BY <1>0, <1>1 DEF DataInOrder, NoOverrun
<1>7. SameCut'
  BY <1>0, <1>1, <1>4 DEF SameCut
<1>8. Transferring'
  <2>1. Asked'  BY <1>1, <1>2, <1>3, <1>4 DEF Asked, Settled
  <2>2. 0 \in 0 .. repeats /\ Len(target.mem) = SegmentStart + 0
    BY <1>0, <1>2, Numbers
  <2>. QED  BY <1>1, <1>2, <1>4, <2>1, <2>2 DEF Transferring
<1>9. (BetweenSegments /\ Preparing /\ AllDone)'
  BY <1>1 DEF BetweenSegments, Preparing, AllDone
<1>. QED  BY <1>5, <1>6, <1>7, <1>8, <1>9 DEF IInv

\* The ST instruction opens a segment of which nothing has been forwarded
LEMMA StoreIInv == IInv /\ Store => IInv'
<1> SUFFICES ASSUME IInv, Store PROVE IInv'  OBVIOUS
<1>0. TypeOK /\ DataInOrder /\ NoOverrun /\ SameCut /\ Transferring  BY DEF IInv
<1>1. /\ fpc = "store" /\ fpc' = "pollLo" /\ i' = Radix - 1 - repeats /\ sendPos' = RxBase
      /\ target' = [target EXCEPT !.expect = target.rpt + 1, !.rpt = 0]
      /\ UNCHANGED <<size, hpc, sent, wire, fifo, overrun, replies, irq, rxBuffer,
                     rxBufPosL, rxBufPosH, bytesLeft, repeats, bufPosLo>>
  BY DEF Store, hostVars, lineVars, isrVars
<1>2. /\ irq /\ (Asked \/ InFlight) /\ Len(target.mem) = SegmentStart + 0 /\ 0 <= Received
      /\ target.rpt = repeats
  BY <1>0, <1>1 DEF Transferring, Taken
<1>3. /\ target'.rpt = 0 /\ target'.expect = repeats + 1 /\ target'.mem = target.mem
  BY <1>0, <1>1, <1>2 DEF TypeOK
<1>4. Received' = Received /\ Taken' = 0 /\ SegmentStart' = SegmentStart
  BY <1>0, <1>1, Numbers DEF Received, Taken, SegmentStart, rxBufPos, RxBase
<1>5. TypeOK'
  <2>1. /\ repeats + 1 \in 0 .. Radix /\ Radix - 1 - repeats \in 0 .. Radix - 1
        /\ 0 \in 0 .. Radix - 1 /\ RxBase \in Nat
    BY <1>0, RadixAssumption, Numbers DEF TypeOK
  <2>2. target' \in [rpt : 0 .. Radix - 1, expect : 0 .. Radix, mem : Seq(Bytes)]
    BY <1>0, <1>1, <1>2, <2>1 DEF TypeOK
  <2>. QED  BY <1>0, <1>1, <2>1, <2>2 DEF TypeOK
<1>6. (DataInOrder /\ NoOverrun)'
  BY <1>0, <1>1, <1>3 DEF DataInOrder, NoOverrun
<1>7. SameCut'
  BY <1>0, <1>1, <1>4 DEF SameCut
<1>8. (Asked \/ InFlight)'
  BY <1>1, <1>2, <1>4 DEF Asked, InFlight, Settled
<1>9. Transferring'
  <2>1. repeats + 1 - 0 = repeats + 1 /\ Radix - 1 - repeats + 0 = Radix - 1 - repeats
        /\ 0 \in 0 .. repeats
    BY <1>0, RadixAssumption, Numbers
  <2>. QED  BY <1>1, <1>2, <1>3, <1>4, <1>8, <2>1 DEF Transferring
<1>10. (BetweenSegments /\ Preparing /\ AllDone)'
  BY <1>1 DEF BetweenSegments, Preparing, AllDone
<1>. QED  BY <1>5, <1>6, <1>7, <1>9, <1>10 DEF IInv

\* If the firmware decides that a byte is there, one is, whatever the interrupt did
\* between the two loads: the loads can only disagree when the pointer has moved
LEMMA PollIInv == IInv /\ (PollLo \/ PollHi) => IInv'
<1> SUFFICES ASSUME IInv, PollLo \/ PollHi PROVE IInv'  OBVIOUS
<1>0. TypeOK /\ DataInOrder /\ NoOverrun /\ SameCut /\ Transferring  BY DEF IInv
<1>1. UNCHANGED <<size, hpc, sent, wire, fifo, overrun, replies, irq, rxBuffer,
                  rxBufPosL, rxBufPosH, bytesLeft, repeats, i, sendPos, target>>
  BY DEF PollLo, PollHi, hostVars, lineVars, isrVars
<1>2. \/ fpc = "pollLo" /\ fpc' = "pollHi" /\ bufPosLo' = rxBufPosL
      \/ /\ fpc = "pollHi" /\ bufPosLo' = bufPosLo
         /\ fpc' = IF sendPos = bufPosLo + rxBufPosH THEN "pollLo" ELSE "send"
  BY DEF PollLo, PollHi
<1>3. Received' = Received /\ Taken' = Taken /\ SegmentStart' = SegmentStart
      /\ rxBufPos' = rxBufPos
  BY <1>1, <1>2 DEF Received, Taken, SegmentStart, rxBufPos
<1>4. TypeOK'
  BY <1>0, <1>1, <1>2 DEF TypeOK
<1>5. (DataInOrder /\ NoOverrun)'
  BY <1>0, <1>1 DEF DataInOrder, NoOverrun
<1>6. SameCut'
  BY <1>0, <1>1, <1>2, <1>3 DEF SameCut
<1>7. (Asked \/ InFlight)'
  BY <1>0, <1>1, <1>2, <1>3 DEF Transferring, Asked, InFlight, Settled
<1>8. fpc' = "send" => Taken < Received
  <2>1. SUFFICES ASSUME fpc' = "send" PROVE Taken < Received  OBVIOUS
  <2>2. fpc = "pollHi" /\ sendPos # bufPosLo + rxBufPosH  BY <1>2, <2>1
  <2>3. rxBufPos # sendPos
    BY <1>0, <2>2 DEF Transferring, rxBufPos
  <2>4. Taken <= Received /\ Taken = sendPos - RxBase
    BY <1>0, <2>2 DEF Transferring, Taken
  <2>5. sendPos \in Nat  BY <1>0 DEF TypeOK
  <2>. QED  BY <1>0, <2>3, <2>4, <2>5, Numbers DEF Received
<1>9. Transferring'
  BY <1>0, <1>1, <1>2, <1>3, <1>7, <1>8 DEF Transferring
<1>10. (BetweenSegments /\ Preparing /\ AllDone)'
  BY <1>2 DEF BetweenSegments, Preparing, AllDone
<1>. QED  BY <1>4, <1>5, <1>6, <1>9, <1>10 DEF IInv

\* A byte is forwarded in its turn, and the counter wraps at the last of the segment
\* (main.cpp:171-203)
LEMMA ForwardIInv == IInv /\ Forward => IInv'
<1> SUFFICES ASSUME IInv, Forward PROVE IInv'  OBVIOUS
<1>0. TypeOK /\ DataInOrder /\ NoOverrun /\ SameCut /\ Transferring  BY DEF IInv
<1> DEFINE byte == rxBuffer[sendPos - RxBase]
<1>1. /\ fpc = "send" /\ sendPos' = sendPos + 1
      /\ i' = IF i = Radix - 1 THEN 0 ELSE i + 1
      /\ fpc' = IF i' = 0 THEN "segment" ELSE "pollLo"
      /\ target' = [target EXCEPT !.mem = Append(target.mem, byte),
                                  !.expect = target.expect - 1]
      /\ UNCHANGED <<size, hpc, sent, wire, fifo, overrun, replies, irq, rxBuffer,
                     rxBufPosL, rxBufPosH, bytesLeft, repeats, bufPosLo>>
  BY DEF Forward, hostVars, lineVars, isrVars
<1>2. /\ irq /\ (Asked \/ InFlight) /\ Taken \in 0 .. repeats /\ Taken < Received
      /\ Len(target.mem) = SegmentStart + Taken /\ Taken = sendPos - RxBase
      /\ target.expect = repeats + 1 - Taken /\ target.rpt = 0
      /\ i = Radix - 1 - repeats + Taken
  BY <1>0, <1>1 DEF Transferring, Taken
<1> HIDE DEF byte
<1>i. i = Radix - 1 - repeats + Taken /\ Taken < Received  BY <1>2
<1>n. /\ size \in Int /\ bytesLeft \in Nat /\ repeats \in Nat /\ repeats < Radix /\ Taken \in Nat
      /\ Taken <= repeats /\ Received \in Int /\ SegmentStart \in Int /\ Radix \in Nat
      /\ i \in Nat
  <2>1. repeats \in 0 .. Radix - 1 /\ i \in 0 .. Radix - 1  BY <1>0 DEF TypeOK
  <2>. QED  BY <1>0, <1>2, <2>1, Numbers, RadixAssumption
\* the byte read from the buffer is the next one of the block
<1>3. InFlight
  BY <1>0, <1>2, Numbers DEF Asked
<1>4. byte = Len(target.mem) + 1 /\ byte \in Bytes /\ Len(target.mem) + 1 <= size
  <2>1. Taken \in 0 .. Received - 1  BY <1>0, <1>2, Numbers
  <2>2. rxBuffer[Taken] = SegmentStart + Taken + 1  BY <1>3, <2>1 DEF InFlight
  <2>3. byte = SegmentStart + Taken + 1  BY <1>2, <2>2 DEF byte
  <2>4. SegmentStart + Taken + 1 <= size
    <3>1. SegmentStart = size - bytesLeft - (repeats + 1)  BY DEF SegmentStart
    <3>. QED  BY <1>n, <3>1
  <2>5. byte = Len(target.mem) + 1 /\ Len(target.mem) + 1 <= size
    BY <1>2, <2>3, <2>4
  <2>. QED  BY <1>0, <2>5, Numbers, MaxSizeAssumption DEF Bytes
<1>5. /\ target.mem \in Seq(Bytes) /\ target'.mem = Append(target.mem, byte)
      /\ target'.mem \in Seq(Bytes) /\ Len(target'.mem) = Len(target.mem) + 1
      /\ \A k \in 1 .. Len(target.mem) : target'.mem[k] = target.mem[k]
      /\ target'.mem[Len(target.mem) + 1] = byte
      /\ target'.rpt = 0 /\ target'.expect = repeats - Taken
  <2>1. target.mem \in Seq(Bytes)  BY <1>0 DEF TypeOK
  <2>2. target'.mem = Append(target.mem, byte) /\ target'.rpt = 0
        /\ target'.expect = target.expect - 1
    BY <1>0, <1>1, <1>2 DEF TypeOK
  <2>3. target'.expect = repeats - Taken  BY <1>0, <1>2, <2>2, Numbers
  <2>. QED  BY <1>4, <2>1, <2>2, <2>3, PutLast
<1>6. Received' = Received /\ SegmentStart' = SegmentStart /\ sendPos' - RxBase = Taken + 1
  <2>1. sendPos \in Nat  BY <1>0 DEF TypeOK
  <2>2. Received' = Received /\ SegmentStart' = SegmentStart
    BY <1>1 DEF Received, SegmentStart, rxBufPos, RxBase
  <2>3. RxBase \in Nat /\ Taken = sendPos - RxBase /\ sendPos' = sendPos + 1
    BY <1>0, <1>1, <1>2, Numbers
  <2>. QED  BY <2>1, <2>2, <2>3
<1>7. TypeOK'
  <2>1. i' \in 0 .. Radix - 1 /\ sendPos' \in Nat
    <3>1. i \in 0 .. Radix - 1 /\ sendPos \in Nat  BY <1>0 DEF TypeOK
    <3>2. i' = (IF i = Radix - 1 THEN 0 ELSE i + 1) /\ sendPos' = sendPos + 1  BY <1>1
    <3>. QED  BY <3>1, <3>2, RadixAssumption
  <2>2. repeats - Taken \in 0 .. Radix
    BY <1>n
  <2>3. target' \in [rpt : 0 .. Radix - 1, expect : 0 .. Radix, mem : Seq(Bytes)]
    BY <1>0, <1>1, <1>2, <1>5, <2>2, Numbers DEF TypeOK
  <2>. QED  BY <1>0, <1>1, <2>1, <2>3 DEF TypeOK
<1>8. (DataInOrder /\ NoOverrun)'
  <2>1. \A k \in 1 .. Len(target'.mem) : target'.mem[k] = k
    <3>1. \A k \in 1 .. Len(target.mem) : target'.mem[k] = k  BY <1>0, <1>5 DEF DataInOrder
    <3>2. \A k \in 1 .. Len(target'.mem) : k \in 1 .. Len(target.mem) \/ k = Len(target.mem) + 1
      BY <1>0, <1>5, Numbers
    <3>. QED  BY <1>4, <1>5, <3>1, <3>2
  <2>. QED  BY <1>0, <1>1, <1>4, <1>5, <2>1 DEF DataInOrder, NoOverrun
<1>9. CASE i' # 0
  <2>1. fpc' = "pollLo" /\ i' = i + 1  BY <1>1, <1>9
  <2>2. Taken # repeats
    <3>1. i # Radix - 1  BY <1>1, <1>9
    <3>. QED  BY <1>n, <1>i, <3>1
  <2>3. Taken' = Taken + 1  BY <1>6, <2>1 DEF Taken, RxBase
  <2>4. /\ Taken + 1 \in 0 .. repeats /\ Taken + 1 <= Received
        /\ SegmentStart + Taken + 1 = SegmentStart + (Taken + 1)
        /\ repeats - Taken = repeats + 1 - (Taken + 1)
        /\ i + 1 = Radix - 1 - repeats + (Taken + 1)
    <3>1. Taken + 1 \in 0 .. repeats  BY <1>n, <2>2
    <3>2. Taken + 1 <= Received  BY <1>n, <1>i
    <3>3. i + 1 = Radix - 1 - repeats + (Taken + 1)  BY <1>n, <1>i
    <3>. QED  BY <1>n, <3>1, <3>2, <3>3
  <2>5. InFlight'  BY <1>1, <1>3, <1>6 DEF InFlight
  <2>6. Transferring'
    BY <1>1, <1>2, <1>5, <1>6, <2>1, <2>3, <2>4, <2>5 DEF Transferring
  <2>7. SameCut'  BY <1>0, <1>1, <1>6 DEF SameCut
  <2>8. (BetweenSegments /\ Preparing /\ AllDone)'
    BY <2>1 DEF BetweenSegments, Preparing, AllDone
  <2>. QED  BY <1>7, <1>8, <2>6, <2>7, <2>8 DEF IInv
\* the counter wrapped: the last byte of the segment, hence of the packet
<1>10. CASE i' = 0
  <2>1. fpc' = "segment"  BY <1>1, <1>10
  <2>2. Taken = repeats
    <3>1. i = Radix - 1  BY <1>n, <1>1, <1>10
    <3>. QED  BY <1>n, <1>i, <3>1
  <2>3. /\ Len(fifo) = 0 /\ Len(wire) = 0 /\ fifo \in Seq(Bytes) /\ wire \in Seq(Bytes)
    <3>1. fifo \in Seq(Bytes) /\ wire \in Seq(Bytes)  BY <1>0 DEF TypeOK
    <3>2. Len(fifo) \in Nat /\ Len(wire) \in Nat  BY <3>1
    <3>3. Received + Len(fifo) + Len(wire) = repeats + 1  BY <1>3 DEF InFlight
    <3>4. Received \in Int /\ repeats \in Nat /\ repeats < Received  BY <1>n, <1>i, <2>2
    <3>. QED  BY <3>1, <3>2, <3>3, <3>4, NothingLeft
  <2>4. fifo = << >> /\ wire = << >>  BY <2>3
  <2>5. /\ Len(target'.mem) = SegmentStart + repeats + 1
        /\ SegmentStart + repeats + 1 = size - bytesLeft
        /\ bytesLeft = size - (SegmentStart + repeats + 1)
    <3>1. SegmentStart = size - bytesLeft - (repeats + 1)  BY DEF SegmentStart
    <3>2. Len(target'.mem) = SegmentStart + repeats + 1  BY <1>2, <1>5, <2>2
    <3>. QED  BY <1>n, <3>1, <3>2
  <2>6. target'.expect = 0  BY <1>0, <1>5, <2>2, Numbers
  <2>7. BetweenSegments'
    BY <1>1, <1>3, <1>5, <2>1, <2>4, <2>5, <2>6 DEF BetweenSegments, Settled, InFlight
  <2>8. (Preparing /\ SameCut /\ Transferring /\ AllDone)'
    BY <2>1 DEF Preparing, SameCut, Transferring, AllDone
  <2>. QED  BY <1>7, <1>8, <2>7, <2>8 DEF IInv
<1>. QED  BY <1>9, <1>10

\* The OK is sent when all bytes are stored
LEMMA EndBlockIInv == IInv /\ EndBlock => IInv'
<1> SUFFICES ASSUME IInv, EndBlock PROVE IInv'  OBVIOUS
<1>0. TypeOK /\ DataInOrder /\ NoOverrun /\ BetweenSegments  BY DEF IInv
<1>1. /\ fpc = "segment" /\ bytesLeft = 0 /\ fpc' = "idle" /\ irq' = FALSE
      /\ replies' = Append(replies, "ok")
      /\ UNCHANGED <<size, hpc, sent, wire, fifo, overrun, rxBuffer, rxBufPosL, rxBufPosH,
                     bytesLeft, repeats, i, sendPos, bufPosLo, target>>
  BY DEF EndBlock, hostVars, lineVars
<1>2. /\ bytesLeft = size - Len(target.mem) /\ Settled(Len(target.mem)) /\ replies = << >>
      /\ target.expect = 0
  BY <1>0, <1>1 DEF BetweenSegments
<1>3. replies' = <<"ok">>  BY <1>1, <1>2
<1>4. Len(target.mem) = size  BY <1>0, <1>1, <1>2, Numbers
<1>5. TypeOK'
  <2>1. replies' \in Seq({"ack", "ok"})  BY <1>3
  <2>. QED  BY <1>0, <1>1, <2>1 DEF TypeOK
<1>6. (DataInOrder /\ NoOverrun)'
  BY <1>0, <1>1 DEF DataInOrder, NoOverrun
<1>7. AllDone'
  BY <1>1, <1>2, <1>3, <1>4 DEF AllDone, Settled
<1>8. (BetweenSegments /\ Preparing /\ SameCut /\ Transferring)'
  BY <1>1 DEF BetweenSegments, Preparing, SameCut, Transferring
<1>. QED  BY <1>5, <1>6, <1>7, <1>8 DEF IInv

-------------------------------------------------------------------------------
(* The theorems *)

\* Every step preserves the invariant
LEMMA NextIInv == IInv /\ [Next]_vars => IInv'
<1> SUFFICES ASSUME IInv, [Next]_vars PROVE IInv'  OBVIOUS
<1>1. CASE SendPacket                   BY <1>1, SendPacketIInv
<1>2. CASE CheckResult                  BY <1>2, CheckResultIInv
<1>3. CASE Arrive                       BY <1>3, ArriveIInv
<1>4. CASE RxInterrupt                  BY <1>4, RxInterruptIInv
<1>5. CASE NextSegment                  BY <1>5, NextSegmentIInv
<1>6. CASE Repeat                       BY <1>6, RepeatIInv
<1>7. CASE ResetLo \/ ResetHi \/ Arm    BY <1>7, ResetIInv
<1>8. CASE SendAck                      BY <1>8, SendAckIInv
<1>9. CASE Store                        BY <1>9, StoreIInv
<1>10. CASE PollLo \/ PollHi            BY <1>10, PollIInv
<1>11. CASE Forward                     BY <1>11, ForwardIInv
<1>12. CASE EndBlock                    BY <1>12, EndBlockIInv
<1>13. CASE UNCHANGED vars
  <2>1. UNCHANGED <<size, hpc, sent, wire, fifo, overrun, replies, irq, rxBuffer, rxBufPosL,
                    rxBufPosH, fpc, bytesLeft, repeats, i, sendPos, bufPosLo, target>>
    BY <1>13 DEF vars, hostVars, lineVars, isrVars, fwVars
  <2>2. SegmentStart' = SegmentStart /\ Received' = Received /\ Taken' = Taken
        /\ rxBufPos' = rxBufPos
    BY <2>1 DEF SegmentStart, Received, Taken, rxBufPos, RxBase
  <2>3. (TypeOK /\ DataInOrder /\ NoOverrun)'
    BY <2>1 DEF IInv, TypeOK, DataInOrder, NoOverrun
  <2>4. (BetweenSegments /\ Preparing /\ SameCut /\ AllDone)'
    BY <2>1, <2>2 DEF IInv, BetweenSegments, Preparing, SameCut, AllDone, Settled
  <2>5. Transferring'
    BY <2>1, <2>2 DEF IInv, Transferring, Asked, InFlight, Settled
  <2>. QED  BY <2>3, <2>4, <2>5 DEF IInv
<1>. QED
  BY <1>1, <1>2, <1>3, <1>4, <1>5, <1>6, <1>7, <1>8, <1>9, <1>10, <1>11, <1>12, <1>13
     DEF Next, Host, Firmware

\* The inductive invariant holds in every reachable state.
THEOREM Accounted == Spec => []IInv
<1>. QED  BY InitIInv, NextIInv, PTL DEF Spec

\* Types: in particular bytesLeft and i, unsigned in main.cpp, never go below zero.
THEOREM TypeCorrect == Spec => []TypeOK
<1>1. IInv => TypeOK  BY DEF IInv
<1>. QED  BY <1>1, Accounted, PTL

\* For every block size, what the target has stored is a prefix of the block.
THEOREM InOrder == Spec => []DataInOrder
<1>1. IInv => DataInOrder  BY DEF IInv
<1>. QED  BY <1>1, Accounted, PTL

\* The interrupt stores inside rxBuffer whenever rxBuffer is as long as a segment.
THEOREM InBounds == Spec => []BufferBound
<1>1. IInv => BufferBound
  <2> SUFFICES ASSUME IInv, irq, fifo # << >> PROVE Received \in 0 .. BufSize - 1
    BY DEF BufferBound, Received
  <2>0. TypeOK  BY DEF IInv
  <2>1. Transferring /\ fpc \in {"store", "pollLo", "pollHi", "send"} /\ InFlight
    BY <2>0 DEF IInv, TypeOK, BetweenSegments, Preparing, Transferring, AllDone, Asked, Settled
  <2>2. fifo \in Seq(Bytes) /\ wire \in Seq(Bytes)  BY <2>0 DEF TypeOK
  <2>3. Len(fifo) \in Nat /\ Len(fifo) > 0 /\ Len(wire) \in Nat  BY <2>2
  <2>4. Received + Len(fifo) + Len(wire) = repeats + 1  BY <2>1 DEF InFlight
  <2>5. Taken \in 0 .. repeats /\ Taken <= Received  BY <2>1 DEF Transferring
  <2>6. repeats \in 0 .. Radix - 1  BY <2>0 DEF TypeOK
  <2>. QED
    BY <2>0, <2>3, <2>4, <2>5, <2>6, Numbers, RadixAssumption, BufSizeAssumption
<1>. QED  BY <1>1, Accounted, PTL

\* No byte is dropped by the UART, however shallow its FIFO is.
THEOREM NothingLost == Spec => []NoOverrun
<1>1. IInv => NoOverrun  BY DEF IInv
<1>. QED  BY <1>1, Accounted, PTL

\* The pointer is reset only while no byte can arrive.
THEOREM ResetUndisturbed == Spec => []QuietReset
<1>1. IInv => QuietReset
  BY DEF IInv, QuietReset, Preparing, Settled
<1>. QED  BY <1>1, Accounted, PTL

\* The target is always given exactly the bytes its ST instruction expects.
THEOREM FramingKept == Spec => []TargetFraming
<1>1. IInv => TargetFraming
  <2> SUFFICES ASSUME IInv PROVE TargetFraming  OBVIOUS
  <2>0. TypeOK  BY DEF IInv
  <2>1. fpc = "send" => target.expect > 0
    <3> SUFFICES ASSUME fpc = "send" PROVE target.expect > 0  OBVIOUS
    <3>1. Taken \in 0 .. repeats /\ target.expect = repeats + 1 - Taken
      BY DEF IInv, Transferring
    <3>. QED  BY <2>0, <3>1, Numbers
  <2>2. fpc \in {"segment", "repeat", "store", "idle"} => target.expect = 0
    BY DEF IInv, BetweenSegments, Preparing, Transferring, AllDone
  <2>. QED  BY <2>1, <2>2 DEF TargetFraming
<1>. QED  BY <1>1, Accounted, PTL

\* A block write does what BlockCopy promises: every step either adds the next byte of
\* the block to the target's memory, or reports a complete block, or is invisible.
THEOREM Refinement == Spec => Implements
<1>1. Init => Promise!Init
  BY DEF Init, Promise!Init
<1>2. IInv /\ [Next]_vars => [Promise!Next]_(Promise!vars)
  <2> SUFFICES ASSUME IInv, [Next]_vars PROVE [Promise!Next]_(Promise!vars)  OBVIOUS
  <2> USE DEF Promise!Next, Promise!vars, Promise!Copy, Promise!Report
  <2>0. TypeOK /\ IInv'  BY NextIInv DEF IInv
  <2>1. CASE Forward
    <3>1. /\ size' = size /\ hpc' = hpc
          /\ target'.mem = Append(target.mem, rxBuffer[sendPos - RxBase])
      BY <2>0, <2>1 DEF Forward, hostVars, TypeOK
    <3>2. target.mem \in Seq(Bytes) /\ target'.mem \in Seq(Bytes)
      BY <2>0 DEF IInv, TypeOK
    <3>3. Len(target'.mem) = Len(target.mem) + 1 /\ Len(target.mem) \in Nat
      BY <3>1, <3>2
    <3>4. target'.mem[Len(target.mem) + 1] = rxBuffer[sendPos - RxBase]
      BY <3>1, <3>2
    <3>5. Len(target'.mem) <= size /\ target'.mem[Len(target.mem) + 1] = Len(target.mem) + 1
      BY <2>0, <3>1, <3>3 DEF IInv, DataInOrder
    <3>6. Len(target.mem) < size  BY <2>0, <3>3, <3>5, Numbers
    <3>. QED  BY <3>1, <3>4, <3>5, <3>6
  <2>2. CASE CheckResult
    <3>2. Len(target.mem) = size  BY <2>2, OkEndsBlock DEF AllDone
    <3>. QED  BY <2>2, <3>2 DEF CheckResult
  <2>3. CASE SendPacket
    <3>1. hpc # "ok" /\ hpc' # "ok" /\ UNCHANGED <<size, target>>  BY <2>3 DEF SendPacket
    <3>. QED  BY <3>1
  <2>4. CASE Repeat \/ Store
    <3>1. target'.mem = target.mem /\ UNCHANGED <<size, hpc>>
      BY <2>0, <2>4 DEF Repeat, Store, hostVars, TypeOK
    <3>. QED  BY <3>1
  <2>5. CASE \/ Arrive \/ RxInterrupt \/ NextSegment \/ ResetLo \/ ResetHi \/ Arm
             \/ SendAck \/ PollLo \/ PollHi \/ EndBlock \/ UNCHANGED vars
    <3>1. UNCHANGED <<size, hpc, target>>
      BY <2>5 DEF Arrive, RxInterrupt, NextSegment, ResetLo, ResetHi, Arm, SendAck,
                  PollLo, PollHi, EndBlock, vars, hostVars
    <3>. QED  BY <3>1
  <2>. QED  BY <2>1, <2>2, <2>3, <2>4, <2>5 DEF Next, Host, Firmware
<1>. QED  BY <1>1, <1>2, Accounted, PTL DEF Spec, Promise!Spec, Implements

=============================================================================

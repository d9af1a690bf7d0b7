------------------------------ MODULE Programmer ------------------------------
(***************************************************************************)
(* The programmer's firmware, main.cpp: two nested loops that read one     *)
(* command byte each and run its handler.  A handler is written as the     *)
(* sequence of its steps, in the order of the code: what it sends and      *)
(* receives over serial, what can fail on the UPDI side, and where its     *)
(* failures go.  One action runs one kind of step.                         *)
(*                                                                         *)
(* The target is external.  What it does shows as the faults of a step:    *)
(*   "noack"      answers something else than an ACK                       *)
(*   "timeout"    answers nothing, and the handler checks the flag         *)
(*   "masked"     answers nothing, and the handler does not check the flag *)
(*   "error"      a register read or UPDI_STS the handler checks is bad    *)
(*   "rxerr"      a framing, parity or overrun error while reading         *)
(*   "erasefail"  the erase failed                                         *)
(*   "badstatus"  STATUSB is not zero when the link starts                 *)
(***************************************************************************)
EXTENDS SerialLink, SerialProtocol

CONSTANTS Segment,     \* 256: bytes of a block per UPDI REPEAT
          Largest,     \* sizes the controller sends are at most this
          Stray,       \* what a size made of other bytes stands for
          MemoryBytes  \* what the target's memory may hold

ASSUME SegmentAssumption == Segment \in Nat /\ Segment > 0
ASSUME SizesAssumption   == Largest \in Nat /\ Largest < 65536 /\ Stray \in Nat
ASSUME MemoryAssumption  == MemoryBytes \subseteq 0 .. 255 /\ MemoryBytes # {}

VARIABLE fw  \* the firmware's state, see FwInit

\* step 0 is "waiting for a command"; args are the parameter bytes read so far;
\* left is bytesLeft or size, seg the bytes of the current segment still to come,
\* toSend is serialBytesToSend.  answered is the last command that sent REPL_OK,
\* masked whether it did so though the target had stopped answering, and astray
\* whether, since the port was opened, a byte was taken for a command that was not
\* sent as one.
FwInit == fw = [loop |-> "main", cmd |-> CMD_NONE, step |-> 0, args |-> << >>,
                left |-> 0, seg |-> 0, toSend |-> 0, open |-> FALSE,
                nvmWrite |-> FALSE, sigAddr |-> FALSE,
                answered |-> CMD_NONE, masked |-> FALSE, astray |-> FALSE]

SigAddress == <<0, 17, 0>>      \* 0x001100, as config.cfg has it
Signature  == <<30, 151, 9>>    \* 0x1E9709
OtherBytes == <<255, 255, 255>> \* what another address holds

-------------------------------------------------------------------------------
(* The steps handlers are made of *)

Ack        == [op |-> "ack"]
Pad(n)     == [op |-> "pad", n |-> n]             \* serialBytesToSend = n
Recv(n)    == [op |-> "recv", n |-> n]
RecvSize(v)== [op |-> "size", into |-> v]
Updi(f)    == [op |-> "updi", faults |-> f]       \* talk to the target
Slow(f)    == [op |-> "slow", faults |-> f]       \* the same, and it may take long
Fetch(w, f)== [op |-> "fetch", what |-> w, faults |-> f]
Stream     == [op |-> "stream"]
Packets    == [op |-> "packets"]
Erase      == [op |-> "erase"]
Busy       == [op |-> "busy"]
Nvm(b)     == [op |-> "nvm", on |-> b]
Ok         == [op |-> "ok"]

TargetAck == Updi({"noack", "timeout", "masked"})   \* waitForACK
Stored    == Updi({"error", "timeout", "masked"})   \* UPDI_STS, or _GENERAL_ERROR
StatusB   == Updi({"error", "timeout"})             \* STATUSB is 0, or _GENERAL_ERROR

Start == << Ack, Pad(1), Updi({"timeout"}), Fetch("status", {"timeout", "badstatus"}),
            Slow({"timeout"}), Ack, Recv(3), Pad(3), TargetAck,
            Fetch("signature", {"timeout"}), Ok >>
Stop            == << Ack, Slow({"masked"}), Ok >>
SendBlock       == << Ack, RecvSize("left"), Packets, Ok >>
GetBlock        == << Ack, RecvSize("toSend"), Ack, Stream, Ok >>
GetByte         == << Pad(1), Ack, Recv(3), Ack, Fetch("byte", {"timeout"}), Ok >>
SendByte        == << Ack, Recv(3), Ack, TargetAck, Recv(1), Ack, TargetAck, Busy, Ok >>
SetAddr         == << Ack, Recv(3), Ack, TargetAck, Ok >>
FlashPageErase  == << Ack, Recv(3), Ack, RecvSize("left"), Ack, Recv(2),
                      Stored, Erase, Stored, Ok >>
EepromWriteEnable == << Ack, Stored, Nvm(TRUE), Ok >>
FlashWriteEnable  == << Ack, Stored, Nvm(TRUE), Ok >>
NvmWriteDisable   == << Ack, Stored, Nvm(FALSE), Ok >>
SetBaud   == << Ack, Recv(2), Ack, Recv(2), Ack, StatusB, Ok >>
ChipErase == << Ack, Updi({"error", "timeout", "masked"}), Slow({"erasefail", "masked"}), Ok >>
ResetTarget == << Ack, Slow({}), StatusB, Ok >>

Handlers == [cmd \in Commands |->
  CASE cmd = CMD_START            -> Start
    [] cmd = CMD_STOP             -> Stop
    [] cmd = CMD_SENDBLOCK        -> SendBlock
    [] cmd = CMD_GETBLOCK         -> GetBlock
    [] cmd = CMD_GETBYTE          -> GetByte
    [] cmd = CMD_SENDBYTE         -> SendByte
    [] cmd = CMD_SETADDR          -> SetAddr
    [] cmd = CMD_SETBAUD          -> SetBaud
    [] cmd = CMD_FLASH_PAGE_ERASE -> FlashPageErase
    [] cmd = CMD_CHIPERASE        -> ChipErase
    [] cmd = CMD_EEPROM_WR_EN     -> EepromWriteEnable
    [] cmd = CMD_FLASH_WR_EN      -> FlashWriteEnable
    [] cmd = CMD_NVM_WR_DIS       -> NvmWriteDisable
    [] cmd = CMD_RESETTGT         -> ResetTarget]

Running == fw.step # 0
Step == Handlers[fw.cmd][fw.step]
At(op) == Running /\ Step.op = op

\* The firmware sits in Serial::receive
Polling == ~Running \/ At("recv") \/ At("size")

\* The receive interrupt is armed: from the first ACK of a block to its end
Armed == At("packets") /\ fw.seg > 0

Goto(f, n) == [f EXCEPT !.step = n]
Advance == Goto(fw, fw.step + 1)

-------------------------------------------------------------------------------
(* Waiting for a command *)

\* Mutant: START is not a command of the inner loop
AcceptsNoRestart(b) ==
  IF fw.loop = "main" THEN b = CMD_START ELSE b \in Commands \ {CMD_START}

Accepts(b) == IF fw.loop = "main" THEN b = CMD_START ELSE b \in Commands

Judge(b) == fw.astray \/ (~b.cmd /\ Accepts(b.val))

ReceiveCommand ==
  /\ ~Running /\ toProg # << >>
  /\ toProg' = Tail(toProg)
  /\ LET b == Head(toProg)
     IN  \/ /\ Accepts(b.val)
            /\ fw' = [fw EXCEPT !.cmd = b.val, !.step = 1, !.args = << >>,
                                !.masked = FALSE, !.astray = Judge(b),
                                !.nvmWrite = @ /\ b.val # CMD_START]
            /\ UNCHANGED toHost
         \/ /\ ~Accepts(b.val)
            /\ Reply(<<REPL_INVALID>>)
            /\ UNCHANGED fw
  /\ UNCHANGED <<portOpen, faults>>

\* The handler is left for one of the loops: a timeout before the link is open goes
\* to the main loop, everything else to the command loop
Leave(reply) ==
  fw' = [fw EXCEPT !.step = 0, !.toSend = 0, !.left = 0, !.seg = 0, !.args = << >>,
                   !.loop = IF reply = REPL_TIMEOUT /\ ~fw.open THEN "main" ELSE "cmd"]

\* Mutant: only the reason is sent
FailUnpadded(reply) ==
  /\ Reply(<<reply>>)
  /\ Leave(reply)

\* The error exits: the bytes the controller still expects are sent as zeros, then
\* the reason
Fail(reply) ==
  /\ Reply([k \in 1 .. fw.toSend |-> 0] \o <<reply>>)
  /\ Leave(reply)

ReplyFor == [kind \in {"noack", "timeout", "error", "rxerr", "erasefail"} |->
  CASE kind = "noack"     -> REPL_UPDINOACK
    [] kind = "timeout"   -> REPL_TIMEOUT
    [] kind = "error"     -> REPL_ERROR
    [] kind = "rxerr"     -> REPL_UPDIRXERR
    [] kind = "erasefail" -> REPL_ERASEFAIL]

-------------------------------------------------------------------------------
(* Running a handler *)

SendAck ==
  /\ At("ack")
  /\ Reply(<<REPL_ACK>>)
  /\ fw' = Advance
  /\ UNCHANGED <<toProg, portOpen, faults>>

SetPadding ==
  /\ At("pad")
  /\ fw' = [Advance EXCEPT !.toSend = Step.n]
  /\ UNCHANGED linkVars

ReceiveArgument ==
  /\ At("recv") /\ toProg # << >>
  /\ toProg' = Tail(toProg)
  /\ LET args == Append(fw.args, Head(toProg).val)
     IN  fw' = IF Len(args) < Step.n
                 THEN [fw EXCEPT !.args = args]
                 ELSE [Advance EXCEPT !.args = << >>, !.sigAddr = args = SigAddress]
  /\ UNCHANGED <<toHost, portOpen, faults>>

\* Mutant: the two bytes are taken in the other order
SizeOfSwapped(lo, hi) == IF hi + 256 * lo <= Largest THEN hi + 256 * lo ELSE Stray

SizeOf(lo, hi) == IF lo + 256 * hi <= Largest THEN lo + 256 * hi ELSE Stray

\* Low byte first: the order the release build evaluates receive() | receive() << 8 in
ReceiveSize ==
  /\ At("size") /\ toProg # << >>
  /\ toProg' = Tail(toProg)
  /\ LET b    == Head(toProg).val
         size == SizeOf(fw.args[1], b)
     IN  fw' = IF fw.args = << >> THEN [fw EXCEPT !.args = <<b>>]
               ELSE [Advance EXCEPT !.args = << >>,
                                    !.left   = IF Step.into = "left" THEN size ELSE @,
                                    !.toSend = IF Step.into = "toSend" THEN size ELSE @]
  /\ UNCHANGED <<toHost, portOpen, faults>>

\* A step that talks to the target succeeds, or fails in one of its ways; where the
\* code does not look at the timeout flag, a dead target passes for a live one
TalkToTarget ==
  /\ At("updi") \/ At("slow")
  /\ UNCHANGED <<toProg, portOpen>>
  /\ \/ fw' = Advance /\ UNCHANGED <<toHost, faults>>
     \/ /\ "masked" \in Step.faults /\ Fault("masked")
        /\ fw' = [Advance EXCEPT !.masked = TRUE]
        /\ UNCHANGED toHost
     \/ \E kind \in Step.faults \ {"masked"} :
          Fault(kind) /\ Fail(ReplyFor[kind])

Fetched(what) ==
  CASE what = "status"    -> {<<0>>}
    [] what = "signature" -> {IF fw.sigAddr THEN Signature ELSE OtherBytes}
    [] what = "byte"      -> {<<b>> : b \in MemoryBytes}

\* What the UPDI receiver returns when nothing arrives is whatever it last held
Garbage(what) == Fetched(what) \cup (IF what = "signature" THEN {OtherBytes} ELSE {<<255>>})

\* Mutant: serialBytesToSend is not reset when the bytes have been sent
FetchKeepsPadding ==
  /\ At("fetch")
  /\ UNCHANGED <<toProg, portOpen>>
  /\ \/ \E bytes \in Fetched(Step.what) : Reply(bytes) /\ fw' = Advance /\ UNCHANGED faults
     \/ /\ Fault("timeout")
        /\ \E bytes \in Garbage(Step.what) : Reply(bytes \o <<REPL_TIMEOUT>>)
        /\ Leave(REPL_TIMEOUT)

\* The bytes are sent before the timeout flag is looked at, so nothing is left to pad
FetchFromTarget ==
  /\ At("fetch")
  /\ UNCHANGED <<toProg, portOpen>>
  /\ \/ /\ \E bytes \in Fetched(Step.what) : Reply(bytes)
        /\ fw' = [Advance EXCEPT !.toSend = 0] /\ UNCHANGED faults
     \/ /\ "badstatus" \in Step.faults /\ Fault("badstatus")
        /\ Reply(<<1>>)
        /\ fw' = [Advance EXCEPT !.toSend = 0]
     \/ /\ Fault("timeout")
        /\ \E bytes \in Garbage(Step.what) : Reply(bytes \o <<REPL_TIMEOUT>>)
        /\ Leave(REPL_TIMEOUT)

\* GETBLOCK: one byte of the block, or the end of it
StreamByte ==
  /\ At("stream") /\ fw.toSend > 0
  /\ UNCHANGED <<toProg, portOpen>>
  /\ \/ /\ \E b \in MemoryBytes : Reply(<<b>>)
        /\ fw' = [fw EXCEPT !.toSend = @ - 1] /\ UNCHANGED faults
     \/ Fault("rxerr") /\ Fail(REPL_UPDIRXERR)
     \/ /\ Fault("timeout")
        /\ Reply([k \in 1 .. fw.toSend |-> IF k = 1 THEN 255 ELSE 0] \o <<REPL_TIMEOUT>>)
        /\ Leave(REPL_TIMEOUT)

StreamEnd ==
  /\ At("stream") /\ fw.toSend = 0
  /\ fw' = Advance
  /\ UNCHANGED linkVars

\* Mutant: the block is asked for as a whole
AskForBlock ==
  /\ At("packets") /\ fw.seg = 0 /\ fw.left > 0
  /\ fw' = [fw EXCEPT !.seg = fw.left, !.left = 0]
  /\ Reply(<<REPL_ACK>>)
  /\ UNCHANGED <<toProg, portOpen, faults>>

\* SENDBLOCK: ask for a segment, forward its bytes one by one, end.  How a segment
\* gets through the interrupt's buffer is BlockWrite's subject.
AskForSegment ==
  /\ At("packets") /\ fw.seg = 0 /\ fw.left > 0
  /\ LET n == IF fw.left > Segment THEN Segment ELSE fw.left
     IN  fw' = [fw EXCEPT !.seg = n, !.left = @ - n]
  /\ Reply(<<REPL_ACK>>)
  /\ UNCHANGED <<toProg, portOpen, faults>>

ForwardByte ==
  /\ At("packets") /\ fw.seg > 0 /\ toProg # << >>
  /\ toProg' = Tail(toProg)
  /\ fw' = [fw EXCEPT !.seg = @ - 1]
  /\ UNCHANGED <<toHost, portOpen, faults>>

\* Until it is disarmed the interrupt takes whatever arrives
EndPackets ==
  /\ At("packets") /\ fw.seg = 0 /\ fw.left = 0
  /\ fw' = Advance
  /\ \E k \in 0 .. Len(toProg) : toProg' = SubSeq(toProg, k + 1, Len(toProg))
  /\ UNCHANGED <<toHost, portOpen, faults>>

\* Mutant: a page that fails is reported, and the next one erased
ErasePageGoesOn ==
  /\ At("erase") /\ fw.left > 0
  /\ fw' = [fw EXCEPT !.left = @ - 1]
  /\ UNCHANGED <<toProg, portOpen>>
  /\ \/ Reply(<<REPL_ACK>>) /\ UNCHANGED faults
     \/ \E kind \in {"noack", "timeout"} : Fault(kind) /\ Reply(<<ReplyFor[kind]>>)

\* FLASH_PAGE_ERASE: one page, then an ACK to keep the controller waiting
ErasePage ==
  /\ At("erase") /\ fw.left > 0
  /\ UNCHANGED <<toProg, portOpen>>
  /\ \/ fw' = [fw EXCEPT !.left = @ - 1] /\ Reply(<<REPL_ACK>>) /\ UNCHANGED faults
     \/ \E kind \in {"noack", "timeout"} : Fault(kind) /\ Fail(ReplyFor[kind])

EraseEnd ==
  /\ At("erase") /\ fw.left = 0
  /\ fw' = Advance
  /\ UNCHANGED linkVars

\* SENDBYTE: wait for the NVM only when writing to it
WaitNotBusy ==
  /\ At("busy")
  /\ \/ fw' = Advance /\ UNCHANGED faults
     \/ fw.nvmWrite /\ Fault("masked") /\ fw' = [Advance EXCEPT !.masked = TRUE]
  /\ UNCHANGED <<toProg, toHost, portOpen>>

SetNvmWrite ==
  /\ At("nvm")
  /\ fw' = [Advance EXCEPT !.nvmWrite = Step.on]
  /\ UNCHANGED linkVars

\* Mutant: STOP does not close the link
ReplyOkLeavesOpen ==
  /\ At("ok")
  /\ Reply(<<REPL_OK>>)
  /\ fw' = [fw EXCEPT !.step = 0, !.answered = fw.cmd,
                      !.loop = IF fw.cmd = CMD_STOP THEN "main" ELSE "cmd",
                      !.open = @ \/ fw.cmd = CMD_START]
  /\ UNCHANGED <<toProg, portOpen, faults>>

ReplyOk ==
  /\ At("ok")
  /\ Reply(<<REPL_OK>>)
  /\ fw' = [fw EXCEPT !.step = 0, !.answered = fw.cmd,
                      !.loop = IF fw.cmd = CMD_STOP THEN "main" ELSE "cmd",
                      !.open = IF fw.cmd = CMD_STOP THEN FALSE
                               ELSE @ \/ fw.cmd = CMD_START]
  /\ UNCHANGED <<toProg, portOpen, faults>>

-------------------------------------------------------------------------------
FwNext ==
  \/ ReceiveCommand
  \/ SendAck \/ SetPadding \/ ReceiveArgument \/ ReceiveSize
  \/ TalkToTarget \/ FetchFromTarget
  \/ StreamByte \/ StreamEnd
  \/ AskForSegment \/ ForwardByte \/ EndPackets
  \/ ErasePage \/ EraseEnd
  \/ WaitNotBusy \/ SetNvmWrite \/ ReplyOk
=============================================================================

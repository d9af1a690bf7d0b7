--------------------------- MODULE SessionInvariant ---------------------------
(***************************************************************************)
(* Why the two sides of Session stay in step: the invariant behind its     *)
(* safety properties, which are not inductive themselves.                  *)
(*                                                                         *)
(* Both sides know the protocol, so the place each has reached says how    *)
(* many bytes it has read and written since the call began.  What one has  *)
(* written and the other has not read is in flight: in a clean session     *)
(* exactly that, after a loss at most that.                                *)
(***************************************************************************)
EXTENDS Session

Once(holds) == IF holds THEN 1 ELSE 0

-------------------------------------------------------------------------------
(* How far the controller is *)

\* write_block: the bytes of the first k packets
Upto(k, n) == IF PacketSize * k <= n THEN PacketSize * k ELSE n
PacketCount(n) == n \div PacketSize + Once(n % PacketSize # 0)

\* Bytes a call has read before its step a: its command's ACK, and those of its body
BodyRead(call, a) ==
  CASE call.cmd = CMD_START -> Once(a > 3) + Once(a > 4) + 3 * Once(a > 6)
    [] call.cmd \in {CMD_SETBAUD, CMD_SENDBYTE} -> Once(a > 4) + Once(a > 6)
    [] call.cmd = CMD_SETADDR   -> Once(a > 4)
    [] call.cmd = CMD_GETBYTE   -> Once(a > 4) + Once(a > 5)
    [] call.cmd = CMD_GETBLOCK  -> Once(a > 4) + IF a > 5 THEN call.n ELSE 0
    [] call.cmd = CMD_SENDBLOCK -> IF a > 4 THEN (a - 3) \div 2 ELSE 0
    [] call.cmd = CMD_FLASH_PAGE_ERASE ->
         Once(a > 4) + Once(a > 6) + IF a > 8 THEN a - 8 ELSE 0
    [] OTHER -> 0

HasRead(call, a) == Once(a > 2) + BodyRead(call, a)

\* Bytes it has written before its step a: the command, and those of its body
BodyWritten(call, a) ==
  CASE call.cmd = CMD_START -> 3 * Once(a > 5)
    [] call.cmd = CMD_SETBAUD -> 2 * Once(a > 3) + 2 * Once(a > 5)
    [] call.cmd \in {CMD_SETADDR, CMD_GETBYTE} -> 3 * Once(a > 3)
    [] call.cmd = CMD_SENDBYTE  -> 3 * Once(a > 3) + Once(a > 5)
    [] call.cmd = CMD_GETBLOCK  -> 2 * Once(a > 3)
    [] call.cmd = CMD_SENDBLOCK ->
         2 * Once(a > 3) + IF a > 5 THEN Upto((a - 4) \div 2, call.n) ELSE 0
    [] call.cmd = CMD_FLASH_PAGE_ERASE ->
         3 * Once(a > 3) + 2 * Once(a > 5) + 2 * Once(a > 7)
    [] OTHER -> 0

HasWritten(call, a) == Once(a > 1) + BodyWritten(call, a)

LastStep(call) == Len(Steps(call))

\* The step looks at one reply, and the call does not survive a wrong one
Judges(call, a) == Steps(call)[a].do \in {"ack", "progmode", "result"}

-------------------------------------------------------------------------------
(* How far the programmer is *)

\* The round of a handler's loop is counted apart: segments asked for, bytes streamed,
\* pages erased
Rounds(call) == CASE call.cmd = CMD_SENDBLOCK -> PacketCount(call.n)
                  [] call.cmd \in {CMD_GETBLOCK, CMD_FLASH_PAGE_ERASE} -> call.n
                  [] OTHER -> 0

LoopStep(cmd) == CASE cmd = CMD_SENDBLOCK -> 3
                   [] cmd = CMD_GETBLOCK  -> 4
                   [] cmd = CMD_FLASH_PAGE_ERASE -> 8
                   [] OTHER -> 0

\* Bytes sent before step s, and outside of the loop
HasSent(cmd, s) ==
  CASE cmd = CMD_START    -> Once(s > 1) + Once(s > 4) + Once(s > 6) + 3 * Once(s > 10)
    [] cmd \in {CMD_SETBAUD, CMD_FLASH_PAGE_ERASE} -> Once(s > 1) + Once(s > 3) + Once(s > 5)
    [] cmd \in {CMD_SETADDR, CMD_GETBLOCK} -> Once(s > 1) + Once(s > 3)
    [] cmd = CMD_GETBYTE  -> Once(s > 2) + Once(s > 4) + Once(s > 5)
    [] cmd = CMD_SENDBYTE -> Once(s > 1) + Once(s > 3) + Once(s > 6)
    [] OTHER -> Once(s > 1)

\* Bytes received before step s, and outside of the loop: the command, and these
Parameters(cmd, s) ==
  CASE cmd = CMD_START    -> 3 * Once(s > 7)
    [] cmd = CMD_SETBAUD  -> 2 * Once(s > 2) + 2 * Once(s > 4)
    [] cmd = CMD_SETADDR  -> 3 * Once(s > 2)
    [] cmd = CMD_GETBYTE  -> 3 * Once(s > 3)
    [] cmd = CMD_SENDBYTE -> 3 * Once(s > 2) + Once(s > 5)
    [] cmd \in {CMD_GETBLOCK, CMD_SENDBLOCK} -> 2 * Once(s > 2)
    [] cmd = CMD_FLASH_PAGE_ERASE -> 3 * Once(s > 2) + 2 * Once(s > 4) + 2 * Once(s > 6)
    [] OTHER -> 0

HasGot(cmd, s) == 1 + Parameters(cmd, s)

\* The zeros a failure is padded with (main.cpp:566), except in GETBLOCK
Owes(cmd, s) ==
  CASE cmd = CMD_START   -> IF s \in {3, 4} THEN 1 ELSE IF s \in {9, 10} THEN 3 ELSE 0
    [] cmd = CMD_GETBYTE -> Once(s \in 2 .. 5)
    [] OTHER -> 0

MaxSize == Largest + Stray

\* The programmer on its own, whatever it is sent
FwTypes ==
  /\ fw \in [loop : {"main", "cmd"}, cmd : Commands \cup {CMD_NONE}, step : Nat,
             args : Seq(0 .. 255), left : 0 .. MaxSize, seg : 0 .. Segment,
             toSend : 0 .. MaxSize + 3, open : BOOLEAN, nvmWrite : BOOLEAN,
             sigAddr : BOOLEAN, answered : Commands \cup {CMD_NONE},
             masked : BOOLEAN, astray : BOOLEAN]
  /\ Running => fw.cmd \in Commands /\ fw.step \in DOMAIN Handlers[fw.cmd]

FwOwes ==
  /\ ~Running => fw.toSend = 0
  /\ Running => \/ fw.cmd = CMD_GETBLOCK /\ fw.step \in {3, 4} /\ fw.toSend <= MaxSize
                \/ fw.toSend = Owes(fw.cmd, fw.step)

FwHolds ==
  /\ fw.args # << >> => \/ At("recv") /\ Len(fw.args) < Step.n
                        \/ At("size") /\ Len(fw.args) = 1
  /\ fw.left # 0 => \/ At("packets")
                    \/ Running /\ fw.cmd = CMD_FLASH_PAGE_ERASE /\ fw.step \in 5 .. 8
  /\ fw.seg # 0 => At("packets")

-------------------------------------------------------------------------------
(* In step *)

\* What was counted on one side has arrived on the other, unless it was lost
Level(got, sent) == got <= sent /\ (host.clean => got = sent)

\* The firmware is in the loop it must be in when the link is open
Open == host.pos > 1 => fw.open /\ fw.loop = "cmd"

\* The call has not reached the programmer
Fresh(call) ==
  /\ ~Running /\ toHost = << >> /\ Open
  /\ \/ host.at = 1 /\ toProg = << >>
     \/ host.at = 2 /\ toProg = <<[val |-> call.cmd, cmd |-> TRUE]>>
     \/ host.at = 2 /\ toProg = << >> /\ ~host.clean

\* The handler has been through j rounds of its loop
Looped(call, j) ==
  /\ fw.step < LoopStep(call.cmd) => j = 0
  /\ fw.step > LoopStep(call.cmd) => j = Rounds(call)
  /\ fw.step = LoopStep(call.cmd) =>
       CASE call.cmd = CMD_SENDBLOCK -> fw.left = call.n - Upto(j, call.n)
         [] call.cmd = CMD_GETBLOCK  -> fw.toSend = call.n - j
         [] call.cmd = CMD_FLASH_PAGE_ERASE -> fw.left = call.n - j
         [] OTHER -> TRUE

\* The size is the call's: on its way, or taken
SizeIsCalls(call) ==
  LET size == Word(call.n)
  IN  /\ At("size") =>
           /\ fw.args = << >> /\ Len(toProg) = 2 =>
                toProg[1].val = size[1] /\ toProg[2].val = size[2]
           /\ fw.args # << >> /\ Len(toProg) = 1 =>
                fw.args[1] = size[1] /\ toProg[1].val = size[2]
      /\ call.cmd = CMD_GETBLOCK /\ fw.step = 3 => fw.toSend = call.n
      /\ call.cmd = CMD_FLASH_PAGE_ERASE /\ fw.step \in 5 .. 7 => fw.left = call.n

BlockGot(call, j) == IF call.cmd = CMD_SENDBLOCK THEN Upto(j, call.n) - fw.seg ELSE 0

Counted(call, j) ==
  /\ Level(HasRead(call, host.at) + Len(toHost), HasSent(call.cmd, fw.step) + j)
  /\ Level(HasGot(call.cmd, fw.step) + Len(fw.args) + BlockGot(call, j) + Len(toProg),
           HasWritten(call, host.at))

\* No command is on its way
OnlyData == \A i \in DOMAIN toProg : ~toProg[i].cmd

\* Its handler runs
Underway(call) ==
  /\ Running /\ fw.cmd = call.cmd /\ Open
  /\ \E j \in 0 .. Rounds(call) : Looped(call, j) /\ Counted(call, j)
  /\ SizeIsCalls(call) /\ OnlyData

\* All is read and written up to the reply at step b
Until(call, b) ==
  /\ HasWritten(call, host.at) = HasWritten(call, b)
  /\ Level(HasRead(call, host.at) + Len(toHost), HasRead(call, b) + 1)

\* That reply has come, and is the last byte under way
LastIs(call, b) == HasRead(call, host.at) + Len(toHost) = HasRead(call, b) + 1
LastByte == toHost[Len(toHost)]

IsBad(b) == b \notin {REPL_ACK, REPL_OK}

\* REPL_OK was sent
Done(call) ==
  /\ ~Running /\ toProg = << >>
  /\ fw.answered = call.cmd
  /\ fw.open = (call.cmd # CMD_STOP)
  /\ fw.loop = IF call.cmd = CMD_STOP THEN "main" ELSE "cmd"
  /\ Until(call, LastStep(call))
  /\ LastIs(call, LastStep(call)) => LastByte = REPL_OK

\* A failure was sent, where the controller waits for an ACK or for the result
Failed(call) ==
  /\ ~Running /\ toProg = << >> /\ Open
  /\ \E b \in host.at .. LastStep(call) :
       Judges(call, b) /\ Until(call, b) /\ (LastIs(call, b) => IsBad(LastByte))

\* SENDBYTE failed after it asked for its byte (main.cpp:316): the byte may come to be
\* run as a command, but the failure is on its way before anything that command sends
ByteFailed(call) ==
  LET k == IF host.at = 4 THEN 2 ELSE 1
  IN  /\ call.cmd = CMD_SENDBYTE /\ host.at \in 4 .. 6
      /\ Len(toProg) <= Once(host.at = 6) /\ OnlyData
      /\ host.clean => Len(toHost) >= k /\ IsBad(toHost[k])
      /\ ~fw.astray => /\ ~Running /\ Open
                       /\ \A i \in k .. Len(toHost) : IsBad(toHost[i])

\* A command is acknowledged first, and a page erase sends ACKs up to its result
Acks(call) ==
  host.clean =>
    \A i \in 1 .. Len(toHost) :
      /\ call.cmd = CMD_FLASH_PAGE_ERASE \/ HasRead(call, host.at) + i = 1
      /\ Running \/ i < Len(toHost)
      => toHost[i] = REPL_ACK

Phase(call) == Fresh(call) \/ Underway(call) \/ Done(call) \/ Failed(call) \/ ByteFailed(call)

InStep(call) ==
  /\ Phase(call)
  /\ host.at = 1 => Fresh(call)
  /\ Acks(call)

-------------------------------------------------------------------------------
(* Starting: the programmer may be anywhere when a session begins *)

IsStart(b) == b = [val |-> CMD_START, cmd |-> TRUE]

InSignature == Running /\ fw.cmd = CMD_START /\ fw.step \in 8 .. 10
Closing     == Running /\ fw.cmd = CMD_START /\ fw.step = 11
Synced      == fw.open /\ fw.loop = "cmd" /\ fw.answered = CMD_START

\* Only STARTs are sent until the address of the signature is
StartsSent ==
  \A i \in 1 .. Len(toProg) - (IF host.at > 5 THEN 3 ELSE 0) : IsStart(toProg[i])

\* A START that has begun to wait for the address gets it whole, or gets STARTs first:
\* what it may hold of an older session's is not followed by an address
AddressAhead ==
  Running /\ fw.cmd = CMD_START /\ fw.step = 7 /\ (toHost # << >> \/ host.at > 2) =>
    \A i \in 1 .. Len(fw.args) + Len(toProg) - (IF host.at > 5 THEN 3 ELSE 0) :
      IF i <= Len(fw.args) THEN fw.args[i] = CMD_START ELSE IsStart(toProg[i - Len(fw.args)])

AddressTaken == InSignature /\ fw.sigAddr => host.at = 6 /\ toProg = << >>

\* The first byte of the signature comes from this START alone
SignatureComes ==
  \A i \in DOMAIN toHost : toHost[i] = DeviceSignature[1] =>
    /\ host.at = 6 /\ toProg = << >>
    /\ \/ Closing /\ Len(toHost) - i <= 2
       \/ /\ ~Running /\ Len(toHost) - i <= 3
          /\ Len(toHost) - i = 3 => IF LastByte = REPL_OK THEN Synced
                                    ELSE LastByte = REPL_TIMEOUT

SignatureRead ==
  host.at = 7 =>
    /\ toProg = << >>
    /\ \/ Closing /\ toHost = << >>
       \/ /\ ~Running /\ Len(toHost) <= 1
          /\ toHost # << >> => IF toHost[1] = REPL_OK THEN Synced ELSE toHost[1] = REPL_TIMEOUT

Starting ==
  StartsSent /\ AddressAhead /\ AddressTaken /\ SignatureComes /\ SignatureRead

-------------------------------------------------------------------------------
(* The invariant *)

\* What a session left behind does not overrun the programmer
Leftovers == ~InSession /\ host.clean =>
               \/ Len(toProg) <= 3
               \/ At("packets") /\ Len(toProg) <= fw.seg

\* The two sides are in step: a call that has started from a started session gets its
\* answer and nothing else, however it fails, and START finds the programmer wherever an
\* older session left it
SessionInv ==
  /\ TypeOK
  /\ FwTypes /\ FwOwes /\ FwHolds
  /\ InSession /\ ~Disoriented =>
       /\ host.pos = 1 => Starting
       /\ host.clean \/ host.pos > 1 => InStep(Current)
  /\ Leftovers
  /\ OkIsOwn
=============================================================================

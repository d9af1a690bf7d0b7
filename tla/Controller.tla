------------------------------ MODULE Controller ------------------------------
(***************************************************************************)
(* The controller program, from the programmer's point of view: class      *)
(* FastUPDI, and the session loop of main.cpp that calls it.  A session is *)
(* a job, the sequence of calls that START, the staged operations and STOP *)
(* make; a call is the sequence of its reads and writes on the port.       *)
(*                                                                         *)
(* Serial::Read waits for all the bytes it is asked for, or for a timeout; *)
(* it then succeeds if it got any byte at all.  Whether a timeout can      *)
(* expire depends on the programmer, so Session says when it does.         *)
(***************************************************************************)
EXTENDS SerialLink, SerialProtocol, FiniteSets

CONSTANTS Jobs,           \* sequences of calls a session may make
          StartAttempts,  \* g_config.startAttempts
          PacketSize,     \* data_packet_size
          DataBytes       \* values of the bytes of images, addresses, rates and steps

ASSUME StartAttemptsAssumption == StartAttempts \in Nat /\ StartAttempts > 0
ASSUME PacketAssumption == PacketSize \in Nat /\ PacketSize > 0
ASSUME DataAssumption   == DataBytes \subseteq 0 .. 255 /\ DataBytes # {}

\* What an operation between START and STOP is made of
Operating == {CMD_SETBAUD, CMD_SETADDR, CMD_GETBYTE, CMD_SENDBYTE, CMD_GETBLOCK,
              CMD_SENDBLOCK, CMD_FLASH_PAGE_ERASE, CMD_CHIPERASE, CMD_EEPROM_WR_EN,
              CMD_FLASH_WR_EN, CMD_NVM_WR_DIS}

\* START first and STOP last; a block that is read has at least one byte
IsJob(job) ==
  /\ job \in Seq([cmd : Operating \cup {CMD_START, CMD_STOP}, n : Nat])
  /\ Len(job) > 1 /\ job[1].cmd = CMD_START /\ job[Len(job)].cmd = CMD_STOP
  /\ \A k \in 2 .. Len(job) - 1 : job[k].cmd \in Operating
  /\ \A k \in DOMAIN job : job[k].cmd = CMD_GETBLOCK => job[k].n > 0

ASSUME JobsAssumption == \A job \in Jobs : IsJob(job)

VARIABLE host  \* the controller's state, see HostInit

\* pos and at say which call of the job and which step of it comes next; at = 1 is
\* "between calls".  tries counts the attempts to start.  clean is true as long as
\* the session began with an idle programmer and no byte was lost nor a read given
\* up; fooled records that a call took an OK that was not its own, skipped that the
\* session went on after a call that failed.
HostInit == host = [job |-> << >>, pos |-> 1, at |-> 1, tries |-> 0,
                    clean |-> TRUE, fooled |-> FALSE, skipped |-> FALSE]

Call(cmd)    == [cmd |-> cmd, n |-> 0]
Block(cmd, n)== [cmd |-> cmd, n |-> n]

-------------------------------------------------------------------------------
(* The steps calls are made of *)

Issue     == [do |-> "issue"]                 \* initiate_cmd: the command byte
WaitAck   == [do |-> "ack"]                   \* wait_cmd_ACK and the ACK of initiate_cmd
Write(b)  == [do |-> "write", bytes |-> b]
WriteData(n) == [do |-> "data", n |-> n]      \* n bytes of an image, an address, a rate, a step
Read(n)   == [do |-> "read", n |-> n]
ReadStatus   == [do |-> "status"]
ReadProgmode == [do |-> "progmode"]
ReadSignature == [do |-> "signature"]
Result    == [do |-> "result"]                \* check_cmd_result

DeviceSignatureAddress == <<0, 17, 0>>
DeviceSignature == <<30, 151, 9>>
Word(n) == <<n % 256, n \div 256>>  \* I16TOBUF

\* write_block: the block in packets, each after an ACK
PacketsOf(n) ==
  LET full == n \div PacketSize
      last == n % PacketSize
      Packet(k) == IF k % 2 = 1 THEN WaitAck
                   ELSE WriteData(IF k \div 2 <= full THEN PacketSize ELSE last)
  IN  [k \in 1 .. 2 * (full + IF last = 0 THEN 0 ELSE 1) |-> Packet(k)]

\* Mutant: the four bytes of the rate in one write
SetBaudBodyAtOnce == << WriteData(4), WaitAck, WaitAck >>

StartBody      == << ReadStatus, ReadProgmode, Write(DeviceSignatureAddress), ReadSignature >>
SetBaudBody    == << WriteData(2), WaitAck, WriteData(2), WaitAck >>
SetAddressBody == << WriteData(3), WaitAck >>
ReadByteBody   == << WriteData(3), WaitAck, Read(1) >>
WriteByteBody  == << WriteData(3), WaitAck, WriteData(1), WaitAck >>
ReadBlockBody(n)  == << Write(Word(n)), WaitAck, Read(n) >>
WriteBlockBody(n) == << Write(Word(n)) >> \o PacketsOf(n)
PageEraseBody(n)  == << WriteData(3), WaitAck, Write(Word(n)), WaitAck, WriteData(2) >>
                       \o [k \in 1 .. n |-> WaitAck]

\* The others are a command and its result
Body(call) ==
  CASE call.cmd = CMD_START     -> StartBody
    [] call.cmd = CMD_SETBAUD   -> SetBaudBody
    [] call.cmd = CMD_SETADDR   -> SetAddressBody
    [] call.cmd = CMD_GETBYTE   -> ReadByteBody
    [] call.cmd = CMD_SENDBYTE  -> WriteByteBody
    [] call.cmd = CMD_GETBLOCK  -> ReadBlockBody(call.n)
    [] call.cmd = CMD_SENDBLOCK -> WriteBlockBody(call.n)
    [] call.cmd = CMD_FLASH_PAGE_ERASE -> PageEraseBody(call.n)
    [] OTHER -> << >>

Steps(call) == << Issue, WaitAck >> \o Body(call) \o << Result >>

InSession == portOpen
Current == host.job[host.pos]
HostStep == Steps(Current)[host.at]
Doing(what) == InSession /\ HostStep.do = what
BetweenCalls == InSession /\ host.at = 1

\* How many bytes the read in progress asks for; 0 if none is
Wanted == IF ~InSession THEN 0
          ELSE CASE HostStep.do \in {"ack", "status", "progmode", "result"} -> 1
                 [] HostStep.do = "read" -> HostStep.n
                 [] HostStep.do = "signature" -> 3
                 [] OTHER -> 0

Arrived == Wanted > 0 /\ Len(toHost) >= Wanted
Rest == SubSeq(toHost, Wanted + 1, Len(toHost))

NextStep == [host EXCEPT !.at = @ + 1]

\* START is sent again unless that was the last attempt
Retrying == Current.cmd = CMD_START /\ Doing("ack") /\ host.tries + 1 < StartAttempts

-------------------------------------------------------------------------------
(* The process *)

\* The port is opened with nothing left over in the driver's buffer
OpenPort(idle) ==
  /\ ~portOpen
  /\ portOpen' = TRUE /\ toHost' = << >>
  /\ \E job \in Jobs : host' = [host EXCEPT !.job = job, !.pos = 1, !.at = 1, !.tries = 0,
                                            !.clean = idle, !.fooled = FALSE, !.skipped = FALSE]
  /\ UNCHANGED <<toProg, faults>>

\* The process ends; whatever arrives from now on is nobody's
Ended == [host EXCEPT !.job = << >>, !.pos = 1, !.at = 1, !.tries = 0]
Exit == host' = Ended /\ portOpen' = FALSE /\ toHost' = << >>

\* Ctrl-C, a crash, a closed console: at any moment, and STOP is not sent
Crash == InSession /\ Fault("crash") /\ Exit /\ UNCHANGED toProg

\* The call failed.  flash_page_erase is the one call whose result nobody looks at;
\* START is tried again while the programmer does not acknowledge it.
CallFails(rest) ==
  \/ /\ Retrying
     /\ host' = [host EXCEPT !.at = 1, !.tries = @ + 1, !.clean = @ /\ Arrived]
     /\ toHost' = rest /\ UNCHANGED portOpen
  \/ /\ Current.cmd = CMD_FLASH_PAGE_ERASE
     /\ host' = [host EXCEPT !.at = 1, !.pos = @ + 1, !.clean = @ /\ Arrived, !.skipped = TRUE]
     /\ toHost' = rest /\ UNCHANGED portOpen
  \/ /\ Current.cmd # CMD_FLASH_PAGE_ERASE /\ ~Retrying
     /\ Exit

-------------------------------------------------------------------------------
(* The port *)

IssueCommand ==
  /\ Doing("issue")
  /\ Sent(<<Current.cmd>>, TRUE)
  /\ host' = NextStep
  /\ UNCHANGED <<toHost, portOpen, faults>>

WriteBytes ==
  /\ \/ Doing("write") /\ Sent(HostStep.bytes, FALSE)
     \/ /\ Doing("data")
        /\ \E b \in [1 .. HostStep.n -> DataBytes] : Sent(b, FALSE)
  /\ host' = NextStep
  /\ UNCHANGED <<toHost, portOpen, faults>>

Goes == /\ host' = NextStep
        /\ toHost' = Rest /\ UNCHANGED portOpen

ReadReply ==
  /\ Arrived
  /\ LET reply == Head(toHost)
         good == CASE HostStep.do \in {"ack", "progmode"} -> reply = REPL_ACK
                   [] HostStep.do = "status" -> reply = 0
                   [] HostStep.do = "signature" -> SubSeq(toHost, 1, 3) = DeviceSignature
                   [] OTHER -> TRUE
     IN  /\ HostStep.do # "result"
         /\ \/ good /\ Goes
            \/ ~good /\ CallFails(Rest)
  /\ UNCHANGED <<toProg, faults>>

\* The session is over: the process ends, or multi-mode starts the job again
SessionEnds ==
  \/ Exit
  \/ /\ host' = [host EXCEPT !.pos = 1, !.at = 1, !.tries = 0]
     /\ toHost' = Rest /\ UNCHANGED portOpen

\* answered is the command the last OK of the programmer was for
ReadResult(answered) ==
  /\ Doing("result") /\ Arrived
  /\ \/ /\ Head(toHost) = REPL_OK /\ host.pos < Len(host.job)
        /\ host' = [host EXCEPT !.at = 1, !.pos = @ + 1,
                                !.fooled = @ \/ answered # Current.cmd]
        /\ toHost' = Rest /\ UNCHANGED portOpen
     \/ Head(toHost) = REPL_OK /\ host.pos = Len(host.job) /\ SessionEnds
     \/ Head(toHost) # REPL_OK /\ CallFails(Rest)
  /\ UNCHANGED <<toProg, faults>>

\* A read gives up.  With some of the bytes it succeeds all the same (of the signature
\* the bytes that did not come are whatever the stack held); the reply to entering
\* programming mode is not insisted on.
GoesOn ==
  \/ HostStep.do = "progmode"
  \/ HostStep.do = "read" /\ toHost # << >>
  \/ /\ HostStep.do = "signature" /\ toHost # << >>
     /\ toHost = SubSeq(DeviceSignature, 1, Len(toHost))

MustGoOn == HostStep.do = "progmode" \/ (HostStep.do = "read" /\ toHost # << >>)

\* Mutant: a read that got nothing yet has no timeout
TimedOutBetweenBytes ==
  /\ Wanted > 0 /\ ~Arrived /\ toHost # << >>
  /\ GoesOn
  /\ host' = [NextStep EXCEPT !.clean = FALSE]
  /\ toHost' = << >> /\ UNCHANGED <<portOpen, toProg>>

TimedOut ==
  /\ Wanted > 0 /\ ~Arrived
  /\ \/ /\ GoesOn
        /\ host' = [NextStep EXCEPT !.clean = FALSE]
        /\ toHost' = << >> /\ UNCHANGED portOpen
     \/ ~MustGoOn /\ CallFails(<< >>)
  /\ UNCHANGED toProg
=============================================================================

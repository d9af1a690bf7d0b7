-------------------------------- MODULE Session --------------------------------
(***************************************************************************)
(* The controller and the programmer together, over one serial line.       *)
(*                                                                         *)
(* The protocol has no framing and no sequence numbers: both sides must    *)
(* agree, byte by byte, on where a command begins.  The controller's only  *)
(* defence against a programmer that waits for something else is the       *)
(* timeout of Serial::Read.                                                *)
(*                                                                         *)
(* Faults of the line and of the controller, beside those of the target in *)
(* Programmer:                                                             *)
(*   "crash"      the controller's process ends anywhere in a session      *)
(*   "late"       a read times out although the answer is on its way       *)
(*   "lost"       a byte to the programmer is lost                         *)
(*   "lostreply"  a byte to the controller is lost                         *)
(***************************************************************************)
EXTENDS Programmer, Controller

\* data_packet_size is the segment of the firmware, and Largest what Jobs make it
ASSUME SameSegments == PacketSize = Segment
ASSUME LargestIsLargest ==
  \A job \in Jobs : \A k \in DOMAIN job : job[k].n <= Largest

vars == <<linkVars, fw, host>>

Init == LinkInit /\ FwInit /\ HostInit

Idle == ~Running /\ toProg = << >>

\* The programmer reads, and there is nothing to read
Starved == (Polling \/ Armed) /\ toProg = << >>

\* Both sides read, and nobody writes
MutualWait == Starved /\ Wanted > Len(toHost)

\* What was written before has arrived, or was lost, by the time more is written
Settled == Armed \/ Len(toProg) <= FifoDepth

\* Whoever starts the controller again does so after the programmer has come to rest,
\* be it in the middle of a command
HostOpens    == Starved /\ OpenPort(Idle) /\ fw' = [fw EXCEPT !.astray = FALSE]
HostIssues   == Settled /\ IssueCommand /\ UNCHANGED fw
HostWrites   == Settled /\ WriteBytes /\ UNCHANGED fw
HostReads    == ReadReply /\ UNCHANGED fw
HostConcludes == ReadResult(fw.answered) /\ UNCHANGED fw
HostCrashes  == Crash /\ UNCHANGED fw
HostTimesOut == MutualWait /\ TimedOut /\ UNCHANGED <<fw, faults>>

\* The answer comes after the timeout: a reset, an erase, a busy NVM may take long
HostTooEarly ==
  (At("slow") \/ At("busy") \/ At("erase")) /\ Fault("late") /\ TimedOut /\ UNCHANGED fw

FirmwareSteps == FwNext /\ UNCHANGED host

\* The UART drops a byte unless the interrupt empties it
Overrun ==
  /\ ~Armed /\ LoseByte
  /\ host' = [host EXCEPT !.clean = FALSE] /\ UNCHANGED fw

Without(s, k) == SubSeq(s, 1, k - 1) \o SubSeq(s, k + 1, Len(s))

LineLoses ==
  /\ \/ /\ Fault("lost") /\ UNCHANGED toHost
        /\ \E k \in DOMAIN toProg : toProg' = Without(toProg, k)
     \/ /\ Fault("lostreply") /\ UNCHANGED toProg
        /\ \E k \in DOMAIN toHost : toHost' = Without(toHost, k)
  /\ host' = [host EXCEPT !.clean = FALSE]
  /\ UNCHANGED <<portOpen, fw>>

Next ==
  \/ HostOpens \/ HostIssues \/ HostWrites \/ HostReads \/ HostConcludes
  \/ HostCrashes \/ HostTimesOut \/ HostTooEarly
  \/ FirmwareSteps \/ Overrun \/ LineLoses

Spec == Init /\ [][Next]_vars

\* Both processors run; a read that gets nothing times out; the user tries again
Fairness ==
  /\ WF_vars(FirmwareSteps)
  /\ WF_vars(HostOpens)
  /\ WF_vars(HostIssues \/ HostWrites \/ HostReads \/ HostConcludes)
  /\ WF_vars(HostTimesOut)

FairSpec == Spec /\ Fairness

-------------------------------------------------------------------------------
(* Properties *)

ByteValues == 0 .. 255

\* Types
TypeOK ==
  /\ toProg \in Seq([val : ByteValues, cmd : BOOLEAN]) /\ toHost \in Seq(ByteValues)
  /\ portOpen \in BOOLEAN /\ faults \in 0 .. MaxFaults
  /\ fw.loop \in {"main", "cmd"} /\ fw.cmd \in DOMAIN Handlers \cup {CMD_NONE}
  /\ Running => fw.step \in DOMAIN Handlers[fw.cmd]
  /\ fw.toSend \in 0 .. Largest + Stray + 3 /\ fw.left \in 0 .. Largest + Stray
  /\ fw.seg \in 0 .. Segment
  /\ {fw.open, fw.nvmWrite, fw.masked, fw.astray, fw.sigAddr} \subseteq BOOLEAN
  /\ InSession => /\ host.job \in Jobs /\ host.pos \in DOMAIN host.job
                  /\ host.at \in DOMAIN Steps(Current)
  /\ host.tries \in 0 .. StartAttempts - 1

\* The session lost a byte or gave up a read, and ignored a failed page erase
\* (Operation.cpp:138) or had a data byte run as a command (main.cpp:316): it goes on
\* not knowing how far the programmer got
Disoriented == ~host.clean /\ (host.skipped \/ fw.astray)

\* Whenever a started session is about to issue its next call, whatever failed before
\* it, the programmer is in its command loop with the link open, owes no bytes, and
\* nothing is in flight: the call cannot be mistaken for the rest of an earlier one
InSync ==
  BetweenCalls /\ host.pos > 1 /\ ~Disoriented =>
    /\ ~Running /\ fw.loop = "cmd" /\ fw.open /\ fw.toSend = 0
    /\ toProg = << >> /\ toHost = << >>

\* In a session that began with an idle programmer and lost no byte, the two sides
\* never wait for each other, whatever the target does: this is what the zeros that
\* "preserve communication scheme" (main.cpp:566) are for
NoMutualWait == host.clean => ~MutualWait

\* Outside a block the controller never has more bytes under way than the UART holds
\* without help: why set_baud sends its four bytes in two halves (FastUPDI.cpp:344-349)
NoOverrun == host.clean /\ ~Armed => Len(toProg) <= FifoDepth

\* An OK the controller takes for the result of a call is the programmer's answer to
\* that command, not one left over from another
OkIsOwn == host.fooled => Disoriented

\* No byte of data or of a parameter is ever run as a command
CommandsOnly == ~fw.astray

\* Whatever the target does and the line loses, a started session that is not disoriented
\* has the programmer's command loop look at a byte of data or of a parameter in one
\* place only: write_byte has sent its data, and SENDBYTE, which acknowledges an address
\* before it knows that the target took it, has failed (main.cpp:316).  All the other
\* commands fail before the controller sends more, or after they have taken it.
OnlySendByteStrays ==
  InSession /\ host.pos > 1 /\ ~Disoriented /\ ~Running /\ toProg # << >> =>
    Head(toProg).cmd \/ (Current.cmd = CMD_SENDBYTE /\ host.at = 6)

\* REPL_OK means the command was performed
SuccessIsReal ==
  ~(~Running /\ fw.cmd = CMD_CHIPERASE /\ fw.answered = CMD_CHIPERASE /\ fw.masked)

\* A session goes on only past calls that succeeded: in particular nothing is written
\* to flash after an erase that failed
NoFailureIgnored == ~host.skipped

\* Every call returns: with its result, with a failure reply, or by timeout
CallEnds == InSession /\ ~BetweenCalls ~> BetweenCalls \/ ~InSession

\* Once faults stop, a user who keeps trying gets a started session again, wherever a
\* crash or a lost byte left the programmer
Recovers == []<>(BetweenCalls /\ host.pos > 1)
=============================================================================

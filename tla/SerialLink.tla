------------------------------ MODULE SerialLink ------------------------------
(***************************************************************************)
(* The serial line between the controller and the programmer.  A byte on   *)
(* its way to the programmer is a record: its value, and whether the       *)
(* controller meant it as a command.  The programmer cannot see the second *)
(* field; the properties use it.                                           *)
(*                                                                         *)
(* Bytes the polled firmware has not read yet wait in the UART, which      *)
(* holds FifoDepth of them; one that arrives when it is full is dropped.   *)
(* Faults of the environment are counted, so that a run can bound them.    *)
(***************************************************************************)
EXTENDS Integers, Sequences

CONSTANTS FifoDepth,   \* 3: two bytes of FIFO and the shift register
          FaultKinds,  \* the faults a run considers
          MaxFaults    \* how many of them may happen

ASSUME FifoDepthAssumption == FifoDepth \in Nat /\ FifoDepth > 0
ASSUME MaxFaultsAssumption == MaxFaults \in Nat

VARIABLES toProg,    \* bytes from the controller the firmware has not read
          toHost,    \* bytes from the programmer the controller has not read
          portOpen,  \* the controller holds the port
          faults     \* faults that have happened

linkVars == <<toProg, toHost, portOpen, faults>>

LinkInit == /\ toProg = << >> /\ toHost = << >>
            /\ portOpen = FALSE
            /\ faults = 0

Fault(kind) == /\ kind \in FaultKinds
               /\ faults < MaxFaults
               /\ faults' = faults + 1

\* Serial::send of the firmware: with the port closed the byte goes nowhere
Reply(bytes) == toHost' = IF portOpen THEN toHost \o bytes ELSE toHost

\* Serial::Write of the controller
Sent(bytes, isCmd) ==
  toProg' = toProg \o [k \in 1 .. Len(bytes) |-> [val |-> bytes[k], cmd |-> isCmd]]

\* The byte that finds the UART full is lost
LoseByte ==
  /\ Len(toProg) > FifoDepth
  /\ toProg' = SubSeq(toProg, 1, FifoDepth) \o SubSeq(toProg, FifoDepth + 2, Len(toProg))
  /\ UNCHANGED <<toHost, portOpen, faults>>
=============================================================================

------------------------------ MODULE UpdiTimeout ------------------------------
(***************************************************************************)
(* How the firmware notices that the target has stopped answering.         *)
(*                                                                         *)
(* One hardware timer, one flag its interrupt sets, and the primitives of  *)
(* UPDI.h that start, stop and reset the timer on every transfer.  A wait  *)
(* for the target ends with a byte or with the flag; what the receiver     *)
(* then holds is returned either way, and it is up to the handler to look  *)
(* at the flag.  Nothing clears the flag but the next Timeout_start and    *)
(* the timeout exit, and some exits leave the timer running.               *)
(*                                                                         *)
(* Each command of main.cpp is the sequence of its primitives.  The target *)
(* is external: it answers, and well before the timer expires, until it    *)
(* dies; then it is silent for the rest of the command.                    *)
(***************************************************************************)
EXTENDS Integers, Sequences

CONSTANTS
  Commands,  \* the commands a run considers
  MaxRounds  \* how often a live target may say "not yet" in one command

ASSUME MaxRoundsAssumption == MaxRounds \in Nat

VARIABLES
  cmd,     \* the command being run, or run last
  pc,      \* which of its primitives is next; 0: waiting for a command
  timer,   \* "on" or "off"
  flag,    \* g_timeout_flag
  last,    \* the byte the UPDI receiver holds
  reply,   \* how the last command ended
  target,  \* "ready", "refuses" programming mode but answers, or "dead"
  silent,  \* some wait of this command went unanswered
  rounds,  \* polls of this command that said "not yet"
  ocr1a    \* the value the timer counts to, in ticks of 64 microseconds

vars == <<cmd, pc, timer, flag, last, reply, target, silent, rounds, ocr1a>>

-------------------------------------------------------------------------------
(* The primitives *)

TimerStart   == [op |-> "start"]                  \* Timeout_start
TimerStop    == [op |-> "stop"]                   \* Timeout_stop
Take(reg)    == [op |-> "take", reg |-> reg]      \* UPDI_receive
Serial       == [op |-> "serial"]                 \* Serial::receive
Check        == [op |-> "check"]                  \* checkTimeout
Require(test, failure) == [op |-> "require", test |-> test, failure |-> failure]
Poll(test, back, guarded) ==                      \* loop until the test holds
  [op |-> "poll", test |-> test, back |-> back, guarded |-> guarded]

\* What UPDI.h makes of them
StartSend    == << TimerStop >>
\* Mutant: the receiver is enabled, the timer is not
StartReceiveUntimed == << >>

StartReceive == << TimerStart >>
Idle         == << TimerStop >>
Load(reg)    == StartSend \o StartReceive \o << Take(reg) >> \o Idle  \* LDCS, LDS
Store        == StartSend \o Idle                                     \* STCS, keys
WaitForAck   == StartReceive \o << Take("ack"), Require("ack", "noack") >>
StoreAcked   == LET Acked == StartReceive \o << Take("ack"), Require("ack", "error") >>
                IN  StartSend \o Acked \o StartSend \o Acked \o Idle  \* UPDI_STS
StatusIsZero == Load("statusb") \o << Require("zero", "error") >>

\* Load until the test holds.  Unguarded, the loop does not look at the flag, and each
\* round clears it.
LoadUntil(reg, test, guarded) == Load(reg) \o << Poll(test, 4, guarded) >>

SystemReset  == StartSend \o LoadUntil("sys", "notReset", FALSE)
\* Mutant: the flag is not looked at here either
EnterProgmodeUnguarded ==
  << TimerStart >> \o SystemReset \o Store \o SystemReset
    \o LoadUntil("sys", "progmode", FALSE) \o << TimerStop >>

EnterProgmode ==
  << TimerStart >> \o SystemReset \o Store \o SystemReset
    \o LoadUntil("sys", "progmode", TRUE) \o << TimerStop >>

Serials(n) == [k \in 1 .. n |-> Serial]
NotBusy    == LoadUntil("nvm", "notBusy", FALSE)

-------------------------------------------------------------------------------
(* The commands *)

Start ==
  << TimerStart, Take("pin"), TimerStop, Check >> \o Idle
    \o Load("statusb") \o << Check >> \o EnterProgmode \o << Check >>
    \o Serials(3) \o StartSend \o WaitForAck \o StartSend \o StartSend
    \o (StartReceive \o << Take("data"), Take("data"), Take("data") >>) \o Idle
    \o << Check >> \o Store \o << Check >>

Stop      == SystemReset \o StartSend
SendBlock == Serials(2) \o Store \o StartSend \o Serials(2) \o Idle \o Store
\* Mutant: the timer is stopped after every byte
GetBlockStops == Serials(2) \o StartSend \o StartSend \o StartReceive
                   \o << Take("data"), TimerStop, Check, Take("data"), TimerStop, Check >>

GetBlock  == Serials(2) \o StartSend \o StartSend
               \o (StartReceive \o << Take("data"), Require("received", "rxerr"), Check,
                                     Take("data"), Require("received", "rxerr"), Check >>)
               \o Idle
\* Mutant: the flag is not looked at
GetByteUnchecked == StartSend \o Serials(3) \o StartReceive \o << Take("data") >> \o Idle

GetByte   == StartSend \o Serials(3) \o (StartReceive \o << Take("data") >>) \o Idle
               \o << Check >>
SendByte  == StartSend \o Serials(3) \o WaitForAck \o StartSend \o Serials(1)
               \o WaitForAck \o Idle
SendByteNvm == SendByte \o NotBusy  \* the same, with nvmWrite
SetAddr   == Serials(3) \o StartSend \o WaitForAck \o Idle
FlashPageErase ==
  Serials(7) \o StoreAcked \o StoreAcked \o StoreAcked
    \o StartSend \o WaitForAck \o StartSend \o WaitForAck \o Idle \o NotBusy
    \o StoreAcked \o StoreAcked
EepromWriteEnable == StoreAcked \o StoreAcked
FlashWriteEnable  == Load("sys") \o << Require("progmode", "error") >>
                       \o StoreAcked \o StoreAcked \o StoreAcked
NvmWriteDisable   == StoreAcked \o StoreAcked
SetBaud   == Serials(4) \o StatusIsZero \o << Check >>
ChipErase == Store \o Load("key") \o << Require("accepted", "error") >>
               \o SystemReset \o LoadUntil("sys", "unlocked", FALSE)
               \o << Require("erased", "erasefail") >> \o Idle \o EnterProgmode
ResetTarget == SystemReset \o StatusIsZero \o << Check >>

CommandNames ==
  {"START", "STOP", "SENDBLOCK", "GETBLOCK", "GETBYTE", "SENDBYTE", "SENDBYTE_NVM", "SETADDR",
   "FLASH_PAGE_ERASE", "EEPROM_WR_EN", "FLASH_WR_EN", "NVM_WR_DIS", "SETBAUD", "CHIPERASE",
   "RESETTGT"}

Program == [c \in CommandNames |->
  CASE c = "START"            -> Start
    [] c = "STOP"             -> Stop
    [] c = "SENDBLOCK"        -> SendBlock
    [] c = "GETBLOCK"         -> GetBlock
    [] c = "GETBYTE"          -> GetByte
    [] c = "SENDBYTE"         -> SendByte
    [] c = "SENDBYTE_NVM"     -> SendByteNvm
    [] c = "SETADDR"          -> SetAddr
    [] c = "FLASH_PAGE_ERASE" -> FlashPageErase
    [] c = "EEPROM_WR_EN"     -> EepromWriteEnable
    [] c = "FLASH_WR_EN"      -> FlashWriteEnable
    [] c = "NVM_WR_DIS"       -> NvmWriteDisable
    [] c = "SETBAUD"          -> SetBaud
    [] c = "CHIPERASE"        -> ChipErase
    [] c = "RESETTGT"         -> ResetTarget]

ASSUME CommandsAssumption == Commands \subseteq CommandNames

-------------------------------------------------------------------------------
(* What the bytes say *)

Bit(byte, b) == (byte \div 2 ^ b) % 2 = 1

RxError == 256  \* not a byte: the receiver flags an error

Holds(test, byte) ==
  CASE test = "ack"      -> byte = 64
    [] test = "zero"     -> byte = 0
    [] test = "received" -> byte # RxError
    [] test \in {"accepted", "progmode"} -> Bit(byte, 3)
    [] test = "notReset" -> ~Bit(byte, 5)
    [] test = "unlocked" -> ~Bit(byte, 0)
    [] test = "erased"   -> ~Bit(byte, 6)
    [] test = "notBusy"  -> ~Bit(byte, 0) /\ ~Bit(byte, 1)

\* The target takes no part in what goes on but for its answers
Answering == {"ready", "refuses"}
Targets == Answering \cup {"dead"}
Alive == target # "dead"

\* Answers of a live target; after MaxRounds it is out of reset and not busy, and in
\* programming mode unless it refuses that for good
Answers(reg) ==
  CASE reg = "ack"     -> {64, 0}
    [] reg = "statusb" -> {0, 1}
    [] reg = "key"     -> {8, 0}
    [] reg = "pin"     -> {0}
    [] reg = "data"    -> {64, 255, RxError}
    [] reg = "sys"     -> (IF target = "refuses" THEN {0, 64} ELSE {8, 72}) \cup IF rounds < MaxRounds THEN {0, 9, 32} ELSE {}
    [] reg = "nvm"     -> {0} \cup IF rounds < MaxRounds THEN {1, 2} ELSE {}

\* What is read from a receiver that has received nothing
Leftover == {last, 0, 255}

-------------------------------------------------------------------------------
\* UPDI_TIMEOUT_MS * F_CPU / 1000 / 1024, in unsigned arithmetic of 32 bits.  F_CPU is a
\* multiple of 1024, so the product is computed in units of 1024.
UPDI_TIMEOUT_MS == 320
FCpuBy1024 == 15625
LongBy1024 == 4194304  \* 2^32 \div 1024

\* Mutant: the division by 1000 is forgotten
TimeoutInSeconds == (UPDI_TIMEOUT_MS * FCpuBy1024) % LongBy1024

\* What the compare register holds
Word16 == 0 .. 65535

TimeoutTotalValue == ((UPDI_TIMEOUT_MS * FCpuBy1024) % LongBy1024) \div 1000

Init ==
  /\ cmd \in Commands /\ pc = 0 /\ reply = "none"
  /\ timer = "off" /\ flag = FALSE /\ last = 0
  /\ target \in Targets /\ silent = FALSE /\ rounds = 0
  /\ ocr1a = TimeoutTotalValue

Op == Program[cmd][pc]
At(op) == pc \in DOMAIN Program[cmd] /\ Op.op = op

Ends(how) == pc' = 0 /\ reply' = how /\ UNCHANGED <<cmd, timer, last, target, silent, rounds, ocr1a>>

\* _UPDI_TIMEOUT
TimesOut == Ends("timeout") /\ flag' = FALSE

\* The target may be connected, or exchanged, between commands
NextCommand ==
  /\ pc = 0 /\ pc' = 1 /\ reply' = "none"
  /\ cmd' \in Commands
  /\ target' \in {target} \cup Answering /\ silent' = FALSE /\ rounds' = 0
  /\ UNCHANGED <<timer, flag, last, ocr1a>>

Finish ==
  /\ pc = Len(Program[cmd]) + 1
  /\ Ends("ok") /\ UNCHANGED flag

\* Mutant: a flag set earlier survives
StartTimerKeepsFlag ==
  /\ At("start") /\ pc' = pc + 1
  /\ timer' = "on"
  /\ UNCHANGED <<cmd, flag, last, reply, target, silent, rounds, ocr1a>>

StartTimer ==
  /\ At("start") /\ pc' = pc + 1
  /\ timer' = "on" /\ flag' = FALSE
  /\ UNCHANGED <<cmd, last, reply, target, silent, rounds, ocr1a>>

StopTimer ==
  /\ At("stop") /\ pc' = pc + 1
  /\ timer' = "off"
  /\ UNCHANGED <<cmd, flag, last, reply, target, silent, rounds, ocr1a>>

ReceiveSerial ==
  /\ At("serial") /\ pc' = pc + 1
  /\ UNCHANGED <<cmd, timer, flag, last, reply, target, silent, rounds, ocr1a>>

TakeByte ==
  /\ At("take") /\ Alive /\ ~flag
  /\ last' \in Answers(Op.reg)
  /\ pc' = pc + 1
  /\ UNCHANGED <<cmd, timer, flag, reply, target, silent, rounds, ocr1a>>

TakeNothing ==
  /\ At("take") /\ flag
  /\ last' \in Leftover \ {RxError}
  /\ silent' = (silent \/ ~Alive)
  /\ pc' = pc + 1
  /\ UNCHANGED <<cmd, timer, flag, reply, target, rounds, ocr1a>>

CheckTimeout ==
  /\ At("check")
  /\ \/ flag /\ TimesOut
     \/ /\ ~flag /\ pc' = pc + 1
        /\ UNCHANGED <<cmd, timer, flag, last, reply, target, silent, rounds, ocr1a>>

\* Every failure exit but two looks at the flag first
CheckByte ==
  /\ At("require")
  /\ \/ /\ Holds(Op.test, last) /\ pc' = pc + 1
        /\ UNCHANGED <<cmd, timer, flag, last, reply, target, silent, rounds, ocr1a>>
     \/ /\ ~Holds(Op.test, last)
        /\ flag /\ Op.failure \notin {"erasefail", "rxerr"}
        /\ TimesOut
     \/ /\ ~Holds(Op.test, last)
        /\ ~flag \/ Op.failure \in {"erasefail", "rxerr"}
        /\ Ends(Op.failure) /\ UNCHANGED flag

PollAgain ==
  /\ At("poll")
  /\ LET again == ~Holds(Op.test, last) /\ ~(Op.guarded /\ flag)
     IN  \/ /\ again /\ pc' = pc - Op.back
            /\ rounds' = IF rounds < MaxRounds THEN rounds + 1 ELSE rounds
         \/ ~again /\ pc' = pc + 1 /\ UNCHANGED rounds
  /\ UNCHANGED <<cmd, timer, flag, last, reply, target, silent, ocr1a>>

Firmware ==
  \/ Finish \/ StartTimer \/ StopTimer \/ ReceiveSerial \/ TakeByte \/ TakeNothing
  \/ CheckTimeout \/ CheckByte \/ PollAgain

\* The timer runs long enough only while the firmware waits: for the controller, or
\* for a target that does not answer
Expire ==
  /\ timer = "on"
  /\ pc = 0 \/ At("serial") \/ (At("take") /\ ~Alive)
  /\ timer' = "off" /\ flag' = TRUE
  /\ UNCHANGED <<cmd, pc, last, reply, target, silent, rounds, ocr1a>>

Dies ==
  /\ Alive /\ pc # 0 /\ target' = "dead"
  /\ UNCHANGED <<cmd, pc, timer, flag, last, reply, silent, rounds, ocr1a>>

Next == NextCommand \/ Firmware \/ Expire \/ Dies

Spec == Init /\ [][Next]_vars

\* The processor runs, its timer counts, and the controller sends what it owes (that it
\* does is Session's subject)
FairSpec == Spec /\ WF_vars(Firmware) /\ WF_vars(Expire)

-------------------------------------------------------------------------------
(* Properties *)

\* Types
TypeOK ==
  /\ cmd \in Commands /\ pc \in 0 .. Len(Program[cmd]) + 1
  /\ timer \in {"on", "off"} /\ flag \in BOOLEAN /\ last \in 0 .. RxError
  /\ reply \in {"none", "ok", "timeout", "noack", "error", "rxerr", "erasefail"}
  /\ target \in Targets /\ silent \in BOOLEAN /\ rounds \in 0 .. MaxRounds
  /\ ocr1a \in Word16

\* The firmware never waits for the target without a way out: the timer runs, or has
\* already expired (UPDI.h:158-163 and every path that leads there)
WaitIsTimed == At("take") => timer = "on" \/ flag

\* REPL_TIMEOUT is about this command's target, and not a flag left set by a timer some
\* earlier command forgot to stop (main.cpp:564, 583; UPDI.h:236)
NoFalseTimeout == reply = "timeout" => silent

\* Commands that may take what the receiver held before for the target's answer
Unguarded == {"STOP", "SENDBYTE", "SENDBYTE_NVM", "SETADDR", "FLASH_PAGE_ERASE",
              "EEPROM_WR_EN", "FLASH_WR_EN", "NVM_WR_DIS", "CHIPERASE"}

\* The commands that start a link and that read data or status never report anything
\* but a timeout when the target went silent; the rest may report success, and chip
\* erase a failure to erase
SilenceNoticed ==
  pc = 0 /\ silent =>
    \/ reply = "timeout"
    \/ reply = "ok" /\ cmd \in Unguarded
    \/ reply = "erasefail" /\ cmd = "CHIPERASE"

\* Commands that wait for a register to change in a loop of their own
Polling == {"START", "STOP", "CHIPERASE", "RESETTGT", "FLASH_PAGE_ERASE", "SENDBYTE_NVM"}

\* A command without such a loop ends whatever the target does
TransfersEnd == (pc # 0 /\ cmd \notin Polling) ~> pc = 0

\* The loop at the end of EnterProgmode
WaitsForProgmode ==
  \E k \in DOMAIN Program[cmd] \cap (pc .. pc + 4) :
    Program[cmd][k].op = "poll" /\ Program[cmd][k].test = "progmode"

\* The wait for programming mode (UPDI.h:287) ends with the mode or with the target's
\* silence.  A target that refuses the mode and goes on answering is not silent: every
\* LDCS of the loop starts the timer anew, and the loop has no end.
ProgmodeOrSilence == (WaitsForProgmode /\ target # "refuses") ~> pc = 0

\* Every command ends whatever the target does: the timeout of Config.h:24 "must not
\* respond" bounds every wait for it
CommandEnds == pc # 0 ~> pc = 0

\* The timer expires UPDI_TIMEOUT_MS after the target fell silent (Config.h:24-25): a
\* tick is 64 microseconds
TimeoutAsConfigured == (ocr1a * 64) \div 1000 = UPDI_TIMEOUT_MS
=============================================================================

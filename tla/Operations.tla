------------------------------ MODULE Operations ------------------------------
(***************************************************************************)
(* The operations -W, -R, -V and -E of the controller on the target's      *)
(* memory: Operation.cpp, write_image and verify_image of FastUPDI.cpp,    *)
(* and the session loop of main.cpp that chains and repeats them.          *)
(*                                                                         *)
(* An operation is the calls it makes, in the order of the code; a call is *)
(* what its command does to the target, step by step.  Any step may fail,  *)
(* done or not done; a reply may stay out; the controller may be killed    *)
(* between any two.  The programmer then still waits for the bytes it has  *)
(* not got.  How calls go over the wire is Session's subject.              *)
(***************************************************************************)
EXTENDS Integers, Target, SerialProtocol, Sequences

CONSTANTS
  Jobs,                   \* the chains of operations a command line may stage
  Memories,               \* the memories of the device: name, address, type, erase mode
  NormalBaudrate,         \* of the device, and the rates its memories take
  FlashWriteMaxBaudrate,
  StraySteps,             \* what a programmer may do that is out of step
  MaxFaults               \* failed, unanswered and stray steps, and kills in a behaviour

VARIABLES
  ctl,    \* the controller, see CtlInit
  rate,   \* the rate of the UPDI link
  waits,  \* nvmWrite of the firmware: SENDBYTE waits for the NVM
  begun,  \* the call under way has had a step: its parameters have arrived
  faults

vars == <<tgtVars, ctl, rate, waits, begun, faults>>

\* job is the chain of the command line, k the operation that runs or ran last, todo the calls it has still
\* to make, now what is known of it once its operands and options are read.  stripped
\* are the operands that have lost their 0x; excused the cells of failed page erases.  When
\* the session has ended, todo is what the programmer does without it.
NoOperation == [tag |-> "none"]
CtlInit == \E job \in Jobs : ctl = [job |-> job, k |-> 0, todo |-> << >>, now |-> NoOperation,
                  round |-> 1, multi |-> FALSE, result |-> "SUCCESS",
                  stripped |-> {}, excused |-> {}]

-------------------------------------------------------------------------------
(* What a command line may say *)

MemoryTypes == {"ram", "eeprom", "flash"}
EraseModes  == {"dont", "chip", "page"}

MemoryRecords == [address : Nat, type : MemoryTypes, erase : EraseModes]

\* A section has bytes: no more than SectionMaxSize, and what is left of the record of a
\* file that brings it there
SectionMaxSize == 32768
RecordMaxSize  == 255
Sections == {s \in [address : Nat, data : Seq(Values)] :
               Len(s.data) \in 1 .. SectionMaxSize + RecordMaxSize}
Images   == Seq(Sections)

DestOperands == [hex : {TRUE}, at : Nat] \cup [hex : {FALSE}, name : STRING]
DataOperands == [hex : {TRUE}, byte : Values] \cup [hex : {FALSE}, image : Images]

OperationRecords ==
  [tag : {"W"}, dest : DestOperands, data : DataOperands, type : MemoryTypes \cup {""},
   erase : EraseModes \cup {""}, baud : Nat, verify : BOOLEAN]
  \cup [tag : {"V"}, dest : DestOperands, data : DataOperands]
  \cup [tag : {"R"}, dest : DestOperands]
  \cup [tag : {"E"}]

\* What a step of a call may be
Steps ==
  [do : {"reset", "chip"}]
  \cup [do : {"baud"}, to : Nat \ {0}]
  \cup [do : {"select"}, cmd : NvmCommands]
  \cup [do : {"waits"}, on : BOOLEAN]
  \cup [do : {"page", "point"}, at : Nat]
  \cup [do : {"put"}, byte : Values]
  \cup [do : {"putat"}, at : Nat, byte : Values]
  \cup [do : {"get"}, n : Nat]

ASSUME OperationsAssumption ==
  /\ Jobs \subseteq Seq(OperationRecords)
  /\ \A name \in DOMAIN Memories : Memories[name] \in MemoryRecords
  /\ NormalBaudrate \in Nat \ {0} /\ FlashWriteMaxBaudrate \in Nat \ {0}
  /\ CMD_START \in Data  \* it may come to be stored
  /\ StraySteps \subseteq Steps /\ MaxFaults \in Nat

-------------------------------------------------------------------------------
(* Calls *)

UPDI_DEFAULT_BAUD == 56000

Cmd(cmd, steps) == [cmd |-> cmd, steps |-> steps]

\* Three bytes of an address are sent
AddressSpace == 256 * 256 * 256
Sent(a) == a % AddressSpace

Reset       == [do |-> "reset"]
Baud(b)     == [do |-> "baud", to |-> b]
Select(cmd) == [do |-> "select", cmd |-> cmd]
Waits(b)    == [do |-> "waits", on |-> b]
PageErase(a)== [do |-> "page", at |-> Sent(a)]
EraseChip   == [do |-> "chip"]
Point(a)    == [do |-> "point", at |-> Sent(a)]
Put(v)      == [do |-> "put", byte |-> v]
PutAt(a, v) == [do |-> "putat", at |-> Sent(a), byte |-> v]
Get(n)      == [do |-> "get", n |-> n]

StartCall        == Cmd(CMD_START, << Waits(FALSE), Baud(UPDI_DEFAULT_BAUD), Reset >>)
StopCall         == Cmd(CMD_STOP, << Reset >>)
SetBaud(b)       == Cmd(CMD_SETBAUD, << Baud(b) >>)
ChipErase        == Cmd(CMD_CHIPERASE, << EraseChip >>)
\* Mutant: whatever command is selected is not cleared first
EnableFlashWriteDirectly == Cmd(CMD_FLASH_WR_EN, << Select("FLWR"), Waits(TRUE) >>)

EnableFlashWrite == Cmd(CMD_FLASH_WR_EN, << Select("NOOP"), Select("FLWR"), Waits(TRUE) >>)
EnableEepromWrite== Cmd(CMD_EEPROM_WR_EN, << Select("EEERWR"), Waits(TRUE) >>)
DisableNvmWrite  == Cmd(CMD_NVM_WR_DIS, << Select("NONE"), Waits(FALSE) >>)
SetBlockAddress(a) == Cmd(CMD_SETADDR, << Point(a) >>)
WriteBlock(data) == Cmd(CMD_SENDBLOCK, [i \in DOMAIN data |-> Put(data[i])])
ReadBlock(n)     == Cmd(CMD_GETBLOCK, << Get(n) >>)
WriteBytes(a, data) == Cmd(CMD_SENDBYTE, [i \in DOMAIN data |-> PutAt(a, data[i])])
ReadByte         == Cmd(CMD_GETBYTE, << Get(0) >>)
FlashPageErase(a, n) ==
  Cmd(CMD_FLASH_PAGE_ERASE,
      << Select("NOOP"), Select("FLPER") >>
        \o [i \in 1 .. n |-> PageErase(a + (i - 1) * PageSize)] \o << Select("NOOP") >>)

-------------------------------------------------------------------------------
(* What -W makes of its operands and options *)

Size(section) == Len(section.data)
FirstPage(section) == section.address \div PageSize
LastPage(section)  == (section.address + Size(section) - 1) \div PageSize

\* Mutant: the page is skipped that begins where the previous section ended
FirstToEraseOffByOne(image, k) ==
  FirstPage(image[k]) + IF k > 1 /\ FirstPage(image[k]) <= LastPage(image[k - 1]) + 1
                          THEN 1 ELSE 0

\* The first page is skipped if the previous section's erase ended with it
FirstToErase(image, k) ==
  FirstPage(image[k]) + IF k > 1 /\ FirstPage(image[k]) = LastPage(image[k - 1])
                          THEN 1 ELSE 0

PageErases(w) ==
  [k \in DOMAIN w.image |->
     LET first == FirstToErase(w.image, k)
         pages == (LastPage(w.image[k]) - first + 1) % 65536
     IN  FlashPageErase(first * PageSize + w.base, pages)]

Erasing(w) ==
  CASE w.type = "flash" /\ w.erase = "chip" -> << ChipErase >>
    [] w.type = "flash" /\ w.erase = "page" -> PageErases(w)
    [] OTHER -> << >>

\* Mutant: the pointer to the data is not moved to the next section's
WriteSectionFromStart(w, k) ==
  << SetBlockAddress(w.image[k].address + w.base),
     WriteBlock([i \in DOMAIN w.image[k].data |-> w.image[1].data[1]]) >>

\* write_image.  What it writes by bytes it writes to the start of the section; the calls
\* for the bytes of a section are one here, as nothing comes between them.
WriteSection(w, k) ==
  LET section == w.image[k]
      address == section.address + w.base
  IN  IF w.type # "eeprom"
        THEN << SetBlockAddress(address), WriteBlock(section.data) >>
        ELSE << WriteBytes(address, section.data) >>

\* A section takes as many calls as the next
WriteSections(w) ==
  LET n == IF w.type # "eeprom" THEN 2 ELSE 1
  IN  [i \in 1 .. n * Len(w.image) |->
         LET before == (i - 1) \div n IN WriteSection(w, before + 1)[i - n * before]]

\* Mutant: only what was written by blocks is disabled
WriteImageHalfDisabled(w) ==
  (CASE w.type = "flash"  -> << EnableFlashWrite >>
     [] w.type = "eeprom" -> << EnableEepromWrite >>
     [] OTHER -> << >>)
  \o WriteSections(w)
  \o (IF w.type = "flash" THEN << DisableNvmWrite >> ELSE << >>)

WriteImage(w) ==
  (CASE w.type = "flash"  -> << EnableFlashWrite >>
     [] w.type = "eeprom" -> << EnableEepromWrite >>
     [] OTHER -> << >>)
  \o WriteSections(w)
  \o (IF w.type # "ram" THEN << DisableNvmWrite >> ELSE << >>)

VerifySection(w, k) ==
  << SetBlockAddress(w.image[k].address + w.base), ReadBlock(Size(w.image[k])) >>

VerifyImage(w) ==
  [i \in 1 .. 2 * Len(w.image) |->
     LET before == (i - 1) \div 2 IN VerifySection(w, before + 1)[i - 2 * before]]

\* The override is reverted when the image is written
WriteCalls(w) ==
  Erasing(w)
  \o (IF w.baud # 0 THEN << SetBaud(w.baud) >> ELSE << >>)
  \o WriteImage(w)
  \o (IF w.baud # 0 THEN << SetBaud(NormalBaudrate) >> ELSE << >>)
  \o (IF w.verify THEN VerifyImage(w) ELSE << >>)

\* The case of the EEPROM falls through to the default, UINT32_MAX: here, more than any rate
Unlimited == 1024 * 1024 * 1024
MaxBaudrate(type) == IF type = "flash" THEN FlashWriteMaxBaudrate ELSE Unlimited

\* Mutant: the limits of the device are not looked at
BaudOverrideUnlimited(op, type) == op.baud

BaudOverride(op, type) ==
  IF op.baud # 0 THEN op.baud
  ELSE IF NormalBaudrate > MaxBaudrate(type) THEN MaxBaudrate(type) ELSE 0

Direct(byte) == << [address |-> 0, data |-> << byte >>] >>

\* mem is the memory named, or what a direct address stands for
Resolved(op, memory, direct) ==
  LET type == IF op.type # "" THEN op.type ELSE memory.type
  IN  [tag |-> "W", base |-> memory.address, type |-> type,
       erase |-> IF op.erase # "" THEN op.erase ELSE memory.erase,
       baud |-> BaudOverride(op, type), asked |-> op.baud # 0,
       image |-> IF direct THEN Direct(op.data.byte) ELSE op.data.image,
       verify |-> op.verify]

AtAddress(a) == [address |-> a, type |-> "ram", erase |-> "dont"]

-------------------------------------------------------------------------------
(* The session loop *)

Running == ctl.result = "running"
Ready   == Running /\ ctl.todo = << >>
Op      == ctl.job[ctl.k + 1]

Fault == faults < MaxFaults /\ faults' = faults + 1

\* The user starts the program, with -m or without, and may do so again whenever it ended
Launch ==
  /\ ~Running /\ ctl.todo = << >>
  /\ \E multi \in BOOLEAN :
       ctl' = [job |-> ctl.job, k |-> 0, todo |-> << StartCall, SetBaud(NormalBaudrate) >>,
               now |-> NoOperation, round |-> 1, multi |-> multi, result |-> "running",
               stripped |-> {}, excused |-> {}]
  /\ UNCHANGED <<tgtVars, rate, waits, begun, faults>>

\* try_convert_hex erases the 0x of the operand: it is hexadecimal once
Operands == CASE Op.tag = "E" -> << >>
              [] Op.tag = "R" -> << Op.dest >>
              [] OTHER -> << Op.dest, Op.data >>
IsHex(i) == i \in DOMAIN Operands /\ Operands[i].hex /\ <<ctl.k + 1, i>> \notin ctl.stripped

Known  == IsHex(1) \/ (~Op.dest.hex /\ Op.dest.name \in DOMAIN Memories)
Memory == IF IsHex(1) THEN AtAddress(Op.dest.at) ELSE Memories[Op.dest.name]

Strips == {<<ctl.k + 1, i>> : i \in {i \in 1 .. 2 : IsHex(i)}}

\* What the operation is refused with, before any call
Refusals ==
  CASE Op.tag = "E" -> {}
    [] Op.tag = "R" -> IF Known THEN {} ELSE {"UPDI_ERROR"}
    [] ~Known -> {"BAD_COMMAND"}
    [] Op.data.hex /\ ~IsHex(2) -> {"FILE_IO_ERROR"}
    [] OTHER -> {}

Refuse ==
  /\ Ready /\ ctl.k < Len(ctl.job)
  /\ \E why \in Refusals \cup {"FILE_IO_ERROR", "FILE_FORMAT_ERROR"} :
       /\ \/ why \in Refusals /\ UNCHANGED faults
          \/ Op.tag \in {"W", "V"} /\ Refusals = {} /\ ~IsHex(2) /\ Fault  \* the file
       /\ ctl' = [ctl EXCEPT !.k = @ + 1, !.result = why]
  /\ UNCHANGED <<tgtVars, rate, waits, begun>>

\* -V and -R by the block; a byte given on the command line is verified by itself
Image == IF IsHex(2) THEN Direct(Op.data.byte) ELSE Op.data.image

Calls(w) ==
  CASE Op.tag = "W" -> WriteCalls(w)
    [] Op.tag = "V" -> IF IsHex(2) THEN << ReadByte >> ELSE VerifyImage(w)
    [] Op.tag = "R" -> << SetBlockAddress(Memory.address), ReadBlock(1) >>
    [] Op.tag = "E" -> << ChipErase >>

Planned ==
  CASE Op.tag = "W" -> Resolved(Op, Memory, IsHex(2))
    [] Op.tag = "V" -> [tag |-> "V", base |-> Memory.address, image |-> Image]
    [] OTHER -> [tag |-> Op.tag]

BeginOperation ==
  /\ Ready /\ ctl.k < Len(ctl.job) /\ Refusals = {}
  /\ ctl' = [ctl EXCEPT !.k = @ + 1, !.now = Planned, !.todo = Calls(Planned),
                        !.stripped = @ \cup Strips, !.excused = {}]
  /\ UNCHANGED <<tgtVars, rate, waits, begun, faults>>

\* Mutant: STOP is sent again after STOP
EndChainTwice ==
  /\ Ready /\ ctl.k >= Len(ctl.job)
  /\ ctl' = [ctl EXCEPT !.k = @ + 1, !.now = NoOperation, !.todo = << StopCall >>]
  /\ UNCHANGED <<tgtVars, rate, waits, begun, faults>>

\* What -R has read cannot be put into its file
OutputFails ==
  /\ Ready /\ ctl.now.tag = "R" /\ Fault
  /\ \E why \in {"FILE_IO_ERROR", "FILE_FORMAT_ERROR"} : ctl' = [ctl EXCEPT !.result = why]
  /\ UNCHANGED <<tgtVars, rate, waits, begun>>

EndChain ==
  /\ Ready /\ ctl.k = Len(ctl.job)
  /\ ctl' = [ctl EXCEPT !.k = @ + 1, !.now = NoOperation, !.todo = << StopCall >>]
  /\ UNCHANGED <<tgtVars, rate, waits, begun, faults>>

\* Multi-mode: any key repeats the chain, the escape key ends the program
EndSession ==
  /\ Ready /\ ctl.k > Len(ctl.job)
  /\ \/ ctl' = [ctl EXCEPT !.result = "SUCCESS"]
     \/ /\ ctl.multi
        /\ ctl' = [ctl EXCEPT !.k = 0, !.round = 2,
                              !.todo = << StartCall, SetBaud(NormalBaudrate) >>]
  /\ UNCHANGED <<tgtVars, rate, waits, begun, faults>>

-------------------------------------------------------------------------------
(* The steps of the calls *)

Busy == ctl.todo # << >>
Call == ctl.todo[1]
Step == Call.steps[1]
Doing(what) == Busy /\ Step.do = what

F_CPU == 16 * 1000 * 1000

\* The setting of the UART for a rate, rounded down in 32 bits, stored in 16, of which
\* the UART has 12
Ubrr(baud) == ((F_CPU \div (8 * baud)) - 1) % 4096
ActualRate(baud) == F_CPU \div (8 * (Ubrr(baud) + 1))

\* A rate that the flash takes, within a percent
Slow(r) == r * 100 <= FlashWriteMaxBaudrate * 101

\* The limit, or the rate of the device that is below it, is one the UART can be set to
ASSUME PaceAssumption ==
  Slow(ActualRate(IF NormalBaudrate > FlashWriteMaxBaudrate THEN FlashWriteMaxBaudrate
                                                           ELSE NormalBaudrate))

\* The firmware does not wait for the NVM in a block: the rate must see to that.  A byte
\* is waited for when the firmware knows that it goes to the NVM.  START leaves the pointer
\* behind the signature; a block sets it, so any value will do.
ResetTarget(s) ==
  /\ s.do = "reset" /\ nvm' = "NONE" /\ ptr' = 0
  /\ UNCHANGED <<mem, rate, waits>>

SetRate(s) ==
  /\ s.do = "baud" /\ rate' = ActualRate(s.to)
  /\ UNCHANGED <<tgtVars, waits>>

SelectNvmCommand(s) ==
  /\ s.do = "select" /\ nvm' = Selected(s.cmd)
  /\ UNCHANGED <<mem, ptr, rate, waits>>

SetNvmWrite(s) ==
  /\ s.do = "waits" /\ waits' = s.on
  /\ UNCHANGED <<tgtVars, rate>>

DummyWrite(s) ==
  /\ s.do = "page" /\ mem' \in Stored(s.at, Blank, FALSE)
  /\ UNCHANGED <<nvm, ptr, rate, waits>>

EraseAll(s) ==
  /\ s.do = "chip" /\ mem' \in ChipErased /\ nvm' = "NONE"
  /\ UNCHANGED <<ptr, rate, waits>>

SetPointer(s) ==
  /\ s.do = "point" /\ ptr' = s.at
  /\ UNCHANGED <<mem, nvm, rate, waits>>

StoreNext(s) ==
  /\ s.do = "put" /\ mem' \in Stored(ptr, s.byte, ~Slow(rate)) /\ ptr' = ptr + 1
  /\ UNCHANGED <<nvm, rate, waits>>

StoreByte(s) ==
  /\ s.do = "putat" /\ mem' \in Stored(s.at, s.byte, ~waits)
  /\ UNCHANGED <<nvm, ptr, rate, waits>>

Load(s) ==
  /\ s.do = "get" /\ ptr' = ptr + s.n
  /\ UNCHANGED <<mem, nvm, rate, waits>>

Does(s) == \/ ResetTarget(s) \/ SetRate(s) \/ SelectNvmCommand(s) \/ SetNvmWrite(s)
           \/ DummyWrite(s) \/ EraseAll(s) \/ SetPointer(s) \/ StoreNext(s)
           \/ StoreByte(s) \/ Load(s)

Effect == Busy /\ Does(Step)

Advanced == IF Len(Call.steps) = 1 THEN Tail(ctl.todo)
            ELSE [ctl.todo EXCEPT ![1].steps = Tail(@)]

\* Without a controller the programmer does what is left to it
Proceed ==
  /\ Effect
  /\ ctl' = [ctl EXCEPT !.todo = Advanced] /\ begun' = (Len(Call.steps) > 1)
  /\ UNCHANGED faults

Failure == CASE Call.cmd = CMD_START -> "NO_START"
             [] Call.cmd = CMD_STOP  -> "NO_STOP"
             [] OTHER                -> "UPDI_ERROR"

\* The pages a call was still to erase
Unerased == UNION {PageOf(s.at) : s \in {Call.steps[i] : i \in
              {i \in DOMAIN Call.steps : Call.steps[i].do = "page"}}}

\* The step fails, having had its effect or not, and the programmer says so: it is through
\* with the call.  That ends the program, but for a failed page erase: the session goes on
\* with the next call.
StepFails ==
  /\ Busy /\ Fault
  /\ Effect \/ UNCHANGED <<tgtVars, rate, waits>>
  /\ ctl' = IF ~Running THEN [ctl EXCEPT !.todo = << >>]
            ELSE IF Call.cmd = CMD_FLASH_PAGE_ERASE
              THEN [ctl EXCEPT !.todo = Tail(@), !.excused = @ \cup Unerased]
              ELSE [ctl EXCEPT !.todo = << >>, !.result = Failure]
  /\ begun' = FALSE

-------------------------------------------------------------------------------
(* The controller leaves a call, and the programmer in it *)

\* The programmer waits for ever for the bytes it has not got, and opening the port does not
\* reset it: it takes the STARTs of the next sessions for them.  Of a block it has a part
\* of the bytes, in their order.
MadeUp(steps) ==
  UNION {{[i \in DOMAIN steps |-> IF i <= n THEN steps[f[i]] ELSE Put(CMD_START)] :
             f \in {f \in [1 .. n -> DOMAIN steps] : \A i, j \in 1 .. n : i < j => f[i] < f[j]}} :
         n \in 0 .. Len(steps)}

\* What it may do of the call: nothing of a command it has not got, all when it has got all.
\* A pointer or a rate that is made up the START that is run in the end sets anew.
Leftovers ==
  {<< >>} \cup
  CASE Call.cmd = CMD_SENDBLOCK -> MadeUp(Call.steps)
    [] Call.cmd = CMD_SENDBYTE  -> {<< Step >>, << [Step EXCEPT !.byte = CMD_START] >>}
    [] OTHER                    -> {Call.steps}

\* Where a made up parameter is the place or the size of what is stored or erased, nothing
\* is known of the programmer until a START is run
Blind == \/ Call.cmd = CMD_SENDBYTE
         \/ Call.cmd \in {CMD_SENDBLOCK, CMD_FLASH_PAGE_ERASE} /\ ~begun

Astray   == ctl.result = "ASTRAY"
GoAstray == ctl' = [ctl EXCEPT !.todo = << >>, !.result = "ASTRAY"]

Leave(why) ==
  \/ ~Busy /\ ctl' = [ctl EXCEPT !.result = why]
  \/ /\ Busy
     /\ \E steps \in Leftovers :
          ctl' = [ctl EXCEPT !.result = why,
                             !.todo = IF steps = << >> THEN << >> ELSE << Cmd(Call.cmd, steps) >>]
  \/ Busy /\ Blind /\ GoAstray

Kill ==
  /\ Running /\ Fault /\ Leave("KILLED")
  /\ begun' = FALSE /\ UNCHANGED <<tgtVars, rate, waits>>

\* A reply stays out, or comes too late, as a byte was lost or the programmer was slow.  After
\* a page erase the session goes on, and takes what comes for the replies of the next calls.
GivesUp ==
  /\ Running /\ Busy /\ Fault
  /\ IF Call.cmd = CMD_FLASH_PAGE_ERASE THEN GoAstray ELSE Leave(Failure)
  /\ begun' = FALSE /\ UNCHANGED <<tgtVars, rate, waits>>

\* The target refuses the address of SENDBYTE, which has been acknowledged to the controller:
\* the byte is run as a command
RunsByte ==
  /\ Doing("putat") /\ Step.byte \in Commands /\ Fault
  /\ GoAstray
  /\ begun' = FALSE /\ UNCHANGED <<tgtVars, rate, waits>>

\* What programmer and controller do out of step is not followed, nor what a START does that
\* is taken for something else: anything may come of it
Wander ==
  /\ Astray /\ Fault /\ \E s \in StraySteps : Does(s)
  /\ UNCHANGED <<ctl, begun>>

Init == TgtInit /\ CtlInit /\ rate = ActualRate(UPDI_DEFAULT_BAUD) /\ waits = FALSE
        /\ begun = FALSE /\ faults = 0

Next ==
  \/ Launch \/ Refuse \/ BeginOperation \/ OutputFails \/ EndChain \/ EndSession
  \/ Proceed \/ StepFails \/ Kill \/ GivesUp \/ RunsByte \/ Wander

Spec == Init /\ [][Next]_vars

-------------------------------------------------------------------------------
(* What an operation promises *)

\* The cells an image stands for, and what it puts there
Places(w) == UNION {{<<k, i>> : i \in DOMAIN w.image[k].data} : k \in DOMAIN w.image}
Where(w, p) == w.base + w.image[p[1]].address + p[2] - 1
Written(w) ==
  [c \in Cells \cap {Where(w, p) : p \in Places(w)} |->
     LET p == CHOOSE p \in Places(w) : Where(w, p) = c IN w.image[p[1]].data[p[2]]]

\* An image beyond the address space may land anywhere
Fits(w) ==
  \A k \in DOMAIN w.image : w.base + w.image[k].address + Size(w.image[k]) <= AddressSpace

\* Pages are counted from where the memory begins, and the target counts them from zero
Aligned(w) == w.base % PageSize = 0

\* Where the pages of the image begin, as counted from the beginning of the memory
PageStarts(w) ==
  {c \in Cells : /\ c % PageSize = w.base % PageSize
                 /\ \E p \in Places(w) : c <= Where(w, p) /\ Where(w, p) < c + PageSize}

\* What the dummy writes of a page erase reach there: pages of flash, and RAM
Pages(w) == (UNION {PageOf(c) : c \in PageStarts(w) \cap Flash}) \cup (PageStarts(w) \cap Ram)

Footprint(w) ==
  CASE w.tag = "E" -> Flash \cup Eeprom
    [] w.tag = "W" ->
         IF ~Fits(w) THEN Cells
         ELSE DOMAIN Written(w)
              \cup (CASE w.type = "flash" /\ w.erase = "chip" -> Flash \cup Eeprom
                      [] w.type = "flash" /\ w.erase = "page" -> Pages(w)
                      [] OTHER -> {})
    [] OTHER -> {}

\* Flash is promised when it is erased and not written too fast, RAM always, and EEPROM
\* where a section is a single byte; but only what the image names once
Kept(w, c) ==
  /\ Fits(w)
  /\ \A p, q \in Places(w) : Where(w, p) = c /\ Where(w, q) = c => p = q
  /\ CASE c \in Ram    -> w.type # "eeprom"
       [] c \in Flash  -> /\ w.type = "flash" /\ c \notin ctl.excused
                          /\ w.erase = "chip" \/ (w.erase = "page" /\ Aligned(w))
                          /\ ~w.asked \/ Slow(ActualRate(w.baud))
       [] c \in Eeprom -> w.type = "eeprom" /\ \A k \in DOMAIN w.image : Size(w.image[k]) = 1

Promise ==
  LET w == ctl.now
  IN  CASE w.tag = "E" -> [c \in Flash |-> Blank]
        [] w.tag = "W" -> LET kept == {c \in DOMAIN Written(w) : Kept(w, c)}
                          IN  [c \in kept |-> Written(w)[c]]
        [] OTHER -> << >>

Outcome ==
  IF Astray THEN "astray"
  ELSE IF Running /\ ctl.now.tag # "none" /\ Busy THEN "running"
  ELSE IF Running \/ ctl.result = "SUCCESS" THEN "done" ELSE "failed"

U == INSTANCE Update WITH may <- Footprint(ctl.now), must <- Promise, outcome <- Outcome,
                          mishaps <- faults

-------------------------------------------------------------------------------
(* Properties *)

\* Types
TypeOK ==
  /\ mem \in [Cells -> Values] /\ nvm \in NvmCommands /\ ptr \in Nat
  /\ rate \in Nat /\ waits \in BOOLEAN /\ begun \in BOOLEAN
  /\ faults \in 0 .. MaxFaults
  /\ ctl.k \in 0 .. Len(ctl.job) + 1 /\ ctl.round \in 1 .. 2 /\ ctl.excused \subseteq Flash
  /\ ctl.result \in {"running", "SUCCESS", "BAD_COMMAND", "FILE_IO_ERROR",
                     "FILE_FORMAT_ERROR", "UPDI_ERROR", "NO_START", "NO_STOP", "KILLED", "ASTRAY"}

\* Every operation, whatever of it the programmer reports as failed and whenever the
\* controller is killed or gives up in it, changes nothing but the cells it may change, and
\* the START bytes stored for the rest of a block go nowhere else; and it reports success
\* only with its image in place.  Nothing is claimed once the two are out of step: after a
\* page erase without an answer (Operation.cpp:138), when a place or a size is made up of
\* STARTs (main.cpp:126, 312, 358-375), and when a byte is run as a command (main.cpp:316).
\* An erase, an NVM command, a rate or an address out of order would show here
\* (Operation.cpp:14-184)
Implements == U!Spec

\* What page erases of the sections of an image leave out, because the section before has
\* erased it, really is erased: when flash is programmed after an erase that did not fail,
\* the cell is blank (Operation.cpp:127-141)
EveryPageErased ==
  Running /\ Doing("put") /\ ptr \in Flash /\ nvm = "FLWR" /\ Kept(ctl.now, ptr)
    => mem[ptr] = Blank

\* No command is selected while another one is (NVM.h:103), whatever failed before: the
\* NOOP of the flash commands clears what a failed page erase left, and EEPROM writing,
\* which has none, never follows one
NoDoubleSelect == Doing("select") => ~DoubleSelect(Step.cmd)

\* Between the operations of a chain nothing is left of the last one: no NVM command, no
\* wait for the NVM, no override of the rate, so that the next may assume the defaults
\* although none of its calls sets them (Operation.cpp:177-179, FastUPDI.cpp:54-55)
TidyBetween ==
  Ready => nvm = "NONE" /\ ~waits /\ rate = ActualRate(NormalBaudrate)

\* Flash is never programmed faster than the device allows, unless the user asked for it,
\* up to the rounding of UPDI_init (UPDI.cpp:16), which may exceed a limit
PacedWrites ==
  Doing("put") /\ nvm = "FLWR" /\ ~ctl.now.asked => Slow(rate)

\* A -W that succeeds has written its image ("write to target", README.md:34)
SuccessIsWritten ==
  Ready /\ ctl.k > 0 /\ ctl.now.tag = "W" =>
    \A c \in DOMAIN Written(ctl.now) : mem[c] = Written(ctl.now)[c]

\* In multi-mode the chain that ran is repeated: what was a good command line in one round
\* is one in the next (README.md:48)
SameEveryRound == ctl.result \in {"BAD_COMMAND", "FILE_IO_ERROR"} => ctl.round = 1
=============================================================================

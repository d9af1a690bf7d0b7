# A TLA+ model of FastUPDI

FastUPDI programs AVR microcontrollers over UPDI. It is two programs and a wire between
them: a **controller** on the PC (`src/Controller/FastUPDI/FastUPDI`, C++ for Windows) and a
**programmer**, the firmware of an Arduino Mega (`src/Firmware_m2560/FastUPDI`), which talks
UPDI to the **target**. This directory holds TLA+ specifications of that system, TLC
configurations that check them on small instances, and proofs for TLAPS.

Paths below: `F/` is `src/Firmware_m2560/FastUPDI/`, `C/` is
`src/Controller/FastUPDI/FastUPDI/`.

## 1. The system

| Part | Where | State it keeps | Operations | What makes it correct |
|---|---|---|---|---|
| Command loop | `F/main.cpp` | which of the two loops it is in, `open`, `serialBytesToSend`, `nvmWrite` | START in the outer loop, thirteen more commands in the inner one, three error exits | a command is answered with what its caller reads, also when it fails half-way |
| Block write | `F/main.cpp:124-214`, `C/FastUPDI.cpp:480-525` | `bytesLeft`, `i`, `sendPos`; the controller's `bytesLeft` | one packet for every ACK | the target gets the block complete, in order, once |
| Buffered receive | `F/SerialInterf.*` | `rxBuffer[1024]`, `rxBufPos`, the interrupt enable | arm, interrupt, disarm | no byte dropped, none stored outside the buffer, none read before it is there |
| UPDI primitives | `F/UPDI.*` | enabled half of the UART | send, receive, LDCS, STCS, LDS, STS, REPEAT, reset, keys | no wait without a timeout |
| Timeout | `F/Timeout.*` | a timer, `g_timeout_flag` | start, stop, the interrupt | the flag means that *this* target was silent *now* |
| Controller calls | `C/FastUPDI.*` | the UPDI rate | start, stop, set_baud, blocks, bytes, erase, NVM modes | a call returns, and returns true only if the programmer did it |
| Session loop | `C/main.cpp:235-288` | staged operations, multi-mode | open, start, set_baud, operations, stop, close | the first failure ends the session |
| Serial port | `C/Serial_win.cpp` | handle, driver buffer | Open, Read, Write, Close | a read ends |
| Operations | `C/Operation.cpp` | operands, options | Write, Verify, Read, Erase | nothing is written that was not erased |
| Images, formats | `C/FastUPDI.cpp:14-259`, `C/formats/` | sections of bytes | read, trim, write, verify; Intel HEX | what is read is what is there; what was saved is read back |
| Configuration | `C/Config.*`, `C/Options.*`, ... | devices, settings | parse | - |

Interactions. Every call of the controller is a command byte, parameters and replies over
**one serial line without framing, checksums or sequence numbers**. Both sides must agree byte
by byte on where a command begins. Flow control is by ACK replies only. The controller's only
defence is the timeout of `Serial::Read`; the firmware has none towards the controller and
waits for a parameter for ever. Towards the target the firmware has one hardware timer, whose
interrupt sets a flag the handlers must remember to look at. Inside the firmware the receive
interrupt and the main loop share `rxBuffer` and a 16-bit pointer that an 8-bit processor
loads and stores in two halves.

What is hard here, and where a test hardly gets: interleavings of interrupt and main loop; the
two sides cutting a block independently; failures in the middle of an answer; a controller
killed in the middle of a command; a START repeated while the first is still being handled;
a timeout flag or a receiver byte left over from something else; loops that ignore the
timeout. `PROJECT.json` lists each such place at its line, with the properties that would
notice.

## 2. The modules

```
BlockCopy <--refines-- BlockWrite <-- MCBlockWrite
                           ^
                   BlockWriteProofs (TLAPS)

SerialProtocol   SerialLink
      \         /    |   \
      Programmer  Controller
             \      /
             Session <-- SessionInvariant <-- MCSession
                                ^
                          SessionSteps (TLAPS)
                                ^
                          SessionProofs (TLAPS)

UpdiTimeout <-- MCUpdiTimeout
     ^
UpdiTimeoutProofs (TLAPS)

Update <--refines-- Operations <-- MCOperations
                     /   |  \
               Target    |   SerialProtocol
                         |
                 OperationsProofs (TLAPS)
                         |
                 OperationsPlan (TLAPS)
                         |
                 OperationsRefinement (TLAPS)

ReadImage   IntelHex
         \   /
         Dump <-- MCDump
          ^
   ReadImageProofs (TLAPS)
```

There are three layers. BlockWrite looks at single bytes and half-words inside one block;
Session at commands and replies on the line; Operations takes a call for one command with
effects on the target and looks at what a chain of calls does to its memory. UpdiTimeout is
the side of the firmware that faces the target, Dump the side of the controller that faces the
user's files.

**BlockCopy** is what a block write promises: bytes arrive once and in order, and success is
reported only when all have.

**BlockWrite** is CMD_SENDBLOCK after its size was exchanged, for one block, with four actors:
the controller (`SendPacket`, `CheckResult`), the UART (`Arrive`), the receive interrupt
(`RxInterrupt`), the firmware's main loop (one action per step of the handler, `NextSegment`
to `EndBlock`). The pointer `rxBufPos` is two variables, stored and loaded in two steps, as
the assembly does. A data byte is named by its position in the block, so loss, repetition and
exchange show. `Radix` stands for 256 everywhere it occurs in the code: values of a byte, the
largest segment of the firmware and the packet of the controller. Fast mode is modelled,
because `Config.h:18` builds it: the target acknowledges no byte of a block. A data byte that a
deaf target loses is therefore out of sight of the program, and of the model.

**SerialProtocol** holds the codes of commands and replies, **SerialLink** the two byte
streams, the port and the budget of faults. A byte to the programmer carries, beside its
value, whether it was sent as a command; nobody but a property looks at that.

**Programmer** is `main.cpp`. A handler is a sequence of steps in the order of the code
(acknowledge, receive parameters, talk to the target, answer), and one action runs one kind of
step. `Fail` is the error exits `_UPDI_TIMEOUT`, `_UPDI_NOACK`, `_GENERAL_ERROR`,
`_UPDI_RXERR`: they send `toSend` zeros and the reason, and go to the main or the command loop
depending on `open`. What the target does is external: a step may fail in the ways listed for
it (`noack`, `timeout`, `masked`, `error`, `rxerr`, `erasefail`, `badstatus`), where `masked` is
a silence the handler does not notice.

**Controller** is class FastUPDI and the session loop. A call is the sequence of its reads and
writes; a job is the sequence of calls of a session. What the controller writes beside command
codes and sizes (addresses, rates, the step of a page erase, data) is `WriteData(n)`: any `n`
bytes of `DataBytes`. `CallFails` is every `return false`, with
its two exceptions: START is repeated `startAttempts` times, and the result of
`flash_page_erase` is not used. `TimedOut` is `Serial::Read` giving up, which succeeds all the
same if it got any byte.

**Session** composes them and adds what happens to the line and the process: a crash of the
controller anywhere, a read that gives up although the answer is on its way, a byte lost in
either direction, and `Overrun`, the UART dropping a byte nobody read.

**SessionInvariant** says why they stay in step: `SessionInv`, the invariant the proofs rest on.
It counts, for each step of a call and of a handler, the bytes read and written before it, and
compares the two sides (section 4).

**UpdiTimeout** is the firmware's timeout mechanism: each command as the sequence of
primitives it performs on timer, flag and receiver, run one after the other in any order on a
target that may die at any step and come back between commands. `TakeNothing` returns a
leftover byte when the wait ends with the flag, as `UPDI_receive` does.

**Update** is what an operation on the target's memory promises: it changes only the cells it
may, also when it fails or is cut short, and succeeds only when every cell it must set is set.
A mishap may lead it astray (`Stray`); then nothing is promised (`Wander`) until the next
operation begins.

**Target** is the device as far as the code relies on it: cells of RAM, EEPROM and flash, the
NVM command that is selected, the pointer of `ST`/`LD`. Flash bits can only be cleared: a
second byte in a cell gives `Mixed`. A command does not replace another one
(`NVMCTRL_ERROR_DOUBLESELECT`), a store the NVM is not ready for may get lost.

**Operations** is `Operation.cpp`, `write_image`, `verify_image` and the loop of
`main.cpp:235-288`. An operation becomes the list `todo` of its calls, a call the list of its
steps; each step has one effect on target, link rate or `nvmWrite` (`ResetTarget` to `Load`).
The bytes of an EEPROM section, a `write_byte` each, are one call of as many steps: nothing
comes between them.

| Action | Code |
|---|---|
| `Launch` | the program is started, with `-m` or without: `open`, `start`, `set_baud` (`main.cpp:235-255`) |
| `Refuse` | early returns of an operation before its first call: unknown memory, missing or bad file |
| `BeginOperation` | operands and options are resolved, the calls follow from them (`WriteCalls`, `VerifyImage`, ...); `stripped` is what `try_convert_hex` does to the operand |
| `Proceed` | the next step has its effect |
| `StepFails` | the programmer reports a failure, with the step done or not done, and is through with the call: the session ends, but a failed page erase is ignored (`Operation.cpp:138`) |
| `GivesUp` | a reply stays out or comes too late (`FastUPDI.cpp:626-650`): the controller leaves as for a failure, the programmer is left in the call; after a page erase, which ignores that too, both are astray |
| `RunsByte` | the target refuses the address of SENDBYTE, and the data byte is run as a command (`main.cpp:314-320`): astray |
| `OutputFails` | -R cannot write its file |
| `EndChain`, `EndSession` | `stop`; multi-mode starts the chain again or ends |
| `Kill` | the controller dies anywhere, and the programmer is left in the call |
| `Wander` | what an astray programmer does until a START is run: any step of `StraySteps` |

`Leave` is what happens to a programmer whose controller has gone. `Serial::receive` has no
timeout and opening the port does not reset the board, so it waits for the bytes it has not got
and takes the STARTs of the next sessions for them. `Leftovers` is what it may then still do:
nothing of a command that never reached it, all of one it has got whole, and of a block some of
the bytes, in their order, filled up with STARTs that are stored in the target (`MadeUp`). Where
the STARTs are taken for the place or the size of what is stored or erased (`Blind`), that is,
for the address of SENDBYTE, the size of a block or a parameter of a page erase, the programmer
may go astray (`GoAstray`). `begun` tells whether the call has had a step, so that its parameters
have arrived. The sessions whose STARTs are swallowed are not launched in the model: what they
store counts as the operation's that left the call, and `Launch` waits until the programmer is
through with it, as no session gets further before.

The rate of the link is computed as `UPDI_init` does (`Ubrr`, `ActualRate`): rounded down and
cut to the 12 bits the UART has, so that a rate can come out higher than asked.

**ReadImage** is `read_image`, byte by byte: `SetAddress`, `ReadBlock` (or `ReadFails`),
`TakeByte`, `SkipByte`, `EndLoop`, and the trimming loops one byte at a time. Beside `address`
and `size` a section carries `from`, where the walk of its users (`dataPtr += section.size`)
finds its first byte; the code does not store it, the properties relate it to the stream.

**IntelHex** is `FIntelHex::Read` and `Write` as functions on records: a fold over the records
of a file, with the linear and segment address that outlive a section. `Said` is the reference:
the bytes and addresses a file's records name, without sections.

**Dump** joins them: a memory is read (ReadImage), saved (`Save`) or half saved (`Tear`, the
program is killed while it writes), and loaded again; or a foreign file is loaded.

**MCBlockWrite, MCSession, MCUpdiTimeout, MCOperations, MCDump** give the constants small
values.

## 3. What the runs check

| Run | Checks | Shows |
|---|---|---|
| `block_write` | `TypeOK DataInOrder BufferBound NoOverrun QuietReset TargetFraming IInv`, `Implements`, `Completes` | for every interleaving a block arrives complete and in order and the write ends; it implements BlockCopy |
| `session` | `TypeOK InSync NoMutualWait NoOverrun OkIsOwn SessionInv`, `CallEnds`, `Recovers`, `OnlySendByteStrays` | the sides stay in step through up to three faults of the target, crashes, late answers and bytes lost in either direction; every call returns; a user who tries again gets a session; in a session that has not lost its way only the byte of CMD_SENDBYTE can come to be run as a command, whatever its addresses, rates and data are |
| `updi_timeout` | `TypeOK WaitIsTimed NoFalseTimeout SilenceNoticed`, `TransfersEnd`, `ProgmodeOrSilence` | no wait for the target without a way out; no timeout reported for a flag left over; exactly which commands can take silence for success; the wait for programming mode ends unless the target refuses the mode and goes on answering |
| `operations` | `TypeOK EveryPageErased NoDoubleSelect TidyBetween PacedWrites`, `Implements` | an operation changes only what it may and success leaves its image in place (Update), through failed steps, replies that stay out, kills, the STARTs then stored for the rest of a block, retries and repeated chains; only what leads astray voids that; page erases of neighbouring sections leave no page out; nothing is left over between operations; flash is not written faster than its limit |
| `dump` | `TypeOK ImageTrue StaysInRange ReadInv AsAsked RoundTrip TornIsRefused ReaderFaithful BlocksFit`, `ReadEnds` | what is read is what is there and what the output mode asks for; saved and loaded it is the same; half a file is refused; a foreign file is taken at its word |

Seven runs end in a counterexample, and each is a disagreement of the code with its own words:

| Run | Property | What happens |
|---|---|---|
| `data_as_command` | `CommandsOnly` | CMD_SENDBYTE acknowledges the address before the target did. If the target answers NACK, the firmware leaves for the command loop and the data byte arrives there: 0x96 erases the chip. `main.cpp:566` promises to "preserve communication scheme", but pads only what the controller expects |
| `silent_success` | `SuccessIsReal` | CMD_CHIPERASE never looks at the timeout flag after the key was accepted and sends REPL_OK, "Command performed successfully" (`SerialProtocol.h:37`), when the target has gone silent |
| `ignored_failure` | `NoFailureIgnored` | the result of a page erase is tested by an `if` with an empty statement (`Operation.cpp:138`); the write goes on |
| `updi_hang` | `CommandEnds` | `UPDI_system_reset` (`UPDI.h:267`) polls without looking at the flag. If the target dies in reset, the leftover byte says "in reset" for ever |
| `updi_timer` | `TimeoutAsConfigured` | 320 ms x 16 MHz wraps in 32 bits: the timer gets 805 ticks of 64 microseconds, 51 ms. The `#error` beside it is computed in 64 bits and does not notice |
| `eeprom_write` | `SuccessIsWritten` | `write_image` passes the address of the section to every `write_byte` (`FastUPDI.cpp:46`): a -W of two bytes puts both into the first cell and succeeds, where `README.md:34` says it writes to the target |
| `multi_mode` | `SameEveryRound` | `try_convert_hex` erases the 0x of the operand it is given (`Util.cpp:25`): the second round of a chain with a direct address or byte is refused, where `README.md:48` promises the chain again |

### Bounds, and why they are enough

- `block_write`: `Radix = 3`, blocks of 0 to 8 bytes: up to three segments, the last one full,
  short, or the single byte that skips REPEAT. The buffer begins one byte before a carry of
  the address (`RxBaseL = 2`), so the carry falls inside a segment while the main loop polls;
  `BufSize = 3` leaves the interrupt no byte to spare. What other values do is proved.
- Session: segments and packets of three bytes, blocks of two to four, so that a block takes
  two packets, the second short; `Largest` and `Stray` bound the sizes the firmware can believe
  it was told when its parameters are made of other bytes: one of the sizes a job uses, or
  `Stray = 2` bytes. Data, addresses, rates and the step of a page
  erase are made of three bytes: no command, the code of chip erase, and that of CMD_SENDBLOCK,
  which takes parameters and data; memory has the first two. Sizes are too small here to be
  codes, but `OnlySendByteStrays` asks for the place of a byte and not for its value.
  Three jobs stand for the operations: chip erase, block write, read back; page erase and
  block write; EEPROM by bytes. `MaxFaults = 3` bounds the faults of a behaviour: three
  is enough for a failure while recovering from a failure while retrying.
- `updi_timeout`: `MaxRounds = 2` bounds how often a live target may say "not yet" in one
  command; the loops have no state beside what they read, so a third round is like the second.
- `operations`: a device of two cells of RAM, two of EEPROM and three flash pages of two cells,
  used before (`Mixed`), so that flash never passes for written without an erase. Seven chains
  (`MCOperations.tla`) have sections inside a page, over two pages, in the page where the
  section before ended and right behind it, direct addresses, all memories in a row, flash that
  does not begin with a page, and rates that are too high. `MaxFaults = 3` is a failed step, a
  kill and a failure in the session after it; unanswered and stray steps count too. Data may be
  the codes of chip erase and START. `StraySteps` are an erase of the chip, the page erase
  command, and a store that may meet it. These are 299,520 states. A chain may be launched again as often as the
  user likes; `round` is capped at 2, as a third round is like the second.
- `dump`: all memories of seven cells, blank or not; ranges of 0 to 6 bytes at two bases; up to
  two full sections of three bytes; records of two bytes, addresses that cross a border of 64 K
  (`Radix = 4`) up to two times. Foreign files are all sequences of up to three records of
  fourteen kinds, with an end record behind them or not. `Extent` cuts off what SKIP reads
  beyond the range. A dump ends, so deadlock is not an error there.

### Assumptions worth knowing

- *Settled*. What the controller wrote before has arrived when it writes again, unless the
  interrupt is buffering. The bytes of one write are milliseconds apart from those of the next.
- *Starved*. Whoever starts the controller again does so when the programmer has come to rest,
  waiting for input in the command loop or in the middle of a command. A restart within
  milliseconds of a crash can find an answer of the old session; the port is opened without
  purging.
- `HostTooEarly`: a read gives up before an answer only at the steps that take long (system
  reset, erase, busy NVM): the timeout of 1 s is far longer than anything else takes.
- *Disoriented*. A session that ignored a failed page erase and lost a byte or gave up a read is
  excluded from `InSync`, `OkIsOwn` and `OnlySendByteStrays`: it goes on not knowing how far the
  programmer got, and all three are false of it (a reply that comes late is taken for those of
  the next calls, and the bytes of an address may then be run as commands). That is one more consequence of `Operation.cpp:138`. So does one that
  lost something and has had a data byte run as a command since it was opened (`astray`,
  `data_as_command`): the replies of that command pass for those of another.
- *What START recognises*. A session that follows a broken one takes the signature for proof
  that its START was run. A programmer that is in the middle of a block it reads, and takes the
  new session's STARTs for the missing parameters, answers with the target's memory. If that
  holds an ACK, zero, ACK and the signature in a row, the session starts and is out of step:
  TLC finds it as soon as `MemoryBytes` has these values. The instance leaves them out; the
  theorems hold for any memory, and name the sessions that are excepted (section 4).
- A firmware hung in one of its polling loops (`updi_hang`) is not a fault of Session:
  `Recovers` assumes that it is not, since only a reset of the board would help.
- UpdiTimeout: a live target answers well before the timer expires; a dead one is silent for the
  rest of the command; what the receiver then holds is the last byte, 0 or 255.
- `Serial::receive() | (Serial::receive() << 8)` has no defined order of its calls; the
  release build takes the low byte first, and so does the model.
- Operations promises (`Kept`) RAM always, flash where it was erased, and EEPROM for sections of
  one byte. It does not promise what the code does not do: EEPROM sections of more bytes
  (`eeprom_write`), pages after a failed page erase (`ignored_failure`), page erase of a memory
  that does not begin with a page, whose first page is computed from the base, and flash written
  at a rate the user chose against the limit. Nor does it promise anything of a cell the image
  names twice, or of an image that does not end within the 24 bits of an address (`Fits`,
  `Sent`): such an image may land anywhere.
- What is outside the operation's cells (`Footprint`) is promised through every failure, kill and
  give-up but those that lead astray: a page erase that is not answered, a place or a size made
  up of STARTs, a data byte run as a command. Then the code may change any cell, and Operations
  claims nothing until the next operation begins, after a START. Those of a
  page erase are the pages of the flash where the image has bytes, and the RAM that its dummy
  writes hit when the user calls a place in RAM flash (`-W ... flash`).
- Flash begins with a page (`TargetAssumption`): the page of a flash cell starts at a flash cell.
- The verify pass reads and prints; `verify_image` returns true on mismatches too, so it decides
  nothing. The range that -R reads is ReadImage's subject; in Operations it only moves the
  pointer.
- The same target stays connected over the rounds of multi-mode. With another one every round
  begins as the first does.
- `Sound`: `ImageTrue` and `AsAsked` leave out trimming at the start where the range needs more
  than one section: the code moves the *last* section's address (`FastUPDI.cpp:222-231`).
  `StaysInRange` and `ReadEnds` leave out SKIP, which reads another byte for each it skips
  (`FastUPDI.cpp:161-164`) and so goes on beyond the range.

### Fairness

- BlockWrite: weak fairness of each actor: two processors that run, a UART that shifts and an
  interrupt that is served. No actor is assumed faster than another, but for `Arrive`: an
  enabled interrupt empties the UART before it overruns, which is what `SERIAL_MAX_BAUD`
  is computed for.
- Session: weak fairness of the firmware, of the controller's steps, of its read timeout
  (`SetCommTimeouts` gives one to every read) and of the user who starts it again. Faults are
  never forced, and bounded, so "once faults stop" is every behaviour.
- UpdiTimeout: the processor runs and the timer counts. A target's dying is not forced.
- Dump: the controller goes on while it reads. That a call fails is not forced.
- Operations has safety properties only: that calls return is Session's `CallEnds`.

## 4. What is proved

`BlockWriteProofs` proves, for every `Radix > 1`, every block size up to any `MaxSize`, every
address of the buffer, every `FifoDepth > 0` and every `BufSize >= Radix`:

| Theorem | States |
|---|---|
| `Accounted` | `Spec => []IInv` |
| `TypeCorrect` | `Spec => []TypeOK`: no counter leaves its width |
| `InOrder` | `Spec => []DataInOrder` |
| `InBounds` | `Spec => []BufferBound` |
| `NothingLost` | `Spec => []NoOverrun` |
| `ResetUndisturbed` | `Spec => []QuietReset` |
| `FramingKept` | `Spec => []TargetFraming` |
| `Refinement` | `Spec => Implements`: every step is a step of BlockCopy or invisible |

The assumptions are the five named ones of BlockWrite; TLC evaluates them in `block_write`. The
code has 256, the linker's address, 1024, 3 and 65535.

The argument. None of the properties is inductive: that the byte arriving now lands in the
right place depends on what the controller counted, on the pointer and on how far the firmware
has read. `IInv` says, for each value of the firmware's program counter, where every byte of
the block is. *Between segments* nothing is in flight and controller and target have the same
prefix. While a segment is *prepared* that is still so, and the pointer and REPEAT get their
values one after the other. While it is *transferred* either the ACK is on its way or the
packet is, split between line, FIFO and buffer, each part holding the bytes it should, and the
firmware has taken a prefix of what the buffer received. `SameCut` says that both sides cut
here. The step that needs thought is `PollHi`: the two halves of the pointer may have been
loaded on either side of a carry, but the loaded value can equal `sendPos` wrongly only for one
more round, and can differ from it only if a byte has arrived, because an unchanged pointer
would have been loaded right. There is one lemma per action, and under it one step per part of
`IInv` that the action disturbs.

`ReadImageProofs` proves, for every memory, every range within it, every size
of section, every output mode, and every set of foreign files:

| Theorem | States |
|---|---|
| `ReadInvariant` | `ReadSpec => []ReadInv` |
| `DumpTrue` | `ReadSpec => []ImageTrue`: each byte of the image is the memory's at the address its section gives it |
| `NeverBeyond` | `ReadSpec => []StaysInRange` |
| `DumpReads` | `Spec => ReadSpec`: with saving and loading beside it a read still is one |
| `DumpIsSafe` | `Spec => [](ReadInv /\ ImageTrue /\ StaysInRange)` |

The assumption is `ReadImageAssumption`, which TLC evaluates in `dump`.

The argument. `ImageTrue` alone is not inductive: the byte taken next is right only if the
chunk is what memory holds from `address` on (`ChunkTrue`), and its place is right only if
`imageAddress` is behind the last section and the sections lie before `address` in memory
(`Behind`) and without gaps in the stream (`Walkable`, `InTurn`). `Counted` ties the bytes left
to the address, which keeps the range. While the end is trimmed every section keeps its bytes.
While the *start* is trimmed the byte goes from the front of the stream and the last section
moves: the two agree only where there is one section, which is what `OneSection` says of
ranges that `Sound` allows. `ShortenedFacts` and `TrimmingKeeps` hold what both ends share.

`UpdiTimeoutProofs` proves, for every set of commands and any `MaxRounds`:

| Theorem | States |
|---|---|
| `Invariant` | `Spec => []IInv` |
| `TypeCorrect` | `Spec => []TypeOK` |
| `EveryWaitIsTimed` | `Spec => []WaitIsTimed` |
| `NoTimeoutIsFalse` | `Spec => []NoFalseTimeout` |
| `SilenceIsNoticed` | `Spec => []SilenceNoticed` |

The assumptions are `CommandsAssumption` and `MaxRoundsAssumption`, which TLC evaluates in
`updi_timeout`.

The argument. What a wait or a look at the flag relies on is in the past of the program it is
part of: the timer was started and not stopped since (`Timed`); it was started, which clears the
flag, since the controller was waited for (`Fresh`); the target was waited for since then
(`Asked`). `WellMade` says that every primitive of a program is so founded, and the lemmas show
it for the pieces of `UPDI.h` and of each handler: it is closed under putting programs one
after another, so each handler is proved along its text. `Watched` says of the handlers that
look at the flag after their last wait that they do; chip erase does not, which is
`silent_success`. `IInv` then ties the foundations to the state: where the timer was started it
runs or has expired (`TimerRuns`), a flag that is fresh means a silent target (`FlagIsFresh`),
a silent target is dead and the flag tells of it (`SilenceIsTold`), and a handler that watches
has a check of the flag before it (`SilenceIsComing`).

`OperationsProofs` proves, for every chain of operations, every image, every set of memories
and any number of faults:

| Theorem | States |
|---|---|
| `Invariant` | `Spec => []IInv` |
| `TypeCorrect` | `Spec => []TypeOK` |
| `NeverDoubleSelect` | `Spec => []NoDoubleSelect` |
| `TidyInBetween` | `Spec => []TidyBetween` |
| `WritesArePaced` | `Spec => []PacedWrites` |

The assumptions are those of Operations and Target, evaluated in `operations`. Two say more than
types. A section has 1 to 32768 + 255 bytes, which is what the formats make of every record but
an empty one (section 5). `PaceAssumption`: the limit of the device, or the device's rate where
that is lower, is one that the UART can be set to within a percent. Without it `PacedWrites` is
false, as `UPDI_init` rounds the divisor down; the theorem shows that nothing else is needed.

The argument. All three properties are about the calls an operation has yet to make, so `IInv`
is about `ctl.todo`. *Settled*: if the rest of the calls is made, NVM command, wait and rate
will be the defaults, because they are and no call spoils them, or because some call makes them
so and none spoils them after (`Settles`). *Prepared*: a step that selects a command has one
that clears right before it, or is the first step of a call with none selected before. *Steady*:
the rest of the calls writes no flash, or each block is written at a slow rate. These are shown
of the calls of every operation (`PlannedFacts`, from `WriteCallsFacts` and one lemma per call
of `FastUPDI.cpp`), and kept by what can happen to the list: a step is taken (`Advancing`); a
failed page erase is dropped, which may leave its command selected but makes nothing that others
rely on (`Dropping`); all but a part of the first call is dropped when the controller leaves.
There is one lemma per action. `IInv` also holds in the instance of `operations`, where it was
checked before it was proved.

`OperationsRefinement` proves, under the same assumptions and as generally:

| Theorem | States |
|---|---|
| `Standings` | `Spec => []RInv` |
| `PagesErased` | `Spec => []EveryPageErased` |
| `OperationsImplementUpdate` | `Spec => Implements`, which is `U!Spec` |

The argument. `IInv` says what the steps ahead leave behind, not what the steps taken have made
of the memory, and both properties are about that. `RInv` adds where the operation is: while -W
runs, `ctl.todo` is what is left of its plan, `WriteCalls`, at some place: call `j`, of which `i`
steps are taken (`Left`). The plan itself is laid out by `PlanFacts`: erases, rate override,
enabling the NVM, one or two calls per section, and calls that only close. `Progress` says what
holds at a place, for an image that fits the address space:

- `PlaceRate`, `PlaceWaits`, `PlaceNvm`, `PlacePtr`: rate, wait, NVM command and pointer are
  what the calls before have made them.
- `PlaceBlank`: a cell of flash that a step before has erased, and none has written, is blank,
  unless an erase that failed excuses it.
- `PlaceWritten`: a byte that was written, and is promised, is in its cell.

Each has a lemma that a step keeps it (`RateMoves` to `WrittenMoves`, together
`ProgressMoves`), and `ProgressDrops` shows the same of a page erase that fails, which the code
ignores. The heart of it is that the pages an erase leaves out are erased: `Coverage` takes the
first section that reaches a page, and shows that this section's erase includes it; otherwise it
would be the last page of the section before, which would then have reached it first. So nothing
is assumed of the order or overlap of sections, although `lastErasedPage` remembers one page only.

What an operation leaves alone is shown of the calls ahead. `Confined` says that each is within
the operation's footprint, and that a dummy write never meets a selected EEPROM command. Of the
call that a controller leaves under way, `LeftoverHarmless` shows more than it would need if the
programmer just stopped: whatever part of a block has arrived, and with STARTs for the rest, the
bytes go to the place the block has, one after the other, and no further than its size
(`Harmless`); a block or a byte goes where its address says. `LeavingKeeps` and `WanderKeeps`
keep `RInv` through that; once astray, `RInv` claims nothing of the memory. `RInv` too was
checked on the instance of `operations`, with `j` and `i` bounded, before it was proved.

The refinement has one lemma per action. The mapping sends footprint, promise, outcome and
faults of an operation to `may`, `must`, `outcome` and `mishaps`; every step of the target is
`Change`, the last one `Succeed` (`PromiseIsKept`), a failed page erase `Excuse`, what leads
astray `Stray`, and any other failure, refusal, give-up or kill `Fail` (`LeavingImplements`,
`WanderImplements`).

`SessionSteps` and `SessionProofs` prove, for every set of jobs, every segment,
every size, every memory and any number of faults of any kind:

| Theorem | States |
|---|---|
| `TypeCorrect` | `Spec => []TypeOK` |
| `NeverBothWait` | `Spec => []NoMutualWait` |
| `NeverOverrun` | `Spec => []NoOverrun`, for a UART that holds at least three bytes |
| `CleanSessions` | `Spec => []CleanInStep`: a clean session is in step at every byte, and takes no OK for another's |
| `AlwaysInStep` | `Spec /\ [][~Mistakable]_vars => []SessionInv` |
| `AlwaysInSync` | `Spec /\ [][~Mistakable]_vars => []InSync` |
| `AlwaysOwnOk` | `Spec /\ [][~Mistakable]_vars => []OkIsOwn` |
| `AlwaysOnlySendByte` | `Spec /\ [][~Mistakable]_vars => []OnlySendByteStrays` |
| `InStepWithAnyMemory` | `Spec /\ [][~StartsOnRead]_vars => [](SessionInv /\ InSync /\ OkIsOwn)` |

The assumptions are the eight named ones of Programmer, Controller and Session, evaluated in
`session`. `IsJob` says what `main.cpp:244-272` makes of any chain: START first, STOP last,
neither in between, and no empty block to read. `SameSegments` is that the controller's
`data_packet_size` is the firmware's segment. `NeverOverrun` needs
room for three bytes in the UART, as the ATmega2560 has. The others hold of every memory, but for
behaviours with a `Mistakable` session: one that is opened while the programmer is still to send
an older one a block or a byte of the target's memory, where that may hold 0x1E, the first byte
of the signature. A controller killed anywhere else, or one whose reading was over, is covered
whatever the target holds; so are reads that were cut short, if the memory read has no 0x1E. The
exception is needed (section 3, *What START recognises*): the code has nothing by which to tell
that reply from its own. `InStepWithAnyMemory` is the corollary that does not speak of the data.

The argument. Which bytes mean what depends on how far both sides are, and neither tells the
other; so none of the properties is inductive. But both run fixed programs. `HasRead` and
`HasWritten` count what a call has read and written before each of its steps, `HasSent` and
`HasGot` the same of a handler, each with the round of its loop apart. `SessionInv` says that
what one side has written and the other has not read is in flight (`Level`): exactly that in a
clean session, at most that after a loss. A call is in one of five phases: it has not reached the
programmer (`Fresh`), its handler runs (`Underway`), REPL_OK was sent (`Done`), a failure was
sent (`Failed`), or SENDBYTE has failed with its data byte still to come (`ByteFailed`), which is
where a data byte can be run as a command.

`SessionSteps` has the tables: of each call and each handler, step by step, that the counts grow
by what the step reads or writes. It has what each action changes and that it keeps the types
(`TypeCorrect`), and facts that relate a call to its handler. *Meets*: the controller has written
what the handler has asked for and no more, and where both sides read it has written all of it;
so they never wait for each other (`NoMutualWait`). *Ends*: when a handler reaches its last step,
it has sent all the call reads before its result, and got all the call writes. *Lands*: what a
handler sends when it fails, its zeros and the reason, brings the controller to a step that judges
one reply, so that it is the reason that is judged. A loss only lowers one side of an inequality,
so it keeps the phase; where the counts are exact, a byte of the reply is known by its place.

A session that begins on what a broken one left behind has no counts to compare. `Starting` says
instead what the controller's first call may find: only STARTs are sent until the address of the
signature is (`StartsSent`); a START that takes part of the STARTs for its address gets no whole
address out of them (`AddressAhead`); so the signature that is read was sent by a START that got
the address, which is the last thing the programmer does before it is in step (`SignatureComes`,
`SignatureRead`). `Oriented` puts the two together: `Starting` while the first call runs, the
counts after it.

`SessionInv` was checked in all 140,054 states of the instance before it was proved.

`OnlySendByteStrays` follows from `SessionInv` and the tables. While a handler runs or a call is
failing, every byte on the way is accounted for, so a byte that the command loop is about to take
is the first of a call, unless SENDBYTE has failed after its address (`ByteFailed`). The values of
the bytes do not enter.

Only model-checked. Of Dump, `TypeOK`; `AsAsked`, `RoundTrip`, `TornIsRefused`,
`ReaderFaithful` and `BlocksFit`, which are about folds over data (induction over data is out of
the prover's reach); what of `TypeOK` concerns the reading is part of `ReadInv`. `Completes`,
`CallEnds`, `Recovers`, `ReadEnds`, `TransfersEnd` and `ProgmodeOrSilence` are liveness.

## 5. Not modelled, and why

- The guard time of `UPDI_init`, bit timing, the half-duplex pin: below the level at which the
  program keeps state.
- `recover` and `reset_target` of the controller, and the forms of `write_image` and
  `verify_image` that take a name: nothing calls them, and the firmware has no CMD_RECOVER. The
  handler of CMD_RESETTGT is modelled, and reached by stray bytes.
- The parsers of the command line and of configuration files (`Config`, `Options`,
  `Serialization.h`, `Utf.h`), progress bars and messages: text without state that another
  component reads back. What the operations use of them is in the records of a job.
- The text of Intel HEX: digits, the checksum's arithmetic. A record is good or not.
- The target is external: Target says what the code assumes of it, Programmer and UpdiTimeout
  how it fails.

Seen while reading and left to no property: -R's output mode is parsed and never applied, as
a dangling `else` belongs to another `if` (`Operation.cpp:285-297`); a data record of no bytes
leaves a section of size 0, whose last page is computed from -1 (`IntelHex.cpp:91`,
`Operation.cpp:135`); `verify_image` returns true on mismatches.

## 6. Plan

Done, in the order of importance: BlockWrite with its proofs; the protocol (Programmer,
Controller, Session); UpdiTimeout; Operations with its abstract specification; ReadImage with
its proofs, IntelHex and Dump; the proofs of UpdiTimeout, of what Operations leaves behind and
of its refinement; the proofs of Session.
Left:

1. **CommandChannel**: what a call promises its caller (performed, refused, or unknown after a
   timeout), and Session shown to implement it, so that the steps of Operations rest on it.
2. **BlockRead**: CMD_GETBLOCK while receive errors occur, at the granularity of bytes.

## 7. Running it

`tlc -config MCBlockWrite.cfg MCBlockWrite` and so on, one configuration per row of the tables
above; `tlapm` on `BlockWriteProofs.tla`, `ReadImageProofs.tla`, `UpdiTimeoutProofs.tla`,
`OperationsProofs.tla`, `OperationsPlan.tla`, `OperationsRefinement.tla`, `SessionSteps.tla` and
`SessionProofs.tla` checks the proofs. The last two are long: about 15 minutes together from nothing.

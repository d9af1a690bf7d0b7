----------------------------- MODULE SessionProofs -----------------------------
(***************************************************************************)
(* The two sides of Session stay in step: SessionInv is an invariant, and  *)
(* the safety properties follow.  Proved for every set of jobs, every      *)
(* segment, every size and any number of faults of any kind.  What starts  *)
(* with an idle programmer and loses nothing needs no more than that       *)
(* (CleanInv).  A session that starts on what a broken one left behind     *)
(* knows its START by the signature alone (Oriented): either the target's  *)
(* memory does not hold the first byte of it, or no session is started     *)
(* while the programmer is still to send bytes of that memory.             *)
(***************************************************************************)
EXTENDS SessionSteps

USE DEF CMD_NONE, CMD_SENDBYTE, CMD_SENDBLOCK, CMD_GETBYTE, CMD_GETBLOCK, CMD_SETADDR,
        CMD_CHIPERASE, CMD_FLASH_PAGE_ERASE, CMD_FLASH_WR_EN, CMD_EEPROM_WR_EN,
        CMD_NVM_WR_DIS, CMD_START, CMD_SETBAUD, CMD_RESETTGT, CMD_STOP,
        REPL_OK, REPL_INVALID, REPL_ERROR, REPL_TIMEOUT, REPL_UPDINOACK, REPL_UPDIRXERR,
        REPL_ERASEFAIL, REPL_ACK

-------------------------------------------------------------------------------
(* The two sides in step: what the counts say *)

Counting(call, j) == Looped(call, j) /\ Counted(call, j)

LEMMA UnderwayAt ==
  ASSUME NEW call, Underway(call)
  PROVE  /\ \E j \in 0 .. Rounds(call) : Counting(call, j)
         /\ Running /\ fw.cmd = call.cmd /\ Open /\ SizeIsCalls(call) /\ OnlyData
BY Zenon DEF Underway, Counting

\* The counts of both sides, at the steps they have reached
Tally(call, j) ==
  LET read == HasRead(call, host.at)
      sent == HasSent(call.cmd, fw.step) + j
      got  == HasGot(call.cmd, fw.step) + Len(fw.args) + BlockOf(call, j) - fw.seg
      written == HasWritten(call, host.at)
  IN  /\ read + Len(toHost) <= sent
      /\ host.clean => read + Len(toHost) = sent
      /\ got + Len(toProg) <= written
      /\ host.clean => got + Len(toProg) = written

\* They are numbers
Tallied(call, j) ==
  /\ HasRead(call, host.at) \in Nat /\ HasWritten(call, host.at) \in Nat
  /\ HasSent(call.cmd, fw.step) \in Nat /\ HasGot(call.cmd, fw.step) \in Nat
  /\ BlockOf(call, j) \in Nat /\ j \in Nat /\ fw.seg \in Nat
  /\ Len(toHost) \in Nat /\ Len(toProg) \in Nat /\ Len(fw.args) \in Nat
  /\ Gets(call.cmd, fw.step) \in 0 .. 3
  /\ fw.step \in Nat /\ host.at \in Nat

LEMMA GetsFew ==
  ASSUME NEW cmd \in Commands, NEW s \in DOMAIN Handlers[cmd]
  PROVE  /\ Gets(cmd, s) \in 0 .. 3
         /\ Gets(cmd, s) > 0 <=> Handlers[cmd][s].op \in {"recv", "size"}
<1>1. OpFields(cmd, s)
  BY OpsMean DEF OpMeans
<1> QED  BY <1>1 DEF OpFields, Gets

\* Where both sides are while a handler runs
LEMMA BothSides ==
  ASSUME FwAlone, LinkTypes, HostTypes, InSession, NEW call, call = Current,
         Running, fw.cmd = call.cmd, NEW j \in 0 .. Rounds(call), Counting(call, j)
  PROVE  /\ IsCall(call) /\ host.at \in 1 .. LastStep(call) /\ LastStep(call) \in Nat
         /\ fw.step \in DOMAIN Handlers[call.cmd] /\ Step = Handlers[call.cmd][fw.step]
         /\ fw.step >= 1 /\ fw.step <= LastOp(call.cmd)
         /\ Round(call, fw.step, j) /\ Meets(call, fw.step, host.at, j)
         /\ Tally(call, j) /\ Tallied(call, j)
         /\ Step.op # "packets" => fw.seg = 0
         /\ Step.op \notin {"recv", "size"} => Len(fw.args) = 0
<1>1. /\ IsCall(call) /\ host.at \in 1 .. LastStep(call) /\ LastStep(call) \in Nat
      /\ Moves(call, host.at) /\ host.at \in Nat
  BY Calling
<1>2. /\ Step = Handlers[call.cmd][fw.step] /\ fw \in FwShape /\ call.cmd \in Commands
      /\ fw.step \in Nat /\ fw.step >= 1 /\ fw.step <= LastOp(call.cmd)
      /\ OpPlaces(call.cmd, fw.step) /\ OpMoves(call.cmd, fw.step)
  BY Here
<1>3. fw.step \in DOMAIN Handlers[call.cmd]
  BY DEF FwAlone, FwTypes
<1>4. Round(call, fw.step, j)
  BY DEF Counting, Looped, Round
<1>5. j \in Nat /\ BlockOf(call, j) \in Nat /\ (call.cmd # CMD_SENDBLOCK => BlockOf(call, j) = 0)
      /\ (call.cmd = CMD_SENDBLOCK => BlockOf(call, j) = Upto(j, call.n))
  BY <1>1, BlockFacts
<1>6. Meets(call, fw.step, host.at, j)
  BY <1>1, <1>3, <1>4, <1>5, SidesMeet
<1>7. /\ Step.op # "packets" => fw.seg = 0
      /\ Step.op \notin {"recv", "size"} => fw.args = << >>
  BY HeldHere, Zenon
<1>8. Step.op \notin {"recv", "size"} => Len(fw.args) = 0
  BY <1>7
<1>9. BlockGot(call, j) = BlockOf(call, j) - fw.seg
  <2>1. fw.seg \in Nat
    BY <1>2 DEF FwShape
  <2>2. Step.op = "packets" => call.cmd = CMD_SENDBLOCK
    BY <1>2 DEF OpPlaces
  <2> QED  BY <1>5, <1>7, <2>1, <2>2 DEF BlockGot
<1>10. Tallied(call, j)
  <2>1. HasRead(call, host.at) \in Nat /\ HasWritten(call, host.at) \in Nat
    BY <1>1 DEF Moves
  <2>2. HasSent(call.cmd, fw.step) \in Nat /\ HasGot(call.cmd, fw.step) \in Nat
    BY <1>2 DEF OpMoves
  <2>3. fw.seg \in Nat /\ Len(fw.args) \in Nat
    BY <1>2 DEF FwShape
  <2>4. Len(toHost) \in Nat /\ Len(toProg) \in Nat
    BY DEF LinkTypes
  <2>5. Gets(call.cmd, fw.step) \in 0 .. 3
    BY <1>2, <1>3, GetsFew
  <2> QED  BY <1>1, <1>2, <1>5, <2>1, <2>2, <2>3, <2>4, <2>5 DEF Tallied
<1>11. Tally(call, j)
  <2>1. Counted(call, j)
    BY DEF Counting
  <2> QED  BY <1>9, <1>10, <2>1 DEF Counted, Level, Tally, Tallied
<1> QED  BY <1>1, <1>2, <1>3, <1>4, <1>6, <1>7, <1>8, <1>10, <1>11

\* There are never more bytes under way than the handler has room for
LEMMA Room ==
  ASSUME FwAlone, LinkTypes, HostTypes, InSession, NEW call, call = Current,
         Running, fw.cmd = call.cmd, NEW j \in 0 .. Rounds(call), Counting(call, j)
  PROVE  /\ Step.op \in {"recv", "size"} => Len(fw.args) + Len(toProg) <= Gets(call.cmd, fw.step)
         /\ Step.op = "packets" => Len(toProg) <= fw.seg
         /\ Step.op \notin {"recv", "size", "packets"} => Len(toProg) <= 3
<1>1. /\ Step = Handlers[call.cmd][fw.step] /\ Meets(call, fw.step, host.at, j)
      /\ Tally(call, j) /\ Tallied(call, j)
      /\ Step.op # "packets" => fw.seg = 0
      /\ Step.op \notin {"recv", "size"} => Len(fw.args) = 0
      /\ call.cmd \in Commands /\ fw.step \in DOMAIN Handlers[call.cmd]
  BY BothSides, CallCommands
<1>2. Step.op = "packets" => Gets(call.cmd, fw.step) = 0
  BY <1>1 DEF Gets
<1> DEFINE op == Step.op
           read == HasRead(call, host.at)
           sent == HasSent(call.cmd, fw.step) + j
           got == HasGot(call.cmd, fw.step) + BlockOf(call, j)
           written == HasWritten(call, host.at)
           gets == Gets(call.cmd, fw.step)
<1>3. read <= sent /\ (op = "packets" \/ got <= written) =>
        written <= got + IF op \in {"recv", "size", "packets"} THEN gets ELSE 3
  BY <1>1 DEF Meets
<1>4. /\ read \in Nat /\ written \in Nat
      /\ HasSent(call.cmd, fw.step) \in Nat /\ HasGot(call.cmd, fw.step) \in Nat
      /\ BlockOf(call, j) \in Nat /\ j \in Nat /\ gets \in Nat
      /\ fw.seg \in Nat /\ Len(toHost) \in Nat /\ Len(toProg) \in Nat /\ Len(fw.args) \in Nat
  BY <1>1 DEF Tallied
<1>5. sent \in Nat /\ got \in Nat
  BY <1>4
<1>6. /\ read + Len(toHost) <= sent
      /\ HasGot(call.cmd, fw.step) + Len(fw.args) + BlockOf(call, j) - fw.seg + Len(toProg) <= written
  BY <1>1 DEF Tally
<1>7. got + Len(fw.args) - fw.seg + Len(toProg) <= written
  BY <1>4, <1>6
<1> HIDE DEF op, read, sent, got, written, gets
<1>8. op # "packets" => fw.seg = 0
  BY <1>1 DEF op
<1>9. op \notin {"recv", "size"} => Len(fw.args) = 0
  BY <1>1 DEF op
<1>10. op = "packets" => gets = 0
  BY <1>2 DEF op, gets
<1>11. CASE op = "packets"
  <2>1. written <= got + gets
    BY <1>3, <1>4, <1>5, <1>6, <1>11 DEF read, sent, written
  <2>2. Len(toProg) <= fw.seg
    BY <1>4, <1>5, <1>7, <1>9, <1>10, <1>11, <2>1
  <2> QED  BY <1>11, <2>2 DEF op
<1>12. CASE op \in {"recv", "size"}
  <2>1. got <= written
    BY <1>4, <1>5, <1>7, <1>8, <1>12
  <2>2. written <= got + gets
    BY <1>3, <1>4, <1>5, <1>6, <1>12, <2>1
  <2>3. Len(fw.args) + Len(toProg) <= gets
    BY <1>4, <1>5, <1>7, <1>8, <1>12, <2>2
  <2> QED  BY <1>12, <2>3 DEF op, gets
<1>13. CASE op \notin {"recv", "size", "packets"}
  <2>1. got <= written
    BY <1>4, <1>5, <1>7, <1>8, <1>13
  <2>2. written <= got + 3
    BY <1>3, <1>4, <1>5, <1>6, <1>13, <2>1
  <2>3. Len(toProg) <= 3
    BY <1>4, <1>5, <1>7, <1>8, <1>13, <2>2
  <2> QED  BY <1>13, <2>3 DEF op
<1> QED  BY <1>11, <1>12, <1>13

-------------------------------------------------------------------------------
(* A handler goes on *)

\* The programmer moves, the controller does not
HostRests == UNCHANGED <<host, portOpen>>

\* The handler of the call runs, and is in its round j
Inside(call, j) ==
  /\ FwAlone /\ LinkTypes /\ HostTypes /\ InSession /\ call = Current
  /\ Running /\ fw.cmd = call.cmd /\ Open /\ SizeIsCalls(call) /\ OnlyData
  /\ j \in 0 .. Rounds(call) /\ Counting(call, j)

\* What the tables say of it
Known(call, j) ==
  /\ IsCall(call) /\ host.at \in 1 .. LastStep(call) /\ LastStep(call) \in Nat
  /\ fw.step \in DOMAIN Handlers[call.cmd] /\ Step = Handlers[call.cmd][fw.step]
  /\ fw.step \in Nat /\ fw.step >= 1 /\ fw.step <= LastOp(call.cmd) /\ LastOp(call.cmd) \in Nat
  /\ OpPlaces(call.cmd, fw.step) /\ OpMoves(call.cmd, fw.step)
  /\ Rounds(call) \in Nat /\ j \in Nat
  /\ Round(call, fw.step, j) /\ Tally(call, j) /\ Tallied(call, j)
  /\ Step.op # "packets" => fw.seg = 0
  /\ Step.op \notin {"recv", "size"} => Len(fw.args) = 0
  /\ call.cmd \in Commands

LEMMA Knows ==
  ASSUME NEW call, NEW j, Inside(call, j)
  PROVE  Known(call, j)
<1>1. /\ FwAlone /\ LinkTypes /\ HostTypes /\ InSession /\ call = Current
      /\ Running /\ fw.cmd = call.cmd /\ j \in 0 .. Rounds(call) /\ Counting(call, j)
  BY DEF Inside
<1>2. /\ IsCall(call) /\ host.at \in 1 .. LastStep(call) /\ LastStep(call) \in Nat
      /\ fw.step \in DOMAIN Handlers[call.cmd] /\ Step = Handlers[call.cmd][fw.step]
      /\ Round(call, fw.step, j) /\ Tally(call, j) /\ Tallied(call, j)
      /\ Step.op # "packets" => fw.seg = 0
      /\ Step.op \notin {"recv", "size"} => Len(fw.args) = 0
  BY <1>1, BothSides
<1>3. /\ fw.step \in Nat /\ fw.step >= 1 /\ fw.step <= LastOp(call.cmd) /\ LastOp(call.cmd) \in Nat
      /\ OpPlaces(call.cmd, fw.step) /\ OpMoves(call.cmd, fw.step) /\ call.cmd \in Commands
  BY <1>1, Here
<1>4. Rounds(call) \in Nat /\ j \in Nat
  BY <1>1, <1>2, BlockFacts
<1> QED  BY <1>2, <1>3, <1>4 DEF Known

\* What it has sent and what it has received
SentBy(call, j) == HasSent(call.cmd, fw.step) + j
GotBy(call, j)  == HasGot(call.cmd, fw.step) + Len(fw.args) + BlockGot(call, j)

LEMMA Balance ==
  ASSUME NEW call, NEW j, Known(call, j), Counted(call, j)
  PROVE  /\ SentBy(call, j) \in Nat /\ GotBy(call, j) \in Int
         /\ SentBy(call, j) = HasSent(call.cmd, fw.step) + j
         /\ GotBy(call, j) = HasGot(call.cmd, fw.step) + Len(fw.args) + BlockOf(call, j) - fw.seg
         /\ HasRead(call, host.at) \in Nat /\ HasWritten(call, host.at) \in Nat
         /\ Len(toHost) \in Nat /\ Len(toProg) \in Nat
         /\ Level(HasRead(call, host.at) + Len(toHost), SentBy(call, j))
         /\ Level(GotBy(call, j) + Len(toProg), HasWritten(call, host.at))
<1>1. /\ HasRead(call, host.at) \in Nat /\ HasWritten(call, host.at) \in Nat
      /\ HasSent(call.cmd, fw.step) \in Nat /\ HasGot(call.cmd, fw.step) \in Nat
      /\ BlockOf(call, j) \in Nat /\ j \in Nat /\ fw.seg \in Nat
      /\ Len(toHost) \in Nat /\ Len(toProg) \in Nat /\ Len(fw.args) \in Nat
  BY DEF Known, Tallied
<1>2. BlockGot(call, j) = BlockOf(call, j) - fw.seg
  <2>1. Step.op # "packets" => fw.seg = 0
    BY DEF Known
  <2>2. Step.op = "packets" => call.cmd = CMD_SENDBLOCK
    BY DEF Known, OpPlaces
  <2> QED  BY <1>1, <2>1, <2>2 DEF BlockGot, BlockOf
<1>3. SentBy(call, j) \in Nat
  BY <1>1 DEF SentBy
<1>4. GotBy(call, j) = HasGot(call.cmd, fw.step) + Len(fw.args) + BlockOf(call, j) - fw.seg
      /\ GotBy(call, j) \in Int
  BY <1>1, <1>2 DEF GotBy
<1>5. SentBy(call, j) = HasSent(call.cmd, fw.step) + j
  BY DEF SentBy
<1>6. /\ Level(HasRead(call, host.at) + Len(toHost), SentBy(call, j))
      /\ Level(GotBy(call, j) + Len(toProg), HasWritten(call, host.at))
  BY Zenon DEF Counted, SentBy, GotBy
<1> QED  BY <1>1, <1>3, <1>4, <1>5, <1>6

\* It is now in round k, and has sent and received what its counts say
LEMMA CountsMove ==
  ASSUME NEW call, NEW j, Known(call, j), Counted(call, j), UNCHANGED host,
         NEW k, NEW u \in Nat, NEW v \in Nat,
         SentBy(call, k)' = SentBy(call, j) + u, GotBy(call, k)' = GotBy(call, j) + v,
         Len(toHost') = Len(toHost) + u, Len(toProg') + v = Len(toProg), Len(toProg') \in Nat
  PROVE  Counted(call, k)'
<1> DEFINE read == HasRead(call, host.at)
           written == HasWritten(call, host.at)
           sent == SentBy(call, j)
           got == GotBy(call, j)
           sent2 == SentBy(call, k)'
           got2 == GotBy(call, k)'
<1>1. /\ read \in Nat /\ written \in Nat /\ sent \in Nat /\ got \in Int
      /\ Len(toHost) \in Nat /\ Len(toProg) \in Nat
      /\ Level(read + Len(toHost), sent) /\ Level(got + Len(toProg), written)
      /\ sent2 = sent + u /\ got2 = got + v
  BY Balance
<1>2. Len(toHost') \in Nat /\ sent2 \in Nat /\ got2 \in Int
  BY <1>1
<1> HIDE DEF read, written, sent, got, sent2, got2
<1>3. /\ read + Len(toHost') <= sent2 /\ (host.clean => read + Len(toHost') = sent2)
      /\ got2 + Len(toProg') <= written /\ (host.clean => got2 + Len(toProg') = written)
  BY <1>1, <1>2 DEF Level
<1>4. /\ Level(HasRead(call, host.at) + Len(toHost), SentBy(call, k))'
      /\ Level(GotBy(call, k) + Len(toProg), HasWritten(call, host.at))'
  <2>1. /\ read = HasRead(call, host'.at) /\ written = HasWritten(call, host'.at)
        /\ host'.clean = host.clean
    BY DEF read, written
  <2> QED  BY <1>3, <2>1, Zenon DEF Level, sent2, got2
<1> QED  BY <1>4, Zenon DEF Counted, SentBy, GotBy

LEMMA StaysUnderway ==
  ASSUME NEW call, NEW k \in 0 .. Rounds(call), Running', fw'.cmd = call.cmd, Open',
         Looped(call, k)', Counted(call, k)', SizeIsCalls(call)', OnlyData'
  PROVE  Underway(call)'
BY DEF Underway

\* What stays in flight is still no command
LEMMA StaysData ==
  ASSUME OnlyData, LinkTypes, NEW k \in 0 .. Len(toProg),
         toProg' = SubSeq(toProg, k + 1, Len(toProg))
  PROVE  OnlyData' /\ Len(toProg') = Len(toProg) - k /\ Len(toProg') \in Nat
<1>1. toProg \in Seq(Sending) /\ Len(toProg) \in Nat /\ k \in Nat
  BY DEF LinkTypes
<1>2. Len(toProg') = Len(toProg) - k /\ DOMAIN toProg' = 1 .. Len(toProg) - k
      /\ \A i \in 1 .. Len(toProg) - k : toProg'[i] = toProg[i + k]
  BY <1>1
<1>3. \A i \in 1 .. Len(toProg) - k : i + k \in DOMAIN toProg
  BY <1>1
<1>4. \A i \in DOMAIN toProg' : ~toProg'[i].cmd
  BY <1>2, <1>3 DEF OnlyData
<1> QED  BY <1>1, <1>2, <1>4 DEF OnlyData

LEMMA TailIsData ==
  ASSUME OnlyData, LinkTypes, toProg # << >>, toProg' = Tail(toProg)
  PROVE  OnlyData' /\ Len(toProg') + 1 = Len(toProg) /\ Len(toProg') \in Nat
<1>1. toProg \in Seq(Sending) /\ Len(toProg) \in Nat /\ Len(toProg) >= 1
  BY DEF LinkTypes
<1>2. toProg' = SubSeq(toProg, 1 + 1, Len(toProg)) /\ 1 \in 0 .. Len(toProg)
  BY <1>1
<1>3. OnlyData' /\ Len(toProg') = Len(toProg) - 1 /\ Len(toProg') \in Nat
  BY <1>2, StaysData
<1> QED  BY <1>1, <1>3

LEMMA SameData ==
  ASSUME OnlyData, UNCHANGED toProg, LinkTypes
  PROVE  OnlyData' /\ Len(toProg') + 0 = Len(toProg) /\ Len(toProg') \in Nat
BY DEF OnlyData, LinkTypes

LEMMA StaysOpen ==
  ASSUME Open, UNCHANGED host, fw'.open = fw.open, fw'.loop = fw.loop
  PROVE  Open'
BY DEF Open

LEMMA Replied ==
  ASSUME LinkTypes, NEW u \in Seq(Bytes), Reply(u)
  PROVE  /\ InSession => /\ toHost' = toHost \o u /\ Len(toHost') = Len(toHost) + Len(u)
                         /\ Len(u) \in Nat /\ Len(toHost) \in Nat
         /\ ~InSession => toHost' = toHost
BY DEF LinkTypes, Reply, InSession

LEMMA LoopsOn ==
  ASSUME NEW call, NEW k, Round(call, fw'.step, k),
         call.cmd = CMD_SENDBLOCK /\ fw'.step = 3 => fw'.left = call.n - Upto(k, call.n),
         call.cmd = CMD_GETBLOCK /\ fw'.step = 4 => fw'.toSend = call.n - k,
         call.cmd = CMD_FLASH_PAGE_ERASE /\ fw'.step = 8 => fw'.left = call.n - k
  PROVE  Looped(call, k)'
<1>1. CASE call.cmd = CMD_SENDBLOCK
  BY <1>1 DEF Looped, Round, LoopStep
<1>2. CASE call.cmd = CMD_GETBLOCK
  BY <1>2 DEF Looped, Round, LoopStep
<1>3. CASE call.cmd = CMD_FLASH_PAGE_ERASE
  BY <1>3 DEF Looped, Round, LoopStep
<1>4. CASE call.cmd \notin {CMD_SENDBLOCK, CMD_GETBLOCK, CMD_FLASH_PAGE_ERASE}
  BY <1>4 DEF Looped, Round, LoopStep
<1> QED  BY <1>1, <1>2, <1>3, <1>4

\* Where the loop is, it counts
LEMMA LoopCounts ==
  ASSUME NEW call, NEW j, Known(call, j), Looped(call, j)
  PROVE  /\ Step.op = "packets" => fw.left = call.n - Upto(j, call.n)
         /\ Step.op = "stream" => fw.toSend = call.n - j
         /\ Step.op = "erase" => fw.left = call.n - j
<1>1. OpPlaces(call.cmd, fw.step) /\ Step = Handlers[call.cmd][fw.step]
  BY DEF Known
<1> QED  BY <1>1 DEF Looped, LoopStep, OpPlaces

LEMMA SizeStays ==
  ASSUME NEW call, At("size")' => fw'.args = << >> /\ Len(toProg') # 2,
         call.cmd = CMD_GETBLOCK /\ fw'.step = 3 => fw'.toSend = call.n,
         call.cmd = CMD_FLASH_PAGE_ERASE /\ fw'.step \in 5 .. 7 => fw'.left = call.n
  PROVE  SizeIsCalls(call)'
BY DEF SizeIsCalls

\* Nothing is in flight when a size comes next
LEMMA SizeIsFresh ==
  ASSUME NEW call, NEW j, Known(call, j), fw.step + 1 \in DOMAIN Handlers[call.cmd],
         Handlers[call.cmd][fw.step + 1].op = "size"
  PROVE  Len(toProg) = 0 /\ Len(fw.args) = 0
<1>1. /\ IsCall(call) /\ host.at \in 1 .. LastStep(call) /\ call.cmd \in Commands
      /\ fw.step \in DOMAIN Handlers[call.cmd] /\ fw.step \in Nat
      /\ OpPlaces(call.cmd, fw.step) /\ Round(call, fw.step, j)
      /\ Step = Handlers[call.cmd][fw.step] /\ (Step.op # "packets" => fw.seg = 0)
  BY DEF Known
<1>2. OpPlaces(call.cmd, fw.step + 1)
  BY <1>1, OpsMean DEF OpMeans
<1>3. \/ call.cmd \in {CMD_SENDBLOCK, CMD_GETBLOCK} /\ fw.step = 1
      \/ call.cmd = CMD_FLASH_PAGE_ERASE /\ fw.step = 3
  BY <1>1, <1>2 DEF OpPlaces
<1>4. j = 0
  BY <1>1, <1>3 DEF Round, LoopStep
<1>5. fw.seg = 0
  BY <1>1, <1>3 DEF OpPlaces
<1>6. BlockOf(call, j) = 0
  <2>1. j \in 0 .. Rounds(call)
    BY <1>1 DEF Round
  <2> QED  BY <1>1, <1>4, <2>1, BlockFacts
<1> DEFINE read == HasRead(call, host.at)
           written == HasWritten(call, host.at)
           sent == HasSent(call.cmd, fw.step)
           got == HasGot(call.cmd, fw.step)
           k == BlockOf(call, j)
<1>7. /\ read + Len(toHost) <= sent + j
      /\ got + Len(fw.args) + k - fw.seg + Len(toProg) <= written
  BY DEF Known, Tally
<1>8. /\ read \in Nat /\ written \in Nat /\ sent \in Nat /\ got \in Nat
      /\ Len(toHost) \in Nat /\ Len(toProg) \in Nat /\ Len(fw.args) \in Nat
  BY DEF Known, Tallied
<1>9. k = 0
  BY <1>6
<1> HIDE DEF read, written, sent, got, k
<1>10. read <= sent
  BY <1>4, <1>7, <1>8
<1>11. written <= got
  BY <1>1, <1>10, SizeComesNext DEF read, written, sent, got
<1> QED  BY <1>5, <1>7, <1>8, <1>9, <1>11

\* The step after the one that is done
LEMMA NextOp ==
  ASSUME NEW call, NEW j, Known(call, j), Step.op # "ok",
         fw'.step = fw.step + 1, fw'.cmd = call.cmd,
         fw.step = LoopStep(call.cmd) => j = Rounds(call)
  PROVE  /\ fw.step + 1 \in DOMAIN Handlers[call.cmd] /\ Running'
         /\ Step' = Handlers[call.cmd][fw.step + 1]
         /\ OpPlaces(call.cmd, fw.step + 1) /\ Round(call, fw'.step, j)
         /\ SentBy(call, j)' = HasSent(call.cmd, fw.step) + Sends(call.cmd, fw.step) + j
         /\ HasGot(call.cmd, fw'.step) = HasGot(call.cmd, fw.step) + Gets(call.cmd, fw.step)
<1>1. /\ call.cmd \in Commands /\ Step = Handlers[call.cmd][fw.step]
      /\ fw.step \in Nat /\ fw.step >= 1 /\ fw.step <= LastOp(call.cmd) /\ LastOp(call.cmd) \in Nat
      /\ OpPlaces(call.cmd, fw.step) /\ OpMoves(call.cmd, fw.step) /\ Round(call, fw.step, j)
  BY DEF Known
<1>2. fw.step # LastOp(call.cmd)
  BY <1>1 DEF OpPlaces
<1>3. fw.step + 1 \in DOMAIN Handlers[call.cmd]
  BY <1>1, <1>2, CommandBegins
<1>4. OpPlaces(call.cmd, fw.step + 1)
  BY <1>1, <1>3, OpsMean DEF OpMeans
<1>5. Step' = Handlers[call.cmd][fw.step + 1]
  BY DEF Step
<1>6. LoopStep(call.cmd) \in Nat
  BY DEF LoopStep
<1>7. Round(call, fw'.step, j)
  BY <1>1, <1>6 DEF Round
<1>8. SentBy(call, j)' = HasSent(call.cmd, fw.step + 1) + j
  BY DEF SentBy
<1>9. /\ HasSent(call.cmd, fw.step + 1) = HasSent(call.cmd, fw.step) + Sends(call.cmd, fw.step)
      /\ HasGot(call.cmd, fw.step + 1) = HasGot(call.cmd, fw.step) + Gets(call.cmd, fw.step)
  BY <1>1 DEF OpMoves
<1>10. Running'
  BY <1>1 DEF Running
<1> QED  BY <1>3, <1>4, <1>5, <1>7, <1>8, <1>9, <1>10

LEMMA OnwardStays ==
  ASSUME NEW call, NEW j, Inside(call, j), HostRests, NEW u \in Seq(Bytes), Onward(u)
  PROVE  Underway(call)'
<1>1. /\ LinkTypes /\ InSession /\ fw.cmd = call.cmd /\ Open /\ SizeIsCalls(call) /\ OnlyData
      /\ Looped(call, j) /\ Counted(call, j) /\ j \in 0 .. Rounds(call)
  BY DEF Inside, Counting
<1>2. Known(call, j)
  BY Knows
<1>3. /\ Step.op \notin {"recv", "size", "packets", "ok"}
      /\ Step.op = "stream" => fw.toSend = 0
      /\ Step.op = "erase" => fw.left = 0
      /\ Len(u) = Sends(call.cmd, fw.step) /\ Reply(u) /\ UNCHANGED toProg
      /\ fw'.step = fw.step + 1 /\ fw'.cmd = call.cmd /\ fw'.args = fw.args
      /\ fw'.left = fw.left /\ fw'.seg = fw.seg /\ fw'.open = fw.open /\ fw'.loop = fw.loop
      /\ Step.op \notin {"pad", "fetch"} => fw'.toSend = fw.toSend
  BY <1>1 DEF Onward, Effect
<1>4. /\ OpPlaces(call.cmd, fw.step) /\ Step = Handlers[call.cmd][fw.step]
      /\ IsCall(call) /\ fw.step \in Nat /\ fw.step >= 1
  BY <1>2 DEF Known
<1>5. call.n \in Nat /\ j \in Nat
  BY <1>2, <1>4, CallTypes DEF Known
<1>6. fw.step = LoopStep(call.cmd) => j = Rounds(call)
  <2>1. fw.step = LoopStep(call.cmd) => \/ call.cmd = CMD_GETBLOCK /\ Step.op = "stream"
                                        \/ call.cmd = CMD_FLASH_PAGE_ERASE /\ Step.op = "erase"
    BY <1>3, <1>4 DEF LoopStep, OpPlaces
  <2>2. Step.op = "stream" => j = call.n
    BY <1>1, <1>2, <1>3, <1>5, LoopCounts
  <2>3. Step.op = "erase" => j = call.n
    BY <1>1, <1>2, <1>3, <1>5, LoopCounts
  <2> QED  BY <2>1, <2>2, <2>3 DEF Rounds
<1>7. /\ fw.step + 1 \in DOMAIN Handlers[call.cmd] /\ Running'
      /\ Step' = Handlers[call.cmd][fw.step + 1]
      /\ OpPlaces(call.cmd, fw.step + 1) /\ Round(call, fw'.step, j)
      /\ SentBy(call, j)' = HasSent(call.cmd, fw.step) + Sends(call.cmd, fw.step) + j
      /\ HasGot(call.cmd, fw'.step) = HasGot(call.cmd, fw.step) + Gets(call.cmd, fw.step)
  BY <1>2, <1>3, <1>6, NextOp
<1>8. Looped(call, j)'
  <2>1. fw.step < LoopStep(call.cmd) => j = 0
    BY <1>1 DEF Looped
  <2>2. call.cmd = CMD_SENDBLOCK => fw.step # 2 /\ fw.step # 3
    BY <1>3, <1>4 DEF OpPlaces
  <2>3. call.cmd = CMD_GETBLOCK /\ fw.step = 3 => fw'.toSend = call.n /\ j = 0
    <3>1. SUFFICES ASSUME call.cmd = CMD_GETBLOCK, fw.step = 3
                   PROVE  fw'.toSend = call.n /\ j = 0
      OBVIOUS
    <3>2. Handlers[CMD_GETBLOCK][3].op = "ack"
      BY GetBlockOps, OpFacts
    <3> QED  BY <1>1, <1>3, <1>4, <2>1, <3>1, <3>2 DEF SizeIsCalls, LoopStep
  <2>4. call.cmd = CMD_FLASH_PAGE_ERASE /\ fw.step = 7 => fw'.left = call.n /\ j = 0
    BY <1>1, <1>3, <2>1 DEF SizeIsCalls, LoopStep
  <2> QED  BY <1>3, <1>4, <1>5, <1>7, <2>2, <2>3, <2>4, LoopsOn
<1>9. toProg' = toProg /\ OnlyData' /\ Len(toProg') + 0 = Len(toProg) /\ Len(toProg') \in Nat
  BY <1>1, <1>3, SameData
<1>10. Counted(call, j)'
  <2>1. Len(toHost') = Len(toHost) + Len(u) /\ Len(u) \in Nat
    BY <1>1, <1>3, Replied
  <2>2. SentBy(call, j)' = SentBy(call, j) + Len(u)
    <3>1. HasSent(call.cmd, fw.step) \in Nat /\ SentBy(call, j) = HasSent(call.cmd, fw.step) + j
      BY <1>1, <1>2, Balance DEF Known, Tallied
    <3> QED  BY <1>3, <1>5, <1>7, <2>1, <3>1
  <2>3. GotBy(call, j)' = GotBy(call, j) + 0
    <3>1. Gets(call.cmd, fw.step) = 0
      BY <1>3, <1>4 DEF Gets
    <3>2. BlockGot(call, j)' = BlockGot(call, j)
      BY <1>3 DEF BlockGot
    <3>3. HasGot(call.cmd, fw.step) \in Nat
      BY <1>2 DEF Known, Tallied
    <3>4. HasGot(call.cmd, fw'.step) = HasGot(call.cmd, fw.step)
      BY <1>7, <3>1, <3>3
    <3>5. GotBy(call, j)' = GotBy(call, j)
      BY <1>3, <3>2, <3>4 DEF GotBy
    <3> QED  BY <1>1, <1>2, <3>5, Balance
  <2>4. UNCHANGED host /\ 0 \in Nat
    BY DEF HostRests
  <2> QED  BY <1>1, <1>2, <1>9, <2>1, <2>2, <2>3, <2>4, CountsMove, Zenon
<1>11. SizeIsCalls(call)'
  <2>1. At("size")' => fw'.args = << >> /\ Len(toProg') # 2
    <3>1. SUFFICES ASSUME At("size")'  PROVE fw'.args = << >> /\ Len(toProg') # 2
      OBVIOUS
    <3>2. Handlers[call.cmd][fw.step + 1].op = "size"
      BY <1>7, <3>1 DEF At
    <3>3. Len(toProg) = 0 /\ Len(fw.args) = 0
      BY <1>2, <1>7, <3>2, SizeIsFresh
    <3>4. fw.args \in Seq(Bytes)
      BY DEF Inside, FwAlone, FwTypes, Bytes
    <3> QED  BY <1>3, <1>9, <3>3, <3>4
  <2>2. ~(call.cmd = CMD_GETBLOCK /\ fw'.step = 3)
    BY <1>3, <1>4 DEF OpPlaces
  <2>3. call.cmd = CMD_FLASH_PAGE_ERASE /\ fw'.step \in 5 .. 7 => fw'.left = call.n
    BY <1>1, <1>3, <1>4 DEF OpPlaces, SizeIsCalls
  <2> QED  BY <2>1, <2>2, <2>3, SizeStays
<1>12. Open'
  BY <1>1, <1>3, StaysOpen DEF HostRests
<1> QED
  <2>1. j \in (0 .. Rounds(call))
    BY <1>1
  <2> QED  BY <1>3, <1>7, <1>8, <1>9, <1>10, <1>11, <1>12, <2>1, StaysUnderway

LEMMA SecondComesFirst ==
  ASSUME NEW S, NEW s \in Seq(S), Len(s) = 2
  PROVE  Tail(s)[1] = s[2]
<1>1. s # << >>
  OBVIOUS
<1>2. Len(Tail(s)) = Len(s) - 1 /\ \A i \in 1 .. Len(Tail(s)) : Tail(s)[i] = s[i + 1]
  BY <1>1, HeadTailProperties
<1>3. 1 \in 1 .. Len(Tail(s)) /\ 1 + 1 = 2
  BY <1>2
<1> QED  BY <1>2, <1>3

LEMMA TakesOneStays ==
  ASSUME NEW call, NEW j, Inside(call, j), HostRests, TakesOne
  PROVE  Underway(call)'
<1>1. /\ FwAlone /\ LinkTypes /\ InSession /\ fw.cmd = call.cmd /\ Open /\ SizeIsCalls(call) /\ OnlyData
      /\ Looped(call, j) /\ Counted(call, j) /\ j \in (0 .. Rounds(call)) /\ Running
  BY DEF Inside, Counting
<1>2. Known(call, j)
  BY Knows
<1>3. /\ Step.op \in {"recv", "size"} /\ toProg # << >>
      /\ toProg' = Tail(toProg) /\ UNCHANGED toHost
      /\ Len(fw.args) + 1 < Gets(call.cmd, fw.step)
      /\ fw'.step = fw.step /\ fw'.cmd = call.cmd /\ fw'.args = Append(fw.args, Head(toProg).val)
      /\ fw'.left = fw.left /\ fw'.seg = fw.seg /\ fw'.open = fw.open /\ fw'.loop = fw.loop
      /\ fw'.toSend = fw.toSend
  BY <1>1 DEF TakesOne, Effect
<1>4. /\ OpPlaces(call.cmd, fw.step) /\ Step = Handlers[call.cmd][fw.step]
      /\ Round(call, fw.step, j)
  BY <1>2 DEF Known
<1>5. Step' = Step /\ Running'
  BY <1>1, <1>3 DEF Step, Running
<1>6. Looped(call, j)'
  <2>1. /\ ~(call.cmd = CMD_SENDBLOCK /\ fw.step = 3) /\ ~(call.cmd = CMD_GETBLOCK /\ fw.step = 4)
        /\ ~(call.cmd = CMD_FLASH_PAGE_ERASE /\ fw.step = 8)
    BY <1>3, <1>4 DEF OpPlaces
  <2> QED  BY <1>3, <1>4, <2>1, LoopsOn
<1>7. OnlyData' /\ Len(toProg') + 1 = Len(toProg) /\ Len(toProg') \in Nat
  BY <1>1, <1>3, TailIsData
<1>8. fw.args \in Seq(Bytes) /\ toProg \in Seq(Sending)
  BY <1>1 DEF FwAlone, FwTypes, Bytes, LinkTypes
<1>9. Head(toProg) = toProg[1] /\ toProg[1].val \in Bytes
  <2>1. Head(toProg) = toProg[1] /\ toProg[1] \in Sending
    BY <1>3, <1>8
  <2> QED  BY <2>1 DEF Sending
<1>10. Len(fw'.args) = Len(fw.args) + 1 /\ Len(fw.args) \in Nat
       /\ (Len(fw.args) = 0 => fw'.args[1] = toProg[1].val) /\ fw'.args # << >>
  BY <1>3, <1>8, <1>9
<1>11. Counted(call, j)'
  <2>1. SentBy(call, j)' = SentBy(call, j) + 0
    <3>1. SentBy(call, j)' = SentBy(call, j)
      BY <1>3 DEF SentBy
    <3> QED  BY <1>1, <1>2, <3>1, Balance
  <2>2. GotBy(call, j)' = GotBy(call, j) + 1
    <3>1. BlockGot(call, j)' = BlockGot(call, j)
      BY <1>3 DEF BlockGot
    <3>2. HasGot(call.cmd, fw.step) \in Nat /\ BlockOf(call, j) \in Nat /\ fw.seg \in Nat
      BY <1>2 DEF Known, Tallied
    <3>3. BlockGot(call, j) \in Int
      <4>1. call.cmd = CMD_SENDBLOCK => BlockGot(call, j) = BlockOf(call, j) - fw.seg
        BY DEF BlockGot, BlockOf
      <4>2. call.cmd # CMD_SENDBLOCK => BlockGot(call, j) = 0
        BY DEF BlockGot
      <4> QED  BY <3>2, <4>1, <4>2
    <3>4. HasGot(call.cmd, fw'.step) = HasGot(call.cmd, fw.step)
      BY <1>3
    <3>5. GotBy(call, j)' = HasGot(call.cmd, fw.step) + Len(fw'.args) + BlockGot(call, j)
      BY <3>1, <3>4 DEF GotBy
    <3>6. GotBy(call, j) = HasGot(call.cmd, fw.step) + Len(fw.args) + BlockGot(call, j)
      BY DEF GotBy
    <3> QED  BY <1>10, <3>2, <3>3, <3>5, <3>6
  <2>3. Len(toHost') = Len(toHost) + 0
    BY <1>1, <1>3 DEF LinkTypes
  <2>4. UNCHANGED host /\ 0 \in Nat /\ 1 \in Nat
    BY DEF HostRests
  <2> QED  BY <1>1, <1>2, <1>7, <2>1, <2>2, <2>3, <2>4, CountsMove, Zenon
<1>12. SizeIsCalls(call)'
  <2>1. Step.op = "size" => Len(fw.args) = 0
    <3>1. Step.op = "size" => Gets(call.cmd, fw.step) = 2
      BY <1>4 DEF Gets
    <3> QED  BY <1>3, <1>10, <3>1
  <2>2. At("size")' /\ Len(toProg') = 1 =>
          fw'.args[1] = Word(call.n)[1] /\ toProg'[1].val = Word(call.n)[2]
    <3>1. SUFFICES ASSUME At("size")', Len(toProg') = 1
                   PROVE  fw'.args[1] = Word(call.n)[1] /\ toProg'[1].val = Word(call.n)[2]
      OBVIOUS
    <3>2. At("size") /\ Len(fw.args) = 0 /\ Len(toProg) = 2
      BY <1>1, <1>5, <1>7, <2>1, <3>1 DEF At
    <3>3. fw.args = << >>
      BY <1>8, <3>2
    <3>4. toProg[1].val = Word(call.n)[1] /\ toProg[2].val = Word(call.n)[2]
      BY <1>1, <3>2, <3>3 DEF SizeIsCalls
    <3>5. toProg'[1] = toProg[2]
      BY <1>3, <1>8, <3>2, SecondComesFirst
    <3> QED  BY <1>10, <3>2, <3>4, <3>5
  <2>3. /\ call.cmd = CMD_GETBLOCK /\ fw'.step = 3 => fw'.toSend = call.n
        /\ call.cmd = CMD_FLASH_PAGE_ERASE /\ fw'.step \in 5 .. 7 => fw'.left = call.n
    BY <1>1, <1>3 DEF SizeIsCalls
  <2> QED  BY <1>10, <2>2, <2>3 DEF SizeIsCalls
<1>13. Open'
  BY <1>1, <1>3, StaysOpen DEF HostRests
<1> QED  BY <1>1, <1>3, <1>5, <1>6, <1>7, <1>11, <1>12, <1>13, StaysUnderway

LEMMA TakesLastStays ==
  ASSUME NEW call, call.n <= Largest, NEW j, Inside(call, j), HostRests,
         NEW size \in 0 .. MaxSize, TakesLast(size)
  PROVE  Underway(call)'
<1>1. /\ FwAlone /\ LinkTypes /\ HostTypes /\ InSession /\ fw.cmd = call.cmd /\ Open
      /\ SizeIsCalls(call) /\ OnlyData /\ call = Current
      /\ Looped(call, j) /\ Counted(call, j) /\ j \in (0 .. Rounds(call)) /\ Running
  BY DEF Inside, Counting
<1>2. Known(call, j)
  BY Knows
<1>3. /\ Step.op \in {"recv", "size"} /\ toProg # << >>
      /\ toProg' = Tail(toProg) /\ UNCHANGED toHost
      /\ Len(fw.args) + 1 = Gets(call.cmd, fw.step)
      /\ Step.op = "size" => size = SizeOf(fw.args[1], Head(toProg).val)
      /\ fw'.step = fw.step + 1 /\ fw'.cmd = call.cmd /\ fw'.args = << >>
      /\ fw'.left = (IF Step.op = "size" /\ call.cmd # CMD_GETBLOCK THEN size ELSE fw.left)
      /\ fw'.seg = fw.seg /\ fw'.open = fw.open /\ fw'.loop = fw.loop
      /\ fw'.toSend = (IF Step.op = "size" /\ call.cmd = CMD_GETBLOCK THEN size ELSE fw.toSend)
  BY <1>1 DEF TakesLast, Effect
<1>4. /\ OpPlaces(call.cmd, fw.step) /\ Step = Handlers[call.cmd][fw.step] /\ IsCall(call)
      /\ fw.step \in Nat
  BY <1>2 DEF Known
<1>5. call.n \in Nat /\ call.n < 65536 /\ j \in Nat
  BY <1>2, <1>4, CallTypes DEF Known
<1>6. fw.step # LoopStep(call.cmd)
  <2>1. fw.step >= 1
    BY <1>2 DEF Known
  <2> QED  BY <1>3, <1>4, <2>1 DEF LoopStep, OpPlaces
<1>7. /\ fw.step + 1 \in DOMAIN Handlers[call.cmd] /\ Running'
      /\ Step' = Handlers[call.cmd][fw.step + 1]
      /\ OpPlaces(call.cmd, fw.step + 1) /\ Round(call, fw'.step, j)
      /\ SentBy(call, j)' = HasSent(call.cmd, fw.step) + Sends(call.cmd, fw.step) + j
      /\ HasGot(call.cmd, fw'.step) = HasGot(call.cmd, fw.step) + Gets(call.cmd, fw.step)
  BY <1>2, <1>3, <1>6, NextOp
<1>8. OnlyData' /\ Len(toProg') + 1 = Len(toProg) /\ Len(toProg') \in Nat
  BY <1>1, <1>3, TailIsData
<1>9. fw.args \in Seq(Bytes) /\ toProg \in Seq(Sending) /\ Len(fw.args) \in Nat
  BY <1>1 DEF FwAlone, FwTypes, Bytes, LinkTypes
<1>10. Head(toProg) = toProg[1]
  BY <1>3, <1>9
<1>11. Step.op = "size" => size = call.n
  <2>1. SUFFICES ASSUME Step.op = "size"  PROVE size = call.n
    OBVIOUS
  <2>2. Gets(call.cmd, fw.step) = 2
    BY <1>4, <2>1 DEF Gets
  <2>3. Len(fw.args) = 1
    <3>1. Len(fw.args) + 1 = 2
      BY <1>3, <2>2
    <3>2. \A x \in Nat : x + 1 = 2 => x = 1
      OBVIOUS
    <3>3. Len(fw.args) \in Nat
      BY <1>9
    <3> QED  BY <3>1, <3>2, <3>3, Zenon
  <2>4. Len(fw.args) + Len(toProg) <= 2
    <3>1. Counting(call, j)
      BY DEF Inside
    <3> QED  BY <1>1, <2>1, <2>2, <3>1, Room
  <2>5. Len(toProg) = 1
    BY <1>8, <2>3, <2>4
  <2>6. At("size") /\ fw.args # << >>
    <3>1. At("size")
      BY <1>1, <2>1 DEF At
    <3>2. fw.args # << >>
      BY <2>3
    <3> QED  BY <3>1, <3>2
  <2>7. fw.args[1] = Word(call.n)[1] /\ toProg[1].val = Word(call.n)[2]
    BY <1>1, <2>5, <2>6 DEF SizeIsCalls
  <2>8. Word(call.n)[1] + 256 * Word(call.n)[2] = call.n
    BY <1>5, WordFacts
  <2>9. size = SizeOf(Word(call.n)[1], Word(call.n)[2])
    BY <1>3, <1>10, <2>1, <2>7
  <2> QED  BY <2>8, <2>9 DEF SizeOf
<1>12. Looped(call, j)'
  <2>1. fw.step < LoopStep(call.cmd) => j = 0
    BY <1>1 DEF Looped
  <2>2. call.cmd = CMD_SENDBLOCK /\ fw'.step = 3 => fw'.left = call.n - Upto(j, call.n)
    <3>1. SUFFICES ASSUME call.cmd = CMD_SENDBLOCK, fw'.step = 3
                   PROVE  fw'.left = call.n - Upto(j, call.n)
      OBVIOUS
    <3>2. fw.step = 2 /\ j = 0 /\ Step.op = "size"
      BY <1>3, <1>4, <2>1, <3>1 DEF OpPlaces, LoopStep
    <3>3. Upto(0, call.n) = 0
      <4>1. call.n \in Nat /\ 0 \in Nat
        BY <1>5
      <4> QED  BY <4>1, UptoFacts, Zenon
    <3> QED  BY <1>3, <1>5, <1>11, <3>1, <3>2, <3>3
  <2>3. ~(call.cmd = CMD_GETBLOCK /\ fw'.step = 4)
    <3>1. Handlers[CMD_GETBLOCK][3].op = "ack"
      BY GetBlockOps, OpFacts
    <3> QED  BY <1>3, <1>4, <3>1
  <2>4. ~(call.cmd = CMD_FLASH_PAGE_ERASE /\ fw'.step = 8)
    <3>1. Handlers[CMD_FLASH_PAGE_ERASE][7].op = "updi"
      BY FlashPageEraseOps DEF Stored, Updi
    <3> QED  BY <1>3, <1>4, <3>1
  <2> QED  BY <1>7, <2>2, <2>3, <2>4, LoopsOn
<1>13. Counted(call, j)'
  <2>1. HasSent(call.cmd, fw.step) \in Nat /\ HasGot(call.cmd, fw.step) \in Nat
        /\ BlockOf(call, j) \in Nat /\ fw.seg \in Nat /\ Gets(call.cmd, fw.step) \in Nat
    BY <1>2 DEF Known, Tallied
  <2>2. SentBy(call, j)' = SentBy(call, j) + 0
    <3>1. Sends(call.cmd, fw.step) = 0
      BY <1>3, <1>4 DEF Sends
    <3>2. SentBy(call, j) = HasSent(call.cmd, fw.step) + j
      BY DEF SentBy
    <3> QED  BY <1>5, <1>7, <2>1, <3>1, <3>2
  <2>3. GotBy(call, j)' = GotBy(call, j) + 1
    <3>1. BlockGot(call, j)' = BlockGot(call, j)
      BY <1>3 DEF BlockGot
    <3>3. BlockGot(call, j) \in Int
      <4>1. call.cmd = CMD_SENDBLOCK => BlockGot(call, j) = BlockOf(call, j) - fw.seg
        BY DEF BlockGot, BlockOf
      <4>2. call.cmd # CMD_SENDBLOCK => BlockGot(call, j) = 0
        BY DEF BlockGot
      <4> QED  BY <2>1, <4>1, <4>2
    <3>4. Len(fw'.args) = 0
      BY <1>3
    <3>5. GotBy(call, j)' = HasGot(call.cmd, fw'.step) + Len(fw'.args) + BlockGot(call, j)
      BY <3>1 DEF GotBy
    <3>6. GotBy(call, j) = HasGot(call.cmd, fw.step) + Len(fw.args) + BlockGot(call, j)
      BY DEF GotBy
    <3> QED  BY <1>3, <1>7, <1>9, <2>1, <3>3, <3>4, <3>5, <3>6
  <2>4. Len(toHost') = Len(toHost) + 0
    BY <1>1, <1>3 DEF LinkTypes
  <2>5. UNCHANGED host /\ 0 \in Nat /\ 1 \in Nat
    BY DEF HostRests
  <2> QED  BY <1>1, <1>2, <1>8, <2>2, <2>3, <2>4, <2>5, CountsMove, Zenon
<1>14. SizeIsCalls(call)'
  <2>1. ~At("size")'
    <3>1. SUFFICES ASSUME At("size")'  PROVE FALSE
      OBVIOUS
    <3>2. Handlers[call.cmd][fw.step + 1].op = "size"
      BY <1>7, <3>1 DEF At
    <3>3. Len(toProg) = 0
      BY <1>2, <1>7, <3>2, SizeIsFresh
    <3> QED  BY <1>8, <3>3
  <2>2. call.cmd = CMD_GETBLOCK /\ fw'.step = 3 => fw'.toSend = call.n
    BY <1>3, <1>4, <1>11 DEF OpPlaces
  <2>3. call.cmd = CMD_FLASH_PAGE_ERASE /\ fw'.step \in 5 .. 7 => fw'.left = call.n
    <3>1. call.cmd = CMD_FLASH_PAGE_ERASE /\ fw'.step = 5 => Step.op = "size"
      BY <1>3, <1>4 DEF OpPlaces
    <3>2. call.cmd = CMD_FLASH_PAGE_ERASE /\ fw'.step \in 6 .. 7 => Step.op # "size" /\ fw.left = call.n
      BY <1>1, <1>3, <1>4 DEF OpPlaces, SizeIsCalls
    <3> QED  BY <1>3, <1>4, <1>11, <3>1, <3>2
  <2> QED  BY <2>1, <2>2, <2>3, SizeStays
<1>15. Open'
  BY <1>1, <1>3, StaysOpen DEF HostRests
<1> QED  BY <1>1, <1>3, <1>7, <1>8, <1>12, <1>13, <1>14, <1>15, StaysUnderway

\* A round of the loop: a byte of a block streamed, a page erased
LEMMA RoundStays ==
  ASSUME NEW call, NEW j, Inside(call, j), HostRests, j + 1 \in 0 .. Rounds(call),
         Step.op \in {"stream", "erase"}, NEW b \in Seq(Bytes), Len(b) = 1, Reply(b),
         UNCHANGED toProg,
         fw'.step = fw.step, fw'.cmd = fw.cmd, fw'.args = fw.args, fw'.seg = fw.seg,
         fw'.open = fw.open, fw'.loop = fw.loop,
         Step.op = "stream" => fw'.toSend = call.n - (j + 1),
         Step.op = "erase" => fw'.left = call.n - (j + 1)
  PROVE  Underway(call)'
<1>1. /\ FwAlone /\ LinkTypes /\ InSession /\ fw.cmd = call.cmd /\ Open /\ OnlyData
      /\ Looped(call, j) /\ Counted(call, j) /\ Running
  BY DEF Inside, Counting
<1>2. Known(call, j)
  BY Knows
<1>3. /\ OpPlaces(call.cmd, fw.step) /\ Step = Handlers[call.cmd][fw.step]
      /\ Round(call, fw.step, j) /\ j \in Nat
  BY <1>2 DEF Known
<1>4. Step' = Step /\ Running'
  BY <1>1 DEF Step, Running
<1>5. \/ call.cmd = CMD_GETBLOCK /\ fw.step = 4 /\ Step.op = "stream"
      \/ call.cmd = CMD_FLASH_PAGE_ERASE /\ fw.step = 8 /\ Step.op = "erase"
  BY <1>3 DEF OpPlaces
<1>6. Looped(call, j + 1)'
  <2>1. Round(call, fw'.step, j + 1)
    BY <1>5 DEF Round, LoopStep
  <2> QED  BY <1>5, <2>1, LoopsOn
<1>7. toProg' = toProg /\ OnlyData' /\ Len(toProg') + 0 = Len(toProg) /\ Len(toProg') \in Nat
  BY <1>1, SameData
<1>8. Counted(call, j + 1)'
  <2>1. Len(toHost') = Len(toHost) + 1
    <3>1. Len(toHost') = Len(toHost) + Len(b)
      BY <1>1, Replied, Zenon
    <3> QED  BY <3>1
  <2>2. SentBy(call, j + 1)' = SentBy(call, j) + 1
    <3>1. SentBy(call, j + 1)' = HasSent(call.cmd, fw.step) + (j + 1)
      BY DEF SentBy
    <3>2. SentBy(call, j) = HasSent(call.cmd, fw.step) + j /\ HasSent(call.cmd, fw.step) \in Nat
      BY <1>2 DEF SentBy, Known, Tallied
    <3> QED  BY <1>3, <3>1, <3>2
  <2>3. GotBy(call, j + 1)' = GotBy(call, j) + 0
    <3>1. BlockGot(call, j + 1)' = BlockGot(call, j)
      BY <1>5 DEF BlockGot
    <3>2. GotBy(call, j + 1)' = GotBy(call, j)
      BY <3>1 DEF GotBy
    <3> QED  BY <1>1, <1>2, <3>2, Balance
  <2>4. UNCHANGED host /\ 0 \in Nat /\ 1 \in Nat
    BY DEF HostRests
  <2> QED  BY <1>1, <1>2, <1>7, <2>1, <2>2, <2>3, <2>4, CountsMove, Zenon
<1>9. SizeIsCalls(call)'
  <2>1. ~At("size")'
    <3>1. Step'.op # "size"
      BY <1>4, <1>5
    <3> QED  BY <3>1 DEF At
  <2>2. /\ ~(call.cmd = CMD_GETBLOCK /\ fw'.step = 3)
        /\ ~(call.cmd = CMD_FLASH_PAGE_ERASE /\ fw'.step \in 5 .. 7)
    BY <1>5
  <2> QED  BY <2>1, <2>2, SizeStays
<1>10. Open'
  BY <1>1, StaysOpen DEF HostRests
<1>11. fw'.cmd = call.cmd
  BY <1>1
<1> QED  BY <1>4, <1>6, <1>7, <1>8, <1>9, <1>10, <1>11, StaysUnderway

LEMMA StreamsStays ==
  ASSUME NEW call, NEW j, Inside(call, j), HostRests, NEW b \in MemoryBytes, Streams(b)
  PROVE  Underway(call)'
<1>1. /\ Running /\ Step.op = "stream" /\ fw.toSend > 0 /\ Reply(<< b >>) /\ UNCHANGED toProg
      /\ fw'.step = fw.step /\ fw'.cmd = fw.cmd /\ fw'.args = fw.args /\ fw'.seg = fw.seg
      /\ fw'.open = fw.open /\ fw'.loop = fw.loop /\ fw'.toSend = fw.toSend - 1
  BY DEF Streams, Effect
<1>2. Known(call, j) /\ Looped(call, j) /\ fw.cmd = call.cmd
  BY Knows DEF Inside, Counting
<1>3. fw.toSend = call.n - j
  BY <1>1, <1>2, LoopCounts
<1>4. call.cmd = CMD_GETBLOCK
  BY <1>1, <1>2 DEF Known, OpPlaces
<1>5. call.n \in Nat /\ j \in Nat /\ Rounds(call) = call.n
  BY <1>2, <1>4, CallTypes DEF Known, Rounds
<1>6. j + 1 \in 0 .. Rounds(call) /\ fw'.toSend = call.n - (j + 1)
  BY <1>1, <1>3, <1>5
<1>7. << b >> \in Seq(Bytes) /\ Len(<< b >>) = 1
  <2>1. b \in Bytes
    BY MemoryAssumption DEF Bytes
  <2> QED  BY <2>1
<1> QED  BY <1>1, <1>6, <1>7, RoundStays, Zenon

LEMMA ErasesOneStays ==
  ASSUME NEW call, NEW j, Inside(call, j), HostRests, ErasesOne
  PROVE  Underway(call)'
<1>1. /\ Running /\ Step.op = "erase" /\ fw.left > 0 /\ Reply(<< REPL_ACK >>) /\ UNCHANGED toProg
      /\ fw'.step = fw.step /\ fw'.cmd = fw.cmd /\ fw'.args = fw.args /\ fw'.seg = fw.seg
      /\ fw'.open = fw.open /\ fw'.loop = fw.loop /\ fw'.left = fw.left - 1
  BY DEF ErasesOne, Effect
<1>2. Known(call, j) /\ Looped(call, j) /\ fw.cmd = call.cmd
  BY Knows DEF Inside, Counting
<1>3. fw.left = call.n - j
  BY <1>1, <1>2, LoopCounts
<1>4. call.cmd = CMD_FLASH_PAGE_ERASE
  BY <1>1, <1>2 DEF Known, OpPlaces
<1>5. call.n \in Nat /\ j \in Nat /\ Rounds(call) = call.n
  BY <1>2, <1>4, CallTypes DEF Known, Rounds
<1>6. j + 1 \in 0 .. Rounds(call) /\ fw'.left = call.n - (j + 1)
  BY <1>1, <1>3, <1>5
<1>7. << REPL_ACK >> \in Seq(Bytes) /\ Len(<< REPL_ACK >>) = 1
  BY DEF Bytes
<1> QED  BY <1>1, <1>6, <1>7, RoundStays, Zenon

\* A block's handler asks for its next segment
LEMMA AsksForStays ==
  ASSUME NEW call, NEW j, Inside(call, j), HostRests, NEW n \in Nat, AsksFor(n)
  PROVE  Underway(call)'
<1>1. /\ Running /\ Step.op = "packets" /\ fw.seg = 0 /\ fw.left > 0
      /\ n = (IF fw.left > Segment THEN Segment ELSE fw.left)
      /\ Reply(<< REPL_ACK >>) /\ UNCHANGED toProg
      /\ fw'.step = fw.step /\ fw'.cmd = fw.cmd /\ fw'.args = fw.args /\ fw'.seg = n
      /\ fw'.open = fw.open /\ fw'.loop = fw.loop /\ fw'.left = fw.left - n
  BY DEF AsksFor, Effect
<1>2. Known(call, j) /\ Looped(call, j) /\ fw.cmd = call.cmd /\ LinkTypes /\ InSession
      /\ Open /\ OnlyData /\ Counted(call, j) /\ j \in 0 .. Rounds(call)
  BY Knows DEF Inside, Counting
<1>3. fw.left = call.n - Upto(j, call.n)
  BY <1>1, <1>2, LoopCounts
<1>4. call.cmd = CMD_SENDBLOCK /\ fw.step = 3 /\ IsCall(call) /\ j \in Nat
  BY <1>1, <1>2 DEF Known, OpPlaces
<1>5. call.n \in Nat /\ Rounds(call) \in Nat /\ Rounds(call) = PacketCount(call.n)
      /\ BlockOf(call, j) = Upto(j, call.n) /\ Upto(j, call.n) \in Nat
      /\ (j = Rounds(call) => Upto(j, call.n) = call.n)
  BY <1>2, <1>4, CallTypes, BlockFacts
<1>6. j < PacketCount(call.n) /\ j + 1 \in 0 .. Rounds(call)
  BY <1>1, <1>2, <1>3, <1>5
<1>7. Upto(j + 1, call.n) = Upto(j, call.n) + n
  <2>1. Upto(j + 1, call.n) = IF call.n - Upto(j, call.n) > PacketSize
                              THEN Upto(j, call.n) + PacketSize ELSE call.n
    <3>1. call.n \in Nat /\ j \in Nat /\ j < PacketCount(call.n)
      BY <1>4, <1>5, <1>6
    <3> QED  BY <3>1, UptoFacts, Zenon
  <2>2. PacketSize = Segment /\ Segment \in Nat
    BY Sizes
  <2> DEFINE x == Upto(j, call.n)
             y == Upto(j + 1, call.n)
  <2>3. x \in Nat /\ n = (IF call.n - x > Segment THEN Segment ELSE call.n - x)
        /\ y = (IF call.n - x > Segment THEN x + Segment ELSE call.n)
    BY <1>1, <1>3, <1>5, <2>1, <2>2
  <2> HIDE DEF x, y
  <2>4. y = x + n
    BY <1>5, <2>2, <2>3
  <2> QED  BY <2>4 DEF x, y
<1>8. Step' = Step /\ Running'
  BY <1>1 DEF Step, Running
<1>9. Looped(call, j + 1)'
  <2>1. Round(call, fw'.step, j + 1)
    BY <1>1, <1>4, <1>6 DEF Round, LoopStep
  <2>2. fw'.left = call.n - Upto(j + 1, call.n)
    <3> DEFINE x == Upto(j, call.n)
               y == Upto(j + 1, call.n)
    <3>1. x \in Nat /\ y = x + n /\ fw'.left = (call.n - x) - n
      BY <1>1, <1>3, <1>5, <1>7
    <3> HIDE DEF x, y
    <3>2. fw'.left = call.n - y
      BY <1>5, <3>1
    <3> QED  BY <3>2 DEF y
  <2> QED  BY <1>4, <2>1, <2>2, LoopsOn
<1>10. toProg' = toProg /\ OnlyData' /\ Len(toProg') + 0 = Len(toProg) /\ Len(toProg') \in Nat
  BY <1>1, <1>2, SameData
<1>11. Counted(call, j + 1)'
  <2>1. Len(toHost') = Len(toHost) + 1
    <3>1. << REPL_ACK >> \in Seq(Bytes) /\ Len(<< REPL_ACK >>) = 1
      BY DEF Bytes
    <3>2. Len(toHost') = Len(toHost) + Len(<< REPL_ACK >>)
      BY <1>1, <1>2, <3>1, Replied, Zenon
    <3> QED  BY <3>1, <3>2
  <2>2. SentBy(call, j + 1)' = SentBy(call, j) + 1
    <3>1. SentBy(call, j + 1)' = HasSent(call.cmd, fw.step) + (j + 1)
      BY <1>1 DEF SentBy
    <3>2. SentBy(call, j) = HasSent(call.cmd, fw.step) + j /\ HasSent(call.cmd, fw.step) \in Nat
      BY <1>2 DEF SentBy, Known, Tallied
    <3> QED  BY <1>4, <3>1, <3>2
  <2>3. GotBy(call, j + 1)' = GotBy(call, j) + 0
    <3> DEFINE x == Upto(j, call.n)
               y == Upto(j + 1, call.n)
    <3>1. BlockGot(call, j + 1)' = y - n /\ BlockGot(call, j) = x - 0
      BY <1>1, <1>4 DEF BlockGot
    <3>2. x \in Nat /\ y = x + n
      BY <1>5, <1>7
    <3> HIDE DEF x, y
    <3>3. BlockGot(call, j + 1)' = BlockGot(call, j)
      BY <3>1, <3>2
    <3>4. GotBy(call, j + 1)' = GotBy(call, j)
      BY <1>1, <3>3 DEF GotBy
    <3> QED  BY <1>2, <3>4, Balance
  <2>4. UNCHANGED host /\ 0 \in Nat /\ 1 \in Nat
    BY DEF HostRests
  <2> QED  BY <1>2, <1>10, <2>1, <2>2, <2>3, <2>4, CountsMove, Zenon
<1>12. SizeIsCalls(call)'
  <2>1. ~At("size")'
    <3>1. Step'.op # "size"
      BY <1>1, <1>8
    <3> QED  BY <3>1 DEF At
  <2>2. /\ ~(call.cmd = CMD_GETBLOCK /\ fw'.step = 3)
        /\ ~(call.cmd = CMD_FLASH_PAGE_ERASE /\ fw'.step \in 5 .. 7)
    BY <1>4
  <2> QED  BY <2>1, <2>2, SizeStays
<1>13. Open'
  BY <1>1, <1>2, StaysOpen DEF HostRests
<1>14. fw'.cmd = call.cmd
  BY <1>1, <1>2
<1> QED  BY <1>6, <1>8, <1>9, <1>10, <1>11, <1>12, <1>13, <1>14, StaysUnderway

\* It forwards a byte of the segment
LEMMA ForwardsOneStays ==
  ASSUME NEW call, NEW j, Inside(call, j), HostRests, ForwardsOne
  PROVE  Underway(call)'
<1>1. /\ Running /\ Step.op = "packets" /\ fw.seg > 0 /\ toProg # << >>
      /\ toProg' = Tail(toProg) /\ UNCHANGED toHost
      /\ fw'.step = fw.step /\ fw'.cmd = fw.cmd /\ fw'.args = fw.args /\ fw'.seg = fw.seg - 1
      /\ fw'.open = fw.open /\ fw'.loop = fw.loop /\ fw'.left = fw.left
  BY DEF ForwardsOne, Effect
<1>2. Known(call, j) /\ Looped(call, j) /\ fw.cmd = call.cmd /\ LinkTypes /\ InSession
      /\ Open /\ OnlyData /\ Counted(call, j) /\ j \in 0 .. Rounds(call)
  BY Knows DEF Inside, Counting
<1>3. fw.left = call.n - Upto(j, call.n)
  BY <1>1, <1>2, LoopCounts
<1>4. call.cmd = CMD_SENDBLOCK /\ fw.step = 3 /\ Round(call, fw.step, j)
  BY <1>1, <1>2 DEF Known, OpPlaces
<1>5. Step' = Step /\ Running'
  BY <1>1 DEF Step, Running
<1>6. Looped(call, j)'
  BY <1>1, <1>3, <1>4, LoopsOn
<1>7. OnlyData' /\ Len(toProg') + 1 = Len(toProg) /\ Len(toProg') \in Nat
  BY <1>1, <1>2, TailIsData
<1>8. Counted(call, j)'
  <2>1. Len(toHost') = Len(toHost) + 0
    BY <1>1, <1>2 DEF LinkTypes
  <2>2. SentBy(call, j)' = SentBy(call, j) + 0
    <3>1. SentBy(call, j)' = SentBy(call, j)
      BY <1>1 DEF SentBy
    <3> QED  BY <1>2, <3>1, Balance
  <2>3. GotBy(call, j)' = GotBy(call, j) + 1
    <3> DEFINE x == Upto(j, call.n)
               g == HasGot(call.cmd, fw.step)
    <3>1. GotBy(call, j)' = g + Len(fw.args) + (x - (fw.seg - 1))
          /\ GotBy(call, j) = g + Len(fw.args) + (x - fw.seg)
      BY <1>1, <1>4 DEF GotBy, BlockGot
    <3>2. x = BlockOf(call, j)
      BY <1>4 DEF BlockOf
    <3>3. g \in Nat /\ x \in Nat /\ fw.seg \in Nat /\ Len(fw.args) \in Nat
      BY <1>2, <3>2 DEF Known, Tallied
    <3> HIDE DEF x, g
    <3> QED  BY <3>1, <3>3
  <2>4. UNCHANGED host /\ 0 \in Nat /\ 1 \in Nat
    BY DEF HostRests
  <2> QED  BY <1>2, <1>7, <2>1, <2>2, <2>3, <2>4, CountsMove, Zenon
<1>9. SizeIsCalls(call)'
  <2>1. ~At("size")'
    <3>1. Step'.op # "size"
      BY <1>1, <1>5
    <3> QED  BY <3>1 DEF At
  <2>2. /\ ~(call.cmd = CMD_GETBLOCK /\ fw'.step = 3)
        /\ ~(call.cmd = CMD_FLASH_PAGE_ERASE /\ fw'.step \in 5 .. 7)
    BY <1>4
  <2> QED  BY <2>1, <2>2, SizeStays
<1>10. Open'
  BY <1>1, <1>2, StaysOpen DEF HostRests
<1>11. fw'.cmd = call.cmd /\ j \in (0 .. Rounds(call))
  BY <1>1, <1>2
<1> QED  BY <1>5, <1>6, <1>7, <1>8, <1>9, <1>10, <1>11, StaysUnderway

\* The block is complete, and nothing of it is left for the interrupt to take
LEMMA PacketsEndStays ==
  ASSUME NEW call, NEW j, Inside(call, j), HostRests, NEW n \in Nat, PacketsEnd(n)
  PROVE  Underway(call)'
<1>1. /\ Running /\ Step.op = "packets" /\ fw.seg = 0 /\ fw.left = 0
      /\ n \in 0 .. Len(toProg) /\ toProg' = SubSeq(toProg, n + 1, Len(toProg))
      /\ UNCHANGED toHost
      /\ fw'.step = fw.step + 1 /\ fw'.cmd = fw.cmd /\ fw'.args = fw.args /\ fw'.seg = fw.seg
      /\ fw'.open = fw.open /\ fw'.loop = fw.loop /\ fw'.left = fw.left
  BY DEF PacketsEnd, Effect
<1>2. Known(call, j) /\ Looped(call, j) /\ fw.cmd = call.cmd /\ LinkTypes /\ InSession
      /\ Open /\ OnlyData /\ Counted(call, j) /\ j \in 0 .. Rounds(call)
      /\ FwAlone /\ HostTypes /\ call = Current /\ Counting(call, j)
  BY Knows DEF Inside, Counting
<1>3. fw.left = call.n - Upto(j, call.n)
  BY <1>1, <1>2, LoopCounts
<1>4. call.cmd = CMD_SENDBLOCK /\ fw.step = 3 /\ IsCall(call) /\ j \in Nat
      /\ Step = Handlers[call.cmd][fw.step]
  BY <1>1, <1>2 DEF Known, OpPlaces
<1>5. call.n \in Nat /\ Rounds(call) \in Nat
      /\ BlockOf(call, j) = Upto(j, call.n) /\ Upto(j, call.n) \in Nat
      /\ (j < Rounds(call) => Upto(j, call.n) < call.n)
  BY <1>2, <1>4, CallTypes, BlockFacts
<1>6. j = Rounds(call)
  <2> DEFINE x == Upto(j, call.n)
  <2>1. x = call.n
    <3>1. x \in Nat /\ 0 = call.n - x
      BY <1>1, <1>3, <1>5
    <3> HIDE DEF x
    <3> QED  BY <1>5, <3>1
  <2> QED  BY <1>2, <1>5, <2>1
<1>7. /\ Running' /\ Step' = Handlers[call.cmd][fw.step + 1]
      /\ OpPlaces(call.cmd, fw.step + 1) /\ Round(call, fw'.step, j)
      /\ SentBy(call, j)' = HasSent(call.cmd, fw.step) + Sends(call.cmd, fw.step) + j
      /\ HasGot(call.cmd, fw'.step) = HasGot(call.cmd, fw.step) + Gets(call.cmd, fw.step)
  BY <1>1, <1>2, <1>6, NextOp
<1>8. Looped(call, j)'
  BY <1>1, <1>4, <1>7, LoopsOn
<1>9. n = 0 /\ Len(toProg) \in Nat
  <2>1. Len(toProg) <= fw.seg
    BY <1>1, <1>2, Room
  <2>2. Len(toProg) \in Nat
    BY <1>2 DEF LinkTypes
  <2> QED  BY <1>1, <2>1, <2>2
<1>10. OnlyData' /\ Len(toProg') + 0 = Len(toProg) /\ Len(toProg') \in Nat
  <2>1. OnlyData' /\ Len(toProg') = Len(toProg) - n /\ Len(toProg') \in Nat
    BY <1>1, <1>2, StaysData
  <2> QED  BY <1>9, <2>1
<1>11. Counted(call, j)'
  <2>1. HasSent(call.cmd, fw.step) \in Nat /\ HasGot(call.cmd, fw.step) \in Nat
    BY <1>2 DEF Known, Tallied
  <2>2. Sends(call.cmd, fw.step) = 0 /\ Gets(call.cmd, fw.step) = 0
    BY <1>1, <1>4 DEF Sends, Gets
  <2>3. SentBy(call, j)' = SentBy(call, j) + 0
    <3>1. SentBy(call, j) = HasSent(call.cmd, fw.step) + j
      BY DEF SentBy
    <3> QED  BY <1>4, <1>7, <2>1, <2>2, <3>1
  <2>4. GotBy(call, j)' = GotBy(call, j) + 0
    <3>1. BlockGot(call, j)' = BlockGot(call, j)
      BY <1>1 DEF BlockGot
    <3>2. HasGot(call.cmd, fw'.step) = HasGot(call.cmd, fw.step)
      BY <1>7, <2>1, <2>2
    <3>3. GotBy(call, j)' = GotBy(call, j)
      BY <1>1, <3>1, <3>2 DEF GotBy
    <3> QED  BY <1>2, <3>3, Balance
  <2>5. Len(toHost') = Len(toHost) + 0
    BY <1>1, <1>2 DEF LinkTypes
  <2>6. UNCHANGED host /\ 0 \in Nat
    BY DEF HostRests
  <2> QED  BY <1>2, <1>10, <2>3, <2>4, <2>5, <2>6, CountsMove, Zenon
<1>12. SizeIsCalls(call)'
  <2>1. ~At("size")'
    <3>1. Step'.op # "size"
      BY <1>4, <1>7 DEF OpPlaces
    <3> QED  BY <3>1 DEF At
  <2>2. /\ ~(call.cmd = CMD_GETBLOCK /\ fw'.step = 3)
        /\ ~(call.cmd = CMD_FLASH_PAGE_ERASE /\ fw'.step \in 5 .. 7)
    BY <1>4
  <2> QED  BY <2>1, <2>2, SizeStays
<1>13. Open'
  BY <1>1, <1>2, StaysOpen DEF HostRests
<1>14. fw'.cmd = call.cmd /\ j \in (0 .. Rounds(call))
  BY <1>1, <1>2
<1> QED  BY <1>7, <1>8, <1>10, <1>11, <1>12, <1>13, <1>14, StaysUnderway

-------------------------------------------------------------------------------
(* A handler ends *)

\* START is the first call, and no other
LEMMA OnlyFirstStarts ==
  ASSUME HostTypes, InSession, Current.cmd # CMD_START
  PROVE  host.pos > 1
BY Calling DEF IsJob, Current

\* At its last step a handler has sent and received everything
LEMMA AllIsDone ==
  ASSUME NEW call, NEW j, Known(call, j), Counted(call, j), Step.op = "ok"
  PROVE  /\ Len(toProg) = 0
         /\ HasWritten(call, host.at) = HasWritten(call, LastStep(call))
         /\ SentBy(call, j) = HasRead(call, LastStep(call))
<1>1. /\ IsCall(call) /\ host.at \in 1 .. LastStep(call) /\ LastStep(call) \in Nat
      /\ fw.step \in Nat /\ fw.step >= 1 /\ OpPlaces(call.cmd, fw.step)
      /\ Step = Handlers[call.cmd][fw.step] /\ Round(call, fw.step, j)
      /\ fw.seg = 0 /\ Len(fw.args) = 0 /\ Ends(call)
  BY CallsEnd DEF Known
<1>2. fw.step = LastOp(call.cmd) /\ fw.step > LoopStep(call.cmd)
  <2>1. fw.step = LastOp(call.cmd)
    BY <1>1 DEF OpPlaces
  <2>2. CASE call.cmd = CMD_SENDBLOCK
    BY <1>1, <2>1, <2>2, SendBlockOps DEF LoopStep
  <2>3. CASE call.cmd = CMD_GETBLOCK
    BY <1>1, <2>1, <2>3, GetBlockOps DEF LoopStep
  <2>4. CASE call.cmd = CMD_FLASH_PAGE_ERASE
    BY <1>1, <2>1, <2>4, FlashPageEraseOps DEF LoopStep
  <2>5. CASE call.cmd \notin {CMD_SENDBLOCK, CMD_GETBLOCK, CMD_FLASH_PAGE_ERASE}
    BY <1>1, <2>1, <2>5 DEF LoopStep
  <2> QED  BY <2>1, <2>2, <2>3, <2>4, <2>5
<1>3. j = Rounds(call)
  BY <1>1, <1>2 DEF Round
<1>4. /\ SentBy(call, j) = HasRead(call, LastStep(call))
      /\ HasGot(call.cmd, fw.step) + BlockOf(call, j) = HasWritten(call, LastStep(call))
  BY <1>1, <1>2, <1>3 DEF Ends, SentBy
<1>5. HasWritten(call, host.at) <= HasWritten(call, LastStep(call))
  <2>1. LastStep(call) \in 1 .. LastStep(call) /\ host.at <= LastStep(call)
    BY <1>1
  <2> QED  BY <1>1, <2>1, CountsGrow
<1> DEFINE got == GotBy(call, j)
           written == HasWritten(call, host.at)
           all == HasWritten(call, LastStep(call))
<1>6. /\ got = HasGot(call.cmd, fw.step) + Len(fw.args) + BlockOf(call, j) - fw.seg
      /\ got \in Int /\ written \in Nat /\ Len(toProg) \in Nat
      /\ Level(got + Len(toProg), written)
  BY Balance
<1>7. got = all
  <2>1. HasGot(call.cmd, fw.step) \in Nat /\ BlockOf(call, j) \in Nat
    BY DEF Known, Tallied
  <2> QED  BY <1>1, <1>4, <1>6, <2>1
<1> HIDE DEF got, written, all
<1>8. got + Len(toProg) <= written /\ written <= all
  BY <1>5, <1>6 DEF Level, written, all
<1>9. Len(toProg) = 0 /\ written = all
  BY <1>6, <1>7, <1>8
<1> QED  BY <1>4, <1>9 DEF written, all

LEMMA FinishesUnderway ==
  ASSUME NEW call, NEW j, Inside(call, j), HostRests, Finishes
  PROVE  Done(call)'
<1>1. /\ FwAlone /\ LinkTypes /\ HostTypes /\ InSession /\ call = Current /\ fw.cmd = call.cmd
      /\ Open /\ Counted(call, j) /\ Known(call, j)
  BY Knows DEF Inside, Counting
<1>2. /\ Step.op = "ok" /\ Reply(<< REPL_OK >>) /\ UNCHANGED toProg
      /\ fw'.step = 0 /\ fw'.answered = call.cmd
      /\ fw'.loop = (IF call.cmd = CMD_STOP THEN "main" ELSE "cmd")
      /\ call.cmd = CMD_STOP => ~fw'.open
      /\ call.cmd = CMD_START => fw'.open
      /\ call.cmd \notin {CMD_STOP, CMD_START} => fw'.open = fw.open
  BY <1>1 DEF Finishes
<1>3. /\ Len(toProg) = 0
      /\ HasWritten(call, host.at) = HasWritten(call, LastStep(call))
      /\ SentBy(call, j) = HasRead(call, LastStep(call))
  BY <1>1, <1>2, AllIsDone
<1>4. toProg' = << >>
  BY <1>1, <1>2, <1>3 DEF LinkTypes
<1>5. ~Running'
  BY <1>2 DEF Running
<1>6. fw'.open <=> call.cmd # CMD_STOP
  <2>1. call.cmd # CMD_START => fw.open
    BY <1>1, OnlyFirstStarts DEF Open
  <2>2. call.cmd \notin {CMD_STOP, CMD_START} => fw'.open
    BY <1>2, <2>1, Zenon
  <2> QED  BY <1>2, <2>2, Zenon
<1>7. fw'.open = (call.cmd # CMD_STOP)
  <2>1. fw'.open \in BOOLEAN
    BY DEF Finishes, FwShape
  <2> QED  BY <1>6, <2>1, Zenon
<1>8. toHost' = toHost \o << REPL_OK >> /\ Len(toHost') = Len(toHost) + 1 /\ Len(toHost) \in Nat
      /\ toHost'[Len(toHost')] = REPL_OK
  <2>1. << REPL_OK >> \in Seq(Bytes)
    BY DEF Bytes
  <2>2. toHost' = toHost \o << REPL_OK >>
    BY <1>1, <1>2, <2>1, Replied, Zenon
  <2>3. toHost \in Seq(Bytes)
    BY <1>1 DEF LinkTypes
  <2> QED  BY <2>2, <2>3
<1>9. Until(call, LastStep(call))'
  <2> DEFINE read == HasRead(call, host.at)
             all == HasRead(call, LastStep(call))
  <2>1. read \in Nat /\ all \in Nat /\ Level(read + Len(toHost), all)
    BY <1>1, <1>3, Balance
  <2> HIDE DEF read, all
  <2>2. read + Len(toHost') <= all + 1 /\ (host.clean => read + Len(toHost') = all + 1)
    BY <1>8, <2>1 DEF Level
  <2>3. host' = host
    BY DEF HostRests
  <2>4. Level(HasRead(call, host.at) + Len(toHost), HasRead(call, LastStep(call)) + 1)'
    BY <2>2, <2>3, Zenon DEF Level, read, all
  <2>5. HasWritten(call, host.at)' = HasWritten(call, LastStep(call))'
    BY <1>3, <2>3
  <2> QED  BY <2>4, <2>5, Zenon DEF Until
<1>10. LastByte' = REPL_OK
  BY <1>8 DEF LastByte
<1> QED
  <2>1. /\ fw'.answered = call.cmd /\ fw'.loop = (IF call.cmd = CMD_STOP THEN "main" ELSE "cmd")
    BY <1>2
  <2> QED  BY <1>4, <1>5, <1>7, <1>9, <1>10, <2>1, Zenon DEF Done

\* A failure at step s is the last the handler sends
LEMMA LastOfReply ==
  ASSUME NEW s \in Seq(Bytes), NEW u \in Seq(Bytes), Len(u) > 0
  PROVE  /\ Len(s \o u) = Len(s) + Len(u) /\ (s \o u)[Len(s \o u)] = u[Len(u)]
         /\ \A i \in 1 .. Len(s) : (s \o u)[i] = s[i]
         /\ \A i \in 1 .. Len(u) : (s \o u)[Len(s) + i] = u[i]
OBVIOUS

LEMMA FailsWhereItLands ==
  ASSUME NEW call, NEW j, Inside(call, j), HostRests, NEW u \in Seq(Bytes), Fails(u),
         ~(call.cmd = CMD_SENDBYTE /\ fw.step = 4)
  PROVE  Failed(call)'
<1>1. /\ FwAlone /\ LinkTypes /\ HostTypes /\ InSession /\ call = Current /\ fw.cmd = call.cmd
      /\ Open /\ Counted(call, j) /\ Looped(call, j) /\ Known(call, j) /\ Running
  BY Knows DEF Inside, Counting
<1>2. /\ Step.op \in Failing /\ Len(u) = fw.toSend + 1 /\ u[Len(u)] \in FailureReplies
      /\ Reply(u) /\ UNCHANGED toProg /\ fw'.step = 0
      /\ (fw.open => fw'.loop = "cmd") /\ fw'.open = fw.open
  BY DEF Fails, Left, Failing
<1>3. /\ IsCall(call) /\ host.at \in 1 .. LastStep(call) /\ LastStep(call) \in Nat
      /\ fw.step \in Nat /\ fw.step \in DOMAIN Handlers[call.cmd]
      /\ OpPlaces(call.cmd, fw.step) /\ j \in Nat
      /\ Step = Handlers[call.cmd][fw.step] /\ Round(call, fw.step, j)
      /\ fw.seg = 0 /\ Len(fw.args) = 0
  <2>1. Step.op \notin {"packets", "recv", "size"}
    BY <1>2 DEF Failing
  <2> QED  BY <1>1, <2>1 DEF Known
<1>4. (\E b \in 1 .. LastStep(call) : LandsAt(call, fw.step, j, b)) /\ BlockOf(call, j) = 0
  <2>1. Lands(call, fw.step, j)
    BY <1>3, FailuresLand
  <2>2. Handlers[call.cmd][fw.step].op \in Failing
    BY <1>2, <1>3
  <2> QED  BY <2>1, <2>2, Zenon DEF Lands
<1>5. BlockOf(call, j) = 0
  BY <1>4
<1>b. PICK b \in 1 .. LastStep(call) : LandsAt(call, fw.step, j, b)
  BY <1>4
<1>6. fw.toSend = Padding(call, fw.step, j)
  <2>1. CASE call.cmd = CMD_GETBLOCK /\ fw.step = 4
    BY <1>1, <1>3, <2>1, LoopCounts DEF Padding, OpPlaces
  <2>2. CASE ~(call.cmd = CMD_GETBLOCK /\ fw.step = 4)
    <3>1. ~(call.cmd = CMD_GETBLOCK /\ fw.step = 3)
      <4>1. Handlers[CMD_GETBLOCK][3].op = "ack"
        BY GetBlockOps, OpFacts
      <4> QED  BY <1>2, <1>3, <4>1 DEF Failing
    <3>2. fw.toSend = Owes(call.cmd, fw.step)
      BY <1>1, <2>2, <3>1, HeldHere
    <3> QED  BY <2>2, <3>2 DEF Padding
  <2> QED  BY <2>1, <2>2
<1> DEFINE read == HasRead(call, host.at)
           written == HasWritten(call, host.at)
           readB == HasRead(call, b)
           writtenB == HasWritten(call, b)
           sent == SentBy(call, j)
           got == GotBy(call, j)
<1>7. /\ sent \in Nat /\ got \in Int /\ read \in Nat /\ written \in Nat
      /\ Len(toHost) \in Nat /\ Len(toProg) \in Nat
      /\ Level(read + Len(toHost), sent) /\ Level(got + Len(toProg), written)
      /\ sent = HasSent(call.cmd, fw.step) + j
      /\ got = HasGot(call.cmd, fw.step) + Len(fw.args) + BlockOf(call, j) - fw.seg
  BY <1>1, Balance
<1>8. fw.toSend \in Nat
  BY <1>1, Here, Fields
<1>9. readB = sent + fw.toSend /\ writtenB = got /\ Judges(call, b)
  <2>1. HasGot(call.cmd, fw.step) \in Nat
    BY <1>1 DEF Known, Tallied
  <2>2. writtenB = HasGot(call.cmd, fw.step) /\ Judges(call, b)
        /\ readB = HasSent(call.cmd, fw.step) + j + Padding(call, fw.step, j)
    BY <1>b DEF LandsAt
  <2> QED  BY <1>3, <1>5, <1>6, <1>7, <2>1, <2>2
<1>10. host.at <= b
  <2> SUFFICES ASSUME host.at > b  PROVE FALSE
    BY <1>3
  <2>1. b < LastStep(call) /\ b + 1 \in 1 .. LastStep(call) /\ b + 1 <= host.at
    BY <1>3
  <2>2. Moves(call, b)
    BY <1>3, StepMoves
  <2>3. Asks(Steps(call)[b]) = 1
    BY <1>9 DEF Judges, Asks
  <2>4. HasRead(call, b + 1) = readB + 1
    BY <2>1, <2>2, <2>3 DEF Moves
  <2>5. HasRead(call, b + 1) <= read
    BY <1>3, <2>1, CountsGrow
  <2> HIDE DEF read, written, readB, writtenB, sent, got
  <2>6. readB + 1 <= read
    BY <2>4, <2>5
  <2>7. read <= sent
    BY <1>7 DEF Level
  <2>8. sent \in Nat /\ read \in Nat /\ fw.toSend \in Nat /\ readB = sent + fw.toSend
    BY <1>7, <1>8, <1>9
  <2> QED  BY <2>6, <2>7, <2>8
<1>11. written <= writtenB
  BY <1>3, <1>10, CountsGrow
<1> HIDE DEF read, written, readB, writtenB, sent, got
<1>12. Len(toProg) = 0 /\ written = writtenB
  <2>1. got + Len(toProg) <= written
    BY <1>7 DEF Level
  <2> QED  BY <1>7, <1>9, <1>11, <2>1
<1>13. toProg' = << >>
  BY <1>1, <1>2, <1>12 DEF LinkTypes
<1>14. toHost' = toHost \o u /\ Len(toHost') = Len(toHost) + (fw.toSend + 1)
       /\ toHost'[Len(toHost')] = u[Len(u)]
  <2>1. toHost' = toHost \o u
    BY <1>1, <1>2, Replied
  <2>2. toHost \in Seq(Bytes) /\ Len(u) > 0
    BY <1>1, <1>2, <1>8 DEF LinkTypes
  <2> QED  BY <1>2, <2>1, <2>2, LastOfReply
<1>15. Until(call, b)'
  <2>1. read + Len(toHost') <= readB + 1 /\ (host.clean => read + Len(toHost') = readB + 1)
    <3>1. read + Len(toHost) <= sent /\ (host.clean => read + Len(toHost) = sent)
      BY <1>7 DEF Level
    <3>2. Len(toHost') = Len(toHost) + fw.toSend + 1 /\ readB = sent + fw.toSend
      BY <1>7, <1>8, <1>9, <1>14
    <3> DEFINE h == Len(toHost)
               h2 == Len(toHost')
               k == fw.toSend
    <3>3. /\ read \in Nat /\ h \in Nat /\ sent \in Nat /\ k \in Nat
          /\ read + h <= sent /\ (host.clean => read + h = sent)
          /\ h2 = h + k + 1 /\ readB = sent + k
      BY <1>7, <1>8, <3>1, <3>2
    <3> HIDE DEF h, h2, k
    <3>4. read + h2 <= readB + 1 /\ (host.clean => read + h2 = readB + 1)
      BY <3>3
    <3> QED  BY <3>4 DEF h2
  <2>2. host' = host
    BY DEF HostRests
  <2>3. Level(HasRead(call, host.at) + Len(toHost), HasRead(call, b) + 1)'
    BY <2>1, <2>2, Zenon DEF Level, read, readB
  <2>4. HasWritten(call, host.at)' = HasWritten(call, b)'
    BY <1>12, <2>2 DEF written, writtenB
  <2> QED  BY <2>3, <2>4, Zenon DEF Until
<1>16. IsBad(LastByte)'
  <2>1. \A x \in FailureReplies : IsBad(x)
    BY DEF IsBad, FailureReplies
  <2>2. LastByte' \in FailureReplies
    BY <1>2, <1>14 DEF LastByte
  <2> QED  BY <2>1, <2>2
<1>17. Open'
  BY <1>1, <1>2 DEF Open, HostRests
<1>18. ~Running'
  BY <1>2 DEF Running
<1>19. b \in (host.at .. LastStep(call))' /\ Judges(call, b)
  BY <1>3, <1>9, <1>10 DEF HostRests
<1>20. Judges(call, b)'
  BY <1>19
<1> QED  BY <1>13, <1>15, <1>16, <1>17, <1>18, <1>19, <1>20, Zenon DEF Failed

\* SENDBYTE has asked for its byte, and fails
LEMMA FailsBeforeByte ==
  ASSUME NEW call, NEW j, Inside(call, j), HostRests, NEW u \in Seq(Bytes), Fails(u),
         call.cmd = CMD_SENDBYTE, fw.step = 4
  PROVE  ByteFailed(call)'
<1>1. /\ FwAlone /\ LinkTypes /\ InSession /\ fw.cmd = call.cmd /\ OnlyData
      /\ Open /\ Counted(call, j) /\ Known(call, j) /\ Running
  BY Knows DEF Inside, Counting
<1>2. /\ Len(u) = fw.toSend + 1 /\ u[Len(u)] \in FailureReplies
      /\ Reply(u) /\ UNCHANGED toProg /\ fw'.step = 0
      /\ (fw.open => fw'.loop = "cmd") /\ fw'.open = fw.open
  BY DEF Fails, Left
<1>3. /\ IsCall(call) /\ host.at \in 1 .. LastStep(call) /\ j \in Nat
      /\ Round(call, fw.step, j) /\ Step = Handlers[CMD_SENDBYTE][4]
  BY <1>1 DEF Known
<1> DEFINE at == host.at
           h == Len(toHost)
           p == Len(toProg)
<1>4. at \in 1 .. 7 /\ j = 0
  BY <1>3, SendByteSteps DEF Round, Rounds
<1>5. /\ HasRead(call, at) = IF at > 6 THEN 3 ELSE IF at > 4 THEN 2 ELSE IF at > 2 THEN 1 ELSE 0
      /\ HasWritten(call, at) = IF at > 5 THEN 5 ELSE IF at > 3 THEN 4 ELSE IF at > 1 THEN 1 ELSE 0
  BY <1>4, SendByteCounts
<1>6. /\ SentBy(call, j) = 2 /\ GotBy(call, j) = 4
      /\ h \in Nat /\ p \in Nat
      /\ Level(HasRead(call, at) + h, 2) /\ Level(4 + p, HasWritten(call, at))
  <2>1. HasSent(CMD_SENDBYTE, 4) = 2 /\ Parameters(CMD_SENDBYTE, 4) = 3
    BY SendByteFlow DEF Once
  <2>2. HasGot(CMD_SENDBYTE, 4) = 4
    BY <2>1 DEF HasGot
  <2>3. SentBy(call, j) = 2
    BY <1>4, <2>1 DEF SentBy
  <2>4. Step.op = "updi"
    BY <1>3, SendByteOps DEF TargetAck, Updi
  <2>5. GotBy(call, j) = 4
    <3>1. fw.seg = 0 /\ Len(fw.args) = 0
      BY <1>1, <2>4 DEF Known
    <3>2. BlockOf(call, j) = 0
      BY DEF BlockOf
    <3>3. GotBy(call, j) = HasGot(call.cmd, fw.step) + Len(fw.args) + BlockOf(call, j) - fw.seg
      BY <1>1, Balance
    <3> QED  BY <2>2, <3>1, <3>2, <3>3
  <2>6. /\ h \in Nat /\ p \in Nat /\ Level(HasRead(call, at) + h, SentBy(call, j))
        /\ Level(GotBy(call, j) + p, HasWritten(call, at))
    BY <1>1, Balance
  <2> QED  BY <2>3, <2>5, <2>6
<1> HIDE DEF at, h, p
<1>7. /\ at \in 4 .. 6 /\ p <= (IF at = 6 THEN 1 ELSE 0)
      /\ h <= (IF at = 4 THEN 1 ELSE 0)
      /\ host.clean => h = (IF at = 4 THEN 1 ELSE 0)
  <2>1. HasRead(call, at) + h <= 2 /\ (host.clean => HasRead(call, at) + h = 2)
        /\ 4 + p <= HasWritten(call, at)
    BY <1>6 DEF Level
  <2> QED  BY <1>4, <1>5, <1>6, <2>1
<1>8. fw.toSend = 0
  <2>1. Owes(CMD_SENDBYTE, 4) = 0
    BY SendByteFlow
  <2> QED  BY <1>1, <2>1, HeldHere
<1>9. toHost' = toHost \o u /\ Len(toHost') = h + 1 /\ toHost'[h + 1] = u[1]
      /\ IsBad(toHost'[h + 1])
  <2>1. Len(u) = 1
    BY <1>2, <1>8
  <2>2. toHost' = toHost \o u
    BY <1>1, <1>2, Replied
  <2>3. toHost \in Seq(Bytes)
    BY <1>1 DEF LinkTypes
  <2>4. Len(toHost') = h + 1 /\ toHost'[h + 1] = u[1]
    <3>1. Len(toHost') = Len(toHost) + Len(u) /\ toHost'[Len(toHost')] = u[Len(u)]
      <4>1. Len(u) > 0
        BY <2>1
      <4> QED  BY <2>2, <2>3, <4>1, LastOfReply, Zenon
    <3> QED  BY <2>1, <3>1 DEF h
  <2>5. \A x \in FailureReplies : IsBad(x)
    BY DEF IsBad, FailureReplies
  <2>6. u[1] \in FailureReplies
    BY <1>2, <2>1
  <2> QED  BY <2>2, <2>4, <2>5, <2>6
<1> DEFINE k == IF at = 4 THEN 2 ELSE 1
<1>10. host' = host /\ at' = at
  BY DEF HostRests, at
<1>11. at' \in 4 .. 6 /\ Len(toProg') <= Once(at' = 6) /\ OnlyData'
  <2>1. OnlyData' /\ toProg' = toProg
    BY <1>1, <1>2, SameData
  <2> QED  BY <1>7, <1>10, <2>1 DEF Once, p
<1>12. host.clean => Len(toHost') >= k /\ IsBad(toHost'[k])
  <2>1. host.clean => h + 1 = k
    BY <1>6, <1>7
  <2> QED  BY <1>6, <1>9, <2>1
<1>13. \A i \in k .. Len(toHost') : IsBad(toHost'[i])
  <2>1. h + 1 <= k
    BY <1>6, <1>7
  <2>2. \A i \in k .. h + 1 : i = h + 1
    BY <1>6, <2>1
  <2> QED  BY <1>9, <2>2
<1>14. Open' /\ ~Running'
  BY <1>1, <1>2, <1>10 DEF Open, Running
<1> HIDE DEF k
<1>15. k = (IF host'.at = 4 THEN 2 ELSE 1) /\ at' = host'.at
  BY <1>10 DEF k, at
<1> QED  BY <1>10, <1>11, <1>12, <1>13, <1>14, <1>15 DEF ByteFailed

\* A command is taken
LEMMA BeginsFresh ==
  ASSUME NEW call, FwAlone, LinkTypes, HostTypes, InSession, call = Current,
         Fresh(call), HostRests, Begins
  PROVE  Underway(call)'
<1>1. /\ host.at = 2 /\ toProg = <<[val |-> call.cmd, cmd |-> TRUE]>> /\ toHost = << >> /\ Open
  BY DEF Fresh, Begins
<1>2. Head(toProg).val = call.cmd /\ Tail(toProg) = << >>
  BY <1>1
<1>3. /\ toProg' = << >> /\ UNCHANGED toHost
      /\ fw'.cmd = call.cmd /\ fw'.step = 1 /\ fw'.args = << >> /\ fw'.seg = fw.seg
      /\ fw'.open = fw.open /\ fw'.loop = fw.loop
  BY <1>2 DEF Begins
<1>4. IsCall(call) /\ call.cmd \in Commands /\ fw.seg = 0
  BY Calling, CallCommands, AtRest DEF Begins
<1>5. /\ HasSent(call.cmd, 1) = 0 /\ HasGot(call.cmd, 1) = 1
      /\ HasRead(call, 2) = 0 /\ HasWritten(call, 2) = 1
  <2>1. HasRead(call, 2) = 0
    BY DEF HasRead, BodyRead, Once
  <2>2. BodyWritten(call, 2) = 0
    BY DEF BodyWritten, Once
  <2>3. HasWritten(call, 2) = 1
    BY <2>2 DEF HasWritten, Once
  <2> QED  BY <1>4, <2>1, <2>3, CommandBegins
<1>6. 0 \in 0 .. Rounds(call) /\ BlockOf(call, 0) = 0
  <2>1. Rounds(call) \in Nat
    BY <1>4, CallsEnd DEF Ends
  <2>2. 0 \in 0 .. Rounds(call)
    BY <2>1
  <2> QED  BY <1>4, <2>2, BlockFacts
<1>7. Looped(call, 0)'
  <2>1. Round(call, 1, 0)
    BY <1>6 DEF Round, LoopStep, Rounds
  <2> QED  BY <1>3, <2>1, LoopsOn
<1>8. Counted(call, 0)'
  <2>1. SentBy(call, 0)' = 0
    BY <1>3, <1>5 DEF SentBy
  <2>2. GotBy(call, 0)' = 1
    <3>1. BlockGot(call, 0)' = 0
      BY <1>3, <1>4, <1>6 DEF BlockGot, BlockOf
    <3>2. Len(fw'.args) = 0
      BY <1>3
    <3> QED  BY <1>3, <1>5, <3>1, <3>2 DEF GotBy
  <2>3. host'.at = 2 /\ Len(toHost') = 0 /\ Len(toProg') = 0
    BY <1>1, <1>3 DEF HostRests
  <2>4. Level(HasRead(call, host.at) + Len(toHost), SentBy(call, 0))'
    BY <1>5, <2>1, <2>3 DEF Level
  <2>5. Level(GotBy(call, 0) + Len(toProg), HasWritten(call, host.at))'
    BY <1>5, <2>2, <2>3 DEF Level
  <2> QED  BY <2>4, <2>5, Zenon DEF Counted, SentBy, GotBy
<1>9. SizeIsCalls(call)'
  <2>1. fw'.args = << >> /\ Len(toProg') # 2
    BY <1>3
  <2> QED  BY <1>3, <2>1, SizeStays
<1>10. OnlyData'
  BY <1>3 DEF OnlyData
<1>11. Open'
  BY <1>1, <1>3, StaysOpen DEF HostRests
<1>12. Running'
  BY <1>3 DEF Running
<1> QED  BY <1>3, <1>6, <1>7, <1>8, <1>9, <1>10, <1>11, <1>12, StaysUnderway

-------------------------------------------------------------------------------
(* Acknowledged first *)

LEMMA AcksReplied ==
  ASSUME NEW call, Acks(call), HostRests, LinkTypes, Running,
         NEW u \in Seq(Bytes), toHost' = toHost \o u,
         host.clean =>
           \A k \in 1 .. Len(u) :
             /\ call.cmd = CMD_FLASH_PAGE_ERASE \/ HasRead(call, host.at) + (Len(toHost) + k) = 1
             /\ Running' \/ k < Len(u)
             => u[k] = REPL_ACK
  PROVE  Acks(call)'
<1>1. host' = host
  BY DEF HostRests
<1> SUFFICES ASSUME host.clean, NEW i \in 1 .. Len(toHost'),
                    call.cmd = CMD_FLASH_PAGE_ERASE \/ HasRead(call, host.at) + i = 1,
                    Running' \/ i < Len(toHost')
             PROVE  toHost'[i] = REPL_ACK
  BY <1>1, Zenon DEF Acks
<1>2. toHost \in Seq(Bytes) /\ Len(toHost) \in Nat /\ Len(u) \in Nat
      /\ Len(toHost') = Len(toHost) + Len(u)
  BY DEF LinkTypes
<1>3. CASE i <= Len(toHost)
  <2>1. i \in 1 .. Len(toHost) /\ toHost'[i] = toHost[i]
    BY <1>2, <1>3
  <2> QED  BY <2>1, Zenon DEF Acks
<1>4. CASE i > Len(toHost)
  <2>1. PICK k \in 1 .. Len(u) : i = Len(toHost) + k
    <3>1. i - Len(toHost) \in 1 .. Len(u) /\ i = Len(toHost) + (i - Len(toHost))
      BY <1>2, <1>4
    <3> QED  BY <3>1
  <2>2. toHost'[i] = u[k]
    BY <1>2, <2>1
  <2>3. k < Len(u) \/ ~(i < Len(toHost'))
    BY <1>2, <2>1
  <2> QED  BY <2>1, <2>2, <2>3, Zenon
<1> QED  BY <1>2, <1>3, <1>4

LEMMA AcksStill ==
  ASSUME NEW call, Acks(call), HostRests, LinkTypes, Running, UNCHANGED toHost
  PROVE  Acks(call)'
BY Zenon DEF Acks, HostRests

LEMMA OneAck ==
  << REPL_ACK >> \in Seq(Bytes) /\ Len(<< REPL_ACK >>) = 1
    /\ \A k \in 1 .. 1 : << REPL_ACK >>[k] = REPL_ACK
BY DEF Bytes

LEMMA AcksReplyAck ==
  ASSUME NEW call, Acks(call), HostRests, LinkTypes, InSession, Running, Reply(<< REPL_ACK >>)
  PROVE  Acks(call)'
<1>1. toHost' = toHost \o << REPL_ACK >>
  BY OneAck, Replied, Zenon
<1> QED  BY <1>1, OneAck, AcksReplied, Zenon

\* What follows the first ACK
LEMMA AcksAnswered ==
  ASSUME NEW call, NEW j, Inside(call, j), Acks(call), HostRests,
         NEW u \in Seq(Bytes), Reply(u),
         \/ Len(u) = 0
         \/ HasSent(call.cmd, fw.step) >= 1 /\ call.cmd # CMD_FLASH_PAGE_ERASE
         \/ ~Running' /\ Len(u) = 1
  PROVE  Acks(call)'
<1>1. /\ LinkTypes /\ InSession /\ Running /\ Counted(call, j) /\ Known(call, j)
  BY Knows DEF Inside, Counting
<1>2. toHost' = toHost \o u /\ Len(u) \in Nat
  BY <1>1, Replied
<1>3. ASSUME host.clean, NEW k \in 1 .. Len(u),
             call.cmd = CMD_FLASH_PAGE_ERASE \/ HasRead(call, host.at) + (Len(toHost) + k) = 1,
             Running' \/ k < Len(u)
      PROVE  FALSE
  <2>1. ~(Len(u) = 0) /\ ~(~Running' /\ Len(u) = 1)
    BY <1>2, <1>3
  <2>2. HasSent(call.cmd, fw.step) >= 1 /\ HasRead(call, host.at) + (Len(toHost) + k) = 1
    BY <1>3, <2>1, Zenon
  <2> DEFINE read == HasRead(call, host.at)
             s == HasSent(call.cmd, fw.step)
  <2>3. /\ read \in Nat /\ Len(toHost) \in Nat /\ j \in Nat /\ s \in Nat
        /\ read + Len(toHost) = s + j
    <3>1. SentBy(call, j) = s + j /\ Level(read + Len(toHost), SentBy(call, j))
          /\ read \in Nat /\ Len(toHost) \in Nat
      BY <1>1, Balance
    <3>2. s \in Nat /\ j \in Nat
      BY <1>1 DEF Known, Tallied
    <3>3. read + Len(toHost) = SentBy(call, j)
      BY <1>3, <3>1 DEF Level
    <3> QED  BY <3>1, <3>2, <3>3
  <2>4. s >= 1 /\ read + (Len(toHost) + k) = 1
    BY <2>2
  <2> HIDE DEF read, s
  <2> QED  BY <1>2, <2>3, <2>4
<1>4. host.clean =>
        \A k \in 1 .. Len(u) :
          /\ call.cmd = CMD_FLASH_PAGE_ERASE \/ HasRead(call, host.at) + (Len(toHost) + k) = 1
          /\ Running' \/ k < Len(u)
          => u[k] = REPL_ACK
  BY <1>3, Zenon
<1> QED  BY <1>1, <1>2, <1>4, AcksReplied, Zenon

LEMMA OnwardAcks ==
  ASSUME NEW call, NEW j, Inside(call, j), Acks(call), HostRests, NEW u \in Seq(Bytes), Onward(u)
  PROVE  Acks(call)'
<1>1. /\ LinkTypes /\ InSession /\ Running /\ Known(call, j) /\ fw.cmd = call.cmd
  BY Knows DEF Inside
<1>2. /\ Reply(u) /\ Len(u) = Sends(call.cmd, fw.step)
      /\ Step.op = "ack" => u = << REPL_ACK >>
  BY <1>1, Zenon DEF Onward
<1>3. CASE Step.op = "ack"
  BY <1>1, <1>2, <1>3, AcksReplyAck, Zenon
<1>4. CASE Step.op # "ack"
  <2>1. Sends(call.cmd, fw.step) > 0 =>
          HasSent(call.cmd, fw.step) >= 1 /\ call.cmd # CMD_FLASH_PAGE_ERASE
    BY <1>1, <1>4, AcksComeFirst DEF Known
  <2>2. Len(u) = 0 \/ Sends(call.cmd, fw.step) > 0
    BY <1>2
  <2> QED  BY <1>2, <2>1, <2>2, AcksAnswered, Zenon
<1> QED  BY <1>3, <1>4

LEMMA StreamsAcks ==
  ASSUME NEW call, NEW j, Inside(call, j), Acks(call), HostRests, NEW b \in MemoryBytes, Streams(b)
  PROVE  Acks(call)'
<1>1. Known(call, j)
  BY Knows
<1>2. Step.op = "stream" /\ Reply(<< b >>)
  BY DEF Streams
<1>3. call.cmd = CMD_GETBLOCK /\ fw.step = 4
  BY <1>1, <1>2 DEF Known, OpPlaces
<1>4. HasSent(CMD_GETBLOCK, 4) = 2
  BY GetBlockFlow DEF Once
<1>5. HasSent(call.cmd, fw.step) >= 1 /\ call.cmd # CMD_FLASH_PAGE_ERASE
  BY <1>3, <1>4
<1>6. << b >> \in Seq(Bytes)
  <2>1. b \in Bytes
    BY MemoryAssumption DEF Bytes
  <2> QED  BY <2>1
<1> QED  BY <1>2, <1>5, <1>6, AcksAnswered, Zenon

LEMMA FinishesAcks ==
  ASSUME NEW call, NEW j, Inside(call, j), Acks(call), HostRests, Finishes
  PROVE  Acks(call)'
<1>1. Reply(<< REPL_OK >>) /\ ~Running'
  BY DEF Finishes, Running
<1>2. << REPL_OK >> \in Seq(Bytes) /\ Len(<< REPL_OK >>) = 1
  BY DEF Bytes
<1> QED  BY <1>1, <1>2, AcksAnswered, Zenon

LEMMA FailsAcks ==
  ASSUME NEW call, NEW j, Inside(call, j), Acks(call), HostRests, NEW u \in Seq(Bytes), Fails(u)
  PROVE  Acks(call)'
<1>1. Known(call, j) /\ FwAlone /\ Running /\ fw.cmd = call.cmd
  BY Knows DEF Inside
<1>2. Reply(u) /\ Step.op \in Failing /\ Len(u) = fw.toSend + 1 /\ ~Running'
  BY DEF Fails, Left, Failing, Running
<1>3. CASE call.cmd = CMD_FLASH_PAGE_ERASE
  <2>1. fw.toSend = 0
    <3>1. Owes(CMD_FLASH_PAGE_ERASE, fw.step) = 0
      BY <1>1, FlashPageEraseFlow DEF Known
    <3> QED  BY <1>1, <1>3, <3>1, HeldHere
  <2>2. Len(u) = 1
    BY <1>2, <2>1
  <2> QED  BY <1>2, <2>2, AcksAnswered, Zenon
<1>4. CASE call.cmd # CMD_FLASH_PAGE_ERASE
  <2>1. HasSent(call.cmd, fw.step) >= 1
    <3>1. CASE call.cmd = CMD_SENDBYTE /\ fw.step = 4
      <4>1. HasSent(CMD_SENDBYTE, 4) = 2
        BY SendByteFlow DEF Once
      <4> QED  BY <3>1, <4>1
    <3>2. CASE ~(call.cmd = CMD_SENDBYTE /\ fw.step = 4)
      <4>1. Lands(call, fw.step, j)
        BY <1>1, FailuresLand DEF Known
      <4>2. Handlers[call.cmd][fw.step].op \in Failing
        BY <1>1, <1>2 DEF Known
      <4> QED  BY <3>2, <4>1, <4>2, Zenon DEF Lands
    <3> QED  BY <3>1, <3>2
  <2> QED  BY <1>2, <1>4, <2>1, AcksAnswered, Zenon
<1> QED  BY <1>3, <1>4

\* SENDBYTE's failures come after its command's ACK was read
LEMMA ByteFailedAcks ==
  ASSUME NEW call, call.cmd = CMD_SENDBYTE, LinkTypes, NEW a \in 4 .. 6, host'.at = a
  PROVE  Acks(call)'
<1>1. HasRead(call, a) >= 1 /\ HasRead(call, a) \in Nat
  BY SendByteCounts
<1>2. \A i \in 1 .. Len(toHost') : ~(HasRead(call, host'.at) + i = 1)
  BY <1>1
<1>3. call.cmd # CMD_FLASH_PAGE_ERASE
  OBVIOUS
<1> QED  BY <1>2, <1>3, Zenon DEF Acks

-------------------------------------------------------------------------------
(* The programmer stays in step *)

\* The programmer reads what is first in flight, if anything
LEMMA FwReads ==
  ASSUME FwAlone, LinkTypes, FwNext
  PROVE  /\ Len(toProg) \in Nat /\ Len(toProg') \in Nat /\ Len(toProg') <= Len(toProg)
         /\ OnlyData => OnlyData'
<1>1. Len(toProg) \in Nat
  BY DEF LinkTypes
<1>2. CASE toProg # << >> /\ toProg' = Tail(toProg)
  <2>1. Len(toProg') \in Nat /\ Len(toProg') <= Len(toProg)
    BY <1>1, <1>2 DEF LinkTypes
  <2>2. OnlyData => OnlyData'
    BY <1>2, TailIsData
  <2> QED  BY <1>1, <2>1, <2>2
<1>3. CASE UNCHANGED toProg
  BY <1>1, <1>3 DEF OnlyData
<1>4. ASSUME NEW n \in 0 .. Len(toProg), toProg' = SubSeq(toProg, n + 1, Len(toProg))
      PROVE  /\ Len(toProg') \in Nat /\ Len(toProg') <= Len(toProg)
             /\ OnlyData => OnlyData'
  <2>1. Len(toProg') = Len(toProg) - n
    BY <1>4 DEF LinkTypes
  <2>2. OnlyData => OnlyData'
    BY <1>4, StaysData
  <2> QED  BY <1>1, <2>1, <2>2
<1>5. \/ toProg # << >> /\ toProg' = Tail(toProg)
      \/ UNCHANGED toProg
      \/ \E n \in 0 .. Len(toProg) : toProg' = SubSeq(toProg, n + 1, Len(toProg))
  <2>1. Begins \/ Rejects \/ TakesOne \/ ForwardsOne => toProg # << >> /\ toProg' = Tail(toProg)
    BY DEF Begins, Rejects, TakesOne, ForwardsOne
  <2>2. \A size \in 0 .. MaxSize : TakesLast(size) => toProg # << >> /\ toProg' = Tail(toProg)
    BY DEF TakesLast
  <2>3. Finishes \/ ErasesOne => UNCHANGED toProg
    BY DEF Finishes, ErasesOne
  <2>4. /\ \A u \in Seq(Bytes) : Onward(u) \/ Fails(u) => UNCHANGED toProg
        /\ \A b \in MemoryBytes : Streams(b) => UNCHANGED toProg
        /\ \A n \in Nat : AsksFor(n) => UNCHANGED toProg
    BY DEF Onward, Fails, Streams, AsksFor
  <2>5. \A n \in Nat : PacketsEnd(n) => /\ n \in 0 .. Len(toProg)
                                        /\ toProg' = SubSeq(toProg, n + 1, Len(toProg))
    BY DEF PacketsEnd
  <2> QED  BY <2>1, <2>2, <2>3, <2>4, <2>5, FwActs, Zenon
<1> QED  BY <1>1, <1>2, <1>3, <1>4, <1>5

\* It adds what it sends to what it has sent
LEMMA FwWrites ==
  ASSUME FwAlone, LinkTypes, FwNext
  PROVE  \E u \in Seq(Bytes) : Reply(u)
<1>1. /\ << >> \in Seq(Bytes) /\ << REPL_ACK >> \in Seq(Bytes) /\ << REPL_OK >> \in Seq(Bytes)
      /\ << REPL_INVALID >> \in Seq(Bytes) /\ \A b \in MemoryBytes : << b >> \in Seq(Bytes)
  <2>1. \A b \in MemoryBytes : b \in Bytes
    BY MemoryAssumption DEF Bytes
  <2> QED  BY <2>1, Single, CodesAreBytes DEF Bytes
<1>2. UNCHANGED toHost => Reply(<< >>)
  BY Silence
<1>3. /\ Begins \/ TakesOne \/ ForwardsOne => UNCHANGED toHost
      /\ \A size \in 0 .. MaxSize : TakesLast(size) => UNCHANGED toHost
      /\ \A n \in Nat : PacketsEnd(n) => UNCHANGED toHost
  BY Zenon DEF Begins, TakesOne, ForwardsOne, TakesLast, PacketsEnd
<1>4. /\ \A b \in MemoryBytes : Streams(b) => Reply(<< b >>)
      /\ \A u \in Seq(Bytes) : Onward(u) \/ Fails(u) => Reply(u)
  BY Zenon DEF Streams, Onward, Fails
<1> DEFINE Says == \E u \in Seq(Bytes) : Reply(u)
<1>5. UNCHANGED toHost => Says
  BY <1>1, <1>2, Zenon
<1> HIDE DEF Says
<1>6. /\ Begins \/ TakesOne \/ ForwardsOne => Says
      /\ \A size \in 0 .. MaxSize : TakesLast(size) => Says
      /\ \A n \in Nat : PacketsEnd(n) => Says
  BY <1>3, <1>5, Zenon
<1>10. /\ Rejects \/ Finishes \/ ErasesOne => Says
       /\ \A n \in Nat : AsksFor(n) => Says
  <2>1. ASSUME NEW u \in Seq(Bytes), Reply(u)  PROVE Says
    BY <2>1 DEF Says
  <2>2. Reply(<< REPL_INVALID >>) \/ Reply(<< REPL_OK >>) \/ Reply(<< REPL_ACK >>) => Says
    BY <1>1, <2>1, Zenon
  <2>3. Rejects => Reply(<< REPL_INVALID >>)
    BY DEF Rejects
  <2>4. Finishes => Reply(<< REPL_OK >>)
    BY DEF Finishes
  <2>5. ErasesOne => Reply(<< REPL_ACK >>)
    BY DEF ErasesOne
  <2>6. \A n \in Nat : AsksFor(n) => Reply(<< REPL_ACK >>)
    BY DEF AsksFor
  <2> QED  BY <2>2, <2>3, <2>4, <2>5, <2>6
<1>7. \A b \in MemoryBytes : Streams(b) => Says
  BY <1>1, <1>4, Zenon DEF Says
<1>8. \A u \in Seq(Bytes) : Onward(u) \/ Fails(u) => Says
  BY <1>4, Zenon DEF Says
<1>9. Says
  BY <1>6, <1>7, <1>8, <1>10, FwActs, Zenon
<1> QED  BY <1>9 DEF Says

\* A byte that was sent as data is no command
LEMMA FwStrays ==
  ASSUME FwAlone, LinkTypes, FwNext
  PROVE  /\ Running \/ Rejects => fw'.astray = fw.astray
         /\ ~Running /\ OnlyData => Rejects \/ fw'.astray
         /\ Rejects => UNCHANGED fw
<1>1. Rejects => UNCHANGED fw
  BY DEF Rejects
<1>2. Running => ~Begins /\ ~Rejects
  BY DEF Begins, Rejects
<1>3. Running => fw'.astray = fw.astray
  <2>1. /\ Finishes \/ TakesOne \/ ForwardsOne \/ ErasesOne => fw'.astray = fw.astray
        /\ \A u \in Seq(Bytes) : Onward(u) \/ Fails(u) => fw'.astray = fw.astray
        /\ \A size \in 0 .. MaxSize : TakesLast(size) => fw'.astray = fw.astray
        /\ \A b \in MemoryBytes : Streams(b) => fw'.astray = fw.astray
        /\ \A n \in Nat : AsksFor(n) \/ PacketsEnd(n) => fw'.astray = fw.astray
    BY Zenon DEF Finishes, TakesOne, ForwardsOne, ErasesOne, Onward, Fails, Left, TakesLast,
                 Streams, AsksFor, PacketsEnd, Effect
  <2> QED  BY <1>2, <2>1, FwActs, Zenon
<1>4. ~Running => Begins \/ Rejects
  <2>1. /\ Finishes \/ TakesOne \/ ForwardsOne \/ ErasesOne => Running
        /\ \A u \in Seq(Bytes) : Onward(u) \/ Fails(u) => Running
        /\ \A size \in 0 .. MaxSize : TakesLast(size) => Running
        /\ \A b \in MemoryBytes : Streams(b) => Running
        /\ \A n \in Nat : AsksFor(n) \/ PacketsEnd(n) => Running
    BY Zenon DEF Finishes, TakesOne, ForwardsOne, ErasesOne, Onward, Fails, TakesLast,
                 Streams, AsksFor, PacketsEnd
  <2> QED  BY <2>1, FwActs, Zenon
<1>5. Begins /\ OnlyData => fw'.astray
  <2> SUFFICES ASSUME Begins, OnlyData  PROVE fw'.astray
    OBVIOUS
  <2>1. toProg # << >> /\ fw'.astray = Judge(Head(toProg)) /\ Accepts(Head(toProg).val)
    BY Zenon DEF Begins
  <2>2. 1 \in DOMAIN toProg /\ Head(toProg) = toProg[1]
    BY <2>1 DEF LinkTypes
  <2>3. ~Head(toProg).cmd
    BY <2>2 DEF OnlyData
  <2>4. Judge(Head(toProg))
    BY <2>1, <2>3, Zenon DEF Judge
  <2> QED  BY <2>1, <2>4, Zenon
<1> QED  BY <1>1, <1>3, <1>4, <1>5, Zenon

\* SENDBYTE failed before its byte: what follows is the byte's, and comes after the failure
LEMMA ByteFailedStays ==
  ASSUME NEW call, ByteFailed(call), FwAlone, LinkTypes, InSession, HostRests, FwNext
  PROVE  ByteFailed(call)'
<1>1. PICK u \in Seq(Bytes) : toHost' = toHost \o u
  BY FwWrites, Replied
<1>2. /\ toHost \in Seq(Bytes) /\ Len(toHost) \in Nat /\ Len(u) \in Nat
      /\ Len(toHost') = Len(toHost) + Len(u)
      /\ \A i \in 1 .. Len(toHost) : toHost'[i] = toHost[i]
  BY <1>1 DEF LinkTypes
<1>3. host' = host
  BY DEF HostRests
<1> DEFINE k == IF host.at = 4 THEN 2 ELSE 1
<1>4. /\ call.cmd = CMD_SENDBYTE /\ host.at \in 4 .. 6
      /\ Len(toProg) <= Once(host.at = 6) /\ OnlyData
      /\ host.clean => Len(toHost) >= k /\ IsBad(toHost[k])
      /\ ~fw.astray => /\ ~Running /\ Open
                       /\ \A i \in k .. Len(toHost) : IsBad(toHost[i])
  BY DEF ByteFailed
<1>5. k \in 1 .. 2
  OBVIOUS
<1> HIDE DEF k
<1>6. /\ Len(toProg') <= Once(host.at = 6) /\ OnlyData'
  <2>1. Once(host.at = 6) \in Nat
    BY DEF Once
  <2> QED  BY <1>4, <2>1, FwReads
<1>7. host.clean => Len(toHost') >= k /\ IsBad(toHost'[k])
  <2> SUFFICES ASSUME host.clean  PROVE Len(toHost') >= k /\ IsBad(toHost'[k])
    OBVIOUS
  <2>1. Len(toHost) >= k /\ IsBad(toHost[k])
    BY <1>4
  <2>2. k \in 1 .. Len(toHost)
    BY <1>2, <1>5, <2>1
  <2> QED  BY <1>2, <1>5, <2>1, <2>2
<1>8. ~fw'.astray => /\ ~Running' /\ Open'
                     /\ \A i \in k .. Len(toHost') : IsBad(toHost'[i])
  <2> SUFFICES ASSUME ~fw'.astray
               PROVE  /\ ~Running' /\ Open'
                      /\ \A i \in k .. Len(toHost') : IsBad(toHost'[i])
    OBVIOUS
  <2>1. ~fw.astray /\ Rejects /\ fw' = fw
    BY <1>4, FwStrays, Zenon
  <2>2. ~Running' /\ Open'
    BY <1>3, <1>4, <2>1 DEF Running, Open
  <2>3. toHost' = toHost \o << REPL_INVALID >>
    BY <2>1 DEF Rejects, Reply, InSession
  <2>4. Len(toHost') = Len(toHost) + 1 /\ toHost'[Len(toHost) + 1] = REPL_INVALID
    BY <1>2, <2>3, CodesAreBytes
  <2>5. ASSUME NEW i \in k .. Len(toHost')  PROVE IsBad(toHost'[i])
    <3>1. CASE i <= Len(toHost)
      <4>1. i \in k .. Len(toHost) /\ i \in 1 .. Len(toHost)
        BY <1>2, <1>5, <3>1
      <4> QED  BY <1>2, <1>4, <2>1, <4>1
    <3>2. CASE i > Len(toHost)
      <4>1. i = Len(toHost) + 1
        BY <1>2, <1>5, <2>4, <3>2
      <4> QED  BY <2>4, <4>1 DEF IsBad
    <3> QED  BY <1>2, <1>5, <3>1, <3>2
  <2> QED  BY <2>2, <2>5
<1>9. k = IF host'.at = 4 THEN 2 ELSE 1
  BY <1>3 DEF k
<1> QED  BY <1>3, <1>4, <1>6, <1>7, <1>8, <1>9, Zenon DEF ByteFailed

\* Until the command has come the programmer has nothing to do but to take it
LEMMA FreshTaken ==
  ASSUME NEW call, FwAlone, LinkTypes, HostTypes, InSession, call = Current,
         Fresh(call), HostRests, FwNext
  PROVE  Underway(call)' /\ UNCHANGED toHost
<1>1. ~Running /\ Open
  BY DEF Fresh
<1>2. Begins \/ Rejects
  <2>1. /\ Finishes \/ TakesOne \/ ForwardsOne \/ ErasesOne => Running
        /\ \A u \in Seq(Bytes) : Onward(u) \/ Fails(u) => Running
        /\ \A size \in 0 .. MaxSize : TakesLast(size) => Running
        /\ \A b \in MemoryBytes : Streams(b) => Running
        /\ \A n \in Nat : AsksFor(n) \/ PacketsEnd(n) => Running
    BY Zenon DEF Finishes, TakesOne, ForwardsOne, ErasesOne, Onward, Fails, TakesLast,
                 Streams, AsksFor, PacketsEnd
  <2> QED  BY <1>1, <2>1, FwActs, Zenon
<1>3. ~Rejects
  <2> SUFFICES ASSUME Rejects  PROVE FALSE
    OBVIOUS
  <2>1. toProg # << >> /\ ~Accepts(Head(toProg).val)
    BY Zenon DEF Rejects
  <2>2. toProg = <<[val |-> call.cmd, cmd |-> TRUE]>>
    BY <2>1 DEF Fresh
  <2>3. Head(toProg).val = call.cmd
    BY <2>2
  <2>4. call.cmd \in Commands
    BY Calling, CallCommands
  <2>5. Accepts(call.cmd)
    BY <1>1, <2>4, OnlyFirstStarts DEF Accepts, Open
  <2> QED  BY <2>1, <2>3, <2>5
<1>4. Begins
  BY <1>2, <1>3
<1>5. UNCHANGED toHost
  BY <1>4 DEF Begins
<1> QED  BY <1>4, <1>5, BeginsFresh

\* Once it has answered it waits
LEMMA AtRestWaits ==
  ASSUME FwAlone, LinkTypes, ~Running, toProg = << >>
  PROVE  ~FwNext
<1> SUFFICES ASSUME FwNext  PROVE FALSE
  OBVIOUS
<1>1. /\ Finishes \/ TakesOne \/ ForwardsOne \/ ErasesOne => Running
      /\ \A u \in Seq(Bytes) : Onward(u) \/ Fails(u) => Running
      /\ \A size \in 0 .. MaxSize : TakesLast(size) => Running
      /\ \A b \in MemoryBytes : Streams(b) => Running
      /\ \A n \in Nat : AsksFor(n) \/ PacketsEnd(n) => Running
  BY Zenon DEF Finishes, TakesOne, ForwardsOne, ErasesOne, Onward, Fails, TakesLast,
               Streams, AsksFor, PacketsEnd
<1>2. Begins \/ Rejects
  BY <1>1, FwActs, Zenon
<1> QED  BY <1>2, Zenon DEF Begins, Rejects

\* A handler that runs goes on, performs its command, or fails
LEMMA UnderwayGoesOn ==
  ASSUME NEW call, FwAlone, LinkTypes, HostTypes, InSession, call = Current,
         Underway(call), Acks(call), HostRests, FwNext
  PROVE  Phase(call)' /\ Acks(call)'
<1>1. PICK j \in 0 .. Rounds(call) : Inside(call, j)
  BY UnderwayAt DEF Inside
<1>2. call.n <= Largest
  <2>1. IsJob(host.job) /\ host.pos \in DOMAIN host.job /\ host.job \in Jobs
    BY Calling DEF HostTypes
  <2> QED  BY <2>1, LargestIsLargest DEF Current
<1>3. Running /\ LinkTypes
  BY <1>1 DEF Inside
<1>4. ~Begins /\ ~Rejects
  BY <1>3 DEF Begins, Rejects
<1>5. CASE Finishes
  BY <1>1, <1>5, FinishesUnderway, FinishesAcks, Zenon DEF Phase
<1>6. CASE TakesOne
  <2>1. UNCHANGED toHost
    BY <1>6 DEF TakesOne
  <2> QED  BY <1>1, <1>3, <1>6, <2>1, TakesOneStays, AcksStill, Zenon DEF Phase
<1>7. CASE ForwardsOne
  <2>1. UNCHANGED toHost
    BY <1>7 DEF ForwardsOne
  <2> QED  BY <1>1, <1>3, <1>7, <2>1, ForwardsOneStays, AcksStill, Zenon DEF Phase
<1>8. CASE ErasesOne
  <2>1. Reply(<< REPL_ACK >>)
    BY <1>8 DEF ErasesOne
  <2> QED  BY <1>1, <1>3, <1>8, <2>1, ErasesOneStays, AcksReplyAck, Zenon DEF Phase
<1>9. ASSUME NEW u \in Seq(Bytes), Onward(u)  PROVE Phase(call)' /\ Acks(call)'
  BY <1>1, <1>9, OnwardStays, OnwardAcks, Zenon DEF Phase
<1>10. ASSUME NEW u \in Seq(Bytes), Fails(u)  PROVE Phase(call)' /\ Acks(call)'
  <2>1. Acks(call)'
    BY <1>1, <1>10, FailsAcks, Zenon
  <2>2. Failed(call)' \/ ByteFailed(call)'
    BY <1>1, <1>10, FailsWhereItLands, FailsBeforeByte, Zenon
  <2> QED  BY <2>1, <2>2, Zenon DEF Phase
<1>11. ASSUME NEW size \in 0 .. MaxSize, TakesLast(size)  PROVE Phase(call)' /\ Acks(call)'
  <2>1. UNCHANGED toHost
    BY <1>11 DEF TakesLast
  <2> QED  BY <1>1, <1>2, <1>3, <1>11, <2>1, TakesLastStays, AcksStill, Zenon DEF Phase
<1>12. ASSUME NEW b \in MemoryBytes, Streams(b)  PROVE Phase(call)' /\ Acks(call)'
  BY <1>1, <1>12, StreamsStays, StreamsAcks, Zenon DEF Phase
<1>13. ASSUME NEW n \in Nat, AsksFor(n)  PROVE Phase(call)' /\ Acks(call)'
  <2>1. Reply(<< REPL_ACK >>)
    BY <1>13 DEF AsksFor
  <2> QED  BY <1>1, <1>3, <1>13, <2>1, AsksForStays, AcksReplyAck, Zenon DEF Phase
<1>14. ASSUME NEW n \in Nat, PacketsEnd(n)  PROVE Phase(call)' /\ Acks(call)'
  <2>1. UNCHANGED toHost
    BY <1>14 DEF PacketsEnd
  <2> QED  BY <1>1, <1>3, <1>14, <2>1, PacketsEndStays, AcksStill, Zenon DEF Phase
<1> QED  BY <1>4, <1>5, <1>6, <1>7, <1>8, <1>9, <1>10, <1>11, <1>12, <1>13, <1>14, FwActs, Zenon

\* Whatever the programmer does, it stays in step
LEMMA FwStaysInStep ==
  ASSUME NEW call, FwAlone, LinkTypes, HostTypes, InSession, call = Current,
         InStep(call), HostRests, FwNext
  PROVE  InStep(call)'
<1>1. Acks(call)
  BY DEF InStep
<1>6. host.at # 1 => host'.at # 1
  BY DEF HostRests
<1>2. CASE Fresh(call)
  <2>1. Underway(call)' /\ UNCHANGED toHost
    BY <1>2, FreshTaken
  <2>2. Len(toHost') = 0
    BY <1>2, <2>1 DEF Fresh
  <2>3. \A i \in 1 .. Len(toHost') : FALSE
    BY <2>2
  <2>4. Acks(call)'
    BY <2>3, Zenon DEF Acks
  <2>5. host.at # 1
    <3>1. toProg # << >>
      BY <1>2, AtRestWaits DEF Fresh
    <3> QED  BY <1>2, <3>1 DEF Fresh
  <2> QED  BY <1>6, <2>1, <2>4, <2>5 DEF InStep, Phase
<1>3. CASE Underway(call) /\ host.at # 1
  BY <1>1, <1>3, UnderwayGoesOn, <1>6 DEF InStep
<1>4. CASE Done(call) \/ Failed(call)
  BY <1>4, AtRestWaits DEF Done, Failed
<1>5. CASE ByteFailed(call)
  <2>1. call.cmd = CMD_SENDBYTE /\ host'.at \in 4 .. 6
    BY <1>5 DEF ByteFailed, HostRests
  <2>2. Acks(call)'
    BY <2>1, ByteFailedAcks
  <2> QED  BY <1>5, <2>1, <2>2, ByteFailedStays DEF InStep, Phase
<1> QED  BY <1>2, <1>3, <1>4, <1>5 DEF InStep, Phase

-------------------------------------------------------------------------------
(* The controller writes *)

\* What lies ahead of the step it is at
LEMMA StepAhead ==
  ASSUME HostTypes, LinkTypes, InSession, NEW call, call = Current
  PROVE  /\ IsCall(call) /\ host.at \in 1 .. LastStep(call) /\ LastStep(call) \in Nat
         /\ host.at \in Nat /\ HostStep = Steps(call)[host.at]
         /\ HostStep.do \in Reading \cup Writing
         /\ HostStep.do = "issue" <=> host.at = 1
         /\ HostStep.do = "result" <=> host.at = LastStep(call)
         /\ HasRead(call, host.at) \in Nat /\ HasWritten(call, host.at) \in Nat
         /\ Asks(HostStep) \in Nat /\ Gives(HostStep) \in Nat /\ Len(toHost) \in Nat
         /\ HostStep.do \in Reading <=> Asks(HostStep) > 0
         /\ HostStep.do \in Writing <=> Gives(HostStep) > 0
         /\ HostStep.do # "result" =>
              /\ host.at + 1 \in 1 .. LastStep(call)
              /\ HasRead(call, host.at + 1) = HasRead(call, host.at) + Asks(HostStep)
              /\ HasWritten(call, host.at + 1) = HasWritten(call, host.at) + Gives(HostStep)
         /\ \A b \in host.at + 1 .. LastStep(call) :
              /\ HasRead(call, b) \in Nat /\ HasWritten(call, b) \in Nat
              /\ HasRead(call, host.at) + Asks(HostStep) <= HasRead(call, b)
              /\ HasWritten(call, host.at) + Gives(HostStep) <= HasWritten(call, b)
<1>1. /\ IsCall(call) /\ host.at \in 1 .. LastStep(call) /\ LastStep(call) \in Nat
      /\ host.at \in Nat /\ HostStep = Steps(call)[host.at] /\ Moves(call, host.at)
  BY Calling DEF HostStep
<1>2. /\ HostStep.do \in Reading \cup Writing
      /\ HostStep.do = "issue" <=> host.at = 1
      /\ HostStep.do = "result" <=> host.at = LastStep(call)
      /\ HasRead(call, host.at) \in Nat /\ HasWritten(call, host.at) \in Nat
      /\ Asks(HostStep) \in Nat /\ Gives(HostStep) \in Nat
      /\ HostStep.do \in Reading <=> Asks(HostStep) > 0
      /\ HostStep.do \in Writing <=> Gives(HostStep) > 0
      /\ host.at < LastStep(call) =>
           /\ HasRead(call, host.at + 1) = HasRead(call, host.at) + Asks(HostStep)
           /\ HasWritten(call, host.at + 1) = HasWritten(call, host.at) + Gives(HostStep)
  BY <1>1, Zenon DEF Moves
<1>3. HostStep.do # "result" =>
              /\ host.at + 1 \in 1 .. LastStep(call)
              /\ HasRead(call, host.at + 1) = HasRead(call, host.at) + Asks(HostStep)
              /\ HasWritten(call, host.at + 1) = HasWritten(call, host.at) + Gives(HostStep)
  <2>1. HostStep.do # "result" => host.at < LastStep(call)
    BY <1>1, <1>2
  <2> QED  BY <1>1, <1>2, <2>1
<1>4. ASSUME NEW b \in host.at + 1 .. LastStep(call)
      PROVE  /\ HasRead(call, b) \in Nat /\ HasWritten(call, b) \in Nat
             /\ HasRead(call, host.at) + Asks(HostStep) <= HasRead(call, b)
             /\ HasWritten(call, host.at) + Gives(HostStep) <= HasWritten(call, b)
  <2>1. /\ b \in 1 .. LastStep(call) /\ host.at + 1 \in 1 .. LastStep(call) /\ host.at + 1 <= b
        /\ host.at # LastStep(call)
    BY <1>1, <1>4
  <2>2. Moves(call, b)
    BY <1>1, <2>1, StepMoves
  <2>3. HasRead(call, b) \in Nat /\ HasWritten(call, b) \in Nat
    BY <2>2 DEF Moves
  <2>4. HasRead(call, host.at + 1) <= HasRead(call, b)
        /\ HasWritten(call, host.at + 1) <= HasWritten(call, b)
    BY <1>1, <2>1, CountsGrow
  <2> QED  BY <1>2, <1>3, <2>1, <2>3, <2>4
<1>5. Len(toHost) \in Nat
  BY DEF LinkTypes
<1> QED  BY <1>1, <1>2, <1>3, <1>4, <1>5

\* What is written joins what is in flight
LEMMA SentData ==
  ASSUME LinkTypes, NEW bytes \in Seq(Bytes), NEW isCmd \in BOOLEAN, Sent(bytes, isCmd)
  PROVE  /\ Len(toProg) \in Nat /\ Len(bytes) \in Nat /\ Len(toProg') = Len(toProg) + Len(bytes)
         /\ OnlyData /\ ~isCmd => OnlyData'
         /\ Len(toProg) = 0 =>
              \A i \in 1 .. Len(bytes) : toProg'[i].val = bytes[i]
<1> DEFINE sent == [k \in 1 .. Len(bytes) |-> [val |-> bytes[k], cmd |-> isCmd]]
<1>1. toProg \in Seq(Sending) /\ toProg' = toProg \o sent /\ Len(toProg) \in Nat /\ Len(bytes) \in Nat
  BY DEF LinkTypes, Sent
<1>2. sent \in Seq(Sending) /\ Len(sent) = Len(bytes)
  BY <1>1 DEF Sending
<1>3. \A i \in 1 .. Len(bytes) : sent[i].val = bytes[i] /\ (sent[i].cmd <=> isCmd)
  BY Zenon
<1> HIDE DEF sent
<1>4. /\ Len(toProg') = Len(toProg) + Len(bytes)
      /\ \A i \in 1 .. Len(toProg) : toProg'[i] = toProg[i]
      /\ \A i \in 1 .. Len(bytes) : toProg'[Len(toProg) + i] = sent[i]
  <2>1. /\ Len(toProg') = Len(toProg) + Len(sent)
        /\ \A i \in 1 .. Len(toProg) + Len(sent) :
             toProg'[i] = IF i <= Len(toProg) THEN toProg[i] ELSE sent[i - Len(toProg)]
    BY <1>1, <1>2, ConcatProperties, Zenon
  <2>2. \A i \in 1 .. Len(toProg) : toProg'[i] = toProg[i]
    BY <1>1, <1>2, <2>1
  <2>3. ASSUME NEW i \in 1 .. Len(bytes)  PROVE toProg'[Len(toProg) + i] = sent[i]
    <3>1. /\ Len(toProg) + i \in 1 .. Len(toProg) + Len(sent) /\ ~(Len(toProg) + i <= Len(toProg))
          /\ (Len(toProg) + i) - Len(toProg) = i
      BY <1>1, <1>2
    <3> QED  BY <2>1, <3>1
  <2> QED  BY <1>2, <2>1, <2>2, <2>3
<1>5. OnlyData /\ ~isCmd => OnlyData'
  <2> SUFFICES ASSUME OnlyData, ~isCmd, NEW i \in 1 .. Len(toProg')
               PROVE  ~toProg'[i].cmd
    <3>1. DOMAIN toProg' = 1 .. Len(toProg')
      BY <1>1, <1>2
    <3> QED  BY <3>1 DEF OnlyData
  <2>1. CASE i <= Len(toProg)
    <3>1. i \in DOMAIN toProg /\ toProg'[i] = toProg[i]
      BY <1>1, <1>4, <2>1
    <3>2. ~toProg[i].cmd
      BY <3>1 DEF OnlyData
    <3> QED  BY <3>1, <3>2
  <2>2. CASE i > Len(toProg)
    <3>1. i - Len(toProg) \in 1 .. Len(bytes) /\ i = Len(toProg) + (i - Len(toProg))
      BY <1>1, <1>4, <2>2
    <3>2. toProg'[i] = sent[i - Len(toProg)]
      BY <1>4, <3>1
    <3> QED  BY <1>3, <3>1, <3>2
  <2> QED  BY <1>1, <1>4, <2>1, <2>2
<1>6. Len(toProg) = 0 =>
        \A i \in 1 .. Len(bytes) : toProg'[i].val = bytes[i]
  BY <1>3, <1>4
<1> QED  BY <1>1, <1>4, <1>5, <1>6

LEMMA SendsFresh ==
  ASSUME NEW call, FwAlone, LinkTypes, HostTypes, InSession, call = Current, UNCHANGED fw,
         Fresh(call), host.at = 1,
         NEW bytes \in Seq(Bytes), NEW isCmd \in BOOLEAN, HostSends(bytes, isCmd)
  PROVE  Fresh(call)' /\ host'.at = 2
<1>1. HostStep.do = "issue"
  BY StepAhead
<1>2. /\ isCmd = TRUE /\ Len(bytes) = 1 /\ bytes[1] = call.cmd /\ UNCHANGED toHost
      /\ host'.at = 2 /\ host'.pos = host.pos /\ Sent(bytes, isCmd)
  BY <1>1 DEF HostSends, Place, Gives
<1>3. toProg = << >> /\ toHost = << >> /\ ~Running /\ Open
  BY DEF Fresh
<1>4. toProg' = <<[val |-> call.cmd, cmd |-> TRUE]>>
  <2>1. toProg' = [k \in 1 .. 1 |-> [val |-> bytes[k], cmd |-> TRUE]]
    BY <1>2, <1>3 DEF Sent
  <2> DEFINE b == [val |-> call.cmd, cmd |-> TRUE]
  <2>2. toProg' = [k \in 1 .. 1 |-> b]
    <3>1. \A k \in 1 .. 1 : bytes[k] = call.cmd
      BY <1>2
    <3> QED  BY <2>1, <3>1, Zenon
  <2> HIDE DEF b
  <2>3. [k \in 1 .. 1 |-> b] = << b >>
    OBVIOUS
  <2> QED  BY <2>2, <2>3 DEF b
<1>5. ~Running' /\ Open'
  BY <1>2, <1>3 DEF Running, Open
<1> QED  BY <1>2, <1>3, <1>4, <1>5 DEF Fresh

LEMMA SendsUnderway ==
  ASSUME NEW call, FwAlone, LinkTypes, HostTypes, InSession, call = Current, UNCHANGED fw,
         Underway(call), host.at # 1,
         NEW bytes \in Seq(Bytes), NEW isCmd \in BOOLEAN, HostSends(bytes, isCmd)
  PROVE  Underway(call)'
<1>1. PICK j \in 0 .. Rounds(call) : Inside(call, j)
  BY UnderwayAt DEF Inside
<1>2. Known(call, j) /\ Counted(call, j) /\ Looped(call, j)
  BY <1>1, Knows DEF Inside, Counting
<1>3. /\ Running /\ fw.cmd = call.cmd /\ Open /\ SizeIsCalls(call) /\ OnlyData /\ FwAlone
  BY <1>1 DEF Inside
<1>4. /\ HostStep.do \in Writing /\ HostStep.do # "issue" /\ HostStep.do \notin Reading
      /\ ~isCmd /\ Len(bytes) = Gives(HostStep) /\ UNCHANGED <<toHost, portOpen>>
      /\ HostStep.do = "write" => bytes = HostStep.bytes
      /\ Sent(bytes, isCmd) /\ host'.at = host.at + 1 /\ host'.pos = host.pos
      /\ host'.clean = host.clean
  BY StepAhead DEF HostSends, Place, Flags, HostShape, Reading, Writing, HostTypes
<1>5. /\ HasRead(call, host.at + 1) = HasRead(call, host.at)
      /\ HasWritten(call, host.at + 1) = HasWritten(call, host.at) + Len(bytes)
      /\ Len(bytes) \in Nat
  <2>1. Asks(HostStep) = 0 /\ HostStep.do # "result"
    BY <1>4, StepAhead DEF Reading
  <2> QED  BY <1>4, <2>1, StepAhead
<1>6. /\ Len(toProg') = Len(toProg) + Len(bytes) /\ OnlyData' /\ Len(toProg) \in Nat
      /\ Len(toProg) = 0 => \A i \in 1 .. Len(bytes) : toProg'[i].val = bytes[i]
  <2>1. LinkTypes /\ isCmd = FALSE
    BY <1>4
  <2>2. /\ Len(toProg') = Len(toProg) + Len(bytes) /\ Len(toProg) \in Nat
        /\ OnlyData /\ ~isCmd => OnlyData'
        /\ Len(toProg) = 0 =>
              \A i \in 1 .. Len(bytes) : toProg'[i].val = bytes[i]
    BY <1>4, SentData, Zenon
  <2> QED  BY <1>3, <1>4, <2>1, <2>2
<1>7. Counted(call, j)'
  <2>1. SentBy(call, j)' = SentBy(call, j) /\ GotBy(call, j)' = GotBy(call, j)
    BY DEF SentBy, GotBy, BlockGot
  <2>2. /\ SentBy(call, j) \in Nat /\ GotBy(call, j) \in Int
        /\ HasRead(call, host.at) \in Nat /\ HasWritten(call, host.at) \in Nat
        /\ Level(HasRead(call, host.at) + Len(toHost), SentBy(call, j))
        /\ Level(GotBy(call, j) + Len(toProg), HasWritten(call, host.at))
    BY <1>2, Balance
  <2>3. Level(HasRead(call, host.at) + Len(toHost), SentBy(call, j))'
    BY <1>4, <1>5, <2>1, <2>2 DEF Level
  <2>4. Level(GotBy(call, j) + Len(toProg), HasWritten(call, host.at))'
    BY <1>4, <1>5, <1>6, <2>1, <2>2 DEF Level
  <2> QED  BY <2>3, <2>4, Zenon DEF Counted, SentBy, GotBy
<1>8. Looped(call, j)'
  BY <1>2, Zenon DEF Looped
<1>9. SizeIsCalls(call)'
  <2>1. CASE At("size")
    <3>1. Step.op = "size"
      BY <2>1 DEF At
    <3>2. /\ Meets(call, fw.step, host.at, j) /\ Tally(call, j) /\ Tallied(call, j)
          /\ Step = Handlers[call.cmd][fw.step] /\ fw.seg = 0
      BY <1>1, <1>3, <3>1, BothSides DEF Inside
    <3> DEFINE got == HasGot(call.cmd, fw.step) + BlockOf(call, j)
    <3>3. /\ HasRead(call, host.at) <= HasSent(call.cmd, fw.step) + j
          /\ got + Len(fw.args) + Len(toProg) <= HasWritten(call, host.at)
          /\ got \in Nat /\ Len(fw.args) \in Nat /\ Len(toProg) \in Nat
          /\ HasWritten(call, host.at) \in Nat
      <4>1. /\ HasRead(call, host.at) + Len(toHost) <= HasSent(call.cmd, fw.step) + j
            /\ HasGot(call.cmd, fw.step) + Len(fw.args) + BlockOf(call, j) - fw.seg + Len(toProg)
                 <= HasWritten(call, host.at)
        BY <3>2, Zenon DEF Tally
      <4>2. /\ HasRead(call, host.at) \in Nat /\ HasWritten(call, host.at) \in Nat
            /\ HasSent(call.cmd, fw.step) \in Nat /\ HasGot(call.cmd, fw.step) \in Nat
            /\ BlockOf(call, j) \in Nat /\ j \in Nat
            /\ Len(toHost) \in Nat /\ Len(toProg) \in Nat /\ Len(fw.args) \in Nat
        BY <3>2, Zenon DEF Tallied
      <4> QED  BY <3>2, <4>1, <4>2
    <3> HIDE DEF got
    <3>4. HostStep = Write(Word(call.n)) /\ HasWritten(call, host.at) = got
      <4>1. HostStep = Steps(call)[host.at] /\ got <= HasWritten(call, host.at)
        BY <3>3, StepAhead
      <4> QED  BY <1>4, <3>1, <3>2, <3>3, <4>1 DEF Meets, got
    <3>5. Len(fw.args) = 0 /\ Len(toProg) = 0
      BY <3>3, <3>4
    <3>6. fw.args = << >>
      BY <3>5 DEF FwAlone, FwTypes
    <3>7. bytes = Word(call.n) /\ Len(bytes) = 2
      <4>1. HostStep.do = "write" /\ HostStep.bytes = Word(call.n)
        BY <3>4, WriteFacts
      <4>2. bytes = Word(call.n)
        BY <1>4, <4>1
      <4>3. Len(Word(call.n)) = 2
        BY DEF Word
      <4> QED  BY <4>2, <4>3
    <3>8. toProg'[1].val = bytes[1] /\ toProg'[2].val = bytes[2]
      BY <1>6, <3>5, <3>7
    <3> QED  BY <1>3, <3>6, <3>7, <3>8, Zenon DEF SizeIsCalls
  <2>2. CASE ~At("size")
    <3>1. ~At("size")'
      BY <2>2 DEF At, Running, Step
    <3> QED  BY <1>3, <3>1, Zenon DEF SizeIsCalls
  <2> QED  BY <2>1, <2>2
<1>10. Open'
  BY <1>3, <1>4 DEF Open
<1>11. Running' /\ fw'.cmd = call.cmd
  BY <1>3 DEF Running
<1> QED  BY <1>6, <1>7, <1>8, <1>9, <1>10, <1>11, StaysUnderway

\* A command that was answered leaves nothing to write
LEMMA NothingToSend ==
  ASSUME NEW call, LinkTypes, HostTypes, InSession, call = Current,
         Done(call) \/ Failed(call)
  PROVE  HostStep.do \notin Writing
<1> SUFFICES ASSUME HostStep.do \in Writing  PROVE FALSE
  OBVIOUS
<1>1. Gives(HostStep) > 0 /\ HostStep.do \notin Reading
  BY StepAhead DEF Reading, Writing
<1>2. PICK b \in host.at .. LastStep(call) : HasWritten(call, host.at) = HasWritten(call, b) /\ b # host.at
  <2>1. CASE Done(call)
    <3>1. HasWritten(call, host.at) = HasWritten(call, LastStep(call))
      BY <2>1 DEF Done, Until
    <3>2. LastStep(call) # host.at /\ LastStep(call) \in host.at .. LastStep(call)
      BY <1>1, StepAhead DEF Reading
    <3> QED  BY <3>1, <3>2
  <2>2. CASE Failed(call)
    <3>1. PICK b \in host.at .. LastStep(call) : Judges(call, b) /\ Until(call, b)
      BY <2>2 DEF Failed
    <3>2. b # host.at
      BY <1>1, <3>1, StepAhead DEF Judges, Reading
    <3> QED  BY <3>1, <3>2 DEF Until
  <2> QED  BY <2>1, <2>2
<1>3. b \in host.at + 1 .. LastStep(call)
  BY <1>2, StepAhead
<1>4. /\ HasWritten(call, host.at) + Gives(HostStep) <= HasWritten(call, b)
      /\ HasWritten(call, host.at) \in Nat /\ Gives(HostStep) \in Nat
  BY <1>3, StepAhead
<1> QED  BY <1>1, <1>2, <1>4

LEMMA SendsByteFailed ==
  ASSUME NEW call, LinkTypes, HostTypes, InSession, call = Current, UNCHANGED fw,
         ByteFailed(call),
         NEW bytes \in Seq(Bytes), NEW isCmd \in BOOLEAN, HostSends(bytes, isCmd)
  PROVE  ByteFailed(call)'
<1>1. /\ call.cmd = CMD_SENDBYTE /\ host.at \in 4 .. 6
      /\ Len(toProg) <= Once(host.at = 6) /\ OnlyData
  BY DEF ByteFailed
<1>2. /\ HostStep.do \in Writing /\ Len(bytes) = Gives(HostStep) /\ UNCHANGED <<toHost, portOpen>>
      /\ ~isCmd /\ Sent(bytes, isCmd) /\ host'.at = host.at + 1 /\ host'.pos = host.pos
      /\ host'.clean <=> host.clean
  <2>1. host.at # 1
    BY <1>1
  <2>2. HostStep.do # "issue"
    BY <2>1, StepAhead
  <2> QED  BY <2>2, Zenon DEF HostSends, Place, Flags
<1>3. host.at = 5 /\ Gives(HostStep) = 1
  <2>1. IsCall(call) /\ HostStep = Steps(call)[host.at]
    BY StepAhead
  <2>2. HostStep = IF host.at = 5 THEN WriteData(1) ELSE WaitAck
    BY <1>1, <2>1, SendByteSteps
  <2> QED  BY <1>1, <1>2, <2>2, KindFacts, DataFacts DEF Writing
<1>4. Len(toProg') <= 1 /\ OnlyData'
  <2>1. Len(toProg') = Len(toProg) + Len(bytes) /\ OnlyData' /\ Len(toProg) \in Nat
    BY <1>1, <1>2, SentData, Zenon
  <2> QED  BY <1>1, <1>2, <1>3, <2>1 DEF Once
<1>5. /\ host.clean => Len(toHost) >= 1 /\ IsBad(toHost[1])
      /\ ~fw.astray => /\ ~Running /\ Open
                       /\ \A i \in 1 .. Len(toHost) : IsBad(toHost[i])
  BY <1>3 DEF ByteFailed
<1>6. ~fw.astray => ~Running' /\ Open'
  BY <1>2, <1>5 DEF Running, Open
<1>7. host'.at = 6
  BY <1>2, <1>3
<1>8. Len(toProg') <= Once(host'.at = 6)
  BY <1>4, <1>7 DEF Once
<1> QED  BY <1>1, <1>2, <1>4, <1>5, <1>6, <1>7, <1>8 DEF ByteFailed

LEMMA SendsAcks ==
  ASSUME NEW call, LinkTypes, HostTypes, InSession, call = Current, UNCHANGED fw, Acks(call),
         NEW bytes \in Seq(Bytes), NEW isCmd \in BOOLEAN, HostSends(bytes, isCmd)
  PROVE  Acks(call)'
<1>1. /\ HostStep.do \in Writing /\ UNCHANGED toHost /\ host'.at = host.at + 1
      /\ host'.clean <=> host.clean
  BY DEF HostSends, Place, Flags
<1>2. HasRead(call, host'.at) = HasRead(call, host.at)
  <2>1. HostStep.do # "result" /\ HostStep.do \notin Reading
    BY <1>1 DEF Writing, Reading
  <2>2. Asks(HostStep) = 0
    BY <2>1, StepAhead
  <2>3. HasRead(call, host.at + 1) = HasRead(call, host.at)
    BY <2>1, <2>2, StepAhead
  <2> QED  BY <1>1, <2>3
<1>3. Running' <=> Running
  BY DEF Running
<1> SUFFICES ASSUME host'.clean, NEW i \in 1 .. Len(toHost'),
                    call.cmd = CMD_FLASH_PAGE_ERASE \/ HasRead(call, host'.at) + i = 1,
                    Running' \/ i < Len(toHost')
             PROVE  toHost'[i] = REPL_ACK
  BY Zenon DEF Acks
<1>4. host.clean /\ i \in 1 .. Len(toHost)
  BY <1>1
<1>5. /\ call.cmd = CMD_FLASH_PAGE_ERASE \/ HasRead(call, host.at) + i = 1
      /\ Running \/ i < Len(toHost)
  BY <1>1, <1>2, <1>3
<1>6. toHost[i] = REPL_ACK
  BY <1>4, <1>5, Zenon DEF Acks
<1> QED  BY <1>1, <1>6

LEMMA SendsStay ==
  ASSUME NEW call, FwAlone, LinkTypes, HostTypes, InSession, call = Current, UNCHANGED fw,
         InStep(call),
         NEW bytes \in Seq(Bytes), NEW isCmd \in BOOLEAN, HostSends(bytes, isCmd)
  PROVE  InStep(call)'
<1>1. Acks(call)' /\ host'.at # 1
  <2>1. host'.at = host.at + 1 /\ host.at \in Nat /\ host.at >= 1
    BY StepAhead DEF HostSends, Place
  <2>2. host'.at # 1
    BY <2>1
  <2>3. Acks(call)
    BY DEF InStep
  <2> QED  BY <2>2, <2>3, SendsAcks, Zenon
<1>2. HostStep.do \in Writing
  BY DEF HostSends
<1>3. CASE Fresh(call)
  <2>1. host.at = 1
    <3>1. host.at \in {1, 2}
      BY <1>3 DEF Fresh
    <3>2. Steps(call)[2].do \notin Writing
      BY StepAhead, LastSteps, KindFacts DEF Writing
    <3> QED  BY <1>2, <3>1, <3>2, StepAhead
  <2> QED  BY <1>1, <1>3, <2>1, SendsFresh, Zenon DEF InStep, Phase
<1>4. CASE Underway(call) /\ host.at # 1
  BY <1>1, <1>4, SendsUnderway, Zenon DEF InStep, Phase
<1>5. CASE Done(call) \/ Failed(call)
  BY <1>2, <1>5, NothingToSend
<1>6. CASE ByteFailed(call)
  BY <1>1, <1>6, SendsByteFailed, Zenon DEF InStep, Phase
<1> QED  BY <1>3, <1>4, <1>5, <1>6 DEF InStep, Phase

-------------------------------------------------------------------------------
(* The controller reads *)

\* What remains when the first bytes were read
LEMMA Remains ==
  ASSUME LinkTypes, HostTypes, InSession, toHost' = Remainder, Len(toHost) >= Asks(HostStep)
  PROVE  /\ Len(toHost) \in Nat /\ Asks(HostStep) \in Nat /\ Len(toHost') \in Nat
         /\ Len(toHost') = Len(toHost) - Asks(HostStep)
         /\ \A i \in 1 .. Len(toHost') : /\ i + Asks(HostStep) \in 1 .. Len(toHost)
                                         /\ toHost'[i] = toHost[i + Asks(HostStep)]
         /\ Len(toHost') > 0 => LastByte' = LastByte
<1> DEFINE n == Asks(HostStep)
<1>1. n \in Nat /\ Len(toHost) \in Nat /\ toHost \in Seq(Bytes) /\ n <= Len(toHost)
  BY StepAhead DEF LinkTypes
<1>2. toHost' = SubSeq(toHost, n + 1, Len(toHost))
  BY DEF Remainder
<1> HIDE DEF n
<1>3. Len(toHost') = Len(toHost) - n
  BY <1>1, <1>2
<1>4. \A i \in 1 .. Len(toHost') : i + n \in 1 .. Len(toHost) /\ toHost'[i] = toHost[i + n]
  BY <1>1, <1>2, <1>3
<1>5. Len(toHost') > 0 => LastByte' = LastByte
  <2> SUFFICES ASSUME Len(toHost') > 0  PROVE toHost'[Len(toHost')] = toHost[Len(toHost)]
    BY DEF LastByte
  <2>1. Len(toHost') \in 1 .. Len(toHost') /\ Len(toHost') + n = Len(toHost)
    BY <1>1, <1>3
  <2> QED  BY <1>4, <2>1
<1>6. Len(toHost') \in Nat
  BY <1>1, <1>3
<1> QED  BY <1>1, <1>3, <1>4, <1>5, <1>6 DEF n

\* What it reads it has read
LEMMA TakesCount ==
  ASSUME NEW call, LinkTypes, HostTypes, InSession, call = Current, HostTakes
  PROVE  /\ host'.at = host.at + 1 /\ host'.pos = host.pos /\ host'.clean = host.clean
         /\ host'.at \in 1 .. LastStep(call) /\ host'.at # 1 /\ host.at # LastStep(call)
         /\ HasRead(call, host'.at) = HasRead(call, host.at) + Asks(HostStep)
         /\ HasWritten(call, host'.at) = HasWritten(call, host.at)
         /\ Asks(HostStep) \in Nat /\ Asks(HostStep) > 0 /\ Asks(HostStep) <= Len(toHost)
         /\ HasRead(call, host'.at) + Len(toHost') = HasRead(call, host.at) + Len(toHost)
         /\ UNCHANGED <<toProg, portOpen>> /\ toHost' = Remainder
<1>1. /\ HostStep.do \in Reading /\ HostStep.do # "result" /\ Asks(HostStep) <= Len(toHost)
      /\ host'.at = host.at + 1 /\ host'.pos = host.pos /\ (host'.clean <=> host.clean)
      /\ UNCHANGED <<toProg, portOpen>> /\ toHost' = Remainder /\ Len(toHost) >= Asks(HostStep)
  <2>1. Len(toHost) \in Nat /\ Asks(HostStep) \in Nat
    BY StepAhead
  <2> QED  BY <2>1 DEF HostTakes, Place, Flags
<1>2. host'.clean = host.clean
  <2>1. host \in HostShape /\ host' \in HostShape
    BY Calling DEF HostTakes, Place
  <2> QED  BY <1>1, <2>1 DEF HostShape
<1>3. Asks(HostStep) > 0 /\ Asks(HostStep) \in Nat /\ Gives(HostStep) = 0
  <2>1. HostStep.do \notin Writing
    BY <1>1 DEF Reading, Writing
  <2> QED  BY <1>1, <2>1, StepAhead
<1>4. /\ host.at \in Nat /\ host.at >= 1 /\ host.at # LastStep(call)
      /\ host.at + 1 \in 1 .. LastStep(call)
      /\ HasRead(call, host.at + 1) = HasRead(call, host.at) + Asks(HostStep)
      /\ HasWritten(call, host.at + 1) = HasWritten(call, host.at) + Gives(HostStep)
      /\ HasRead(call, host.at) \in Nat /\ HasWritten(call, host.at) \in Nat
  BY <1>1, StepAhead
<1>5. Len(toHost') = Len(toHost) - Asks(HostStep) /\ Len(toHost) \in Nat
  BY <1>1, Remains
<1> QED  BY <1>1, <1>2, <1>3, <1>4, <1>5

LEMMA TakesUnderway ==
  ASSUME NEW call, FwAlone, LinkTypes, HostTypes, InSession, call = Current, UNCHANGED fw,
         Underway(call), HostTakes
  PROVE  Underway(call)'
<1>1. PICK j \in 0 .. Rounds(call) : Counting(call, j)
  BY UnderwayAt
<1>2. /\ Running /\ fw.cmd = call.cmd /\ Open /\ SizeIsCalls(call) /\ OnlyData
  BY UnderwayAt
<1>3. Counted(call, j)'
  <2>1. SentBy(call, j)' = SentBy(call, j) /\ GotBy(call, j)' = GotBy(call, j)
    BY DEF SentBy, GotBy, BlockGot
  <2>2. /\ Level(HasRead(call, host.at) + Len(toHost), SentBy(call, j))
        /\ Level(GotBy(call, j) + Len(toProg), HasWritten(call, host.at))
    BY <1>1, Zenon DEF Counted, SentBy, GotBy, Counting
  <2>3. Level(HasRead(call, host.at) + Len(toHost), SentBy(call, j))'
    BY <2>1, <2>2, TakesCount DEF Level
  <2>4. Level(GotBy(call, j) + Len(toProg), HasWritten(call, host.at))'
    BY <2>1, <2>2, TakesCount DEF Level
  <2> QED  BY <2>3, <2>4, Zenon DEF Counted, SentBy, GotBy
<1>4. Looped(call, j)'
  BY <1>1, Zenon DEF Looped, Counting
<1>5. SizeIsCalls(call)'
  <2>1. toProg' = toProg /\ fw' = fw
    BY TakesCount
  <2>2. At("size")' => At("size")
    BY DEF At, Running, Step
  <2> QED  BY <1>2, <2>1, <2>2 DEF SizeIsCalls
<1>6. OnlyData'
  BY <1>2, TakesCount DEF OnlyData
<1>7. Open' /\ Running' /\ fw'.cmd = call.cmd
  BY <1>2, TakesCount DEF Open, Running
<1> QED  BY <1>3, <1>4, <1>5, <1>6, <1>7, StaysUnderway

\* All is read and written up to the reply at step b, still
LEMMA TakesUntil ==
  ASSUME NEW call, LinkTypes, HostTypes, InSession, call = Current, HostTakes,
         NEW b \in host.at + 1 .. LastStep(call), Until(call, b)
  PROVE  /\ Until(call, b)'
         /\ LastIs(call, b)' => LastIs(call, b) /\ LastByte' = LastByte
<1>1. /\ HasWritten(call, host'.at) = HasWritten(call, host.at)
      /\ HasRead(call, host'.at) + Len(toHost') = HasRead(call, host.at) + Len(toHost)
      /\ host'.clean = host.clean /\ toHost' = Remainder /\ Asks(HostStep) <= Len(toHost)
      /\ HasRead(call, host'.at) = HasRead(call, host.at) + Asks(HostStep)
  BY TakesCount
<1>2. Until(call, b)'
  BY <1>1, Zenon DEF Until, Level
<1>3. LastIs(call, b)' => LastIs(call, b) /\ LastByte' = LastByte
  <2> SUFFICES ASSUME LastIs(call, b)'  PROVE LastIs(call, b) /\ LastByte' = LastByte
    OBVIOUS
  <2>1. LastIs(call, b)
    BY <1>1 DEF LastIs
  <2>2. HasRead(call, host'.at) + Len(toHost') = HasRead(call, b) + 1
    BY DEF LastIs
  <2>3. /\ HasRead(call, host.at) + Asks(HostStep) <= HasRead(call, b)
        /\ HasRead(call, b) \in Nat /\ HasRead(call, host.at) \in Nat /\ Asks(HostStep) \in Nat
        /\ Len(toHost) \in Nat
    BY StepAhead
  <2>4. Len(toHost') > 0
    <3>1. Len(toHost') \in Nat
      BY <1>1, <2>3, Remains
    <3> QED  BY <1>1, <2>2, <2>3, <3>1
  <2>5. LastByte' = LastByte
    <3>1. Len(toHost) >= Asks(HostStep)
      BY <1>1, <2>3
    <3> QED  BY <1>1, <2>4, <3>1, Remains, Zenon
  <2> QED  BY <2>1, <2>5
<1> QED  BY <1>2, <1>3

LEMMA TakesDone ==
  ASSUME NEW call, LinkTypes, HostTypes, InSession, call = Current, UNCHANGED fw,
         Done(call), HostTakes
  PROVE  Done(call)'
<1>1. LastStep(call) \in host.at + 1 .. LastStep(call)
  BY TakesCount, StepAhead
<1>2. /\ Until(call, LastStep(call))'
      /\ LastIs(call, LastStep(call))' => LastByte' = REPL_OK
  BY <1>1, TakesUntil, Zenon DEF Done
<1>3. toProg' = toProg
  BY TakesCount
<1>4. ~Running'
  BY DEF Done, Running
<1> QED  BY <1>2, <1>3, <1>4 DEF Done

LEMMA TakesFailed ==
  ASSUME NEW call, LinkTypes, HostTypes, InSession, call = Current, UNCHANGED fw,
         Failed(call), HostTakes
  PROVE  Failed(call)'
<1>1. PICK b \in host.at .. LastStep(call) :
        Judges(call, b) /\ Until(call, b) /\ (LastIs(call, b) => IsBad(LastByte))
  BY DEF Failed
<1>2. b # host.at
  <2> SUFFICES ASSUME b = host.at  PROVE FALSE
    OBVIOUS
  <2>1. HostStep.do \in {"ack", "progmode"} /\ toHost[1] = REPL_ACK
    <3>1. HostStep.do \in {"ack", "progmode", "result"}
      BY <1>1, StepAhead DEF Judges
    <3>2. HostStep.do # "result"
      BY TakesCount, StepAhead
    <3> QED  BY <3>1, <3>2 DEF HostTakes
  <2>2. Len(toHost) >= 1 /\ Len(toHost) \in Nat /\ HasRead(call, host.at) \in Nat
    BY TakesCount, StepAhead
  <2>3. HasRead(call, host.at) + Len(toHost) <= HasRead(call, host.at) + 1
    BY <1>1 DEF Until, Level
  <2>4. Len(toHost) = 1
    <3> DEFINE r == HasRead(call, host.at)
               l == Len(toHost)
    <3>1. r \in Nat /\ l \in Nat /\ l >= 1 /\ r + l <= r + 1
      BY <2>2, <2>3
    <3> HIDE DEF r, l
    <3>2. l = 1
      BY <3>1
    <3> QED  BY <3>2 DEF l
  <2>5. IsBad(LastByte)
    BY <1>1, <2>4 DEF LastIs
  <2> QED  BY <2>1, <2>4, <2>5 DEF LastByte, IsBad
<1>3. b \in host.at + 1 .. LastStep(call) /\ b \in host'.at .. LastStep(call)
  <2>1. host'.at = host.at + 1
    BY TakesCount
  <2>2. host.at \in Nat /\ LastStep(call) \in Nat
    BY StepAhead
  <2>3. b \in host.at + 1 .. LastStep(call)
    BY <1>1, <1>2, <2>2
  <2> QED  BY <2>1, <2>3
<1>4. Until(call, b)' /\ (LastIs(call, b)' => IsBad(LastByte)')
  BY <1>1, <1>3, TakesUntil DEF IsBad
<1>5. toProg' = toProg /\ host'.pos = host.pos
  BY TakesCount
<1>6. ~Running' /\ Open' /\ toProg' = << >>
  BY <1>5 DEF Failed, Running, Open
<1> QED  BY <1>1, <1>3, <1>4, <1>6, Zenon DEF Failed

\* The controller reads the ACK that came before the failure, and nothing after it
LEMMA TakesByteFailed ==
  ASSUME NEW call, LinkTypes, HostTypes, InSession, call = Current, UNCHANGED fw,
         host.clean \/ ~fw.astray, ByteFailed(call), HostTakes
  PROVE  ByteFailed(call)'
<1>1. /\ call.cmd = CMD_SENDBYTE /\ host.at \in 4 .. 6
      /\ Len(toProg) <= Once(host.at = 6) /\ OnlyData
  BY DEF ByteFailed
<1>2. host.at \in {4, 6} /\ HostStep = WaitAck
  <2>1. IsCall(call) /\ HostStep = Steps(call)[host.at]
    BY StepAhead
  <2>2. HostStep = IF host.at = 5 THEN WriteData(1) ELSE WaitAck
    BY <1>1, <2>1, SendByteSteps
  <2>3. HostStep.do \in Reading
    BY DEF HostTakes
  <2> QED  BY <1>1, <2>2, <2>3, DataFacts DEF Reading
<1>3. toHost[1] = REPL_ACK /\ Asks(HostStep) = 1 /\ Len(toHost) >= 1 /\ Len(toHost) \in Nat
  BY <1>2, KindFacts, StepAhead DEF HostTakes
<1>4. host.at = 4
  <2> SUFFICES ASSUME host.at # 4  PROVE FALSE
    OBVIOUS
  <2>1. IsBad(toHost[1])
    <3>1. CASE host.clean
      BY <3>1 DEF ByteFailed
    <3>2. CASE ~fw.astray
      <4>1. \A i \in 1 .. Len(toHost) : IsBad(toHost[i])
        BY <3>2 DEF ByteFailed
      <4> QED  BY <1>3, <4>1
    <3> QED  BY <3>1, <3>2
  <2> QED  BY <1>3, <2>1 DEF IsBad
<1>5. /\ toHost' = Remainder /\ UNCHANGED <<toProg, portOpen>> /\ host'.clean = host.clean
      /\ host'.at = 5 /\ host'.pos = host.pos
  BY <1>4, TakesCount
<1>6. /\ Len(toHost') = Len(toHost) - 1 /\ Len(toHost') \in Nat
      /\ \A i \in 1 .. Len(toHost') : i + 1 \in 1 .. Len(toHost) /\ toHost'[i] = toHost[i + 1]
  BY <1>3, <1>5, Remains
<1>7. host.clean => Len(toHost') >= 1 /\ IsBad(toHost'[1])
  <2> SUFFICES ASSUME host.clean  PROVE Len(toHost') >= 1 /\ IsBad(toHost'[1])
    OBVIOUS
  <2>1. Len(toHost) >= 2 /\ IsBad(toHost[2])
    BY <1>4 DEF ByteFailed
  <2>2. 1 \in 1 .. Len(toHost')
    BY <1>3, <1>6, <2>1
  <2>3. toHost'[1] = toHost[1 + 1]
    BY <1>6, <2>2
  <2> QED  BY <2>1, <2>2, <2>3
<1>8. ~fw'.astray => /\ ~Running' /\ Open'
                     /\ \A i \in 1 .. Len(toHost') : IsBad(toHost'[i])
  <2> SUFFICES ASSUME ~fw.astray
               PROVE  ~Running' /\ Open' /\ \A i \in 1 .. Len(toHost') : IsBad(toHost'[i])
    OBVIOUS
  <2>1. ~Running /\ Open /\ \A i \in 2 .. Len(toHost) : IsBad(toHost[i])
    BY <1>4 DEF ByteFailed
  <2>2. ~Running' /\ Open'
    BY <1>5, <2>1 DEF Running, Open
  <2>3. ASSUME NEW i \in 1 .. Len(toHost')  PROVE IsBad(toHost'[i])
    <3>1. i + 1 \in 2 .. Len(toHost) /\ toHost'[i] = toHost[i + 1]
      BY <1>6
    <3>2. IsBad(toHost[i + 1])
      BY <2>1, <3>1
    <3> QED  BY <3>1, <3>2
  <2> QED  BY <2>2, <2>3
<1>9. Len(toProg') <= Once(host'.at = 6) /\ OnlyData'
  BY <1>1, <1>4, <1>5 DEF Once, OnlyData
<1> QED  BY <1>1, <1>5, <1>7, <1>8, <1>9 DEF ByteFailed

LEMMA TakesAcks ==
  ASSUME NEW call, LinkTypes, HostTypes, InSession, call = Current, UNCHANGED fw,
         Acks(call), HostTakes
  PROVE  Acks(call)'
<1>1. /\ host'.clean = host.clean /\ Len(toHost) >= Asks(HostStep) /\ toHost' = Remainder
      /\ HasRead(call, host'.at) = HasRead(call, host.at) + Asks(HostStep)
      /\ HasRead(call, host.at) \in Nat /\ Asks(HostStep) \in Nat
  BY TakesCount, StepAhead
<1>2. /\ Len(toHost') = Len(toHost) - Asks(HostStep) /\ Len(toHost') \in Nat /\ Len(toHost) \in Nat
      /\ \A i \in 1 .. Len(toHost') : /\ i + Asks(HostStep) \in 1 .. Len(toHost)
                                      /\ toHost'[i] = toHost[i + Asks(HostStep)]
  BY <1>1, Remains
<1> SUFFICES ASSUME host'.clean, NEW i \in 1 .. Len(toHost'),
                    call.cmd = CMD_FLASH_PAGE_ERASE \/ HasRead(call, host'.at) + i = 1,
                    Running' \/ i < Len(toHost')
             PROVE  toHost'[i] = REPL_ACK
  BY Zenon DEF Acks
<1> DEFINE k == i + Asks(HostStep)
<1>3. host.clean /\ k \in 1 .. Len(toHost) /\ toHost'[i] = toHost[k]
  BY <1>1, <1>2
<1>4. HasRead(call, host'.at) + i = 1 => HasRead(call, host.at) + k = 1
  BY <1>1, <1>2
<1>5. (Running' <=> Running) /\ (i < Len(toHost') => k < Len(toHost))
  BY <1>1, <1>2 DEF Running
<1> HIDE DEF k
<1>6. /\ call.cmd = CMD_FLASH_PAGE_ERASE \/ HasRead(call, host.at) + k = 1
      /\ Running \/ k < Len(toHost)
  BY <1>4, <1>5
<1>7. toHost[k] = REPL_ACK
  BY <1>3, <1>6, Zenon DEF Acks
<1> QED  BY <1>3, <1>7

LEMMA TakesStay ==
  ASSUME NEW call, FwAlone, LinkTypes, HostTypes, InSession, call = Current, UNCHANGED fw,
         host.clean \/ ~fw.astray, InStep(call), HostTakes
  PROVE  InStep(call)'
<1>1. Acks(call)' /\ host'.at # 1
  BY TakesAcks, TakesCount, Zenon DEF InStep
<1>2. CASE Fresh(call)
  <2>1. toHost = << >>
    BY <1>2 DEF Fresh
  <2>2. Len(toHost) = 0 /\ Asks(HostStep) > 0 /\ Asks(HostStep) <= Len(toHost) /\ Asks(HostStep) \in Nat
    BY <2>1, TakesCount
  <2> QED  BY <2>2
<1>3. CASE Underway(call)
  BY <1>1, <1>3, TakesUnderway, Zenon DEF InStep, Phase
<1>4. CASE Done(call)
  BY <1>1, <1>4, TakesDone, Zenon DEF InStep, Phase
<1>5. CASE Failed(call)
  BY <1>1, <1>5, TakesFailed, Zenon DEF InStep, Phase
<1>6. CASE ByteFailed(call)
  BY <1>1, <1>6, TakesByteFailed, Zenon DEF InStep, Phase
<1> QED  BY <1>2, <1>3, <1>4, <1>5, <1>6 DEF InStep, Phase

-------------------------------------------------------------------------------
(* A call ends *)

\* A call that has not begun is in step with a programmer that waits for a command
LEMMA BeginsAnew ==
  ASSUME NEW call, ~Running', Open', toProg' = << >>, toHost' = << >>, host'.at = 1
  PROVE  InStep(call)'
<1>1. Fresh(call)'
  BY DEF Fresh
<1>2. \A i \in 1 .. Len(toHost') : FALSE
  BY DEF Fresh
<1>3. Acks(call)'
  BY <1>2, Zenon DEF Acks
<1> QED  BY <1>1, <1>3, Zenon DEF InStep, Phase

\* A handler that runs has not sent its result
LEMMA NoResultYet ==
  ASSUME NEW call, FwAlone, LinkTypes, HostTypes, InSession, call = Current,
         Underway(call), HostStep.do = "result"
  PROVE  Len(toHost) = 0
<1>1. PICK j \in 0 .. Rounds(call) : Inside(call, j)
  BY UnderwayAt DEF Inside
<1>2. Known(call, j) /\ Counted(call, j)
  BY <1>1, Knows DEF Inside, Counting
<1>3. host.at = LastStep(call) /\ IsCall(call)
  BY StepAhead
<1> DEFINE s == HasSent(call.cmd, fw.step)
           r == HasRead(call, host.at)
           e == HasSent(call.cmd, LastOp(call.cmd))
<1>4. /\ Rounds(call) \in Nat /\ e + Rounds(call) = r /\ s <= e
  <2>1. Ends(call)
    BY <1>3, CallsEnd
  <2>2. fw.step \in 1 .. LastOp(call.cmd)
    BY <1>2 DEF Known
  <2> QED  BY <1>3, <2>1, <2>2 DEF Ends
<1>5. s \in Nat /\ r \in Nat /\ e \in Nat /\ Len(toHost) \in Nat /\ r + Len(toHost) <= s + j
  <2>1. /\ r \in Nat /\ Len(toHost) \in Nat /\ Level(r + Len(toHost), SentBy(call, j))
        /\ SentBy(call, j) = s + j
    BY <1>2, Balance
  <2>2. s \in Nat
    BY <1>2 DEF Known, Tallied
  <2>3. e \in Nat
    <3>1. LastOp(call.cmd) \in DOMAIN Handlers[call.cmd] /\ call.cmd \in Commands
      BY <1>2, CommandBegins DEF Known
    <3>2. OpMoves(call.cmd, LastOp(call.cmd))
      BY <3>1, OpsMean DEF OpMeans
    <3> QED  BY <3>2 DEF OpMoves
  <2> QED  BY <2>1, <2>2, <2>3 DEF Level
<1> HIDE DEF s, r, e
<1> QED  BY <1>4, <1>5

\* Of what was sent one byte is left to read
LEMMA OneLeft ==
  ASSUME NEW call, LinkTypes, HostTypes, InSession, call = Current,
         Until(call, host.at), Len(toHost) >= 1
  PROVE  Len(toHost) = 1 /\ LastIs(call, host.at) /\ LastByte = toHost[1]
<1> DEFINE r == HasRead(call, host.at)
           l == Len(toHost)
<1>1. r + l <= r + 1 /\ r \in Nat /\ l \in Nat /\ l >= 1
  BY StepAhead DEF Until, Level
<1> HIDE DEF r, l
<1>2. l = 1
  BY <1>1
<1>3. Len(toHost) = 1 /\ LastByte = toHost[1]
  BY <1>2 DEF l, LastByte
<1> QED  BY <1>3 DEF LastIs

\* An OK where the controller expects the result says that the command was performed, and
\* nothing is under way any more
LEMMA OkMeansDone ==
  ASSUME NEW call, FwAlone, LinkTypes, HostTypes, InSession, call = Current,
         InStep(call), HostStep.do = "result", Len(toHost) >= 1, toHost[1] = REPL_OK
  PROVE  Done(call) /\ Len(toHost) = 1
<1>1. host.at = LastStep(call) /\ Len(toHost) \in Nat /\ IsCall(call)
  BY StepAhead
<1>2. ~Fresh(call) /\ ~Underway(call)
  BY <1>1, NoResultYet DEF Fresh
<1>3. ~Failed(call)
  <2> SUFFICES ASSUME Failed(call)  PROVE FALSE
    OBVIOUS
  <2>1. PICK b \in host.at .. LastStep(call) :
          Judges(call, b) /\ Until(call, b) /\ (LastIs(call, b) => IsBad(LastByte))
    BY DEF Failed
  <2>2. b = host.at
    BY <1>1, <2>1, StepAhead
  <2>3. IsBad(toHost[1])
    BY <2>1, <2>2, OneLeft
  <2> QED  BY <2>3 DEF IsBad
<1>4. ~ByteFailed(call)
  <2> SUFFICES ASSUME ByteFailed(call)  PROVE FALSE
    OBVIOUS
  <2>1. call.cmd = CMD_SENDBYTE /\ host.at \in 4 .. 6
    BY DEF ByteFailed
  <2>2. LastStep(call) = 7
    BY <1>1, <2>1, SendByteSteps
  <2> QED  BY <1>1, <2>1, <2>2
<1>5. Done(call)
  BY <1>2, <1>3, <1>4 DEF InStep, Phase
<1>6. Until(call, host.at)
  BY <1>1, <1>5 DEF Done
<1> QED  BY <1>5, <1>6, OneLeft

\* START is the first call of a job, STOP the last
LEMMA JobEnds ==
  ASSUME HostTypes, InSession
  PROVE  /\ host.pos = 1 <=> Current.cmd = CMD_START
         /\ host.pos = Len(host.job) <=> Current.cmd = CMD_STOP
<1>1. IsJob(host.job) /\ host.pos \in DOMAIN host.job /\ Len(host.job) \in Nat
  BY Calling
<1>2. host.pos \in 1 .. Len(host.job)
  BY <1>1 DEF IsJob
<1>3. CASE host.pos = 1
  BY <1>1, <1>3 DEF IsJob, Current
<1>4. CASE host.pos = Len(host.job)
  BY <1>1, <1>4 DEF IsJob, Current
<1>5. CASE host.pos \in 2 .. Len(host.job) - 1
  <2>1. Current.cmd \in Operating
    BY <1>1, <1>5 DEF IsJob, Current
  <2>2. Current.cmd # CMD_START /\ Current.cmd # CMD_STOP
    BY <2>1 DEF Operating
  <2>3. host.pos # 1 /\ host.pos # Len(host.job)
    BY <1>1, <1>5
  <2> QED  BY <2>2, <2>3
<1> QED  BY <1>1, <1>2, <1>3, <1>4, <1>5

\* The next call begins where this one was performed
LEMMA ConcludesStays ==
  ASSUME NEW call, FwAlone, LinkTypes, HostTypes, InSession, call = Current, UNCHANGED fw,
         InStep(call), HostConcludesCall, NEW next
  PROVE  InStep(next)' /\ fw.answered = call.cmd
<1>1. /\ HostStep.do = "result" /\ Len(toHost) >= 1 /\ toHost[1] = REPL_OK
      /\ host.pos < Len(host.job) /\ toHost' = Remainder /\ UNCHANGED toProg
      /\ host'.at = 1
  BY DEF HostConcludesCall, Place
<1>2. Done(call) /\ Len(toHost) = 1
  BY <1>1, OkMeansDone
<1>3. toHost' = << >>
  <2>1. Asks(HostStep) = 1
    BY <1>1 DEF Asks
  <2> QED  BY <1>1, <1>2, <2>1 DEF Remainder, LinkTypes
<1>4. call.cmd # CMD_STOP
  BY <1>1, JobEnds, Calling
<1>5. ~Running' /\ Open' /\ toProg' = << >> /\ fw.answered = call.cmd
  <2>1. fw.open = (call.cmd # CMD_STOP) /\ ~Running /\ toProg = << >> /\ fw.answered = call.cmd
    BY <1>2, Zenon DEF Done
  <2>2. fw.loop = "cmd"
    BY <1>2, <1>4 DEF Done
  <2>3. fw.open
    BY <1>4, <2>1, Zenon
  <2> QED  BY <1>1, <2>1, <2>2, <2>3 DEF Running, Open
<1> QED  BY <1>1, <1>3, <1>5, BeginsAnew

\* So does the next session, if the process goes on with one
LEMMA BeginsAgainStays ==
  ASSUME NEW call, FwAlone, LinkTypes, HostTypes, InSession, call = Current, UNCHANGED fw,
         InStep(call), HostBeginsAgain, NEW next
  PROVE  InStep(next)'
<1>1. /\ HostStep.do = "result" /\ Len(toHost) >= 1 /\ toHost[1] = REPL_OK
      /\ toHost' = Remainder /\ UNCHANGED toProg
      /\ host'.at = 1 /\ host'.pos = 1
  BY DEF HostBeginsAgain, Place
<1>2. Done(call) /\ Len(toHost) = 1
  BY <1>1, OkMeansDone
<1>3. toHost' = << >>
  <2>1. Asks(HostStep) = 1
    BY <1>1 DEF Asks
  <2> QED  BY <1>1, <1>2, <2>1 DEF Remainder, LinkTypes
<1>4. ~Running' /\ Open' /\ toProg' = << >>
  BY <1>1, <1>2 DEF Done, Running, Open
<1> QED  BY <1>1, <1>3, <1>4, BeginsAnew

\* A command that was answered has left the programmer waiting for another
LEMMA AnsweredIsOver ==
  ASSUME NEW call, LinkTypes, HostTypes, InSession, call = Current, Done(call) \/ Failed(call)
  PROVE  /\ ~Running /\ toProg = << >>
         /\ call.cmd # CMD_STOP /\ host.pos > 1 => fw.open /\ fw.loop = "cmd"
<1>1. CASE Done(call)
  <2>1. fw.open = (call.cmd # CMD_STOP) /\ ~Running /\ toProg = << >>
    BY <1>1, Zenon DEF Done
  <2>2. call.cmd # CMD_STOP => fw.loop = "cmd"
    BY <1>1 DEF Done
  <2> QED  BY <2>1, <2>2, Zenon
<1>2. CASE Failed(call)
  BY <1>2 DEF Failed, Open
<1> QED  BY <1>1, <1>2

\* What may still be followed is an ACK
LEMMA FirstIsAck ==
  ASSUME NEW call, Acks(call), host.clean, 1 \in 1 .. Len(toHost),
         call.cmd = CMD_FLASH_PAGE_ERASE \/ HasRead(call, host.at) + 1 = 1,
         Running \/ 1 < Len(toHost)
  PROVE  toHost[1] = REPL_ACK
<1> DEFINE i == 1
<1>1. i \in 1 .. Len(toHost) /\ (call.cmd = CMD_FLASH_PAGE_ERASE \/ HasRead(call, host.at) + i = 1)
      /\ (Running \/ i < Len(toHost))
  OBVIOUS
<1> HIDE DEF i
<1>2. toHost[i] = REPL_ACK
  BY <1>1, Zenon DEF Acks
<1> QED  BY <1>2 DEF i

LEMMA NoMoreThanOne ==
  ASSUME NEW l \in Nat, l >= 1, ~(1 < l)
  PROVE  l = 1
OBVIOUS

\* START waits for an ACK in its second step alone
LEMMA StartAck ==
  ASSUME NEW call, IsCall(call), call.cmd = CMD_START, NEW a \in 1 .. LastStep(call),
         Steps(call)[a].do = "ack"
  PROVE  a = 2
<1>1. LastStep(call) = 7
  BY StartSteps
<1>2. a \in 1 .. 7
  BY <1>1
<1>3. /\ Steps(call)[1] = Issue /\ Steps(call)[3] = ReadStatus /\ Steps(call)[4] = ReadProgmode
      /\ Steps(call)[5] = Write(DeviceSignatureAddress) /\ Steps(call)[6] = ReadSignature
      /\ Steps(call)[7] = Result
  BY StartSteps
<1>4. /\ Issue.do # "ack" /\ ReadStatus.do # "ack" /\ ReadProgmode.do # "ack"
      /\ ReadSignature.do # "ack" /\ Result.do # "ack"
  BY KindFacts
<1>5. Write(DeviceSignatureAddress).do # "ack"
  BY WriteFacts
<1>6. a # 1 /\ a # 3 /\ a # 4 /\ a # 5 /\ a # 6 /\ a # 7
  BY <1>3, <1>4, <1>5, Zenon
<1> QED  BY <1>2, <1>6

\* START is refused by whoever had not heard of it, and may be sent again
LEMMA RetriesStay ==
  ASSUME NEW call, FwAlone, LinkTypes, HostTypes, InSession, call = Current, UNCHANGED fw,
         host.clean, InStep(call), RefusedRetries, NEW next
  PROVE  InStep(next)'
<1>1. /\ HostStep.do = "ack" /\ Len(toHost) >= Asks(HostStep) /\ toHost[1] # REPL_ACK
      /\ call.cmd = CMD_START /\ toHost' = Remainder /\ UNCHANGED toProg
      /\ host'.at = 1 /\ host'.pos = host.pos
  BY DEF RefusedRetries, Refused, Place
<1>2. Asks(HostStep) = 1 /\ Len(toHost) >= 1 /\ Len(toHost) \in Nat
  BY <1>1, StepAhead DEF Asks
<1>3. HasRead(call, host.at) = 0
  <2>1. IsCall(call) /\ HostStep = Steps(call)[host.at] /\ host.at \in 1 .. LastStep(call)
    BY StepAhead
  <2>4. host.at = 2
    BY <1>1, <2>1, StartAck, Zenon
  <2> QED  BY <1>1, <2>4, StartCounts
<1>4. ~Running /\ Len(toHost) = 1
  <2>1. 1 \in 1 .. Len(toHost) /\ HasRead(call, host.at) + 1 = 1 /\ Acks(call)
    BY <1>2, <1>3 DEF InStep
  <2>2. ~(Running \/ 1 < Len(toHost))
    BY <1>1, <2>1, FirstIsAck
  <2>3. ~Running /\ ~(1 < Len(toHost))
    BY <2>2, Zenon
  <2> QED  BY <1>2, <2>3, NoMoreThanOne, Zenon
<1>5. toHost' = << >>
  BY <1>1, <1>2, <1>4 DEF Remainder, LinkTypes
<1>6. Done(call) \/ Failed(call)
  <2>1. ~Fresh(call)
    BY <1>2 DEF Fresh
  <2>2. ~Underway(call) /\ ~ByteFailed(call)
    BY <1>1, <1>4 DEF Underway, ByteFailed
  <2> QED  BY <2>1, <2>2 DEF InStep, Phase
<1>7. host.pos = 1
  BY <1>1, JobEnds
<1>8. ~Running' /\ Open' /\ toProg' = << >>
  BY <1>1, <1>4, <1>6, <1>7, AnsweredIsOver DEF Running, Open
<1> QED  BY <1>1, <1>5, <1>8, BeginsAnew

\* A page erase that failed has sent all it sends by the time its failure is read
LEMMA SkipsStay ==
  ASSUME NEW call, FwAlone, LinkTypes, HostTypes, InSession, call = Current, UNCHANGED fw,
         host.clean, InStep(call), RefusedSkips, NEW next
  PROVE  InStep(next)'
<1>1. /\ HostStep.do \in Reading /\ Len(toHost) >= Asks(HostStep)
      /\ HostStep.do = "ack" => toHost[1] # REPL_ACK
      /\ call.cmd = CMD_FLASH_PAGE_ERASE /\ toHost' = Remainder /\ UNCHANGED toProg
      /\ host'.at = 1 /\ host'.pos = host.pos + 1
  BY DEF RefusedSkips, Refused, Place
<1>2. /\ HostStep.do \in {"ack", "result"} /\ Asks(HostStep) = 1 /\ Len(toHost) >= 1
      /\ Len(toHost) \in Nat /\ IsCall(call)
  <2>1. IsCall(call) /\ host.at \in 1 .. LastStep(call) /\ HostStep = Steps(call)[host.at]
        /\ Len(toHost) \in Nat
    BY StepAhead
  <2>2. HostStep.do \in {"ack", "result"} /\ Asks(HostStep) = 1
    BY <1>1, <2>1, PageEraseKinds
  <2> QED  BY <1>1, <2>1, <2>2
<1>3. ~Fresh(call) /\ ~ByteFailed(call)
  BY <1>1, <1>2 DEF Fresh, ByteFailed
<1>6. ASSUME Len(toHost) = 1, Done(call) \/ Failed(call)  PROVE InStep(next)'
  <2>1. toHost' = << >>
    BY <1>1, <1>2, <1>6 DEF Remainder, LinkTypes
  <2>2. host.pos > 1 /\ host.pos + 1 > 1
    BY <1>1, PageEraseIsFollowed, Calling
  <2>3. ~Running /\ toProg = << >> /\ fw.open /\ fw.loop = "cmd"
    BY <1>1, <1>6, <2>2, AnsweredIsOver
  <2>4. ~Running' /\ Open' /\ toProg' = << >>
    BY <1>1, <2>3 DEF Running, Open
  <2> QED  BY <1>1, <2>1, <2>4, BeginsAnew
<1>4. CASE HostStep.do = "ack"
  <2>1. Acks(call) /\ 1 \in 1 .. Len(toHost)
    BY <1>2 DEF InStep
  <2>2. ~(Running \/ 1 < Len(toHost))
    BY <1>1, <1>4, <2>1, FirstIsAck
  <2>5. ~Running /\ ~(1 < Len(toHost))
    BY <2>2, Zenon
  <2>3. Len(toHost) = 1
    BY <1>2, <2>5, NoMoreThanOne, Zenon
  <2>4. ~Underway(call)
    BY <2>2 DEF Underway
  <2> QED  BY <1>3, <2>3, <2>4, <1>6 DEF InStep, Phase
<1>5. CASE HostStep.do = "result"
  <2>1. ~Underway(call)
    BY <1>2, <1>5, NoResultYet
  <2>2. host.at = LastStep(call)
    BY <1>5, StepAhead
  <2>3. Until(call, host.at)
    <3>1. CASE Done(call)
      BY <2>2, <3>1 DEF Done
    <3>2. CASE Failed(call)
      <4>1. PICK b \in host.at .. LastStep(call) : Until(call, b)
        BY <3>2 DEF Failed
      <4> QED  BY <2>2, <4>1, StepAhead
    <3> QED  BY <1>3, <2>1, <3>1, <3>2 DEF InStep, Phase
  <2>4. Len(toHost) = 1
    BY <1>2, <2>3, OneLeft
  <2> QED  BY <1>3, <2>1, <2>4, <1>6 DEF InStep, Phase
<1> QED  BY <1>2, <1>4, <1>5

-------------------------------------------------------------------------------
(* A clean session *)

\* Nothing is under way that the programmer has no room for
RoomForAll == Len(toProg) <= 3 \/ (At("packets") /\ Len(toProg) <= fw.seg)

LEMMA FewInFlight ==
  ASSUME NEW call, FwAlone, LinkTypes, HostTypes, InSession, call = Current, InStep(call)
  PROVE  RoomForAll
<1>1. CASE Fresh(call)
  <2>1. Len(toProg) = 0 \/ Len(toProg) = 1
    BY <1>1 DEF Fresh
  <2> QED  BY <2>1 DEF RoomForAll
<1>2. CASE Underway(call)
  <2>1. PICK j \in 0 .. Rounds(call) : Counting(call, j)
    BY <1>2, UnderwayAt
  <2>2. Running /\ fw.cmd = call.cmd
    BY <1>2, UnderwayAt
  <2>3. /\ Step.op \in {"recv", "size"} => Len(fw.args) + Len(toProg) <= Gets(call.cmd, fw.step)
        /\ Step.op = "packets" => Len(toProg) <= fw.seg
        /\ Step.op \notin {"recv", "size", "packets"} => Len(toProg) <= 3
    BY <2>1, <2>2, Room
  <2>4. Tallied(call, j)
    BY <2>1, <2>2, BothSides
  <2>5. Len(fw.args) \in Nat /\ Len(toProg) \in Nat /\ Gets(call.cmd, fw.step) \in 0 .. 3
    BY <2>4 DEF Tallied
  <2>6. Step.op = "packets" => At("packets")
    BY <2>2 DEF At
  <2> QED  BY <2>3, <2>5, <2>6 DEF RoomForAll
<1>3. CASE Done(call) \/ Failed(call)
  <2>1. toProg = << >>
    BY <1>3, AnsweredIsOver
  <2>2. Len(toProg) = 0
    BY <2>1
  <2> QED  BY <2>2 DEF RoomForAll
<1>4. CASE ByteFailed(call)
  <2>1. Len(toProg) <= Once(host.at = 6) /\ Len(toProg) \in Nat
    BY <1>4 DEF ByteFailed, LinkTypes
  <2>2. Len(toProg) <= 3
    BY <2>1 DEF Once
  <2> QED  BY <2>2 DEF RoomForAll
<1> QED  BY <1>1, <1>2, <1>3, <1>4 DEF InStep, Phase

\* Whatever the programmer does next it has room for what is left
LEMMA RoomStays ==
  ASSUME FwAlone, LinkTypes, FwNext, RoomForAll
  PROVE  RoomForAll'
<1>1. Len(toProg) \in Nat /\ Len(toProg') \in Nat /\ Len(toProg') <= Len(toProg)
  BY FwReads
<1>2. CASE Len(toProg) <= 3
  BY <1>1, <1>2 DEF RoomForAll
<1>3. CASE At("packets") /\ Len(toProg) <= fw.seg
  <2>1. fw.seg \in Nat /\ fw \in FwShape
    BY Fields, Shape DEF FwAlone
  <2>2. Running /\ Step.op = "packets"
    BY <1>3 DEF At
  <2>3. ForwardsOne \/ \E n \in Nat : AsksFor(n) \/ PacketsEnd(n)
    <3>1. ~Begins /\ ~Rejects
      BY <2>2 DEF Begins, Rejects
    <3>2. ~Finishes /\ ~TakesOne /\ ~ErasesOne
      BY <2>2 DEF Finishes, TakesOne, ErasesOne
    <3>3. \A u \in Seq(Bytes) : ~Onward(u) /\ ~Fails(u)
      BY <2>2 DEF Onward, Fails
    <3>4. \A size \in 0 .. MaxSize : ~TakesLast(size)
      BY <2>2 DEF TakesLast
    <3>5. \A b \in MemoryBytes : ~Streams(b)
      BY <2>2 DEF Streams
    <3> QED  BY <3>1, <3>2, <3>3, <3>4, <3>5, FwActs, Zenon
  <2>4. CASE ForwardsOne
    <3>1. /\ toProg # << >> /\ toProg' = Tail(toProg) /\ fw'.step = fw.step /\ fw'.cmd = fw.cmd
          /\ fw'.seg = fw.seg - 1
      BY <2>4 DEF ForwardsOne, Effect
    <3>2. Len(toProg') = Len(toProg) - 1
      BY <3>1, TailTypes
    <3>3. At("packets")'
      BY <2>2, <3>1 DEF At, Running, Step
    <3> QED  BY <1>1, <1>3, <2>1, <3>1, <3>2, <3>3 DEF RoomForAll
  <2>5. CASE \E n \in Nat : AsksFor(n) \/ PacketsEnd(n)
    <3>1. fw.seg = 0
      BY <2>5 DEF AsksFor, PacketsEnd
    <3>2. Len(toProg') <= 3
      BY <1>1, <1>3, <3>1
    <3> QED  BY <3>2 DEF RoomForAll
  <2> QED  BY <2>3, <2>4, <2>5
<1> QED  BY <1>2, <1>3 DEF RoomForAll

\* The two sides are in step while nothing was lost and no read was given up
CleanInStep == InSession /\ host.clean => InStep(Current) /\ ~host.fooled

CleanInv == Types /\ CleanInStep /\ Leftovers

LEMMA LeftoversAre == Leftovers <=> (~InSession /\ host.clean => RoomForAll)
BY Zenon DEF Leftovers, RoomForAll

\* The call of the next state, named
LEMMA StaysWith ==
  ASSUME \A next : InStep(next)', host'.clean => ~host'.fooled
  PROVE  CleanInStep'
<1>1. ASSUME NEW CONSTANT c, c = Current', InStep(c)'  PROVE InStep(Current)'
  BY <1>1
<1> QED  BY <1>1, Zenon DEF CleanInStep

LEMMA StaysWithCall ==
  ASSUME NEW call, call = Current, Place(host.pos, host.at + 1), InStep(call)', ~host'.fooled
  PROVE  CleanInStep'
<1>1. Current' = call
  BY DEF Place, Current
<1>2. InStep(Current)'
  BY <1>1
<1> QED  BY <1>2, Zenon DEF CleanInStep

LEMMA HostStaysClean ==
  ASSUME CleanInv, HostActs, UNCHANGED fw
  PROVE  CleanInStep'
<1>1. FwAlone /\ LinkTypes /\ HostTypes
  BY DEF CleanInv, Types
<1> SUFFICES ASSUME host'.clean, InSession'  PROVE CleanInStep'
  BY Zenon DEF CleanInStep
<1>s. InSession
  BY Zenon DEF HostActs, HostSends, HostTakes, HostConcludesCall, HostBeginsAgain, HostGoesWithout,
         RefusedRetries, RefusedSkips, Refused, LateRetries, LateSkips, Late, HostExits
<1>l. ~HostGoesWithout /\ ~LateRetries /\ ~LateSkips /\ ~HostExits
  BY DEF HostGoesWithout, LateRetries, LateSkips, HostExits, Flags, InSession
<1>c. PICK call : call = Current
  OBVIOUS
<1>2. host.clean => InStep(call) /\ ~host.fooled
  BY <1>s, <1>c, Zenon DEF CleanInv, CleanInStep
<1>3. CASE \E bytes \in Seq(Bytes), isCmd \in BOOLEAN : HostSends(bytes, isCmd)
  <2>1. PICK bytes \in Seq(Bytes), isCmd \in BOOLEAN : HostSends(bytes, isCmd)
    BY <1>3
  <2>2. Place(host.pos, host.at + 1) /\ Flags(host.clean, host.fooled, host.skipped)
    BY <2>1 DEF HostSends
  <2>3. host.clean /\ ~host'.fooled
    BY <1>2, <2>2 DEF Flags
  <2>4. InStep(call)'
    BY <1>1, <1>c, <1>s, <1>2, <2>1, <2>3, SendsStay
  <2> QED  BY <1>c, <2>2, <2>3, <2>4, StaysWithCall
<1>4. CASE HostTakes
  <2>2. Place(host.pos, host.at + 1) /\ Flags(host.clean, host.fooled, host.skipped)
    BY <1>4 DEF HostTakes
  <2>3. host.clean /\ ~host'.fooled
    BY <1>2, <2>2 DEF Flags
  <2>4. InStep(call)'
    BY <1>1, <1>c, <1>s, <1>2, <1>4, <2>3, TakesStay
  <2> QED  BY <1>c, <2>2, <2>3, <2>4, StaysWithCall
<1>5. CASE HostConcludesCall
  <2>1. Flags(host.clean, host.fooled \/ fw.answered # call.cmd, host.skipped)
    BY <1>c, <1>5 DEF HostConcludesCall
  <2>2. host.clean
    BY <2>1 DEF Flags
  <2>3. ASSUME NEW next  PROVE InStep(next)' /\ fw.answered = call.cmd
    BY <1>1, <1>c, <1>s, <1>2, <1>5, <2>2, ConcludesStays
  <2>4. ~host'.fooled
    BY <1>2, <2>1, <2>2, <2>3 DEF Flags
  <2> QED  BY <2>3, <2>4, StaysWith
<1>6. CASE HostBeginsAgain
  <2>1. Flags(host.clean, host.fooled, host.skipped)
    BY <1>6 DEF HostBeginsAgain
  <2>2. host.clean /\ ~host'.fooled
    BY <1>2, <2>1 DEF Flags
  <2>3. ASSUME NEW next  PROVE InStep(next)'
    BY <1>1, <1>c, <1>s, <1>2, <1>6, <2>2, BeginsAgainStays
  <2> QED  BY <2>2, <2>3, StaysWith
<1>7. CASE RefusedRetries
  <2>1. Flags(host.clean, host.fooled, host.skipped)
    BY <1>7 DEF RefusedRetries
  <2>2. host.clean /\ ~host'.fooled
    BY <1>2, <2>1 DEF Flags
  <2>3. ASSUME NEW next  PROVE InStep(next)'
    BY <1>1, <1>c, <1>s, <1>2, <1>7, <2>2, RetriesStay
  <2> QED  BY <2>2, <2>3, StaysWith
<1>8. CASE RefusedSkips
  <2>1. Flags(host.clean, host.fooled, TRUE)
    BY <1>8, Zenon DEF RefusedSkips
  <2>2. host.clean /\ ~host'.fooled
    BY <1>2, <2>1 DEF Flags
  <2>3. ASSUME NEW next  PROVE InStep(next)'
    BY <1>1, <1>c, <1>s, <1>2, <1>8, <2>2, SkipsStay
  <2> QED  BY <2>2, <2>3, StaysWith
<1> QED  BY <1>l, <1>3, <1>4, <1>5, <1>6, <1>7, <1>8 DEF HostActs

\* In a clean session the two sides are in step, through whatever fails
LEMMA CleanStep ==
  ASSUME CleanInv, [Next]_vars
  PROVE  CleanInv'
<1>1. HostTypes /\ LinkTypes /\ FwAlone
  BY DEF CleanInv, Types
<1>2. Types'
  BY StepTypes DEF CleanInv
<1>3. CASE FirmwareSteps
  <2>1. FwNext /\ HostRests
    BY <1>1, <1>3, FwActs DEF FirmwareSteps, HostRests
  <2>2. PICK call : call = Current
    OBVIOUS
  <2>3. (InSession' <=> InSession) /\ (host'.clean <=> host.clean)
        /\ (host'.fooled <=> host.fooled) /\ Current' = call
    BY <2>1, <2>2 DEF HostRests, InSession, Current
  <2>4. CASE InSession /\ host.clean
    <3>1. InStep(call) /\ ~host.fooled
      BY <2>2, <2>4, Zenon DEF CleanInv, CleanInStep
    <3>2. InStep(call)'
      BY <1>1, <2>1, <2>2, <2>4, <3>1, FwStaysInStep
    <3>3. InStep(Current)'
      BY <2>3, <3>2
    <3>4. CleanInStep'
      BY <2>3, <3>1, <3>3, Zenon DEF CleanInStep
    <3>5. Leftovers'
      BY <2>3, <2>4, LeftoversAre, Zenon DEF Leftovers
    <3> QED  BY <1>2, <3>4, <3>5 DEF CleanInv
  <2>5. CASE ~InSession /\ host.clean
    <3>1. RoomForAll
      BY <2>5, LeftoversAre DEF CleanInv
    <3>2. RoomForAll'
      BY <1>1, <2>1, <3>1, RoomStays
    <3>3. Leftovers'
      BY <3>2, Zenon DEF Leftovers, RoomForAll
    <3>4. CleanInStep'
      BY <2>3, <2>5, Zenon DEF CleanInStep
    <3> QED  BY <1>2, <3>3, <3>4 DEF CleanInv
  <2>6. CASE ~host.clean
    BY <1>2, <2>3, <2>6, Zenon DEF CleanInv, CleanInStep, Leftovers
  <2> QED  BY <2>4, <2>5, <2>6
<1>4. CASE HostMoves
  <2>1. HostActs /\ UNCHANGED fw
    BY <1>1, <1>4, HostDoes
  <2>2. CleanInStep'
    BY <2>1, HostStaysClean
  <2>3. CASE InSession'
    BY <1>2, <2>2, <2>3, Zenon DEF CleanInv, Leftovers
  <2>4. CASE ~InSession'
    <3>1. HostExits
      <4>1. \A bytes \in Seq(Bytes), isCmd \in BOOLEAN : ~HostSends(bytes, isCmd)
        BY <2>4 DEF HostSends, InSession
      <4>2. HostTakes \/ HostConcludesCall \/ HostBeginsAgain \/ RefusedRetries \/ RefusedSkips
              => InSession /\ UNCHANGED <<toProg, portOpen>>
        BY Zenon DEF HostTakes, HostConcludesCall, HostBeginsAgain, RefusedRetries, RefusedSkips,
                     Refused
      <4>3. HostGoesWithout \/ LateRetries \/ LateSkips => InSession /\ UNCHANGED <<toProg, portOpen>>
        BY Zenon DEF HostGoesWithout, LateRetries, LateSkips, Late
      <4>4. InSession /\ UNCHANGED <<toProg, portOpen>> => FALSE
        BY <2>4 DEF InSession
      <4> QED  BY <2>1, <4>1, <4>2, <4>3, <4>4, Zenon DEF HostActs
    <3>2. InSession /\ UNCHANGED toProg /\ (host'.clean <=> host.clean)
      BY <3>1 DEF HostExits, Flags
    <3>3. PICK call : call = Current
      OBVIOUS
    <3>4. host.clean => InStep(call)
      BY <3>2, <3>3, Zenon DEF CleanInv, CleanInStep
    <3>5. host.clean => RoomForAll
      BY <1>1, <3>2, <3>3, <3>4, FewInFlight
    <3>6. RoomForAll => RoomForAll'
      BY <2>1, <3>2 DEF RoomForAll, At, Running, Step
    <3>7. Leftovers'
      BY <3>2, <3>5, <3>6, Zenon DEF Leftovers, RoomForAll
    <3> QED  BY <1>2, <2>2, <3>7 DEF CleanInv
  <2> QED  BY <2>3, <2>4
<1>5. CASE Overrun \/ LineLoses
  <2>1. ~host'.clean
    BY <1>1, <1>5, LossDoes DEF Loses, Flags
  <2> QED  BY <1>2, <2>1, Zenon DEF CleanInv, CleanInStep, Leftovers
<1>6. CASE HostOpens
  <2>1. Opens
    BY <1>1, <1>6, OpensDoes
  <2>2. /\ InSession' /\ toHost' = << >> /\ UNCHANGED toProg /\ host'.pos = 1 /\ host'.at = 1
        /\ fw'.step = fw.step
    BY <2>1 DEF Opens, InSession
  <2>3. (host'.clean => Idle) /\ ~host'.fooled
    BY <2>1, Zenon DEF Opens, Flags
  <2>4. ASSUME host'.clean, NEW next  PROVE InStep(next)'
    <3>1. ~Running' /\ toProg' = << >>
      BY <2>2, <2>3, <2>4 DEF Idle, Running
    <3>2. Open'
      BY <2>2 DEF Open
    <3> QED  BY <2>2, <3>1, <3>2, BeginsAnew
  <2>5. CleanInStep'
    <3>1. CASE host'.clean
      BY <2>3, <2>4, <3>1, StaysWith
    <3>2. CASE ~host'.clean
      BY <3>2, Zenon DEF CleanInStep
    <3> QED  BY <3>1, <3>2
  <2> QED  BY <1>2, <2>2, <2>5, Zenon DEF CleanInv, Leftovers
<1>7. CASE UNCHANGED vars
  <2>1. PICK call : call = Current
    OBVIOUS
  <2>2. UNCHANGED <<toProg, toHost, portOpen, fw, host>> /\ Current' = call
    BY <1>7, <2>1 DEF vars, linkVars, Current
  <2>3. InStep(call) => InStep(call)'
    BY <2>2 DEF InStep, Phase, Fresh, Underway, Looped, Counted, SizeIsCalls, OnlyData, Done, Failed,
                ByteFailed, Acks, Open, Level, Until, LastIs, LastByte, BlockGot, At, Running, Step
  <2>4. CleanInStep'
    <3>1. InStep(call)' => InStep(Current)'
      BY <2>2
    <3> QED  BY <2>1, <2>2, <2>3, <3>1, Zenon DEF CleanInv, CleanInStep, InSession
  <2>5. Leftovers'
    BY <2>2 DEF CleanInv, Leftovers, InSession, At, Running, Step
  <2> QED  BY <1>2, <2>4, <2>5 DEF CleanInv
<1> QED  BY <1>3, <1>4, <1>5, <1>6, <1>7 DEF Next, HostMoves

LEMMA CleanInit == Init => CleanInv
<1> SUFFICES ASSUME Init  PROVE CleanInv
  OBVIOUS
<1>1. Types
  BY InitTypes
<1>2. ~InSession /\ toProg = << >>
  BY DEF Init, LinkInit, InSession
<1>3. Len(toProg) <= 3
  BY <1>2
<1> QED  BY <1>1, <1>2, <1>3, Zenon DEF CleanInv, CleanInStep, Leftovers

LEMMA CleanAlways == Spec => []CleanInv
BY CleanInit, CleanStep, PTL DEF Spec

-------------------------------------------------------------------------------
(* What follows *)

\* What was sent and not yet read is what the controller reads next
LEMMA AnswerIsThere ==
  ASSUME NEW call, LinkTypes, HostTypes, InSession, call = Current, host.clean,
         NEW b \in host.at .. LastStep(call), Until(call, b), Judges(call, b)
  PROVE  Asks(HostStep) <= Len(toHost)
<1>1. HasRead(call, host.at) + Len(toHost) = HasRead(call, b) + 1
  BY DEF Until, Level
<1>2. /\ HasRead(call, host.at) \in Nat /\ Len(toHost) \in Nat /\ Asks(HostStep) \in Nat
      /\ host.at \in Nat /\ LastStep(call) \in Nat
  BY StepAhead
<1>3. CASE b = host.at
  <2>1. HostStep.do \in {"ack", "progmode", "result"}
    BY <1>3, StepAhead DEF Judges
  <2>2. Asks(HostStep) = 1
    BY <2>1 DEF Asks
  <2> DEFINE r == HasRead(call, host.at)
             l == Len(toHost)
  <2>4. r + l = r + 1 /\ r \in Nat /\ l \in Nat
    BY <1>1, <1>2, <1>3
  <2> HIDE DEF r, l
  <2>5. l = 1
    BY <2>4
  <2>3. Len(toHost) = 1
    BY <2>5 DEF l
  <2> QED  BY <2>2, <2>3
<1>4. CASE b # host.at
  <2>1. b \in host.at + 1 .. LastStep(call)
    BY <1>2, <1>4
  <2>2. HasRead(call, b) \in Nat /\ HasRead(call, host.at) + Asks(HostStep) <= HasRead(call, b)
    BY <2>1, StepAhead
  <2> QED  BY <1>1, <1>2, <2>2
<1> QED  BY <1>3, <1>4

\* A handler that waits for a byte has answered all that the controller waits for
LEMMA UnderwayServes ==
  ASSUME NEW call, FwAlone, LinkTypes, HostTypes, InSession, call = Current, host.clean,
         Underway(call), Starved
  PROVE  Asks(HostStep) <= Len(toHost)
<1>1. Running /\ fw.cmd = call.cmd
  BY UnderwayAt
<1>2. PICK j \in 0 .. Rounds(call) : Counting(call, j)
  BY UnderwayAt
<1>3. /\ Step = Handlers[call.cmd][fw.step] /\ Meets(call, fw.step, host.at, j)
      /\ Tally(call, j) /\ Tallied(call, j)
      /\ Step.op # "packets" => fw.seg = 0
      /\ Step.op \notin {"recv", "size"} => Len(fw.args) = 0
      /\ call.cmd \in Commands /\ fw.step \in DOMAIN Handlers[call.cmd]
  BY <1>1, <1>2, BothSides, CallCommands
<1>4. /\ Asks(HostStep) \in Nat /\ HostStep = Steps(call)[host.at]
      /\ HostStep.do \in Reading <=> Asks(HostStep) > 0
  BY StepAhead
<1>5. Len(toProg) = 0
  BY DEF Starved
<1> SUFFICES ASSUME Asks(HostStep) > Len(toHost)  PROVE FALSE
  <2>1. Len(toHost) \in Nat
    BY DEF LinkTypes
  <2> QED  BY <1>4, <2>1
<1> DEFINE op == Step.op
           read == HasRead(call, host.at)
           sent == HasSent(call.cmd, fw.step) + j
           got == HasGot(call.cmd, fw.step) + BlockOf(call, j)
           written == HasWritten(call, host.at)
           gets == Gets(call.cmd, fw.step)
           asks == Asks(HostStep)
<1>6. read <= sent /\ (op = "packets" \/ got <= written) =>
        (op \in {"recv", "size", "packets"} /\ HostStep.do \in Reading /\ read + asks > sent
           => written = got + gets)
  BY <1>3, <1>4 DEF Meets
<1>7. /\ read \in Nat /\ written \in Nat
      /\ HasSent(call.cmd, fw.step) \in Nat /\ HasGot(call.cmd, fw.step) \in Nat
      /\ BlockOf(call, j) \in Nat /\ j \in Nat /\ gets \in Nat
      /\ fw.seg \in Nat /\ Len(toHost) \in Nat /\ Len(fw.args) \in Nat
  BY <1>3 DEF Tallied
<1>8. sent \in Nat /\ got \in Nat
  BY <1>7
<1>9. /\ read + Len(toHost) = sent
      /\ HasGot(call.cmd, fw.step) + Len(fw.args) + BlockOf(call, j) - fw.seg + Len(toProg) = written
  BY <1>3 DEF Tally
<1>10. got + Len(fw.args) - fw.seg = written
  <2> DEFINE h == HasGot(call.cmd, fw.step)
             k == BlockOf(call, j)
             m == Len(fw.args)
             p == Len(toProg)
  <2>1. h + m + k - fw.seg + p = written /\ p = 0 /\ got = h + k
        /\ h \in Nat /\ k \in Nat /\ m \in Nat /\ fw.seg \in Nat /\ written \in Nat
    BY <1>5, <1>7, <1>9
  <2> HIDE DEF h, k, m, p, got, written
  <2>2. got + m - fw.seg = written
    BY <2>1
  <2> QED  BY <2>2 DEF m
<1>11. HostStep.do \in Reading /\ asks \in Nat /\ asks > Len(toHost)
  <2>1. Len(toHost) \in Nat
    BY DEF LinkTypes
  <2> QED  BY <1>4, <2>1
<1>12. op \in {"recv", "size"} \/ (op = "packets" /\ fw.seg > 0)
  BY <1>1 DEF Starved, Polling, Armed, At
<1>13. op # "packets" => fw.seg = 0
  BY <1>3
<1>14. op \in {"recv", "size"} => Len(fw.args) < gets
  BY <1>1, ArgsHeld
<1>15. op = "packets" => gets = 0 /\ Len(fw.args) = 0
  BY <1>3 DEF Gets
<1> HIDE DEF op, read, sent, got, written, gets, asks
<1>16. read <= sent /\ read + asks > sent
  BY <1>7, <1>8, <1>9, <1>11 DEF read, sent
<1>17. CASE op = "packets" /\ fw.seg > 0
  <2>1. written = got + gets
    BY <1>6, <1>11, <1>16, <1>17
  <2> QED  BY <1>7, <1>8, <1>10, <1>15, <1>17, <2>1
<1>18. CASE op \in {"recv", "size"}
  <2>1. fw.seg = 0
    BY <1>13, <1>18
  <2>2. got <= written
    BY <1>7, <1>8, <1>10, <2>1
  <2>3. written = got + gets
    BY <1>6, <1>11, <1>16, <1>18, <2>2
  <2> QED  BY <1>7, <1>8, <1>10, <1>14, <1>18, <2>1, <2>3
<1> QED  BY <1>12, <1>17, <1>18

LEMMA CleanServes ==
  ASSUME NEW call, FwAlone, LinkTypes, HostTypes, InSession, call = Current, host.clean,
         InStep(call), Starved
  PROVE  Asks(HostStep) <= Len(toHost)
<1>1. Len(toHost) \in Nat /\ Asks(HostStep) \in Nat /\ host.at \in Nat /\ LastStep(call) \in Nat
      /\ HostStep = Steps(call)[host.at] /\ host.at \in 1 .. LastStep(call) /\ IsCall(call)
  BY StepAhead
<1>2. CASE Fresh(call)
  <2>1. host.at = 1
    BY <1>2 DEF Fresh, Starved
  <2>2. HostStep.do = "issue"
    BY <2>1, StepAhead
  <2>3. Asks(HostStep) = 0
    BY <2>2 DEF Asks
  <2> QED  BY <1>1, <2>3
<1>3. CASE Underway(call)
  BY <1>3, UnderwayServes
<1>4. CASE Done(call)
  <2>1. Until(call, LastStep(call)) /\ LastStep(call) \in host.at .. LastStep(call)
    BY <1>1, <1>4 DEF Done
  <2>2. Judges(call, LastStep(call))
    <3>1. Moves(call, LastStep(call))
      BY <1>1, StepMoves
    <3> QED  BY <3>1 DEF Judges, Moves
  <2> QED  BY <2>1, <2>2, AnswerIsThere
<1>5. CASE Failed(call)
  BY <1>5, AnswerIsThere DEF Failed
<1>6. CASE ByteFailed(call)
  <2>1. /\ call.cmd = CMD_SENDBYTE /\ host.at \in 4 .. 6
        /\ Len(toHost) >= IF host.at = 4 THEN 2 ELSE 1
    BY <1>6 DEF ByteFailed
  <2>2. /\ host.at = 4 => HostStep = WaitAck
        /\ host.at = 5 => HostStep = WriteData(1)
        /\ host.at = 6 => HostStep = WaitAck
    BY <1>1, <2>1, SendByteSteps
  <2>3. host.at = 4 \/ host.at = 5 \/ host.at = 6
    BY <2>1
  <2>4. Asks(HostStep) <= 1
    BY <2>2, <2>3, KindFacts, DataFacts
  <2> QED  BY <1>1, <2>1, <2>4
<1> QED  BY <1>2, <1>3, <1>4, <1>5, <1>6 DEF InStep, Phase

\* In a session that began with an idle programmer and lost nothing, the two sides never
\* wait for each other, whatever the target does and wherever a handler fails: the zeros
\* that "preserve communication scheme" (main.cpp:566) are neither too few nor too many
THEOREM NeverBothWait == Spec => []NoMutualWait
<1>1. CleanInv => NoMutualWait
  <2> SUFFICES ASSUME CleanInv, host.clean, MutualWait  PROVE FALSE
    BY DEF NoMutualWait
  <2>1. HostTypes /\ LinkTypes /\ FwAlone /\ Len(toHost) \in Nat
    BY DEF CleanInv, Types, LinkTypes
  <2>2. Starved /\ Wanted > Len(toHost)
    BY DEF MutualWait
  <2>3. InSession /\ Wanted = Asks(HostStep)
    <3>1. ~InSession => Wanted = 0
      BY WantedIsAsked
    <3> QED  BY <2>1, <2>2, <3>1, WantedIsAsked
  <2>4. PICK call : call = Current
    OBVIOUS
  <2>5. InStep(call)
    BY <2>3, <2>4, Zenon DEF CleanInv, CleanInStep
  <2>6. Asks(HostStep) <= Len(toHost) /\ Asks(HostStep) \in Nat
    BY <2>1, <2>2, <2>3, <2>4, <2>5, CleanServes, StepAhead
  <2> QED  BY <2>1, <2>2, <2>3, <2>6
<1> QED  BY <1>1, CleanAlways, PTL

\* Outside of a block the controller never has more bytes under way than a UART of three
\* takes without help: why set_baud sends its four bytes in two halves
\* (FastUPDI.cpp:344-349).  The three are the ATmega2560's (hypothesis).
THEOREM NeverOverrun ==
  ASSUME FifoDepth >= 3
  PROVE  Spec => []NoOverrun
<1>1. CleanInv => NoOverrun
  <2> SUFFICES ASSUME CleanInv, host.clean, ~Armed  PROVE Len(toProg) <= FifoDepth
    BY DEF NoOverrun
  <2>1. HostTypes /\ LinkTypes /\ FwAlone
    BY DEF CleanInv, Types
  <2>2. RoomForAll
    <3>1. CASE InSession
      <4>1. PICK call : call = Current
        OBVIOUS
      <4>2. InStep(call)
        BY <3>1, <4>1, Zenon DEF CleanInv, CleanInStep
      <4> QED  BY <2>1, <3>1, <4>1, <4>2, FewInFlight
    <3>2. CASE ~InSession
      BY <3>2, LeftoversAre DEF CleanInv
    <3> QED  BY <3>1, <3>2
  <2>3. fw.seg \in Nat
    BY <2>1, Fields, Shape DEF FwAlone
  <2>4. At("packets") => fw.seg = 0
    BY <2>3 DEF Armed
  <2>5. Len(toProg) \in Nat
    BY <2>1 DEF LinkTypes
  <2> QED  BY <2>2, <2>4, <2>5, FifoDepthAssumption DEF RoomForAll
<1> QED  BY <1>1, CleanAlways, PTL

-------------------------------------------------------------------------------
(* What may look like the signature *)

\* It holds no byte that could be taken for the signature's first
Quiet(u) == \A i \in 1 .. Len(u) : u[i] # DeviceSignature[1]

\* It is what START sends of its address
Signs(u) ==
  /\ Running /\ fw.cmd = CMD_START /\ fw.step = 10 /\ fw.sigAddr /\ fw'.cmd = CMD_START
  /\ UNCHANGED toProg
  /\ \/ fw'.step = 11 /\ Len(u) = 3
     \/ fw'.step = 0 /\ Len(u) = 4 /\ u[4] = REPL_TIMEOUT

Says == \E u \in Seq(Bytes) : Reply(u) /\ (Quiet(u) \/ Signs(u))

\* The programmer answers with the target's memory
MemoryIsRead == Running /\ fw.cmd \in {CMD_GETBLOCK, CMD_GETBYTE}

Unmistaken == DeviceSignature[1] \in MemoryBytes => ~MemoryIsRead

LEMMA SaysNothing ==
  ASSUME LinkTypes, UNCHANGED toHost
  PROVE  Says
<1>1. Reply(<< >>) /\ << >> \in Seq(Bytes) /\ Len(<< >>) = 0
  BY Silence
<1>2. Quiet(<< >>)
  BY <1>1 DEF Quiet
<1> QED  BY <1>1, <1>2, Zenon DEF Says

LEMMA SaysOne ==
  ASSUME NEW b \in Bytes, b # 30, Reply(<< b >>)
  PROVE  Says
<1>1. << b >> \in Seq(Bytes) /\ Len(<< b >>) = 1 /\ << b >>[1] = b
  BY Single
<1>2. Quiet(<< b >>)
  BY <1>1, SignatureLong DEF Quiet
<1> QED  BY <1>1, <1>2, Zenon DEF Says

\* Zeros, but for a first byte that did not come
Zeros(n, first) == [k \in 1 .. n |-> IF k = 1 THEN first ELSE 0]

LEMMA PaddedIsQuiet ==
  ASSUME NEW n \in Nat, NEW first \in {0, 255}, NEW reply \in FailureReplies,
         Reply(Zeros(n, first) \o << reply >>)
  PROVE  Says
<1> DEFINE s == Zeros(n, first)
<1>1. s \in Seq(Bytes) /\ Len(s) = n /\ \A i \in 1 .. Len(s) : s[i] # 30
  BY DEF Bytes, Zeros
<1>2. reply \in Bytes /\ reply # 30
  BY DEF FailureReplies, Bytes
<1>3. Reply(s \o << reply >>)
  OBVIOUS
<1> HIDE DEF s
<1> DEFINE u == s \o << reply >>
<1>4. u \in Seq(Bytes) /\ Len(u) = n + 1 /\ u[n + 1] = reply /\ \A i \in 1 .. n : u[i] = s[i]
  <2>1. << reply >> \in Seq(Bytes) /\ Len(<< reply >>) = 1 /\ << reply >>[1] = reply
    BY <1>2, Single
  <2>2. << reply >> \in Seq(Bytes) /\ Len(<< reply >>) > 0
    BY <2>1
  <2>3. /\ Len(u) = Len(s) + Len(<< reply >>) /\ u[Len(u)] = << reply >>[Len(<< reply >>)]
        /\ \A i \in 1 .. Len(s) : u[i] = s[i]
    BY <1>1, <2>2, LastOfReply
  <2>4. u \in Seq(Bytes)
    BY <1>1, <2>1
  <2> QED  BY <1>1, <2>1, <2>3, <2>4
<1>5. Reply(u)
  BY <1>3
<1> HIDE DEF u
<1>6. Quiet(u)
  <2> SUFFICES ASSUME NEW i \in 1 .. Len(u)  PROVE u[i] # 30
    BY SignatureLong DEF Quiet
  <2>1. i \in 1 .. n \/ i = n + 1
    BY <1>4
  <2> QED  BY <1>1, <1>2, <1>4, <2>1
<1> QED  BY <1>4, <1>5, <1>6, Zenon DEF Says

LEMMA FailSays ==
  ASSUME FwAlone, NEW reply \in FailureReplies, Fail(reply)
  PROVE  Says
<1>1. fw.toSend \in Nat
  BY Shape, Fields DEF FwAlone
<1>2. Reply([k \in 1 .. fw.toSend |-> 0] \o << reply >>)
  BY DEF Fail
<1>3. [k \in 1 .. fw.toSend |-> 0] = Zeros(fw.toSend, 0)
  BY DEF Zeros
<1>4. Reply(Zeros(fw.toSend, 0) \o << reply >>)
  BY <1>2, <1>3
<1> QED  BY <1>1, <1>4, PaddedIsQuiet

LEMMA TalkToTargetSays ==
  ASSUME FwAlone, LinkTypes, TalkToTarget
  PROVE  Says
<1>1. At("updi") \/ At("slow")
  BY DEF TalkToTarget
<1>2. Step.op \in {"updi", "slow"} /\ Step = Handlers[fw.cmd][fw.step] /\ OpFields(fw.cmd, fw.step)
  BY <1>1, HereIs
<1>3. ASSUME NEW kind \in Step.faults \ {"masked"}, Fail(ReplyFor[kind])
      PROVE  Says
  <2>1. kind \in Failures
    BY <1>2 DEF OpFields
  <2>2. ReplyFor[kind] \in FailureReplies
    BY <2>1, RepliesAreBytes
  <2> QED  BY <1>3, <2>2, FailSays
<1>4. UNCHANGED toHost \/ \E kind \in Step.faults \ {"masked"} : Fail(ReplyFor[kind])
  BY DEF TalkToTarget
<1> QED  BY <1>3, <1>4, SaysNothing

LEMMA StreamByteSays ==
  ASSUME FwAlone, LinkTypes, StreamByte, Unmistaken
  PROVE  Says
<1>1. fw.toSend \in Nat
  BY Shape, Fields DEF FwAlone
<1>m. 30 \notin MemoryBytes
  <2>1. At("stream") /\ Running
    BY DEF StreamByte, At
  <2>2. fw.cmd = CMD_GETBLOCK
    BY <2>1, HereIs DEF OpPlaces
  <2> QED  BY <2>1, <2>2, SignatureLong DEF Unmistaken, MemoryIsRead
<1>2. ASSUME NEW b \in MemoryBytes, Reply(<< b >>)  PROVE Says
  <2>1. b \in Bytes /\ b # 30
    BY <1>m, MemoryAssumption DEF Bytes
  <2> QED  BY <1>2, <2>1, SaysOne
<1>3. REPL_UPDIRXERR \in FailureReplies /\ REPL_TIMEOUT \in FailureReplies
  BY DEF FailureReplies
<1>4. Fail(REPL_UPDIRXERR) => Says
  BY <1>3, FailSays
<1>5. Reply([k \in 1 .. fw.toSend |-> IF k = 1 THEN 255 ELSE 0] \o <<REPL_TIMEOUT>>) => Says
  <2> SUFFICES ASSUME Reply([k \in 1 .. fw.toSend |-> IF k = 1 THEN 255 ELSE 0] \o <<REPL_TIMEOUT>>)
               PROVE  Says
    OBVIOUS
  <2>1. Reply(Zeros(fw.toSend, 255) \o << REPL_TIMEOUT >>)
    BY DEF Zeros
  <2>2. 255 \in {0, 255}
    OBVIOUS
  <2> QED  BY <1>1, <1>3, <2>1, <2>2, PaddedIsQuiet
<1>6. \/ \E b \in MemoryBytes : Reply(<< b >>)
      \/ Fail(REPL_UPDIRXERR)
      \/ Reply([k \in 1 .. fw.toSend |-> IF k = 1 THEN 255 ELSE 0] \o <<REPL_TIMEOUT>>)
  BY Zenon DEF StreamByte
<1> QED  BY <1>2, <1>4, <1>5, <1>6, Zenon

LEMMA ErasePageSays ==
  ASSUME FwAlone, LinkTypes, ErasePage
  PROVE  Says
<1>1. REPL_ACK \in Bytes /\ REPL_ACK # 30
  BY DEF Bytes
<1>2. ASSUME NEW kind \in {"noack", "timeout"}, Fail(ReplyFor[kind])
      PROVE  Says
  <2>1. kind \in Failures
    BY DEF Failures
  <2>2. ReplyFor[kind] \in FailureReplies
    BY <2>1, RepliesAreBytes
  <2> QED  BY <1>2, <2>2, FailSays
<1>3. Reply(<< REPL_ACK >>) => Says
  BY <1>1, SaysOne
<1> QED  BY <1>2, <1>3 DEF ErasePage

\* A byte of a fetch, and perhaps the timeout after it
LEMMA SaysFetched ==
  ASSUME NEW b \in Bytes, b # 30, Reply(<< b >>) \/ Reply(<< b >> \o << REPL_TIMEOUT >>)
  PROVE  Says
<1>1. CASE Reply(<< b >>)
  BY <1>1, SaysOne
<1>2. CASE Reply(<< b >> \o << REPL_TIMEOUT >>)
  <2> DEFINE u == << b >> \o << REPL_TIMEOUT >>
  <2>1. u \in Seq(Bytes) /\ Len(u) = 2 /\ u[1] = b /\ u[2] = REPL_TIMEOUT
    BY DEF Bytes
  <2>2. Reply(u)
    BY <1>2
  <2> HIDE DEF u
  <2>3. Quiet(u)
    BY <2>1, SignatureLong DEF Quiet
  <2> QED  BY <2>1, <2>2, <2>3, Zenon DEF Says
<1> QED  BY <1>1, <1>2

LEMMA FetchFromTargetSays ==
  ASSUME FwAlone, LinkTypes, FetchFromTarget, Unmistaken
  PROVE  Says
<1>1. /\ Running /\ Step.op = "fetch" /\ Step = Handlers[fw.cmd][fw.step] /\ fw \in FwShape
      /\ OpFields(fw.cmd, fw.step) /\ fw.step \in Nat
  BY HereIs DEF FetchFromTarget
<1>2. UNCHANGED toProg
  BY DEF FetchFromTarget
<1>3. \/ Step.what = "status" /\ fw.cmd = CMD_START /\ fw.step = 4
      \/ Step.what = "signature" /\ fw.cmd = CMD_START /\ fw.step = 10
      \/ Step.what = "byte" /\ fw.cmd = CMD_GETBYTE /\ fw.step = 5
  BY <1>1 DEF OpFields
<1>4. \/ \E bytes \in Garbage(Step.what) : /\ Reply(bytes)
                                            /\ fw' = [Advance EXCEPT !.toSend = 0]
      \/ Reply(<< 1 >>)
      \/ \E bytes \in Garbage(Step.what) : /\ Reply(bytes \o << REPL_TIMEOUT >>)
                                            /\ Leave(REPL_TIMEOUT)
  BY FetchedIsGarbage, Zenon DEF FetchFromTarget
<1>5. Reply(<< 1 >>) => Says
  BY SaysOne DEF Bytes
<1>6. CASE Step.what = "status"
  <2>1. Garbage(Step.what) = {<< 0 >>, << 255 >>}
    BY <1>6 DEF Garbage, Fetched
  <2>2. ASSUME NEW b \in {0, 255}, Reply(<< b >>) \/ Reply(<< b >> \o << REPL_TIMEOUT >>)
        PROVE  Says
    <3>1. b \in Bytes /\ b # 30
      BY DEF Bytes
    <3> QED  BY <2>2, <3>1, SaysFetched
  <2>3. ASSUME NEW bytes \in Garbage(Step.what),
               Reply(bytes) \/ Reply(bytes \o << REPL_TIMEOUT >>)
        PROVE  Says
    <3>1. PICK b \in {0, 255} : bytes = << b >>
      BY <2>1
    <3> QED  BY <2>2, <2>3, <3>1, Zenon
  <2> QED  BY <1>4, <1>5, <2>3, Zenon
<1>7. CASE Step.what = "byte"
  <2>1. Garbage(Step.what) = {<< b >> : b \in MemoryBytes} \cup {<< 255 >>}
    BY <1>7 DEF Garbage, Fetched
  <2>2. ASSUME NEW b \in MemoryBytes \cup {255},
               Reply(<< b >>) \/ Reply(<< b >> \o << REPL_TIMEOUT >>)
        PROVE  Says
    <3>0. 30 \notin MemoryBytes
      BY <1>1, <1>3, <1>7, SignatureLong DEF Unmistaken, MemoryIsRead
    <3>1. b \in Bytes /\ b # 30
      BY <3>0, MemoryAssumption DEF Bytes
    <3> QED  BY <2>2, <3>1, SaysFetched
  <2>3. ASSUME NEW bytes \in Garbage(Step.what),
               Reply(bytes) \/ Reply(bytes \o << REPL_TIMEOUT >>)
        PROVE  Says
    <3>1. \E b \in MemoryBytes \cup {255} : bytes = << b >>
      BY <2>1, Zenon
    <3>2. PICK b \in MemoryBytes \cup {255} : bytes = << b >>
      BY <3>1
    <3> QED  BY <2>2, <2>3, <3>2, Zenon
  <2> QED  BY <1>4, <1>5, <2>3, Zenon
<1>8. CASE Step.what = "signature"
  <2>1. fw.cmd = CMD_START /\ fw.step = 10
    BY <1>3, <1>8
  <2>2. \A bytes \in Garbage(Step.what) : bytes = OtherBytes \/ (fw.sigAddr /\ bytes = Signature)
    BY <1>8 DEF Garbage, Fetched
  <2>3. ASSUME NEW bytes \in Garbage(Step.what), bytes = OtherBytes,
               Reply(bytes) \/ Reply(bytes \o << REPL_TIMEOUT >>)
        PROVE  Says
    <3>1. CASE Reply(bytes)
      <4>1. OtherBytes \in Seq(Bytes) /\ Quiet(OtherBytes)
        BY SignatureLong DEF OtherBytes, Quiet, Bytes
      <4> QED  BY <2>3, <3>1, <4>1, Zenon DEF Says
    <3>2. CASE Reply(bytes \o << REPL_TIMEOUT >>)
      <4> DEFINE u == OtherBytes \o << REPL_TIMEOUT >>
      <4>1. u \in Seq(Bytes) /\ Len(u) = 4
            /\ u[1] = 255 /\ u[2] = 255 /\ u[3] = 255 /\ u[4] = REPL_TIMEOUT
        BY DEF OtherBytes, Bytes
      <4>2. Reply(u)
        BY <2>3, <3>2
      <4> HIDE DEF u
      <4>3. Quiet(u)
        BY <4>1, SignatureLong DEF Quiet
      <4> QED  BY <4>1, <4>2, <4>3, Zenon DEF Says
    <3> QED  BY <2>3, <3>1, <3>2
  <2>4. ASSUME fw.sigAddr, Reply(Signature), fw' = [Advance EXCEPT !.toSend = 0]
        PROVE  Says
    <3>1. fw'.step = 11 /\ fw'.cmd = CMD_START
      BY <1>1, <2>1, <2>4 DEF Advance, Goto, FwShape
    <3>2. Signature \in Seq(Bytes) /\ Len(Signature) = 3
      BY DEF Signature, Bytes
    <3>3. Signs(Signature)
      BY <1>1, <1>2, <2>1, <2>4, <3>1, <3>2 DEF Signs
    <3> QED  BY <2>4, <3>2, <3>3, Zenon DEF Says
  <2>5. ASSUME fw.sigAddr, Reply(Signature \o << REPL_TIMEOUT >>), Leave(REPL_TIMEOUT)
        PROVE  Says
    <3> DEFINE u == Signature \o << REPL_TIMEOUT >>
    <3>1. u \in Seq(Bytes) /\ Len(u) = 4 /\ u[4] = REPL_TIMEOUT
      BY DEF Signature, Bytes
    <3>2. Reply(u)
      BY <2>5
    <3> HIDE DEF u
    <3>3. fw'.step = 0 /\ fw'.cmd = CMD_START
      BY <1>1, <2>1, <2>5, Leaves DEF Left
    <3>4. Signs(u)
      BY <1>1, <1>2, <2>1, <2>5, <3>1, <3>3 DEF Signs
    <3> QED  BY <3>1, <3>2, <3>4, Zenon DEF Says
  <2>6. ASSUME NEW bytes \in Garbage(Step.what), Reply(bytes), fw' = [Advance EXCEPT !.toSend = 0]
        PROVE  Says
    BY <2>2, <2>3, <2>4, <2>6, Zenon
  <2>7. ASSUME NEW bytes \in Garbage(Step.what), Reply(bytes \o << REPL_TIMEOUT >>), Leave(REPL_TIMEOUT)
        PROVE  Says
    BY <2>2, <2>3, <2>5, <2>7, Zenon
  <2> QED  BY <1>4, <1>5, <2>6, <2>7, Zenon
<1> QED  BY <1>3, <1>6, <1>7, <1>8, Zenon

\* The first byte of the signature comes from START alone, if no memory is read that holds it
LEMMA FwSays ==
  ASSUME FwAlone, LinkTypes, FwNext, Unmistaken
  PROVE  Says
<1>1. SetPadding \/ StreamEnd \/ EraseEnd \/ SetNvmWrite => Says
  BY SaysNothing DEF SetPadding, StreamEnd, EraseEnd, SetNvmWrite, linkVars
<1>2. ReceiveArgument \/ ReceiveSize \/ ForwardByte \/ EndPackets \/ WaitNotBusy => Says
  BY SaysNothing DEF ReceiveArgument, ReceiveSize, ForwardByte, EndPackets, WaitNotBusy
<1>3. /\ REPL_ACK \in Bytes /\ REPL_ACK # 30 /\ REPL_OK \in Bytes /\ REPL_OK # 30
      /\ REPL_INVALID \in Bytes /\ REPL_INVALID # 30
  BY DEF Bytes
<1>4. SendAck \/ AskForSegment => Says
  BY <1>3, SaysOne DEF SendAck, AskForSegment
<1>5. ReplyOk => Says
  BY <1>3, SaysOne DEF ReplyOk
<1>6. ReceiveCommand => Says
  BY <1>3, SaysOne, SaysNothing DEF ReceiveCommand
<1>7. /\ TalkToTarget => Says
      /\ FetchFromTarget => Says
      /\ StreamByte => Says
      /\ ErasePage => Says
  BY TalkToTargetSays, FetchFromTargetSays, StreamByteSays, ErasePageSays, Zenon
<1> QED  BY <1>1, <1>2, <1>4, <1>5, <1>6, <1>7, Zenon DEF FwNext

-------------------------------------------------------------------------------
(* The steps of START *)

\* The programmer reads from the front
LEMMA FwDrops ==
  ASSUME FwAlone, LinkTypes, FwNext
  PROVE  \E k \in 0 .. Len(toProg) :
           /\ Len(toProg') = Len(toProg) - k
           /\ \A i \in 1 .. Len(toProg') : i + k \in 1 .. Len(toProg) /\ toProg'[i] = toProg[i + k]
<1>1. Len(toProg) \in Nat /\ toProg \in Seq(Sending)
  BY DEF LinkTypes
<1> DEFINE Drops == \E k \in 0 .. Len(toProg) :
           /\ Len(toProg') = Len(toProg) - k
           /\ \A i \in 1 .. Len(toProg') : i + k \in 1 .. Len(toProg) /\ toProg'[i] = toProg[i + k]
<1>2. ASSUME NEW n \in 0 .. Len(toProg), toProg' = SubSeq(toProg, n + 1, Len(toProg))
      PROVE  Drops
  <2>1. /\ Len(toProg') = Len(toProg) - n
        /\ \A i \in 1 .. Len(toProg') : i + n \in 1 .. Len(toProg) /\ toProg'[i] = toProg[i + n]
    BY <1>1, <1>2
  <2> QED  BY <2>1
<1>3. toProg # << >> /\ toProg' = Tail(toProg) => Drops
  <2> SUFFICES ASSUME toProg # << >>, toProg' = Tail(toProg)  PROVE Drops
    OBVIOUS
  <2>1. /\ Len(toProg) >= 1 /\ Len(toProg') = Len(toProg) - 1
        /\ \A i \in 1 .. Len(toProg') : i + 1 \in 1 .. Len(toProg) /\ toProg'[i] = toProg[i + 1]
    BY <1>1
  <2>2. 1 \in 0 .. Len(toProg)
    BY <1>1, <2>1
  <2> QED  BY <2>1, <2>2, Zenon
<1>4. UNCHANGED toProg => Drops
  <2> SUFFICES ASSUME UNCHANGED toProg  PROVE Drops
    OBVIOUS
  <2>1. /\ Len(toProg') = Len(toProg) - 0
        /\ \A i \in 1 .. Len(toProg') : i + 0 \in 1 .. Len(toProg) /\ toProg'[i] = toProg[i + 0]
    BY <1>1
  <2>2. 0 \in 0 .. Len(toProg)
    BY <1>1
  <2> QED  BY <2>1, <2>2, Zenon
<1> HIDE DEF Drops
<1>5. /\ Begins \/ Rejects \/ TakesOne \/ ForwardsOne => Drops
      /\ \A size \in 0 .. MaxSize : TakesLast(size) => Drops
  BY <1>3, Zenon DEF Begins, Rejects, TakesOne, ForwardsOne, TakesLast
<1>6. Finishes \/ ErasesOne => Drops
  BY <1>4, Zenon DEF Finishes, ErasesOne
<1>7. /\ \A u \in Seq(Bytes) : Onward(u) \/ Fails(u) => Drops
      /\ \A b \in MemoryBytes : Streams(b) => Drops
      /\ \A n \in Nat : AsksFor(n) => Drops
  BY <1>4, Zenon DEF Onward, Fails, Streams, AsksFor
<1>8. \A n \in Nat : PacketsEnd(n) => Drops
  BY <1>2, Zenon DEF PacketsEnd
<1>9. Drops
  BY <1>5, <1>6, <1>7, <1>8, FwActs, Zenon
<1> QED  BY <1>9 DEF Drops

\* START waits for its address in its seventh step, and for nothing else
LEMMA StartPlaces ==
  ASSUME FwAlone, Running, fw.cmd = CMD_START
  PROVE  /\ fw.step \in 1 .. 11 /\ fw.step \in Nat /\ Gets(fw.cmd, fw.step) \in Nat
         /\ Step.op \notin {"size", "packets", "stream", "erase"}
         /\ Step.op = "recv" <=> fw.step = 7
         /\ Step.op = "ok" <=> fw.step = 11
         /\ fw.step = 7 => Gets(fw.cmd, fw.step) = 3 /\ Step.n = 3
<1>1. Step = Handlers[CMD_START][fw.step] /\ fw.step \in 1 .. 11
  BY Here, StartOps DEF Step
<1> DEFINE s == fw.step
<1>2. s \in 1 .. 11 /\ Step = Handlers[CMD_START][s]
  BY <1>1
<1> HIDE DEF s
<1>3. Step.op = "recv" <=> s = 7
  <2>1. Recv(3).op = "recv" /\ Ack.op = "ack" /\ Pad(1).op = "pad" /\ Pad(3).op = "pad" /\ Ok.op = "ok"
    BY OpFacts
  <2>2. /\ Updi({"timeout"}).op = "updi" /\ TargetAck.op = "updi" /\ Slow({"timeout"}).op = "slow"
        /\ Fetch("status", {"timeout", "badstatus"}).op = "fetch"
        /\ Fetch("signature", {"timeout"}).op = "fetch"
    BY DEF TargetAck, Updi, Slow, Fetch
  <2>3. CASE s = 7
    BY <1>2, <2>1, <2>3, StartOps
  <2>4. CASE s # 7
    <3>1. s \in {1, 2, 3, 4, 5, 6, 8, 9, 10, 11}
      BY <1>2, <2>4
    <3>2. s \in {1, 6} => Step.op = "ack"
      BY <1>2, <2>1, StartOps
    <3>3. s \in {2, 8} => Step.op = "pad"
      BY <1>2, <2>1, StartOps
    <3>4. s \in {3, 9} => Step.op = "updi"
      BY <1>2, <2>2, StartOps
    <3>5. s \in {4, 10} => Step.op = "fetch"
      BY <1>2, <2>2, StartOps
    <3>6. s = 5 => Step.op = "slow"
      BY <1>2, <2>2, StartOps
    <3>7. s = 11 => Step.op = "ok"
      BY <1>2, <2>1, StartOps
    <3> QED  BY <2>4, <3>1, <3>2, <3>3, <3>4, <3>5, <3>6, <3>7
  <2> QED  BY <2>3, <2>4
<1>4. s = 7 => Step.n = 3
  BY <1>2, StartOps, OpFacts
<1>5. /\ Step.op \notin {"size", "packets", "stream", "erase"}
      /\ Step.op = "ok" <=> s = 11
  <2>1. OpPlaces(fw.cmd, fw.step) /\ LastOp(CMD_START) = 11 /\ Step = Handlers[fw.cmd][fw.step]
    BY Here, StartOps
  <2> QED  BY <2>1 DEF OpPlaces, s
<1>6. Gets(fw.cmd, fw.step) \in Nat
  BY AtStep, GetsFew DEF FwAlone
<1>7. s = 7 => Gets(fw.cmd, fw.step) = 3
  BY <1>3, <1>4, ArgsHeld DEF s
<1> QED  BY <1>1, <1>3, <1>4, <1>5, <1>6, <1>7 DEF s

\* Whether the address is the signature's is decided when it has come
LEMMA SigAddrStays ==
  ASSUME FwAlone, LinkTypes, FwNext, ~At("recv")
  PROVE  fw'.sigAddr = fw.sigAddr
<1>1. fw \in FwShape
  BY Shape DEF FwAlone
<1> DEFINE Same == fw'.sigAddr = fw.sigAddr
<1>2. ASSUME NEW reply, Leave(reply)  PROVE Same
  BY <1>1, <1>2 DEF Leave, FwShape
<1>12. fw' = Advance => Same
  BY <1>1 DEF Advance, Goto, FwShape
<1>13. fw' = [Advance EXCEPT !.masked = TRUE] => Same
  BY <1>1 DEF Advance, Goto, FwShape
<1>14. \A n : fw' = [Advance EXCEPT !.toSend = n] => Same
  BY <1>1 DEF Advance, Goto, FwShape
<1>15. \A b : fw' = [Advance EXCEPT !.nvmWrite = b] => Same
  BY <1>1 DEF Advance, Goto, FwShape
<1>16. \A n : \/ fw' = [fw EXCEPT !.toSend = n]
              \/ fw' = [fw EXCEPT !.left = n]
              \/ fw' = [fw EXCEPT !.seg = n]
              \/ fw' = [fw EXCEPT !.args = n]
              => Same
  BY <1>1 DEF FwShape
<1>17. \A n, m : fw' = [fw EXCEPT !.seg = n, !.left = m] => Same
  BY <1>1 DEF FwShape
<1>18. \A a, l, n : fw' = [Advance EXCEPT !.args = a, !.left = l, !.toSend = n] => Same
  BY <1>1 DEF Advance, Goto, FwShape
<1>3. SendAck \/ SetPadding \/ StreamEnd \/ EraseEnd \/ SetNvmWrite \/ EndPackets => Same
  BY <1>12, <1>14, <1>15, Zenon DEF SendAck, SetPadding, StreamEnd, EraseEnd, SetNvmWrite, EndPackets
<1>4. ReceiveSize \/ AskForSegment \/ ForwardByte \/ WaitNotBusy => Same
  <2>1. ForwardByte => Same
    BY <1>16 DEF ForwardByte
  <2>2. WaitNotBusy => Same
    BY <1>12, <1>13, Zenon DEF WaitNotBusy
  <2>3. AskForSegment => Same
    BY <1>17 DEF AskForSegment
  <2>4. ReceiveSize => Same
    <3>1. SUFFICES ASSUME ReceiveSize  PROVE Same
      OBVIOUS
    <3>2. CASE fw.args = << >>
      BY <1>16, <3>1, <3>2 DEF ReceiveSize
    <3>3. CASE fw.args # << >>
      <4> DEFINE size == SizeOf(fw.args[1], Head(toProg).val)
                 left == IF Step.into = "left" THEN size ELSE fw.left
                 owed == IF Step.into = "toSend" THEN size ELSE fw.toSend
      <4>1. fw' = [Advance EXCEPT !.args = << >>,
                                  !.left = IF Step.into = "left" THEN size ELSE @,
                                  !.toSend = IF Step.into = "toSend" THEN size ELSE @]
        BY <3>1, <3>3, Zenon DEF ReceiveSize
      <4> HIDE DEF size
      <4>2. Advance.left = fw.left /\ Advance.toSend = fw.toSend
        BY <1>1 DEF Advance, Goto, FwShape
      <4>3. fw' = [Advance EXCEPT !.args = << >>, !.left = left, !.toSend = owed]
        BY <4>1, <4>2
      <4> HIDE DEF left, owed
      <4> QED  BY <1>18, <4>3, Zenon
    <3> QED  BY <3>2, <3>3
  <2> QED  BY <2>1, <2>2, <2>3, <2>4
<1>5. ReceiveCommand \/ ReplyOk => Same
  <2>1. ReplyOk => Same
    BY <1>1 DEF ReplyOk, FwShape
  <2>2. UNCHANGED fw => Same
    OBVIOUS
  <2>3. \A c, a, n : fw' = [fw EXCEPT !.cmd = c, !.step = 1, !.args = << >>, !.masked = FALSE,
                                      !.astray = a, !.nvmWrite = n] => Same
    BY <1>1 DEF FwShape
  <2>4. ReceiveCommand => Same
    <3> DEFINE b == Head(toProg)
               judge == Judge(b)
               write == fw.nvmWrite /\ b.val # CMD_START
               code == b.val
    <3>1. fw' = [fw EXCEPT !.cmd = b.val, !.step = 1, !.args = << >>,
                           !.masked = FALSE, !.astray = Judge(b),
                           !.nvmWrite = @ /\ b.val # CMD_START] => Same
      <4>1. SUFFICES ASSUME fw' = [fw EXCEPT !.cmd = code, !.step = 1, !.args = << >>,
                                             !.masked = FALSE, !.astray = judge, !.nvmWrite = write]
                     PROVE  Same
        OBVIOUS
      <4> HIDE DEF b, judge, write, code
      <4> QED  BY <2>3, <4>1, Zenon
    <3> QED  BY <2>2, <3>1, Zenon DEF ReceiveCommand
  <2> QED  BY <2>1, <2>4
<1>6. fw' = Advance \/ fw' = [Advance EXCEPT !.masked = TRUE] \/ fw' = [Advance EXCEPT !.toSend = 0]
        => Same
  BY <1>12, <1>13, <1>14, Zenon
<1>7. TalkToTarget => Same
  BY <1>2, <1>6, Zenon DEF TalkToTarget, Fail
<1>8. FetchFromTarget => Same
  BY <1>2, <1>6, Zenon DEF FetchFromTarget
<1>9. fw' = [fw EXCEPT !.toSend = @ - 1] \/ fw' = [fw EXCEPT !.left = @ - 1]
        => Same
  BY <1>1 DEF FwShape
<1>10. StreamByte \/ ErasePage => Same
  BY <1>2, <1>9, Zenon DEF StreamByte, ErasePage, Fail
<1>11. ~ReceiveArgument
  BY DEF ReceiveArgument
<1> HIDE DEF Same
<1>19. Same
  BY <1>3, <1>4, <1>5, <1>7, <1>8, <1>10, <1>11, Zenon DEF FwNext
<1> QED  BY <1>19 DEF Same

LEMMA SigAddrTaken ==
  ASSUME FwAlone, LinkTypes, FwNext, At("recv"), Len(fw.args) + 1 = Step.n
  PROVE  fw'.sigAddr <=> Append(fw.args, Head(toProg).val) = SigAddress
<1>1. fw \in FwShape /\ fw.args \in Seq(Bytes)
  BY Shape, Fields DEF FwAlone
<1>2. ReceiveArgument
  <2>1. Running /\ Step.op = "recv"
    BY DEF At
  <2> QED
    BY <2>1 DEF FwNext, ReceiveCommand, SendAck, SetPadding, ReceiveSize, TalkToTarget,
                FetchFromTarget, StreamByte, StreamEnd, AskForSegment, ForwardByte, EndPackets,
                ErasePage, EraseEnd, WaitNotBusy, SetNvmWrite, ReplyOk, At
<1> DEFINE args == Append(fw.args, Head(toProg).val)
<1>3. toProg # << >> /\ Head(toProg).val \in Bytes
  BY <1>2, TailTypes DEF ReceiveArgument
<1>4. Len(args) = Step.n /\ Len(args) \in Nat
  BY <1>1, <1>3
<1>5. fw' = IF Len(args) < Step.n
              THEN [fw EXCEPT !.args = args]
              ELSE [Advance EXCEPT !.args = << >>, !.sigAddr = args = SigAddress]
  BY <1>2 DEF ReceiveArgument
<1> HIDE DEF args
<1>6. fw' = [Advance EXCEPT !.args = << >>, !.sigAddr = args = SigAddress]
  BY <1>4, <1>5
<1>7. "sigAddr" \in DOMAIN Advance
  BY <1>1 DEF Advance, Goto, FwShape
<1> DEFINE is == args = SigAddress
<1>8. fw' = [Advance EXCEPT !.args = << >>, !.sigAddr = is]
  BY <1>6
<1> HIDE DEF is
<1>9. fw'.sigAddr = is
  BY <1>7, <1>8
<1>10. fw'.sigAddr <=> args = SigAddress
  BY <1>9, Zenon DEF is
<1> QED  BY <1>10 DEF args

\* How a START comes to wait for its address
LEMMA ToAddress ==
  ASSUME FwAlone, LinkTypes, FwNext, Running', fw'.cmd = CMD_START, fw'.step = 7
  PROVE  \/ /\ Running /\ fw.cmd = CMD_START /\ fw.step = 7 /\ toProg # << >>
            /\ toProg' = Tail(toProg) /\ UNCHANGED toHost
            /\ fw'.args = Append(fw.args, Head(toProg).val)
         \/ fw'.args = << >> /\ UNCHANGED toProg
<1> DEFINE Waits == \/ /\ Running /\ fw.cmd = CMD_START /\ fw.step = 7 /\ toProg # << >>
                       /\ toProg' = Tail(toProg) /\ UNCHANGED toHost
                       /\ fw'.args = Append(fw.args, Head(toProg).val)
                    \/ fw'.args = << >> /\ UNCHANGED toProg
<1>1. ~Begins /\ ~Finishes /\ ~Rejects /\ \A u \in Seq(Bytes) : ~Fails(u)
  BY DEF Begins, Finishes, Rejects, Fails, Left, Running
<1>2. TakesOne => Waits
  BY DEF TakesOne, Effect
<1>3. ASSUME ForwardsOne \/ ErasesOne \/ (\E b \in MemoryBytes : Streams(b)) \/ (\E n \in Nat : AsksFor(n))
      PROVE  Waits
  <2>1. Running /\ Step.op \in {"packets", "erase", "stream"} /\ fw'.cmd = fw.cmd
    <3>1. ForwardsOne \/ (\E n \in Nat : AsksFor(n)) => Running /\ Step.op = "packets" /\ fw'.cmd = fw.cmd
      BY Zenon DEF ForwardsOne, AsksFor, Effect
    <3>2. ErasesOne => Running /\ Step.op = "erase" /\ fw'.cmd = fw.cmd
      BY Zenon DEF ErasesOne, Effect
    <3>3. (\E b \in MemoryBytes : Streams(b)) => Running /\ Step.op = "stream" /\ fw'.cmd = fw.cmd
      BY Zenon DEF Streams, Effect
    <3> QED  BY <1>3, <3>1, <3>2, <3>3
  <2> QED  BY <2>1, StartPlaces
<1>4. ASSUME NEW u \in Seq(Bytes), Onward(u)  PROVE Waits
  <2>1. Running /\ Step.op # "recv" /\ Step.op # "size" /\ fw'.args = fw.args /\ UNCHANGED toProg
    BY <1>4 DEF Onward, Effect
  <2>2. fw.args = << >>
    BY <2>1, HeldHere
  <2> QED  BY <2>1, <2>2
<1>5. ASSUME NEW size \in 0 .. MaxSize, TakesLast(size)  PROVE Waits
  <2>1. Running /\ Step.op \in {"recv", "size"} /\ fw'.cmd = fw.cmd /\ fw'.step = fw.step + 1
    BY <1>5 DEF TakesLast, Effect
  <2>2. fw.step \in Nat /\ fw.step = 7
    BY <2>1, StartPlaces
  <2> QED  BY <2>1, <2>2
<1>6. ASSUME NEW n \in Nat, PacketsEnd(n)  PROVE Waits
  <2>1. Running /\ Step.op = "packets" /\ fw'.cmd = fw.cmd
    BY <1>6 DEF PacketsEnd, Effect
  <2> QED  BY <2>1, StartPlaces
<1> HIDE DEF Waits
<1>7. Waits
  BY <1>1, <1>2, <1>3, <1>4, <1>5, <1>6, FwActs, Zenon
<1> QED  BY <1>7 DEF Waits

\* How a START comes to look for the signature
LEMMA ToSignature ==
  ASSUME FwAlone, LinkTypes, FwNext, InSignature'
  PROVE  \/ InSignature /\ UNCHANGED toProg /\ fw'.sigAddr = fw.sigAddr
         \/ /\ Running /\ fw.cmd = CMD_START /\ fw.step = 7 /\ Len(fw.args) = 2
            /\ toProg # << >> /\ toProg' = Tail(toProg)
            /\ fw'.sigAddr <=> Append(fw.args, Head(toProg).val) = SigAddress
<1> DEFINE Looks == \/ InSignature /\ UNCHANGED toProg /\ fw'.sigAddr = fw.sigAddr
                    \/ /\ Running /\ fw.cmd = CMD_START /\ fw.step = 7 /\ Len(fw.args) = 2
                       /\ toProg # << >> /\ toProg' = Tail(toProg)
                       /\ fw'.sigAddr <=> Append(fw.args, Head(toProg).val) = SigAddress
<1>0. fw'.step \in 8 .. 10 /\ fw'.cmd = CMD_START /\ Running'
  BY DEF InSignature
<1>1. ~Begins /\ ~Finishes /\ ~Rejects /\ \A u \in Seq(Bytes) : ~Fails(u)
  BY <1>0 DEF Begins, Finishes, Rejects, Fails, Left, Running
<1>2. ASSUME TakesOne  PROVE Looks
  <2>1. Running /\ Step.op \in {"recv", "size"} /\ fw'.cmd = fw.cmd /\ fw'.step = fw.step
    BY <1>2 DEF TakesOne, Effect
  <2> QED  BY <1>0, <2>1, StartPlaces
<1>3. ASSUME ForwardsOne \/ ErasesOne \/ (\E b \in MemoryBytes : Streams(b)) \/ (\E n \in Nat : AsksFor(n))
      PROVE  Looks
  <2>1. Running /\ Step.op \in {"packets", "erase", "stream"} /\ fw'.cmd = fw.cmd
    <3>1. ForwardsOne \/ (\E n \in Nat : AsksFor(n)) => Running /\ Step.op = "packets" /\ fw'.cmd = fw.cmd
      BY Zenon DEF ForwardsOne, AsksFor, Effect
    <3>2. ErasesOne => Running /\ Step.op = "erase" /\ fw'.cmd = fw.cmd
      BY Zenon DEF ErasesOne, Effect
    <3>3. (\E b \in MemoryBytes : Streams(b)) => Running /\ Step.op = "stream" /\ fw'.cmd = fw.cmd
      BY Zenon DEF Streams, Effect
    <3> QED  BY <1>3, <3>1, <3>2, <3>3
  <2> QED  BY <1>0, <2>1, StartPlaces
<1>4. ASSUME NEW u \in Seq(Bytes), Onward(u)  PROVE Looks
  <2>1. Running /\ Step.op # "recv" /\ fw'.cmd = fw.cmd /\ fw'.step = fw.step + 1 /\ UNCHANGED toProg
    BY <1>4 DEF Onward, Effect
  <2>2. fw.step \in Nat /\ fw.step \in 8 .. 10 /\ fw.cmd = CMD_START
    BY <1>0, <2>1, StartPlaces
  <2>3. fw'.sigAddr = fw.sigAddr
    BY <2>1, SigAddrStays DEF At
  <2> QED  BY <2>1, <2>2, <2>3 DEF InSignature
<1>5. ASSUME NEW size \in 0 .. MaxSize, TakesLast(size)  PROVE Looks
  <2>1. /\ Running /\ Step.op \in {"recv", "size"} /\ fw'.cmd = fw.cmd
        /\ toProg # << >> /\ toProg' = Tail(toProg) /\ Len(fw.args) + 1 = Gets(fw.cmd, fw.step)
    BY <1>5 DEF TakesLast, Effect
  <2>2. fw.cmd = CMD_START /\ fw.step = 7 /\ Step.op = "recv" /\ Gets(fw.cmd, fw.step) = 3 /\ Step.n = 3
    BY <1>0, <2>1, StartPlaces
  <2>3. Len(fw.args) \in Nat
    BY <2>1, ArgsHeld
  <2>4. fw'.sigAddr <=> Append(fw.args, Head(toProg).val) = SigAddress
    BY <2>1, <2>2, SigAddrTaken DEF At
  <2>5. Len(fw.args) = 2
    <3> DEFINE l == Len(fw.args)
    <3>1. l + 1 = 3 /\ l \in Nat
      BY <2>1, <2>2, <2>3, Zenon
    <3> HIDE DEF l
    <3>2. l = 2
      BY <3>1
    <3> QED  BY <3>2 DEF l
  <2> QED  BY <2>1, <2>2, <2>4, <2>5, Zenon
<1>6. ASSUME NEW n \in Nat, PacketsEnd(n)  PROVE Looks
  <2>1. Running /\ Step.op = "packets" /\ fw'.cmd = fw.cmd
    BY <1>6 DEF PacketsEnd, Effect
  <2> QED  BY <1>0, <2>1, StartPlaces
<1> HIDE DEF Looks
<1>7. Looks
  BY <1>1, <1>2, <1>3, <1>4, <1>5, <1>6, FwActs, Zenon
<1> QED  BY <1>7 DEF Looks

\* A START that has sent the signature is performed next
LEMMA ClosingFinishes ==
  ASSUME FwAlone, LinkTypes, FwNext, Closing
  PROVE  /\ Finishes /\ Reply(<< REPL_OK >>) /\ UNCHANGED toProg
         /\ ~Running' /\ Synced'
<1>1. Running /\ fw.cmd = CMD_START /\ fw.step = 11 /\ Step.op = "ok"
  BY StartPlaces DEF Closing
<1>2. /\ ~Begins /\ ~Rejects /\ ~TakesOne /\ ~ForwardsOne /\ ~ErasesOne
      /\ \A u \in Seq(Bytes) : ~Onward(u) /\ ~Fails(u)
      /\ \A size \in 0 .. MaxSize : ~TakesLast(size)
      /\ \A b \in MemoryBytes : ~Streams(b)
      /\ \A n \in Nat : ~AsksFor(n) /\ ~PacketsEnd(n)
  BY <1>1 DEF Begins, Rejects, TakesOne, ForwardsOne, ErasesOne, Onward, Fails, TakesLast, Streams,
              AsksFor, PacketsEnd
<1>3. Finishes
  BY <1>2, FwActs, Zenon
<1>4. Reply(<< REPL_OK >>) /\ UNCHANGED toProg /\ fw'.step = 0 /\ fw'.answered = fw.cmd
  BY <1>3 DEF Finishes
<1>5. fw'.open /\ fw'.loop = "cmd"
  BY <1>1, <1>3 DEF Finishes
<1> QED  BY <1>1, <1>3, <1>4, <1>5 DEF Running, Synced

-------------------------------------------------------------------------------
(* START finds the programmer: what the programmer does *)

\* The bytes of the address are the last of what was written
Behind == IF host.at > 5 THEN 3 ELSE 0

LEMMA StartsSentIs ==
  StartsSent <=> \A i \in 1 .. Len(toProg) - Behind : IsStart(toProg[i])
BY DEF StartsSent, Behind

LEMMA StartsSentStays ==
  ASSUME FwAlone, LinkTypes, FwNext, HostRests, StartsSent
  PROVE  StartsSent'
<1>1. Behind' = Behind /\ Behind \in {0, 3}
  BY DEF HostRests, Behind
<1>2. \A i \in 1 .. Len(toProg) - Behind : IsStart(toProg[i])
  BY StartsSentIs
<1>3. PICK k \in 0 .. Len(toProg) :
        /\ Len(toProg') = Len(toProg) - k
        /\ \A i \in 1 .. Len(toProg') : i + k \in 1 .. Len(toProg) /\ toProg'[i] = toProg[i + k]
  BY FwDrops
<1>4. Len(toProg) \in Nat
  BY DEF LinkTypes
<1>5. ASSUME NEW i \in 1 .. Len(toProg') - Behind  PROVE IsStart(toProg'[i])
  <2>1. i \in 1 .. Len(toProg') /\ i + k \in 1 .. Len(toProg) - Behind
    BY <1>1, <1>3, <1>4
  <2> QED  BY <1>2, <1>3, <2>1
<1>6. \A i \in 1 .. Len(toProg') - Behind' : IsStart(toProg'[i])
  BY <1>1, <1>5
<1> QED  BY <1>1, <1>6 DEF StartsSent, Behind

\* What it holds of the address, and what follows
Ahead(i) == IF i <= Len(fw.args) THEN fw.args[i] = CMD_START ELSE IsStart(toProg[i - Len(fw.args)])

LEMMA AddressAheadIs ==
  AddressAhead <=>
    (Running /\ fw.cmd = CMD_START /\ fw.step = 7 /\ (toHost # << >> \/ host.at > 2) =>
       \A i \in 1 .. Len(fw.args) + Len(toProg) - Behind : Ahead(i))
BY DEF AddressAhead, Ahead, Behind

LEMMA AddressAheadStays ==
  ASSUME FwAlone, LinkTypes, FwNext, HostRests, StartsSent, AddressAhead
  PROVE  AddressAhead'
<1>1. Behind' = Behind /\ Behind \in {0, 3} /\ host' = host
  BY DEF HostRests, Behind
<1>2. SUFFICES ASSUME Running', fw'.cmd = CMD_START, fw'.step = 7, toHost' # << >> \/ host'.at > 2
               PROVE  \A i \in 1 .. Len(fw'.args) + Len(toProg') - Behind' : Ahead(i)'
  BY DEF AddressAhead, Ahead, Behind
<1>3. Len(toProg) \in Nat /\ fw.args \in Seq(Bytes) /\ Len(fw.args) \in Nat
  BY Shape, Fields DEF LinkTypes, FwAlone
<1>4. CASE /\ Running /\ fw.cmd = CMD_START /\ fw.step = 7 /\ toProg # << >>
           /\ toProg' = Tail(toProg) /\ UNCHANGED toHost
           /\ fw'.args = Append(fw.args, Head(toProg).val)
  <2>1. \A i \in 1 .. Len(fw.args) + Len(toProg) - Behind : Ahead(i)
    BY <1>1, <1>2, <1>4, AddressAheadIs
  <2>2. /\ Len(toProg') = Len(toProg) - 1 /\ Head(toProg) = toProg[1]
        /\ \A i \in 1 .. Len(toProg') : toProg'[i] = toProg[i + 1]
    BY <1>4 DEF LinkTypes
  <2>3. Head(toProg).val \in Bytes
    BY <1>4, TailTypes
  <2>4. /\ Len(fw'.args) = Len(fw.args) + 1 /\ fw'.args[Len(fw.args) + 1] = Head(toProg).val
        /\ \A i \in 1 .. Len(fw.args) : fw'.args[i] = fw.args[i]
    BY <1>3, <1>4, <2>3
  <2>5. ASSUME NEW i \in 1 .. Len(fw'.args) + Len(toProg') - Behind'
        PROVE  Ahead(i)'
    <3>1. i \in 1 .. Len(fw.args) + Len(toProg) - Behind
      BY <1>1, <1>3, <2>2, <2>4
    <3>2. Ahead(i)
      BY <2>1, <3>1
    <3>3. CASE i <= Len(fw.args)
      <4>1. i \in 1 .. Len(fw.args) /\ i <= Len(fw'.args)
        BY <1>3, <2>4, <3>1, <3>3
      <4> QED  BY <2>4, <3>2, <3>3, <4>1 DEF Ahead
    <3>4. CASE i = Len(fw.args) + 1
      <4>1. ~(i <= Len(fw.args)) /\ i - Len(fw.args) = 1 /\ i <= Len(fw'.args)
        BY <1>3, <2>4, <3>4
      <4>2. toProg[1].val = CMD_START
        BY <3>2, <4>1 DEF Ahead, IsStart
      <4> QED  BY <2>2, <2>4, <3>4, <4>1, <4>2 DEF Ahead
    <3>5. CASE i > Len(fw.args) + 1
      <4> DEFINE r == i - Len(fw'.args)
                 l == i - Len(fw.args)
      <4>1. /\ ~(i <= Len(fw.args)) /\ ~(i <= Len(fw'.args))
            /\ r \in 1 .. Len(toProg') /\ r + 1 = l
        BY <1>1, <1>3, <2>2, <2>4, <3>1, <3>5
      <4>2. IsStart(toProg[l])
        BY <3>2, <4>1 DEF Ahead
      <4>3. Ahead(i)' <=> IsStart(toProg'[r])
        BY <4>1 DEF Ahead
      <4> HIDE DEF r, l
      <4>4. toProg'[r] = toProg[l]
        BY <2>2, <4>1
      <4> QED  BY <4>2, <4>3, <4>4
    <3> QED  BY <1>3, <3>1, <3>3, <3>4, <3>5
  <2> QED  BY <2>5
<1>5. CASE fw'.args = << >> /\ UNCHANGED toProg
  <2>1. Len(fw'.args) = 0
    BY <1>5
  <2>2. \A i \in 1 .. Len(toProg) - Behind : IsStart(toProg[i])
    BY StartsSentIs
  <2>3. ASSUME NEW i \in 1 .. Len(fw'.args) + Len(toProg') - Behind'
        PROVE  Ahead(i)'
    <3>1. i \in 1 .. Len(toProg) - Behind /\ ~(i <= Len(fw'.args)) /\ i - Len(fw'.args) = i
      BY <1>1, <1>3, <1>5, <2>1
    <3> QED  BY <1>5, <2>2, <3>1 DEF Ahead
  <2> QED  BY <2>3
<1> QED  BY <1>2, <1>4, <1>5, ToAddress

LEMMA AddressTakenStays ==
  ASSUME FwAlone, LinkTypes, FwNext, HostRests, host.at \in 1 .. 7,
         StartsSent, AddressAhead, AddressTaken, SignatureRead
  PROVE  AddressTaken'
<1>1. host' = host
  BY DEF HostRests
<1>2. SUFFICES ASSUME InSignature', fw'.sigAddr
               PROVE  host.at = 6 /\ toProg' = << >>
  BY <1>1 DEF AddressTaken
<1>3. CASE InSignature /\ UNCHANGED toProg /\ fw'.sigAddr = fw.sigAddr
  BY <1>2, <1>3 DEF AddressTaken
<1>4. CASE /\ Running /\ fw.cmd = CMD_START /\ fw.step = 7 /\ Len(fw.args) = 2
           /\ toProg # << >> /\ toProg' = Tail(toProg)
           /\ fw'.sigAddr <=> Append(fw.args, Head(toProg).val) = SigAddress
  <2>1. Append(fw.args, Head(toProg).val) = SigAddress
    BY <1>2, <1>4
  <2>2. fw.args \in Seq(Bytes) /\ Len(fw.args) = 2 /\ Head(toProg).val \in Bytes
        /\ Head(toProg) = toProg[1] /\ Len(toProg) \in Nat /\ Len(toProg) >= 1
        /\ Len(toProg') = Len(toProg) - 1 /\ toProg' \in Seq(Sending)
    BY <1>4, Shape, Fields, TailTypes DEF FwAlone
  <2>3. fw.args[1] = 0 /\ toProg[1].val = 0
    <3> DEFINE args == Append(fw.args, Head(toProg).val)
    <3>1. args[1] = fw.args[1] /\ args[3] = Head(toProg).val
      <4> DEFINE l == Len(fw.args)
                 b == Head(toProg).val
      <4>1. args = Append(fw.args, b) /\ fw.args \in Seq(Bytes) /\ b \in Bytes /\ l = 2 /\ l = Len(fw.args)
        BY <2>2
      <4> HIDE DEF args, b
      <4>2. args[l + 1] = b /\ \A i \in 1 .. l : args[i] = fw.args[i]
        BY <4>1
      <4> HIDE DEF l
      <4> QED  BY <4>1, <4>2 DEF b
    <3>2. args = SigAddress
      BY <2>1
    <3> HIDE DEF args
    <3>3. args[1] = 0 /\ args[3] = 0
      BY <3>2 DEF SigAddress
    <3> QED  BY <2>2, <3>1, <3>3
  <2>4. ~IsStart(toProg[1])
    BY <2>3 DEF IsStart
  <2>5. ~(1 <= Len(toProg) - Behind)
    BY <2>2, <2>4, StartsSentIs DEF Behind
  <2>6. host.at > 5
    BY <2>2, <2>5 DEF Behind
  <2>7. Behind = 3 /\ host.at > 2
    BY <2>6 DEF Behind
  <2>8. \A i \in 1 .. Len(fw.args) + Len(toProg) - Behind : Ahead(i)
    BY <1>4, <2>7, AddressAheadIs
  <2>9. ~Ahead(1)
    BY <2>2, <2>3 DEF Ahead
  <2>10. ~(1 <= Len(fw.args) + Len(toProg) - Behind)
    BY <2>2, <2>7, <2>8, <2>9
  <2>11. Len(toProg') = 0
    BY <2>2, <2>7, <2>10
  <2>12. toProg' = << >>
    BY <2>2, <2>11
  <2>13. host.at # 7
    BY <1>4 DEF SignatureRead, Closing
  <2> QED  BY <2>6, <2>12, <2>13
<1> QED  BY <1>2, <1>3, <1>4, ToSignature, Zenon

LEMMA SignatureReadStays ==
  ASSUME FwAlone, LinkTypes, FwNext, HostRests, InSession, SignatureRead
  PROVE  SignatureRead'
<1>1. host' = host
  BY DEF HostRests
<1>2. SUFFICES ASSUME host.at = 7
               PROVE  /\ toProg' = << >> /\ ~Running' /\ Len(toHost') <= 1
                      /\ toHost'[1] = REPL_OK /\ Synced'
  BY <1>1 DEF SignatureRead
<1>3. toProg = << >> /\ Closing /\ toHost = << >>
  BY <1>2, AtRestWaits DEF SignatureRead
<1>4. Reply(<< REPL_OK >>) /\ UNCHANGED toProg /\ ~Running' /\ Synced'
  BY <1>3, ClosingFinishes
<1>5. toHost' = << REPL_OK >>
  BY <1>3, <1>4 DEF Reply, InSession
<1> QED  BY <1>3, <1>4, <1>5

\* What a reply says of the last byte, if more is said
LEMMA SignatureComesStays ==
  ASSUME FwAlone, LinkTypes, FwNext, HostRests, InSession, Unmistaken,
         AddressTaken, SignatureComes
  PROVE  SignatureComes'
<1>1. host' = host
  BY DEF HostRests
<1>2. PICK u \in Seq(Bytes) : Reply(u) /\ (Quiet(u) \/ Signs(u))
  BY FwSays DEF Says
<1>3. /\ toHost' = toHost \o u /\ Len(toHost') = Len(toHost) + Len(u)
      /\ Len(u) \in Nat /\ Len(toHost) \in Nat /\ toHost \in Seq(Bytes)
  BY <1>2, Replied DEF LinkTypes
<1>4. /\ \A i \in 1 .. Len(toHost) : toHost'[i] = toHost[i]
      /\ \A i \in 1 .. Len(u) : toHost'[Len(toHost) + i] = u[i]
      /\ \A i \in Len(toHost) + 1 .. Len(toHost') : i - Len(toHost) \in 1 .. Len(u)
                                                    /\ toHost'[i] = u[i - Len(toHost)]
  BY <1>3
<1>5. DOMAIN toHost' = 1 .. Len(toHost') /\ DOMAIN toHost = 1 .. Len(toHost)
  BY <1>3
<1> DEFINE Good(i) == /\ host'.at = 6 /\ toProg' = << >>
                      /\ \/ Closing' /\ Len(toHost') - i <= 2
                         \/ /\ ~Running' /\ Len(toHost') - i <= 3
                            /\ Len(toHost') - i = 3 => IF toHost'[Len(toHost')] = REPL_OK THEN Synced'
                                                       ELSE toHost'[Len(toHost')] = REPL_TIMEOUT
<1> HIDE DEF Good
<1>0. SUFFICES \A i \in DOMAIN toHost' : toHost'[i] = DeviceSignature[1] => Good(i)
  BY DEF SignatureComes, LastByte, Good
<1>6. SUFFICES ASSUME NEW i \in 1 .. Len(toHost'), toHost'[i] = DeviceSignature[1]
               PROVE  Good(i)
  BY <1>5
<1> USE DEF Good
<1>7. CASE Signs(u)
  <2>1. /\ Running /\ fw.cmd = CMD_START /\ fw.step = 10 /\ fw.sigAddr /\ fw'.cmd = CMD_START
        /\ UNCHANGED toProg
        /\ \/ fw'.step = 11 /\ Len(u) = 3
           \/ fw'.step = 0 /\ Len(u) = 4 /\ u[4] = REPL_TIMEOUT
    BY <1>7 DEF Signs
  <2>2. host.at = 6 /\ toProg' = << >> /\ ~Closing
    BY <2>1 DEF AddressTaken, InSignature, Closing
  <2>3. i > Len(toHost)
    <3> SUFFICES ASSUME i \in 1 .. Len(toHost)  PROVE FALSE
      BY <1>3, <1>6
    <3>1. toHost[i] = DeviceSignature[1]
      BY <1>4, <1>6
    <3> QED  BY <1>5, <2>1, <2>2, <3>1 DEF SignatureComes
  <2>4. Len(toHost') - i < Len(u) /\ Len(toHost') - i \in Int
    BY <1>3, <1>6, <2>3
  <2>5. CASE fw'.step = 11 /\ Len(u) = 3
    <3>1. Closing' /\ Len(toHost') - i <= 2
      BY <2>1, <2>4, <2>5 DEF Closing, Running
    <3> QED  BY <1>1, <2>2, <3>1
  <2>6. CASE fw'.step = 0 /\ Len(u) = 4 /\ u[4] = REPL_TIMEOUT
    <3>1. ~Running' /\ Len(toHost') - i <= 3
      BY <2>4, <2>6 DEF Running
    <3>2. toHost'[Len(toHost')] = REPL_TIMEOUT
      BY <1>3, <1>4, <2>6
    <3>3. IF toHost'[Len(toHost')] = REPL_OK THEN Synced' ELSE toHost'[Len(toHost')] = REPL_TIMEOUT
      BY <3>2
    <3> QED  BY <1>1, <2>2, <3>1, <3>3
  <2> QED  BY <2>1, <2>5, <2>6
<1>8. CASE Quiet(u)
  <2>1. i \in 1 .. Len(toHost)
    <3> SUFFICES ASSUME i > Len(toHost)  PROVE FALSE
      BY <1>3, <1>6
    <3>1. i - Len(toHost) \in 1 .. Len(u) /\ toHost'[i] = u[i - Len(toHost)]
      BY <1>3, <1>4, <1>6
    <3> QED  BY <1>6, <1>8, <3>1 DEF Quiet
  <2>2. toHost[i] = DeviceSignature[1]
    BY <1>4, <1>6, <2>1
  <2>3. /\ host.at = 6 /\ toProg = << >>
        /\ \/ Closing /\ Len(toHost) - i <= 2
           \/ ~Running
    BY <1>5, <2>1, <2>2 DEF SignatureComes
  <2>4. Closing /\ Len(toHost) - i <= 2
    BY <2>3, AtRestWaits
  <2>5. Reply(<< REPL_OK >>) /\ UNCHANGED toProg /\ ~Running' /\ Synced'
    BY <2>4, ClosingFinishes
  <2>6. toHost' = toHost \o << REPL_OK >>
    BY <2>5 DEF Reply, InSession
  <2>7. Len(toHost') = Len(toHost) + 1 /\ toHost'[Len(toHost')] = REPL_OK
    BY <1>3, <2>6, CodesAreBytes
  <2>8. Len(toHost') - i <= 3
    BY <1>3, <2>1, <2>4, <2>7
  <2>9. IF toHost'[Len(toHost')] = REPL_OK THEN Synced' ELSE toHost'[Len(toHost')] = REPL_TIMEOUT
    BY <2>5, <2>7
  <2> QED  BY <1>1, <2>3, <2>5, <2>8, <2>9
<1> QED  BY <1>2, <1>7, <1>8

\* START finds the programmer, whatever that does
LEMMA FwKeepsStarting ==
  ASSUME FwAlone, LinkTypes, FwNext, HostRests, InSession, host.at \in 1 .. 7,
         Unmistaken, Starting
  PROVE  Starting'
BY StartsSentStays, AddressAheadStays, AddressTakenStays, SignatureReadStays,
   SignatureComesStays, Zenon DEF Starting

-------------------------------------------------------------------------------
(* START finds the programmer: what the controller does, and what is lost *)

\* The steps of START
LEMMA AtStart ==
  ASSUME HostTypes, LinkTypes, InSession, host.pos = 1
  PROVE  /\ host.at \in 1 .. 7 /\ Current.cmd = CMD_START
         /\ HostStep.do \in Writing <=> host.at \in {1, 5}
         /\ HostStep.do = "issue" <=> host.at = 1
         /\ HostStep.do = "ack" <=> host.at = 2
         /\ HostStep.do = "progmode" <=> host.at = 4
         /\ HostStep.do = "signature" <=> host.at = 6
         /\ HostStep.do = "result" <=> host.at = 7
         /\ HostStep.do # "read" /\ Asks(HostStep) \in Nat
         /\ host.at \in {2, 3, 4, 7} => Asks(HostStep) = 1
         /\ host.at = 5 => HostStep.bytes = DeviceSignatureAddress
<1>1. Current.cmd = CMD_START
  BY JobEnds
<1>2. PICK call : call = Current
  OBVIOUS
<1>3. IsCall(call) /\ host.at \in 1 .. LastStep(call) /\ HostStep = Steps(call)[host.at]
      /\ Asks(HostStep) \in Nat
  BY <1>2, StepAhead
<1>4. host.at \in 1 .. 7
  BY <1>1, <1>2, <1>3, StartSteps
<1> DEFINE w == Write(DeviceSignatureAddress)
<1>5. /\ host.at = 1 => HostStep = Issue
      /\ host.at = 2 => HostStep = WaitAck
      /\ host.at = 3 => HostStep = ReadStatus
      /\ host.at = 4 => HostStep = ReadProgmode
      /\ host.at = 5 => HostStep = w
      /\ host.at = 6 => HostStep = ReadSignature
      /\ host.at = 7 => HostStep = Result
  BY <1>1, <1>2, <1>3, StartSteps
<1>6. w.do = "write" /\ w.bytes = DeviceSignatureAddress
  BY WriteFacts
<1> HIDE DEF w
<1>7. /\ host.at = 1 => HostStep.do = "issue"
      /\ host.at = 2 => HostStep.do = "ack" /\ Asks(HostStep) = 1
      /\ host.at = 3 => HostStep.do = "status" /\ Asks(HostStep) = 1
      /\ host.at = 4 => HostStep.do = "progmode" /\ Asks(HostStep) = 1
      /\ host.at = 5 => HostStep.do = "write" /\ HostStep.bytes = DeviceSignatureAddress
      /\ host.at = 6 => HostStep.do = "signature"
      /\ host.at = 7 => HostStep.do = "result" /\ Asks(HostStep) = 1
  BY <1>5, <1>6, KindFacts
<1>8. \/ host.at = 1 \/ host.at = 2 \/ host.at = 3 \/ host.at = 4 \/ host.at = 5
      \/ host.at = 6 \/ host.at = 7
  BY <1>4
<1> DEFINE do == HostStep.do
<1>9. /\ host.at = 1 => do = "issue"
      /\ host.at = 2 => do = "ack"
      /\ host.at = 3 => do = "status"
      /\ host.at = 4 => do = "progmode"
      /\ host.at = 5 => do = "write"
      /\ host.at = 6 => do = "signature"
      /\ host.at = 7 => do = "result"
  BY <1>7
<1> HIDE DEF do
<1>10. /\ do \in Writing <=> host.at \in {1, 5}
       /\ do = "issue" <=> host.at = 1
       /\ do = "ack" <=> host.at = 2
       /\ do = "progmode" <=> host.at = 4
       /\ do = "signature" <=> host.at = 6
       /\ do = "result" <=> host.at = 7
       /\ do # "read"
  BY <1>8, <1>9 DEF Writing
<1> QED  BY <1>1, <1>3, <1>4, <1>7, <1>10 DEF do

\* Until START has sent its address, nothing looks like its signature
LEMMA NotYet ==
  ASSUME Starting, host.at \in 1 .. 5, LinkTypes
  PROVE  /\ ~(InSignature /\ fw.sigAddr)
         /\ \A i \in 1 .. Len(toHost) : toHost[i] # DeviceSignature[1]
<1>1. ~(InSignature /\ fw.sigAddr)
  BY DEF Starting, AddressTaken
<1>2. DOMAIN toHost = 1 .. Len(toHost)
  BY DEF LinkTypes
<1>3. ASSUME NEW i \in 1 .. Len(toHost), toHost[i] = DeviceSignature[1]  PROVE FALSE
  BY <1>2, <1>3 DEF Starting, SignatureComes
<1> QED  BY <1>1, <1>3

\* What the programmer holds of the address is not disturbed
LEMMA AheadStays ==
  ASSUME FwAlone, LinkTypes, UNCHANGED fw, AddressAhead, StartsSent', toProg' \in Seq(Sending),
         toHost' # << >> \/ host'.at > 2 => toHost # << >> \/ host.at > 2,
         Len(toProg') - Behind' <= Len(toProg) - Behind \/ Behind = 0
  PROVE  AddressAhead'
<1>1. SUFFICES ASSUME Running', fw'.cmd = CMD_START, fw'.step = 7, toHost' # << >> \/ host'.at > 2
               PROVE  \A i \in 1 .. Len(fw'.args) + Len(toProg') - Behind' : Ahead(i)'
  BY DEF AddressAhead, Ahead, Behind
<1>2. /\ Len(toProg) \in Nat /\ Len(toProg') \in Nat /\ Len(fw.args) \in Nat
      /\ Behind \in {0, 3} /\ Behind' \in {0, 3} /\ fw'.args = fw.args
  BY Shape, Fields DEF LinkTypes, FwAlone, Behind
<1>3. \A i \in 1 .. Len(fw.args) + Len(toProg) - Behind : Ahead(i)
  BY <1>1, AddressAheadIs DEF Running
<1>4. \A i \in 1 .. Len(toProg') - Behind' : IsStart(toProg'[i])
  BY DEF StartsSent, Behind
<1>5. ASSUME NEW i \in 1 .. Len(fw'.args) + Len(toProg') - Behind'
      PROVE  Ahead(i)'
  <2>1. CASE i <= Len(fw.args)
    <3>1. i \in 1 .. Len(fw.args) + Len(toProg) - Behind
      BY <1>2, <1>5, <2>1
    <3>2. Ahead(i)
      BY <1>3, <3>1
    <3> QED  BY <1>2, <2>1, <3>2 DEF Ahead
  <2>2. CASE i > Len(fw.args)
    <3> DEFINE l == i - Len(fw'.args)
    <3>1. l \in 1 .. Len(toProg') - Behind' /\ ~(i <= Len(fw'.args))
      BY <1>2, <1>5, <2>2
    <3>2. Ahead(i)' <=> IsStart(toProg'[l])
      BY <3>1 DEF Ahead
    <3> HIDE DEF l
    <3> QED  BY <1>4, <3>1, <3>2
  <2> QED  BY <1>2, <1>5, <2>1, <2>2
<1> QED  BY <1>5

\* START goes on, and its address is not answered yet
LEMMA StartGoesOn ==
  ASSUME FwAlone, LinkTypes, UNCHANGED fw, Starting, host.at \in 1 .. 5, host'.at \in 1 .. 6,
         StartsSent', toProg' \in Seq(Sending), toHost' \in Seq(Bytes),
         toHost' # << >> \/ host'.at > 2 => toHost # << >> \/ host.at > 2,
         Len(toProg') - Behind' <= Len(toProg) - Behind \/ Behind = 0,
         \A i \in 1 .. Len(toHost') : toHost'[i] # DeviceSignature[1]
  PROVE  Starting'
<1>1. AddressTaken'
  <2>1. ~(InSignature /\ fw.sigAddr)
    BY NotYet
  <2> QED  BY <2>1 DEF AddressTaken, InSignature, Running
<1>2. SignatureRead'
  BY DEF SignatureRead
<1>3. SignatureComes'
  <2>1. DOMAIN toHost' = 1 .. Len(toHost')
    OBVIOUS
  <2> QED  BY <2>1 DEF SignatureComes
<1>4. AddressAhead'
  <2>1. AddressAhead
    BY DEF Starting
  <2> QED  BY <2>1, AheadStays
<1> QED  BY <1>1, <1>2, <1>3, <1>4 DEF Starting

\* Starting anew, wherever the programmer waits
LEMMA StartsAnew ==
  ASSUME toProg' = << >>, toHost' = << >>, host'.at = 1, ~InSignature'
  PROVE  Starting'
<1>1. Len(toProg') = 0 /\ DOMAIN toHost' = {}
  OBVIOUS
<1>2. StartsSent'
  BY <1>1 DEF StartsSent
<1>3. AddressAhead' /\ AddressTaken' /\ SignatureRead'
  BY DEF AddressAhead, AddressTaken, SignatureRead
<1>4. SignatureComes'
  BY <1>1 DEF SignatureComes
<1> QED  BY <1>2, <1>3, <1>4 DEF Starting

\* A START, or the address
LEMMA SendsStart ==
  ASSUME FwAlone, LinkTypes, HostTypes, InSession, host.pos = 1, UNCHANGED fw, Starting,
         NEW bytes \in Seq(Bytes), NEW isCmd \in BOOLEAN, HostSends(bytes, isCmd)
  PROVE  Starting'
<1>1. /\ HostStep.do \in Writing /\ Len(bytes) = Gives(HostStep)
      /\ isCmd <=> HostStep.do = "issue"
      /\ isCmd => bytes[1] = Current.cmd
      /\ Sent(bytes, isCmd) /\ UNCHANGED toHost /\ host'.at = host.at + 1
  BY DEF HostSends, Place
<1>2. host.at \in {1, 5} /\ Current.cmd = CMD_START /\ (isCmd <=> host.at = 1)
  BY <1>1, AtStart
<1>3. Len(bytes) = IF host.at = 1 THEN 1 ELSE 3
  <2>1. CASE host.at = 1
    <3>1. HostStep.do = "issue"
      BY <2>1, AtStart
    <3>2. Gives(HostStep) = 1
      BY <3>1 DEF Gives
    <3> QED  BY <1>1, <2>1, <3>2
  <2>2. CASE host.at = 5
    <3>1. HostStep.do \in Writing /\ HostStep.do # "issue"
      BY <1>1, <2>2, AtStart
    <3>2. HostStep = Write(DeviceSignatureAddress)
      <4>1. PICK call : call = Current
        OBVIOUS
      <4>2. IsCall(call) /\ HostStep = Steps(call)[5] /\ call.cmd = CMD_START
        BY <1>2, <2>2, <4>1, StepAhead
      <4> QED  BY <4>2, StartSteps
    <3>3. Len(DeviceSignatureAddress) = 3
      BY DEF DeviceSignatureAddress
    <3>5. Gives(Write(DeviceSignatureAddress)) = Len(DeviceSignatureAddress)
      BY WriteFacts
    <3>4. Gives(HostStep) = 3
      BY <3>2, <3>3, <3>5
    <3> QED  BY <1>1, <2>2, <3>4
  <2> QED  BY <1>2, <2>1, <2>2
<1>4. /\ toProg' \in Seq(Sending) /\ Len(toProg) \in Nat /\ Len(toProg') = Len(toProg) + Len(bytes)
      /\ \A i \in 1 .. Len(toProg) : toProg'[i] = toProg[i]
      /\ host.at = 1 => IsStart(toProg'[Len(toProg) + 1])
  <2> DEFINE e == [k \in 1 .. Len(bytes) |-> [val |-> bytes[k], cmd |-> isCmd]]
  <2>1. toProg' = toProg \o e /\ toProg \in Seq(Sending)
    BY <1>1 DEF Sent, LinkTypes
  <2>2. e \in Seq(Sending) /\ Len(e) = Len(bytes)
    BY DEF Sending
  <2>3. host.at = 1 => IsStart(e[1])
    <3> SUFFICES ASSUME host.at = 1  PROVE IsStart(e[1])
      OBVIOUS
    <3>1. e[1] = [val |-> bytes[1], cmd |-> isCmd]
      BY <1>3
    <3>2. bytes[1] = CMD_START /\ isCmd = TRUE
      BY <1>1, <1>2
    <3> QED  BY <3>1, <3>2, Zenon DEF IsStart
  <2> HIDE DEF e
  <2>4. /\ toProg' \in Seq(Sending) /\ Len(toProg') = Len(toProg) + Len(e) /\ Len(toProg) \in Nat
        /\ \A i \in 1 .. Len(toProg) : toProg'[i] = toProg[i]
        /\ \A i \in 1 .. Len(e) : toProg'[Len(toProg) + i] = e[i]
    <3>1. e \in Seq(Sending) /\ toProg \in Seq(Sending) /\ toProg' = toProg \o e
      BY <2>1, <2>2
    <3>2. toProg' \in Seq(Sending) /\ Len(toProg') = Len(toProg) + Len(e) /\ Len(toProg) \in Nat
      BY <3>1
    <3>3. \A i \in 1 .. Len(toProg) : toProg'[i] = toProg[i]
      BY <3>1
    <3>4. \A i \in 1 .. Len(e) : toProg'[Len(toProg) + i] = e[i]
      BY <3>1
    <3> QED  BY <3>2, <3>3, <3>4
  <2>5. host.at = 1 => IsStart(toProg'[Len(toProg) + 1])
    BY <1>3, <2>2, <2>3, <2>4
  <2> QED  BY <2>2, <2>4, <2>5
<1>5. \A i \in 1 .. Len(toProg) - Behind : IsStart(toProg[i])
  BY StartsSentIs DEF Starting
<1>6. /\ Behind = 0 /\ Behind' = (IF host.at = 1 THEN 0 ELSE 3) /\ host'.at \in 1 .. 6
      /\ host.at \in 1 .. 5
  BY <1>1, <1>2 DEF Behind
<1>7. StartsSent'
  <2>1. ASSUME NEW i \in 1 .. Len(toProg') - Behind'  PROVE IsStart(toProg'[i])
    <3>1. i \in 1 .. Len(toProg) \/ (host.at = 1 /\ i = Len(toProg) + 1)
      BY <1>2, <1>3, <1>4, <1>6, <2>1
    <3>2. i \in 1 .. Len(toProg) => IsStart(toProg'[i])
      BY <1>4, <1>5, <1>6
    <3> QED  BY <1>4, <3>1, <3>2
  <2> QED  BY <2>1 DEF StartsSent, Behind
<1>8. \A i \in 1 .. Len(toHost') : toHost'[i] # DeviceSignature[1]
  BY <1>1, <1>6, NotYet
<1>9. toHost' \in Seq(Bytes)
  BY <1>1 DEF LinkTypes
<1>10. toHost' # << >> \/ host'.at > 2 => toHost # << >> \/ host.at > 2
  BY <1>1, <1>2
<1> QED  BY <1>4, <1>6, <1>7, <1>8, <1>9, <1>10, StartGoesOn

\* The handler of START is past its address
LEMMA PastTheAddress ==
  ASSUME UNCHANGED fw, toProg' = << >>, host'.at = 7, Closing \/ ~Running,
         \A i \in 1 .. Len(toHost') : toHost'[i] # DeviceSignature[1], toHost' \in Seq(Bytes),
         SignatureRead'
  PROVE  Starting'
<1>1. Len(toProg') = 0
  OBVIOUS
<1>2. StartsSent'
  BY <1>1 DEF StartsSent
<1>3. AddressAhead' /\ AddressTaken'
  BY DEF AddressAhead, AddressTaken, InSignature, Closing, Running
<1>4. SignatureComes'
  <2>1. DOMAIN toHost' = 1 .. Len(toHost')
    OBVIOUS
  <2> QED  BY <2>1 DEF SignatureComes
<1> QED  BY <1>2, <1>3, <1>4 DEF Starting

\* What comes after the first byte of the signature
LEMMA AfterSignature ==
  ASSUME LinkTypes, Starting, Len(toHost) >= 1, toHost[1] = DeviceSignature[1]
  PROVE  /\ toProg = << >>
         /\ \/ Closing /\ Len(toHost) <= 3
            \/ /\ ~Running /\ Len(toHost) <= 4
               /\ Len(toHost) = 4 => IF LastByte = REPL_OK THEN Synced
                                     ELSE LastByte = REPL_TIMEOUT
<1>1. Len(toHost) \in Nat /\ DOMAIN toHost = 1 .. Len(toHost)
  BY DEF LinkTypes
<1>2. 1 \in DOMAIN toHost
  BY <1>1
<1>3. /\ toProg = << >>
      /\ \/ Closing /\ Len(toHost) - 1 <= 2
         \/ /\ ~Running /\ Len(toHost) - 1 <= 3
            /\ Len(toHost) - 1 = 3 => IF LastByte = REPL_OK THEN Synced
                                      ELSE LastByte = REPL_TIMEOUT
  <2> DEFINE i == 1
  <2>1. i \in DOMAIN toHost /\ toHost[i] = DeviceSignature[1]
    BY <1>2
  <2> HIDE DEF i
  <2>2. /\ toProg = << >>
        /\ \/ Closing /\ Len(toHost) - i <= 2
           \/ /\ ~Running /\ Len(toHost) - i <= 3
              /\ Len(toHost) - i = 3 => IF LastByte = REPL_OK THEN Synced
                                        ELSE LastByte = REPL_TIMEOUT
    BY <2>1, Zenon DEF Starting, SignatureComes
  <2> QED  BY <2>2 DEF i
<1>4. CASE Closing /\ Len(toHost) - 1 <= 2
  BY <1>1, <1>3, <1>4
<1>5. CASE ~Running /\ Len(toHost) - 1 <= 3
  <2>1. Len(toHost) <= 4 /\ (Len(toHost) = 4 => Len(toHost) - 1 = 3)
    BY <1>1, <1>5
  <2>2. CASE Len(toHost) = 4 /\ ~Closing
    <3>1. IF LastByte = REPL_OK THEN Synced ELSE LastByte = REPL_TIMEOUT
      BY <1>3, <2>1, <2>2
    <3> QED  BY <1>3, <1>5, <2>1, <3>1
  <2>3. CASE Closing
    BY <1>5, <2>3 DEF Closing
  <2>4. CASE Len(toHost) # 4
    BY <1>3, <1>5, <2>1, <2>4
  <2> QED  BY <2>2, <2>3, <2>4
<1> QED  BY <1>3, <1>4, <1>5

\* The signature is read whole
LEMMA TakesSignature ==
  ASSUME FwAlone, LinkTypes, HostTypes, InSession, host.pos = 1, UNCHANGED fw, Starting,
         HostTakes, host.at = 6
  PROVE  Starting'
<1>1. /\ SubSeq(toHost, 1, 3) = DeviceSignature /\ toHost' = Remainder /\ UNCHANGED toProg
      /\ host'.at = 7 /\ Asks(HostStep) = 3 /\ Len(toHost) >= 3
  <2>1. HostStep.do = "signature"
    BY AtStart
  <2>2. Asks(HostStep) = 3
    BY <2>1 DEF Asks
  <2> QED  BY <2>1, <2>2 DEF HostTakes, Place
<1>2. Len(toHost) \in Nat /\ toHost \in Seq(Bytes)
  BY DEF LinkTypes
<1>3. toHost[1] = DeviceSignature[1]
  <2>1. SubSeq(toHost, 1, 3)[1] = toHost[1]
    BY <1>1, <1>2
  <2> QED  BY <1>1, <2>1
<1>4. /\ toProg = << >>
      /\ \/ Closing /\ Len(toHost) <= 3
         \/ /\ ~Running /\ Len(toHost) <= 4
            /\ Len(toHost) = 4 => IF LastByte = REPL_OK THEN Synced
                                  ELSE LastByte = REPL_TIMEOUT
  BY <1>1, <1>2, <1>3, AfterSignature
<1>5. Len(toHost') = Len(toHost) - 3 /\ toHost' \in Seq(Bytes)
  <2>1. toHost' = SubSeq(toHost, 4, Len(toHost))
    BY <1>1 DEF Remainder
  <2> QED  BY <1>1, <1>2, <2>1
<1>6. CASE Len(toHost) = 3
  <2>1. Len(toHost') = 0 /\ toHost' = << >> /\ (Closing \/ ~Running)
    BY <1>4, <1>5, <1>6
  <2>2. SignatureRead'
    BY <1>1, <1>4, <2>1 DEF SignatureRead, Closing, Running
  <2> QED  BY <1>1, <1>4, <2>1, <2>2, PastTheAddress
<1>7. CASE Len(toHost) = 4
  <2>1. /\ Len(toHost') = 1 /\ ~Running
        /\ IF LastByte = REPL_OK THEN Synced ELSE LastByte = REPL_TIMEOUT
    BY <1>4, <1>5, <1>7
  <2>2. LastByte' = LastByte
    BY <1>1, <2>1, Remains
  <2>3. toHost'[1] = LastByte
    BY <2>1, <2>2 DEF LastByte
  <2>4. SignatureRead'
    <3>1. Synced' <=> Synced
      BY DEF Synced
    <3>2. ~Running' /\ Len(toHost') <= 1 /\ toProg' = << >>
      BY <1>1, <1>4, <2>1 DEF Running
    <3>3. IF toHost'[1] = REPL_OK THEN Synced' ELSE toHost'[1] = REPL_TIMEOUT
      BY <2>1, <2>3, <3>1
    <3> QED  BY <3>2, <3>3 DEF SignatureRead
  <2>5. toHost'[1] # DeviceSignature[1]
    BY <2>1, <2>3, SignatureLong
  <2>6. \A i \in 1 .. Len(toHost') : toHost'[i] # DeviceSignature[1]
    BY <2>1, <2>5
  <2>7. toProg' = << >> /\ (Closing \/ ~Running)
    BY <1>1, <1>4, <2>1
  <2> QED  BY <1>1, <1>5, <2>4, <2>6, <2>7, PastTheAddress
<1>8. Len(toHost) = 3 \/ Len(toHost) = 4
  <2> DEFINE l == Len(toHost)
  <2>1. l \in Nat /\ l >= 3 /\ l <= 4
    BY <1>1, <1>2, <1>4
  <2> HIDE DEF l
  <2>2. l = 3 \/ l = 4
    BY <2>1
  <2> QED  BY <2>2 DEF l
<1> QED  BY <1>6, <1>7, <1>8

\* A reply before the address is read, be it taken or refused
LEMMA ReadsStart ==
  ASSUME FwAlone, LinkTypes, HostTypes, InSession, host.pos = 1, UNCHANGED <<fw, toProg>>, Starting,
         host.at \in 2 .. 4, host'.at \in {1, host.at + 1},
         \/ toHost' = << >> /\ (host'.at > 2 => toHost # << >> \/ host.at > 2)
         \/ toHost' = Remainder /\ Len(toHost) >= Asks(HostStep)
  PROVE  Starting'
<1>1. Asks(HostStep) = 1 /\ host.at \in 1 .. 5 /\ host'.at \in 1 .. 5
  BY AtStart
<1>2. Len(toHost) \in Nat /\ toHost \in Seq(Bytes) /\ toProg' \in Seq(Sending) /\ Len(toProg) \in Nat
  BY DEF LinkTypes
<1>3. \A i \in 1 .. Len(toHost) : toHost[i] # DeviceSignature[1]
  BY <1>1, NotYet
<1>4. /\ toHost' \in Seq(Bytes)
      /\ \A i \in 1 .. Len(toHost') : toHost'[i] # DeviceSignature[1]
      /\ toHost' # << >> \/ host'.at > 2 => toHost # << >> \/ host.at > 2
  <2>1. CASE toHost' = << >> /\ (host'.at > 2 => toHost # << >> \/ host.at > 2)
    <3>1. Len(toHost') = 0 /\ toHost' \in Seq(Bytes)
      BY <2>1
    <3> QED  BY <2>1, <3>1
  <2>2. CASE toHost' = Remainder /\ Len(toHost) >= Asks(HostStep)
    <3>1. \A i \in 1 .. Len(toHost') : /\ i + Asks(HostStep) \in 1 .. Len(toHost)
                                         /\ toHost'[i] = toHost[i + Asks(HostStep)]
      BY <2>2, Remains
    <3>2. toHost # << >>
      BY <1>1, <1>2, <2>2
    <3>3. toHost' \in Seq(Bytes)
      BY <1>1, <2>2, Dropped DEF Remainder, LinkTypes
    <3> QED  BY <1>3, <3>1, <3>2, <3>3
  <2> QED  BY <2>1, <2>2
<1>5. Behind = 0 /\ Behind' = 0
  BY <1>1 DEF Behind
<1>6. StartsSent'
  <2>1. \A i \in 1 .. Len(toProg) - Behind : IsStart(toProg[i])
    BY StartsSentIs DEF Starting
  <2>2. \A i \in 1 .. Len(toProg') - Behind' : IsStart(toProg'[i])
    BY <1>5, <2>1
  <2> QED  BY <2>2 DEF StartsSent, Behind
<1> QED  BY <1>1, <1>2, <1>4, <1>5, <1>6, StartGoesOn

\* A reply that does not come, the one to programming mode or the end of the signature
LEMMA GoesWithoutStarting ==
  ASSUME FwAlone, LinkTypes, HostTypes, InSession, host.pos = 1, UNCHANGED fw, Starting,
         HostGoesWithout
  PROVE  Starting'
<1>1. /\ HostStep.do \in {"progmode", "read", "signature"} /\ UNCHANGED toProg
      /\ HostStep.do # "progmode" => toHost # << >>
      /\ HostStep.do = "signature" => toHost[1] = DeviceSignature[1]
      /\ toHost' = << >> /\ host'.at = host.at + 1
  BY DEF HostGoesWithout, Place
<1>2. host.at = 4 \/ host.at = 6
  BY <1>1, AtStart
<1>3. CASE host.at = 4
  <2>1. host.at \in 2 .. 4 /\ host'.at \in {1, host.at + 1} /\ host.at > 2
    BY <1>1, <1>3
  <2> QED  BY <1>1, <2>1, ReadsStart
<1>4. CASE host.at = 6
  <2>1. HostStep.do = "signature" /\ toHost # << >> /\ toHost[1] = DeviceSignature[1]
    BY <1>1, <1>4, AtStart
  <2>2. Len(toHost) >= 1
    BY <2>1 DEF LinkTypes
  <2>3. toProg = << >> /\ (Closing \/ ~Running)
    BY <2>1, <2>2, AfterSignature
  <2>4. Len(toHost') = 0 /\ toHost' \in Seq(Bytes)
    BY <1>1
  <2>5. SignatureRead'
    BY <1>1, <2>3, <2>4 DEF SignatureRead, Closing, Running
  <2>6. \A i \in 1 .. Len(toHost') : toHost'[i] # DeviceSignature[1]
    BY <2>4
  <2>7. host'.at = 7 /\ toProg' = << >>
    BY <1>1, <1>4, <2>3
  <2> QED  BY <2>3, <2>4, <2>5, <2>6, <2>7, PastTheAddress
<1> QED  BY <1>2, <1>3, <1>4

\* A byte to the programmer is lost
LEMMA LosesStart ==
  ASSUME FwAlone, LinkTypes, UNCHANGED <<fw, toHost>>, host'.at = host.at, Starting,
         NEW k \in 1 .. Len(toProg), toProg' = Without(toProg, k)
  PROVE  Starting'
<1>1. /\ toProg' \in Seq(Sending) /\ Len(toProg') = Len(toProg) - 1 /\ Len(toProg) \in Nat
      /\ \A i \in 1 .. Len(toProg) - 1 : toProg'[i] = IF i < k THEN toProg[i] ELSE toProg[i + 1]
  <2>1. toProg \in Seq(Sending) /\ Len(toProg) \in Nat
    BY DEF LinkTypes
  <2>2. /\ Without(toProg, k) \in Seq(Sending) /\ Len(Without(toProg, k)) = Len(toProg) - 1
        /\ \A i \in 1 .. Len(toProg) - 1 :
             Without(toProg, k)[i] = IF i < k THEN toProg[i] ELSE toProg[i + 1]
    BY <2>1, WithoutOne, Zenon
  <2> QED  BY <2>1, <2>2, Zenon
<1>2. toProg # << >>
  BY <1>1
<1>3. Behind' = Behind /\ Behind \in {0, 3}
  BY DEF Behind
<1>4. \A i \in 1 .. Len(toProg) - Behind : IsStart(toProg[i])
  BY StartsSentIs DEF Starting
<1>5. StartsSent'
  <2>1. ASSUME NEW i \in 1 .. Len(toProg') - Behind'  PROVE IsStart(toProg'[i])
    <3>1. i \in 1 .. Len(toProg) - 1 /\ i \in 1 .. Len(toProg) - Behind
          /\ i + 1 \in 1 .. Len(toProg) - Behind
      BY <1>1, <1>3, <2>1
    <3>2. IsStart(toProg[i]) /\ IsStart(toProg[i + 1])
      BY <1>4, <3>1
    <3>3. toProg'[i] = toProg[i] \/ toProg'[i] = toProg[i + 1]
      BY <1>1, <3>1
    <3> QED  BY <3>2, <3>3
  <2> QED  BY <2>1 DEF StartsSent, Behind
<1>6. AddressAhead'
  <2>1. AddressAhead
    BY DEF Starting
  <2>2. Len(toProg') - Behind' <= Len(toProg) - Behind
    BY <1>1, <1>3
  <2> QED  BY <1>1, <1>5, <2>1, <2>2, AheadStays
<1>7. AddressTaken'
  <2>1. ~(InSignature /\ fw.sigAddr)
    BY <1>2 DEF Starting, AddressTaken
  <2> QED  BY <2>1 DEF AddressTaken, InSignature, Running
<1>8. SignatureComes'
  <2>1. \A i \in DOMAIN toHost : toHost[i] # DeviceSignature[1]
    BY <1>2 DEF Starting, SignatureComes
  <2> QED  BY <2>1 DEF SignatureComes
<1>9. SignatureRead'
  BY <1>2 DEF Starting, SignatureRead
<1> QED  BY <1>5, <1>6, <1>7, <1>8, <1>9 DEF Starting

\* A byte to the controller is lost
LEMMA LosesReply ==
  ASSUME FwAlone, LinkTypes, UNCHANGED <<fw, toProg>>, host'.at = host.at, Starting,
         NEW k \in 1 .. Len(toHost), toHost' = Without(toHost, k)
  PROVE  Starting'
<1>1. /\ toHost' \in Seq(Bytes) /\ Len(toHost') = Len(toHost) - 1 /\ Len(toHost) \in Nat
      /\ \A i \in 1 .. Len(toHost) - 1 : toHost'[i] = IF i < k THEN toHost[i] ELSE toHost[i + 1]
  <2>1. toHost \in Seq(Bytes) /\ Len(toHost) \in Nat
    BY DEF LinkTypes
  <2>2. /\ Without(toHost, k) \in Seq(Bytes) /\ Len(Without(toHost, k)) = Len(toHost) - 1
        /\ \A i \in 1 .. Len(toHost) - 1 :
             Without(toHost, k)[i] = IF i < k THEN toHost[i] ELSE toHost[i + 1]
    BY <2>1, WithoutOne, Zenon
  <2> QED  BY <2>1, <2>2, Zenon
<1>2. toHost # << >> /\ DOMAIN toHost = 1 .. Len(toHost) /\ DOMAIN toHost' = 1 .. Len(toHost')
  BY <1>1 DEF LinkTypes
<1>3. Behind' = Behind /\ Len(toProg') - Behind' <= Len(toProg) - Behind /\ toProg' \in Seq(Sending)
  BY DEF Behind, LinkTypes
<1>4. StartsSent'
  BY <1>3 DEF Starting, StartsSent
<1>5. AddressAhead'
  <2>1. AddressAhead
    BY DEF Starting
  <2> QED  BY <1>2, <1>3, <1>4, <2>1, AheadStays
<1>6. AddressTaken'
  BY DEF Starting, AddressTaken, InSignature, Running
<1>7. SignatureRead'
  <2> SUFFICES ASSUME host.at = 7  PROVE SignatureRead'
    BY DEF SignatureRead
  <2>1. toProg = << >> /\ ~Running /\ Len(toHost) <= 1
    BY <1>2 DEF Starting, SignatureRead
  <2>2. Len(toHost') = 0 /\ toHost' = << >>
    BY <1>1, <2>1
  <2> QED  BY <2>1, <2>2 DEF SignatureRead, Running
<1>8. SignatureComes'
  <2> DEFINE Good(i) ==
        /\ host'.at = 6 /\ toProg' = << >>
        /\ \/ Closing' /\ Len(toHost') - i <= 2
           \/ /\ ~Running' /\ Len(toHost') - i <= 3
              /\ Len(toHost') - i = 3 => IF LastByte' = REPL_OK THEN Synced'
                                         ELSE LastByte' = REPL_TIMEOUT
  <2> HIDE DEF Good
  <2>1. SUFFICES ASSUME NEW i \in 1 .. Len(toHost'), toHost'[i] = DeviceSignature[1]
                 PROVE  Good(i)
    BY <1>2, Zenon DEF SignatureComes, Good
  <2> DEFINE p == IF i < k THEN i ELSE i + 1
  <2>2. p \in 1 .. Len(toHost) /\ toHost[p] = DeviceSignature[1] /\ (p = i \/ p = i + 1)
        /\ Len(toHost') - i <= Len(toHost) - p
    BY <1>1, <2>1
  <2>3. Len(toHost') - i = 3 /\ Len(toHost) - p <= 3 => Len(toHost) - p = 3 /\ i >= k
    BY <1>1, <2>1
  <2>4. Len(toHost') >= k => LastByte' = LastByte
    <3> SUFFICES ASSUME Len(toHost') >= k  PROVE LastByte' = LastByte
      OBVIOUS
    <3> DEFINE l == Len(toHost')
    <3>1. l \in 1 .. Len(toHost) - 1 /\ ~(l < k) /\ l + 1 = Len(toHost)
      BY <1>1
    <3> HIDE DEF l
    <3>2. toHost'[l] = toHost[l + 1]
      BY <1>1, <3>1
    <3>3. toHost'[l] = toHost[Len(toHost)]
      BY <3>1, <3>2
    <3> QED  BY <3>3 DEF LastByte, l
  <2> HIDE DEF p
  <2>5. /\ host.at = 6 /\ toProg = << >>
        /\ \/ Closing /\ Len(toHost) - p <= 2
           \/ /\ ~Running /\ Len(toHost) - p <= 3
              /\ Len(toHost) - p = 3 => IF LastByte = REPL_OK THEN Synced
                                        ELSE LastByte = REPL_TIMEOUT
    <3>1. p \in DOMAIN toHost /\ toHost[p] = DeviceSignature[1]
      BY <1>2, <2>2
    <3> QED  BY <3>1, Zenon DEF Starting, SignatureComes
  <2>6. (Closing' <=> Closing) /\ (Running' <=> Running) /\ (Synced' <=> Synced)
    BY DEF Closing, Running, Synced
  <2>7. Len(toHost') \in Nat /\ Len(toHost) \in Nat /\ p \in Nat /\ i \in Nat
    BY <1>1, <2>1, <2>2
  <2>8. CASE Closing /\ Len(toHost) - p <= 2
    <3>1. Len(toHost') - i <= 2
      BY <2>2, <2>7, <2>8
    <3> QED  BY <2>5, <2>6, <2>8, <3>1 DEF Good
  <2>9. CASE /\ ~Running /\ Len(toHost) - p <= 3
             /\ Len(toHost) - p = 3 => IF LastByte = REPL_OK THEN Synced
                                       ELSE LastByte = REPL_TIMEOUT
    <3>1. Len(toHost') - i <= 3
      BY <2>2, <2>7, <2>9
    <3>2. Len(toHost') - i = 3 => IF LastByte' = REPL_OK THEN Synced' ELSE LastByte' = REPL_TIMEOUT
      <4> SUFFICES ASSUME Len(toHost') - i = 3
                   PROVE  IF LastByte' = REPL_OK THEN Synced' ELSE LastByte' = REPL_TIMEOUT
        OBVIOUS
      <4>1. Len(toHost) - p = 3 /\ i >= k
        BY <2>3, <2>9
      <4>2. Len(toHost') >= k
        BY <2>1, <2>7, <4>1
      <4>3. IF LastByte = REPL_OK THEN Synced ELSE LastByte = REPL_TIMEOUT
        BY <2>9, <4>1
      <4> QED  BY <2>4, <2>6, <4>2, <4>3
    <3> QED  BY <2>5, <2>6, <2>9, <3>1, <3>2 DEF Good
  <2> QED  BY <2>5, <2>8, <2>9
<1> QED  BY <1>4, <1>5, <1>6, <1>7, <1>8 DEF Starting

\* A session begins with whatever the programmer waits for
LEMMA OpensStarting ==
  ASSUME FwAlone, LinkTypes, Opens
  PROVE  Starting'
<1>1. /\ Starved /\ toHost' = << >> /\ UNCHANGED toProg /\ host'.at = 1
      /\ fw'.step = fw.step /\ fw'.cmd = fw.cmd
  BY DEF Opens
<1>2. toProg' = << >>
  BY <1>1 DEF Starved
<1>3. ~InSignature
  <2> SUFFICES ASSUME InSignature  PROVE FALSE
    OBVIOUS
  <2>1. Running /\ fw.cmd = CMD_START /\ fw.step \in 8 .. 10
    BY DEF InSignature
  <2>2. Step.op \in {"recv", "size", "packets"}
    BY <1>1, <2>1 DEF Starved, Polling, Armed, At
  <2>3. fw.step = 7
    BY <2>1, <2>2, StartPlaces
  <2> QED  BY <2>1, <2>3
<1>4. ~InSignature'
  BY <1>1, <1>3 DEF InSignature, Running
<1> QED  BY <1>1, <1>2, <1>4, StartsAnew

-------------------------------------------------------------------------------
(* What a loss leaves in step *)

\* START alone asks for the programming mode and the signature
LEMMA OnlyStartAsks ==
  ASSUME NEW call, IsCall(call), call.cmd # CMD_START, NEW a \in 1 .. LastStep(call)
  PROVE  Steps(call)[a].do \notin {"progmode", "signature"}
<1> DEFINE step == Steps(call)[a]
           Plain == {"issue", "ack", "result", "write", "data", "read"}
<1>1. Issue.do \in Plain /\ WaitAck.do \in Plain /\ Result.do \in Plain
  BY KindFacts
<1>2. \A b : Write(b).do \in Plain
  BY WriteFacts
<1>3. \A n : WriteData(n).do \in Plain /\ Read(n).do \in Plain
  BY DataFacts
<1>4. a \in Nat /\ a >= 1 /\ a <= LastStep(call) /\ LastStep(call) \in Nat
  BY LastSteps
<1>5. CASE call.cmd \in {CMD_STOP, CMD_CHIPERASE, CMD_EEPROM_WR_EN, CMD_FLASH_WR_EN, CMD_NVM_WR_DIS}
  <2>1. a \in {1, 2, 3} /\ Steps(call)[1] = Issue /\ Steps(call)[2] = WaitAck /\ Steps(call)[3] = Result
    BY <1>4, <1>5, PlainSteps
  <2>2. step \in {Issue, WaitAck, Result}
    BY <2>1
  <2> QED  BY <1>1, <2>2
<1>6. CASE call.cmd = CMD_SETBAUD
  <2> DEFINE w == WriteData(2)
  <2>1. a \in {1, 2, 3, 4, 5, 6, 7} /\ Steps(call)[1] = Issue /\ Steps(call)[2] = WaitAck
        /\ Steps(call)[3] = w /\ Steps(call)[4] = WaitAck /\ Steps(call)[5] = w
        /\ Steps(call)[6] = WaitAck /\ Steps(call)[7] = Result
    BY <1>4, <1>6, SetBaudSteps
  <2> HIDE DEF w
  <2>2. step \in {Issue, WaitAck, Result, w}
    BY <2>1
  <2> QED  BY <1>1, <1>3, <2>2 DEF w
<1>7. CASE call.cmd = CMD_SETADDR
  <2> DEFINE w == WriteData(3)
  <2>1. a \in {1, 2, 3, 4, 5} /\ Steps(call)[1] = Issue /\ Steps(call)[2] = WaitAck
        /\ Steps(call)[3] = w /\ Steps(call)[4] = WaitAck /\ Steps(call)[5] = Result
    BY <1>4, <1>7, SetAddrSteps
  <2> HIDE DEF w
  <2>2. step \in {Issue, WaitAck, Result, w}
    BY <2>1
  <2> QED  BY <1>1, <1>3, <2>2 DEF w
<1>8. CASE call.cmd = CMD_GETBYTE
  <2> DEFINE w == WriteData(3)
             r == Read(1)
  <2>1. a \in {1, 2, 3, 4, 5, 6} /\ Steps(call)[1] = Issue /\ Steps(call)[2] = WaitAck
        /\ Steps(call)[3] = w /\ Steps(call)[4] = WaitAck /\ Steps(call)[5] = r
        /\ Steps(call)[6] = Result
    BY <1>4, <1>8, GetByteSteps
  <2> HIDE DEF w, r
  <2>2. step \in {Issue, WaitAck, Result, w, r}
    BY <2>1
  <2> QED  BY <1>1, <1>2, <1>3, <2>2 DEF w, r
<1>9. CASE call.cmd = CMD_SENDBYTE
  <2> DEFINE w == WriteData(3)
             d == WriteData(1)
  <2>1. a \in {1, 2, 3, 4, 5, 6, 7} /\ Steps(call)[1] = Issue /\ Steps(call)[2] = WaitAck
        /\ Steps(call)[3] = w /\ Steps(call)[4] = WaitAck /\ Steps(call)[5] = d
        /\ Steps(call)[6] = WaitAck /\ Steps(call)[7] = Result
    BY <1>4, <1>9, SendByteSteps
  <2> HIDE DEF w, d
  <2>2. step \in {Issue, WaitAck, Result, w, d}
    BY <2>1
  <2> QED  BY <1>1, <1>2, <1>3, <2>2 DEF w, d
<1>10. CASE call.cmd = CMD_GETBLOCK
  <2> DEFINE w == Write(Word(call.n))
             r == Read(call.n)
  <2>1. a \in {1, 2, 3, 4, 5, 6} /\ Steps(call)[1] = Issue /\ Steps(call)[2] = WaitAck
        /\ Steps(call)[3] = w /\ Steps(call)[4] = WaitAck /\ Steps(call)[5] = r
        /\ Steps(call)[6] = Result
    BY <1>4, <1>10, GetBlockSteps
  <2> HIDE DEF w, r
  <2>2. step \in {Issue, WaitAck, Result, w, r}
    BY <2>1
  <2> QED  BY <1>1, <1>2, <1>3, <2>2 DEF w, r
<1>11. CASE call.cmd = CMD_SENDBLOCK
  <2>1. a = 1 \/ a = 2 \/ a = 3 \/ a >= 4
    BY <1>4
  <2>2. Steps(call)[1].do = "issue" /\ Steps(call)[2].do = "ack" /\ Steps(call)[3].do = "write"
    BY <1>11, BlockBegins
  <2>3. a >= 4 => Steps(call)[a].do \in {"ack", "result", "data"}
    BY <1>11, BlockPlaces DEF BlockPlace
  <2> QED  BY <2>1, <2>2, <2>3
<1>12. CASE call.cmd = CMD_FLASH_PAGE_ERASE
  <2>1. Moves(call, a) /\ (step.do \in Reading => step.do \in {"ack", "result"})
    BY <1>12, PageEraseKinds, StepMoves
  <2>2. step.do \in Reading \cup Writing
    BY <2>1 DEF Moves
  <2> QED  BY <2>1, <2>2 DEF Reading, Writing
<1> QED
  BY CallTypes, <1>5, <1>6, <1>7, <1>8, <1>9, <1>10, <1>11, <1>12 DEF Operating

\* No handler waits, or is slow, while the controller reads a block: a read that is given
\* up had its answer
LEMMA ReadIsAnswered ==
  ASSUME NEW call, FwAlone, LinkTypes, HostTypes, InSession, call = Current,
         Underway(call), HostStep.do = "read"
  PROVE  ~(Starved \/ At("slow") \/ At("busy") \/ At("erase"))
<1>1. Running /\ fw.cmd = call.cmd
  BY UnderwayAt
<1>2. PICK j \in 0 .. Rounds(call) : Counting(call, j)
  BY UnderwayAt
<1>3. /\ Step = Handlers[call.cmd][fw.step] /\ Meets(call, fw.step, host.at, j)
      /\ Tally(call, j) /\ Tallied(call, j)
      /\ Step.op # "packets" => fw.seg = 0
      /\ Step.op \notin {"recv", "size"} => Len(fw.args) = 0
      /\ call.cmd \in Commands /\ fw.step \in DOMAIN Handlers[call.cmd]
  BY <1>1, <1>2, BothSides, CallCommands
<1>4. HostStep = Steps(call)[host.at]
  BY StepAhead
<1> DEFINE op == Step.op
           read == HasRead(call, host.at)
           sent == HasSent(call.cmd, fw.step) + j
           got == HasGot(call.cmd, fw.step) + BlockOf(call, j)
           written == HasWritten(call, host.at)
<1>5. read <= sent /\ (op = "packets" \/ got <= written) =>
        op \notin {"recv", "size", "packets", "slow", "busy", "erase"}
  BY <1>3, <1>4 DEF Meets
<1>6. /\ read \in Nat /\ written \in Nat
      /\ HasSent(call.cmd, fw.step) \in Nat /\ HasGot(call.cmd, fw.step) \in Nat
      /\ BlockOf(call, j) \in Nat /\ j \in Nat
      /\ fw.seg \in Nat /\ Len(toHost) \in Nat /\ Len(fw.args) \in Nat /\ Len(toProg) \in Nat
  BY <1>3 DEF Tallied
<1>7. /\ read + Len(toHost) <= sent
      /\ HasGot(call.cmd, fw.step) + Len(fw.args) + BlockOf(call, j) - fw.seg + Len(toProg) <= written
  BY <1>3 DEF Tally
<1>8. read <= sent
  BY <1>6, <1>7
<1>9. op # "packets" => got <= written
  <2> DEFINE h == HasGot(call.cmd, fw.step)
             k == BlockOf(call, j)
             m == Len(fw.args)
             p == Len(toProg)
  <2>1. h + m + k - fw.seg + p <= written /\ got = h + k /\ (op # "packets" => fw.seg = 0)
        /\ h \in Nat /\ k \in Nat /\ m \in Nat /\ fw.seg \in Nat /\ written \in Nat /\ p \in Nat
    BY <1>3, <1>6, <1>7
  <2> HIDE DEF h, k, m, p, got, written, op
  <2> QED  BY <2>1
<1>10. op \notin {"recv", "size", "packets", "slow", "busy", "erase"}
  BY <1>5, <1>8, <1>9
<1> QED  BY <1>1, <1>10 DEF Starved, Polling, Armed, At

\* No ACKs are counted on any more once something was lost
LEMMA NoAcksNow ==
  ASSUME NEW call, ~host'.clean
  PROVE  Acks(call)'
BY Zenon DEF Acks

\* A reply that was on its way and is given up is not waited for
LEMMA UntilWithout ==
  ASSUME NEW call, LinkTypes, HostTypes, InSession, call = Current, HostStep.do = "read",
         host'.at = host.at + 1, toHost' = << >>, ~host'.clean,
         NEW b \in host.at + 1 .. LastStep(call), Until(call, b)
  PROVE  Until(call, b)' /\ ~LastIs(call, b)'
<1> DEFINE r == HasRead(call, host.at)
           q == HasRead(call, b)
           n == Asks(HostStep)
           w == HasRead(call, host'.at)
<1>1. /\ r \in Nat /\ q \in Nat /\ n \in Nat /\ r + n <= q
      /\ HasRead(call, host.at + 1) = r + n
      /\ HasWritten(call, host.at + 1) = HasWritten(call, host.at) + Gives(HostStep)
      /\ HasWritten(call, host.at) \in Nat
  BY StepAhead
<1>2. Gives(HostStep) = 0
  BY DEF Gives
<1>3. w = r + n /\ HasWritten(call, host'.at) = HasWritten(call, b)
  BY <1>1, <1>2 DEF Until
<1>4. Len(toHost') = 0
  OBVIOUS
<1> HIDE DEF r, q, n
<1>5. w + Len(toHost') <= q + 1 /\ w + Len(toHost') # q + 1
  <2> HIDE DEF w
  <2> QED  BY <1>1, <1>3, <1>4
<1>6. Until(call, b)'
  BY <1>3, <1>5 DEF Until, Level, q
<1>7. ~LastIs(call, b)'
  BY <1>5 DEF LastIs, q
<1> QED  BY <1>6, <1>7

\* A read of a block goes on with what there is
LEMMA GoesWithoutStays ==
  ASSUME NEW call, FwAlone, LinkTypes, HostTypes, InSession, call = Current, UNCHANGED fw,
         InStep(call), HostGoesWithout, host.pos > 1
  PROVE  InStep(call)'
<1>1. /\ HostStep.do \in {"progmode", "read", "signature"} /\ Len(toHost) < Asks(HostStep)
      /\ HostStep.do # "progmode" => toHost # << >>
      /\ Starved \/ At("slow") \/ At("busy") \/ At("erase")
      /\ toHost' = << >> /\ UNCHANGED toProg
      /\ host'.at = host.at + 1 /\ host'.pos = host.pos /\ ~host'.clean
  BY DEF HostGoesWithout, Place, Flags
<1>2. /\ IsCall(call) /\ host.at \in 1 .. LastStep(call) /\ LastStep(call) \in Nat
      /\ HostStep = Steps(call)[host.at] /\ host.at \in Nat
      /\ HostStep.do = "result" <=> host.at = LastStep(call)
  BY StepAhead
<1>3. HostStep.do = "read" /\ toHost # << >>
  <2>1. call.cmd # CMD_START
    BY JobEnds, <1>1, Calling
  <2>2. HostStep.do \notin {"progmode", "signature"}
    BY <1>2, <2>1, OnlyStartAsks
  <2> QED  BY <1>1, <2>2
<1>4. Acks(call)' /\ host'.at # 1
  BY <1>1, <1>2, NoAcksNow
<1>5. ~Fresh(call)
  BY <1>3 DEF Fresh
<1>6. ~Underway(call)
  BY <1>1, <1>3, ReadIsAnswered
<1>7. ~ByteFailed(call)
  <2> SUFFICES ASSUME ByteFailed(call)  PROVE FALSE
    OBVIOUS
  <2>1. call.cmd = CMD_SENDBYTE /\ host.at \in 4 .. 6
    BY DEF ByteFailed
  <2>2. host.at \in {4, 5, 6} /\ HostStep = IF host.at = 5 THEN WriteData(1) ELSE WaitAck
    BY <1>2, <2>1, SendByteSteps
  <2> QED  BY <1>3, <2>2, DataFacts, KindFacts
<1>8. CASE Done(call)
  <2>1. LastStep(call) \in host.at + 1 .. LastStep(call)
    BY <1>2, <1>3
  <2>2. Until(call, LastStep(call))
    BY <1>8 DEF Done
  <2>3. Until(call, LastStep(call))' /\ ~LastIs(call, LastStep(call))'
    BY <1>1, <1>3, <2>1, <2>2, UntilWithout
  <2>4. ~Running' /\ toProg' = << >>
    BY <1>1, <1>8 DEF Done, Running
  <2>5. Done(call)'
    BY <1>8, <2>3, <2>4 DEF Done
  <2> QED  BY <1>4, <2>5, Zenon DEF InStep, Phase
<1>9. CASE Failed(call)
  <2>1. PICK b \in host.at .. LastStep(call) : Judges(call, b) /\ Until(call, b)
    BY <1>9 DEF Failed
  <2>2. b # host.at
    BY <1>2, <1>3, <2>1 DEF Judges
  <2>3. b \in host.at + 1 .. LastStep(call)
    BY <1>2, <2>1, <2>2
  <2>4. Until(call, b)' /\ ~LastIs(call, b)'
    BY <1>1, <1>3, <2>1, <2>3, UntilWithout
  <2>5. b \in host'.at .. LastStep(call)
    BY <1>1, <2>3
  <2>6. ~Running' /\ Open' /\ toProg' = << >>
    BY <1>1, <1>9 DEF Failed, Running, Open
  <2>7. Failed(call)'
    BY <2>1, <2>4, <2>5, <2>6, Zenon DEF Failed
  <2> QED  BY <1>4, <2>7, Zenon DEF InStep, Phase
<1> QED  BY <1>5, <1>6, <1>7, <1>8, <1>9 DEF InStep, Phase

-------------------------------------------------------------------------------
(* One byte is lost on its way *)

\* What a loss does to what is under way
LEMMA LossIs ==
  ASSUME LinkTypes, Loses
  PROVE  /\ host'.at = host.at /\ host'.pos = host.pos /\ ~host'.clean
         /\ UNCHANGED <<portOpen, fw>>
         /\ Len(toProg) \in Nat /\ Len(toHost) \in Nat
         /\ \/ /\ UNCHANGED toHost /\ Len(toProg) > 0 /\ Len(toProg') = Len(toProg) - 1
               /\ \A i \in 1 .. Len(toProg') : /\ i \in 1 .. Len(toProg) /\ i + 1 \in 1 .. Len(toProg)
                                               /\ toProg'[i] = toProg[i] \/ toProg'[i] = toProg[i + 1]
            \/ /\ UNCHANGED toProg /\ Len(toHost) > 0 /\ Len(toHost') = Len(toHost) - 1
               /\ \A i \in 1 .. Len(toHost') : /\ i \in 1 .. Len(toHost) /\ i + 1 \in 1 .. Len(toHost)
                                               /\ toHost'[i] = toHost[i] \/ toHost'[i] = toHost[i + 1]
<1>1. /\ host'.at = host.at /\ host'.pos = host.pos /\ ~host'.clean
      /\ UNCHANGED <<portOpen, fw>>
  BY Zenon DEF Loses, Place, Flags
<1>2. Len(toProg) \in Nat /\ Len(toHost) \in Nat
  BY DEF LinkTypes
<1>3. CASE (\E k \in 1 .. Len(toProg) : toProg' = Without(toProg, k)) /\ UNCHANGED toHost
  <2>1. PICK k \in 1 .. Len(toProg) : toProg' = Without(toProg, k)
    BY <1>3
  <2>2. /\ Len(toProg') = Len(toProg) - 1
        /\ \A i \in 1 .. Len(toProg) - 1 : toProg'[i] = IF i < k THEN toProg[i] ELSE toProg[i + 1]
    <3>1. toProg \in Seq(Sending)
      BY DEF LinkTypes
    <3>2. Len(Without(toProg, k)) = Len(toProg) - 1
      BY <3>1, WithoutOne, Zenon
    <3>3. \A i \in 1 .. Len(toProg) - 1 : Without(toProg, k)[i] = IF i < k THEN toProg[i] ELSE toProg[i + 1]
      BY <3>1, WithoutOne, Zenon
    <3> QED  BY <2>1, <3>2, <3>3, Zenon
  <2>3. \A i \in 1 .. Len(toProg') : /\ i \in 1 .. Len(toProg) /\ i + 1 \in 1 .. Len(toProg)
                                     /\ toProg'[i] = toProg[i] \/ toProg'[i] = toProg[i + 1]
    BY <1>2, <2>2
  <2>4. Len(toProg) > 0
    BY <1>2, <2>1
  <2> QED  BY <1>1, <1>2, <1>3, <2>2, <2>3, <2>4
<1>4. CASE (\E k \in 1 .. Len(toHost) : toHost' = Without(toHost, k)) /\ UNCHANGED toProg
  <2>1. PICK k \in 1 .. Len(toHost) : toHost' = Without(toHost, k)
    BY <1>4
  <2>2. /\ Len(toHost') = Len(toHost) - 1
        /\ \A i \in 1 .. Len(toHost) - 1 : toHost'[i] = IF i < k THEN toHost[i] ELSE toHost[i + 1]
    <3>1. toHost \in Seq(Bytes)
      BY DEF LinkTypes
    <3>2. Len(Without(toHost, k)) = Len(toHost) - 1
      BY <3>1, WithoutOne, Zenon
    <3>3. \A i \in 1 .. Len(toHost) - 1 : Without(toHost, k)[i] = IF i < k THEN toHost[i] ELSE toHost[i + 1]
      BY <3>1, WithoutOne, Zenon
    <3> QED  BY <2>1, <3>2, <3>3, Zenon
  <2>3. \A i \in 1 .. Len(toHost') : /\ i \in 1 .. Len(toHost) /\ i + 1 \in 1 .. Len(toHost)
                                     /\ toHost'[i] = toHost[i] \/ toHost'[i] = toHost[i + 1]
    BY <1>2, <2>2
  <2>4. Len(toHost) > 0
    BY <1>2, <2>1
  <2> QED  BY <1>1, <1>2, <1>4, <2>2, <2>3, <2>4
<1> QED  BY <1>1, <1>2, <1>3, <1>4, Zenon DEF Loses

\* The same, without the byte itself
LEMMA LossLeaves ==
  ASSUME LinkTypes, Loses
  PROVE  /\ host'.at = host.at /\ host'.pos = host.pos /\ ~host'.clean
         /\ UNCHANGED <<portOpen, fw>>
         /\ Len(toProg') \in Nat /\ Len(toHost') \in Nat
         /\ Len(toProg') <= Len(toProg) /\ Len(toHost') <= Len(toHost)
         /\ toProg = << >> => UNCHANGED toProg /\ Len(toHost') = Len(toHost) - 1
         /\ toHost = << >> => UNCHANGED toHost
         /\ OnlyData => OnlyData'
<1>1. /\ host'.at = host.at /\ host'.pos = host.pos /\ ~host'.clean
      /\ UNCHANGED <<portOpen, fw>>
      /\ Len(toProg) \in Nat /\ Len(toHost) \in Nat
  BY LossIs
<1>2. CASE /\ UNCHANGED toHost /\ Len(toProg) > 0 /\ Len(toProg') = Len(toProg) - 1
           /\ \A i \in 1 .. Len(toProg') : /\ i \in 1 .. Len(toProg) /\ i + 1 \in 1 .. Len(toProg)
                                           /\ toProg'[i] = toProg[i] \/ toProg'[i] = toProg[i + 1]
  <2>1. toProg # << >> /\ Len(toProg') \in Nat /\ Len(toHost') \in Nat
        /\ Len(toProg') <= Len(toProg) /\ Len(toHost') <= Len(toHost)
    BY <1>1, <1>2
  <2>2. OnlyData => OnlyData'
    <3> SUFFICES ASSUME OnlyData, NEW i \in DOMAIN toProg'  PROVE ~toProg'[i].cmd
      BY DEF OnlyData
    <3>1. DOMAIN toProg' = 1 .. Len(toProg') /\ DOMAIN toProg = 1 .. Len(toProg)
      <4>1. PICK k \in 1 .. Len(toProg) : toProg' = Without(toProg, k)
        BY <1>1, <1>2 DEF Loses
      <4>2. toProg \in Seq(Sending)
        BY DEF LinkTypes
      <4>3. toProg' \in Seq(Sending)
        BY <4>1, <4>2, WithoutOne, Zenon
      <4> QED  BY <4>2, <4>3
    <3>2. ~toProg[i].cmd /\ ~toProg[i + 1].cmd
      BY <1>2, <3>1 DEF OnlyData
    <3> QED  BY <1>2, <3>1, <3>2
  <2> QED  BY <1>1, <1>2, <2>1, <2>2
<1>3. CASE /\ UNCHANGED toProg /\ Len(toHost) > 0 /\ Len(toHost') = Len(toHost) - 1
  <2>1. toHost # << >>
    BY <1>3
  <2> QED  BY <1>1, <1>3, <2>1 DEF OnlyData
<1> QED  BY <1>2, <1>3, LossIs

LEMMA LossFresh ==
  ASSUME NEW call, LinkTypes, Fresh(call), Loses
  PROVE  Fresh(call)'
<1>1. /\ host'.at = host.at /\ host'.pos = host.pos /\ ~host'.clean
      /\ UNCHANGED <<portOpen, fw>>
      /\ Len(toProg') \in Nat /\ Len(toHost') \in Nat
      /\ toProg = << >> => UNCHANGED toProg /\ Len(toHost') = Len(toHost) - 1
      /\ toHost = << >> => UNCHANGED toHost
  BY LossLeaves
<1>2. toHost = << >> /\ ~Running /\ Open
  BY DEF Fresh
<1>3. toProg # << >> /\ host.at = 2 /\ toProg = <<[val |-> call.cmd, cmd |-> TRUE]>>
  <2>1. Len(toHost) = 0
    BY <1>2
  <2>2. toProg # << >>
    BY <1>1, <2>1
  <2> QED  BY <2>2 DEF Fresh
<1>4. Len(toProg') = 0
  <2>1. Len(toProg) = 1
    BY <1>3
  <2>2. Len(toProg') = Len(toProg) - 1 \/ (Len(toHost) > 0 /\ UNCHANGED toProg)
    BY LossIs
  <2> QED  BY <1>2, <2>1, <2>2
<1>5. toProg' = << >>
  <2>1. PICK k \in 1 .. Len(toProg) : toProg' = Without(toProg, k)
    <3>1. Len(toHost) = 0
      BY <1>2
    <3> QED  BY <3>1 DEF Loses
  <2>2. toProg' \in Seq(Sending)
    <3>1. toProg \in Seq(Sending)
      BY DEF LinkTypes
    <3> QED  BY <2>1, <3>1, WithoutOne, Zenon
  <2> QED  BY <1>4, <2>2
<1>6. ~Running' /\ Open'
  BY <1>1, <1>2 DEF Running, Open
<1>7. toHost' = << >> /\ host'.at = 2
  BY <1>1, <1>2, <1>3
<1> QED  BY <1>1, <1>5, <1>6, <1>7 DEF Fresh

LEMMA LossUnderway ==
  ASSUME NEW call, FwAlone, LinkTypes, HostTypes, InSession, call = Current,
         Underway(call), Loses
  PROVE  Underway(call)'
<1>1. /\ host'.at = host.at /\ host'.pos = host.pos /\ ~host'.clean
      /\ UNCHANGED <<portOpen, fw>>
      /\ Len(toProg') \in Nat /\ Len(toHost') \in Nat
      /\ Len(toProg') <= Len(toProg) /\ Len(toHost') <= Len(toHost)
      /\ OnlyData => OnlyData'
  BY LossLeaves
<1>2. PICK j \in 0 .. Rounds(call) : Counting(call, j)
  BY UnderwayAt
<1>3. /\ Running /\ fw.cmd = call.cmd /\ Open /\ SizeIsCalls(call) /\ OnlyData
  BY UnderwayAt
<1>4. Known(call, j) /\ Counted(call, j) /\ Looped(call, j)
  BY <1>2, <1>3, Knows DEF Inside, Counting
<1>5. Counted(call, j)'
  <2>1. SentBy(call, j)' = SentBy(call, j) /\ GotBy(call, j)' = GotBy(call, j)
    BY <1>1 DEF SentBy, GotBy, BlockGot
  <2>2. /\ SentBy(call, j) \in Nat /\ GotBy(call, j) \in Int
        /\ HasRead(call, host.at) \in Nat /\ HasWritten(call, host.at) \in Nat
        /\ Len(toHost) \in Nat /\ Len(toProg) \in Nat
        /\ HasRead(call, host.at) + Len(toHost) <= SentBy(call, j)
        /\ GotBy(call, j) + Len(toProg) <= HasWritten(call, host.at)
    BY <1>4, Balance DEF Level
  <2>3. /\ HasRead(call, host'.at) = HasRead(call, host.at)
        /\ HasWritten(call, host'.at) = HasWritten(call, host.at)
    BY <1>1
  <2>4. /\ HasRead(call, host.at) + Len(toHost') <= SentBy(call, j)
        /\ GotBy(call, j) + Len(toProg') <= HasWritten(call, host.at)
    <3> DEFINE r == HasRead(call, host.at)
               w == HasWritten(call, host.at)
               s == SentBy(call, j)
               g == GotBy(call, j)
    <3>1. /\ s \in Nat /\ g \in Int /\ r \in Nat /\ w \in Nat
          /\ r + Len(toHost) <= s /\ g + Len(toProg) <= w
      BY <2>2
    <3> HIDE DEF r, w, s, g
    <3>2. r + Len(toHost') <= s /\ g + Len(toProg') <= w
      BY <1>1, <2>2, <3>1
    <3> QED  BY <3>2 DEF r, w, s, g
  <2>5. Level(HasRead(call, host.at) + Len(toHost), SentBy(call, j))'
    BY <1>1, <2>1, <2>3, <2>4 DEF Level
  <2>6. Level(GotBy(call, j) + Len(toProg), HasWritten(call, host.at))'
    BY <1>1, <2>1, <2>3, <2>4 DEF Level
  <2> QED  BY <2>5, <2>6, Zenon DEF Counted, SentBy, GotBy
<1>6. Looped(call, j)'
  BY <1>1, <1>4, Zenon DEF Looped
<1>7. SizeIsCalls(call)'
  <2>1. (At("size")' => At("size")) /\ fw' = fw
    BY <1>1 DEF At, Running, Step
  <2>2. CASE UNCHANGED toProg
    BY <1>3, <2>1, <2>2 DEF SizeIsCalls
  <2>3. CASE Len(toProg') = Len(toProg) - 1
    <3>1. At("size") => /\ Len(fw.args) \in Nat /\ Len(fw.args) + Len(toProg) <= 2
                        /\ fw.args # << >> => Len(fw.args) = 1
      <4> SUFFICES ASSUME At("size")
                   PROVE  /\ Len(fw.args) \in Nat /\ Len(fw.args) + Len(toProg) <= 2
                          /\ fw.args # << >> => Len(fw.args) = 1
        OBVIOUS
      <4>1. Step.op = "size"
        BY DEF At
      <4>2. Gets(call.cmd, fw.step) = 2 /\ Len(fw.args) \in Nat
            /\ (fw.args # << >> => Len(fw.args) = 1)
        BY <1>3, <4>1, ArgsHeld
      <4>3. Len(fw.args) + Len(toProg) <= Gets(call.cmd, fw.step)
        BY <1>2, <1>3, <4>1, Room
      <4> QED  BY <4>2, <4>3
    <3>2. Len(toProg) \in Nat
      BY DEF LinkTypes
    <3>3. At("size") => /\ Len(toProg') # 2
                        /\ fw.args # << >> => Len(toProg') # 1
      <4> DEFINE m == Len(fw.args)
                 l == Len(toProg)
                 p == Len(toProg')
      <4>1. p = l - 1 /\ l \in Nat /\ (At("size") => m \in Nat /\ m + l <= 2 /\ (fw.args # << >> => m = 1))
        BY <2>3, <3>1, <3>2
      <4> HIDE DEF m, l, p
      <4>2. At("size") => p # 2 /\ (fw.args # << >> => p # 1)
        BY <4>1
      <4> QED  BY <4>2 DEF p
    <3> QED  BY <1>3, <2>1, <3>3 DEF SizeIsCalls
  <2>4. UNCHANGED toProg \/ Len(toProg') = Len(toProg) - 1
    BY LossIs
  <2> QED  BY <2>2, <2>3, <2>4
<1>8. Open' /\ Running' /\ fw'.cmd = call.cmd /\ OnlyData'
  BY <1>1, <1>3 DEF Open, Running
<1> QED  BY <1>5, <1>6, <1>7, <1>8, StaysUnderway

\* A reply that is lost is not waited for
LEMMA LossUntil ==
  ASSUME NEW call, LinkTypes, HostTypes, InSession, call = Current, Loses, toProg = << >>,
         NEW b \in host.at .. LastStep(call), Until(call, b)
  PROVE  Until(call, b)' /\ ~LastIs(call, b)'
<1>1. /\ host'.at = host.at /\ ~host'.clean /\ Len(toHost') = Len(toHost) - 1
      /\ Len(toHost') \in Nat
  BY LossLeaves
<1>2. /\ HasRead(call, host.at) \in Nat /\ Len(toHost) \in Nat /\ HasRead(call, b) \in Nat
  <2>1. HasRead(call, host.at) \in Nat /\ Len(toHost) \in Nat /\ host.at \in Nat
        /\ LastStep(call) \in Nat
    BY StepAhead
  <2>2. b = host.at \/ b \in host.at + 1 .. LastStep(call)
    BY <2>1
  <2> QED  BY <2>1, <2>2, StepAhead
<1> DEFINE r == HasRead(call, host.at)
           q == HasRead(call, b)
<1>3. r + Len(toHost) <= q + 1 /\ HasWritten(call, host.at) = HasWritten(call, b)
  BY DEF Until, Level
<1>4. r \in Nat /\ q \in Nat
  BY <1>2
<1>5. HasRead(call, host'.at) = r /\ HasWritten(call, host'.at) = HasWritten(call, b)
  BY <1>1, <1>3
<1> HIDE DEF r, q
<1>6. r + Len(toHost') <= q + 1 /\ r + Len(toHost') # q + 1
  BY <1>1, <1>2, <1>3, <1>4
<1>7. Until(call, b)'
  BY <1>1, <1>5, <1>6 DEF Until, Level, q
<1>8. ~LastIs(call, b)'
  BY <1>5, <1>6 DEF LastIs, q
<1> QED  BY <1>7, <1>8

LEMMA LossDone ==
  ASSUME NEW call, LinkTypes, HostTypes, InSession, call = Current, Done(call), Loses
  PROVE  Done(call)'
<1>1. toProg = << >> /\ Until(call, LastStep(call))
  BY DEF Done
<1>2. LastStep(call) \in host.at .. LastStep(call)
  BY StepAhead
<1>3. Until(call, LastStep(call))' /\ ~LastIs(call, LastStep(call))'
  BY <1>1, <1>2, LossUntil
<1>4. toProg' = << >> /\ fw' = fw
  BY <1>1, LossLeaves
<1>5. ~Running'
  BY <1>4 DEF Done, Running
<1> QED  BY <1>3, <1>4, <1>5 DEF Done

LEMMA LossFailed ==
  ASSUME NEW call, LinkTypes, HostTypes, InSession, call = Current, Failed(call), Loses
  PROVE  Failed(call)'
<1>1. PICK b \in host.at .. LastStep(call) : Judges(call, b) /\ Until(call, b)
  BY DEF Failed
<1>2. toProg = << >>
  BY DEF Failed
<1>3. Until(call, b)' /\ ~LastIs(call, b)'
  BY <1>1, <1>2, LossUntil
<1>4. toProg' = << >> /\ fw' = fw /\ host'.at = host.at /\ host'.pos = host.pos
  BY <1>2, LossLeaves
<1>5. ~Running' /\ Open'
  BY <1>4 DEF Failed, Running, Open
<1>6. b \in host'.at .. LastStep(call)
  BY <1>1, <1>4
<1> QED  BY <1>1, <1>3, <1>4, <1>5, <1>6, Zenon DEF Failed

LEMMA LossByteFailed ==
  ASSUME NEW call, LinkTypes, ByteFailed(call), Loses
  PROVE  ByteFailed(call)'
<1>1. /\ host'.at = host.at /\ host'.pos = host.pos /\ ~host'.clean
      /\ UNCHANGED <<portOpen, fw>>
      /\ Len(toProg') \in Nat /\ Len(toHost') \in Nat
      /\ Len(toProg') <= Len(toProg) /\ OnlyData => OnlyData'
  BY LossLeaves
<1> DEFINE k == IF host.at = 4 THEN 2 ELSE 1
<1>2. /\ call.cmd = CMD_SENDBYTE /\ host.at \in 4 .. 6
      /\ Len(toProg) <= Once(host.at = 6) /\ OnlyData
      /\ ~fw.astray => /\ ~Running /\ Open
                       /\ \A i \in k .. Len(toHost) : IsBad(toHost[i])
  BY DEF ByteFailed
<1>3. Len(toProg') <= Once(host.at = 6) /\ OnlyData'
  <2>1. Len(toProg) \in Nat
    BY LossIs
  <2>2. Len(toProg') <= Len(toProg) /\ OnlyData'
    BY <1>1, <1>2, LossLeaves
  <2>3. Once(host.at = 6) \in Nat
    BY DEF Once
  <2> QED  BY <1>1, <1>2, <2>1, <2>2, <2>3
<1>4. ASSUME ~fw.astray  PROVE ~Running' /\ Open' /\ \A i \in k .. Len(toHost') : IsBad(toHost'[i])
  <2>1. ~Running' /\ Open'
    BY <1>1, <1>2, <1>4 DEF Running, Open
  <2>2. ASSUME NEW i \in k .. Len(toHost')  PROVE IsBad(toHost'[i])
    <3>1. i \in Nat /\ i >= k /\ i >= 1 /\ i \in 1 .. Len(toHost')
      BY <1>1
    <3>2. CASE UNCHANGED toHost
      BY <1>2, <1>4, <2>2, <3>2
    <3>3. CASE /\ i \in 1 .. Len(toHost) /\ i + 1 \in 1 .. Len(toHost)
               /\ toHost'[i] = toHost[i] \/ toHost'[i] = toHost[i + 1]
      <4>1. i \in k .. Len(toHost) /\ i + 1 \in k .. Len(toHost)
        BY <3>1, <3>3
      <4> QED  BY <1>2, <1>4, <3>3, <4>1
    <3>4. UNCHANGED toHost \/ /\ i \in 1 .. Len(toHost) /\ i + 1 \in 1 .. Len(toHost)
                              /\ toHost'[i] = toHost[i] \/ toHost'[i] = toHost[i + 1]
      BY <3>1, LossIs
    <3> QED  BY <3>2, <3>3, <3>4
  <2> QED  BY <2>1, <2>2
<1>5. /\ call.cmd = CMD_SENDBYTE /\ host'.at \in 4 .. 6 /\ k = IF host'.at = 4 THEN 2 ELSE 1
      /\ Len(toProg') <= Once(host'.at = 6)
  BY <1>1, <1>2, <1>3
<1>6. ~fw'.astray => ~Running' /\ Open' /\ \A i \in k .. Len(toHost') : IsBad(toHost'[i])
  BY <1>1, <1>4
<1> QED  BY <1>1, <1>3, <1>5, <1>6 DEF ByteFailed

\* The two sides are in step without it
LEMMA LossStays ==
  ASSUME NEW call, FwAlone, LinkTypes, HostTypes, InSession, call = Current,
         InStep(call), Loses
  PROVE  InStep(call)'
<1>1. ~host'.clean /\ host'.at = host.at
  BY LossLeaves
<1>2. Acks(call)'
  BY <1>1, NoAcksNow
<1>3. Fresh(call) => Fresh(call)'
  BY LossFresh
<1>4. Phase(call)'
  BY <1>3, LossUnderway, LossDone, LossFailed, LossByteFailed, Zenon DEF InStep, Phase
<1>5. host'.at = 1 => Fresh(call)'
  BY <1>1, <1>3 DEF InStep
<1> QED  BY <1>2, <1>4, <1>5 DEF InStep

-------------------------------------------------------------------------------
(* Any session, as long as the controller knows where the programmer is *)

Oriented == InSession /\ ~Disoriented =>
              /\ host.pos = 1 => Starting
              /\ host.pos > 1 => InStep(Current)

OrientedInv == CleanInv /\ Oriented /\ OkIsOwn

\* What looks like the signature's first byte while a session starts is START's answer
SignatureIsStarts == InSession /\ ~Disoriented /\ host.pos = 1 => Unmistaken

\* What can be relied upon in a step of such a session
LEMMA OrientedAt ==
  ASSUME OrientedInv
  PROVE  /\ FwAlone /\ LinkTypes /\ HostTypes
         /\ InSession => host.pos = 1 \/ host.pos > 1
         /\ ~Disoriented => (host.clean \/ ~fw.astray) /\ ~host.fooled
         /\ InSession /\ ~Disoriented /\ host.pos = 1 => Starting
         /\ InSession /\ ~Disoriented /\ host.pos > 1 => InStep(Current)
<1>1. FwAlone /\ LinkTypes /\ HostTypes
  BY DEF OrientedInv, CleanInv, Types
<1>2. InSession => host.pos = 1 \/ host.pos > 1
  <2> SUFFICES ASSUME InSession  PROVE host.pos = 1 \/ host.pos > 1
    OBVIOUS
  <2>1. IsJob(host.job) /\ host.pos \in DOMAIN host.job /\ Len(host.job) \in Nat
    BY <1>1, Calling
  <2>2. host.pos \in 1 .. Len(host.job)
    BY <2>1 DEF IsJob
  <2> QED  BY <2>1, <2>2
<1>3. ~Disoriented => host.clean \/ ~fw.astray
  BY Zenon DEF Disoriented
<1>4. ~Disoriented => ~host.fooled
  BY Zenon DEF OrientedInv, OkIsOwn
<1>5. Oriented
  BY DEF OrientedInv
<1>6. /\ InSession /\ ~Disoriented /\ host.pos = 1 => Starting
      /\ InSession /\ ~Disoriented /\ host.pos > 1 => InStep(Current)
  BY <1>5, Zenon DEF Oriented
<1> QED  BY <1>1, <1>2, <1>3, <1>4, <1>6

\* The ways in which a step keeps to it
LEMMA KeepsStart ==
  ASSUME Starting', host'.pos = 1
  PROVE  Oriented'
<1>1. ~(host'.pos > 1)
  OBVIOUS
<1> QED  BY <1>1, Zenon DEF Oriented

LEMMA KeepsCall ==
  ASSUME NEW call, call = Current, host'.pos = host.pos, host'.job = host.job, host.pos > 1,
         InStep(call)'
  PROVE  Oriented'
<1>1. Current' = call
  BY DEF Current
<1>2. InStep(Current)'
  BY <1>1
<1>3. host'.pos # 1
  OBVIOUS
<1> QED  BY <1>2, <1>3, Zenon DEF Oriented

LEMMA KeepsAll ==
  ASSUME \A next : InStep(next)', host'.pos # 1
  PROVE  Oriented'
<1>1. ASSUME NEW CONSTANT c, c = Current', InStep(c)'  PROVE InStep(Current)'
  BY <1>1
<1> QED  BY <1>1, Zenon DEF Oriented

LEMMA KeepsNone ==
  ASSUME Disoriented' \/ ~InSession'
  PROVE  Oriented'
BY Zenon DEF Oriented

\* A controller that has lost its way does not find it in the same session
LEMMA SameFlags ==
  ASSUME OkIsOwn, UNCHANGED fw, Flags(host.clean, host.fooled, host.skipped)
  PROVE  OkIsOwn' /\ (Disoriented => Disoriented')
BY Zenon DEF OkIsOwn, Disoriented, Flags

LEMMA UncleanFlags ==
  ASSUME OkIsOwn, UNCHANGED fw, Flags(FALSE, host.fooled, host.skipped)
  PROVE  OkIsOwn' /\ (Disoriented => Disoriented')
BY Zenon DEF OkIsOwn, Disoriented, Flags

LEMMA SkippedFlags ==
  ASSUME OkIsOwn, UNCHANGED fw, NEW c, c => host.clean, Flags(c, host.fooled, TRUE)
  PROVE  OkIsOwn' /\ (Disoriented => Disoriented') /\ (Disoriented' \/ host'.clean)
BY Zenon DEF OkIsOwn, Disoriented, Flags

\* The controller acts: the first call
LEMMA HostKeepsStarting ==
  ASSUME FwAlone, LinkTypes, HostTypes, InSession, UNCHANGED fw, Starting, host.pos = 1,
         \/ \E bytes \in Seq(Bytes), isCmd \in BOOLEAN : HostSends(bytes, isCmd)
         \/ HostTakes \/ HostGoesWithout \/ RefusedRetries \/ LateRetries
  PROVE  Starting' /\ host'.pos = 1
<1>1. /\ host.at \in 1 .. 7
      /\ HostStep.do \in Writing <=> host.at \in {1, 5}
      /\ HostStep.do = "ack" <=> host.at = 2
      /\ HostStep.do = "result" <=> host.at = 7
  BY AtStart
<1>2. CASE \E bytes \in Seq(Bytes), isCmd \in BOOLEAN : HostSends(bytes, isCmd)
  <2>1. PICK bytes \in Seq(Bytes), isCmd \in BOOLEAN : HostSends(bytes, isCmd)
    BY <1>2
  <2>2. host'.pos = host.pos
    BY <2>1 DEF HostSends, Place
  <2> QED  BY <2>1, <2>2, SendsStart
<1>3. CASE HostTakes
  <2>1. /\ HostStep.do \in Reading \ {"result"} /\ Len(toHost) >= Asks(HostStep)
        /\ toHost' = Remainder /\ UNCHANGED toProg
        /\ host'.at = host.at + 1 /\ host'.pos = host.pos
    BY <1>3 DEF HostTakes, Place
  <2>2. HostStep.do \notin Writing
    BY <2>1 DEF Reading, Writing
  <2>3. host.at \in 2 .. 4 \/ host.at = 6
    BY <1>1, <2>1, <2>2
  <2>4. CASE host.at = 6
    BY <1>3, <2>1, <2>4, TakesSignature
  <2>5. CASE host.at \in 2 .. 4
    BY <2>1, <2>5, ReadsStart
  <2> QED  BY <2>3, <2>4, <2>5
<1>4. CASE HostGoesWithout
  <2>1. host'.pos = host.pos
    BY <1>4 DEF HostGoesWithout, Place
  <2> QED  BY <1>4, <2>1, GoesWithoutStarting
<1>5. CASE RefusedRetries
  <2>1. /\ HostStep.do = "ack" /\ Len(toHost) >= Asks(HostStep)
        /\ toHost' = Remainder /\ UNCHANGED toProg
        /\ host'.at = 1 /\ host'.pos = host.pos
    BY <1>5 DEF RefusedRetries, Refused, Place
  <2>2. host.at \in 2 .. 4
    BY <1>1, <2>1
  <2> QED  BY <2>1, <2>2, ReadsStart
<1>6. CASE LateRetries
  <2>1. /\ HostStep.do = "ack" /\ toHost' = << >> /\ UNCHANGED toProg
        /\ host'.at = 1 /\ host'.pos = host.pos
    BY <1>6 DEF LateRetries, Late, Place
  <2>2. host.at \in 2 .. 4 /\ ~(host'.at > 2)
    BY <1>1, <2>1
  <2> QED  BY <2>1, <2>2, ReadsStart
<1> QED  BY <1>2, <1>3, <1>4, <1>5, <1>6

\* START is over: the programmer waits for the next command with the link open
LEMMA StartConcludes ==
  ASSUME FwAlone, LinkTypes, HostTypes, InSession, UNCHANGED fw, Starting, host.pos = 1,
         HostConcludesCall, NEW next
  PROVE  InStep(next)' /\ fw.answered = Current.cmd
<1>1. /\ HostStep.do = "result" /\ Len(toHost) >= 1 /\ toHost[1] = REPL_OK
      /\ toHost' = Remainder /\ UNCHANGED toProg /\ host'.at = 1
  BY DEF HostConcludesCall, Place
<1>2. host.at = 7 /\ Current.cmd = CMD_START /\ Asks(HostStep) = 1
  BY <1>1, AtStart
<1>3. toHost # << >> /\ Len(toHost) \in Nat
  BY <1>1 DEF LinkTypes
<1>4. toProg = << >> /\ ~Running /\ Len(toHost) <= 1 /\ Synced
  BY <1>1, <1>2, <1>3 DEF Starting, SignatureRead
<1>5. toHost' = << >>
  <2>1. Len(toHost) = 1
    <3> DEFINE l == Len(toHost)
    <3>1. l \in Nat /\ l >= 1 /\ l <= 1
      BY <1>1, <1>3, <1>4
    <3> HIDE DEF l
    <3>2. l = 1
      BY <3>1
    <3> QED  BY <3>2 DEF l
  <2> QED  BY <1>1, <1>2, <2>1 DEF Remainder, LinkTypes
<1>6. ~Running' /\ Open' /\ toProg' = << >>
  BY <1>1, <1>4 DEF Running, Open, Synced
<1>7. InStep(next)'
  BY <1>1, <1>5, <1>6, BeginsAnew
<1> QED  BY <1>2, <1>4, <1>7 DEF Synced

\* The controller acts
LEMMA HostKeeps ==
  ASSUME OrientedInv, HostActs, UNCHANGED fw, CleanInStep'
  PROVE  Oriented' /\ OkIsOwn'
<1>1. FwAlone /\ LinkTypes /\ HostTypes /\ OkIsOwn
  BY OrientedAt DEF OrientedInv
<1>2. InSession
  BY Zenon DEF HostActs, HostSends, HostTakes, HostConcludesCall, HostBeginsAgain, HostGoesWithout,
         RefusedRetries, RefusedSkips, Refused, LateRetries, LateSkips, Late, HostExits
<1>c. PICK call : call = Current
  OBVIOUS
<1>3. /\ host.pos = 1 \/ host.pos > 1
      /\ ~Disoriented => (host.clean \/ ~fw.astray) /\ ~host.fooled
      /\ ~Disoriented /\ host.pos = 1 => Starting
      /\ ~Disoriented /\ host.pos > 1 => InStep(call)
  BY <1>2, <1>c, OrientedAt
<1>p. host.pos \in Nat
  BY <1>1 DEF HostTypes
<1>4. CASE \E bytes \in Seq(Bytes), isCmd \in BOOLEAN : HostSends(bytes, isCmd)
  <2>1. PICK bytes \in Seq(Bytes), isCmd \in BOOLEAN : HostSends(bytes, isCmd)
    BY <1>4
  <2>2. Place(host.pos, host.at + 1) /\ Flags(host.clean, host.fooled, host.skipped)
    BY <2>1 DEF HostSends
  <2>3. OkIsOwn' /\ (Disoriented => Disoriented')
    BY <1>1, <2>2, SameFlags
  <2>4. CASE ~Disoriented /\ host.pos = 1
    <3>1. Starting' /\ host'.pos = 1
      BY <1>1, <1>2, <1>3, <1>4, <2>4, HostKeepsStarting
    <3> QED  BY <2>3, <3>1, KeepsStart
  <2>5. CASE ~Disoriented /\ host.pos > 1
    <3>1. InStep(call)'
      BY <1>1, <1>2, <1>3, <1>c, <2>1, <2>5, SendsStay
    <3> QED  BY <1>c, <2>2, <2>3, <2>5, <3>1, KeepsCall DEF Place
  <2> QED  BY <1>3, <2>3, <2>4, <2>5, KeepsNone, Zenon
<1>5. CASE HostTakes
  <2>2. Place(host.pos, host.at + 1) /\ Flags(host.clean, host.fooled, host.skipped)
    BY <1>5 DEF HostTakes
  <2>3. OkIsOwn' /\ (Disoriented => Disoriented')
    BY <1>1, <2>2, SameFlags
  <2>4. CASE ~Disoriented /\ host.pos = 1
    <3>1. Starting' /\ host'.pos = 1
      BY <1>1, <1>2, <1>3, <1>5, <2>4, HostKeepsStarting
    <3> QED  BY <2>3, <3>1, KeepsStart
  <2>5. CASE ~Disoriented /\ host.pos > 1
    <3>1. InStep(call)'
      BY <1>1, <1>2, <1>3, <1>c, <1>5, <2>5, TakesStay
    <3> QED  BY <1>c, <2>2, <2>3, <2>5, <3>1, KeepsCall DEF Place
  <2> QED  BY <1>3, <2>3, <2>4, <2>5, KeepsNone, Zenon
<1>6. CASE HostGoesWithout
  <2>2. Place(host.pos, host.at + 1) /\ Flags(FALSE, host.fooled, host.skipped)
    BY <1>6, Zenon DEF HostGoesWithout
  <2>3. OkIsOwn' /\ (Disoriented => Disoriented')
    BY <1>1, <2>2, UncleanFlags
  <2>4. CASE ~Disoriented /\ host.pos = 1
    <3>1. Starting' /\ host'.pos = 1
      BY <1>1, <1>2, <1>3, <1>6, <2>4, HostKeepsStarting
    <3> QED  BY <2>3, <3>1, KeepsStart
  <2>5. CASE ~Disoriented /\ host.pos > 1
    <3>1. InStep(call)'
      BY <1>1, <1>2, <1>3, <1>c, <1>6, <2>5, GoesWithoutStays
    <3> QED  BY <1>c, <2>2, <2>3, <2>5, <3>1, KeepsCall DEF Place
  <2> QED  BY <1>3, <2>3, <2>4, <2>5, KeepsNone, Zenon
<1>7. CASE RefusedRetries \/ LateRetries
  <2>1. /\ Current.cmd = CMD_START
        /\ Flags(host.clean, host.fooled, host.skipped) \/ Flags(FALSE, host.fooled, host.skipped)
    BY <1>7, Zenon DEF RefusedRetries, LateRetries
  <2>2. host.pos = 1
    BY <1>1, <1>2, <2>1, JobEnds
  <2>3. OkIsOwn' /\ (Disoriented => Disoriented')
    <3>1. CASE Flags(host.clean, host.fooled, host.skipped)
      BY <1>1, <3>1, SameFlags
    <3>2. CASE Flags(FALSE, host.fooled, host.skipped)
      BY <1>1, <3>2, UncleanFlags
    <3> QED  BY <2>1, <3>1, <3>2, Zenon
  <2>4. CASE ~Disoriented
    <3>1. Starting' /\ host'.pos = 1
      BY <1>1, <1>2, <1>3, <1>7, <2>2, <2>4, HostKeepsStarting
    <3> QED  BY <2>3, <3>1, KeepsStart
  <2> QED  BY <2>3, <2>4, KeepsNone, Zenon
<1>8. CASE HostConcludesCall
  <2>1. /\ Flags(host.clean, host.fooled \/ fw.answered # call.cmd, host.skipped)
        /\ host'.pos = host.pos + 1
    BY <1>c, <1>8 DEF HostConcludesCall, Place
  <2>2. host'.pos # 1
    BY <1>3, <1>p, <2>1
  <2>3. CASE Disoriented
    <3>1. Disoriented'
      BY <2>1, <2>3, Zenon DEF Disoriented, Flags
    <3> QED  BY <3>1, KeepsNone, Zenon DEF OkIsOwn
  <2>4. CASE ~Disoriented
    <3>1. ASSUME NEW next  PROVE InStep(next)' /\ fw.answered = call.cmd
      <4>1. CASE host.pos = 1
        BY <1>1, <1>2, <1>3, <1>c, <1>8, <2>4, <4>1, StartConcludes
      <4>2. CASE host.pos > 1
        BY <1>1, <1>2, <1>3, <1>c, <1>8, <2>4, <4>2, ConcludesStays
      <4> QED  BY <1>3, <4>1, <4>2
    <3>2. Oriented'
      BY <2>2, <3>1, KeepsAll
    <3>3. fw.answered = call.cmd
      BY <3>1
    <3>4. ~host'.fooled
      BY <1>3, <2>1, <2>4, <3>3, Zenon DEF Flags
    <3> QED  BY <3>2, <3>4, Zenon DEF OkIsOwn
  <2> QED  BY <2>3, <2>4
<1>9. CASE HostBeginsAgain
  <2>1. /\ HostStep.do = "result" /\ Len(toHost) >= 1 /\ toHost[1] = REPL_OK
        /\ host.pos = Len(host.job) /\ toHost' = Remainder /\ UNCHANGED toProg
        /\ host'.at = 1 /\ host'.pos = 1 /\ Flags(host.clean, host.fooled, host.skipped)
    BY <1>9 DEF HostBeginsAgain, Place
  <2>2. OkIsOwn' /\ (Disoriented => Disoriented')
    BY <1>1, <2>1, SameFlags
  <2>3. CASE ~Disoriented
    <3>1. host.pos > 1
      <4>1. Current.cmd = CMD_STOP
        BY <1>1, <1>2, <2>1, JobEnds
      <4>2. host.pos # 1
        BY <1>1, <1>2, <4>1, JobEnds
      <4> QED  BY <1>3, <4>2
    <3>2. Done(call) /\ Len(toHost) = 1
      BY <1>1, <1>2, <1>3, <1>c, <2>1, <2>3, <3>1, OkMeansDone
    <3>3. toHost' = << >>
      <4>1. Asks(HostStep) = 1
        BY <2>1 DEF Asks
      <4> QED  BY <1>1, <2>1, <3>2, <4>1 DEF Remainder, LinkTypes
    <3>4. toProg' = << >> /\ ~InSignature'
      BY <2>1, <3>2 DEF Done, InSignature, Running
    <3>5. Starting'
      BY <2>1, <3>3, <3>4, StartsAnew
    <3> QED  BY <2>1, <2>2, <3>5, KeepsStart
  <2> QED  BY <2>2, <2>3, KeepsNone, Zenon
<1>10. CASE RefusedSkips \/ LateSkips
  <2>1. /\ host'.pos = host.pos + 1
        /\ Flags(host.clean, host.fooled, TRUE) \/ Flags(FALSE, host.fooled, TRUE)
    BY <1>10, Zenon DEF RefusedSkips, LateSkips, Place
  <2>2. OkIsOwn' /\ (Disoriented' \/ host'.clean)
    <3>1. CASE Flags(host.clean, host.fooled, TRUE)
      <4>1. host.clean => host.clean
        OBVIOUS
      <4> QED  BY <1>1, <3>1, <4>1, SkippedFlags, Zenon
    <3>2. CASE Flags(FALSE, host.fooled, TRUE)
      <4>1. FALSE => host.clean
        OBVIOUS
      <4> QED  BY <1>1, <3>2, <4>1, SkippedFlags, Zenon
    <3> QED  BY <2>1, <3>1, <3>2, Zenon
  <2>3. host'.pos # 1
    BY <1>3, <1>p, <2>1
  <2>4. CASE host'.clean
    BY <2>2, <2>3, <2>4, Zenon DEF CleanInStep, Oriented
  <2> QED  BY <2>2, <2>4, KeepsNone, Zenon
<1>11. CASE HostExits
  <2>1. ~InSession' /\ Flags(host.clean, host.fooled, host.skipped)
    BY <1>11 DEF HostExits, InSession
  <2> QED  BY <1>1, <2>1, SameFlags, KeepsNone
<1> QED  BY <1>4, <1>5, <1>6, <1>7, <1>8, <1>9, <1>10, <1>11 DEF HostActs

\* A programmer that waits for a command takes one, or refuses it
LEMMA IdleActs ==
  ASSUME FwAlone, LinkTypes, FwNext
  PROVE  Running \/ Begins \/ Rejects
<1>1. /\ Finishes \/ TakesOne \/ ForwardsOne \/ ErasesOne => Running
      /\ \A u \in Seq(Bytes) : Onward(u) \/ Fails(u) => Running
      /\ \A size \in 0 .. MaxSize : TakesLast(size) => Running
      /\ \A b \in MemoryBytes : Streams(b) => Running
      /\ \A n \in Nat : AsksFor(n) \/ PacketsEnd(n) => Running
  BY Zenon DEF Finishes, TakesOne, ForwardsOne, ErasesOne, Onward, Fails, TakesLast,
               Streams, AsksFor, PacketsEnd
<1> QED  BY <1>1, FwActs, Zenon

LEMMA AstrayStays ==
  ASSUME FwAlone, LinkTypes, FwNext, fw.astray
  PROVE  fw'.astray
<1>1. CASE Running \/ Rejects
  BY <1>1, FwStrays, Zenon
<1>2. CASE Begins
  BY <1>2, Zenon DEF Begins, Judge
<1> QED  BY <1>1, <1>2, IdleActs, Zenon

\* The programmer acts
LEMMA FwKeeps ==
  ASSUME OrientedInv, FwNext, HostRests, SignatureIsStarts
  PROVE  Oriented' /\ OkIsOwn'
<1>1. FwAlone /\ LinkTypes /\ HostTypes /\ OkIsOwn
  BY OrientedAt DEF OrientedInv
<1>2. host' = host /\ portOpen' = portOpen
  BY DEF HostRests
<1>3. /\ host'.clean <=> host.clean
      /\ host'.skipped <=> host.skipped
      /\ host'.fooled <=> host.fooled
  BY <1>2
<1>4. fw.astray => fw'.astray
  BY <1>1, AstrayStays
<1>5. OkIsOwn' /\ (Disoriented => Disoriented')
  BY <1>1, <1>3, <1>4, Zenon DEF OkIsOwn, Disoriented
<1>c. PICK call : call = Current
  OBVIOUS
<1>6. CASE InSession /\ ~Disoriented /\ host.pos = 1
  <2>1. host.at \in 1 .. 7
    BY <1>1, <1>6, AtStart
  <2>2. Starting'
    BY <1>1, <1>6, <2>1, OrientedAt, FwKeepsStarting DEF SignatureIsStarts
  <2> QED  BY <1>2, <1>5, <1>6, <2>2, KeepsStart
<1>7. CASE InSession /\ ~Disoriented /\ host.pos > 1
  <2>1. InStep(call)
    BY <1>7, <1>c, OrientedAt
  <2>2. InStep(call)'
    BY <1>1, <1>7, <1>c, <2>1, FwStaysInStep
  <2> QED  BY <1>2, <1>5, <1>7, <1>c, <2>2, KeepsCall
<1>8. CASE Disoriented \/ ~InSession
  BY <1>2, <1>5, <1>8, KeepsNone DEF InSession
<1>9. InSession => host.pos = 1 \/ host.pos > 1
  BY OrientedAt
<1> QED  BY <1>6, <1>7, <1>8, <1>9

\* A byte is lost
LEMMA LossKeeps ==
  ASSUME OrientedInv, Loses
  PROVE  Oriented' /\ OkIsOwn'
<1>1. FwAlone /\ LinkTypes /\ HostTypes /\ OkIsOwn
  BY OrientedAt DEF OrientedInv
<1>2. /\ Place(host.pos, host.at) /\ UNCHANGED <<portOpen, fw>>
      /\ Flags(FALSE, host.fooled, host.skipped)
      /\ \/ (\E k \in 1 .. Len(toProg) : toProg' = Without(toProg, k)) /\ UNCHANGED toHost
         \/ (\E k \in 1 .. Len(toHost) : toHost' = Without(toHost, k)) /\ UNCHANGED toProg
  BY Zenon DEF Loses
<1>3. host'.pos = host.pos /\ host'.at = host.at /\ host'.job = host.job
  BY <1>2 DEF Place
<1>4. OkIsOwn' /\ (Disoriented => Disoriented')
  BY <1>1, <1>2, UncleanFlags
<1>c. PICK call : call = Current
  OBVIOUS
<1>6. CASE InSession /\ ~Disoriented /\ host.pos = 1
  <2>1. Starting
    BY <1>6, OrientedAt
  <2>2. Starting'
    BY <1>1, <1>2, <1>3, <2>1, LosesStart, LosesReply
  <2> QED  BY <1>3, <1>4, <1>6, <2>2, KeepsStart
<1>7. CASE InSession /\ ~Disoriented /\ host.pos > 1
  <2>1. InStep(call)
    BY <1>7, <1>c, OrientedAt
  <2>2. InStep(call)'
    BY <1>1, <1>7, <1>c, <2>1, LossStays
  <2> QED  BY <1>3, <1>4, <1>7, <1>c, <2>2, KeepsCall
<1>8. CASE Disoriented \/ ~InSession
  BY <1>2, <1>4, <1>8, KeepsNone DEF InSession
<1>9. InSession => host.pos = 1 \/ host.pos > 1
  BY OrientedAt
<1> QED  BY <1>6, <1>7, <1>8, <1>9

LEMMA OrientedStep ==
  ASSUME OrientedInv, [Next]_vars, SignatureIsStarts
  PROVE  OrientedInv'
<1>1. FwAlone /\ LinkTypes /\ HostTypes /\ CleanInv /\ Oriented /\ OkIsOwn
  BY OrientedAt DEF OrientedInv
<1>2. CleanInv'
  BY <1>1, CleanStep
<1> SUFFICES Oriented' /\ OkIsOwn'
  BY <1>2 DEF OrientedInv
<1>3. CASE FirmwareSteps
  <2>1. FwNext /\ HostRests
    BY <1>1, <1>3, FwActs DEF FirmwareSteps, HostRests
  <2> QED  BY <2>1, FwKeeps
<1>4. CASE HostMoves
  <2>1. HostActs /\ UNCHANGED fw
    BY <1>1, <1>4, HostDoes
  <2>2. CleanInStep'
    BY <1>2 DEF CleanInv
  <2> QED  BY <2>1, <2>2, HostKeeps
<1>5. CASE Overrun \/ LineLoses
  BY <1>1, <1>5, LossDoes, LossKeeps
<1>6. CASE HostOpens
  <2>1. Opens
    BY <1>1, <1>6, OpensDoes
  <2>2. Starting'
    BY <1>1, <2>1, OpensStarting
  <2>3. host'.pos = 1
    BY <2>1 DEF Opens
  <2>4. ~host'.fooled
    BY <2>1, Zenon DEF Opens, Flags
  <2>5. OkIsOwn'
    BY <2>4, Zenon DEF OkIsOwn
  <2> QED  BY <2>2, <2>3, <2>5, KeepsStart
<1>7. CASE UNCHANGED vars
  <2>1. PICK call : call = Current
    OBVIOUS
  <2>2. UNCHANGED <<toProg, toHost, portOpen, fw, host>> /\ Current' = call
    BY <1>7, <2>1 DEF vars, linkVars, Current
  <2>3. InStep(call) => InStep(call)'
    BY <2>2 DEF InStep, Phase, Fresh, Underway, Looped, Counted, SizeIsCalls, OnlyData, Done, Failed,
                ByteFailed, Acks, Open, Level, Until, LastIs, LastByte, BlockGot, At, Running, Step
  <2>4. Starting => Starting'
    BY <2>2 DEF Starting, StartsSent, AddressAhead, AddressTaken, SignatureComes, SignatureRead,
                InSignature, Closing, Synced, LastByte, Running
  <2>5. OkIsOwn' /\ (Disoriented => Disoriented')
    BY <1>1, <2>2 DEF OkIsOwn, Disoriented
  <2>6. InStep(call)' => InStep(Current)'
    BY <2>2
  <2>7. Oriented'
    <3>1. InSession' = InSession /\ host'.pos = host.pos
      BY <2>2 DEF InSession
    <3>2. InStep(Current) => InStep(call)
      BY <2>1
    <3> QED  BY <1>1, <2>3, <2>4, <2>5, <2>6, <3>1, <3>2 DEF Oriented
  <2> QED  BY <2>5, <2>7
<1> QED  BY <1>3, <1>4, <1>5, <1>6, <1>7 DEF Next, HostMoves

LEMMA OrientedInit == Init => OrientedInv
<1> SUFFICES ASSUME Init  PROVE OrientedInv
  OBVIOUS
<1>1. CleanInv
  BY CleanInit
<1>2. ~InSession /\ ~host.fooled
  BY DEF Init, LinkInit, HostInit, InSession
<1> QED  BY <1>1, <1>2, Zenon DEF OrientedInv, Oriented, OkIsOwn

LEMMA OrientedIsInStep == OrientedInv => SessionInv
<1> SUFFICES ASSUME OrientedInv  PROVE SessionInv
  OBVIOUS
<1>1. Types /\ CleanInStep /\ Leftovers /\ Oriented /\ OkIsOwn
  BY DEF OrientedInv, CleanInv
<1>2. TypeOK
  BY <1>1, TypesOK
<1>3. FwTypes /\ FwOwes /\ FwHolds
  BY <1>1 DEF Types, FwAlone
<1>4. InSession /\ ~Disoriented =>
        /\ host.pos = 1 => Starting
        /\ host.clean \/ host.pos > 1 => InStep(Current)
  BY <1>1, Zenon DEF CleanInStep, Oriented
<1> QED  BY <1>1, <1>2, <1>3, <1>4, Zenon DEF SessionInv

LEMMA OrientedIsInSync == OrientedInv => InSync
<1> SUFFICES ASSUME OrientedInv, BetweenCalls, host.pos > 1, ~Disoriented
             PROVE  /\ ~Running /\ fw.loop = "cmd" /\ fw.open /\ fw.toSend = 0
                    /\ toProg = << >> /\ toHost = << >>
  BY DEF InSync
<1>1. PICK call : call = Current
  OBVIOUS
<1>2. host.at = 1 /\ InStep(call)
  BY <1>1, OrientedAt DEF BetweenCalls
<1>3. Fresh(call)
  BY <1>2 DEF InStep
<1>4. ~Running /\ toHost = << >> /\ toProg = << >> /\ fw.open /\ fw.loop = "cmd"
  BY <1>2, <1>3 DEF Fresh, Open
<1>5. fw.toSend = 0
  BY <1>4, OrientedAt DEF FwAlone, FwOwes
<1> QED  BY <1>4, <1>5

\* In a session that began with an idle programmer and lost nothing the two sides are in
\* step, and no OK is taken for another's: whatever the memory of the target holds
THEOREM CleanSessions == Spec => []CleanInStep
<1>1. CleanInv => CleanInStep
  BY DEF CleanInv
<1> QED  BY <1>1, CleanAlways, PTL

-------------------------------------------------------------------------------
(* Starting in spite of what an older session left *)

\* A session is started on a programmer that still owes an older one bytes of memory
StartsOnRead == ~portOpen /\ portOpen' /\ MemoryIsRead

\* What it owes may be taken for the signature, by which START knows that it was answered
\* (FastUPDI.cpp:314): the memory may hold the first byte of one
Mistakable == StartsOnRead /\ DeviceSignature[1] \in MemoryBytes

\* While a session starts only STARTs are sent as commands, so that no other begins
OnlyStarts == \A i \in DOMAIN toProg : toProg[i].cmd => toProg[i].val = CMD_START

Undisturbed == InSession /\ ~Disoriented /\ host.pos = 1 => OnlyStarts /\ ~MemoryIsRead

LEMMA UndisturbedIs == Undisturbed => SignatureIsStarts
BY Zenon DEF Undisturbed, SignatureIsStarts, Unmistaken

LEMMA OnlyStartsIs ==
  ASSUME LinkTypes
  PROVE  OnlyStarts <=> \A i \in 1 .. Len(toProg) : toProg[i].cmd => toProg[i].val = CMD_START
<1>1. DOMAIN toProg = 1 .. Len(toProg)
  BY DEF LinkTypes
<1> QED  BY <1>1 DEF OnlyStarts

\* A handler runs to its end before another does
LEMMA RunsOn ==
  ASSUME FwAlone, LinkTypes, FwNext, Running
  PROVE  ~Running' \/ fw'.cmd = fw.cmd
<1>1. ~Begins /\ ~Rejects
  BY DEF Begins, Rejects
<1>2. /\ TakesOne \/ ForwardsOne \/ ErasesOne => fw'.cmd = fw.cmd
      /\ \A u \in Seq(Bytes) : Onward(u) => fw'.cmd = fw.cmd
      /\ \A size \in 0 .. MaxSize : TakesLast(size) => fw'.cmd = fw.cmd
      /\ \A b \in MemoryBytes : Streams(b) => fw'.cmd = fw.cmd
      /\ \A n \in Nat : AsksFor(n) \/ PacketsEnd(n) => fw'.cmd = fw.cmd
  BY Zenon DEF TakesOne, ForwardsOne, ErasesOne, Onward, TakesLast, Streams, AsksFor, PacketsEnd, Effect
<1>3. /\ Finishes => ~Running'
      /\ \A u \in Seq(Bytes) : Fails(u) => ~Running'
  BY DEF Finishes, Fails, Left, Running
<1> QED  BY <1>1, <1>2, <1>3, FwActs, Zenon

\* The programmer acts
LEMMA FwUndisturbed ==
  ASSUME OrientedInv, CleanInv', FwNext, HostRests, Undisturbed
  PROVE  Undisturbed'
<1>1. FwAlone /\ LinkTypes /\ HostTypes
  BY OrientedAt
<1>2. host' = host /\ portOpen' = portOpen
  BY DEF HostRests
<1>3. SUFFICES ASSUME InSession', ~Disoriented', host'.pos = 1
               PROVE  OnlyStarts' /\ ~MemoryIsRead'
  BY Zenon DEF Undisturbed
<1>4. fw.astray => fw'.astray
  BY <1>1, AstrayStays
<1>5. InSession /\ ~Disoriented /\ host.pos = 1
  BY <1>2, <1>3, <1>4 DEF InSession, Disoriented
<1>6. OnlyStarts /\ ~MemoryIsRead
  BY <1>5, Zenon DEF Undisturbed
<1>7. OnlyStarts'
  <2>1. PICK k \in 0 .. Len(toProg) :
          /\ Len(toProg') = Len(toProg) - k
          /\ \A i \in 1 .. Len(toProg') : i + k \in 1 .. Len(toProg) /\ toProg'[i] = toProg[i + k]
    BY <1>1, FwDrops
  <2>2. \A i \in 1 .. Len(toProg') : toProg'[i].cmd => toProg'[i].val = CMD_START
    BY <1>1, <1>6, <2>1, OnlyStartsIs
  <2>3. DOMAIN toProg' = 1 .. Len(toProg')
    BY DEF CleanInv, Types, LinkTypes
  <2> QED  BY <2>2, <2>3 DEF OnlyStarts
<1>8. CASE host.clean
  <2>1. PICK call : call = Current'
    OBVIOUS
  <2>2. Current.cmd = CMD_START
    BY <1>1, <1>5, AtStart
  <2>3. call.cmd = CMD_START
    BY <1>2, <2>1, <2>2 DEF Current
  <2>4. InStep(call)'
    BY <1>2, <1>3, <1>8, <2>1 DEF CleanInv, CleanInStep
  <2>5. Phase(call)' /\ ~ByteFailed(call)'
    BY <2>3, <2>4 DEF InStep, ByteFailed
  <2>6. ~Running' \/ fw'.cmd = CMD_START
    BY <2>3, <2>5, Zenon DEF Phase, Fresh, Underway, Done, Failed
  <2> QED  BY <1>7, <2>6 DEF MemoryIsRead
<1>9. CASE ~host.clean
  <2>1. ~fw'.astray
    BY <1>2, <1>3, <1>9 DEF Disoriented
  <2>2. CASE Running
    <3>1. ~Running' \/ fw'.cmd = fw.cmd
      BY <1>1, <2>2, RunsOn
    <3> QED  BY <1>6, <1>7, <2>2, <3>1 DEF MemoryIsRead
  <2>3. CASE Rejects
    <3>1. UNCHANGED fw
      BY <1>1, <2>3, FwStrays
    <3> QED  BY <1>6, <1>7, <3>1 DEF MemoryIsRead, Running
  <2>4. CASE Begins
    <3>1. toProg # << >> /\ fw'.cmd = Head(toProg).val /\ fw'.astray = Judge(Head(toProg))
          /\ Accepts(Head(toProg).val)
      BY <2>4 DEF Begins
    <3>2. Head(toProg).cmd
      BY <2>1, <3>1 DEF Judge
    <3>3. Head(toProg) = toProg[1] /\ 1 \in 1 .. Len(toProg)
      BY <1>1, <3>1 DEF LinkTypes
    <3>4. fw'.cmd = CMD_START
      BY <1>1, <1>6, <3>1, <3>2, <3>3, OnlyStartsIs
    <3> QED  BY <1>7, <3>4 DEF MemoryIsRead
  <2> QED  BY <1>1, <2>2, <2>3, <2>4, IdleActs
<1> QED  BY <1>8, <1>9

\* The controller acts
LEMMA HostUndisturbed ==
  ASSUME OrientedInv, CleanInv', HostActs, UNCHANGED fw, Undisturbed
  PROVE  Undisturbed'
<1>1. FwAlone /\ LinkTypes /\ HostTypes
  BY OrientedAt
<1>2. SUFFICES ASSUME InSession', ~Disoriented', host'.pos = 1
               PROVE  OnlyStarts' /\ ~MemoryIsRead'
  BY Zenon DEF Undisturbed
<1>3. InSession
  BY Zenon DEF HostActs, HostSends, HostTakes, HostConcludesCall, HostBeginsAgain, HostGoesWithout,
         RefusedRetries, RefusedSkips, Refused, LateRetries, LateSkips, Late, HostExits
<1>4. MemoryIsRead' = MemoryIsRead /\ DOMAIN toProg' = 1 .. Len(toProg')
  BY DEF CleanInv, Types, LinkTypes, MemoryIsRead, Running
<1>5. host.pos \in Nat /\ (host.pos = 1 \/ host.pos > 1)
  BY <1>1, <1>3, OrientedAt DEF HostTypes
<1>6. ASSUME UNCHANGED toProg, host'.pos = host.pos, ~Disoriented
      PROVE  OnlyStarts' /\ ~MemoryIsRead'
  BY <1>2, <1>3, <1>4, <1>6 DEF Undisturbed, OnlyStarts
<1>7. CASE \E bytes \in Seq(Bytes), isCmd \in BOOLEAN : HostSends(bytes, isCmd)
  <2>1. PICK bytes \in Seq(Bytes), isCmd \in BOOLEAN : HostSends(bytes, isCmd)
    BY <1>7
  <2>2. /\ HostStep.do \in Writing /\ Len(bytes) = Gives(HostStep)
        /\ isCmd <=> HostStep.do = "issue"
        /\ isCmd => bytes[1] = Current.cmd
        /\ Sent(bytes, isCmd) /\ host'.pos = host.pos
        /\ Flags(host.clean, host.fooled, host.skipped)
    BY <2>1 DEF HostSends, Place
  <2>3. ~Disoriented
    BY <1>2, <2>2, Zenon DEF Disoriented, Flags
  <2>4. OnlyStarts /\ ~MemoryIsRead /\ host.pos = 1
    BY <1>2, <1>3, <2>2, <2>3 DEF Undisturbed
  <2>5. isCmd => Len(bytes) = 1 /\ bytes[1] = CMD_START
    BY <1>1, <1>3, <2>2, <2>4, AtStart DEF Gives
  <2> DEFINE e == [k \in 1 .. Len(bytes) |-> [val |-> bytes[k], cmd |-> isCmd]]
  <2>6. toProg' = toProg \o e /\ toProg \in Seq(Sending)
    BY <1>1, <2>2 DEF Sent, LinkTypes
  <2>7. /\ e \in Seq(Sending) /\ Len(e) = Len(bytes)
        /\ \A i \in 1 .. Len(e) : e[i].val = bytes[i] /\ e[i].cmd = isCmd
    BY DEF Sending
  <2> HIDE DEF e
  <2>8. ASSUME NEW i \in 1 .. Len(toProg'), toProg'[i].cmd  PROVE toProg'[i].val = CMD_START
    <3>1. \/ i \in 1 .. Len(toProg) /\ toProg'[i] = toProg[i]
          \/ i - Len(toProg) \in 1 .. Len(e) /\ toProg'[i] = e[i - Len(toProg)]
      BY <2>6, <2>7
    <3>2. CASE i \in 1 .. Len(toProg) /\ toProg'[i] = toProg[i]
      BY <1>1, <2>4, <2>8, <3>2, OnlyStartsIs
    <3>3. CASE i - Len(toProg) \in 1 .. Len(e) /\ toProg'[i] = e[i - Len(toProg)]
      <4>0. PICK m \in 1 .. Len(e) : m = i - Len(toProg)
        BY <3>3
      <4>1. isCmd /\ toProg'[i].val = bytes[i - Len(toProg)]
        BY <2>7, <2>8, <3>3, <4>0
      <4>2. i - Len(toProg) = 1
        <5>1. Len(e) = 1
          BY <2>5, <2>7, <4>1
        <5> QED  BY <3>3, <5>1
      <4> QED  BY <2>5, <4>1, <4>2
    <3> QED  BY <3>1, <3>2, <3>3
  <2> QED  BY <1>4, <2>4, <2>8 DEF OnlyStarts
<1>8. CASE HostTakes \/ HostGoesWithout \/ RefusedRetries \/ LateRetries
  <2>1. /\ UNCHANGED toProg /\ host'.pos = host.pos
        /\ Flags(host.clean, host.fooled, host.skipped) \/ Flags(FALSE, host.fooled, host.skipped)
    BY <1>8, Zenon DEF HostTakes, HostGoesWithout, RefusedRetries, Refused, LateRetries, Late, Place
  <2>2. ~Disoriented
    BY <1>2, <2>1, Zenon DEF Disoriented, Flags
  <2> QED  BY <1>6, <2>1, <2>2
<1>9. CASE HostConcludesCall \/ RefusedSkips \/ LateSkips
  <2>1. host'.pos = host.pos + 1
    BY <1>9, Zenon DEF HostConcludesCall, RefusedSkips, LateSkips, Place
  <2> QED  BY <1>2, <1>5, <2>1
<1>10. CASE HostBeginsAgain
  <2>1. /\ HostStep.do = "result" /\ Len(toHost) >= 1 /\ toHost[1] = REPL_OK
        /\ host.pos = Len(host.job) /\ UNCHANGED toProg
        /\ Flags(host.clean, host.fooled, host.skipped)
    BY <1>10 DEF HostBeginsAgain
  <2>2. ~Disoriented
    BY <1>2, <2>1, Zenon DEF Disoriented, Flags
  <2>3. host.pos > 1
    <3>1. Current.cmd = CMD_STOP
      BY <1>1, <1>3, <2>1, JobEnds
    <3>2. host.pos # 1
      BY <1>1, <1>3, <3>1, JobEnds
    <3> QED  BY <1>5, <3>2
  <2>4. PICK call : call = Current
    OBVIOUS
  <2>5. /\ InStep(call) /\ ~host.fooled
        /\ host.clean \/ ~fw.astray
    BY <1>3, <2>2, <2>3, <2>4, OrientedAt
  <2>6. Done(call)
    BY <1>1, <1>3, <2>1, <2>2, <2>3, <2>4, <2>5, OkMeansDone
  <2>7. toProg' = << >> /\ ~Running
    BY <2>1, <2>6 DEF Done
  <2> QED  BY <1>4, <2>7 DEF OnlyStarts, MemoryIsRead
<1>11. CASE HostExits
  BY <1>2, <1>11 DEF HostExits, InSession
<1> QED  BY <1>7, <1>8, <1>9, <1>10, <1>11 DEF HostActs

\* A byte is lost
LEMMA LossUndisturbed ==
  ASSUME OrientedInv, CleanInv', Loses, Undisturbed
  PROVE  Undisturbed'
<1>1. LinkTypes
  BY OrientedAt
<1>2. /\ UNCHANGED <<portOpen, fw>> /\ host'.pos = host.pos
      /\ Flags(FALSE, host.fooled, host.skipped)
      /\ UNCHANGED toProg \/ \E k \in 1 .. Len(toProg) : toProg' = Without(toProg, k)
  BY Zenon DEF Loses, Place
<1>3. SUFFICES ASSUME InSession', ~Disoriented', host'.pos = 1
               PROVE  OnlyStarts' /\ ~MemoryIsRead'
  BY Zenon DEF Undisturbed
<1>4. InSession /\ ~Disoriented
  BY <1>2, <1>3, Zenon DEF InSession, Disoriented, Flags
<1>5. OnlyStarts /\ ~MemoryIsRead
  BY <1>2, <1>3, <1>4 DEF Undisturbed
<1>6. ~MemoryIsRead'
  BY <1>2, <1>5 DEF MemoryIsRead, Running
<1>7. OnlyStarts'
  <2>1. CASE UNCHANGED toProg
    BY <1>5, <2>1 DEF OnlyStarts
  <2>2. CASE \E k \in 1 .. Len(toProg) : toProg' = Without(toProg, k)
    <3>1. PICK k \in 1 .. Len(toProg) : toProg' = Without(toProg, k)
      BY <2>2
    <3>2. toProg \in Seq(Sending) /\ Len(toProg) \in Nat
      BY <1>1 DEF LinkTypes
    <3>0. DOMAIN toProg' = 1 .. Len(toProg')
      BY DEF CleanInv, Types, LinkTypes
    <3>5. /\ Len(Without(toProg, k)) = Len(toProg) - 1
          /\ \A i \in 1 .. Len(toProg) - 1 :
               Without(toProg, k)[i] = IF i < k THEN toProg[i] ELSE toProg[i + 1]
      BY <3>2, WithoutOne, Zenon
    <3>3. /\ Len(toProg') = Len(toProg) - 1 /\ DOMAIN toProg' = 1 .. Len(toProg')
          /\ \A i \in 1 .. Len(toProg) - 1 : toProg'[i] = IF i < k THEN toProg[i] ELSE toProg[i + 1]
      BY <3>0, <3>1, <3>5, Zenon
    <3>4. ASSUME NEW i \in 1 .. Len(toProg')
          PROVE  \E m \in 1 .. Len(toProg) : toProg'[i] = toProg[m]
      <4>1. i \in 1 .. Len(toProg) /\ i + 1 \in 1 .. Len(toProg) /\ i \in 1 .. Len(toProg) - 1
        BY <3>2, <3>3
      <4> QED  BY <3>3, <4>1
    <3> QED  BY <1>1, <1>5, <3>3, <3>4, OnlyStartsIs DEF OnlyStarts
  <2> QED  BY <1>2, <2>1, <2>2
<1> QED  BY <1>6, <1>7

\* A session that does not start on a read is not disturbed by one
LEMMA UndisturbedStep ==
  ASSUME OrientedInv, CleanInv', [Next]_vars, ~StartsOnRead, Undisturbed
  PROVE  Undisturbed'
<1>1. FwAlone /\ LinkTypes /\ HostTypes
  BY OrientedAt
<1>2. CASE FirmwareSteps
  <2>1. FwNext /\ HostRests
    BY <1>1, <1>2, FwActs DEF FirmwareSteps, HostRests
  <2> QED  BY <2>1, FwUndisturbed
<1>3. CASE HostMoves
  <2>1. HostActs /\ UNCHANGED fw
    BY <1>1, <1>3, HostDoes
  <2> QED  BY <2>1, HostUndisturbed
<1>4. CASE Overrun \/ LineLoses
  BY <1>1, <1>4, LossDoes, LossUndisturbed
<1>5. CASE HostOpens
  <2>1. Opens
    BY <1>1, <1>5, OpensDoes
  <2>2. /\ ~portOpen /\ portOpen' /\ UNCHANGED toProg
        /\ Starved /\ fw'.step = fw.step /\ fw'.cmd = fw.cmd
    BY <2>1 DEF Opens, InSession
  <2>3. ~MemoryIsRead'
    BY <2>2 DEF StartsOnRead, MemoryIsRead, Running
  <2>4. toProg' = << >>
    BY <2>2 DEF Starved
  <2> QED  BY <2>3, <2>4 DEF Undisturbed, OnlyStarts
<1>6. CASE UNCHANGED vars
  <2>1. UNCHANGED <<toProg, portOpen, fw, host>>
    BY <1>6 DEF vars, linkVars
  <2> QED  BY <2>1 DEF Undisturbed, OnlyStarts, MemoryIsRead, Running, InSession, Disoriented
<1> QED  BY <1>2, <1>3, <1>4, <1>5, <1>6 DEF Next, HostMoves

\* The invariant of all that follows: for a memory that could be mistaken for a signature
\* it takes that no session was started while it is read
StartedInv == OrientedInv /\ (DeviceSignature[1] \in MemoryBytes => Undisturbed)

LEMMA StartedInit == Init => StartedInv
<1> SUFFICES ASSUME Init  PROVE StartedInv
  OBVIOUS
<1>1. ~InSession
  BY DEF Init, LinkInit, InSession
<1> QED  BY <1>1, OrientedInit DEF StartedInv, Undisturbed

LEMMA StartedStep == StartedInv /\ [Next]_vars /\ [~Mistakable]_vars => StartedInv'
<1> SUFFICES ASSUME StartedInv, [Next]_vars, [~Mistakable]_vars
             PROVE  StartedInv'
  OBVIOUS
<1>1. OrientedInv
  BY DEF StartedInv
<1>2. CASE DeviceSignature[1] \notin MemoryBytes
  <2>1. SignatureIsStarts
    BY <1>2 DEF SignatureIsStarts, Unmistaken
  <2>2. OrientedInv'
    BY <1>1, <2>1, OrientedStep
  <2> QED  BY <1>2, <2>2 DEF StartedInv, DeviceSignature
<1>3. CASE DeviceSignature[1] \in MemoryBytes
  <2>1. Undisturbed
    BY <1>3 DEF StartedInv
  <2>2. OrientedInv'
    BY <1>1, <2>1, UndisturbedIs, OrientedStep
  <2>3. ~StartsOnRead
    BY <1>3 DEF StartsOnRead, Mistakable, vars, linkVars
  <2>4. Undisturbed'
    BY <1>1, <2>1, <2>2, <2>3, UndisturbedStep DEF OrientedInv
  <2> QED  BY <2>2, <2>4 DEF StartedInv
<1> QED  BY <1>2, <1>3

LEMMA StartedAlways == Spec /\ [][~Mistakable]_vars => []OrientedInv
<1>1. StartedInv => OrientedInv
  BY DEF StartedInv
<1> QED  BY <1>1, StartedInit, StartedStep, PTL DEF Spec

\* The invariant of SessionInvariant, through any faults: a call that has started from a
\* started session gets its answer and nothing else, and START finds the programmer
\* wherever it was left.  The one way out is a session started on a programmer that is
\* still to send an older one bytes of a memory that may look like the signature.
THEOREM AlwaysInStep == Spec /\ [][~Mistakable]_vars => []SessionInv
<1> QED  BY StartedAlways, OrientedIsInStep, PTL

\* Whenever a started session is about to issue its next call, whatever failed, was late or
\* was lost before it, the programmer waits for a command with the link open, owes nothing,
\* and nothing is in flight
THEOREM AlwaysInSync == Spec /\ [][~Mistakable]_vars => []InSync
<1> QED  BY StartedAlways, OrientedIsInSync, PTL

\* An OK the controller takes for the result of a call is the programmer's answer to that
\* command, through any faults, until the session loses its way
THEOREM AlwaysOwnOk == Spec /\ [][~Mistakable]_vars => []OkIsOwn
<1>1. OrientedInv => OkIsOwn
  BY DEF OrientedInv
<1> QED  BY <1>1, StartedAlways, PTL

LEMMA OrientedStrays == OrientedInv => OnlySendByteStrays
<1> SUFFICES ASSUME OrientedInv, InSession, host.pos > 1, ~Disoriented, ~Running,
                    toProg # << >>, ~Head(toProg).cmd
             PROVE  Current.cmd = CMD_SENDBYTE /\ host.at = 6
  BY DEF OnlySendByteStrays
<1>1. PICK call : call = Current
  OBVIOUS
<1>2. InStep(call)
  BY <1>1, OrientedAt
<1>3. LinkTypes /\ Phase(call)
  BY <1>2, OrientedAt DEF InStep
<1>4. CASE Fresh(call)
  <2>1. toProg = <<[val |-> call.cmd, cmd |-> TRUE]>>
    BY <1>4 DEF Fresh
  <2>2. Head(toProg).cmd = TRUE
    BY <2>1
  <2> QED  BY <2>2
<1>5. ~Underway(call) /\ ~Done(call) /\ ~Failed(call)
  BY DEF Underway, Done, Failed
<1>6. CASE ByteFailed(call)
  <2>1. call.cmd = CMD_SENDBYTE /\ Len(toProg) <= Once(host.at = 6)
    BY <1>6 DEF ByteFailed
  <2>2. Len(toProg) > 0
    BY <1>3 DEF LinkTypes
  <2>3. host.at = 6
    BY <2>1, <2>2, <1>3 DEF Once, LinkTypes
  <2> QED  BY <1>1, <2>1, <2>3
<1> QED  BY <1>3, <1>4, <1>5, <1>6 DEF Phase

\* In a session that is not disoriented the command loop comes to look at a byte of data or
\* of a parameter only after SENDBYTE failed on the address it had acknowledged, whatever
\* the values of these bytes are
THEOREM AlwaysOnlySendByte == Spec /\ [][~Mistakable]_vars => []OnlySendByteStrays
<1> QED  BY StartedAlways, OrientedStrays, PTL

\* Whatever the target's memory holds, and through any faults: as long as no session is
\* started on a programmer that is still to send an older one bytes of that memory, the two
\* sides are in step, and no OK is taken for another's
THEOREM InStepWithAnyMemory ==
  Spec /\ [][~StartsOnRead]_vars => [](SessionInv /\ InSync /\ OkIsOwn)
<1>1. [~StartsOnRead]_vars => [~Mistakable]_vars
  BY DEF Mistakable
<1>2. OrientedInv => SessionInv /\ InSync /\ OkIsOwn
  BY OrientedIsInStep, OrientedIsInSync DEF OrientedInv
<1> QED  BY <1>1, <1>2, StartedAlways, PTL
=============================================================================

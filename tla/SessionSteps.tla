------------------------------ MODULE SessionSteps ------------------------------
(***************************************************************************)
(* The steps of Session: what each call of the controller reads and        *)
(* writes, step by step, and what each handler of the programmer sends and *)
(* receives; what each action changes, and that it keeps the types; where  *)
(* a call and its handler meet, end and fail.  SessionProofs rests on      *)
(* them.                                                                   *)
(***************************************************************************)
EXTENDS SessionInvariant, SequenceTheorems, TLAPS

USE DEF CMD_NONE, CMD_SENDBYTE, CMD_SENDBLOCK, CMD_GETBYTE, CMD_GETBLOCK, CMD_SETADDR,
        CMD_CHIPERASE, CMD_FLASH_PAGE_ERASE, CMD_FLASH_WR_EN, CMD_EEPROM_WR_EN,
        CMD_NVM_WR_DIS, CMD_START, CMD_SETBAUD, CMD_RESETTGT, CMD_STOP,
        REPL_OK, REPL_INVALID, REPL_ERROR, REPL_TIMEOUT, REPL_UPDINOACK, REPL_UPDIRXERR,
        REPL_ERASEFAIL, REPL_ACK

-------------------------------------------------------------------------------
(* The steps of a call *)

IsCall(call) ==
  /\ call \in [cmd : Operating \cup {CMD_START, CMD_STOP}, n : Nat]
  /\ call.n < 65536
  /\ call.cmd = CMD_GETBLOCK => call.n > 0

StepKinds ==
  {Issue, WaitAck, ReadStatus, ReadProgmode, ReadSignature, Result}
    \cup {Write(b) : b \in Seq(0 .. 255)}
    \cup {WriteData(n) : n \in Nat} \cup {Read(n) : n \in Nat}

\* One list of steps after another
Joins(u, s, t) ==
  /\ u \in Seq(StepKinds) /\ Len(u) = Len(s) + Len(t)
  /\ Len(s) \in Nat /\ Len(t) \in Nat
  /\ \A i \in 1 .. Len(s) + Len(t) : u[i] = IF i <= Len(s) THEN s[i] ELSE t[i - Len(s)]

LEMMA Joined ==
  ASSUME NEW s \in Seq(StepKinds), NEW t \in Seq(StepKinds)
  PROVE  Joins(s \o t, s, t)
BY ConcatProperties, LenProperties DEF Joins

\* The frame of a call: issue, ACK, body, result
LEMMA Framed ==
  ASSUME NEW x \in StepKinds, NEW y \in StepKinds, NEW z \in StepKinds,
         NEW body \in Seq(StepKinds)
  PROVE  LET all == << x, y >> \o body \o << z >>
         IN  /\ all \in Seq(StepKinds) /\ Len(all) = Len(body) + 3
             /\ all[1] = x /\ all[2] = y /\ all[Len(body) + 3] = z
             /\ \A i \in 3 .. Len(body) + 2 : all[i] = body[i - 2]
<1> DEFINE front == << x, y >>
           back  == << z >>
           most  == front \o body
           all   == most \o back
<1>1. front \in Seq(StepKinds) /\ Len(front) = 2 /\ front[1] = x /\ front[2] = y
  OBVIOUS
<1>2. back \in Seq(StepKinds) /\ Len(back) = 1 /\ back[1] = z
  OBVIOUS
<1> HIDE DEF front, back
<1>3. Joins(most, front, body)
  BY <1>1, Joined
<1>4. most \in Seq(StepKinds)
  BY <1>3 DEF Joins
<1> HIDE DEF most
<1>5. Joins(all, most, back)
  BY <1>2, <1>4, Joined
<1> HIDE DEF all
<1>6. /\ Len(most) = Len(front) + Len(body)
      /\ \A i \in 1 .. Len(front) + Len(body) :
           most[i] = IF i <= Len(front) THEN front[i] ELSE body[i - Len(front)]
  BY <1>3 DEF Joins
<1>7. all \in Seq(StepKinds) /\ Len(all) = Len(most) + Len(back)
  BY <1>5 DEF Joins
<1>9. \A i \in 1 .. Len(most) + Len(back) :
        all[i] = IF i <= Len(most) THEN most[i] ELSE back[i - Len(most)]
  BY <1>5 DEF Joins
<1>10. Len(body) \in Nat /\ Len(most) = Len(body) + 2 /\ Len(all) = Len(body) + 3
  BY <1>1, <1>2, <1>6, <1>7
<1>11. all[1] = x /\ all[2] = y /\ all[Len(body) + 3] = z
  BY <1>1, <1>2, <1>6, <1>9, <1>10
<1>12. \A i \in 3 .. Len(body) + 2 : all[i] = body[i - 2]
  BY <1>1, <1>2, <1>6, <1>9, <1>10
<1> QED  BY <1>7, <1>10, <1>11, <1>12 DEF all, most, front, back

Frames(steps, body) ==
  /\ steps \in Seq(StepKinds) /\ Len(steps) = Len(body) + 3
  /\ steps[1] = Issue /\ steps[2] = WaitAck /\ steps[Len(body) + 3] = Result
  /\ \A i \in 3 .. Len(body) + 2 : steps[i] = body[i - 2]

LEMMA StepsFramed ==
  ASSUME NEW call, Body(call) \in Seq(StepKinds)
  PROVE  Frames(Steps(call), Body(call))
<1>1. Issue \in StepKinds /\ WaitAck \in StepKinds /\ Result \in StepKinds
  BY DEF StepKinds
<1> DEFINE body == Body(call)
<1> HIDE DEF body
<1>2. body \in Seq(StepKinds)
  BY DEF body
<1> QED  BY <1>1, <1>2, Framed DEF Steps, body, Frames

\* A call of a command alone
LEMMA PlainSteps ==
  ASSUME NEW call, IsCall(call),
         call.cmd \in {CMD_STOP, CMD_CHIPERASE, CMD_EEPROM_WR_EN, CMD_FLASH_WR_EN,
                       CMD_NVM_WR_DIS}
  PROVE  /\ Steps(call) \in Seq(StepKinds) /\ LastStep(call) = 3
         /\ Steps(call)[1] = Issue /\ Steps(call)[2] = WaitAck /\ Steps(call)[3] = Result
<1>1. Body(call) = << >>
  BY DEF Body
<1>2. Body(call) \in Seq(StepKinds) /\ Len(Body(call)) = 0
  BY <1>1
<1>3. Frames(Steps(call), Body(call))
  BY <1>2, StepsFramed
<1> QED  BY <1>2, <1>3 DEF LastStep, Frames

LEMMA CallTypes ==
  ASSUME NEW call, IsCall(call)
  PROVE  /\ call.n \in Nat /\ call.n < 65536
         /\ call.cmd \in Operating \cup {CMD_START, CMD_STOP}
BY DEF IsCall

LEMMA KindsOf ==
  /\ Issue \in StepKinds /\ WaitAck \in StepKinds /\ ReadStatus \in StepKinds
  /\ ReadProgmode \in StepKinds /\ ReadSignature \in StepKinds /\ Result \in StepKinds
  /\ \A b \in Seq(0 .. 255) : Write(b) \in StepKinds
  /\ \A n \in Nat : WriteData(n) \in StepKinds /\ Read(n) \in StepKinds
BY DEF StepKinds

LEMMA ByteStrings ==
  DeviceSignatureAddress \in Seq(0 .. 255) /\ Len(DeviceSignatureAddress) = 3
BY DEF DeviceSignatureAddress

\* A size is two bytes, low byte first
LEMMA WordFacts ==
  ASSUME NEW n \in Nat, n < 65536
  PROVE  /\ Word(n) \in Seq(0 .. 255) /\ Len(Word(n)) = 2
         /\ Word(n)[1] + 256 * Word(n)[2] = n
<1>1. n % 256 \in 0 .. 255 /\ n \div 256 \in 0 .. 255 /\ n = (n % 256) + 256 * (n \div 256)
  OBVIOUS
<1> DEFINE lo == n % 256
           hi == n \div 256
<1> HIDE DEF lo, hi
<1>2. lo \in 0 .. 255 /\ hi \in 0 .. 255 /\ n = lo + 256 * hi
  BY <1>1 DEF lo, hi
<1>3. << lo, hi >> \in Seq(0 .. 255) /\ Len(<< lo, hi >>) = 2
      /\ << lo, hi >>[1] + 256 * << lo, hi >>[2] = n
  BY <1>2
<1> QED  BY <1>3 DEF Word, lo, hi

LEMMA StartSteps ==
  ASSUME NEW call, IsCall(call), call.cmd = CMD_START
  PROVE  /\ Steps(call) \in Seq(StepKinds) /\ LastStep(call) = 7
         /\ Steps(call)[1] = Issue /\ Steps(call)[2] = WaitAck
         /\ Steps(call)[3] = ReadStatus /\ Steps(call)[4] = ReadProgmode
         /\ Steps(call)[5] = Write(DeviceSignatureAddress)
         /\ Steps(call)[6] = ReadSignature /\ Steps(call)[7] = Result
<1> DEFINE w == Write(DeviceSignatureAddress)
<1>1. Body(call) = << ReadStatus, ReadProgmode, w, ReadSignature >>
  BY DEF Body, StartBody
<1>2. w \in StepKinds
  BY KindsOf, ByteStrings
<1> HIDE DEF w
<1>3. Body(call) \in Seq(StepKinds) /\ Len(Body(call)) = 4
      /\ Body(call)[1] = ReadStatus /\ Body(call)[2] = ReadProgmode
      /\ Body(call)[3] = w /\ Body(call)[4] = ReadSignature
  BY <1>1, <1>2, KindsOf
<1>4. Frames(Steps(call), Body(call))
  BY <1>3, StepsFramed
<1> QED  BY <1>3, <1>4 DEF LastStep, w, Frames
LEMMA SetBaudSteps ==
  ASSUME NEW call, IsCall(call), call.cmd = CMD_SETBAUD
  PROVE  /\ Steps(call) \in Seq(StepKinds) /\ LastStep(call) = 7
         /\ Steps(call)[1] = Issue /\ Steps(call)[2] = WaitAck
         /\ Steps(call)[3] = WriteData(2)
         /\ Steps(call)[4] = WaitAck
         /\ Steps(call)[5] = WriteData(2)
         /\ Steps(call)[6] = WaitAck
         /\ Steps(call)[7] = Result
<1> DEFINE x == WriteData(2)
           y == WriteData(2)
<1>1. Body(call) = << x, WaitAck, y, WaitAck >>
  BY DEF Body, SetBaudBody
<1>2. x \in StepKinds /\ y \in StepKinds
  BY KindsOf
<1> HIDE DEF x, y
<1>3. Body(call) \in Seq(StepKinds) /\ Len(Body(call)) = 4
      /\ Body(call)[1] = x /\ Body(call)[2] = WaitAck /\ Body(call)[3] = y /\ Body(call)[4] = WaitAck
  BY <1>1, <1>2, KindsOf
<1>4. Frames(Steps(call), Body(call))
  BY <1>3, StepsFramed
<1> QED  BY <1>3, <1>4 DEF LastStep, Frames, x, y

LEMMA SetAddrSteps ==
  ASSUME NEW call, IsCall(call), call.cmd = CMD_SETADDR
  PROVE  /\ Steps(call) \in Seq(StepKinds) /\ LastStep(call) = 5
         /\ Steps(call)[1] = Issue /\ Steps(call)[2] = WaitAck
         /\ Steps(call)[3] = WriteData(3)
         /\ Steps(call)[4] = WaitAck
         /\ Steps(call)[5] = Result
<1> DEFINE x == WriteData(3)
<1>1. Body(call) = << x, WaitAck >>
  BY DEF Body, SetAddressBody
<1>2. x \in StepKinds
  BY KindsOf
<1> HIDE DEF x
<1>3. Body(call) \in Seq(StepKinds) /\ Len(Body(call)) = 2
      /\ Body(call)[1] = x /\ Body(call)[2] = WaitAck
  BY <1>1, <1>2, KindsOf
<1>4. Frames(Steps(call), Body(call))
  BY <1>3, StepsFramed
<1> QED  BY <1>3, <1>4 DEF LastStep, Frames, x

LEMMA GetByteSteps ==
  ASSUME NEW call, IsCall(call), call.cmd = CMD_GETBYTE
  PROVE  /\ Steps(call) \in Seq(StepKinds) /\ LastStep(call) = 6
         /\ Steps(call)[1] = Issue /\ Steps(call)[2] = WaitAck
         /\ Steps(call)[3] = WriteData(3)
         /\ Steps(call)[4] = WaitAck
         /\ Steps(call)[5] = Read(1)
         /\ Steps(call)[6] = Result
<1> DEFINE x == WriteData(3)
           y == Read(1)
<1>1. Body(call) = << x, WaitAck, y >>
  BY DEF Body, ReadByteBody
<1>2. x \in StepKinds /\ y \in StepKinds
  BY KindsOf
<1> HIDE DEF x, y
<1>3. Body(call) \in Seq(StepKinds) /\ Len(Body(call)) = 3
      /\ Body(call)[1] = x /\ Body(call)[2] = WaitAck /\ Body(call)[3] = y
  BY <1>1, <1>2, KindsOf
<1>4. Frames(Steps(call), Body(call))
  BY <1>3, StepsFramed
<1> QED  BY <1>3, <1>4 DEF LastStep, Frames, x, y

LEMMA SendByteSteps ==
  ASSUME NEW call, IsCall(call), call.cmd = CMD_SENDBYTE
  PROVE  /\ Steps(call) \in Seq(StepKinds) /\ LastStep(call) = 7
         /\ Steps(call)[1] = Issue /\ Steps(call)[2] = WaitAck
         /\ Steps(call)[3] = WriteData(3)
         /\ Steps(call)[4] = WaitAck
         /\ Steps(call)[5] = WriteData(1)
         /\ Steps(call)[6] = WaitAck
         /\ Steps(call)[7] = Result
<1> DEFINE x == WriteData(3)
           y == WriteData(1)
<1>1. Body(call) = << x, WaitAck, y, WaitAck >>
  BY DEF Body, WriteByteBody
<1>2. x \in StepKinds /\ y \in StepKinds
  BY KindsOf
<1> HIDE DEF x, y
<1>3. Body(call) \in Seq(StepKinds) /\ Len(Body(call)) = 4
      /\ Body(call)[1] = x /\ Body(call)[2] = WaitAck /\ Body(call)[3] = y /\ Body(call)[4] = WaitAck
  BY <1>1, <1>2, KindsOf
<1>4. Frames(Steps(call), Body(call))
  BY <1>3, StepsFramed
<1> QED  BY <1>3, <1>4 DEF LastStep, Frames, x, y

LEMMA GetBlockSteps ==
  ASSUME NEW call, IsCall(call), call.cmd = CMD_GETBLOCK
  PROVE  /\ Steps(call) \in Seq(StepKinds) /\ LastStep(call) = 6
         /\ Steps(call)[1] = Issue /\ Steps(call)[2] = WaitAck
         /\ Steps(call)[3] = Write(Word(call.n))
         /\ Steps(call)[4] = WaitAck
         /\ Steps(call)[5] = Read(call.n)
         /\ Steps(call)[6] = Result
<1> DEFINE x == Write(Word(call.n))
           y == Read(call.n)
<1>1. Body(call) = << x, WaitAck, y >>
  BY DEF Body, ReadBlockBody
<1>2. x \in StepKinds /\ y \in StepKinds
  <2>1. call.n \in Nat /\ call.n < 65536
    BY CallTypes
  <2>2. Word(call.n) \in Seq(0 .. 255)
    BY <2>1, WordFacts
  <2>3. \A b \in Seq(0 .. 255) : Write(b) \in StepKinds
    BY KindsOf
  <2>4. \A n \in Nat : Read(n) \in StepKinds
    BY KindsOf
  <2> QED  BY <2>1, <2>2, <2>3, <2>4
<1> HIDE DEF x, y
<1>3. Body(call) \in Seq(StepKinds) /\ Len(Body(call)) = 3
      /\ Body(call)[1] = x /\ Body(call)[2] = WaitAck /\ Body(call)[3] = y
  BY <1>1, <1>2, KindsOf
<1>4. Frames(Steps(call), Body(call))
  BY <1>3, StepsFramed
<1> QED  BY <1>3, <1>4 DEF LastStep, Frames, x, y

-------------------------------------------------------------------------------
(* Blocks: both sides cut them alike *)

LEMMA Times ==
  ASSUME NEW x \in Nat, NEW y \in Nat
  PROVE  /\ PacketSize * x \in Nat /\ PacketSize * (x + 1) = PacketSize * x + PacketSize
         /\ x < y => PacketSize * x + PacketSize <= PacketSize * y
         /\ x <= y => PacketSize * x <= PacketSize * y
         /\ PacketSize * 0 = 0
<1>1. PacketSize \in Nat /\ PacketSize > 0
  BY PacketAssumption
<1> DEFINE P == PacketSize
<1> HIDE DEF P
<1>2. P \in Nat /\ P > 0
  BY <1>1 DEF P
<1>3. P * x \in Nat /\ P * y \in Nat /\ P * (x + 1) = P * x + P /\ P * 0 = 0
  BY <1>2
<1>4. ASSUME x < y  PROVE P * x + P <= P * y
  <2>1. y - x \in Nat /\ y - x > 0 /\ P * (y - x) = P * y - P * x
    BY <1>2, <1>4
  <2>2. P <= P * (y - x)
    BY <1>2, <2>1
  <2> QED  BY <2>1, <2>2, <1>2, <1>3
<1>5. ASSUME x <= y  PROVE P * x <= P * y
  <2>1. CASE x = y
    BY <2>1, <1>3
  <2>2. CASE x # y
    BY <1>2, <1>3, <1>4, <1>5, <2>2
  <2> QED  BY <2>1, <2>2
<1> QED  BY <1>3, <1>4, <1>5 DEF P

LEMMA Quotient ==
  ASSUME NEW a \in Nat, NEW m \in Nat \ {0}
  PROVE  /\ a \div m \in Nat /\ a % m \in Nat /\ a % m < m
         /\ a = (a \div m) * m + (a % m)
OBVIOUS

LEMMA Division ==
  ASSUME NEW n \in Nat
  PROVE  /\ n \div PacketSize \in Nat /\ n % PacketSize \in Nat
         /\ n % PacketSize < PacketSize
         /\ n = PacketSize * (n \div PacketSize) + (n % PacketSize)
<1>1. PacketSize \in Nat \ {0}
  BY PacketAssumption
<1>2. \A u, v \in Nat : u * v = v * u
  OBVIOUS
<1>3. n \div PacketSize \in Nat /\ n % PacketSize \in Nat /\ n % PacketSize < PacketSize
  BY <1>1, Quotient
<1>4. n = (n \div PacketSize) * PacketSize + (n % PacketSize)
  BY <1>1, Quotient
<1> QED  BY <1>1, <1>2, <1>3, <1>4

LEMMA PacketNumbers ==
  ASSUME NEW n \in Nat, NEW k \in Nat
  PROVE  /\ PacketCount(n) \in Nat
         /\ k <= n \div PacketSize <=> PacketSize * k <= n
         /\ k <= n \div PacketSize => k <= PacketCount(n)
         /\ k <= PacketCount(n) /\ ~(k <= n \div PacketSize) =>
              k = n \div PacketSize + 1 /\ n % PacketSize > 0
         /\ k >= PacketCount(n) => PacketSize * k >= n
<1> DEFINE P == PacketSize
           q == n \div PacketSize
           r == n % PacketSize
<1>1. q \in Nat /\ r \in Nat /\ r < P /\ n = P * q + r /\ P \in Nat
  BY Division, PacketAssumption
<1>2. PacketCount(n) = q + (IF r # 0 THEN 1 ELSE 0)
  BY DEF PacketCount, Once
<1>3. P * q \in Nat /\ P * (q + 1) = P * q + P /\ P * k \in Nat
      /\ (k <= q => P * k <= P * q) /\ (q < k => P * q + P <= P * k)
      /\ (q <= k => P * q <= P * k)
  BY <1>1, Times
<1> HIDE DEF P, q, r
<1>4. k <= q <=> P * k <= n
  BY <1>1, <1>3
<1>5. PacketCount(n) \in Nat /\ (k <= q => k <= PacketCount(n))
  BY <1>1, <1>2
<1>6. k <= PacketCount(n) /\ ~(k <= q) => k = q + 1 /\ r > 0
  BY <1>1, <1>2
<1>7. k >= PacketCount(n) => P * k >= n
  BY <1>1, <1>2, <1>3
<1> QED  BY <1>4, <1>5, <1>6, <1>7 DEF P, q, r

\* What the first k packets are
LEMMA UptoFacts ==
  ASSUME NEW n \in Nat, NEW k \in Nat
  PROVE  /\ Upto(k, n) \in Nat /\ Upto(k, n) <= n /\ Upto(0, n) = 0
         /\ k >= PacketCount(n) => Upto(k, n) = n
         /\ k < PacketCount(n) =>
              /\ Upto(k, n) < n
              /\ Upto(k + 1, n) =
                   IF n - Upto(k, n) > PacketSize THEN Upto(k, n) + PacketSize ELSE n
<1>1. PacketSize * k \in Nat /\ PacketSize * (k + 1) = PacketSize * k + PacketSize
      /\ PacketSize * 0 = 0 /\ PacketSize \in Nat /\ PacketSize > 0
  BY Times, PacketAssumption
<1>2. PacketCount(n) \in Nat /\ (k >= PacketCount(n) => PacketSize * k >= n)
  BY PacketNumbers
<1>3. k < PacketCount(n) => PacketSize * k < n
  <2> SUFFICES ASSUME k < PacketCount(n)  PROVE PacketSize * k < n
    OBVIOUS
  <2>1. CASE k + 1 <= n \div PacketSize
    <3>1. PacketSize * (k + 1) <= n
      BY <2>1, PacketNumbers, k + 1 \in Nat
    <3> QED  BY <3>1, <1>1
  <2>2. CASE ~(k + 1 <= n \div PacketSize)
    <3>1. k + 1 = n \div PacketSize + 1 /\ n % PacketSize > 0
      BY <2>2, PacketNumbers, <1>2, k + 1 \in Nat, k + 1 <= PacketCount(n)
    <3>2. n \div PacketSize \in Nat /\ n = PacketSize * (n \div PacketSize) + (n % PacketSize)
          /\ n % PacketSize \in Nat
      BY Division
    <3>3. k = n \div PacketSize
      BY <3>1, <3>2
    <3>4. n = PacketSize * k + (n % PacketSize)
      BY <3>2, <3>3
    <3> QED  BY <1>1, <3>1, <3>2, <3>4
  <2> QED  BY <2>1, <2>2
<1> DEFINE p == PacketSize * k
           p2 == PacketSize * (k + 1)
<1>4. p \in Nat /\ p2 = p + PacketSize /\ (k < PacketCount(n) => p < n)
      /\ (k >= PacketCount(n) => p >= n)
  BY <1>1, <1>2, <1>3
<1>5. Upto(k, n) = IF p <= n THEN p ELSE n
  BY DEF Upto
<1>6. Upto(k + 1, n) = IF p2 <= n THEN p2 ELSE n
  BY DEF Upto
<1>7. Upto(0, n) = 0
  BY <1>1 DEF Upto
<1> HIDE DEF p, p2
<1>8. Upto(k, n) \in Nat /\ Upto(k, n) <= n
  BY <1>4, <1>5
<1>9. k >= PacketCount(n) => Upto(k, n) = n
  BY <1>4, <1>5
<1>10. ASSUME k < PacketCount(n)
       PROVE  /\ Upto(k, n) < n
              /\ Upto(k + 1, n) =
                   IF n - Upto(k, n) > PacketSize THEN Upto(k, n) + PacketSize ELSE n
  BY <1>1, <1>4, <1>5, <1>6, <1>10
<1> QED  BY <1>7, <1>8, <1>9, <1>10

LEMMA UptoGrows ==
  ASSUME NEW n \in Nat, NEW i \in Nat, NEW k \in Nat, i <= k
  PROVE  /\ Upto(i, n) <= Upto(k, n)
         /\ i < k /\ k <= PacketCount(n) => Upto(i, n) < Upto(k, n)
<1>1. PacketSize * i \in Nat /\ PacketSize * k \in Nat /\ PacketSize * i <= PacketSize * k
      /\ (i < k => PacketSize * i + PacketSize <= PacketSize * k)
      /\ PacketSize \in Nat /\ PacketSize > 0
  BY Times, PacketAssumption
<1>2. PacketCount(n) \in Nat
  BY PacketNumbers
<1>3. i < k /\ k <= PacketCount(n) => Upto(i, n) < n
  BY <1>2, UptoFacts
<1> DEFINE p == PacketSize * i
           q == PacketSize * k
<1>4. /\ Upto(i, n) = IF p <= n THEN p ELSE n
      /\ Upto(k, n) = IF q <= n THEN q ELSE n
  BY DEF Upto
<1>5. p \in Nat /\ q \in Nat /\ p <= q /\ (i < k => p + PacketSize <= q)
  BY <1>1
<1> HIDE DEF p, q
<1> QED  BY <1>1, <1>3, <1>4, <1>5

-------------------------------------------------------------------------------
(* The steps of calls that depend on a size *)

ArePackets(steps, n) ==
  /\ steps \in Seq(StepKinds) /\ Len(steps) = 2 * PacketCount(n)
  /\ \A k \in 1 .. 2 * PacketCount(n) :
       steps[k] = IF k % 2 = 1 THEN WaitAck
                  ELSE WriteData(Upto(k \div 2, n) - Upto(k \div 2 - 1, n))

LEMMA PacketSteps ==
  ASSUME NEW n \in Nat
  PROVE  ArePackets(PacketsOf(n), n)
<1> DEFINE full == n \div PacketSize
           last == n % PacketSize
           m == 2 * PacketCount(n)
           e(k) == IF k % 2 = 1 THEN WaitAck
                   ELSE WriteData(IF k \div 2 <= full THEN PacketSize ELSE last)
           f == [k \in 1 .. m |-> e(k)]
<1>1. PacketCount(n) = full + (IF last = 0 THEN 0 ELSE 1)
      /\ full \in Nat /\ last \in Nat /\ m \in Nat
  BY PacketNumbers, Division DEF PacketCount, Once
<1>2. PacketsOf(n) = f
  BY <1>1 DEF PacketsOf
<1>3. ASSUME NEW k \in 1 .. m  PROVE e(k) \in StepKinds
  <2>1. PacketSize \in Nat
    BY PacketAssumption
  <2>2. WaitAck \in StepKinds
    BY KindsOf
  <2>3. \A w \in Nat : WriteData(w) \in StepKinds
    BY KindsOf
  <2> QED  BY <1>1, <2>1, <2>2, <2>3
<1>4. ASSUME NEW k \in 1 .. m, k % 2 # 1
      PROVE  (IF k \div 2 <= full THEN PacketSize ELSE last)
               = Upto(k \div 2, n) - Upto(k \div 2 - 1, n)
  <2> DEFINE w == k \div 2
             v == w - 1
  <2>1. PacketCount(n) \in Nat
    BY PacketNumbers
  <2>2. w \in Nat /\ v \in Nat /\ v + 1 = w /\ w <= PacketCount(n)
    BY <1>4, <2>1
  <2> HIDE DEF w, v
  <2>3. /\ PacketSize * v \in Nat /\ PacketSize * w = PacketSize * v + PacketSize
        /\ PacketSize \in Nat /\ PacketSize > 0
    BY <2>2, Times, PacketAssumption
  <2>4. (w <= full <=> PacketSize * w <= n) /\ (v <= full <=> PacketSize * v <= n)
    BY <2>2, PacketNumbers
  <2>5. ~(w <= full) => w = full + 1
    BY <2>2, PacketNumbers
  <2>6. n = PacketSize * full + last
    BY Division
  <2>7. ~(w <= full) => n = PacketSize * v + last
    <3>1. ~(w <= full) => v = full
      BY <1>1, <2>2, <2>5
    <3> QED  BY <2>6, <3>1
  <2>8. v <= full
    BY <1>1, <2>2, <2>5
  <2> DEFINE x == PacketSize * v
             y == PacketSize * w
  <2>9. Upto(v, n) = IF x <= n THEN x ELSE n
    BY DEF Upto
  <2>10. Upto(w, n) = IF y <= n THEN y ELSE n
    BY DEF Upto
  <2>11. /\ x \in Nat /\ y = x + PacketSize /\ PacketSize \in Nat
         /\ (w <= full <=> y <= n) /\ (v <= full <=> x <= n) /\ v <= full
         /\ (~(w <= full) => n = x + last)
    BY <2>3, <2>4, <2>7, <2>8
  <2> HIDE DEF x, y, full, last
  <2>12. (IF w <= full THEN PacketSize ELSE last) = Upto(w, n) - Upto(v, n)
    BY <2>9, <2>10, <2>11, <1>1
  <2> QED  BY <2>12 DEF w, v, full, last
<1>5. f \in Seq(StepKinds) /\ Len(f) = m
  <2>1. f \in [1 .. m -> StepKinds]
    BY <1>3
  <2> HIDE DEF f, m
  <2> QED  BY <1>1, <2>1
<1>6. ASSUME NEW k \in 1 .. m
      PROVE  f[k] = IF k % 2 = 1 THEN WaitAck
                    ELSE WriteData(Upto(k \div 2, n) - Upto(k \div 2 - 1, n))
  <2>1. f[k] = e(k)
    OBVIOUS
  <2>2. CASE k % 2 = 1
    BY <2>1, <2>2
  <2>3. CASE k % 2 # 1
    <3>1. (IF k \div 2 <= full THEN PacketSize ELSE last)
               = Upto(k \div 2, n) - Upto(k \div 2 - 1, n)
      BY <1>4, <2>3
    <3> HIDE DEF f, full, last
    <3> QED  BY <2>1, <2>3, <3>1
  <2> QED  BY <2>2, <2>3
<1> QED  BY <1>2, <1>5, <1>6 DEF ArePackets

LEMMA SendBlockSteps ==
  ASSUME NEW call, IsCall(call), call.cmd = CMD_SENDBLOCK
  PROVE  /\ Steps(call) \in Seq(StepKinds) /\ PacketCount(call.n) \in Nat
         /\ LastStep(call) = 4 + 2 * PacketCount(call.n)
         /\ Steps(call)[1] = Issue /\ Steps(call)[2] = WaitAck
         /\ Steps(call)[3] = Write(Word(call.n))
         /\ \A a \in 4 .. 3 + 2 * PacketCount(call.n) :
              Steps(call)[a] =
                IF (a - 3) % 2 = 1 THEN WaitAck
                ELSE WriteData(Upto((a - 3) \div 2, call.n) - Upto((a - 3) \div 2 - 1, call.n))
         /\ Steps(call)[4 + 2 * PacketCount(call.n)] = Result
<1> DEFINE n == call.n
           w == Write(Word(n))
           front == << w >>
           packets == PacketsOf(n)
           m == 2 * PacketCount(n)
           body == front \o packets
           Packet(k) == IF k % 2 = 1 THEN WaitAck
                        ELSE WriteData(Upto(k \div 2, n) - Upto(k \div 2 - 1, n))
<1>1. n \in Nat /\ n < 65536
  BY CallTypes
<1>2. Body(call) = body
  BY DEF Body, WriteBlockBody
<1>3. w \in StepKinds
  <2>1. Word(n) \in Seq(0 .. 255)
    BY <1>1, WordFacts
  <2>2. \A b \in Seq(0 .. 255) : Write(b) \in StepKinds
    BY KindsOf
  <2> QED  BY <2>1, <2>2
<1>a. ArePackets(packets, n)
  BY <1>1, PacketSteps
<1>b. PacketCount(n) \in Nat
  BY <1>1, PacketNumbers
<1>4. /\ packets \in Seq(StepKinds) /\ Len(packets) = m /\ m \in Nat /\ PacketCount(n) \in Nat
      /\ \A k \in 1 .. m : packets[k] = Packet(k)
  <2> HIDE DEF packets
  <2> QED  BY <1>a, <1>b DEF ArePackets
<1> HIDE DEF w, packets
<1>5. front \in Seq(StepKinds) /\ Len(front) = 1 /\ front[1] = w
  BY <1>3
<1> HIDE DEF front, m, Packet
<1>6. Joins(body, front, packets)
  BY <1>4, <1>5, Joined
<1> HIDE DEF body
<1>7. body \in Seq(StepKinds)
  BY <1>6 DEF Joins
<1>8. Len(body) = m + 1
  BY <1>4, <1>5, <1>6 DEF Joins
<1>9. \A i \in 1 .. m + 1 : body[i] = IF i <= 1 THEN front[i] ELSE packets[i - 1]
  <2>1. Len(front) + Len(packets) = m + 1
    BY <1>4, <1>5
  <2> QED  BY <1>5, <1>6, <2>1 DEF Joins
<1>10. Frames(Steps(call), body)
  BY <1>2, <1>7, StepsFramed
<1>11. /\ Steps(call) \in Seq(StepKinds) /\ Len(Steps(call)) = m + 4
       /\ Steps(call)[1] = Issue /\ Steps(call)[2] = WaitAck /\ Steps(call)[m + 4] = Result
       /\ \A i \in 3 .. m + 3 : Steps(call)[i] = body[i - 2]
  BY <1>4, <1>5, <1>8, <1>10 DEF Frames
<1>12. Steps(call)[3] = w
  <2>1. m \in Nat /\ 3 \in 3 .. m + 3 /\ 1 \in 1 .. m + 1
    BY <1>4
  <2>2. Steps(call)[3] = body[1]
    BY <1>11, <2>1
  <2>3. body[1] = front[1]
    BY <1>9, <2>1
  <2> QED  BY <1>5, <2>2, <2>3
<1>13. ASSUME NEW a \in 4 .. 3 + m  PROVE Steps(call)[a] = Packet(a - 3)
  <2>1. Steps(call)[a] = body[a - 2] /\ body[a - 2] = packets[a - 3] /\ a - 3 \in 1 .. m
    BY <1>4, <1>5, <1>9, <1>11
  <2> QED  BY <1>4, <2>1
<1> QED  BY <1>4, <1>11, <1>12, <1>13 DEF LastStep, w, m, Packet

LEMMA PageEraseSteps ==
  ASSUME NEW call, IsCall(call), call.cmd = CMD_FLASH_PAGE_ERASE
  PROVE  /\ Steps(call) \in Seq(StepKinds) /\ LastStep(call) = 8 + call.n
         /\ Steps(call)[1] = Issue /\ Steps(call)[2] = WaitAck
         /\ Steps(call)[3] = WriteData(3) /\ Steps(call)[4] = WaitAck
         /\ Steps(call)[5] = Write(Word(call.n)) /\ Steps(call)[6] = WaitAck
         /\ Steps(call)[7] = WriteData(2)
         /\ \A a \in 8 .. 7 + call.n : Steps(call)[a] = WaitAck
         /\ Steps(call)[8 + call.n] = Result
<1> DEFINE n == call.n
           x == WriteData(3)
           y == Write(Word(n))
           z == WriteData(2)
           front == << x, WaitAck, y, WaitAck, z >>
           pages == [k \in 1 .. n |-> WaitAck]
           body == front \o pages
<1>1. n \in Nat /\ n < 65536
  BY CallTypes
<1>2. Body(call) = body
  <2>1. Body(call) = PageEraseBody(n)
    BY DEF Body
  <2> QED  BY <2>1 DEF PageEraseBody
<1>3. x \in StepKinds /\ z \in StepKinds /\ WaitAck \in StepKinds
  BY KindsOf
<1>4. y \in StepKinds
  <2>1. Word(n) \in Seq(0 .. 255)
    BY <1>1, WordFacts
  <2>2. \A b \in Seq(0 .. 255) : Write(b) \in StepKinds
    BY KindsOf
  <2> QED  BY <2>1, <2>2
<1>5. pages \in Seq(StepKinds) /\ Len(pages) = n /\ \A k \in 1 .. n : pages[k] = WaitAck
  <2> HIDE DEF n
  <2> QED  BY <1>1, <1>3
<1> HIDE DEF x, y, z, pages, n
<1>6. front \in Seq(StepKinds) /\ Len(front) = 5 /\ front[1] = x /\ front[2] = WaitAck
      /\ front[3] = y /\ front[4] = WaitAck /\ front[5] = z
  BY <1>3, <1>4
<1> HIDE DEF front
<1>7. Joins(body, front, pages)
  BY <1>5, <1>6, Joined
<1> HIDE DEF body
<1>8. body \in Seq(StepKinds)
  BY <1>7 DEF Joins
<1>9. Len(body) = n + 5
  BY <1>1, <1>5, <1>6, <1>7 DEF Joins
<1>10. \A i \in 1 .. n + 5 : body[i] = IF i <= 5 THEN front[i] ELSE pages[i - 5]
  <2>1. Len(front) + Len(pages) = n + 5
    BY <1>1, <1>5, <1>6
  <2> QED  BY <1>6, <1>7, <2>1 DEF Joins
<1>11. Frames(Steps(call), body)
  BY <1>2, <1>8, StepsFramed
<1>12. /\ Steps(call) \in Seq(StepKinds) /\ Len(Steps(call)) = n + 8
       /\ Steps(call)[1] = Issue /\ Steps(call)[2] = WaitAck /\ Steps(call)[n + 8] = Result
       /\ \A i \in 3 .. n + 7 : Steps(call)[i] = body[i - 2]
  BY <1>1, <1>5, <1>6, <1>9, <1>11 DEF Frames
<1>13. \A i \in 3 .. n + 7 : Steps(call)[i] = IF i <= 7 THEN front[i - 2] ELSE WaitAck
  <2> SUFFICES ASSUME NEW i \in 3 .. n + 7
               PROVE  Steps(call)[i] = IF i <= 7 THEN front[i - 2] ELSE WaitAck
    OBVIOUS
  <2>1. Steps(call)[i] = body[i - 2]
    BY <1>12
  <2>2. i - 2 \in 1 .. n + 5
    BY <1>1
  <2>3. body[i - 2] = IF i - 2 <= 5 THEN front[i - 2] ELSE pages[i - 2 - 5]
    BY <1>6, <1>10, <2>2
  <2>4. CASE i <= 7
    BY <2>1, <2>3, <2>4
  <2>5. CASE ~(i <= 7)
    <3>1. i - 2 - 5 \in 1 .. n
      BY <1>1, <2>5
    <3> QED  BY <1>1, <1>5, <2>1, <2>3, <2>5, <3>1
  <2> QED  BY <2>4, <2>5
<1>14. \A i \in 3 .. 7 : Steps(call)[i] = front[i - 2]
  BY <1>1, <1>13
<1>15. \A i \in 8 .. n + 7 : Steps(call)[i] = WaitAck
  BY <1>1, <1>13
<1>16. /\ Steps(call)[3] = x /\ Steps(call)[4] = WaitAck /\ Steps(call)[5] = y
       /\ Steps(call)[6] = WaitAck /\ Steps(call)[7] = z
  BY <1>6, <1>14
<1>17. LastStep(call) = 8 + n /\ Steps(call)[8 + n] = Result
  BY <1>1, <1>12 DEF LastStep
<1>18. Steps(call) \in Seq(StepKinds) /\ Steps(call)[1] = Issue /\ Steps(call)[2] = WaitAck
  BY <1>12
<1>19. \A i \in 8 .. 7 + n : Steps(call)[i] = WaitAck
  <2>1. n + 7 = 7 + n
    BY <1>1
  <2> QED  BY <1>15, <2>1
<1> QED  BY <1>16, <1>17, <1>18, <1>19 DEF x, y, z, n

-------------------------------------------------------------------------------
(* What each step reads and writes *)

Asks(step) == CASE step.do \in {"ack", "status", "progmode", "result"} -> 1
                [] step.do = "read" -> step.n
                [] step.do = "signature" -> 3
                [] OTHER -> 0

Gives(step) == CASE step.do = "issue" -> 1
                 [] step.do = "write" -> Len(step.bytes)
                 [] step.do = "data"  -> step.n
                 [] OTHER -> 0

Reading == {"ack", "status", "progmode", "signature", "read", "result"}
Writing == {"issue", "write", "data"}

\* A step moves the counts by what it reads and writes
Moves(call, a) ==
  LET step == Steps(call)[a]
  IN  /\ step.do \in Reading \cup Writing
      /\ step.do = "issue" <=> a = 1
      /\ step.do = "result" <=> a = LastStep(call)
      /\ HasRead(call, a) \in Nat /\ HasWritten(call, a) \in Nat
      /\ Asks(step) \in Nat /\ Gives(step) \in Nat
      /\ step.do \in Reading <=> Asks(step) > 0
      /\ step.do \in Writing <=> Gives(step) > 0
      /\ a < LastStep(call) =>
           /\ HasRead(call, a + 1) = HasRead(call, a) + Asks(step)
           /\ HasWritten(call, a + 1) = HasWritten(call, a) + Gives(step)

LEMMA KindFacts ==
  /\ Issue.do = "issue" /\ Asks(Issue) = 0 /\ Gives(Issue) = 1
  /\ WaitAck.do = "ack" /\ Asks(WaitAck) = 1 /\ Gives(WaitAck) = 0
  /\ ReadStatus.do = "status" /\ Asks(ReadStatus) = 1 /\ Gives(ReadStatus) = 0
  /\ ReadProgmode.do = "progmode" /\ Asks(ReadProgmode) = 1 /\ Gives(ReadProgmode) = 0
  /\ ReadSignature.do = "signature" /\ Asks(ReadSignature) = 3 /\ Gives(ReadSignature) = 0
  /\ Result.do = "result" /\ Asks(Result) = 1 /\ Gives(Result) = 0
BY DEF Issue, WaitAck, ReadStatus, ReadProgmode, ReadSignature, Result, Asks, Gives

LEMMA WriteFacts ==
  ASSUME NEW b
  PROVE  /\ Write(b).do = "write" /\ Write(b).bytes = b
         /\ Asks(Write(b)) = 0 /\ Gives(Write(b)) = Len(b)
BY DEF Write, Asks, Gives

LEMMA DataFacts ==
  ASSUME NEW n
  PROVE  /\ WriteData(n).do = "data" /\ WriteData(n).n = n
         /\ Asks(WriteData(n)) = 0 /\ Gives(WriteData(n)) = n
         /\ Read(n).do = "read" /\ Read(n).n = n
         /\ Asks(Read(n)) = n /\ Gives(Read(n)) = 0
BY DEF WriteData, Read, Asks, Gives

LEMMA PlainCounts ==
  ASSUME NEW call, call.cmd \in {CMD_STOP, CMD_CHIPERASE, CMD_EEPROM_WR_EN, CMD_FLASH_WR_EN, CMD_NVM_WR_DIS}, NEW i \in Nat
  PROVE  /\ HasRead(call, i) = IF i > 2 THEN 1 ELSE 0
         /\ HasWritten(call, i) = IF i > 1 THEN 1 ELSE 0
<1>1. BodyRead(call, i) = 0
  BY DEF BodyRead
<1>2. BodyWritten(call, i) = 0
  BY DEF BodyWritten
<1>3. HasRead(call, i) = IF i > 2 THEN 1 ELSE 0
  BY <1>1 DEF HasRead, Once
<1>4. HasWritten(call, i) = IF i > 1 THEN 1 ELSE 0
  BY <1>2 DEF HasWritten, Once
<1> QED  BY <1>3, <1>4

LEMMA PlainMoves ==
  ASSUME NEW call, IsCall(call), NEW a \in 1 .. LastStep(call),
         call.cmd \in {CMD_STOP, CMD_CHIPERASE, CMD_EEPROM_WR_EN, CMD_FLASH_WR_EN, CMD_NVM_WR_DIS}
  PROVE  Moves(call, a)
<1>1. LastStep(call) = 3 /\ a \in 1 .. 3
  BY PlainSteps
<1>2. /\ Steps(call)[1] = Issue
      /\ Steps(call)[2] = WaitAck
      /\ Steps(call)[3] = Result
  BY PlainSteps
<1> DEFINE step == Steps(call)[a]
<1>3. /\ step.do \in Reading \cup Writing
      /\ step.do = "issue" <=> a = 1
      /\ step.do = "result" <=> a = LastStep(call)
      /\ Asks(step) \in Nat /\ Gives(step) \in Nat
      /\ step.do \in Reading <=> Asks(step) > 0
      /\ step.do \in Writing <=> Gives(step) > 0
  BY <1>1, <1>2, KindFacts DEF Reading, Writing
<1>4. /\ Asks(step) = IF a \in {2, 3} THEN 1 ELSE 0
      /\ Gives(step) = IF a = 1 THEN 1 ELSE 0
  BY <1>1, <1>2, KindFacts
<1>5. HasRead(call, a) \in Nat /\ HasWritten(call, a) \in Nat
  BY <1>1, PlainCounts
<1>6. a < LastStep(call) => HasRead(call, a + 1) = HasRead(call, a) + Asks(step)
  BY <1>1, <1>4, PlainCounts
<1>7. a < LastStep(call) => HasWritten(call, a + 1) = HasWritten(call, a) + Gives(step)
  BY <1>1, <1>4, PlainCounts
<1> QED  BY <1>3, <1>5, <1>6, <1>7 DEF Moves

LEMMA StartCounts ==
  ASSUME NEW call, call.cmd = CMD_START, NEW i \in Nat
  PROVE  /\ HasRead(call, i) = IF i > 6 THEN 6 ELSE IF i > 4 THEN 3 ELSE IF i > 3 THEN 2 ELSE IF i > 2 THEN 1 ELSE 0
         /\ HasWritten(call, i) = IF i > 5 THEN 4 ELSE IF i > 1 THEN 1 ELSE 0
<1>1. BodyRead(call, i) = Once(i > 3) + Once(i > 4) + 3 * Once(i > 6)
  BY DEF BodyRead
<1>2. BodyWritten(call, i) = 3 * Once(i > 5)
  BY DEF BodyWritten
<1>3. HasRead(call, i) = IF i > 6 THEN 6 ELSE IF i > 4 THEN 3 ELSE IF i > 3 THEN 2 ELSE IF i > 2 THEN 1 ELSE 0
  BY <1>1 DEF HasRead, Once
<1>4. HasWritten(call, i) = IF i > 5 THEN 4 ELSE IF i > 1 THEN 1 ELSE 0
  BY <1>2 DEF HasWritten, Once
<1> QED  BY <1>3, <1>4

LEMMA StartMoves ==
  ASSUME NEW call, IsCall(call), NEW a \in 1 .. LastStep(call),
         call.cmd = CMD_START
  PROVE  Moves(call, a)
<1> DEFINE w == Write(DeviceSignatureAddress)
<1>1. w.do = "write" /\ Asks(w) = 0
  BY WriteFacts
<1>2. Gives(w) = 3
  BY WriteFacts, ByteStrings
<1>3. LastStep(call) = 7 /\ a \in 1 .. 7
  BY StartSteps
<1>4. /\ Steps(call)[1] = Issue
      /\ Steps(call)[2] = WaitAck
      /\ Steps(call)[3] = ReadStatus
      /\ Steps(call)[4] = ReadProgmode
      /\ Steps(call)[5] = w
      /\ Steps(call)[6] = ReadSignature
      /\ Steps(call)[7] = Result
  BY StartSteps
<1> HIDE DEF w
<1> DEFINE step == Steps(call)[a]
<1>5. /\ step.do \in Reading \cup Writing
      /\ step.do = "issue" <=> a = 1
      /\ step.do = "result" <=> a = LastStep(call)
      /\ Asks(step) \in Nat /\ Gives(step) \in Nat
      /\ step.do \in Reading <=> Asks(step) > 0
      /\ step.do \in Writing <=> Gives(step) > 0
  BY <1>3, <1>4, <1>1, <1>2, KindFacts DEF Reading, Writing
<1>6. /\ Asks(step) = IF a \in {2, 3, 4, 7} THEN 1 ELSE IF a = 6 THEN 3 ELSE 0
      /\ Gives(step) = IF a = 1 THEN 1 ELSE IF a = 5 THEN 3 ELSE 0
  BY <1>3, <1>4, <1>1, <1>2, KindFacts
<1>7. HasRead(call, a) \in Nat /\ HasWritten(call, a) \in Nat
  BY <1>3, StartCounts
<1>8. a < LastStep(call) => HasRead(call, a + 1) = HasRead(call, a) + Asks(step)
  BY <1>3, <1>6, StartCounts
<1>9. a < LastStep(call) => HasWritten(call, a + 1) = HasWritten(call, a) + Gives(step)
  BY <1>3, <1>6, StartCounts
<1> QED  BY <1>5, <1>7, <1>8, <1>9 DEF Moves

LEMMA SetBaudCounts ==
  ASSUME NEW call, call.cmd = CMD_SETBAUD, NEW i \in Nat
  PROVE  /\ HasRead(call, i) = IF i > 6 THEN 3 ELSE IF i > 4 THEN 2 ELSE IF i > 2 THEN 1 ELSE 0
         /\ HasWritten(call, i) = IF i > 5 THEN 5 ELSE IF i > 3 THEN 3 ELSE IF i > 1 THEN 1 ELSE 0
<1>1. BodyRead(call, i) = Once(i > 4) + Once(i > 6)
  BY DEF BodyRead
<1>2. BodyWritten(call, i) = 2 * Once(i > 3) + 2 * Once(i > 5)
  BY DEF BodyWritten
<1>3. HasRead(call, i) = IF i > 6 THEN 3 ELSE IF i > 4 THEN 2 ELSE IF i > 2 THEN 1 ELSE 0
  BY <1>1 DEF HasRead, Once
<1>4. HasWritten(call, i) = IF i > 5 THEN 5 ELSE IF i > 3 THEN 3 ELSE IF i > 1 THEN 1 ELSE 0
  BY <1>2 DEF HasWritten, Once
<1> QED  BY <1>3, <1>4

LEMMA SetBaudMoves ==
  ASSUME NEW call, IsCall(call), NEW a \in 1 .. LastStep(call),
         call.cmd = CMD_SETBAUD
  PROVE  Moves(call, a)
<1> DEFINE w == WriteData(2)
<1>1. w.do = "data" /\ Asks(w) = 0
  BY DataFacts
<1>2. Gives(w) = 2
  BY DataFacts
<1>3. LastStep(call) = 7 /\ a \in 1 .. 7
  BY SetBaudSteps
<1>4. /\ Steps(call)[1] = Issue
      /\ Steps(call)[2] = WaitAck
      /\ Steps(call)[3] = w
      /\ Steps(call)[4] = WaitAck
      /\ Steps(call)[5] = w
      /\ Steps(call)[6] = WaitAck
      /\ Steps(call)[7] = Result
  BY SetBaudSteps
<1> HIDE DEF w
<1> DEFINE step == Steps(call)[a]
<1>5. /\ step.do \in Reading \cup Writing
      /\ step.do = "issue" <=> a = 1
      /\ step.do = "result" <=> a = LastStep(call)
      /\ Asks(step) \in Nat /\ Gives(step) \in Nat
      /\ step.do \in Reading <=> Asks(step) > 0
      /\ step.do \in Writing <=> Gives(step) > 0
  BY <1>3, <1>4, <1>1, <1>2, KindFacts DEF Reading, Writing
<1>6. /\ Asks(step) = IF a \in {2, 4, 6, 7} THEN 1 ELSE 0
      /\ Gives(step) = IF a = 1 THEN 1 ELSE IF a \in {3, 5} THEN 2 ELSE 0
  BY <1>3, <1>4, <1>1, <1>2, KindFacts
<1>7. HasRead(call, a) \in Nat /\ HasWritten(call, a) \in Nat
  BY <1>3, SetBaudCounts
<1>8. a < LastStep(call) => HasRead(call, a + 1) = HasRead(call, a) + Asks(step)
  BY <1>3, <1>6, SetBaudCounts
<1>9. a < LastStep(call) => HasWritten(call, a + 1) = HasWritten(call, a) + Gives(step)
  BY <1>3, <1>6, SetBaudCounts
<1> QED  BY <1>5, <1>7, <1>8, <1>9 DEF Moves

LEMMA SetAddrCounts ==
  ASSUME NEW call, call.cmd = CMD_SETADDR, NEW i \in Nat
  PROVE  /\ HasRead(call, i) = IF i > 4 THEN 2 ELSE IF i > 2 THEN 1 ELSE 0
         /\ HasWritten(call, i) = IF i > 3 THEN 4 ELSE IF i > 1 THEN 1 ELSE 0
<1>1. BodyRead(call, i) = Once(i > 4)
  BY DEF BodyRead
<1>2. BodyWritten(call, i) = 3 * Once(i > 3)
  BY DEF BodyWritten
<1>3. HasRead(call, i) = IF i > 4 THEN 2 ELSE IF i > 2 THEN 1 ELSE 0
  BY <1>1 DEF HasRead, Once
<1>4. HasWritten(call, i) = IF i > 3 THEN 4 ELSE IF i > 1 THEN 1 ELSE 0
  BY <1>2 DEF HasWritten, Once
<1> QED  BY <1>3, <1>4

LEMMA SetAddrMoves ==
  ASSUME NEW call, IsCall(call), NEW a \in 1 .. LastStep(call),
         call.cmd = CMD_SETADDR
  PROVE  Moves(call, a)
<1> DEFINE w == WriteData(3)
<1>1. w.do = "data" /\ Asks(w) = 0
  BY DataFacts
<1>2. Gives(w) = 3
  BY DataFacts
<1>3. LastStep(call) = 5 /\ a \in 1 .. 5
  BY SetAddrSteps
<1>4. /\ Steps(call)[1] = Issue
      /\ Steps(call)[2] = WaitAck
      /\ Steps(call)[3] = w
      /\ Steps(call)[4] = WaitAck
      /\ Steps(call)[5] = Result
  BY SetAddrSteps
<1> HIDE DEF w
<1> DEFINE step == Steps(call)[a]
<1>5. /\ step.do \in Reading \cup Writing
      /\ step.do = "issue" <=> a = 1
      /\ step.do = "result" <=> a = LastStep(call)
      /\ Asks(step) \in Nat /\ Gives(step) \in Nat
      /\ step.do \in Reading <=> Asks(step) > 0
      /\ step.do \in Writing <=> Gives(step) > 0
  BY <1>3, <1>4, <1>1, <1>2, KindFacts DEF Reading, Writing
<1>6. /\ Asks(step) = IF a \in {2, 4, 5} THEN 1 ELSE 0
      /\ Gives(step) = IF a = 1 THEN 1 ELSE IF a = 3 THEN 3 ELSE 0
  BY <1>3, <1>4, <1>1, <1>2, KindFacts
<1>7. HasRead(call, a) \in Nat /\ HasWritten(call, a) \in Nat
  BY <1>3, SetAddrCounts
<1>8. a < LastStep(call) => HasRead(call, a + 1) = HasRead(call, a) + Asks(step)
  BY <1>3, <1>6, SetAddrCounts
<1>9. a < LastStep(call) => HasWritten(call, a + 1) = HasWritten(call, a) + Gives(step)
  BY <1>3, <1>6, SetAddrCounts
<1> QED  BY <1>5, <1>7, <1>8, <1>9 DEF Moves

LEMMA GetByteCounts ==
  ASSUME NEW call, call.cmd = CMD_GETBYTE, NEW i \in Nat
  PROVE  /\ HasRead(call, i) = IF i > 5 THEN 3 ELSE IF i > 4 THEN 2 ELSE IF i > 2 THEN 1 ELSE 0
         /\ HasWritten(call, i) = IF i > 3 THEN 4 ELSE IF i > 1 THEN 1 ELSE 0
<1>1. BodyRead(call, i) = Once(i > 4) + Once(i > 5)
  BY DEF BodyRead
<1>2. BodyWritten(call, i) = 3 * Once(i > 3)
  BY DEF BodyWritten
<1>3. HasRead(call, i) = IF i > 5 THEN 3 ELSE IF i > 4 THEN 2 ELSE IF i > 2 THEN 1 ELSE 0
  BY <1>1 DEF HasRead, Once
<1>4. HasWritten(call, i) = IF i > 3 THEN 4 ELSE IF i > 1 THEN 1 ELSE 0
  BY <1>2 DEF HasWritten, Once
<1> QED  BY <1>3, <1>4

LEMMA GetByteMoves ==
  ASSUME NEW call, IsCall(call), NEW a \in 1 .. LastStep(call),
         call.cmd = CMD_GETBYTE
  PROVE  Moves(call, a)
<1> DEFINE w == WriteData(3)
           x == Read(1)
<1>1. w.do = "data" /\ Asks(w) = 0
  BY DataFacts
<1>2. Gives(w) = 3
  BY DataFacts
<1>3. x.do = "read" /\ Asks(x) = 1
  BY DataFacts
<1>4. Gives(x) = 0
  BY DataFacts
<1>5. LastStep(call) = 6 /\ a \in 1 .. 6
  BY GetByteSteps
<1>6. /\ Steps(call)[1] = Issue
      /\ Steps(call)[2] = WaitAck
      /\ Steps(call)[3] = w
      /\ Steps(call)[4] = WaitAck
      /\ Steps(call)[5] = x
      /\ Steps(call)[6] = Result
  BY GetByteSteps
<1> HIDE DEF w, x
<1> DEFINE step == Steps(call)[a]
<1>7. /\ step.do \in Reading \cup Writing
      /\ step.do = "issue" <=> a = 1
      /\ step.do = "result" <=> a = LastStep(call)
      /\ Asks(step) \in Nat /\ Gives(step) \in Nat
      /\ step.do \in Reading <=> Asks(step) > 0
      /\ step.do \in Writing <=> Gives(step) > 0
  BY <1>5, <1>6, <1>1, <1>2, <1>3, <1>4, KindFacts DEF Reading, Writing
<1>8. /\ Asks(step) = IF a \in {2, 4, 5, 6} THEN 1 ELSE 0
      /\ Gives(step) = IF a = 1 THEN 1 ELSE IF a = 3 THEN 3 ELSE 0
  BY <1>5, <1>6, <1>1, <1>2, <1>3, <1>4, KindFacts
<1>9. HasRead(call, a) \in Nat /\ HasWritten(call, a) \in Nat
  BY <1>5, GetByteCounts
<1>10. a < LastStep(call) => HasRead(call, a + 1) = HasRead(call, a) + Asks(step)
  BY <1>5, <1>8, GetByteCounts
<1>11. a < LastStep(call) => HasWritten(call, a + 1) = HasWritten(call, a) + Gives(step)
  BY <1>5, <1>8, GetByteCounts
<1> QED  BY <1>7, <1>9, <1>10, <1>11 DEF Moves

LEMMA SendByteCounts ==
  ASSUME NEW call, call.cmd = CMD_SENDBYTE, NEW i \in Nat
  PROVE  /\ HasRead(call, i) = IF i > 6 THEN 3 ELSE IF i > 4 THEN 2 ELSE IF i > 2 THEN 1 ELSE 0
         /\ HasWritten(call, i) = IF i > 5 THEN 5 ELSE IF i > 3 THEN 4 ELSE IF i > 1 THEN 1 ELSE 0
<1>1. BodyRead(call, i) = Once(i > 4) + Once(i > 6)
  BY DEF BodyRead
<1>2. BodyWritten(call, i) = 3 * Once(i > 3) + Once(i > 5)
  BY DEF BodyWritten
<1>3. HasRead(call, i) = IF i > 6 THEN 3 ELSE IF i > 4 THEN 2 ELSE IF i > 2 THEN 1 ELSE 0
  BY <1>1 DEF HasRead, Once
<1>4. HasWritten(call, i) = IF i > 5 THEN 5 ELSE IF i > 3 THEN 4 ELSE IF i > 1 THEN 1 ELSE 0
  BY <1>2 DEF HasWritten, Once
<1> QED  BY <1>3, <1>4

LEMMA SendByteMoves ==
  ASSUME NEW call, IsCall(call), NEW a \in 1 .. LastStep(call),
         call.cmd = CMD_SENDBYTE
  PROVE  Moves(call, a)
<1> DEFINE w == WriteData(3)
           x == WriteData(1)
<1>1. w.do = "data" /\ Asks(w) = 0
  BY DataFacts
<1>2. Gives(w) = 3
  BY DataFacts
<1>3. x.do = "data" /\ Asks(x) = 0
  BY DataFacts
<1>4. Gives(x) = 1
  BY DataFacts
<1>5. LastStep(call) = 7 /\ a \in 1 .. 7
  BY SendByteSteps
<1>6. /\ Steps(call)[1] = Issue
      /\ Steps(call)[2] = WaitAck
      /\ Steps(call)[3] = w
      /\ Steps(call)[4] = WaitAck
      /\ Steps(call)[5] = x
      /\ Steps(call)[6] = WaitAck
      /\ Steps(call)[7] = Result
  BY SendByteSteps
<1> HIDE DEF w, x
<1> DEFINE step == Steps(call)[a]
<1>7. /\ step.do \in Reading \cup Writing
      /\ step.do = "issue" <=> a = 1
      /\ step.do = "result" <=> a = LastStep(call)
      /\ Asks(step) \in Nat /\ Gives(step) \in Nat
      /\ step.do \in Reading <=> Asks(step) > 0
      /\ step.do \in Writing <=> Gives(step) > 0
  BY <1>5, <1>6, <1>1, <1>2, <1>3, <1>4, KindFacts DEF Reading, Writing
<1>8. /\ Asks(step) = IF a \in {2, 4, 6, 7} THEN 1 ELSE 0
      /\ Gives(step) = IF a \in {1, 5} THEN 1 ELSE IF a = 3 THEN 3 ELSE 0
  BY <1>5, <1>6, <1>1, <1>2, <1>3, <1>4, KindFacts
<1>9. HasRead(call, a) \in Nat /\ HasWritten(call, a) \in Nat
  BY <1>5, SendByteCounts
<1>10. a < LastStep(call) => HasRead(call, a + 1) = HasRead(call, a) + Asks(step)
  BY <1>5, <1>8, SendByteCounts
<1>11. a < LastStep(call) => HasWritten(call, a + 1) = HasWritten(call, a) + Gives(step)
  BY <1>5, <1>8, SendByteCounts
<1> QED  BY <1>7, <1>9, <1>10, <1>11 DEF Moves

LEMMA GetBlockCounts ==
  ASSUME NEW call, call.cmd = CMD_GETBLOCK, NEW i \in Nat, call.n \in Nat
  PROVE  /\ HasRead(call, i) = IF i > 5 THEN 2 + call.n ELSE IF i > 4 THEN 2 ELSE IF i > 2 THEN 1 ELSE 0
         /\ HasWritten(call, i) = IF i > 3 THEN 3 ELSE IF i > 1 THEN 1 ELSE 0
<1>1. BodyRead(call, i) = Once(i > 4) + IF i > 5 THEN call.n ELSE 0
  BY DEF BodyRead
<1>2. BodyWritten(call, i) = 2 * Once(i > 3)
  BY DEF BodyWritten
<1>3. HasRead(call, i) = IF i > 5 THEN 2 + call.n ELSE IF i > 4 THEN 2 ELSE IF i > 2 THEN 1 ELSE 0
  BY <1>1 DEF HasRead, Once
<1>4. HasWritten(call, i) = IF i > 3 THEN 3 ELSE IF i > 1 THEN 1 ELSE 0
  BY <1>2 DEF HasWritten, Once
<1> QED  BY <1>3, <1>4

LEMMA GetBlockMoves ==
  ASSUME NEW call, IsCall(call), NEW a \in 1 .. LastStep(call),
         call.cmd = CMD_GETBLOCK
  PROVE  Moves(call, a)
<1> DEFINE w == Write(Word(call.n))
           x == Read(call.n)
<1>0. call.n \in Nat /\ call.n > 0 /\ call.n < 65536
  BY CallTypes DEF IsCall
<1>1. w.do = "write" /\ Asks(w) = 0
  BY WriteFacts
<1>2. Gives(w) = 2
  <2>1. Gives(w) = Len(Word(call.n))
    BY WriteFacts
  <2>2. Len(Word(call.n)) = 2
    BY <1>0, WordFacts
  <2> QED  BY <2>1, <2>2
<1>3. x.do = "read" /\ Asks(x) = call.n
  BY DataFacts
<1>4. Gives(x) = 0
  BY DataFacts
<1>5. LastStep(call) = 6 /\ a \in 1 .. 6
  BY GetBlockSteps
<1>6. /\ Steps(call)[1] = Issue
      /\ Steps(call)[2] = WaitAck
      /\ Steps(call)[3] = w
      /\ Steps(call)[4] = WaitAck
      /\ Steps(call)[5] = x
      /\ Steps(call)[6] = Result
  BY GetBlockSteps
<1> HIDE DEF w, x
<1> DEFINE step == Steps(call)[a]
<1>7. /\ step.do \in Reading \cup Writing
      /\ step.do = "issue" <=> a = 1
      /\ step.do = "result" <=> a = LastStep(call)
      /\ Asks(step) \in Nat /\ Gives(step) \in Nat
      /\ step.do \in Reading <=> Asks(step) > 0
      /\ step.do \in Writing <=> Gives(step) > 0
  BY <1>5, <1>6, <1>1, <1>2, <1>3, <1>4, KindFacts, <1>0 DEF Reading, Writing
<1>8. /\ Asks(step) = IF a \in {2, 4, 6} THEN 1 ELSE IF a = 5 THEN call.n ELSE 0
      /\ Gives(step) = IF a = 1 THEN 1 ELSE IF a = 3 THEN 2 ELSE 0
  BY <1>5, <1>6, <1>1, <1>2, <1>3, <1>4, KindFacts, <1>0
<1>9. HasRead(call, a) \in Nat /\ HasWritten(call, a) \in Nat
  BY <1>5, GetBlockCounts, <1>0
<1>10. a < LastStep(call) => HasRead(call, a + 1) = HasRead(call, a) + Asks(step)
  BY <1>5, <1>8, GetBlockCounts, <1>0
<1>11. a < LastStep(call) => HasWritten(call, a + 1) = HasWritten(call, a) + Gives(step)
  BY <1>5, <1>8, GetBlockCounts, <1>0
<1> QED  BY <1>7, <1>9, <1>10, <1>11 DEF Moves

LEMMA PageEraseCounts ==
  ASSUME NEW call, call.cmd = CMD_FLASH_PAGE_ERASE, NEW i \in Nat
  PROVE  /\ HasRead(call, i) = IF i > 8 THEN i - 5 ELSE IF i > 6 THEN 3 ELSE IF i > 4 THEN 2 ELSE IF i > 2 THEN 1 ELSE 0
         /\ HasWritten(call, i) = IF i > 7 THEN 8 ELSE IF i > 5 THEN 6 ELSE IF i > 3 THEN 4 ELSE IF i > 1 THEN 1 ELSE 0
<1>1. BodyRead(call, i) = Once(i > 4) + Once(i > 6) + IF i > 8 THEN i - 8 ELSE 0
  BY DEF BodyRead
<1>2. BodyWritten(call, i) = 3 * Once(i > 3) + 2 * Once(i > 5) + 2 * Once(i > 7)
  BY DEF BodyWritten
<1>3. HasRead(call, i) = IF i > 8 THEN i - 5 ELSE IF i > 6 THEN 3 ELSE IF i > 4 THEN 2 ELSE IF i > 2 THEN 1 ELSE 0
  BY <1>1 DEF HasRead, Once
<1>4. HasWritten(call, i) = IF i > 7 THEN 8 ELSE IF i > 5 THEN 6 ELSE IF i > 3 THEN 4 ELSE IF i > 1 THEN 1 ELSE 0
  BY <1>2 DEF HasWritten, Once
<1> QED  BY <1>3, <1>4

LEMMA SendBlockCounts ==
  ASSUME NEW call, call.cmd = CMD_SENDBLOCK, NEW i \in Nat, call.n \in Nat
  PROVE  /\ HasRead(call, i) = IF i > 4 THEN 1 + (i - 3) \div 2 ELSE IF i > 2 THEN 1 ELSE 0
         /\ HasWritten(call, i) = IF i > 5 THEN 3 + Upto((i - 4) \div 2, call.n) ELSE IF i > 3 THEN 3 ELSE IF i > 1 THEN 1 ELSE 0
<1>1. BodyRead(call, i) = IF i > 4 THEN (i - 3) \div 2 ELSE 0
  BY DEF BodyRead
<1>2. BodyWritten(call, i) = 2 * Once(i > 3) + IF i > 5 THEN Upto((i - 4) \div 2, call.n) ELSE 0
  BY DEF BodyWritten
<1>u. Upto((i - 4) \div 2, call.n) \in Nat \/ i <= 5
  <2>1. i > 5 => (i - 4) \div 2 \in Nat
    OBVIOUS
  <2>2. \A k \in Nat : Upto(k, call.n) \in Nat
    BY UptoFacts
  <2> QED  BY <2>1, <2>2
<1>3. HasRead(call, i) = IF i > 4 THEN 1 + (i - 3) \div 2 ELSE IF i > 2 THEN 1 ELSE 0
  BY <1>1 DEF HasRead, Once
<1>4. HasWritten(call, i) = IF i > 5 THEN 3 + Upto((i - 4) \div 2, call.n) ELSE IF i > 3 THEN 3 ELSE IF i > 1 THEN 1 ELSE 0
  BY <1>2, <1>u DEF HasWritten, Once
<1> QED  BY <1>3, <1>4

LEMMA PageEraseMoves ==
  ASSUME NEW call, IsCall(call), NEW a \in 1 .. LastStep(call),
         call.cmd = CMD_FLASH_PAGE_ERASE
  PROVE  Moves(call, a)
<1> DEFINE n == call.n
           x == WriteData(3)
           y == Write(Word(n))
           z == WriteData(2)
           step == Steps(call)[a]
<1>1. n \in Nat /\ n < 65536
  BY CallTypes
<1>2. x.do = "data" /\ Asks(x) = 0 /\ y.do = "write" /\ Asks(y) = 0
      /\ z.do = "data" /\ Asks(z) = 0
  BY WriteFacts, DataFacts
<1>3. Gives(x) = 3 /\ Gives(z) = 2
  BY DataFacts
<1>4. Gives(y) = 2
  <2>1. Gives(y) = Len(Word(n))
    BY WriteFacts
  <2>2. Len(Word(n)) = 2
    BY <1>1, WordFacts
  <2> QED  BY <2>1, <2>2
<1>5. LastStep(call) = 8 + n /\ a \in 1 .. 8 + n
  BY PageEraseSteps
<1>6. /\ Steps(call)[1] = Issue /\ Steps(call)[2] = WaitAck
      /\ Steps(call)[3] = x /\ Steps(call)[4] = WaitAck
      /\ Steps(call)[5] = y /\ Steps(call)[6] = WaitAck /\ Steps(call)[7] = z
      /\ Steps(call)[8 + n] = Result
  BY PageEraseSteps
<1>7. \A k \in 8 .. 7 + n : Steps(call)[k] = WaitAck
  BY PageEraseSteps
<1>8. step = CASE a = 1 -> Issue [] a \in {2, 4, 6} -> WaitAck [] a = 3 -> x [] a = 5 -> y
              [] a = 7 -> z [] a = 8 + n -> Result [] OTHER -> WaitAck
  <2>1. CASE a <= 7
    BY <1>1, <1>5, <1>6, <2>1
  <2>2. CASE a = 8 + n
    BY <1>1, <1>6, <2>2
  <2>3. CASE a > 7 /\ a # 8 + n
    <3>1. a \in 8 .. 7 + n
      BY <1>1, <1>5, <2>3
    <3> QED  BY <1>1, <1>5, <1>7, <2>3, <3>1
  <2> QED  BY <1>1, <1>5, <2>1, <2>2, <2>3
<1> HIDE DEF x, y, z, n, step
<1>9. /\ step.do = IF a = 1 THEN "issue" ELSE IF a \in {3, 7} THEN "data"
                   ELSE IF a = 5 THEN "write"
                   ELSE IF a = 8 + n THEN "result" ELSE "ack"
      /\ Asks(step) = IF a \in {1, 3, 5, 7} THEN 0 ELSE 1
      /\ Gives(step) = IF a = 1 THEN 1 ELSE IF a = 3 THEN 3 ELSE IF a \in {5, 7} THEN 2 ELSE 0
  BY <1>1, <1>2, <1>3, <1>4, <1>5, <1>8, KindFacts
<1>10. /\ step.do \in Reading \cup Writing
       /\ step.do = "issue" <=> a = 1
       /\ step.do = "result" <=> a = LastStep(call)
       /\ Asks(step) \in Nat /\ Gives(step) \in Nat
       /\ step.do \in Reading <=> Asks(step) > 0
       /\ step.do \in Writing <=> Gives(step) > 0
  BY <1>1, <1>5, <1>9 DEF Reading, Writing
<1>11. HasRead(call, a) \in Nat /\ HasWritten(call, a) \in Nat
  BY <1>1, <1>5, PageEraseCounts
<1>12. a < LastStep(call) => HasRead(call, a + 1) = HasRead(call, a) + Asks(step)
  BY <1>1, <1>5, <1>9, PageEraseCounts
<1>13. a < LastStep(call) => HasWritten(call, a + 1) = HasWritten(call, a) + Gives(step)
  BY <1>1, <1>5, <1>9, PageEraseCounts
<1> QED  BY <1>10, <1>11, <1>12, <1>13 DEF Moves, step

\* What is written up to the end of a packet
LEMMA PacketWidth ==
  ASSUME NEW n \in Nat, NEW k \in Nat, k > 0, k <= PacketCount(n)
  PROVE  /\ Upto(k, n) \in Nat /\ Upto(k - 1, n) \in Nat /\ Upto(k - 1, n) < Upto(k, n)
<1>1. k - 1 \in Nat /\ k - 1 <= k /\ k - 1 < k
  OBVIOUS
<1>2. Upto(k, n) \in Nat
  BY UptoFacts
<1>3. Upto(k - 1, n) \in Nat
  BY Zenon, <1>1, UptoFacts
<1>4. Upto(k - 1, n) < Upto(k, n)
  BY <1>1, UptoGrows
<1> QED  BY <1>2, <1>3, <1>4

\* A block is written at odd steps and asked for at even ones
LEMMA SendBlockCountsAt ==
  ASSUME NEW call, call.cmd = CMD_SENDBLOCK, call.n \in Nat, NEW k \in Nat
  PROVE  /\ HasRead(call, 4 + 2 * k) = 1 + k
         /\ HasWritten(call, 4 + 2 * k) = 3 + Upto(k, call.n)
         /\ HasRead(call, 5 + 2 * k) = 2 + k
         /\ HasWritten(call, 5 + 2 * k) = 3 + Upto(k, call.n)
<1>1. (4 + 2 * k - 4) \div 2 = k /\ (5 + 2 * k - 4) \div 2 = k
  OBVIOUS
<1>2. k > 0 => (4 + 2 * k - 3) \div 2 = k
  OBVIOUS
<1>3. (5 + 2 * k - 3) \div 2 = k + 1
  OBVIOUS
<1>4. Upto(0, call.n) = 0
  BY UptoFacts
<1>5. HasRead(call, 5 + 2 * k) = 2 + k
  <2>1. 5 + 2 * k \in Nat /\ 5 + 2 * k > 4
    OBVIOUS
  <2>2. HasRead(call, 5 + 2 * k) = 1 + (5 + 2 * k - 3) \div 2
    BY <2>1, SendBlockCounts
  <2> QED  BY <1>3, <2>2
<1>6. HasRead(call, 4 + 2 * k) = 1 + k
  <2>1. CASE k = 0
    <3>1. HasRead(call, 4) = 1
      BY SendBlockCounts
    <3> QED  BY <2>1, <3>1
  <2>2. CASE k > 0
    <3>1. 4 + 2 * k \in Nat /\ 4 + 2 * k > 4
      BY <2>2
    <3>2. HasRead(call, 4 + 2 * k) = 1 + (4 + 2 * k - 3) \div 2
      BY <3>1, SendBlockCounts
    <3> QED  BY <1>2, <2>2, <3>2
  <2> QED  BY <2>1, <2>2
<1>7. HasWritten(call, 4 + 2 * k) = 3 + Upto(k, call.n)
  <2>1. CASE k = 0
    <3>1. HasWritten(call, 4) = 3
      BY SendBlockCounts
    <3>2. 4 + 2 * k = 4
      BY <2>1
    <3> QED  BY <1>4, <2>1, <3>1, <3>2
  <2>2. CASE k > 0
    <3>1. 4 + 2 * k \in Nat /\ 4 + 2 * k > 5
      BY <2>2
    <3>2. HasWritten(call, 4 + 2 * k) = 3 + Upto((4 + 2 * k - 4) \div 2, call.n)
      BY <3>1, SendBlockCounts
    <3> QED  BY <1>1, <3>2
  <2> QED  BY <2>1, <2>2
<1>8. HasWritten(call, 5 + 2 * k) = 3 + Upto(k, call.n)
  <2>1. CASE k = 0
    <3>1. HasWritten(call, 5) = 3
      BY SendBlockCounts
    <3>2. 5 + 2 * k = 5
      BY <2>1
    <3> QED  BY <1>4, <2>1, <3>1, <3>2
  <2>2. CASE k > 0
    <3>1. 5 + 2 * k \in Nat /\ 5 + 2 * k > 5
      BY <2>2
    <3>2. HasWritten(call, 5 + 2 * k) = 3 + Upto((5 + 2 * k - 4) \div 2, call.n)
      BY <3>1, SendBlockCounts
    <3> QED  BY <1>1, <3>2
  <2> QED  BY <2>1, <2>2
<1> QED  BY <1>5, <1>6, <1>7, <1>8

\* Every step of a block's transfer after its size is one of the two
IsPlace(a, k, p) == k \in 0 .. p /\ (a = 4 + 2 * k \/ (k < p /\ a = 5 + 2 * k))

LEMMA SendBlockPlaces ==
  ASSUME NEW p \in Nat, NEW a \in Nat, a >= 4, a <= 4 + 2 * p
  PROVE  \E k \in Nat : IsPlace(a, k, p)
<1> DEFINE k == (a - 4) \div 2
<1>1. k \in 0 .. p /\ (a = 4 + 2 * k \/ a = 5 + 2 * k)
  OBVIOUS
<1>2. a = 5 + 2 * k => k < p
  BY <1>1
<1>3. k \in Nat /\ IsPlace(a, k, p)
  BY <1>1, <1>2 DEF IsPlace
<1> QED  BY <1>3

LEMMA SendBlockKinds ==
  ASSUME NEW call, IsCall(call), call.cmd = CMD_SENDBLOCK, NEW k \in Nat
  PROVE  /\ k < PacketCount(call.n) =>
              /\ Steps(call)[4 + 2 * k] = WaitAck
              /\ Steps(call)[5 + 2 * k] = WriteData(Upto(k + 1, call.n) - Upto(k, call.n))
         /\ k = PacketCount(call.n) => Steps(call)[4 + 2 * k] = Result
<1> DEFINE p == PacketCount(call.n)
<1>1. p \in Nat
  BY SendBlockSteps
<1>2. k = p => Steps(call)[4 + 2 * k] = Result
  BY SendBlockSteps
<1>3. \A i \in 4 .. 3 + 2 * p :
        Steps(call)[i] =
          IF (i - 3) % 2 = 1 THEN WaitAck
          ELSE WriteData(Upto((i - 3) \div 2, call.n) - Upto((i - 3) \div 2 - 1, call.n))
  BY SendBlockSteps
<1> HIDE DEF p
<1>4. ASSUME k < p  PROVE Steps(call)[4 + 2 * k] = WaitAck
  <2>1. 4 + 2 * k \in 4 .. 3 + 2 * p /\ (4 + 2 * k - 3) % 2 = 1
    BY <1>1, <1>4
  <2> QED  BY <1>3, <2>1
<1>5. ASSUME k < p
      PROVE  Steps(call)[5 + 2 * k] = WriteData(Upto(k + 1, call.n) - Upto(k, call.n))
  <2>1. 5 + 2 * k \in 4 .. 3 + 2 * p /\ (5 + 2 * k - 3) % 2 = 0
        /\ (5 + 2 * k - 3) \div 2 = k + 1 /\ k + 1 - 1 = k
    BY <1>1, <1>5
  <2>2. Steps(call)[5 + 2 * k] =
          IF (5 + 2 * k - 3) % 2 = 1 THEN WaitAck
          ELSE WriteData(Upto((5 + 2 * k - 3) \div 2, call.n)
                           - Upto((5 + 2 * k - 3) \div 2 - 1, call.n))
    BY <1>3, <2>1
  <2> QED  BY <2>1, <2>2
<1> QED  BY <1>2, <1>4, <1>5 DEF p

LEMMA SendBlockMoves ==
  ASSUME NEW call, IsCall(call), NEW a \in 1 .. LastStep(call), call.cmd = CMD_SENDBLOCK
  PROVE  Moves(call, a)
<1> DEFINE n == call.n
           p == PacketCount(n)
           w == Write(Word(n))
           step == Steps(call)[a]
<1>1. n \in Nat /\ n < 65536
  BY CallTypes
<1>2. w.do = "write" /\ Asks(w) = 0
  BY WriteFacts
<1>3. Gives(w) = 2
  <2>1. Gives(w) = Len(Word(n))
    BY WriteFacts
  <2>2. Len(Word(n)) = 2
    BY <1>1, WordFacts
  <2> QED  BY <2>1, <2>2
<1>4. p \in Nat /\ LastStep(call) = 4 + 2 * p /\ a \in 1 .. 4 + 2 * p
  BY SendBlockSteps
<1>5. Steps(call)[1] = Issue /\ Steps(call)[2] = WaitAck /\ Steps(call)[3] = w
  BY SendBlockSteps
<1>0. n \in Nat
  BY <1>1
<1>7. CASE a <= 3
  <2>1. /\ HasRead(call, a) = (IF a = 3 THEN 1 ELSE 0) /\ HasWritten(call, a) = (IF a = 1 THEN 0 ELSE 1)
    BY <1>1, <1>4, <1>7, SendBlockCounts
  <2>2. HasRead(call, 2) = 0 /\ HasWritten(call, 2) = 1
    BY <1>1, SendBlockCounts
  <2>3. HasRead(call, 3) = 1 /\ HasWritten(call, 3) = 1
    BY <1>1, SendBlockCounts
  <2>4. HasRead(call, 4) = 1 /\ HasWritten(call, 4) = 3
    BY <1>1, SendBlockCounts
  <2> HIDE DEF w, p, n
  <2>5. CASE a = 1
    BY <1>4, <1>5, <2>1, <2>2, <2>5, KindFacts DEF Moves, Reading, Writing
  <2>6. CASE a = 2
    BY <1>4, <1>5, <2>2, <2>3, <2>6, KindFacts DEF Moves, Reading, Writing
  <2>7. CASE a = 3
    BY <1>2, <1>3, <1>4, <1>5, <2>3, <2>4, <2>7 DEF Moves, Reading, Writing
  <2> QED  BY <1>4, <1>7, <2>5, <2>6, <2>7
<1>8. ASSUME NEW k \in 0 .. p, a = 4 + 2 * k  PROVE Moves(call, a)
  <2>1. HasRead(call, a) = 1 + k /\ HasWritten(call, a) = 3 + Upto(k, n)
    BY <1>1, <1>8, SendBlockCountsAt
  <2>2. HasRead(call, a + 1) = 2 + k /\ HasWritten(call, a + 1) = 3 + Upto(k, n)
    <3>1. a + 1 = 5 + 2 * k
      BY <1>8
    <3>2. HasRead(call, 5 + 2 * k) = 2 + k
      BY <1>1, SendBlockCountsAt
    <3>3. HasWritten(call, 5 + 2 * k) = 3 + Upto(k, n)
      BY <1>1, SendBlockCountsAt
    <3> QED  BY <3>1, <3>2, <3>3
  <2>3. Upto(k, n) \in Nat
    <3> HIDE DEF n
    <3>1. k \in Nat
      BY <1>4
    <3> QED  BY <1>0, <3>1, UptoFacts
  <2>4. k < p => Steps(call)[a] = WaitAck
    BY <1>4, <1>8, SendBlockKinds
  <2>5. k = p => Steps(call)[a] = Result
    BY <1>4, <1>8, SendBlockKinds
  <2> DEFINE u == Upto(k, n)
  <2> HIDE DEF w, p, n, u
  <2>6. CASE k < p
    <3>1. a < LastStep(call) /\ a > 1
      BY <1>4, <1>8, <2>6
    <3>2. Steps(call)[a] = WaitAck
      BY <2>4, <2>6
    <3> QED  BY <1>4, <2>1, <2>2, <2>3, <3>1, <3>2, KindFacts DEF Moves, Reading, Writing, u
  <2>7. CASE k = p
    <3>1. a = LastStep(call) /\ a > 1
      BY <1>4, <1>8, <2>7
    <3>2. Steps(call)[a] = Result
      BY <2>5, <2>7
    <3> QED  BY <1>4, <2>1, <2>2, <2>3, <3>1, <3>2, KindFacts DEF Moves, Reading, Writing, u
  <2> QED  BY <1>4, <2>6, <2>7
<1>9. ASSUME NEW k \in 0 .. p, k < p, a = 5 + 2 * k  PROVE Moves(call, a)
  <2> DEFINE u == Upto(k, n)
             v == Upto(k + 1, n)
  <2>1. HasRead(call, a) = 2 + k /\ HasWritten(call, a) = 3 + u
    BY <1>1, <1>9, SendBlockCountsAt
  <2>2. HasRead(call, a + 1) = 2 + k /\ HasWritten(call, a + 1) = 3 + v
    <3> DEFINE m == k + 1
    <3>1. a + 1 = 4 + 2 * m /\ 1 + m = 2 + k
      BY <1>9
    <3>0. m \in Nat
      OBVIOUS
    <3>b. call.n \in Nat
      BY <1>1
    <3> HIDE DEF m
    <3>2. HasRead(call, 4 + 2 * m) = 1 + m
      BY Zenon, <3>b, <3>0, SendBlockCountsAt
    <3>3. HasWritten(call, 4 + 2 * m) = 3 + Upto(m, call.n)
      BY <3>b, <3>0, SendBlockCountsAt
    <3> QED  BY <3>1, <3>2, <3>3 DEF m
  <2>3. u \in Nat /\ v \in Nat /\ u < v
    <3>1. k + 1 \in Nat /\ k + 1 > 0 /\ k + 1 <= p /\ k + 1 - 1 = k
      BY <1>4, <1>9
    <3> HIDE DEF n
    <3>2. Upto(k + 1, n) \in Nat /\ Upto(k + 1 - 1, n) \in Nat
          /\ Upto(k + 1 - 1, n) < Upto(k + 1, n)
      BY <1>1, <3>1, PacketWidth
    <3> QED  BY <3>1, <3>2
  <2>4. Steps(call)[a] = WriteData(v - u)
    BY <1>4, <1>9, SendBlockKinds
  <2>5. a < LastStep(call) /\ a > 1
    BY <1>4, <1>9
  <2> HIDE DEF w, p, n, u, v
  <2>6. Steps(call)[a].do = "data" /\ Asks(Steps(call)[a]) = 0 /\ Gives(Steps(call)[a]) = v - u
    BY <2>4, DataFacts
  <2> QED  BY <1>4, <2>1, <2>2, <2>3, <2>5, <2>6 DEF Moves, Reading, Writing
<1>10. a <= 3 \/ a \in 4 .. 4 + 2 * p
  BY <1>4
<1> HIDE DEF n, p, w, step
<1>11. ASSUME a \in 4 .. 4 + 2 * p  PROVE Moves(call, a)
  <2>1. p \in Nat /\ a \in Nat /\ a >= 4 /\ a <= 4 + 2 * p
    BY <1>4, <1>11
  <2>2. PICK k \in Nat : IsPlace(a, k, p)
    BY <2>1, SendBlockPlaces
  <2> QED  BY <1>8, <1>9, <2>2 DEF IsPlace
<1> QED  BY <1>7, <1>10, <1>11

LEMMA StepMoves ==
  ASSUME NEW call, IsCall(call), NEW a \in 1 .. LastStep(call)
  PROVE  Moves(call, a)
BY CallTypes, PlainMoves, StartMoves, SetBaudMoves, SetAddrMoves, GetByteMoves,
   SendByteMoves, GetBlockMoves, PageEraseMoves, SendBlockMoves DEF Operating

LEMMA LastSteps ==
  ASSUME NEW call, IsCall(call)
  PROVE  /\ LastStep(call) \in Nat /\ LastStep(call) >= 3 /\ DOMAIN Steps(call) = 1 .. LastStep(call)
         /\ Steps(call)[2] = WaitAck
<1>1. Steps(call) \in Seq(StepKinds)
  BY CallTypes, PlainSteps, StartSteps, SetBaudSteps, SetAddrSteps, GetByteSteps,
     SendByteSteps, GetBlockSteps, PageEraseSteps, SendBlockSteps DEF Operating
<1>2. DOMAIN Steps(call) = 1 .. LastStep(call)
  BY <1>1, LenProperties DEF LastStep
<1>3. LastStep(call) \in Nat /\ LastStep(call) >= 3
  <2>1. CASE call.cmd = CMD_SENDBLOCK
    <3>1. PacketCount(call.n) \in Nat /\ LastStep(call) = 4 + 2 * PacketCount(call.n)
      BY <2>1, SendBlockSteps
    <3> QED  BY <3>1
  <2>2. CASE call.cmd = CMD_FLASH_PAGE_ERASE
    <3>1. call.n \in Nat /\ LastStep(call) = 8 + call.n
      BY <2>2, CallTypes, PageEraseSteps
    <3> QED  BY <3>1
  <2>3. CASE call.cmd \notin {CMD_SENDBLOCK, CMD_FLASH_PAGE_ERASE}
    BY <2>3, CallTypes, PlainSteps, StartSteps, SetBaudSteps, SetAddrSteps, GetByteSteps,
       SendByteSteps, GetBlockSteps DEF Operating
  <2> QED  BY <2>1, <2>2, <2>3
<1>4. Steps(call)[2] = WaitAck
  BY CallTypes, PlainSteps, StartSteps, SetBaudSteps, SetAddrSteps, GetByteSteps,
     SendByteSteps, GetBlockSteps, PageEraseSteps, SendBlockSteps DEF Operating
<1> QED  BY <1>2, <1>3, <1>4
-------------------------------------------------------------------------------
(* The counts grow from step to step *)

LEMMA SendBlockGrows ==
  ASSUME NEW call, IsCall(call), call.cmd = CMD_SENDBLOCK,
         NEW a \in 1 .. LastStep(call), NEW b \in 1 .. LastStep(call), a <= b
  PROVE  HasRead(call, a) <= HasRead(call, b) /\ HasWritten(call, a) <= HasWritten(call, b)
<1> DEFINE p == PacketCount(call.n)
           Low(x) == /\ HasRead(call, x) = (IF x = 3 THEN 1 ELSE 0)
                     /\ HasWritten(call, x) = (IF x = 1 THEN 0 ELSE 1)
           High(x, k) == /\ x = 4 + 2 * k \/ x = 5 + 2 * k
                         /\ HasRead(call, x) = x - 3 - k
                         /\ HasWritten(call, x) = 3 + Upto(k, call.n)
<1>1. p \in Nat /\ LastStep(call) = 4 + 2 * p
  BY SendBlockSteps
<1>2. call.n \in Nat
  BY CallTypes
<1>3. ASSUME NEW x \in 1 .. 3  PROVE Low(x)
  BY <1>2, SendBlockCounts
<1>4. ASSUME NEW x \in 4 .. 4 + 2 * p  PROVE \E k \in Nat : High(x, k)
  <2>1. p \in Nat /\ x \in Nat /\ x >= 4 /\ x <= 4 + 2 * p
    BY <1>1
  <2>2. PICK k \in Nat : IsPlace(x, k, p)
    <3> HIDE DEF p
    <3> QED  BY <2>1, SendBlockPlaces
  <2>3. HasRead(call, 4 + 2 * k) = 1 + k /\ HasRead(call, 5 + 2 * k) = 2 + k
    BY <1>2, SendBlockCountsAt
  <2>4. HasWritten(call, 4 + 2 * k) = 3 + Upto(k, call.n)
    BY <1>2, SendBlockCountsAt
  <2>5. HasWritten(call, 5 + 2 * k) = 3 + Upto(k, call.n)
    BY <1>2, SendBlockCountsAt
  <2>6. CASE x = 4 + 2 * k
    BY <2>3, <2>4, <2>6
  <2>7. CASE x = 5 + 2 * k
    BY <2>3, <2>5, <2>7
  <2> QED  BY <2>2, <2>6, <2>7 DEF IsPlace
<1> HIDE DEF p
<1>5. CASE b <= 3
  BY <1>1, <1>3, <1>5
<1>6. CASE a <= 3 /\ b > 3
  <2>1. b \in 4 .. 4 + 2 * p
    BY <1>1, <1>6
  <2>2. PICK k \in Nat : High(b, k)
    BY <1>4, <2>1
  <2>3. Upto(k, call.n) \in Nat
    BY Zenon, <1>2, UptoFacts
  <2>4. Low(a)
    BY <1>3, <1>6
  <2> QED  BY <1>6, <2>2, <2>3, <2>4
<1>7. CASE a > 3
  <2>1. b \in 4 .. 4 + 2 * p /\ a \in 4 .. 4 + 2 * p
    BY <1>1, <1>7
  <2>2. PICK k \in Nat : High(b, k)
    BY <1>4, <2>1
  <2>3. PICK l \in Nat : High(a, l)
    BY <1>4, <2>1
  <2>4. l <= k
    BY <2>2, <2>3
  <2>5. Upto(k, call.n) \in Nat
    BY Zenon, <1>2, UptoFacts
  <2>6. Upto(l, call.n) \in Nat
    BY Zenon, <1>2, UptoFacts
  <2>7. Upto(l, call.n) <= Upto(k, call.n)
    BY <1>2, <2>4, UptoGrows
  <2> QED  BY <2>2, <2>3, <2>4, <2>5, <2>6, <2>7
<1> QED  BY <1>5, <1>6, <1>7

LEMMA CountsGrow ==
  ASSUME NEW call, IsCall(call),
         NEW a \in 1 .. LastStep(call), NEW b \in 1 .. LastStep(call), a <= b
  PROVE  HasRead(call, a) <= HasRead(call, b) /\ HasWritten(call, a) <= HasWritten(call, b)
<1>1. a \in Nat /\ b \in Nat /\ call.n \in Nat
  BY CallTypes, LastSteps
<1>2. CASE call.cmd \in {CMD_STOP, CMD_CHIPERASE, CMD_EEPROM_WR_EN, CMD_FLASH_WR_EN,
                         CMD_NVM_WR_DIS}
  BY <1>1, <1>2, PlainCounts
<1>3. CASE call.cmd = CMD_START
  BY <1>1, <1>3, StartCounts
<1>4. CASE call.cmd = CMD_SETBAUD
  BY <1>1, <1>4, SetBaudCounts
<1>5. CASE call.cmd = CMD_SETADDR
  BY <1>1, <1>5, SetAddrCounts
<1>6. CASE call.cmd = CMD_GETBYTE
  BY <1>1, <1>6, GetByteCounts
<1>7. CASE call.cmd = CMD_SENDBYTE
  BY <1>1, <1>7, SendByteCounts
<1>8. CASE call.cmd = CMD_GETBLOCK
  BY <1>1, <1>8, GetBlockCounts
<1>9. CASE call.cmd = CMD_SENDBLOCK
  BY <1>9, SendBlockGrows
<1>10. CASE call.cmd = CMD_FLASH_PAGE_ERASE
  BY <1>1, <1>10, PageEraseCounts
<1> QED
  BY <1>2, <1>3, <1>4, <1>5, <1>6, <1>7, <1>8, <1>9, <1>10, CallTypes DEF Operating
-------------------------------------------------------------------------------
(* The steps of a handler *)

Ops == {"ack", "pad", "recv", "size", "updi", "slow", "fetch", "stream", "packets",
        "erase", "busy", "nvm", "ok"}

LastOp(cmd) == Len(Handlers[cmd])

Failures == {"noack", "timeout", "error", "rxerr", "erasefail"}

Sends(cmd, s) == IF Handlers[cmd][s].op = "ack" THEN 1
                 ELSE IF Handlers[cmd][s].op = "fetch" THEN Owes(cmd, s) ELSE 0
Gets(cmd, s)  == IF Handlers[cmd][s].op = "recv" THEN Handlers[cmd][s].n
                 ELSE IF Handlers[cmd][s].op = "size" THEN 2 ELSE 0
Pads(cmd, s)  == IF Handlers[cmd][s].op = "pad" THEN Handlers[cmd][s].n
                 ELSE IF Handlers[cmd][s].op = "fetch" THEN 0 ELSE Owes(cmd, s)

\* Where the steps that are not all alike stand
OpPlaces(cmd, s) ==
  LET op == Handlers[cmd][s].op
  IN  /\ op \in Ops
      /\ op = "ok" <=> s = LastOp(cmd)
      /\ op = "stream"  <=> cmd = CMD_GETBLOCK /\ s = 4
      /\ op = "packets" <=> cmd = CMD_SENDBLOCK /\ s = 3
      /\ op = "erase"   <=> cmd = CMD_FLASH_PAGE_ERASE /\ s = 8
      /\ op = "size" <=> \/ cmd \in {CMD_SENDBLOCK, CMD_GETBLOCK} /\ s = 2
                         \/ cmd = CMD_FLASH_PAGE_ERASE /\ s = 4

\* What a step needs to know
OpFields(cmd, s) ==
  LET step == Handlers[cmd][s]
  IN  /\ step.op \in {"recv", "pad"} => step.n \in 1 .. 3
      /\ step.op = "size" => step.into = IF cmd = CMD_GETBLOCK THEN "toSend" ELSE "left"
      /\ step.op \in {"updi", "slow"} => step.faults \subseteq Failures \cup {"masked"}
      /\ step.op = "fetch" => \/ step.what = "status" /\ cmd = CMD_START /\ s = 4
                              \/ step.what = "signature" /\ cmd = CMD_START /\ s = 10
                              \/ step.what = "byte" /\ cmd = CMD_GETBYTE /\ s = 5
      /\ step.op = "nvm" => step.on \in BOOLEAN

\* It moves the counts by what it sends, receives and pads
OpMoves(cmd, s) ==
  /\ HasSent(cmd, s) \in Nat /\ HasGot(cmd, s) \in Nat
  /\ HasSent(cmd, s + 1) = HasSent(cmd, s) + Sends(cmd, s)
  /\ HasGot(cmd, s + 1) = HasGot(cmd, s) + Gets(cmd, s)
  /\ Owes(cmd, s) \in 0 .. 3
  /\ s # LastOp(cmd) => Owes(cmd, s + 1) = Pads(cmd, s)
  /\ s = LastOp(cmd) => Owes(cmd, s) = 0

OpMeans(cmd, s) == OpPlaces(cmd, s) /\ OpFields(cmd, s) /\ OpMoves(cmd, s)

LEMMA OpFacts ==
  /\ Ack.op = "ack" /\ Stream.op = "stream" /\ Packets.op = "packets" /\ Erase.op = "erase"
  /\ Busy.op = "busy" /\ Ok.op = "ok"
  /\ \A n \in Nat : Pad(n).op = "pad" /\ Pad(n).n = n /\ Recv(n).op = "recv" /\ Recv(n).n = n
  /\ \A v \in {"left", "toSend"} : RecvSize(v).op = "size" /\ RecvSize(v).into = v
  /\ \A b \in BOOLEAN : Nvm(b).op = "nvm" /\ Nvm(b).on = b
BY DEF Ack, Stream, Packets, Erase, Busy, Ok, Pad, Recv, RecvSize, Nvm

LEMMA TargetOps ==
  ASSUME NEW f
  PROVE  /\ Updi(f).op = "updi" /\ Updi(f).faults = f
         /\ Slow(f).op = "slow" /\ Slow(f).faults = f
         /\ \A w : Fetch(w, f).op = "fetch" /\ Fetch(w, f).what = w /\ Fetch(w, f).faults = f
BY DEF Updi, Slow, Fetch

LEMMA NamedOps ==
  /\ TargetAck.op = "updi" /\ TargetAck.faults \subseteq Failures \cup {"masked"}
  /\ Stored.op = "updi" /\ Stored.faults \subseteq Failures \cup {"masked"}
  /\ StatusB.op = "updi" /\ StatusB.faults \subseteq Failures \cup {"masked"}
BY TargetOps DEF TargetAck, Stored, StatusB, Failures

LEMMA StartOps ==
  /\ DOMAIN Handlers[CMD_START] = 1 .. 11 /\ LastOp(CMD_START) = 11
  /\ Handlers[CMD_START][1] = Ack
  /\ Handlers[CMD_START][2] = Pad(1)
  /\ Handlers[CMD_START][3] = Updi({"timeout"})
  /\ Handlers[CMD_START][4] = Fetch("status", {"timeout", "badstatus"})
  /\ Handlers[CMD_START][5] = Slow({"timeout"})
  /\ Handlers[CMD_START][6] = Ack
  /\ Handlers[CMD_START][7] = Recv(3)
  /\ Handlers[CMD_START][8] = Pad(3)
  /\ Handlers[CMD_START][9] = TargetAck
  /\ Handlers[CMD_START][10] = Fetch("signature", {"timeout"})
  /\ Handlers[CMD_START][11] = Ok
<1> DEFINE a == Pad(1)
           b == Updi({"timeout"})
           c == Fetch("status", {"timeout", "badstatus"})
           d == Slow({"timeout"})
           e == Recv(3)
           f == Pad(3)
           g == Fetch("signature", {"timeout"})
<1>1. Handlers[CMD_START] = << Ack, a, b, c, d, Ack, e, f, TargetAck, g, Ok >>
  <2>1. Handlers[CMD_START] = Start
    BY DEF Handlers, Commands
  <2> QED  BY <2>1 DEF Start
<1> HIDE DEF a, b, c, d, e, f, g
<1>2. DOMAIN Handlers[CMD_START] = 1 .. 11 /\ LastOp(CMD_START) = 11
  BY <1>1 DEF LastOp
<1>3. /\ Handlers[CMD_START][1] = Ack
      /\ Handlers[CMD_START][2] = a
      /\ Handlers[CMD_START][3] = b
      /\ Handlers[CMD_START][4] = c
      /\ Handlers[CMD_START][5] = d
      /\ Handlers[CMD_START][6] = Ack
      /\ Handlers[CMD_START][7] = e
      /\ Handlers[CMD_START][8] = f
      /\ Handlers[CMD_START][9] = TargetAck
      /\ Handlers[CMD_START][10] = g
      /\ Handlers[CMD_START][11] = Ok
  BY <1>1
<1> QED  BY <1>2, <1>3 DEF a, b, c, d, e, f, g

LEMMA StopOps ==
  /\ DOMAIN Handlers[CMD_STOP] = 1 .. 3 /\ LastOp(CMD_STOP) = 3
  /\ Handlers[CMD_STOP][1] = Ack
  /\ Handlers[CMD_STOP][2] = Slow({"masked"})
  /\ Handlers[CMD_STOP][3] = Ok
<1> DEFINE a == Slow({"masked"})
<1>1. Handlers[CMD_STOP] = << Ack, a, Ok >>
  <2>1. Handlers[CMD_STOP] = Stop
    BY DEF Handlers, Commands
  <2> QED  BY <2>1 DEF Stop
<1> HIDE DEF a
<1>2. DOMAIN Handlers[CMD_STOP] = 1 .. 3 /\ LastOp(CMD_STOP) = 3
  BY <1>1 DEF LastOp
<1>3. /\ Handlers[CMD_STOP][1] = Ack
      /\ Handlers[CMD_STOP][2] = a
      /\ Handlers[CMD_STOP][3] = Ok
  BY <1>1
<1> QED  BY <1>2, <1>3 DEF a

LEMMA SendBlockOps ==
  /\ DOMAIN Handlers[CMD_SENDBLOCK] = 1 .. 4 /\ LastOp(CMD_SENDBLOCK) = 4
  /\ Handlers[CMD_SENDBLOCK][1] = Ack
  /\ Handlers[CMD_SENDBLOCK][2] = RecvSize("left")
  /\ Handlers[CMD_SENDBLOCK][3] = Packets
  /\ Handlers[CMD_SENDBLOCK][4] = Ok
<1> DEFINE a == RecvSize("left")
<1>1. Handlers[CMD_SENDBLOCK] = << Ack, a, Packets, Ok >>
  <2>1. Handlers[CMD_SENDBLOCK] = SendBlock
    BY DEF Handlers, Commands
  <2> QED  BY <2>1 DEF SendBlock
<1> HIDE DEF a
<1>2. DOMAIN Handlers[CMD_SENDBLOCK] = 1 .. 4 /\ LastOp(CMD_SENDBLOCK) = 4
  BY <1>1 DEF LastOp
<1>3. /\ Handlers[CMD_SENDBLOCK][1] = Ack
      /\ Handlers[CMD_SENDBLOCK][2] = a
      /\ Handlers[CMD_SENDBLOCK][3] = Packets
      /\ Handlers[CMD_SENDBLOCK][4] = Ok
  BY <1>1
<1> QED  BY <1>2, <1>3 DEF a

LEMMA GetBlockOps ==
  /\ DOMAIN Handlers[CMD_GETBLOCK] = 1 .. 5 /\ LastOp(CMD_GETBLOCK) = 5
  /\ Handlers[CMD_GETBLOCK][1] = Ack
  /\ Handlers[CMD_GETBLOCK][2] = RecvSize("toSend")
  /\ Handlers[CMD_GETBLOCK][3] = Ack
  /\ Handlers[CMD_GETBLOCK][4] = Stream
  /\ Handlers[CMD_GETBLOCK][5] = Ok
<1> DEFINE a == RecvSize("toSend")
<1>1. Handlers[CMD_GETBLOCK] = << Ack, a, Ack, Stream, Ok >>
  <2>1. Handlers[CMD_GETBLOCK] = GetBlock
    BY DEF Handlers, Commands
  <2> QED  BY <2>1 DEF GetBlock
<1> HIDE DEF a
<1>2. DOMAIN Handlers[CMD_GETBLOCK] = 1 .. 5 /\ LastOp(CMD_GETBLOCK) = 5
  BY <1>1 DEF LastOp
<1>3. /\ Handlers[CMD_GETBLOCK][1] = Ack
      /\ Handlers[CMD_GETBLOCK][2] = a
      /\ Handlers[CMD_GETBLOCK][3] = Ack
      /\ Handlers[CMD_GETBLOCK][4] = Stream
      /\ Handlers[CMD_GETBLOCK][5] = Ok
  BY <1>1
<1> QED  BY <1>2, <1>3 DEF a

LEMMA GetByteOps ==
  /\ DOMAIN Handlers[CMD_GETBYTE] = 1 .. 6 /\ LastOp(CMD_GETBYTE) = 6
  /\ Handlers[CMD_GETBYTE][1] = Pad(1)
  /\ Handlers[CMD_GETBYTE][2] = Ack
  /\ Handlers[CMD_GETBYTE][3] = Recv(3)
  /\ Handlers[CMD_GETBYTE][4] = Ack
  /\ Handlers[CMD_GETBYTE][5] = Fetch("byte", {"timeout"})
  /\ Handlers[CMD_GETBYTE][6] = Ok
<1> DEFINE a == Pad(1)
           b == Recv(3)
           c == Fetch("byte", {"timeout"})
<1>1. Handlers[CMD_GETBYTE] = << a, Ack, b, Ack, c, Ok >>
  <2>1. Handlers[CMD_GETBYTE] = GetByte
    BY DEF Handlers, Commands
  <2> QED  BY <2>1 DEF GetByte
<1> HIDE DEF a, b, c
<1>2. DOMAIN Handlers[CMD_GETBYTE] = 1 .. 6 /\ LastOp(CMD_GETBYTE) = 6
  BY <1>1 DEF LastOp
<1>3. /\ Handlers[CMD_GETBYTE][1] = a
      /\ Handlers[CMD_GETBYTE][2] = Ack
      /\ Handlers[CMD_GETBYTE][3] = b
      /\ Handlers[CMD_GETBYTE][4] = Ack
      /\ Handlers[CMD_GETBYTE][5] = c
      /\ Handlers[CMD_GETBYTE][6] = Ok
  BY <1>1
<1> QED  BY <1>2, <1>3 DEF a, b, c

LEMMA SendByteOps ==
  /\ DOMAIN Handlers[CMD_SENDBYTE] = 1 .. 9 /\ LastOp(CMD_SENDBYTE) = 9
  /\ Handlers[CMD_SENDBYTE][1] = Ack
  /\ Handlers[CMD_SENDBYTE][2] = Recv(3)
  /\ Handlers[CMD_SENDBYTE][3] = Ack
  /\ Handlers[CMD_SENDBYTE][4] = TargetAck
  /\ Handlers[CMD_SENDBYTE][5] = Recv(1)
  /\ Handlers[CMD_SENDBYTE][6] = Ack
  /\ Handlers[CMD_SENDBYTE][7] = TargetAck
  /\ Handlers[CMD_SENDBYTE][8] = Busy
  /\ Handlers[CMD_SENDBYTE][9] = Ok
<1> DEFINE a == Recv(3)
           b == Recv(1)
<1>1. Handlers[CMD_SENDBYTE] = << Ack, a, Ack, TargetAck, b, Ack, TargetAck, Busy, Ok >>
  <2>1. Handlers[CMD_SENDBYTE] = SendByte
    BY DEF Handlers, Commands
  <2> QED  BY <2>1 DEF SendByte
<1> HIDE DEF a, b
<1>2. DOMAIN Handlers[CMD_SENDBYTE] = 1 .. 9 /\ LastOp(CMD_SENDBYTE) = 9
  BY <1>1 DEF LastOp
<1>3. /\ Handlers[CMD_SENDBYTE][1] = Ack
      /\ Handlers[CMD_SENDBYTE][2] = a
      /\ Handlers[CMD_SENDBYTE][3] = Ack
      /\ Handlers[CMD_SENDBYTE][4] = TargetAck
      /\ Handlers[CMD_SENDBYTE][5] = b
      /\ Handlers[CMD_SENDBYTE][6] = Ack
      /\ Handlers[CMD_SENDBYTE][7] = TargetAck
      /\ Handlers[CMD_SENDBYTE][8] = Busy
      /\ Handlers[CMD_SENDBYTE][9] = Ok
  BY <1>1
<1> QED  BY <1>2, <1>3 DEF a, b

LEMMA SetAddrOps ==
  /\ DOMAIN Handlers[CMD_SETADDR] = 1 .. 5 /\ LastOp(CMD_SETADDR) = 5
  /\ Handlers[CMD_SETADDR][1] = Ack
  /\ Handlers[CMD_SETADDR][2] = Recv(3)
  /\ Handlers[CMD_SETADDR][3] = Ack
  /\ Handlers[CMD_SETADDR][4] = TargetAck
  /\ Handlers[CMD_SETADDR][5] = Ok
<1> DEFINE a == Recv(3)
<1>1. Handlers[CMD_SETADDR] = << Ack, a, Ack, TargetAck, Ok >>
  <2>1. Handlers[CMD_SETADDR] = SetAddr
    BY DEF Handlers, Commands
  <2> QED  BY <2>1 DEF SetAddr
<1> HIDE DEF a
<1>2. DOMAIN Handlers[CMD_SETADDR] = 1 .. 5 /\ LastOp(CMD_SETADDR) = 5
  BY <1>1 DEF LastOp
<1>3. /\ Handlers[CMD_SETADDR][1] = Ack
      /\ Handlers[CMD_SETADDR][2] = a
      /\ Handlers[CMD_SETADDR][3] = Ack
      /\ Handlers[CMD_SETADDR][4] = TargetAck
      /\ Handlers[CMD_SETADDR][5] = Ok
  BY <1>1
<1> QED  BY <1>2, <1>3 DEF a

LEMMA FlashPageEraseOps ==
  /\ DOMAIN Handlers[CMD_FLASH_PAGE_ERASE] = 1 .. 10 /\ LastOp(CMD_FLASH_PAGE_ERASE) = 10
  /\ Handlers[CMD_FLASH_PAGE_ERASE][1] = Ack
  /\ Handlers[CMD_FLASH_PAGE_ERASE][2] = Recv(3)
  /\ Handlers[CMD_FLASH_PAGE_ERASE][3] = Ack
  /\ Handlers[CMD_FLASH_PAGE_ERASE][4] = RecvSize("left")
  /\ Handlers[CMD_FLASH_PAGE_ERASE][5] = Ack
  /\ Handlers[CMD_FLASH_PAGE_ERASE][6] = Recv(2)
  /\ Handlers[CMD_FLASH_PAGE_ERASE][7] = Stored
  /\ Handlers[CMD_FLASH_PAGE_ERASE][8] = Erase
  /\ Handlers[CMD_FLASH_PAGE_ERASE][9] = Stored
  /\ Handlers[CMD_FLASH_PAGE_ERASE][10] = Ok
<1> DEFINE a == Recv(3)
           b == RecvSize("left")
           c == Recv(2)
<1>1. Handlers[CMD_FLASH_PAGE_ERASE] = << Ack, a, Ack, b, Ack, c, Stored, Erase, Stored, Ok >>
  <2>1. Handlers[CMD_FLASH_PAGE_ERASE] = FlashPageErase
    BY DEF Handlers, Commands
  <2> QED  BY <2>1 DEF FlashPageErase
<1> HIDE DEF a, b, c
<1>2. DOMAIN Handlers[CMD_FLASH_PAGE_ERASE] = 1 .. 10 /\ LastOp(CMD_FLASH_PAGE_ERASE) = 10
  BY <1>1 DEF LastOp
<1>3. /\ Handlers[CMD_FLASH_PAGE_ERASE][1] = Ack
      /\ Handlers[CMD_FLASH_PAGE_ERASE][2] = a
      /\ Handlers[CMD_FLASH_PAGE_ERASE][3] = Ack
      /\ Handlers[CMD_FLASH_PAGE_ERASE][4] = b
      /\ Handlers[CMD_FLASH_PAGE_ERASE][5] = Ack
      /\ Handlers[CMD_FLASH_PAGE_ERASE][6] = c
      /\ Handlers[CMD_FLASH_PAGE_ERASE][7] = Stored
      /\ Handlers[CMD_FLASH_PAGE_ERASE][8] = Erase
      /\ Handlers[CMD_FLASH_PAGE_ERASE][9] = Stored
      /\ Handlers[CMD_FLASH_PAGE_ERASE][10] = Ok
  BY <1>1
<1> QED  BY <1>2, <1>3 DEF a, b, c

LEMMA EepromWriteEnableOps ==
  /\ DOMAIN Handlers[CMD_EEPROM_WR_EN] = 1 .. 4 /\ LastOp(CMD_EEPROM_WR_EN) = 4
  /\ Handlers[CMD_EEPROM_WR_EN][1] = Ack
  /\ Handlers[CMD_EEPROM_WR_EN][2] = Stored
  /\ Handlers[CMD_EEPROM_WR_EN][3] = Nvm(TRUE)
  /\ Handlers[CMD_EEPROM_WR_EN][4] = Ok
<1> DEFINE a == Nvm(TRUE)
<1>1. Handlers[CMD_EEPROM_WR_EN] = << Ack, Stored, a, Ok >>
  <2>1. Handlers[CMD_EEPROM_WR_EN] = EepromWriteEnable
    BY DEF Handlers, Commands
  <2> QED  BY <2>1 DEF EepromWriteEnable
<1> HIDE DEF a
<1>2. DOMAIN Handlers[CMD_EEPROM_WR_EN] = 1 .. 4 /\ LastOp(CMD_EEPROM_WR_EN) = 4
  BY <1>1 DEF LastOp
<1>3. /\ Handlers[CMD_EEPROM_WR_EN][1] = Ack
      /\ Handlers[CMD_EEPROM_WR_EN][2] = Stored
      /\ Handlers[CMD_EEPROM_WR_EN][3] = a
      /\ Handlers[CMD_EEPROM_WR_EN][4] = Ok
  BY <1>1
<1> QED  BY <1>2, <1>3 DEF a

LEMMA FlashWriteEnableOps ==
  /\ DOMAIN Handlers[CMD_FLASH_WR_EN] = 1 .. 4 /\ LastOp(CMD_FLASH_WR_EN) = 4
  /\ Handlers[CMD_FLASH_WR_EN][1] = Ack
  /\ Handlers[CMD_FLASH_WR_EN][2] = Stored
  /\ Handlers[CMD_FLASH_WR_EN][3] = Nvm(TRUE)
  /\ Handlers[CMD_FLASH_WR_EN][4] = Ok
<1> DEFINE a == Nvm(TRUE)
<1>1. Handlers[CMD_FLASH_WR_EN] = << Ack, Stored, a, Ok >>
  <2>1. Handlers[CMD_FLASH_WR_EN] = FlashWriteEnable
    BY DEF Handlers, Commands
  <2> QED  BY <2>1 DEF FlashWriteEnable
<1> HIDE DEF a
<1>2. DOMAIN Handlers[CMD_FLASH_WR_EN] = 1 .. 4 /\ LastOp(CMD_FLASH_WR_EN) = 4
  BY <1>1 DEF LastOp
<1>3. /\ Handlers[CMD_FLASH_WR_EN][1] = Ack
      /\ Handlers[CMD_FLASH_WR_EN][2] = Stored
      /\ Handlers[CMD_FLASH_WR_EN][3] = a
      /\ Handlers[CMD_FLASH_WR_EN][4] = Ok
  BY <1>1
<1> QED  BY <1>2, <1>3 DEF a

LEMMA NvmWriteDisableOps ==
  /\ DOMAIN Handlers[CMD_NVM_WR_DIS] = 1 .. 4 /\ LastOp(CMD_NVM_WR_DIS) = 4
  /\ Handlers[CMD_NVM_WR_DIS][1] = Ack
  /\ Handlers[CMD_NVM_WR_DIS][2] = Stored
  /\ Handlers[CMD_NVM_WR_DIS][3] = Nvm(FALSE)
  /\ Handlers[CMD_NVM_WR_DIS][4] = Ok
<1> DEFINE a == Nvm(FALSE)
<1>1. Handlers[CMD_NVM_WR_DIS] = << Ack, Stored, a, Ok >>
  <2>1. Handlers[CMD_NVM_WR_DIS] = NvmWriteDisable
    BY DEF Handlers, Commands
  <2> QED  BY <2>1 DEF NvmWriteDisable
<1> HIDE DEF a
<1>2. DOMAIN Handlers[CMD_NVM_WR_DIS] = 1 .. 4 /\ LastOp(CMD_NVM_WR_DIS) = 4
  BY <1>1 DEF LastOp
<1>3. /\ Handlers[CMD_NVM_WR_DIS][1] = Ack
      /\ Handlers[CMD_NVM_WR_DIS][2] = Stored
      /\ Handlers[CMD_NVM_WR_DIS][3] = a
      /\ Handlers[CMD_NVM_WR_DIS][4] = Ok
  BY <1>1
<1> QED  BY <1>2, <1>3 DEF a

LEMMA SetBaudOps ==
  /\ DOMAIN Handlers[CMD_SETBAUD] = 1 .. 7 /\ LastOp(CMD_SETBAUD) = 7
  /\ Handlers[CMD_SETBAUD][1] = Ack
  /\ Handlers[CMD_SETBAUD][2] = Recv(2)
  /\ Handlers[CMD_SETBAUD][3] = Ack
  /\ Handlers[CMD_SETBAUD][4] = Recv(2)
  /\ Handlers[CMD_SETBAUD][5] = Ack
  /\ Handlers[CMD_SETBAUD][6] = StatusB
  /\ Handlers[CMD_SETBAUD][7] = Ok
<1> DEFINE a == Recv(2)
<1>1. Handlers[CMD_SETBAUD] = << Ack, a, Ack, a, Ack, StatusB, Ok >>
  <2>1. Handlers[CMD_SETBAUD] = SetBaud
    BY DEF Handlers, Commands
  <2> QED  BY <2>1 DEF SetBaud
<1> HIDE DEF a
<1>2. DOMAIN Handlers[CMD_SETBAUD] = 1 .. 7 /\ LastOp(CMD_SETBAUD) = 7
  BY <1>1 DEF LastOp
<1>3. /\ Handlers[CMD_SETBAUD][1] = Ack
      /\ Handlers[CMD_SETBAUD][2] = a
      /\ Handlers[CMD_SETBAUD][3] = Ack
      /\ Handlers[CMD_SETBAUD][4] = a
      /\ Handlers[CMD_SETBAUD][5] = Ack
      /\ Handlers[CMD_SETBAUD][6] = StatusB
      /\ Handlers[CMD_SETBAUD][7] = Ok
  BY <1>1
<1> QED  BY <1>2, <1>3 DEF a

LEMMA ChipEraseOps ==
  /\ DOMAIN Handlers[CMD_CHIPERASE] = 1 .. 4 /\ LastOp(CMD_CHIPERASE) = 4
  /\ Handlers[CMD_CHIPERASE][1] = Ack
  /\ Handlers[CMD_CHIPERASE][2] = Updi({"error", "timeout", "masked"})
  /\ Handlers[CMD_CHIPERASE][3] = Slow({"erasefail", "masked"})
  /\ Handlers[CMD_CHIPERASE][4] = Ok
<1> DEFINE a == Updi({"error", "timeout", "masked"})
           b == Slow({"erasefail", "masked"})
<1>1. Handlers[CMD_CHIPERASE] = << Ack, a, b, Ok >>
  <2>1. Handlers[CMD_CHIPERASE] = ChipErase
    BY DEF Handlers, Commands
  <2> QED  BY <2>1 DEF ChipErase
<1> HIDE DEF a, b
<1>2. DOMAIN Handlers[CMD_CHIPERASE] = 1 .. 4 /\ LastOp(CMD_CHIPERASE) = 4
  BY <1>1 DEF LastOp
<1>3. /\ Handlers[CMD_CHIPERASE][1] = Ack
      /\ Handlers[CMD_CHIPERASE][2] = a
      /\ Handlers[CMD_CHIPERASE][3] = b
      /\ Handlers[CMD_CHIPERASE][4] = Ok
  BY <1>1
<1> QED  BY <1>2, <1>3 DEF a, b

LEMMA ResetTargetOps ==
  /\ DOMAIN Handlers[CMD_RESETTGT] = 1 .. 4 /\ LastOp(CMD_RESETTGT) = 4
  /\ Handlers[CMD_RESETTGT][1] = Ack
  /\ Handlers[CMD_RESETTGT][2] = Slow({})
  /\ Handlers[CMD_RESETTGT][3] = StatusB
  /\ Handlers[CMD_RESETTGT][4] = Ok
<1> DEFINE a == Slow({})
<1>1. Handlers[CMD_RESETTGT] = << Ack, a, StatusB, Ok >>
  <2>1. Handlers[CMD_RESETTGT] = ResetTarget
    BY DEF Handlers, Commands
  <2> QED  BY <2>1 DEF ResetTarget
<1> HIDE DEF a
<1>2. DOMAIN Handlers[CMD_RESETTGT] = 1 .. 4 /\ LastOp(CMD_RESETTGT) = 4
  BY <1>1 DEF LastOp
<1>3. /\ Handlers[CMD_RESETTGT][1] = Ack
      /\ Handlers[CMD_RESETTGT][2] = a
      /\ Handlers[CMD_RESETTGT][3] = StatusB
      /\ Handlers[CMD_RESETTGT][4] = Ok
  BY <1>1
<1> QED  BY <1>2, <1>3 DEF a

LEMMA StartFlow ==
  ASSUME NEW s \in Nat
  PROVE  /\ HasSent(CMD_START, s) = Once(s > 1) + Once(s > 4) + Once(s > 6) + 3 * Once(s > 10)
         /\ Parameters(CMD_START, s) = 3 * Once(s > 7)
         /\ Owes(CMD_START, s) = IF s \in {3, 4} THEN 1 ELSE IF s \in {9, 10} THEN 3 ELSE 0
<1>1. HasSent(CMD_START, s) = Once(s > 1) + Once(s > 4) + Once(s > 6) + 3 * Once(s > 10)
  BY DEF HasSent
<1>2. Parameters(CMD_START, s) = 3 * Once(s > 7)
  BY DEF Parameters
<1>3. Owes(CMD_START, s) = IF s \in {3, 4} THEN 1 ELSE IF s \in {9, 10} THEN 3 ELSE 0
  BY DEF Owes
<1> QED  BY <1>1, <1>2, <1>3

LEMMA StartMeans ==
  ASSUME NEW s \in 1 .. 11
  PROVE  OpMeans(CMD_START, s)
<1>1. /\ Handlers[CMD_START][1].op = "ack"
      /\ Handlers[CMD_START][2].op = "pad"
      /\ Handlers[CMD_START][3].op = "updi"
      /\ Handlers[CMD_START][4].op = "fetch"
      /\ Handlers[CMD_START][5].op = "slow"
      /\ Handlers[CMD_START][6].op = "ack"
      /\ Handlers[CMD_START][7].op = "recv"
      /\ Handlers[CMD_START][8].op = "pad"
      /\ Handlers[CMD_START][9].op = "updi"
      /\ Handlers[CMD_START][10].op = "fetch"
      /\ Handlers[CMD_START][11].op = "ok"
  BY StartOps DEF Ack, Fetch, Ok, Pad, Recv, Slow, TargetAck, Updi
<1>2. s \in {1, 2, 3, 4, 5, 6, 7, 8, 9, 10, 11}
  OBVIOUS
<1>3. LastOp(CMD_START) = 11
  BY StartOps
<1>4. OpPlaces(CMD_START, s)
  BY <1>1, <1>2, <1>3 DEF OpPlaces, Ops
<1>5. /\ Handlers[CMD_START][2].n = 1
      /\ Handlers[CMD_START][3].faults \subseteq Failures \cup {"masked"}
      /\ Handlers[CMD_START][4].what = "status"
      /\ Handlers[CMD_START][5].faults \subseteq Failures \cup {"masked"}
      /\ Handlers[CMD_START][7].n = 3
      /\ Handlers[CMD_START][8].n = 3
      /\ Handlers[CMD_START][9].faults \subseteq Failures \cup {"masked"}
      /\ Handlers[CMD_START][10].what = "signature"
  BY StartOps DEF Ack, Fetch, Ok, Pad, Recv, Slow, TargetAck, Updi, Failures
<1>6. OpFields(CMD_START, s)
  BY <1>1, <1>2, <1>5 DEF OpFields
<1>7. /\ Sends(CMD_START, s) = IF s \in {1, 4, 6} THEN 1 ELSE IF s \in {10} THEN 3 ELSE 0
      /\ Gets(CMD_START, s) = IF s \in {7} THEN 3 ELSE 0
      /\ Pads(CMD_START, s) = IF s \in {2, 3} THEN 1 ELSE IF s \in {8, 9} THEN 3 ELSE 0
  <2>0. Owes(CMD_START, s) = IF s \in {3, 4} THEN 1 ELSE IF s \in {9, 10} THEN 3 ELSE 0
    BY <1>2, StartFlow DEF Once
  <2>1. Sends(CMD_START, s) = IF s \in {1, 4, 6} THEN 1 ELSE IF s \in {10} THEN 3 ELSE 0
    BY <1>1, <1>2, <2>0 DEF Sends
  <2>2. Gets(CMD_START, s) = IF s \in {7} THEN 3 ELSE 0
    BY <1>1, <1>2, <1>5 DEF Gets
  <2>3. Pads(CMD_START, s) = IF s \in {2, 3} THEN 1 ELSE IF s \in {8, 9} THEN 3 ELSE 0
    BY <1>1, <1>2, <1>5, <2>0 DEF Pads
  <2> QED  BY <2>1, <2>2, <2>3
<1>8. /\ HasSent(CMD_START, s) = IF s \in {1} THEN 0 ELSE IF s \in {2, 3, 4} THEN 1 ELSE IF s \in {5, 6} THEN 2 ELSE IF s \in {11} THEN 6 ELSE 3
      /\ HasSent(CMD_START, s + 1) = IF s \in {1, 2, 3} THEN 1 ELSE IF s \in {4, 5} THEN 2 ELSE IF s \in {10, 11} THEN 6 ELSE 3
  BY <1>2, StartFlow DEF Once
<1>9. /\ Parameters(CMD_START, s) = IF s \in {8, 9, 10, 11} THEN 3 ELSE 0
      /\ Parameters(CMD_START, s + 1) = IF s \in {7, 8, 9, 10, 11} THEN 3 ELSE 0
  BY <1>2, StartFlow DEF Once
<1>10. /\ Owes(CMD_START, s) = IF s \in {3, 4} THEN 1 ELSE IF s \in {9, 10} THEN 3 ELSE 0
       /\ Owes(CMD_START, s + 1) = IF s \in {2, 3} THEN 1 ELSE IF s \in {8, 9} THEN 3 ELSE 0
  BY <1>2, StartFlow DEF Once
<1>11. OpMoves(CMD_START, s)
  BY <1>2, <1>3, <1>7, <1>8, <1>9, <1>10 DEF OpMoves, HasGot
<1> QED  BY <1>4, <1>6, <1>11 DEF OpMeans

LEMMA StopFlow ==
  ASSUME NEW s \in Nat
  PROVE  /\ HasSent(CMD_STOP, s) = Once(s > 1)
         /\ Parameters(CMD_STOP, s) = 0
         /\ Owes(CMD_STOP, s) = 0
<1>1. HasSent(CMD_STOP, s) = Once(s > 1)
  BY DEF HasSent
<1>2. Parameters(CMD_STOP, s) = 0
  BY DEF Parameters
<1>3. Owes(CMD_STOP, s) = 0
  BY DEF Owes
<1> QED  BY <1>1, <1>2, <1>3

LEMMA StopMeans ==
  ASSUME NEW s \in 1 .. 3
  PROVE  OpMeans(CMD_STOP, s)
<1>1. /\ Handlers[CMD_STOP][1].op = "ack"
      /\ Handlers[CMD_STOP][2].op = "slow"
      /\ Handlers[CMD_STOP][3].op = "ok"
  BY StopOps DEF Ack, Ok, Slow
<1>2. s \in {1, 2, 3}
  OBVIOUS
<1>3. LastOp(CMD_STOP) = 3
  BY StopOps
<1>4. OpPlaces(CMD_STOP, s)
  BY <1>1, <1>2, <1>3 DEF OpPlaces, Ops
<1>5. /\ Handlers[CMD_STOP][2].faults \subseteq Failures \cup {"masked"}
  BY StopOps DEF Ack, Ok, Slow, Failures
<1>6. OpFields(CMD_STOP, s)
  BY <1>1, <1>2, <1>5 DEF OpFields
<1>7. /\ Sends(CMD_STOP, s) = IF s \in {1} THEN 1 ELSE 0
      /\ Gets(CMD_STOP, s) = 0
      /\ Pads(CMD_STOP, s) = 0
  <2>0. Owes(CMD_STOP, s) = 0
    BY <1>2, StopFlow DEF Once
  <2>1. Sends(CMD_STOP, s) = IF s \in {1} THEN 1 ELSE 0
    BY <1>1, <1>2, <2>0 DEF Sends
  <2>2. Gets(CMD_STOP, s) = 0
    BY <1>1, <1>2, <1>5 DEF Gets
  <2>3. Pads(CMD_STOP, s) = 0
    BY <1>1, <1>2, <1>5, <2>0 DEF Pads
  <2> QED  BY <2>1, <2>2, <2>3
<1>8. /\ HasSent(CMD_STOP, s) = IF s \in {1} THEN 0 ELSE 1
      /\ HasSent(CMD_STOP, s + 1) = 1
  BY <1>2, StopFlow DEF Once
<1>9. /\ Parameters(CMD_STOP, s) = 0
      /\ Parameters(CMD_STOP, s + 1) = 0
  BY <1>2, StopFlow DEF Once
<1>10. /\ Owes(CMD_STOP, s) = 0
       /\ Owes(CMD_STOP, s + 1) = 0
  BY <1>2, StopFlow DEF Once
<1>11. OpMoves(CMD_STOP, s)
  BY <1>2, <1>3, <1>7, <1>8, <1>9, <1>10 DEF OpMoves, HasGot
<1> QED  BY <1>4, <1>6, <1>11 DEF OpMeans

LEMMA SendBlockFlow ==
  ASSUME NEW s \in Nat
  PROVE  /\ HasSent(CMD_SENDBLOCK, s) = Once(s > 1)
         /\ Parameters(CMD_SENDBLOCK, s) = 2 * Once(s > 2)
         /\ Owes(CMD_SENDBLOCK, s) = 0
<1>1. HasSent(CMD_SENDBLOCK, s) = Once(s > 1)
  BY DEF HasSent
<1>2. Parameters(CMD_SENDBLOCK, s) = 2 * Once(s > 2)
  BY DEF Parameters
<1>3. Owes(CMD_SENDBLOCK, s) = 0
  BY DEF Owes
<1> QED  BY <1>1, <1>2, <1>3

LEMMA SendBlockMeans ==
  ASSUME NEW s \in 1 .. 4
  PROVE  OpMeans(CMD_SENDBLOCK, s)
<1>1. /\ Handlers[CMD_SENDBLOCK][1].op = "ack"
      /\ Handlers[CMD_SENDBLOCK][2].op = "size"
      /\ Handlers[CMD_SENDBLOCK][3].op = "packets"
      /\ Handlers[CMD_SENDBLOCK][4].op = "ok"
  BY SendBlockOps DEF Ack, Ok, Packets, RecvSize
<1>2. s \in {1, 2, 3, 4}
  OBVIOUS
<1>3. LastOp(CMD_SENDBLOCK) = 4
  BY SendBlockOps
<1>4. OpPlaces(CMD_SENDBLOCK, s)
  BY <1>1, <1>2, <1>3 DEF OpPlaces, Ops
<1>5. /\ Handlers[CMD_SENDBLOCK][2].into = "left"
  BY SendBlockOps DEF Ack, Ok, Packets, RecvSize, Failures
<1>6. OpFields(CMD_SENDBLOCK, s)
  BY <1>1, <1>2, <1>5 DEF OpFields
<1>7. /\ Sends(CMD_SENDBLOCK, s) = IF s \in {1} THEN 1 ELSE 0
      /\ Gets(CMD_SENDBLOCK, s) = IF s \in {2} THEN 2 ELSE 0
      /\ Pads(CMD_SENDBLOCK, s) = 0
  <2>0. Owes(CMD_SENDBLOCK, s) = 0
    BY <1>2, SendBlockFlow DEF Once
  <2>1. Sends(CMD_SENDBLOCK, s) = IF s \in {1} THEN 1 ELSE 0
    BY <1>1, <1>2, <2>0 DEF Sends
  <2>2. Gets(CMD_SENDBLOCK, s) = IF s \in {2} THEN 2 ELSE 0
    BY <1>1, <1>2, <1>5 DEF Gets
  <2>3. Pads(CMD_SENDBLOCK, s) = 0
    BY <1>1, <1>2, <1>5, <2>0 DEF Pads
  <2> QED  BY <2>1, <2>2, <2>3
<1>8. /\ HasSent(CMD_SENDBLOCK, s) = IF s \in {1} THEN 0 ELSE 1
      /\ HasSent(CMD_SENDBLOCK, s + 1) = 1
  BY <1>2, SendBlockFlow DEF Once
<1>9. /\ Parameters(CMD_SENDBLOCK, s) = IF s \in {3, 4} THEN 2 ELSE 0
      /\ Parameters(CMD_SENDBLOCK, s + 1) = IF s \in {1} THEN 0 ELSE 2
  BY <1>2, SendBlockFlow DEF Once
<1>10. /\ Owes(CMD_SENDBLOCK, s) = 0
       /\ Owes(CMD_SENDBLOCK, s + 1) = 0
  BY <1>2, SendBlockFlow DEF Once
<1>11. OpMoves(CMD_SENDBLOCK, s)
  BY <1>2, <1>3, <1>7, <1>8, <1>9, <1>10 DEF OpMoves, HasGot
<1> QED  BY <1>4, <1>6, <1>11 DEF OpMeans

LEMMA GetBlockFlow ==
  ASSUME NEW s \in Nat
  PROVE  /\ HasSent(CMD_GETBLOCK, s) = Once(s > 1) + Once(s > 3)
         /\ Parameters(CMD_GETBLOCK, s) = 2 * Once(s > 2)
         /\ Owes(CMD_GETBLOCK, s) = 0
<1>1. HasSent(CMD_GETBLOCK, s) = Once(s > 1) + Once(s > 3)
  BY DEF HasSent
<1>2. Parameters(CMD_GETBLOCK, s) = 2 * Once(s > 2)
  BY DEF Parameters
<1>3. Owes(CMD_GETBLOCK, s) = 0
  BY DEF Owes
<1> QED  BY <1>1, <1>2, <1>3

LEMMA GetBlockMeans ==
  ASSUME NEW s \in 1 .. 5
  PROVE  OpMeans(CMD_GETBLOCK, s)
<1>1. /\ Handlers[CMD_GETBLOCK][1].op = "ack"
      /\ Handlers[CMD_GETBLOCK][2].op = "size"
      /\ Handlers[CMD_GETBLOCK][3].op = "ack"
      /\ Handlers[CMD_GETBLOCK][4].op = "stream"
      /\ Handlers[CMD_GETBLOCK][5].op = "ok"
  BY GetBlockOps DEF Ack, Ok, RecvSize, Stream
<1>2. s \in {1, 2, 3, 4, 5}
  OBVIOUS
<1>3. LastOp(CMD_GETBLOCK) = 5
  BY GetBlockOps
<1>4. OpPlaces(CMD_GETBLOCK, s)
  BY <1>1, <1>2, <1>3 DEF OpPlaces, Ops
<1>5. /\ Handlers[CMD_GETBLOCK][2].into = "toSend"
  BY GetBlockOps DEF Ack, Ok, RecvSize, Stream, Failures
<1>6. OpFields(CMD_GETBLOCK, s)
  BY <1>1, <1>2, <1>5 DEF OpFields
<1>7. /\ Sends(CMD_GETBLOCK, s) = IF s \in {1, 3} THEN 1 ELSE 0
      /\ Gets(CMD_GETBLOCK, s) = IF s \in {2} THEN 2 ELSE 0
      /\ Pads(CMD_GETBLOCK, s) = 0
  <2>0. Owes(CMD_GETBLOCK, s) = 0
    BY <1>2, GetBlockFlow DEF Once
  <2>1. Sends(CMD_GETBLOCK, s) = IF s \in {1, 3} THEN 1 ELSE 0
    BY <1>1, <1>2, <2>0 DEF Sends
  <2>2. Gets(CMD_GETBLOCK, s) = IF s \in {2} THEN 2 ELSE 0
    BY <1>1, <1>2, <1>5 DEF Gets
  <2>3. Pads(CMD_GETBLOCK, s) = 0
    BY <1>1, <1>2, <1>5, <2>0 DEF Pads
  <2> QED  BY <2>1, <2>2, <2>3
<1>8. /\ HasSent(CMD_GETBLOCK, s) = IF s \in {1} THEN 0 ELSE IF s \in {4, 5} THEN 2 ELSE 1
      /\ HasSent(CMD_GETBLOCK, s + 1) = IF s \in {1, 2} THEN 1 ELSE 2
  BY <1>2, GetBlockFlow DEF Once
<1>9. /\ Parameters(CMD_GETBLOCK, s) = IF s \in {1, 2} THEN 0 ELSE 2
      /\ Parameters(CMD_GETBLOCK, s + 1) = IF s \in {1} THEN 0 ELSE 2
  BY <1>2, GetBlockFlow DEF Once
<1>10. /\ Owes(CMD_GETBLOCK, s) = 0
       /\ Owes(CMD_GETBLOCK, s + 1) = 0
  BY <1>2, GetBlockFlow DEF Once
<1>11. OpMoves(CMD_GETBLOCK, s)
  BY <1>2, <1>3, <1>7, <1>8, <1>9, <1>10 DEF OpMoves, HasGot
<1> QED  BY <1>4, <1>6, <1>11 DEF OpMeans

LEMMA GetByteFlow ==
  ASSUME NEW s \in Nat
  PROVE  /\ HasSent(CMD_GETBYTE, s) = Once(s > 2) + Once(s > 4) + Once(s > 5)
         /\ Parameters(CMD_GETBYTE, s) = 3 * Once(s > 3)
         /\ Owes(CMD_GETBYTE, s) = Once(s \in 2 .. 5)
<1>1. HasSent(CMD_GETBYTE, s) = Once(s > 2) + Once(s > 4) + Once(s > 5)
  BY DEF HasSent
<1>2. Parameters(CMD_GETBYTE, s) = 3 * Once(s > 3)
  BY DEF Parameters
<1>3. Owes(CMD_GETBYTE, s) = Once(s \in 2 .. 5)
  BY DEF Owes
<1> QED  BY <1>1, <1>2, <1>3

LEMMA GetByteMeans ==
  ASSUME NEW s \in 1 .. 6
  PROVE  OpMeans(CMD_GETBYTE, s)
<1>1. /\ Handlers[CMD_GETBYTE][1].op = "pad"
      /\ Handlers[CMD_GETBYTE][2].op = "ack"
      /\ Handlers[CMD_GETBYTE][3].op = "recv"
      /\ Handlers[CMD_GETBYTE][4].op = "ack"
      /\ Handlers[CMD_GETBYTE][5].op = "fetch"
      /\ Handlers[CMD_GETBYTE][6].op = "ok"
  BY GetByteOps DEF Ack, Fetch, Ok, Pad, Recv
<1>2. s \in {1, 2, 3, 4, 5, 6}
  OBVIOUS
<1>3. LastOp(CMD_GETBYTE) = 6
  BY GetByteOps
<1>4. OpPlaces(CMD_GETBYTE, s)
  BY <1>1, <1>2, <1>3 DEF OpPlaces, Ops
<1>5. /\ Handlers[CMD_GETBYTE][1].n = 1
      /\ Handlers[CMD_GETBYTE][3].n = 3
      /\ Handlers[CMD_GETBYTE][5].what = "byte"
  BY GetByteOps DEF Ack, Fetch, Ok, Pad, Recv, Failures
<1>6. OpFields(CMD_GETBYTE, s)
  BY <1>1, <1>2, <1>5 DEF OpFields
<1>7. /\ Sends(CMD_GETBYTE, s) = IF s \in {2, 4, 5} THEN 1 ELSE 0
      /\ Gets(CMD_GETBYTE, s) = IF s \in {3} THEN 3 ELSE 0
      /\ Pads(CMD_GETBYTE, s) = IF s \in {5, 6} THEN 0 ELSE 1
  <2>0. Owes(CMD_GETBYTE, s) = IF s \in {1, 6} THEN 0 ELSE 1
    BY <1>2, GetByteFlow DEF Once
  <2>1. Sends(CMD_GETBYTE, s) = IF s \in {2, 4, 5} THEN 1 ELSE 0
    BY <1>1, <1>2, <2>0 DEF Sends
  <2>2. Gets(CMD_GETBYTE, s) = IF s \in {3} THEN 3 ELSE 0
    BY <1>1, <1>2, <1>5 DEF Gets
  <2>3. Pads(CMD_GETBYTE, s) = IF s \in {5, 6} THEN 0 ELSE 1
    BY <1>1, <1>2, <1>5, <2>0 DEF Pads
  <2> QED  BY <2>1, <2>2, <2>3
<1>8. /\ HasSent(CMD_GETBYTE, s) = IF s \in {3, 4} THEN 1 ELSE IF s \in {5} THEN 2 ELSE IF s \in {6} THEN 3 ELSE 0
      /\ HasSent(CMD_GETBYTE, s + 1) = IF s \in {1} THEN 0 ELSE IF s \in {4} THEN 2 ELSE IF s \in {5, 6} THEN 3 ELSE 1
  BY <1>2, GetByteFlow DEF Once
<1>9. /\ Parameters(CMD_GETBYTE, s) = IF s \in {4, 5, 6} THEN 3 ELSE 0
      /\ Parameters(CMD_GETBYTE, s + 1) = IF s \in {1, 2} THEN 0 ELSE 3
  BY <1>2, GetByteFlow DEF Once
<1>10. /\ Owes(CMD_GETBYTE, s) = IF s \in {1, 6} THEN 0 ELSE 1
       /\ Owes(CMD_GETBYTE, s + 1) = IF s \in {5, 6} THEN 0 ELSE 1
  BY <1>2, GetByteFlow DEF Once
<1>11. OpMoves(CMD_GETBYTE, s)
  BY <1>2, <1>3, <1>7, <1>8, <1>9, <1>10 DEF OpMoves, HasGot
<1> QED  BY <1>4, <1>6, <1>11 DEF OpMeans

LEMMA SendByteFlow ==
  ASSUME NEW s \in Nat
  PROVE  /\ HasSent(CMD_SENDBYTE, s) = Once(s > 1) + Once(s > 3) + Once(s > 6)
         /\ Parameters(CMD_SENDBYTE, s) = 3 * Once(s > 2) + Once(s > 5)
         /\ Owes(CMD_SENDBYTE, s) = 0
<1>1. HasSent(CMD_SENDBYTE, s) = Once(s > 1) + Once(s > 3) + Once(s > 6)
  BY DEF HasSent
<1>2. Parameters(CMD_SENDBYTE, s) = 3 * Once(s > 2) + Once(s > 5)
  BY DEF Parameters
<1>3. Owes(CMD_SENDBYTE, s) = 0
  BY DEF Owes
<1> QED  BY <1>1, <1>2, <1>3

LEMMA SendByteMeans ==
  ASSUME NEW s \in 1 .. 9
  PROVE  OpMeans(CMD_SENDBYTE, s)
<1>1. /\ Handlers[CMD_SENDBYTE][1].op = "ack"
      /\ Handlers[CMD_SENDBYTE][2].op = "recv"
      /\ Handlers[CMD_SENDBYTE][3].op = "ack"
      /\ Handlers[CMD_SENDBYTE][4].op = "updi"
      /\ Handlers[CMD_SENDBYTE][5].op = "recv"
      /\ Handlers[CMD_SENDBYTE][6].op = "ack"
      /\ Handlers[CMD_SENDBYTE][7].op = "updi"
      /\ Handlers[CMD_SENDBYTE][8].op = "busy"
      /\ Handlers[CMD_SENDBYTE][9].op = "ok"
  BY SendByteOps DEF Ack, Busy, Ok, Recv, TargetAck, Updi
<1>2. s \in {1, 2, 3, 4, 5, 6, 7, 8, 9}
  OBVIOUS
<1>3. LastOp(CMD_SENDBYTE) = 9
  BY SendByteOps
<1>4. OpPlaces(CMD_SENDBYTE, s)
  BY <1>1, <1>2, <1>3 DEF OpPlaces, Ops
<1>5. /\ Handlers[CMD_SENDBYTE][2].n = 3
      /\ Handlers[CMD_SENDBYTE][4].faults \subseteq Failures \cup {"masked"}
      /\ Handlers[CMD_SENDBYTE][5].n = 1
      /\ Handlers[CMD_SENDBYTE][7].faults \subseteq Failures \cup {"masked"}
  BY SendByteOps DEF Ack, Busy, Ok, Recv, TargetAck, Updi, Failures
<1>6. OpFields(CMD_SENDBYTE, s)
  BY <1>1, <1>2, <1>5 DEF OpFields
<1>7. /\ Sends(CMD_SENDBYTE, s) = IF s \in {1, 3, 6} THEN 1 ELSE 0
      /\ Gets(CMD_SENDBYTE, s) = IF s \in {2} THEN 3 ELSE IF s \in {5} THEN 1 ELSE 0
      /\ Pads(CMD_SENDBYTE, s) = 0
  <2>0. Owes(CMD_SENDBYTE, s) = 0
    BY <1>2, SendByteFlow DEF Once
  <2>1. Sends(CMD_SENDBYTE, s) = IF s \in {1, 3, 6} THEN 1 ELSE 0
    BY <1>1, <1>2, <2>0 DEF Sends
  <2>2. Gets(CMD_SENDBYTE, s) = IF s \in {2} THEN 3 ELSE IF s \in {5} THEN 1 ELSE 0
    BY <1>1, <1>2, <1>5 DEF Gets
  <2>3. Pads(CMD_SENDBYTE, s) = 0
    BY <1>1, <1>2, <1>5, <2>0 DEF Pads
  <2> QED  BY <2>1, <2>2, <2>3
<1>8. /\ HasSent(CMD_SENDBYTE, s) = IF s \in {1} THEN 0 ELSE IF s \in {2, 3} THEN 1 ELSE IF s \in {7, 8, 9} THEN 3 ELSE 2
      /\ HasSent(CMD_SENDBYTE, s + 1) = IF s \in {1, 2} THEN 1 ELSE IF s \in {3, 4, 5} THEN 2 ELSE 3
  BY <1>2, SendByteFlow DEF Once
<1>9. /\ Parameters(CMD_SENDBYTE, s) = IF s \in {1, 2} THEN 0 ELSE IF s \in {3, 4, 5} THEN 3 ELSE 4
      /\ Parameters(CMD_SENDBYTE, s + 1) = IF s \in {1} THEN 0 ELSE IF s \in {2, 3, 4} THEN 3 ELSE 4
  BY <1>2, SendByteFlow DEF Once
<1>10. /\ Owes(CMD_SENDBYTE, s) = 0
       /\ Owes(CMD_SENDBYTE, s + 1) = 0
  BY <1>2, SendByteFlow DEF Once
<1>11. OpMoves(CMD_SENDBYTE, s)
  BY <1>2, <1>3, <1>7, <1>8, <1>9, <1>10 DEF OpMoves, HasGot
<1> QED  BY <1>4, <1>6, <1>11 DEF OpMeans

LEMMA SetAddrFlow ==
  ASSUME NEW s \in Nat
  PROVE  /\ HasSent(CMD_SETADDR, s) = Once(s > 1) + Once(s > 3)
         /\ Parameters(CMD_SETADDR, s) = 3 * Once(s > 2)
         /\ Owes(CMD_SETADDR, s) = 0
<1>1. HasSent(CMD_SETADDR, s) = Once(s > 1) + Once(s > 3)
  BY DEF HasSent
<1>2. Parameters(CMD_SETADDR, s) = 3 * Once(s > 2)
  BY DEF Parameters
<1>3. Owes(CMD_SETADDR, s) = 0
  BY DEF Owes
<1> QED  BY <1>1, <1>2, <1>3

LEMMA SetAddrMeans ==
  ASSUME NEW s \in 1 .. 5
  PROVE  OpMeans(CMD_SETADDR, s)
<1>1. /\ Handlers[CMD_SETADDR][1].op = "ack"
      /\ Handlers[CMD_SETADDR][2].op = "recv"
      /\ Handlers[CMD_SETADDR][3].op = "ack"
      /\ Handlers[CMD_SETADDR][4].op = "updi"
      /\ Handlers[CMD_SETADDR][5].op = "ok"
  BY SetAddrOps DEF Ack, Ok, Recv, TargetAck, Updi
<1>2. s \in {1, 2, 3, 4, 5}
  OBVIOUS
<1>3. LastOp(CMD_SETADDR) = 5
  BY SetAddrOps
<1>4. OpPlaces(CMD_SETADDR, s)
  BY <1>1, <1>2, <1>3 DEF OpPlaces, Ops
<1>5. /\ Handlers[CMD_SETADDR][2].n = 3
      /\ Handlers[CMD_SETADDR][4].faults \subseteq Failures \cup {"masked"}
  BY SetAddrOps DEF Ack, Ok, Recv, TargetAck, Updi, Failures
<1>6. OpFields(CMD_SETADDR, s)
  BY <1>1, <1>2, <1>5 DEF OpFields
<1>7. /\ Sends(CMD_SETADDR, s) = IF s \in {1, 3} THEN 1 ELSE 0
      /\ Gets(CMD_SETADDR, s) = IF s \in {2} THEN 3 ELSE 0
      /\ Pads(CMD_SETADDR, s) = 0
  <2>0. Owes(CMD_SETADDR, s) = 0
    BY <1>2, SetAddrFlow DEF Once
  <2>1. Sends(CMD_SETADDR, s) = IF s \in {1, 3} THEN 1 ELSE 0
    BY <1>1, <1>2, <2>0 DEF Sends
  <2>2. Gets(CMD_SETADDR, s) = IF s \in {2} THEN 3 ELSE 0
    BY <1>1, <1>2, <1>5 DEF Gets
  <2>3. Pads(CMD_SETADDR, s) = 0
    BY <1>1, <1>2, <1>5, <2>0 DEF Pads
  <2> QED  BY <2>1, <2>2, <2>3
<1>8. /\ HasSent(CMD_SETADDR, s) = IF s \in {1} THEN 0 ELSE IF s \in {4, 5} THEN 2 ELSE 1
      /\ HasSent(CMD_SETADDR, s + 1) = IF s \in {1, 2} THEN 1 ELSE 2
  BY <1>2, SetAddrFlow DEF Once
<1>9. /\ Parameters(CMD_SETADDR, s) = IF s \in {1, 2} THEN 0 ELSE 3
      /\ Parameters(CMD_SETADDR, s + 1) = IF s \in {1} THEN 0 ELSE 3
  BY <1>2, SetAddrFlow DEF Once
<1>10. /\ Owes(CMD_SETADDR, s) = 0
       /\ Owes(CMD_SETADDR, s + 1) = 0
  BY <1>2, SetAddrFlow DEF Once
<1>11. OpMoves(CMD_SETADDR, s)
  BY <1>2, <1>3, <1>7, <1>8, <1>9, <1>10 DEF OpMoves, HasGot
<1> QED  BY <1>4, <1>6, <1>11 DEF OpMeans

LEMMA FlashPageEraseFlow ==
  ASSUME NEW s \in Nat
  PROVE  /\ HasSent(CMD_FLASH_PAGE_ERASE, s) = Once(s > 1) + Once(s > 3) + Once(s > 5)
         /\ Parameters(CMD_FLASH_PAGE_ERASE, s) = 3 * Once(s > 2) + 2 * Once(s > 4) + 2 * Once(s > 6)
         /\ Owes(CMD_FLASH_PAGE_ERASE, s) = 0
<1>1. HasSent(CMD_FLASH_PAGE_ERASE, s) = Once(s > 1) + Once(s > 3) + Once(s > 5)
  BY DEF HasSent
<1>2. Parameters(CMD_FLASH_PAGE_ERASE, s) = 3 * Once(s > 2) + 2 * Once(s > 4) + 2 * Once(s > 6)
  BY DEF Parameters
<1>3. Owes(CMD_FLASH_PAGE_ERASE, s) = 0
  BY DEF Owes
<1> QED  BY <1>1, <1>2, <1>3

LEMMA FlashPageEraseMeans ==
  ASSUME NEW s \in 1 .. 10
  PROVE  OpMeans(CMD_FLASH_PAGE_ERASE, s)
<1>1. /\ Handlers[CMD_FLASH_PAGE_ERASE][1].op = "ack"
      /\ Handlers[CMD_FLASH_PAGE_ERASE][2].op = "recv"
      /\ Handlers[CMD_FLASH_PAGE_ERASE][3].op = "ack"
      /\ Handlers[CMD_FLASH_PAGE_ERASE][4].op = "size"
      /\ Handlers[CMD_FLASH_PAGE_ERASE][5].op = "ack"
      /\ Handlers[CMD_FLASH_PAGE_ERASE][6].op = "recv"
      /\ Handlers[CMD_FLASH_PAGE_ERASE][7].op = "updi"
      /\ Handlers[CMD_FLASH_PAGE_ERASE][8].op = "erase"
      /\ Handlers[CMD_FLASH_PAGE_ERASE][9].op = "updi"
      /\ Handlers[CMD_FLASH_PAGE_ERASE][10].op = "ok"
  BY FlashPageEraseOps DEF Ack, Erase, Ok, Recv, RecvSize, Stored, Updi
<1>2. s \in {1, 2, 3, 4, 5, 6, 7, 8, 9, 10}
  OBVIOUS
<1>3. LastOp(CMD_FLASH_PAGE_ERASE) = 10
  BY FlashPageEraseOps
<1>4. OpPlaces(CMD_FLASH_PAGE_ERASE, s)
  BY <1>1, <1>2, <1>3 DEF OpPlaces, Ops
<1>5. /\ Handlers[CMD_FLASH_PAGE_ERASE][2].n = 3
      /\ Handlers[CMD_FLASH_PAGE_ERASE][4].into = "left"
      /\ Handlers[CMD_FLASH_PAGE_ERASE][6].n = 2
      /\ Handlers[CMD_FLASH_PAGE_ERASE][7].faults \subseteq Failures \cup {"masked"}
      /\ Handlers[CMD_FLASH_PAGE_ERASE][9].faults \subseteq Failures \cup {"masked"}
  BY FlashPageEraseOps DEF Ack, Erase, Ok, Recv, RecvSize, Stored, Updi, Failures
<1>6. OpFields(CMD_FLASH_PAGE_ERASE, s)
  BY <1>1, <1>2, <1>5 DEF OpFields
<1>7. /\ Sends(CMD_FLASH_PAGE_ERASE, s) = IF s \in {1, 3, 5} THEN 1 ELSE 0
      /\ Gets(CMD_FLASH_PAGE_ERASE, s) = IF s \in {2} THEN 3 ELSE IF s \in {4, 6} THEN 2 ELSE 0
      /\ Pads(CMD_FLASH_PAGE_ERASE, s) = 0
  <2>0. Owes(CMD_FLASH_PAGE_ERASE, s) = 0
    BY <1>2, FlashPageEraseFlow DEF Once
  <2>1. Sends(CMD_FLASH_PAGE_ERASE, s) = IF s \in {1, 3, 5} THEN 1 ELSE 0
    BY <1>1, <1>2, <2>0 DEF Sends
  <2>2. Gets(CMD_FLASH_PAGE_ERASE, s) = IF s \in {2} THEN 3 ELSE IF s \in {4, 6} THEN 2 ELSE 0
    BY <1>1, <1>2, <1>5 DEF Gets
  <2>3. Pads(CMD_FLASH_PAGE_ERASE, s) = 0
    BY <1>1, <1>2, <1>5, <2>0 DEF Pads
  <2> QED  BY <2>1, <2>2, <2>3
<1>8. /\ HasSent(CMD_FLASH_PAGE_ERASE, s) = IF s \in {1} THEN 0 ELSE IF s \in {2, 3} THEN 1 ELSE IF s \in {4, 5} THEN 2 ELSE 3
      /\ HasSent(CMD_FLASH_PAGE_ERASE, s + 1) = IF s \in {1, 2} THEN 1 ELSE IF s \in {3, 4} THEN 2 ELSE 3
  BY <1>2, FlashPageEraseFlow DEF Once
<1>9. /\ Parameters(CMD_FLASH_PAGE_ERASE, s) = IF s \in {1, 2} THEN 0 ELSE IF s \in {3, 4} THEN 3 ELSE IF s \in {5, 6} THEN 5 ELSE 7
      /\ Parameters(CMD_FLASH_PAGE_ERASE, s + 1) = IF s \in {1} THEN 0 ELSE IF s \in {2, 3} THEN 3 ELSE IF s \in {4, 5} THEN 5 ELSE 7
  BY <1>2, FlashPageEraseFlow DEF Once
<1>10. /\ Owes(CMD_FLASH_PAGE_ERASE, s) = 0
       /\ Owes(CMD_FLASH_PAGE_ERASE, s + 1) = 0
  BY <1>2, FlashPageEraseFlow DEF Once
<1>11. OpMoves(CMD_FLASH_PAGE_ERASE, s)
  BY <1>2, <1>3, <1>7, <1>8, <1>9, <1>10 DEF OpMoves, HasGot
<1> QED  BY <1>4, <1>6, <1>11 DEF OpMeans

LEMMA EepromWriteEnableFlow ==
  ASSUME NEW s \in Nat
  PROVE  /\ HasSent(CMD_EEPROM_WR_EN, s) = Once(s > 1)
         /\ Parameters(CMD_EEPROM_WR_EN, s) = 0
         /\ Owes(CMD_EEPROM_WR_EN, s) = 0
<1>1. HasSent(CMD_EEPROM_WR_EN, s) = Once(s > 1)
  BY DEF HasSent
<1>2. Parameters(CMD_EEPROM_WR_EN, s) = 0
  BY DEF Parameters
<1>3. Owes(CMD_EEPROM_WR_EN, s) = 0
  BY DEF Owes
<1> QED  BY <1>1, <1>2, <1>3

LEMMA EepromWriteEnableMeans ==
  ASSUME NEW s \in 1 .. 4
  PROVE  OpMeans(CMD_EEPROM_WR_EN, s)
<1>1. /\ Handlers[CMD_EEPROM_WR_EN][1].op = "ack"
      /\ Handlers[CMD_EEPROM_WR_EN][2].op = "updi"
      /\ Handlers[CMD_EEPROM_WR_EN][3].op = "nvm"
      /\ Handlers[CMD_EEPROM_WR_EN][4].op = "ok"
  BY EepromWriteEnableOps DEF Ack, Nvm, Ok, Stored, Updi
<1>2. s \in {1, 2, 3, 4}
  OBVIOUS
<1>3. LastOp(CMD_EEPROM_WR_EN) = 4
  BY EepromWriteEnableOps
<1>4. OpPlaces(CMD_EEPROM_WR_EN, s)
  BY <1>1, <1>2, <1>3 DEF OpPlaces, Ops
<1>5. /\ Handlers[CMD_EEPROM_WR_EN][2].faults \subseteq Failures \cup {"masked"}
      /\ Handlers[CMD_EEPROM_WR_EN][3].on \in BOOLEAN
  BY EepromWriteEnableOps DEF Ack, Nvm, Ok, Stored, Updi, Failures
<1>6. OpFields(CMD_EEPROM_WR_EN, s)
  BY <1>1, <1>2, <1>5 DEF OpFields
<1>7. /\ Sends(CMD_EEPROM_WR_EN, s) = IF s \in {1} THEN 1 ELSE 0
      /\ Gets(CMD_EEPROM_WR_EN, s) = 0
      /\ Pads(CMD_EEPROM_WR_EN, s) = 0
  <2>0. Owes(CMD_EEPROM_WR_EN, s) = 0
    BY <1>2, EepromWriteEnableFlow DEF Once
  <2>1. Sends(CMD_EEPROM_WR_EN, s) = IF s \in {1} THEN 1 ELSE 0
    BY <1>1, <1>2, <2>0 DEF Sends
  <2>2. Gets(CMD_EEPROM_WR_EN, s) = 0
    BY <1>1, <1>2, <1>5 DEF Gets
  <2>3. Pads(CMD_EEPROM_WR_EN, s) = 0
    BY <1>1, <1>2, <1>5, <2>0 DEF Pads
  <2> QED  BY <2>1, <2>2, <2>3
<1>8. /\ HasSent(CMD_EEPROM_WR_EN, s) = IF s \in {1} THEN 0 ELSE 1
      /\ HasSent(CMD_EEPROM_WR_EN, s + 1) = 1
  BY <1>2, EepromWriteEnableFlow DEF Once
<1>9. /\ Parameters(CMD_EEPROM_WR_EN, s) = 0
      /\ Parameters(CMD_EEPROM_WR_EN, s + 1) = 0
  BY <1>2, EepromWriteEnableFlow DEF Once
<1>10. /\ Owes(CMD_EEPROM_WR_EN, s) = 0
       /\ Owes(CMD_EEPROM_WR_EN, s + 1) = 0
  BY <1>2, EepromWriteEnableFlow DEF Once
<1>11. OpMoves(CMD_EEPROM_WR_EN, s)
  BY <1>2, <1>3, <1>7, <1>8, <1>9, <1>10 DEF OpMoves, HasGot
<1> QED  BY <1>4, <1>6, <1>11 DEF OpMeans

LEMMA FlashWriteEnableFlow ==
  ASSUME NEW s \in Nat
  PROVE  /\ HasSent(CMD_FLASH_WR_EN, s) = Once(s > 1)
         /\ Parameters(CMD_FLASH_WR_EN, s) = 0
         /\ Owes(CMD_FLASH_WR_EN, s) = 0
<1>1. HasSent(CMD_FLASH_WR_EN, s) = Once(s > 1)
  BY DEF HasSent
<1>2. Parameters(CMD_FLASH_WR_EN, s) = 0
  BY DEF Parameters
<1>3. Owes(CMD_FLASH_WR_EN, s) = 0
  BY DEF Owes
<1> QED  BY <1>1, <1>2, <1>3

LEMMA FlashWriteEnableMeans ==
  ASSUME NEW s \in 1 .. 4
  PROVE  OpMeans(CMD_FLASH_WR_EN, s)
<1>1. /\ Handlers[CMD_FLASH_WR_EN][1].op = "ack"
      /\ Handlers[CMD_FLASH_WR_EN][2].op = "updi"
      /\ Handlers[CMD_FLASH_WR_EN][3].op = "nvm"
      /\ Handlers[CMD_FLASH_WR_EN][4].op = "ok"
  BY FlashWriteEnableOps DEF Ack, Nvm, Ok, Stored, Updi
<1>2. s \in {1, 2, 3, 4}
  OBVIOUS
<1>3. LastOp(CMD_FLASH_WR_EN) = 4
  BY FlashWriteEnableOps
<1>4. OpPlaces(CMD_FLASH_WR_EN, s)
  BY <1>1, <1>2, <1>3 DEF OpPlaces, Ops
<1>5. /\ Handlers[CMD_FLASH_WR_EN][2].faults \subseteq Failures \cup {"masked"}
      /\ Handlers[CMD_FLASH_WR_EN][3].on \in BOOLEAN
  BY FlashWriteEnableOps DEF Ack, Nvm, Ok, Stored, Updi, Failures
<1>6. OpFields(CMD_FLASH_WR_EN, s)
  BY <1>1, <1>2, <1>5 DEF OpFields
<1>7. /\ Sends(CMD_FLASH_WR_EN, s) = IF s \in {1} THEN 1 ELSE 0
      /\ Gets(CMD_FLASH_WR_EN, s) = 0
      /\ Pads(CMD_FLASH_WR_EN, s) = 0
  <2>0. Owes(CMD_FLASH_WR_EN, s) = 0
    BY <1>2, FlashWriteEnableFlow DEF Once
  <2>1. Sends(CMD_FLASH_WR_EN, s) = IF s \in {1} THEN 1 ELSE 0
    BY <1>1, <1>2, <2>0 DEF Sends
  <2>2. Gets(CMD_FLASH_WR_EN, s) = 0
    BY <1>1, <1>2, <1>5 DEF Gets
  <2>3. Pads(CMD_FLASH_WR_EN, s) = 0
    BY <1>1, <1>2, <1>5, <2>0 DEF Pads
  <2> QED  BY <2>1, <2>2, <2>3
<1>8. /\ HasSent(CMD_FLASH_WR_EN, s) = IF s \in {1} THEN 0 ELSE 1
      /\ HasSent(CMD_FLASH_WR_EN, s + 1) = 1
  BY <1>2, FlashWriteEnableFlow DEF Once
<1>9. /\ Parameters(CMD_FLASH_WR_EN, s) = 0
      /\ Parameters(CMD_FLASH_WR_EN, s + 1) = 0
  BY <1>2, FlashWriteEnableFlow DEF Once
<1>10. /\ Owes(CMD_FLASH_WR_EN, s) = 0
       /\ Owes(CMD_FLASH_WR_EN, s + 1) = 0
  BY <1>2, FlashWriteEnableFlow DEF Once
<1>11. OpMoves(CMD_FLASH_WR_EN, s)
  BY <1>2, <1>3, <1>7, <1>8, <1>9, <1>10 DEF OpMoves, HasGot
<1> QED  BY <1>4, <1>6, <1>11 DEF OpMeans

LEMMA NvmWriteDisableFlow ==
  ASSUME NEW s \in Nat
  PROVE  /\ HasSent(CMD_NVM_WR_DIS, s) = Once(s > 1)
         /\ Parameters(CMD_NVM_WR_DIS, s) = 0
         /\ Owes(CMD_NVM_WR_DIS, s) = 0
<1>1. HasSent(CMD_NVM_WR_DIS, s) = Once(s > 1)
  BY DEF HasSent
<1>2. Parameters(CMD_NVM_WR_DIS, s) = 0
  BY DEF Parameters
<1>3. Owes(CMD_NVM_WR_DIS, s) = 0
  BY DEF Owes
<1> QED  BY <1>1, <1>2, <1>3

LEMMA NvmWriteDisableMeans ==
  ASSUME NEW s \in 1 .. 4
  PROVE  OpMeans(CMD_NVM_WR_DIS, s)
<1>1. /\ Handlers[CMD_NVM_WR_DIS][1].op = "ack"
      /\ Handlers[CMD_NVM_WR_DIS][2].op = "updi"
      /\ Handlers[CMD_NVM_WR_DIS][3].op = "nvm"
      /\ Handlers[CMD_NVM_WR_DIS][4].op = "ok"
  BY NvmWriteDisableOps DEF Ack, Nvm, Ok, Stored, Updi
<1>2. s \in {1, 2, 3, 4}
  OBVIOUS
<1>3. LastOp(CMD_NVM_WR_DIS) = 4
  BY NvmWriteDisableOps
<1>4. OpPlaces(CMD_NVM_WR_DIS, s)
  BY <1>1, <1>2, <1>3 DEF OpPlaces, Ops
<1>5. /\ Handlers[CMD_NVM_WR_DIS][2].faults \subseteq Failures \cup {"masked"}
      /\ Handlers[CMD_NVM_WR_DIS][3].on \in BOOLEAN
  BY NvmWriteDisableOps DEF Ack, Nvm, Ok, Stored, Updi, Failures
<1>6. OpFields(CMD_NVM_WR_DIS, s)
  BY <1>1, <1>2, <1>5 DEF OpFields
<1>7. /\ Sends(CMD_NVM_WR_DIS, s) = IF s \in {1} THEN 1 ELSE 0
      /\ Gets(CMD_NVM_WR_DIS, s) = 0
      /\ Pads(CMD_NVM_WR_DIS, s) = 0
  <2>0. Owes(CMD_NVM_WR_DIS, s) = 0
    BY <1>2, NvmWriteDisableFlow DEF Once
  <2>1. Sends(CMD_NVM_WR_DIS, s) = IF s \in {1} THEN 1 ELSE 0
    BY <1>1, <1>2, <2>0 DEF Sends
  <2>2. Gets(CMD_NVM_WR_DIS, s) = 0
    BY <1>1, <1>2, <1>5 DEF Gets
  <2>3. Pads(CMD_NVM_WR_DIS, s) = 0
    BY <1>1, <1>2, <1>5, <2>0 DEF Pads
  <2> QED  BY <2>1, <2>2, <2>3
<1>8. /\ HasSent(CMD_NVM_WR_DIS, s) = IF s \in {1} THEN 0 ELSE 1
      /\ HasSent(CMD_NVM_WR_DIS, s + 1) = 1
  BY <1>2, NvmWriteDisableFlow DEF Once
<1>9. /\ Parameters(CMD_NVM_WR_DIS, s) = 0
      /\ Parameters(CMD_NVM_WR_DIS, s + 1) = 0
  BY <1>2, NvmWriteDisableFlow DEF Once
<1>10. /\ Owes(CMD_NVM_WR_DIS, s) = 0
       /\ Owes(CMD_NVM_WR_DIS, s + 1) = 0
  BY <1>2, NvmWriteDisableFlow DEF Once
<1>11. OpMoves(CMD_NVM_WR_DIS, s)
  BY <1>2, <1>3, <1>7, <1>8, <1>9, <1>10 DEF OpMoves, HasGot
<1> QED  BY <1>4, <1>6, <1>11 DEF OpMeans

LEMMA SetBaudFlow ==
  ASSUME NEW s \in Nat
  PROVE  /\ HasSent(CMD_SETBAUD, s) = Once(s > 1) + Once(s > 3) + Once(s > 5)
         /\ Parameters(CMD_SETBAUD, s) = 2 * Once(s > 2) + 2 * Once(s > 4)
         /\ Owes(CMD_SETBAUD, s) = 0
<1>1. HasSent(CMD_SETBAUD, s) = Once(s > 1) + Once(s > 3) + Once(s > 5)
  BY DEF HasSent
<1>2. Parameters(CMD_SETBAUD, s) = 2 * Once(s > 2) + 2 * Once(s > 4)
  BY DEF Parameters
<1>3. Owes(CMD_SETBAUD, s) = 0
  BY DEF Owes
<1> QED  BY <1>1, <1>2, <1>3

LEMMA SetBaudMeans ==
  ASSUME NEW s \in 1 .. 7
  PROVE  OpMeans(CMD_SETBAUD, s)
<1>1. /\ Handlers[CMD_SETBAUD][1].op = "ack"
      /\ Handlers[CMD_SETBAUD][2].op = "recv"
      /\ Handlers[CMD_SETBAUD][3].op = "ack"
      /\ Handlers[CMD_SETBAUD][4].op = "recv"
      /\ Handlers[CMD_SETBAUD][5].op = "ack"
      /\ Handlers[CMD_SETBAUD][6].op = "updi"
      /\ Handlers[CMD_SETBAUD][7].op = "ok"
  BY SetBaudOps DEF Ack, Ok, Recv, StatusB, Updi
<1>2. s \in {1, 2, 3, 4, 5, 6, 7}
  OBVIOUS
<1>3. LastOp(CMD_SETBAUD) = 7
  BY SetBaudOps
<1>4. OpPlaces(CMD_SETBAUD, s)
  BY <1>1, <1>2, <1>3 DEF OpPlaces, Ops
<1>5. /\ Handlers[CMD_SETBAUD][2].n = 2
      /\ Handlers[CMD_SETBAUD][4].n = 2
      /\ Handlers[CMD_SETBAUD][6].faults \subseteq Failures \cup {"masked"}
  BY SetBaudOps DEF Ack, Ok, Recv, StatusB, Updi, Failures
<1>6. OpFields(CMD_SETBAUD, s)
  BY <1>1, <1>2, <1>5 DEF OpFields
<1>7. /\ Sends(CMD_SETBAUD, s) = IF s \in {1, 3, 5} THEN 1 ELSE 0
      /\ Gets(CMD_SETBAUD, s) = IF s \in {2, 4} THEN 2 ELSE 0
      /\ Pads(CMD_SETBAUD, s) = 0
  <2>0. Owes(CMD_SETBAUD, s) = 0
    BY <1>2, SetBaudFlow DEF Once
  <2>1. Sends(CMD_SETBAUD, s) = IF s \in {1, 3, 5} THEN 1 ELSE 0
    BY <1>1, <1>2, <2>0 DEF Sends
  <2>2. Gets(CMD_SETBAUD, s) = IF s \in {2, 4} THEN 2 ELSE 0
    BY <1>1, <1>2, <1>5 DEF Gets
  <2>3. Pads(CMD_SETBAUD, s) = 0
    BY <1>1, <1>2, <1>5, <2>0 DEF Pads
  <2> QED  BY <2>1, <2>2, <2>3
<1>8. /\ HasSent(CMD_SETBAUD, s) = IF s \in {1} THEN 0 ELSE IF s \in {4, 5} THEN 2 ELSE IF s \in {6, 7} THEN 3 ELSE 1
      /\ HasSent(CMD_SETBAUD, s + 1) = IF s \in {1, 2} THEN 1 ELSE IF s \in {3, 4} THEN 2 ELSE 3
  BY <1>2, SetBaudFlow DEF Once
<1>9. /\ Parameters(CMD_SETBAUD, s) = IF s \in {1, 2} THEN 0 ELSE IF s \in {3, 4} THEN 2 ELSE 4
      /\ Parameters(CMD_SETBAUD, s + 1) = IF s \in {1} THEN 0 ELSE IF s \in {2, 3} THEN 2 ELSE 4
  BY <1>2, SetBaudFlow DEF Once
<1>10. /\ Owes(CMD_SETBAUD, s) = 0
       /\ Owes(CMD_SETBAUD, s + 1) = 0
  BY <1>2, SetBaudFlow DEF Once
<1>11. OpMoves(CMD_SETBAUD, s)
  BY <1>2, <1>3, <1>7, <1>8, <1>9, <1>10 DEF OpMoves, HasGot
<1> QED  BY <1>4, <1>6, <1>11 DEF OpMeans

LEMMA ChipEraseFlow ==
  ASSUME NEW s \in Nat
  PROVE  /\ HasSent(CMD_CHIPERASE, s) = Once(s > 1)
         /\ Parameters(CMD_CHIPERASE, s) = 0
         /\ Owes(CMD_CHIPERASE, s) = 0
<1>1. HasSent(CMD_CHIPERASE, s) = Once(s > 1)
  BY DEF HasSent
<1>2. Parameters(CMD_CHIPERASE, s) = 0
  BY DEF Parameters
<1>3. Owes(CMD_CHIPERASE, s) = 0
  BY DEF Owes
<1> QED  BY <1>1, <1>2, <1>3

LEMMA ChipEraseMeans ==
  ASSUME NEW s \in 1 .. 4
  PROVE  OpMeans(CMD_CHIPERASE, s)
<1>1. /\ Handlers[CMD_CHIPERASE][1].op = "ack"
      /\ Handlers[CMD_CHIPERASE][2].op = "updi"
      /\ Handlers[CMD_CHIPERASE][3].op = "slow"
      /\ Handlers[CMD_CHIPERASE][4].op = "ok"
  BY ChipEraseOps DEF Ack, Ok, Slow, Updi
<1>2. s \in {1, 2, 3, 4}
  OBVIOUS
<1>3. LastOp(CMD_CHIPERASE) = 4
  BY ChipEraseOps
<1>4. OpPlaces(CMD_CHIPERASE, s)
  BY <1>1, <1>2, <1>3 DEF OpPlaces, Ops
<1>5. /\ Handlers[CMD_CHIPERASE][2].faults \subseteq Failures \cup {"masked"}
      /\ Handlers[CMD_CHIPERASE][3].faults \subseteq Failures \cup {"masked"}
  BY ChipEraseOps DEF Ack, Ok, Slow, Updi, Failures
<1>6. OpFields(CMD_CHIPERASE, s)
  BY <1>1, <1>2, <1>5 DEF OpFields
<1>7. /\ Sends(CMD_CHIPERASE, s) = IF s \in {1} THEN 1 ELSE 0
      /\ Gets(CMD_CHIPERASE, s) = 0
      /\ Pads(CMD_CHIPERASE, s) = 0
  <2>0. Owes(CMD_CHIPERASE, s) = 0
    BY <1>2, ChipEraseFlow DEF Once
  <2>1. Sends(CMD_CHIPERASE, s) = IF s \in {1} THEN 1 ELSE 0
    BY <1>1, <1>2, <2>0 DEF Sends
  <2>2. Gets(CMD_CHIPERASE, s) = 0
    BY <1>1, <1>2, <1>5 DEF Gets
  <2>3. Pads(CMD_CHIPERASE, s) = 0
    BY <1>1, <1>2, <1>5, <2>0 DEF Pads
  <2> QED  BY <2>1, <2>2, <2>3
<1>8. /\ HasSent(CMD_CHIPERASE, s) = IF s \in {1} THEN 0 ELSE 1
      /\ HasSent(CMD_CHIPERASE, s + 1) = 1
  BY <1>2, ChipEraseFlow DEF Once
<1>9. /\ Parameters(CMD_CHIPERASE, s) = 0
      /\ Parameters(CMD_CHIPERASE, s + 1) = 0
  BY <1>2, ChipEraseFlow DEF Once
<1>10. /\ Owes(CMD_CHIPERASE, s) = 0
       /\ Owes(CMD_CHIPERASE, s + 1) = 0
  BY <1>2, ChipEraseFlow DEF Once
<1>11. OpMoves(CMD_CHIPERASE, s)
  BY <1>2, <1>3, <1>7, <1>8, <1>9, <1>10 DEF OpMoves, HasGot
<1> QED  BY <1>4, <1>6, <1>11 DEF OpMeans

LEMMA ResetTargetFlow ==
  ASSUME NEW s \in Nat
  PROVE  /\ HasSent(CMD_RESETTGT, s) = Once(s > 1)
         /\ Parameters(CMD_RESETTGT, s) = 0
         /\ Owes(CMD_RESETTGT, s) = 0
<1>1. HasSent(CMD_RESETTGT, s) = Once(s > 1)
  BY DEF HasSent
<1>2. Parameters(CMD_RESETTGT, s) = 0
  BY DEF Parameters
<1>3. Owes(CMD_RESETTGT, s) = 0
  BY DEF Owes
<1> QED  BY <1>1, <1>2, <1>3

LEMMA ResetTargetMeans ==
  ASSUME NEW s \in 1 .. 4
  PROVE  OpMeans(CMD_RESETTGT, s)
<1>1. /\ Handlers[CMD_RESETTGT][1].op = "ack"
      /\ Handlers[CMD_RESETTGT][2].op = "slow"
      /\ Handlers[CMD_RESETTGT][3].op = "updi"
      /\ Handlers[CMD_RESETTGT][4].op = "ok"
  BY ResetTargetOps DEF Ack, Ok, Slow, StatusB, Updi
<1>2. s \in {1, 2, 3, 4}
  OBVIOUS
<1>3. LastOp(CMD_RESETTGT) = 4
  BY ResetTargetOps
<1>4. OpPlaces(CMD_RESETTGT, s)
  BY <1>1, <1>2, <1>3 DEF OpPlaces, Ops
<1>5. /\ Handlers[CMD_RESETTGT][2].faults \subseteq Failures \cup {"masked"}
      /\ Handlers[CMD_RESETTGT][3].faults \subseteq Failures \cup {"masked"}
  BY ResetTargetOps DEF Ack, Ok, Slow, StatusB, Updi, Failures
<1>6. OpFields(CMD_RESETTGT, s)
  BY <1>1, <1>2, <1>5 DEF OpFields
<1>7. /\ Sends(CMD_RESETTGT, s) = IF s \in {1} THEN 1 ELSE 0
      /\ Gets(CMD_RESETTGT, s) = 0
      /\ Pads(CMD_RESETTGT, s) = 0
  <2>0. Owes(CMD_RESETTGT, s) = 0
    BY <1>2, ResetTargetFlow DEF Once
  <2>1. Sends(CMD_RESETTGT, s) = IF s \in {1} THEN 1 ELSE 0
    BY <1>1, <1>2, <2>0 DEF Sends
  <2>2. Gets(CMD_RESETTGT, s) = 0
    BY <1>1, <1>2, <1>5 DEF Gets
  <2>3. Pads(CMD_RESETTGT, s) = 0
    BY <1>1, <1>2, <1>5, <2>0 DEF Pads
  <2> QED  BY <2>1, <2>2, <2>3
<1>8. /\ HasSent(CMD_RESETTGT, s) = IF s \in {1} THEN 0 ELSE 1
      /\ HasSent(CMD_RESETTGT, s + 1) = 1
  BY <1>2, ResetTargetFlow DEF Once
<1>9. /\ Parameters(CMD_RESETTGT, s) = 0
      /\ Parameters(CMD_RESETTGT, s + 1) = 0
  BY <1>2, ResetTargetFlow DEF Once
<1>10. /\ Owes(CMD_RESETTGT, s) = 0
       /\ Owes(CMD_RESETTGT, s + 1) = 0
  BY <1>2, ResetTargetFlow DEF Once
<1>11. OpMoves(CMD_RESETTGT, s)
  BY <1>2, <1>3, <1>7, <1>8, <1>9, <1>10 DEF OpMoves, HasGot
<1> QED  BY <1>4, <1>6, <1>11 DEF OpMeans

LEMMA OpsMean == \A cmd \in Commands : \A s \in DOMAIN Handlers[cmd] : OpMeans(cmd, s)
BY StartOps, StartMeans,
   StopOps, StopMeans,
   SendBlockOps, SendBlockMeans,
   GetBlockOps, GetBlockMeans,
   GetByteOps, GetByteMeans,
   SendByteOps, SendByteMeans,
   SetAddrOps, SetAddrMeans,
   FlashPageEraseOps, FlashPageEraseMeans,
   EepromWriteEnableOps, EepromWriteEnableMeans,
   FlashWriteEnableOps, FlashWriteEnableMeans,
   NvmWriteDisableOps, NvmWriteDisableMeans,
   SetBaudOps, SetBaudMeans,
   ChipEraseOps, ChipEraseMeans,
   ResetTargetOps, ResetTargetMeans
   DEF Commands

-------------------------------------------------------------------------------
(* Types *)

Bytes == 0 .. 255

Sending == [val : Bytes, cmd : BOOLEAN]

LinkTypes ==
  /\ toProg \in Seq(Sending) /\ toHost \in Seq(Bytes)
  /\ portOpen \in BOOLEAN /\ faults \in 0 .. MaxFaults

HostTypes ==
  /\ host \in [job : Jobs \cup {<< >>}, pos : Nat, at : Nat, tries : 0 .. StartAttempts - 1,
               clean : BOOLEAN, fooled : BOOLEAN, skipped : BOOLEAN]
  /\ InSession => /\ host.job \in Jobs /\ host.pos \in DOMAIN host.job
                  /\ host.at \in DOMAIN Steps(Current)

FwShape == [loop : {"main", "cmd"}, cmd : Commands \cup {CMD_NONE}, step : Nat,
            args : Seq(Bytes), left : 0 .. MaxSize, seg : 0 .. Segment,
            toSend : 0 .. MaxSize + 3, open : BOOLEAN, nvmWrite : BOOLEAN,
            sigAddr : BOOLEAN, answered : Commands \cup {CMD_NONE},
            masked : BOOLEAN, astray : BOOLEAN]

FwAlone == FwTypes /\ FwOwes /\ FwHolds

Types == LinkTypes /\ HostTypes /\ FwAlone

LEMMA Sizes ==
  /\ Segment \in Nat /\ Segment > 0 /\ MaxSize \in Nat /\ Largest \in Nat /\ Largest <= MaxSize
  /\ Stray <= MaxSize /\ Stray \in Nat /\ Largest < 65536
  /\ PacketSize = Segment
BY SegmentAssumption, SizesAssumption, SameSegments DEF MaxSize

\* A handler begins with nothing sent and only its command received
LEMMA CommandBegins ==
  ASSUME NEW cmd \in Commands
  PROVE  /\ LastOp(cmd) \in Nat /\ LastOp(cmd) >= 3 /\ DOMAIN Handlers[cmd] = 1 .. LastOp(cmd)
         /\ HasSent(cmd, 1) = 0 /\ HasGot(cmd, 1) = 1 /\ Owes(cmd, 1) = 0
         /\ cmd \in Bytes
<1>1. /\ LastOp(cmd) \in Nat /\ LastOp(cmd) >= 3 /\ DOMAIN Handlers[cmd] = 1 .. LastOp(cmd)
  <2> DEFINE Sized(c) == LastOp(c) \in Nat /\ LastOp(c) >= 3 /\ DOMAIN Handlers[c] = 1 .. LastOp(c)
  <2>1. Sized(CMD_START)  BY StartOps
  <2>2. Sized(CMD_STOP)  BY StopOps
  <2>3. Sized(CMD_SENDBLOCK)  BY SendBlockOps
  <2>4. Sized(CMD_GETBLOCK)  BY GetBlockOps
  <2>5. Sized(CMD_GETBYTE)  BY GetByteOps
  <2>6. Sized(CMD_SENDBYTE)  BY SendByteOps
  <2>7. Sized(CMD_SETADDR)  BY SetAddrOps
  <2>8. Sized(CMD_FLASH_PAGE_ERASE)  BY FlashPageEraseOps
  <2>9. Sized(CMD_EEPROM_WR_EN)  BY EepromWriteEnableOps
  <2>10. Sized(CMD_FLASH_WR_EN)  BY FlashWriteEnableOps
  <2>11. Sized(CMD_NVM_WR_DIS)  BY NvmWriteDisableOps
  <2>12. Sized(CMD_SETBAUD)  BY SetBaudOps
  <2>13. Sized(CMD_CHIPERASE)  BY ChipEraseOps
  <2>14. Sized(CMD_RESETTGT)  BY ResetTargetOps
  <2> HIDE DEF Sized
  <2>15. Sized(cmd)
    BY <2>1, <2>2, <2>3, <2>4, <2>5, <2>6, <2>7, <2>8, <2>9, <2>10, <2>11, <2>12, <2>13, <2>14 DEF Commands
  <2> QED  BY <2>15 DEF Sized
<1>2. HasSent(cmd, 1) = 0
  BY DEF HasSent, Once
<1>3. Parameters(cmd, 1) = 0
  BY DEF Parameters, Once
<1>4. Owes(cmd, 1) = 0
  BY DEF Owes, Once
<1>5. cmd \in Bytes
  BY DEF Commands, Bytes
<1> QED  BY <1>1, <1>2, <1>3, <1>4, <1>5 DEF HasGot

\* What the step a handler has reached may be
LEMMA AtStep ==
  ASSUME FwTypes, Running
  PROVE  /\ fw.cmd \in Commands /\ fw.step \in Nat /\ fw.step >= 1
         /\ fw.step <= LastOp(fw.cmd) /\ LastOp(fw.cmd) \in Nat
         /\ fw.step \in DOMAIN Handlers[fw.cmd]
         /\ OpMeans(fw.cmd, fw.step)
         /\ Step.op # "ok" => fw.step + 1 \in DOMAIN Handlers[fw.cmd]
<1>1. fw.cmd \in Commands /\ fw.step \in DOMAIN Handlers[fw.cmd]
  BY DEF FwTypes
<1>2. OpMeans(fw.cmd, fw.step)
  BY <1>1, OpsMean
<1>3. LastOp(fw.cmd) \in Nat /\ DOMAIN Handlers[fw.cmd] = 1 .. LastOp(fw.cmd)
  BY <1>1, CommandBegins
<1>4. Step.op # "ok" => fw.step # LastOp(fw.cmd)
  BY <1>2 DEF OpMeans, OpPlaces, Step
<1> QED  BY <1>1, <1>2, <1>3, <1>4

LEMMA Shape == FwTypes <=> fw \in FwShape /\ (Running => /\ fw.cmd \in Commands
                                                       /\ fw.step \in DOMAIN Handlers[fw.cmd])
BY DEF FwTypes, FwShape, Bytes

LEMMA ReplyTypes ==
  ASSUME LinkTypes, NEW bytes \in Seq(Bytes), Reply(bytes), UNCHANGED portOpen
  PROVE  toHost' \in Seq(Bytes)
BY DEF LinkTypes, Reply

LEMMA TailTypes ==
  ASSUME LinkTypes, toProg # << >>
  PROVE  /\ Tail(toProg) \in Seq(Sending) /\ Head(toProg) \in Sending
         /\ Head(toProg).val \in Bytes /\ Head(toProg) = toProg[1]
         /\ Len(Tail(toProg)) = Len(toProg) - 1 /\ Len(toProg) \in Nat /\ Len(toProg) > 0
<1>1. toProg \in Seq(Sending)
  BY DEF LinkTypes
<1>2. /\ Tail(toProg) \in Seq(Sending) /\ Head(toProg) \in Sending /\ Head(toProg) = toProg[1]
      /\ Len(Tail(toProg)) = Len(toProg) - 1 /\ Len(toProg) \in Nat /\ Len(toProg) > 0
  BY <1>1
<1> QED  BY <1>2 DEF Sending

\* A handler goes on to its next step
LEMMA GoesToNext ==
  ASSUME FwAlone, Running, Step.op # "ok", fw' \in FwShape,
         fw'.cmd = fw.cmd, fw'.step = fw.step + 1, fw'.args = << >>, fw'.seg = 0,
         \/ fw'.toSend = Pads(fw.cmd, fw.step)
         \/ fw.cmd = CMD_GETBLOCK /\ fw.step \in {2, 3} /\ fw'.toSend <= MaxSize,
         fw'.left # 0 => \/ fw.cmd = CMD_SENDBLOCK /\ fw.step = 2
                         \/ fw.cmd = CMD_FLASH_PAGE_ERASE /\ fw.step \in 4 .. 7
  PROVE  FwAlone'
<1>1. FwTypes
  BY DEF FwAlone
<1>2. /\ fw.cmd \in Commands /\ fw.step \in Nat /\ fw.step >= 1
      /\ fw.step + 1 \in DOMAIN Handlers[fw.cmd] /\ OpMeans(fw.cmd, fw.step)
      /\ fw.step # LastOp(fw.cmd)
  BY <1>1, AtStep DEF OpMeans, OpPlaces, Step
<1>3. Running'
  BY <1>2 DEF Running
<1>4. FwTypes'
  BY <1>2, Shape DEF FwShape, FwTypes, Bytes
<1>5. Pads(fw.cmd, fw.step) = Owes(fw.cmd, fw.step + 1)
  BY <1>2 DEF OpMeans, OpMoves
<1>6. FwOwes'
  BY <1>2, <1>3, <1>5 DEF FwOwes
<1>7. FwHolds'
  <2>1. fw.cmd = CMD_SENDBLOCK => Handlers[fw.cmd][3] = Packets
    BY SendBlockOps
  <2>2. fw.cmd = CMD_SENDBLOCK /\ fw.step = 2 => At("packets")'
    BY <1>3, <2>1, OpFacts DEF At, Step
  <2> QED  BY <1>2, <1>3, <2>2 DEF FwHolds
<1> QED  BY <1>4, <1>6, <1>7 DEF FwAlone

\* A handler stays where it is
LEMMA StaysThere ==
  ASSUME FwAlone, Running, fw' \in FwShape, fw'.cmd = fw.cmd, fw'.step = fw.step,
         fw'.args # << >> => \/ At("recv") /\ Len(fw'.args) < Step.n
                             \/ At("size") /\ Len(fw'.args) = 1,
         \/ fw'.toSend = fw.toSend
         \/ At("stream") /\ fw'.toSend <= MaxSize,
         fw'.left # 0 => \/ At("packets")
                         \/ fw.cmd = CMD_FLASH_PAGE_ERASE /\ fw.step \in 5 .. 8,
         fw'.seg # 0 => At("packets")
  PROVE  FwAlone'
<1>1. FwTypes
  BY DEF FwAlone
<1>2. /\ fw.cmd \in Commands /\ fw.step \in DOMAIN Handlers[fw.cmd]
      /\ OpMeans(fw.cmd, fw.step)
  BY <1>1, AtStep
<1>3. Running' /\ Step' = Step
  BY DEF Running, Step
<1>4. FwTypes'
  BY <1>2, Shape DEF FwShape, FwTypes, Bytes
<1>5. At("stream") => fw.cmd = CMD_GETBLOCK /\ fw.step = 4
  BY <1>2 DEF OpMeans, OpPlaces, At, Step
<1>6. FwOwes'
  BY <1>3, <1>5 DEF FwOwes, FwAlone
<1>7. FwHolds'
  BY <1>3 DEF FwHolds, At
<1> QED  BY <1>4, <1>6, <1>7 DEF FwAlone

\* Back in one of the loops nothing is left over
LEMMA ComesToRest ==
  ASSUME fw' \in FwShape, fw'.step = 0, fw'.toSend = 0, fw'.args = << >>, fw'.left = 0,
         fw'.seg = 0
  PROVE  FwAlone'
BY DEF FwShape, FwTypes, FwOwes, FwHolds, FwAlone, Running, Bytes

LEMMA FaultTypes ==
  ASSUME LinkTypes, NEW kind, Fault(kind)
  PROVE  faults' \in 0 .. MaxFaults
BY MaxFaultsAssumption DEF LinkTypes, Fault

LEMMA RepliesAreBytes ==
  ASSUME NEW kind \in Failures
  PROVE  ReplyFor[kind] \in Bytes /\ ReplyFor[kind] \in FailureReplies
BY DEF Failures, ReplyFor, Bytes, FailureReplies

-------------------------------------------------------------------------------
(* What the steps of the firmware do *)

\* fw' is fw with some fields changed
Updated == fw' = [x \in DOMAIN fw' |-> fw'[x]] /\ DOMAIN fw' = DOMAIN fw

LEMMA Reshaped ==
  ASSUME fw \in FwShape, Updated,
         fw'.loop \in {"main", "cmd"}, fw'.cmd \in Commands \cup {CMD_NONE}, fw'.step \in Nat,
         fw'.args \in Seq(Bytes), fw'.left \in 0 .. MaxSize, fw'.seg \in 0 .. Segment,
         fw'.toSend \in 0 .. MaxSize + 3, fw'.open \in BOOLEAN, fw'.nvmWrite \in BOOLEAN,
         fw'.sigAddr \in BOOLEAN, fw'.answered \in Commands \cup {CMD_NONE},
         fw'.masked \in BOOLEAN, fw'.astray \in BOOLEAN
  PROVE  fw' \in FwShape
BY DEF FwShape, Updated

\* The handler is now at step s, with these parameters and counts
Effect(s, args, left, seg, owed) ==
  /\ fw' \in FwShape
  /\ fw'.step = s /\ fw'.args = args /\ fw'.left = left /\ fw'.seg = seg /\ fw'.toSend = owed
  /\ fw'.cmd = fw.cmd /\ fw'.open = fw.open /\ fw'.loop = fw.loop
  /\ fw'.answered = fw.answered /\ fw'.astray = fw.astray

\* The handler was left for one of the loops
Left ==
  /\ fw' \in FwShape /\ fw'.step = 0 /\ fw'.toSend = 0 /\ fw'.left = 0 /\ fw'.seg = 0
  /\ fw'.args = << >> /\ (fw.open => fw'.loop = "cmd")
  /\ fw'.cmd = fw.cmd /\ fw'.open = fw.open
  /\ fw'.answered = fw.answered /\ fw'.astray = fw.astray

LEMMA Leaves ==
  ASSUME fw \in FwShape, NEW reply, Leave(reply)
  PROVE  Left
<1> DEFINE loop == IF reply = REPL_TIMEOUT /\ ~fw.open THEN "main" ELSE "cmd"
<1>1. fw' = [fw EXCEPT !.step = 0, !.toSend = 0, !.left = 0, !.seg = 0, !.args = << >>,
                       !.loop = loop]
  BY DEF Leave
<1>2. loop \in {"main", "cmd"} /\ (fw.open => loop = "cmd")
  OBVIOUS
<1> HIDE DEF loop
<1>3. 0 \in 0 .. MaxSize /\ 0 \in 0 .. MaxSize + 3 /\ 0 \in 0 .. Segment
  BY Sizes
<1>4. Updated
  <2>1. fw' = [x \in DOMAIN fw' |-> fw'[x]]
    BY <1>1, Zenon
  <2>2. DOMAIN fw' = DOMAIN fw
    BY <1>1 DEF FwShape
  <2> QED  BY <2>1, <2>2 DEF Updated
<1>5. /\ fw'.step = 0 /\ fw'.toSend = 0 /\ fw'.left = 0 /\ fw'.seg = 0
      /\ fw'.args = << >> /\ fw'.loop = loop
      /\ fw'.cmd = fw.cmd /\ fw'.open = fw.open
      /\ fw'.answered = fw.answered /\ fw'.astray = fw.astray
      /\ fw'.nvmWrite = fw.nvmWrite /\ fw'.sigAddr = fw.sigAddr /\ fw'.masked = fw.masked
  BY <1>1 DEF FwShape
<1>6. /\ fw.cmd \in Commands \cup {CMD_NONE} /\ fw.open \in BOOLEAN /\ fw.nvmWrite \in BOOLEAN
      /\ fw.sigAddr \in BOOLEAN /\ fw.answered \in Commands \cup {CMD_NONE}
      /\ fw.masked \in BOOLEAN /\ fw.astray \in BOOLEAN
  BY DEF FwShape
<1>7. fw' \in FwShape
  BY <1>2, <1>3, <1>4, <1>5, <1>6, Reshaped
<1> QED  BY <1>2, <1>5, <1>7 DEF Left

LEMMA Effects ==
  ASSUME fw \in FwShape, Updated,
         NEW s \in Nat, NEW args \in Seq(Bytes), NEW left \in 0 .. MaxSize,
         NEW seg \in 0 .. Segment, NEW owed \in 0 .. MaxSize + 3,
         fw'.step = s, fw'.args = args, fw'.left = left, fw'.seg = seg, fw'.toSend = owed,
         fw'.cmd = fw.cmd, fw'.open = fw.open, fw'.loop = fw.loop,
         fw'.answered = fw.answered, fw'.astray = fw.astray,
         fw'.nvmWrite \in BOOLEAN, fw'.sigAddr \in BOOLEAN, fw'.masked \in BOOLEAN
  PROVE  Effect(s, args, left, seg, owed)
<1>1. /\ fw.cmd \in Commands \cup {CMD_NONE} /\ fw.open \in BOOLEAN
      /\ fw.loop \in {"main", "cmd"} /\ fw.answered \in Commands \cup {CMD_NONE}
      /\ fw.astray \in BOOLEAN
  BY DEF FwShape
<1>2. fw' \in FwShape
  BY <1>1, Reshaped
<1> QED  BY <1>2 DEF Effect

LEMMA Fields ==
  ASSUME fw \in FwShape
  PROVE  /\ fw.step \in Nat /\ fw.step + 1 \in Nat /\ fw.args \in Seq(Bytes) /\ fw.left \in 0 .. MaxSize
         /\ fw.seg \in 0 .. Segment /\ fw.toSend \in 0 .. MaxSize + 3
         /\ fw.left \in Nat /\ fw.seg \in Nat /\ fw.toSend \in Nat
         /\ fw.nvmWrite \in BOOLEAN /\ fw.sigAddr \in BOOLEAN /\ fw.masked \in BOOLEAN
         /\ fw.open \in BOOLEAN /\ fw.astray \in BOOLEAN
         /\ fw.cmd \in Commands \cup {CMD_NONE} /\ fw.answered \in Commands \cup {CMD_NONE}
         /\ << >> \in Seq(Bytes) /\ 0 \in 0 .. MaxSize /\ 0 \in 0 .. MaxSize + 3 /\ 0 \in 0 .. Segment
BY Sizes DEF FwShape

LEMMA Advances ==
  ASSUME fw \in FwShape,
         fw' = Advance
  PROVE  Effect(fw.step + 1, fw.args, fw.left, fw.seg, fw.toSend)
<1>1. Updated
  <2>1. fw' = [x \in DOMAIN fw' |-> fw'[x]]
    BY Zenon DEF Advance, Goto
  <2>2. DOMAIN fw' = DOMAIN fw
    BY DEF FwShape, Advance, Goto
  <2> QED  BY <2>1, <2>2 DEF Updated
<1>2. /\ fw'.step = fw.step + 1 /\ fw'.args = fw.args /\ fw'.left = fw.left
      /\ fw'.seg = fw.seg /\ fw'.toSend = fw.toSend
      /\ fw'.cmd = fw.cmd /\ fw'.open = fw.open /\ fw'.loop = fw.loop
      /\ fw'.answered = fw.answered /\ fw'.astray = fw.astray
      /\ fw'.nvmWrite = fw.nvmWrite /\ fw'.sigAddr = fw.sigAddr /\ fw'.masked = fw.masked
  BY DEF FwShape, Advance, Goto
<1> QED  BY <1>1, <1>2, Fields, Effects

LEMMA AdvancesMasked ==
  ASSUME fw \in FwShape,
         fw' = [Advance EXCEPT !.masked = TRUE]
  PROVE  Effect(fw.step + 1, fw.args, fw.left, fw.seg, fw.toSend)
<1>1. Updated
  <2>1. fw' = [x \in DOMAIN fw' |-> fw'[x]]
    BY Zenon DEF Advance, Goto
  <2>2. DOMAIN fw' = DOMAIN fw
    BY DEF FwShape, Advance, Goto
  <2> QED  BY <2>1, <2>2 DEF Updated
<1>2. /\ fw'.step = fw.step + 1 /\ fw'.args = fw.args /\ fw'.left = fw.left
      /\ fw'.seg = fw.seg /\ fw'.toSend = fw.toSend
      /\ fw'.cmd = fw.cmd /\ fw'.open = fw.open /\ fw'.loop = fw.loop
      /\ fw'.answered = fw.answered /\ fw'.astray = fw.astray
      /\ fw'.nvmWrite = fw.nvmWrite /\ fw'.sigAddr = fw.sigAddr /\ fw'.masked = TRUE
  BY DEF FwShape, Advance, Goto
<1> QED  BY <1>1, <1>2, Fields, Effects

LEMMA AdvancesWriting ==
  ASSUME fw \in FwShape, NEW b \in BOOLEAN,
         fw' = [Advance EXCEPT !.nvmWrite = b]
  PROVE  Effect(fw.step + 1, fw.args, fw.left, fw.seg, fw.toSend)
<1>1. Updated
  <2>1. fw' = [x \in DOMAIN fw' |-> fw'[x]]
    BY Zenon DEF Advance, Goto
  <2>2. DOMAIN fw' = DOMAIN fw
    BY DEF FwShape, Advance, Goto
  <2> QED  BY <2>1, <2>2 DEF Updated
<1>2. /\ fw'.step = fw.step + 1 /\ fw'.args = fw.args /\ fw'.left = fw.left
      /\ fw'.seg = fw.seg /\ fw'.toSend = fw.toSend
      /\ fw'.cmd = fw.cmd /\ fw'.open = fw.open /\ fw'.loop = fw.loop
      /\ fw'.answered = fw.answered /\ fw'.astray = fw.astray
      /\ fw'.nvmWrite = b /\ fw'.sigAddr = fw.sigAddr /\ fw'.masked = fw.masked
  BY DEF FwShape, Advance, Goto
<1> QED  BY <1>1, <1>2, Fields, Effects

LEMMA AdvancesPadding ==
  ASSUME fw \in FwShape, NEW n \in 0 .. MaxSize + 3,
         fw' = [Advance EXCEPT !.toSend = n]
  PROVE  Effect(fw.step + 1, fw.args, fw.left, fw.seg, n)
<1>1. Updated
  <2>1. fw' = [x \in DOMAIN fw' |-> fw'[x]]
    BY Zenon DEF Advance, Goto
  <2>2. DOMAIN fw' = DOMAIN fw
    BY DEF FwShape, Advance, Goto
  <2> QED  BY <2>1, <2>2 DEF Updated
<1>2. /\ fw'.step = fw.step + 1 /\ fw'.args = fw.args /\ fw'.left = fw.left
      /\ fw'.seg = fw.seg /\ fw'.toSend = n
      /\ fw'.cmd = fw.cmd /\ fw'.open = fw.open /\ fw'.loop = fw.loop
      /\ fw'.answered = fw.answered /\ fw'.astray = fw.astray
      /\ fw'.nvmWrite = fw.nvmWrite /\ fw'.sigAddr = fw.sigAddr /\ fw'.masked = fw.masked
  BY DEF FwShape, Advance, Goto
<1> QED  BY <1>1, <1>2, Fields, Effects

LEMMA TakesArgument ==
  ASSUME fw \in FwShape, NEW args \in Seq(Bytes),
         fw' = [fw EXCEPT !.args = args]
  PROVE  Effect(fw.step, args, fw.left, fw.seg, fw.toSend)
<1>1. Updated
  <2>1. fw' = [x \in DOMAIN fw' |-> fw'[x]]
    BY Zenon
  <2>2. DOMAIN fw' = DOMAIN fw
    BY DEF FwShape
  <2> QED  BY <2>1, <2>2 DEF Updated
<1>2. /\ fw'.step = fw.step /\ fw'.args = args /\ fw'.left = fw.left
      /\ fw'.seg = fw.seg /\ fw'.toSend = fw.toSend
      /\ fw'.cmd = fw.cmd /\ fw'.open = fw.open /\ fw'.loop = fw.loop
      /\ fw'.answered = fw.answered /\ fw'.astray = fw.astray
      /\ fw'.nvmWrite = fw.nvmWrite /\ fw'.sigAddr = fw.sigAddr /\ fw'.masked = fw.masked
  BY DEF FwShape
<1> QED  BY <1>1, <1>2, Fields, Effects

LEMMA TakesArguments ==
  ASSUME fw \in FwShape, NEW args \in Seq(Bytes), NEW is \in BOOLEAN,
         fw' = [Advance EXCEPT !.args = args, !.sigAddr = is]
  PROVE  Effect(fw.step + 1, args, fw.left, fw.seg, fw.toSend)
<1>1. Updated
  <2>1. fw' = [x \in DOMAIN fw' |-> fw'[x]]
    BY Zenon DEF Advance, Goto
  <2>2. DOMAIN fw' = DOMAIN fw
    BY DEF FwShape, Advance, Goto
  <2> QED  BY <2>1, <2>2 DEF Updated
<1>2. /\ fw'.step = fw.step + 1 /\ fw'.args = args /\ fw'.left = fw.left
      /\ fw'.seg = fw.seg /\ fw'.toSend = fw.toSend
      /\ fw'.cmd = fw.cmd /\ fw'.open = fw.open /\ fw'.loop = fw.loop
      /\ fw'.answered = fw.answered /\ fw'.astray = fw.astray
      /\ fw'.nvmWrite = fw.nvmWrite /\ fw'.sigAddr = is /\ fw'.masked = fw.masked
  BY DEF FwShape, Advance, Goto
<1> QED  BY <1>1, <1>2, Fields, Effects

LEMMA TakesSize ==
  ASSUME fw \in FwShape, NEW args \in Seq(Bytes), NEW l \in 0 .. MaxSize, NEW n \in 0 .. MaxSize + 3,
         fw' = [Advance EXCEPT !.args = args, !.left = l, !.toSend = n]
  PROVE  Effect(fw.step + 1, args, l, fw.seg, n)
<1>1. Updated
  <2>1. fw' = [x \in DOMAIN fw' |-> fw'[x]]
    BY Zenon DEF Advance, Goto
  <2>2. DOMAIN fw' = DOMAIN fw
    BY DEF FwShape, Advance, Goto
  <2> QED  BY <2>1, <2>2 DEF Updated
<1>2. /\ fw'.step = fw.step + 1 /\ fw'.args = args /\ fw'.left = l
      /\ fw'.seg = fw.seg /\ fw'.toSend = n
      /\ fw'.cmd = fw.cmd /\ fw'.open = fw.open /\ fw'.loop = fw.loop
      /\ fw'.answered = fw.answered /\ fw'.astray = fw.astray
      /\ fw'.nvmWrite = fw.nvmWrite /\ fw'.sigAddr = fw.sigAddr /\ fw'.masked = fw.masked
  BY DEF FwShape, Advance, Goto
<1> QED  BY <1>1, <1>2, Fields, Effects

LEMMA CountsDown ==
  ASSUME fw \in FwShape, NEW n \in 0 .. MaxSize + 3,
         fw' = [fw EXCEPT !.toSend = n]
  PROVE  Effect(fw.step, fw.args, fw.left, fw.seg, n)
<1>1. Updated
  <2>1. fw' = [x \in DOMAIN fw' |-> fw'[x]]
    BY Zenon
  <2>2. DOMAIN fw' = DOMAIN fw
    BY DEF FwShape
  <2> QED  BY <2>1, <2>2 DEF Updated
<1>2. /\ fw'.step = fw.step /\ fw'.args = fw.args /\ fw'.left = fw.left
      /\ fw'.seg = fw.seg /\ fw'.toSend = n
      /\ fw'.cmd = fw.cmd /\ fw'.open = fw.open /\ fw'.loop = fw.loop
      /\ fw'.answered = fw.answered /\ fw'.astray = fw.astray
      /\ fw'.nvmWrite = fw.nvmWrite /\ fw'.sigAddr = fw.sigAddr /\ fw'.masked = fw.masked
  BY DEF FwShape
<1> QED  BY <1>1, <1>2, Fields, Effects

LEMMA Asking ==
  ASSUME fw \in FwShape, NEW n \in 0 .. Segment, NEW l \in 0 .. MaxSize,
         fw' = [fw EXCEPT !.seg = n, !.left = l]
  PROVE  Effect(fw.step, fw.args, l, n, fw.toSend)
<1>1. Updated
  <2>1. fw' = [x \in DOMAIN fw' |-> fw'[x]]
    BY Zenon
  <2>2. DOMAIN fw' = DOMAIN fw
    BY DEF FwShape
  <2> QED  BY <2>1, <2>2 DEF Updated
<1>2. /\ fw'.step = fw.step /\ fw'.args = fw.args /\ fw'.left = l
      /\ fw'.seg = n /\ fw'.toSend = fw.toSend
      /\ fw'.cmd = fw.cmd /\ fw'.open = fw.open /\ fw'.loop = fw.loop
      /\ fw'.answered = fw.answered /\ fw'.astray = fw.astray
      /\ fw'.nvmWrite = fw.nvmWrite /\ fw'.sigAddr = fw.sigAddr /\ fw'.masked = fw.masked
  BY DEF FwShape
<1> QED  BY <1>1, <1>2, Fields, Effects

LEMMA Forwards ==
  ASSUME fw \in FwShape, NEW n \in 0 .. Segment,
         fw' = [fw EXCEPT !.seg = n]
  PROVE  Effect(fw.step, fw.args, fw.left, n, fw.toSend)
<1>1. Updated
  <2>1. fw' = [x \in DOMAIN fw' |-> fw'[x]]
    BY Zenon
  <2>2. DOMAIN fw' = DOMAIN fw
    BY DEF FwShape
  <2> QED  BY <2>1, <2>2 DEF Updated
<1>2. /\ fw'.step = fw.step /\ fw'.args = fw.args /\ fw'.left = fw.left
      /\ fw'.seg = n /\ fw'.toSend = fw.toSend
      /\ fw'.cmd = fw.cmd /\ fw'.open = fw.open /\ fw'.loop = fw.loop
      /\ fw'.answered = fw.answered /\ fw'.astray = fw.astray
      /\ fw'.nvmWrite = fw.nvmWrite /\ fw'.sigAddr = fw.sigAddr /\ fw'.masked = fw.masked
  BY DEF FwShape
<1> QED  BY <1>1, <1>2, Fields, Effects

LEMMA PagesLeft ==
  ASSUME fw \in FwShape, NEW l \in 0 .. MaxSize,
         fw' = [fw EXCEPT !.left = l]
  PROVE  Effect(fw.step, fw.args, l, fw.seg, fw.toSend)
<1>1. Updated
  <2>1. fw' = [x \in DOMAIN fw' |-> fw'[x]]
    BY Zenon
  <2>2. DOMAIN fw' = DOMAIN fw
    BY DEF FwShape
  <2> QED  BY <2>1, <2>2 DEF Updated
<1>2. /\ fw'.step = fw.step /\ fw'.args = fw.args /\ fw'.left = l
      /\ fw'.seg = fw.seg /\ fw'.toSend = fw.toSend
      /\ fw'.cmd = fw.cmd /\ fw'.open = fw.open /\ fw'.loop = fw.loop
      /\ fw'.answered = fw.answered /\ fw'.astray = fw.astray
      /\ fw'.nvmWrite = fw.nvmWrite /\ fw'.sigAddr = fw.sigAddr /\ fw'.masked = fw.masked
  BY DEF FwShape
<1> QED  BY <1>1, <1>2, Fields, Effects

\* The handler goes on to its next step, and sends what the step sends
Onward(u) ==
  /\ Running /\ Step.op \notin {"recv", "size", "packets", "ok"}
  /\ Step.op = "stream" => fw.toSend = 0
  /\ Step.op = "erase" => fw.left = 0
  /\ u \in Seq(Bytes) /\ Len(u) = Sends(fw.cmd, fw.step)
  /\ Step.op = "ack" => u = << REPL_ACK >>
  /\ Reply(u) /\ UNCHANGED toProg
  /\ Effect(fw.step + 1, fw.args, fw.left, fw.seg,
            IF Step.op = "pad" THEN Step.n ELSE IF Step.op = "fetch" THEN 0 ELSE fw.toSend)

\* It takes one of the bytes it waits for, and waits for more
TakesOne ==
  /\ Running /\ Step.op \in {"recv", "size"} /\ toProg # << >>
  /\ toProg' = Tail(toProg) /\ UNCHANGED toHost
  /\ Len(fw.args) + 1 < Gets(fw.cmd, fw.step)
  /\ Effect(fw.step, Append(fw.args, Head(toProg).val), fw.left, fw.seg, fw.toSend)

\* It takes the last of them
TakesLast(size) ==
  /\ Running /\ Step.op \in {"recv", "size"} /\ toProg # << >>
  /\ toProg' = Tail(toProg) /\ UNCHANGED toHost
  /\ Len(fw.args) + 1 = Gets(fw.cmd, fw.step)
  /\ size \in 0 .. MaxSize
  /\ Step.op = "size" => size = SizeOf(fw.args[1], Head(toProg).val)
  /\ Effect(fw.step + 1, << >>,
            IF Step.op = "size" /\ fw.cmd # CMD_GETBLOCK THEN size ELSE fw.left, fw.seg,
            IF Step.op = "size" /\ fw.cmd = CMD_GETBLOCK THEN size ELSE fw.toSend)

\* It fails: what it owes is sent, then the reason
Fails(u) ==
  /\ Running /\ Step.op \in {"updi", "slow", "fetch", "stream", "erase"}
  /\ Step.op = "stream" => fw.toSend > 0
  /\ Step.op = "erase" => fw.left > 0
  /\ u \in Seq(Bytes) /\ Len(u) = fw.toSend + 1 /\ u[Len(u)] \in FailureReplies
  /\ Reply(u) /\ UNCHANGED toProg
  /\ Left

Streams(b) ==
  /\ Running /\ Step.op = "stream" /\ fw.toSend > 0
  /\ b \in MemoryBytes /\ Reply(<< b >>) /\ UNCHANGED toProg
  /\ Effect(fw.step, fw.args, fw.left, fw.seg, fw.toSend - 1)

AsksFor(n) ==
  /\ Running /\ Step.op = "packets" /\ fw.seg = 0 /\ fw.left > 0
  /\ n = IF fw.left > Segment THEN Segment ELSE fw.left
  /\ Reply(<< REPL_ACK >>) /\ UNCHANGED toProg
  /\ Effect(fw.step, fw.args, fw.left - n, n, fw.toSend)

ForwardsOne ==
  /\ Running /\ Step.op = "packets" /\ fw.seg > 0 /\ toProg # << >>
  /\ toProg' = Tail(toProg) /\ UNCHANGED toHost
  /\ Effect(fw.step, fw.args, fw.left, fw.seg - 1, fw.toSend)

PacketsEnd(k) ==
  /\ Running /\ Step.op = "packets" /\ fw.seg = 0 /\ fw.left = 0
  /\ k \in 0 .. Len(toProg) /\ toProg' = SubSeq(toProg, k + 1, Len(toProg))
  /\ UNCHANGED toHost
  /\ Effect(fw.step + 1, fw.args, fw.left, fw.seg, fw.toSend)

ErasesOne ==
  /\ Running /\ Step.op = "erase" /\ fw.left > 0
  /\ Reply(<< REPL_ACK >>) /\ UNCHANGED toProg
  /\ Effect(fw.step, fw.args, fw.left - 1, fw.seg, fw.toSend)

FwDoes ==
  \/ ReceiveCommand \/ ReplyOk \/ TakesOne \/ ForwardsOne \/ ErasesOne
  \/ \E u \in Seq(Bytes) : Onward(u) \/ Fails(u)
  \/ \E size \in 0 .. MaxSize : TakesLast(size)
  \/ \E b \in MemoryBytes : Streams(b)
  \/ \E n \in Nat : AsksFor(n) \/ PacketsEnd(n)

LEMMA Silence ==
  ASSUME LinkTypes, UNCHANGED toHost
  PROVE  Reply(<< >>) /\ << >> \in Seq(Bytes) /\ Len(<< >>) = 0
<1>1. toHost \in Seq(Bytes)
  BY DEF LinkTypes
<1>2. toHost \o << >> = toHost
  BY <1>1
<1>3. Reply(<< >>)
  BY <1>2 DEF Reply
<1> QED  BY <1>3

\* The step a firmware action is at
LEMMA HereIs ==
  ASSUME FwAlone, NEW op, At(op)
  PROVE  /\ Running /\ Step.op = op /\ Step = Handlers[fw.cmd][fw.step]
         /\ FwTypes /\ FwOwes /\ FwHolds /\ fw \in FwShape
         /\ OpPlaces(fw.cmd, fw.step) /\ OpFields(fw.cmd, fw.step) /\ OpMoves(fw.cmd, fw.step)
         /\ fw.cmd \in Commands /\ fw.step \in Nat
<1>1. Running /\ Step.op = op /\ Step = Handlers[fw.cmd][fw.step]
  BY DEF At, Step
<1>2. FwTypes /\ FwOwes /\ FwHolds /\ fw \in FwShape
  BY Shape DEF FwAlone
<1> QED  BY <1>1, <1>2, AtStep DEF OpMeans

\* The parameter bytes are empty outside of recv and size, the segment outside of packets
LEMMA NothingHeld ==
  ASSUME FwAlone
  PROVE  /\ ~At("recv") /\ ~At("size") => fw.args = << >>
         /\ ~At("packets") => fw.seg = 0
         /\ fw.left # 0 => At("packets") \/ (fw.cmd = CMD_FLASH_PAGE_ERASE /\ fw.step \in 5 .. 8)
<1>1. FwHolds
  BY DEF FwAlone
<1>2. fw.args # << >> => At("recv") \/ At("size")
  BY <1>1, Zenon DEF FwHolds
<1>3. fw.left # 0 => At("packets") \/ (fw.cmd = CMD_FLASH_PAGE_ERASE /\ fw.step \in 5 .. 8)
  BY <1>1 DEF FwHolds
<1>4. fw.seg # 0 => At("packets")
  BY <1>1, Zenon DEF FwHolds
<1> QED  BY <1>2, <1>3, <1>4, Zenon

LEMMA SendAckDoes ==
  ASSUME FwAlone, LinkTypes, SendAck
  PROVE  \E u \in Seq(Bytes) : Onward(u)
<1>1. /\ Running /\ Step.op = "ack" /\ Step = Handlers[fw.cmd][fw.step] /\ fw \in FwShape
  BY HereIs DEF SendAck
<1>2. Effect(fw.step + 1, fw.args, fw.left, fw.seg, fw.toSend)
  BY <1>1, Advances DEF SendAck
<1>3. Sends(fw.cmd, fw.step) = 1
  BY <1>1 DEF Sends
<1> DEFINE u == << REPL_ACK >>
<1>4. u \in Seq(Bytes) /\ Len(u) = 1 /\ u = << REPL_ACK >>
  BY DEF Bytes
<1>5. Reply(u) /\ UNCHANGED toProg
  BY DEF SendAck
<1> HIDE DEF u
<1>6. Onward(u)
  BY <1>1, <1>2, <1>3, <1>4, <1>5 DEF Onward
<1> QED  BY <1>4, <1>6, Zenon

LEMMA SetPaddingDoes ==
  ASSUME FwAlone, LinkTypes, SetPadding
  PROVE  \E u \in Seq(Bytes) : Onward(u)
<1>1. /\ Running /\ Step.op = "pad" /\ Step = Handlers[fw.cmd][fw.step] /\ fw \in FwShape
      /\ OpFields(fw.cmd, fw.step)
  BY HereIs DEF SetPadding
<1>2. Step.n \in 0 .. MaxSize + 3
  BY <1>1, Sizes DEF OpFields
<1>3. Effect(fw.step + 1, fw.args, fw.left, fw.seg, Step.n)
  BY <1>1, <1>2, AdvancesPadding DEF SetPadding
<1>4. Sends(fw.cmd, fw.step) = 0
  BY <1>1 DEF Sends
<1> DEFINE u == << >>
<1>5. u \in Seq(Bytes) /\ Len(u) = 0 /\ Reply(u) /\ UNCHANGED toProg
  BY Silence DEF SetPadding, linkVars
<1> HIDE DEF u
<1>6. Onward(u)
  BY <1>1, <1>3, <1>4, <1>5 DEF Onward
<1> QED  BY <1>5, <1>6, Zenon

\* recv waits for n bytes and size for two; what they hold is less
LEMMA ArgsHeld ==
  ASSUME FwAlone, Running, Step.op \in {"recv", "size"}
  PROVE  /\ Len(fw.args) \in Nat /\ Len(fw.args) < Gets(fw.cmd, fw.step)
         /\ Gets(fw.cmd, fw.step) \in 1 .. 3
         /\ Step.op = "recv" => Gets(fw.cmd, fw.step) = Step.n
         /\ Step.op = "size" => Gets(fw.cmd, fw.step) = 2
         /\ Step.op = "size" /\ fw.args # << >> => Len(fw.args) = 1
         /\ fw.args \in Seq(Bytes)
<1>1. /\ Step = Handlers[fw.cmd][fw.step] /\ FwHolds /\ fw \in FwShape
      /\ OpFields(fw.cmd, fw.step)
  BY HereIs DEF At
<1>2. fw.args \in Seq(Bytes) /\ Len(fw.args) \in Nat
  BY <1>1, Fields, LenProperties
<1>3. CASE Step.op = "recv"
  <2>1. Gets(fw.cmd, fw.step) = Step.n /\ Step.n \in 1 .. 3
    BY <1>1, <1>3 DEF Gets, OpFields
  <2>2. fw.args # << >> => Len(fw.args) < Step.n
    BY <1>1, <1>3 DEF FwHolds, At
  <2>3. fw.args = << >> => Len(fw.args) = 0
    OBVIOUS
  <2> QED  BY <1>2, <1>3, <2>1, <2>2, <2>3
<1>4. CASE Step.op = "size"
  <2>1. Gets(fw.cmd, fw.step) = 2
    BY <1>1, <1>4 DEF Gets
  <2>2. fw.args # << >> => Len(fw.args) = 1
    BY <1>1, <1>4 DEF FwHolds, At
  <2>3. fw.args = << >> => Len(fw.args) = 0
    OBVIOUS
  <2>4. Len(fw.args) = 0 \/ Len(fw.args) = 1
    BY <2>2, <2>3, Zenon
  <2> DEFINE held == Len(fw.args)
             awaited == Gets(fw.cmd, fw.step)
  <2> HIDE DEF held, awaited
  <2>5. held < awaited /\ awaited \in 1 .. 3
    <3>1. (held = 0 \/ held = 1) /\ awaited = 2
      BY <2>1, <2>4, Zenon DEF held, awaited
    <3> QED  BY <3>1
  <2>6. Step.op # "recv"
    BY <1>4
  <2> QED  BY <1>2, <2>1, <2>2, <2>5, <2>6, Zenon DEF held, awaited
<1> QED  BY <1>3, <1>4

LEMMA ReceiveArgumentDoes ==
  ASSUME FwAlone, LinkTypes, ReceiveArgument
  PROVE  TakesOne \/ \E size \in 0 .. MaxSize : TakesLast(size)
<1>1. /\ Running /\ Step.op = "recv" /\ Step = Handlers[fw.cmd][fw.step] /\ fw \in FwShape
  BY HereIs DEF ReceiveArgument
<1>2. /\ Len(fw.args) \in Nat /\ Len(fw.args) < Gets(fw.cmd, fw.step)
      /\ Gets(fw.cmd, fw.step) = Step.n /\ Gets(fw.cmd, fw.step) \in 1 .. 3
      /\ fw.args \in Seq(Bytes)
  BY <1>1, ArgsHeld
<1>3. toProg # << >> /\ toProg' = Tail(toProg) /\ UNCHANGED toHost
  BY DEF ReceiveArgument
<1> DEFINE args == Append(fw.args, Head(toProg).val)
           is == args = SigAddress
<1>4. args \in Seq(Bytes) /\ Len(args) = Len(fw.args) + 1
  BY <1>2, <1>3, TailTypes
<1>5. is \in BOOLEAN
  OBVIOUS
<1>6. fw' = IF Len(args) < Step.n THEN [fw EXCEPT !.args = args]
            ELSE [Advance EXCEPT !.args = << >>, !.sigAddr = is]
  BY Zenon DEF ReceiveArgument
<1> HIDE DEF is
<1>7. CASE Len(args) < Step.n
  <2> HIDE DEF args
  <2>1. Effect(fw.step, args, fw.left, fw.seg, fw.toSend)
    BY <1>1, <1>4, <1>6, <1>7, TakesArgument, Zenon
  <2>2. Len(fw.args) + 1 < Gets(fw.cmd, fw.step)
    BY <1>2, <1>4, <1>7
  <2>3. TakesOne
    BY <1>1, <1>3, <2>1, <2>2 DEF TakesOne, args
  <2> QED  BY <2>3
<1>8. CASE ~(Len(args) < Step.n)
  <2>1. Len(fw.args) + 1 = Gets(fw.cmd, fw.step)
    BY <1>2, <1>4, <1>8
  <2> HIDE DEF args
  <2> DEFINE none == << >>
  <2>2. fw' = [Advance EXCEPT !.args = none, !.sigAddr = is]
    BY <1>6, <1>8, Zenon
  <2>3. none \in Seq(Bytes)
    OBVIOUS
  <2> HIDE DEF none
  <2>4. Effect(fw.step + 1, none, fw.left, fw.seg, fw.toSend)
    BY <1>1, <1>5, <2>2, <2>3, TakesArguments, Zenon
  <2>5. 0 \in 0 .. MaxSize
    BY Sizes
  <2>6. Effect(fw.step + 1, << >>,
            IF Step.op = "size" /\ fw.cmd # CMD_GETBLOCK THEN 0 ELSE fw.left, fw.seg,
            IF Step.op = "size" /\ fw.cmd = CMD_GETBLOCK THEN 0 ELSE fw.toSend)
    BY <1>1, <2>4 DEF none
  <2>7. TakesLast(0)
    BY <1>1, <1>3, <2>1, <2>5, <2>6 DEF TakesLast
  <2> QED  BY <2>5, <2>7, Zenon
<1> QED  BY <1>7, <1>8

LEMMA SizeIsBounded ==
  ASSUME NEW lo \in Bytes, NEW hi \in Bytes
  PROVE  SizeOf(lo, hi) \in 0 .. MaxSize
BY Sizes DEF SizeOf, Bytes, MaxSize

LEMMA ReceiveSizeDoes ==
  ASSUME FwAlone, LinkTypes, ReceiveSize
  PROVE  TakesOne \/ \E size \in 0 .. MaxSize : TakesLast(size)
<1>1. /\ Running /\ Step.op = "size" /\ Step = Handlers[fw.cmd][fw.step] /\ fw \in FwShape
      /\ OpFields(fw.cmd, fw.step) /\ FwOwes /\ OpMoves(fw.cmd, fw.step)
  BY HereIs DEF ReceiveSize
<1>2. /\ Len(fw.args) \in Nat /\ Gets(fw.cmd, fw.step) = 2
      /\ fw.args # << >> => Len(fw.args) = 1
      /\ fw.args \in Seq(Bytes)
  BY <1>1, ArgsHeld
<1>3. toProg # << >> /\ toProg' = Tail(toProg) /\ UNCHANGED toHost
  BY DEF ReceiveSize
<1> DEFINE b == Head(toProg).val
           size == SizeOf(fw.args[1], b)
           left == IF Step.into = "left" THEN size ELSE fw.left
           owed == IF Step.into = "toSend" THEN size ELSE fw.toSend
<1>4. b \in Bytes
  BY <1>3, TailTypes
<1>5. fw' = IF fw.args = << >> THEN [fw EXCEPT !.args = << b >>]
            ELSE [Advance EXCEPT !.args = << >>,
                                 !.left = IF Step.into = "left" THEN size ELSE @,
                                 !.toSend = IF Step.into = "toSend" THEN size ELSE @]
  BY Zenon DEF ReceiveSize
<1>6. CASE fw.args = << >>
  <2> DEFINE args == << b >>
  <2>1. args \in Seq(Bytes) /\ args = Append(fw.args, Head(toProg).val) /\ Len(fw.args) = 0
    BY <1>4, <1>6
  <2>2. fw' = [fw EXCEPT !.args = args]
    BY <1>5, <1>6
  <2> HIDE DEF args
  <2>3. Effect(fw.step, args, fw.left, fw.seg, fw.toSend)
    BY <1>1, <2>1, <2>2, TakesArgument, Zenon
  <2>4. TakesOne
    BY <1>1, <1>2, <1>3, <2>1, <2>3 DEF TakesOne
  <2> QED  BY <2>4
<1>7. CASE fw.args # << >>
  <2>1. Len(fw.args) = 1
    BY <1>2, <1>7
  <2>2. size \in 0 .. MaxSize
    <3>1. fw.args[1] \in Bytes
      BY <1>2, <2>1
    <3> HIDE DEF b
    <3> QED  BY <1>4, <3>1, SizeIsBounded
  <2> HIDE DEF size, b
  <2>3. left \in 0 .. MaxSize /\ owed \in 0 .. MaxSize + 3
    BY <1>1, <2>2, Fields, Sizes
  <2>4. Advance.left = fw.left /\ Advance.toSend = fw.toSend
    BY <1>1 DEF Advance, Goto, FwShape
  <2> DEFINE none == << >>
  <2>5. fw' = [Advance EXCEPT !.args = << >>, !.left = left, !.toSend = owed]
    BY <1>5, <1>7, <2>4
  <2>6. none \in Seq(Bytes) /\ fw' = [Advance EXCEPT !.args = none, !.left = left, !.toSend = owed]
    BY <2>5
  <2> HIDE DEF none, left, owed
  <2>7. Effect(fw.step + 1, none, left, fw.seg, owed)
    BY <1>1, <2>3, <2>6, TakesSize, Zenon
  <2>8. Step.into = IF fw.cmd = CMD_GETBLOCK THEN "toSend" ELSE "left"
    BY <1>1 DEF OpFields
  <2>9. /\ left = IF Step.op = "size" /\ fw.cmd # CMD_GETBLOCK THEN size ELSE fw.left
        /\ owed = IF Step.op = "size" /\ fw.cmd = CMD_GETBLOCK THEN size ELSE fw.toSend
    BY <1>1, <2>8 DEF left, owed
  <2>10. Effect(fw.step + 1, << >>,
            IF Step.op = "size" /\ fw.cmd # CMD_GETBLOCK THEN size ELSE fw.left, fw.seg,
            IF Step.op = "size" /\ fw.cmd = CMD_GETBLOCK THEN size ELSE fw.toSend)
    BY <2>7, <2>9, Zenon DEF none
  <2>11. size = SizeOf(fw.args[1], Head(toProg).val)
    BY DEF size, b
  <2>12. TakesLast(size)
    BY <1>1, <1>2, <1>3, <2>1, <2>2, <2>10, <2>11 DEF TakesLast
  <2> QED  BY <2>2, <2>12, Zenon
<1> QED  BY <1>6, <1>7

\* A step that sends nothing goes on
LEMMA GoesOnSilently ==
  ASSUME FwAlone, LinkTypes, Running, UNCHANGED <<toProg, toHost>>,
         Step.op \in {"updi", "slow", "busy", "nvm"} \/ (Step.op = "stream" /\ fw.toSend = 0)
           \/ (Step.op = "erase" /\ fw.left = 0),
         Effect(fw.step + 1, fw.args, fw.left, fw.seg, fw.toSend)
  PROVE  \E u \in Seq(Bytes) : Onward(u)
<1>1. Step = Handlers[fw.cmd][fw.step]
  BY DEF Step
<1>2. Sends(fw.cmd, fw.step) = 0
  BY <1>1 DEF Sends
<1> DEFINE u == << >>
<1>3. u \in Seq(Bytes) /\ Len(u) = 0 /\ Reply(u)
  BY Silence
<1> HIDE DEF u
<1>4. Onward(u)
  BY <1>2, <1>3 DEF Onward
<1> QED  BY <1>3, <1>4, Zenon

\* The reason a handler gives after what it owes
LEMMA FailDoes ==
  ASSUME FwAlone, NEW reply \in FailureReplies, Fail(reply)
  PROVE  /\ Left
         /\ \E u \in Seq(Bytes) : /\ Len(u) = fw.toSend + 1 /\ u[Len(u)] \in FailureReplies
                                  /\ Reply(u)
<1>1. fw \in FwShape /\ fw.toSend \in Nat
  BY Shape, Fields DEF FwAlone
<1>2. Left
  BY <1>1, Leaves DEF Fail
<1> DEFINE n == fw.toSend
           u == [k \in 1 .. n |-> 0] \o << reply >>
<1>3. Reply(u)
  BY DEF Fail
<1>4. reply \in Bytes
  BY DEF FailureReplies, Bytes
<1> HIDE DEF n
<1>5. u \in Seq(Bytes) /\ Len(u) = n + 1 /\ u[Len(u)] = reply
  <2>1. n \in Nat
    BY <1>1 DEF n
  <2>2. [k \in 1 .. n |-> 0] \in Seq(Bytes) /\ << reply >> \in Seq(Bytes)
        /\ Len([k \in 1 .. n |-> 0]) = n
    BY <1>4, <2>1 DEF Bytes
  <2> QED  BY <1>4, <2>1, <2>2
<1> HIDE DEF u
<1>6. Len(u) = fw.toSend + 1 /\ u[Len(u)] \in FailureReplies
  BY <1>5 DEF n
<1> QED  BY <1>2, <1>3, <1>5, <1>6, Zenon

LEMMA TalkToTargetDoes ==
  ASSUME FwAlone, LinkTypes, TalkToTarget
  PROVE  /\ \E u \in Seq(Bytes) : Onward(u) \/ Fails(u)
         /\ UNCHANGED portOpen /\ faults' \in 0 .. MaxFaults
<1>1. /\ Running /\ Step.op \in {"updi", "slow"} /\ Step = Handlers[fw.cmd][fw.step]
      /\ fw \in FwShape /\ OpFields(fw.cmd, fw.step)
  BY HereIs DEF TalkToTarget
<1>2. UNCHANGED toProg /\ UNCHANGED portOpen
  BY DEF TalkToTarget
<1>3. faults \in 0 .. MaxFaults
  BY DEF LinkTypes
<1>4. CASE fw' = Advance /\ UNCHANGED <<toHost, faults>>
  <2>1. Effect(fw.step + 1, fw.args, fw.left, fw.seg, fw.toSend)
    BY <1>1, <1>4, Advances
  <2>2. \E u \in Seq(Bytes) : Onward(u)
    BY <1>1, <1>2, <1>4, <2>1, GoesOnSilently
  <2> QED  BY <1>2, <1>3, <1>4, <2>2
<1>5. CASE Fault("masked") /\ fw' = [Advance EXCEPT !.masked = TRUE] /\ UNCHANGED toHost
  <2>1. Effect(fw.step + 1, fw.args, fw.left, fw.seg, fw.toSend)
    BY <1>1, <1>5, AdvancesMasked, Zenon
  <2>2. \E u \in Seq(Bytes) : Onward(u)
    BY <1>1, <1>2, <1>5, <2>1, GoesOnSilently
  <2>3. faults' \in 0 .. MaxFaults
    BY <1>5, FaultTypes
  <2> QED  BY <1>2, <2>2, <2>3
<1>6. ASSUME NEW kind \in Step.faults \ {"masked"}, Fault(kind), Fail(ReplyFor[kind])
      PROVE  (\E u \in Seq(Bytes) : Fails(u)) /\ faults' \in 0 .. MaxFaults
  <2>1. kind \in Failures
    BY <1>1, <1>6 DEF OpFields
  <2>2. ReplyFor[kind] \in FailureReplies
    BY <2>1, RepliesAreBytes
  <2> DEFINE reply == ReplyFor[kind]
  <2>3. reply \in FailureReplies /\ Fail(reply)
    BY <1>6, <2>2
  <2> HIDE DEF reply
  <2>4. PICK u \in Seq(Bytes) : /\ Len(u) = fw.toSend + 1 /\ u[Len(u)] \in FailureReplies
                                /\ Reply(u)
    BY <2>3, FailDoes
  <2>5. Left
    BY <2>3, FailDoes
  <2>6. Fails(u)
    BY <1>1, <1>2, <2>4, <2>5 DEF Fails
  <2> QED  BY <1>6, <2>6, FaultTypes
<1> QED  BY <1>2, <1>4, <1>5, <1>6 DEF TalkToTarget

LEMMA WaitNotBusyDoes ==
  ASSUME FwAlone, LinkTypes, WaitNotBusy
  PROVE  /\ \E u \in Seq(Bytes) : Onward(u)
         /\ UNCHANGED portOpen /\ faults' \in 0 .. MaxFaults
<1>1. Running /\ Step.op = "busy" /\ fw \in FwShape
  BY HereIs DEF WaitNotBusy
<1>2. UNCHANGED <<toProg, toHost>> /\ UNCHANGED portOpen
  BY DEF WaitNotBusy
<1>3. faults' \in 0 .. MaxFaults
  BY FaultTypes DEF WaitNotBusy, LinkTypes
<1>4. CASE fw' = Advance
  <2>1. Effect(fw.step + 1, fw.args, fw.left, fw.seg, fw.toSend)
    BY <1>1, <1>4, Advances
  <2> QED  BY <1>1, <1>2, <1>3, <2>1, GoesOnSilently
<1>5. CASE fw' = [Advance EXCEPT !.masked = TRUE]
  <2>1. Effect(fw.step + 1, fw.args, fw.left, fw.seg, fw.toSend)
    BY <1>1, <1>5, AdvancesMasked, Zenon
  <2> QED  BY <1>1, <1>2, <1>3, <2>1, GoesOnSilently
<1> QED  BY <1>4, <1>5 DEF WaitNotBusy

LEMMA SetNvmWriteDoes ==
  ASSUME FwAlone, LinkTypes, SetNvmWrite
  PROVE  \E u \in Seq(Bytes) : Onward(u)
<1>1. /\ Running /\ Step.op = "nvm" /\ fw \in FwShape /\ Step.on \in BOOLEAN
  BY HereIs DEF SetNvmWrite, OpFields
<1>2. UNCHANGED <<toProg, toHost>>
  BY DEF SetNvmWrite, linkVars
<1> DEFINE b == Step.on
<1>3. b \in BOOLEAN /\ fw' = [Advance EXCEPT !.nvmWrite = b]
  BY <1>1 DEF SetNvmWrite
<1> HIDE DEF b
<1>4. Effect(fw.step + 1, fw.args, fw.left, fw.seg, fw.toSend)
  BY <1>1, <1>3, AdvancesWriting, Zenon
<1> QED  BY <1>1, <1>2, <1>4, GoesOnSilently

LEMMA StreamEndDoes ==
  ASSUME FwAlone, LinkTypes, StreamEnd
  PROVE  \E u \in Seq(Bytes) : Onward(u)
<1>1. /\ Running /\ Step.op = "stream" /\ fw \in FwShape /\ fw.toSend = 0
  BY HereIs DEF StreamEnd
<1>2. UNCHANGED <<toProg, toHost>> /\ fw' = Advance
  BY DEF StreamEnd, linkVars
<1>3. Effect(fw.step + 1, fw.args, fw.left, fw.seg, fw.toSend)
  BY <1>1, <1>2, Advances
<1> QED  BY <1>1, <1>2, <1>3, GoesOnSilently

LEMMA EraseEndDoes ==
  ASSUME FwAlone, LinkTypes, EraseEnd
  PROVE  \E u \in Seq(Bytes) : Onward(u)
<1>1. /\ Running /\ Step.op = "erase" /\ fw \in FwShape /\ fw.left = 0
  BY HereIs DEF EraseEnd
<1>2. UNCHANGED <<toProg, toHost>> /\ fw' = Advance
  BY DEF EraseEnd, linkVars
<1>3. Effect(fw.step + 1, fw.args, fw.left, fw.seg, fw.toSend)
  BY <1>1, <1>2, Advances
<1> QED  BY <1>1, <1>2, <1>3, GoesOnSilently

\* What a fetch sends is what the handler has set aside for a failure
LEMMA FetchedBytes ==
  ASSUME FwAlone, Running, Step.op = "fetch"
  PROVE  /\ fw.toSend = Owes(fw.cmd, fw.step) /\ fw.toSend \in 1 .. 3
         /\ Sends(fw.cmd, fw.step) = Owes(fw.cmd, fw.step)
         /\ \A bytes \in Garbage(Step.what) : bytes \in Seq(Bytes) /\ Len(bytes) = fw.toSend
         /\ "badstatus" \in Step.faults => fw.toSend = 1
<1>1. /\ Step = Handlers[fw.cmd][fw.step] /\ OpFields(fw.cmd, fw.step) /\ FwOwes
  BY HereIs DEF At
<1>2. \/ Step.what = "status" /\ fw.cmd = CMD_START /\ fw.step = 4
      \/ Step.what = "signature" /\ fw.cmd = CMD_START /\ fw.step = 10
      \/ Step.what = "byte" /\ fw.cmd = CMD_GETBYTE /\ fw.step = 5
  BY <1>1 DEF OpFields
<1>3. fw.toSend = Owes(fw.cmd, fw.step)
  BY <1>1, <1>2 DEF FwOwes
<1>4. Sends(fw.cmd, fw.step) = Owes(fw.cmd, fw.step)
  BY <1>1 DEF Sends
<1>5. CASE Step.what = "status" /\ fw.cmd = CMD_START /\ fw.step = 4
  <2>1. Owes(fw.cmd, fw.step) = 1
    BY <1>5, StartFlow
  <2>2. Garbage(Step.what) = {<< 0 >>} \cup {<< 255 >>}
    BY <1>5 DEF Garbage, Fetched
  <2>3. << 0 >> \in Seq(Bytes) /\ Len(<< 0 >>) = 1 /\ << 255 >> \in Seq(Bytes) /\ Len(<< 255 >>) = 1
    BY DEF Bytes
  <2>4. \A bytes \in Garbage(Step.what) : bytes \in Seq(Bytes) /\ Len(bytes) = 1
    BY <2>2, <2>3
  <2> QED  BY <1>3, <1>4, <2>1, <2>4
<1>6. CASE Step.what = "signature" /\ fw.cmd = CMD_START /\ fw.step = 10
  <2>1. Owes(fw.cmd, fw.step) = 3
    BY <1>6, StartFlow
  <2>2. Garbage(Step.what) \subseteq {Signature, OtherBytes}
    BY <1>6 DEF Garbage, Fetched
  <2>3. /\ Signature \in Seq(Bytes) /\ Len(Signature) = 3
        /\ OtherBytes \in Seq(Bytes) /\ Len(OtherBytes) = 3
    BY DEF Bytes, Signature, OtherBytes
  <2>4. \A bytes \in Garbage(Step.what) : bytes \in Seq(Bytes) /\ Len(bytes) = 3
    BY <2>2, <2>3
  <2>5. "badstatus" \notin Step.faults
    BY <1>1, <1>6, StartOps DEF Fetch
  <2> QED  BY <1>3, <1>4, <2>1, <2>4, <2>5
<1>7. CASE Step.what = "byte" /\ fw.cmd = CMD_GETBYTE /\ fw.step = 5
  <2>1. Owes(fw.cmd, fw.step) = 1
    BY <1>7, GetByteFlow DEF Once
  <2>2. Garbage(Step.what) = {<< b >> : b \in MemoryBytes} \cup {<< 255 >>}
    BY <1>7 DEF Garbage, Fetched
  <2>3. ASSUME NEW b \in Bytes  PROVE << b >> \in Seq(Bytes) /\ Len(<< b >>) = 1
    OBVIOUS
  <2>4. MemoryBytes \subseteq Bytes /\ 255 \in Bytes
    BY MemoryAssumption DEF Bytes
  <2>5. ASSUME NEW bytes \in Garbage(Step.what)  PROVE bytes \in Seq(Bytes) /\ Len(bytes) = 1
    <3>1. \E b \in Bytes : bytes = << b >>
      BY <2>2, <2>4, Zenon
    <3>2. PICK b \in Bytes : bytes = << b >>
      BY <3>1
    <3>3. << b >> \in Seq(Bytes) /\ Len(<< b >>) = 1
      BY <2>3
    <3> QED  BY <3>2, <3>3, Zenon
  <2> QED  BY <1>3, <1>4, <2>1, <2>5
<1> QED  BY <1>2, <1>5, <1>6, <1>7

LEMMA FetchedIsGarbage == ASSUME NEW what  PROVE Fetched(what) \subseteq Garbage(what)
BY DEF Garbage

LEMMA FetchFromTargetDoes ==
  ASSUME FwAlone, LinkTypes, FetchFromTarget
  PROVE  /\ \E u \in Seq(Bytes) : Onward(u) \/ Fails(u)
         /\ UNCHANGED portOpen /\ faults' \in 0 .. MaxFaults
<1>1. /\ Running /\ Step.op = "fetch" /\ Step = Handlers[fw.cmd][fw.step] /\ fw \in FwShape
  BY HereIs DEF FetchFromTarget
<1>2. UNCHANGED toProg /\ UNCHANGED portOpen
  BY DEF FetchFromTarget
<1>3. faults \in 0 .. MaxFaults
  BY DEF LinkTypes
<1>4. /\ Sends(fw.cmd, fw.step) = fw.toSend
      /\ \A bytes \in Garbage(Step.what) : bytes \in Seq(Bytes) /\ Len(bytes) = fw.toSend
      /\ "badstatus" \in Step.faults => fw.toSend = 1
      /\ fw.toSend \in 1 .. 3
  BY <1>1, FetchedBytes
<1>5. ASSUME NEW u \in Seq(Bytes), Len(u) = fw.toSend, Reply(u),
             fw' = [Advance EXCEPT !.toSend = 0]
      PROVE  Onward(u)
  <2>1. 0 \in 0 .. MaxSize + 3
    BY Sizes
  <2>2. Effect(fw.step + 1, fw.args, fw.left, fw.seg, 0)
    BY <1>1, <1>5, <2>1, AdvancesPadding, Zenon
  <2> QED  BY <1>1, <1>2, <1>4, <1>5, <2>2 DEF Onward
<1>6. ASSUME NEW u \in Seq(Bytes), Len(u) = fw.toSend, Reply(u \o << REPL_TIMEOUT >>),
             Leave(REPL_TIMEOUT)
      PROVE  \E v \in Seq(Bytes) : Fails(v)
  <2> DEFINE v == u \o << REPL_TIMEOUT >>
  <2>1. v \in Seq(Bytes) /\ Len(v) = fw.toSend + 1 /\ v[Len(v)] = REPL_TIMEOUT
    <3>1. << REPL_TIMEOUT >> \in Seq(Bytes) /\ Len(<< REPL_TIMEOUT >>) = 1
      BY DEF Bytes
    <3> QED  BY <1>4, <1>6, <3>1
  <2>2. Reply(v)
    BY <1>6
  <2>3. Left
    BY <1>1, <1>6, Leaves
  <2> HIDE DEF v
  <2>4. v[Len(v)] \in FailureReplies
    BY <2>1 DEF FailureReplies
  <2>5. Fails(v)
    BY <1>1, <1>2, <2>1, <2>2, <2>3, <2>4 DEF Fails
  <2> QED  BY <2>1, <2>5, Zenon
<1>7. CASE /\ \E bytes \in Fetched(Step.what) : Reply(bytes)
           /\ fw' = [Advance EXCEPT !.toSend = 0] /\ UNCHANGED faults
  <2>1. PICK u \in Fetched(Step.what) : Reply(u)
    BY <1>7
  <2>2. u \in Seq(Bytes) /\ Len(u) = fw.toSend
    BY <1>4, <2>1, FetchedIsGarbage
  <2>3. Onward(u)
    BY <1>5, <1>7, <2>1, <2>2
  <2> QED  BY <1>2, <1>3, <1>7, <2>2, <2>3
<1>8. CASE /\ "badstatus" \in Step.faults /\ Fault("badstatus") /\ Reply(<< 1 >>)
           /\ fw' = [Advance EXCEPT !.toSend = 0]
  <2> DEFINE u == << 1 >>
  <2>1. u \in Seq(Bytes) /\ Len(u) = 1 /\ Reply(u)
    BY <1>8 DEF Bytes
  <2> HIDE DEF u
  <2>2. Onward(u)
    <3>1. fw' = [Advance EXCEPT !.toSend = 0] /\ Len(u) = fw.toSend
      BY <1>4, <1>8, <2>1
    <3> QED  BY <1>5, <2>1, <3>1, Zenon
  <2>3. faults' \in 0 .. MaxFaults
    BY <1>8, FaultTypes
  <2>4. \E v \in Seq(Bytes) : Onward(v)
    BY <2>1, <2>2, Zenon
  <2> QED  BY <1>2, <2>3, <2>4
<1>9. CASE /\ Fault("timeout")
           /\ \E bytes \in Garbage(Step.what) : Reply(bytes \o <<REPL_TIMEOUT>>)
           /\ Leave(REPL_TIMEOUT)
  <2>1. PICK u \in Garbage(Step.what) : Reply(u \o << REPL_TIMEOUT >>)
    BY <1>9
  <2>2. u \in Seq(Bytes) /\ Len(u) = fw.toSend
    BY <1>4, <2>1
  <2>3. \E v \in Seq(Bytes) : Fails(v)
    BY <1>6, <1>9, <2>1, <2>2
  <2>4. faults' \in 0 .. MaxFaults
    BY <1>9, FaultTypes
  <2> QED  BY <1>2, <2>3, <2>4
<1> QED  BY <1>7, <1>8, <1>9 DEF FetchFromTarget

LEMMA StreamByteDoes ==
  ASSUME FwAlone, LinkTypes, StreamByte
  PROVE  /\ (\E u \in Seq(Bytes) : Fails(u)) \/ (\E b \in MemoryBytes : Streams(b))
         /\ UNCHANGED portOpen /\ faults' \in 0 .. MaxFaults
<1>1. /\ Running /\ Step.op = "stream" /\ fw \in FwShape /\ fw.toSend > 0
  BY HereIs DEF StreamByte
<1>2. UNCHANGED toProg /\ UNCHANGED portOpen
  BY DEF StreamByte
<1>3. faults \in 0 .. MaxFaults
  BY DEF LinkTypes
<1>4. fw.toSend \in 0 .. MaxSize + 3 /\ fw.toSend \in Nat
  BY <1>1, Fields
<1>5. CASE /\ \E b \in MemoryBytes : Reply(<< b >>)
           /\ fw' = [fw EXCEPT !.toSend = @ - 1] /\ UNCHANGED faults
  <2> DEFINE n == fw.toSend - 1
  <2>1. n \in 0 .. MaxSize + 3 /\ fw' = [fw EXCEPT !.toSend = n]
    BY <1>1, <1>4, <1>5, Sizes
  <2> HIDE DEF n
  <2>2. Effect(fw.step, fw.args, fw.left, fw.seg, n)
    BY <1>1, <2>1, CountsDown, Zenon
  <2>3. PICK b \in MemoryBytes : Reply(<< b >>)
    BY <1>5
  <2>4. Streams(b)
    BY <1>1, <1>2, <2>2, <2>3 DEF Streams, n
  <2> QED  BY <1>2, <1>3, <1>5, <2>4
<1>6. ASSUME NEW reply \in FailureReplies, Fail(reply)  PROVE \E u \in Seq(Bytes) : Fails(u)
  <2>1. PICK u \in Seq(Bytes) : /\ Len(u) = fw.toSend + 1 /\ u[Len(u)] \in FailureReplies
                                /\ Reply(u)
    BY <1>6, FailDoes
  <2>2. Left
    BY <1>6, FailDoes
  <2> QED  BY <1>1, <1>2, <2>1, <2>2 DEF Fails
<1>7. CASE Fault("rxerr") /\ Fail(REPL_UPDIRXERR)
  <2>1. REPL_UPDIRXERR \in FailureReplies
    BY DEF FailureReplies
  <2>2. \E u \in Seq(Bytes) : Fails(u)
    BY <1>6, <1>7, <2>1
  <2> QED  BY <1>2, <1>7, <2>2, FaultTypes
<1>8. CASE /\ Fault("timeout")
           /\ Reply([k \in 1 .. fw.toSend |-> IF k = 1 THEN 255 ELSE 0] \o <<REPL_TIMEOUT>>)
           /\ Leave(REPL_TIMEOUT)
  <2> DEFINE n == fw.toSend
             u == [k \in 1 .. n |-> IF k = 1 THEN 255 ELSE 0] \o << REPL_TIMEOUT >>
  <2>1. Reply(u)
    BY <1>8
  <2> HIDE DEF n
  <2>2. u \in Seq(Bytes) /\ Len(u) = n + 1 /\ u[Len(u)] = REPL_TIMEOUT
    <3>1. n \in Nat
      BY <1>4 DEF n
    <3>2. /\ [k \in 1 .. n |-> IF k = 1 THEN 255 ELSE 0] \in Seq(Bytes)
          /\ Len([k \in 1 .. n |-> IF k = 1 THEN 255 ELSE 0]) = n
          /\ << REPL_TIMEOUT >> \in Seq(Bytes)
      BY <3>1 DEF Bytes
    <3> QED  BY <3>1, <3>2
  <2>3. Left
    BY <1>1, <1>8, Leaves
  <2> HIDE DEF u
  <2>4. Len(u) = fw.toSend + 1 /\ u[Len(u)] \in FailureReplies
    BY <2>2 DEF n, FailureReplies
  <2>5. Fails(u)
    BY <1>1, <1>2, <2>1, <2>2, <2>3, <2>4 DEF Fails
  <2>6. \E v \in Seq(Bytes) : Fails(v)
    BY <2>2, <2>5, Zenon
  <2>7. faults' \in 0 .. MaxFaults
    BY <1>8, FaultTypes
  <2> QED  BY <1>2, <2>6, <2>7
<1> QED  BY <1>5, <1>7, <1>8 DEF StreamByte

LEMMA AskForSegmentDoes ==
  ASSUME FwAlone, LinkTypes, AskForSegment
  PROVE  \E n \in Nat : AsksFor(n)
<1>1. /\ Running /\ Step.op = "packets" /\ fw \in FwShape /\ fw.seg = 0 /\ fw.left > 0
  BY HereIs DEF AskForSegment
<1>2. fw.left \in 0 .. MaxSize
  BY <1>1, Fields
<1> DEFINE n == IF fw.left > Segment THEN Segment ELSE fw.left
           rest == fw.left - n
<1>3. n \in 0 .. Segment /\ rest \in 0 .. MaxSize /\ n \in Nat
  BY <1>2, Sizes
<1>4. fw' = [fw EXCEPT !.seg = n, !.left = rest]
  BY DEF AskForSegment
<1>5. Reply(<< REPL_ACK >>) /\ UNCHANGED toProg
  BY DEF AskForSegment
<1>6. n = IF fw.left > Segment THEN Segment ELSE fw.left
  OBVIOUS
<1> HIDE DEF n
<1>7. rest = fw.left - n
  OBVIOUS
<1> HIDE DEF rest
<1>8. Effect(fw.step, fw.args, rest, n, fw.toSend)
  BY <1>1, <1>3, <1>4, Asking, Zenon
<1>9. Effect(fw.step, fw.args, fw.left - n, n, fw.toSend)
  BY <1>7, <1>8
<1>10. AsksFor(n)
  BY <1>1, <1>5, <1>6, <1>9 DEF AsksFor
<1> QED  BY <1>3, <1>10, Zenon

LEMMA ForwardByteDoes ==
  ASSUME FwAlone, LinkTypes, ForwardByte
  PROVE  ForwardsOne
<1>1. /\ Running /\ Step.op = "packets" /\ fw \in FwShape /\ fw.seg > 0
  BY HereIs DEF ForwardByte
<1> DEFINE n == fw.seg - 1
<1>2. n \in 0 .. Segment /\ fw' = [fw EXCEPT !.seg = n]
  <2>1. fw.seg \in 0 .. Segment
    BY <1>1, Fields
  <2>2. n \in 0 .. Segment
    BY <1>1, <2>1, Sizes
  <2> QED  BY <2>2 DEF ForwardByte
<1> HIDE DEF n
<1>3. Effect(fw.step, fw.args, fw.left, n, fw.toSend)
  BY <1>1, <1>2, Forwards, Zenon
<1> QED  BY <1>1, <1>3 DEF ForwardsOne, ForwardByte, n

LEMMA EndPacketsDoes ==
  ASSUME FwAlone, LinkTypes, EndPackets
  PROVE  \E n \in Nat : PacketsEnd(n)
<1>1. /\ Running /\ Step.op = "packets" /\ fw \in FwShape /\ fw.seg = 0 /\ fw.left = 0
  BY HereIs DEF EndPackets
<1>2. Effect(fw.step + 1, fw.args, fw.left, fw.seg, fw.toSend)
  BY <1>1, Advances DEF EndPackets
<1>3. PICK k \in 0 .. Len(toProg) : toProg' = SubSeq(toProg, k + 1, Len(toProg))
  BY DEF EndPackets
<1>4. UNCHANGED toHost
  BY DEF EndPackets
<1>5. PacketsEnd(k)
  BY <1>1, <1>2, <1>3, <1>4 DEF PacketsEnd
<1>6. k \in Nat
  BY <1>3
<1> QED  BY <1>5, <1>6

LEMMA ErasePageDoes ==
  ASSUME FwAlone, LinkTypes, ErasePage
  PROVE  /\ ErasesOne \/ \E u \in Seq(Bytes) : Fails(u)
         /\ UNCHANGED portOpen /\ faults' \in 0 .. MaxFaults
<1>1. /\ Running /\ Step.op = "erase" /\ fw \in FwShape /\ fw.left > 0
  BY HereIs DEF ErasePage
<1>2. UNCHANGED toProg /\ UNCHANGED portOpen
  BY DEF ErasePage
<1>3. faults \in 0 .. MaxFaults
  BY DEF LinkTypes
<1>4. CASE fw' = [fw EXCEPT !.left = @ - 1] /\ Reply(<<REPL_ACK>>) /\ UNCHANGED faults
  <2> DEFINE l == fw.left - 1
  <2>1. l \in 0 .. MaxSize /\ fw' = [fw EXCEPT !.left = l]
    <3>1. fw.left \in 0 .. MaxSize
      BY <1>1, Fields
    <3>2. l \in 0 .. MaxSize
      BY <1>1, <3>1, Sizes
    <3> QED  BY <1>4, <3>2
  <2> HIDE DEF l
  <2>2. Effect(fw.step, fw.args, l, fw.seg, fw.toSend)
    BY <1>1, <2>1, PagesLeft, Zenon
  <2>3. ErasesOne
    BY <1>1, <1>2, <1>4, <2>2 DEF ErasesOne, l
  <2> QED  BY <1>2, <1>3, <1>4, <2>3
<1>5. ASSUME NEW kind \in {"noack", "timeout"}, Fault(kind), Fail(ReplyFor[kind])
      PROVE  (\E u \in Seq(Bytes) : Fails(u)) /\ faults' \in 0 .. MaxFaults
  <2> DEFINE reply == ReplyFor[kind]
  <2>1. reply \in FailureReplies /\ Fail(reply)
    BY <1>5, RepliesAreBytes DEF Failures
  <2> HIDE DEF reply
  <2>2. PICK u \in Seq(Bytes) : /\ Len(u) = fw.toSend + 1 /\ u[Len(u)] \in FailureReplies
                                /\ Reply(u)
    BY <2>1, FailDoes
  <2>3. Left
    BY <2>1, FailDoes
  <2>4. Fails(u)
    BY <1>1, <1>2, <2>2, <2>3 DEF Fails
  <2> QED  BY <1>5, <2>4, FaultTypes
<1> QED  BY <1>2, <1>4, <1>5 DEF ErasePage

\* Every step of the firmware is one of these
LEMMA FwStep ==
  ASSUME FwAlone, LinkTypes, FwNext
  PROVE  FwDoes /\ UNCHANGED portOpen /\ faults' \in 0 .. MaxFaults
<1>1. faults \in 0 .. MaxFaults
  BY DEF LinkTypes
<1>2. CASE ReceiveCommand
  BY <1>1, <1>2 DEF FwDoes, ReceiveCommand
<1>3. CASE ReplyOk
  BY <1>1, <1>3 DEF FwDoes, ReplyOk
<1>4. CASE SendAck
  BY <1>1, <1>4, SendAckDoes DEF FwDoes, SendAck
<1>5. CASE SetPadding
  BY <1>1, <1>5, SetPaddingDoes DEF FwDoes, SetPadding, linkVars
<1>6. CASE ReceiveArgument
  BY <1>1, <1>6, ReceiveArgumentDoes DEF FwDoes, ReceiveArgument
<1>7. CASE ReceiveSize
  BY <1>1, <1>7, ReceiveSizeDoes DEF FwDoes, ReceiveSize
<1>8. CASE TalkToTarget
  BY <1>8, TalkToTargetDoes DEF FwDoes
<1>9. CASE FetchFromTarget
  BY <1>9, FetchFromTargetDoes DEF FwDoes
<1>10. CASE StreamByte
  BY <1>10, StreamByteDoes DEF FwDoes
<1>11. CASE StreamEnd
  BY <1>1, <1>11, StreamEndDoes DEF FwDoes, StreamEnd, linkVars
<1>12. CASE AskForSegment
  BY <1>1, <1>12, AskForSegmentDoes DEF FwDoes, AskForSegment
<1>13. CASE ForwardByte
  BY <1>1, <1>13, ForwardByteDoes DEF FwDoes, ForwardByte
<1>14. CASE EndPackets
  BY <1>1, <1>14, EndPacketsDoes DEF FwDoes, EndPackets
<1>15. CASE ErasePage
  BY <1>15, ErasePageDoes DEF FwDoes
<1>16. CASE EraseEnd
  BY <1>1, <1>16, EraseEndDoes DEF FwDoes, EraseEnd, linkVars
<1>17. CASE WaitNotBusy
  BY <1>17, WaitNotBusyDoes DEF FwDoes
<1>18. CASE SetNvmWrite
  BY <1>1, <1>18, SetNvmWriteDoes DEF FwDoes, SetNvmWrite, linkVars
<1> QED  BY <1>2, <1>3, <1>4, <1>5, <1>6, <1>7, <1>8, <1>9, <1>10, <1>11, <1>12, <1>13,
            <1>14, <1>15, <1>16, <1>17, <1>18 DEF FwNext

\* A byte is taken for a command
Begins ==
  LET b == Head(toProg)
  IN  /\ ~Running /\ toProg # << >> /\ toProg' = Tail(toProg) /\ UNCHANGED toHost
      /\ Accepts(b.val) /\ b.val \in Commands
      /\ fw' \in FwShape /\ fw'.cmd = b.val /\ fw'.step = 1 /\ fw'.args = << >>
      /\ fw'.left = fw.left /\ fw'.seg = fw.seg /\ fw'.toSend = fw.toSend
      /\ fw'.loop = fw.loop /\ fw'.open = fw.open /\ fw'.answered = fw.answered
      /\ fw'.astray = Judge(b)

\* A byte is no command
Rejects ==
  /\ ~Running /\ toProg # << >> /\ toProg' = Tail(toProg)
  /\ ~Accepts(Head(toProg).val)
  /\ Reply(<< REPL_INVALID >>) /\ UNCHANGED fw

LEMMA AcceptsCommands ==
  ASSUME NEW b, Accepts(b)
  PROVE  b \in Commands
BY DEF Accepts, Commands

LEMMA ReceiveCommandDoes ==
  ASSUME FwAlone, LinkTypes, ReceiveCommand
  PROVE  Begins \/ Rejects
<1>1. ~Running /\ toProg # << >> /\ toProg' = Tail(toProg)
  BY DEF ReceiveCommand
<1>2. fw \in FwShape
  BY Shape DEF FwAlone
<1> DEFINE b == Head(toProg)
           judge == Judge(b)
           write == fw.nvmWrite /\ b.val # CMD_START
           code == b.val
<1>3. CASE /\ Accepts(b.val)
           /\ fw' = [fw EXCEPT !.cmd = b.val, !.step = 1, !.args = << >>,
                                !.masked = FALSE, !.astray = Judge(b),
                                !.nvmWrite = @ /\ b.val # CMD_START]
           /\ UNCHANGED toHost
  <2>1. code \in Commands
    BY <1>3, AcceptsCommands
  <2>2. judge \in BOOLEAN
    BY <1>1, <1>2, Fields, TailTypes DEF Judge, Sending
  <2>3. write \in BOOLEAN
    BY <1>2, Fields
  <2>4. fw' = [fw EXCEPT !.cmd = code, !.step = 1, !.args = << >>,
                         !.masked = FALSE, !.astray = judge, !.nvmWrite = write]
    BY <1>3
  <2> HIDE DEF b, judge, write, code
  <2>5. Updated
    <3>1. fw' = [x \in DOMAIN fw' |-> fw'[x]]
      BY <2>4, Zenon
    <3>2. DOMAIN fw' = DOMAIN fw
      BY <1>2, <2>4 DEF FwShape
    <3> QED  BY <3>1, <3>2 DEF Updated
  <2>6. /\ fw'.cmd = code /\ fw'.step = 1 /\ fw'.args = << >>
        /\ fw'.left = fw.left /\ fw'.seg = fw.seg /\ fw'.toSend = fw.toSend
        /\ fw'.loop = fw.loop /\ fw'.open = fw.open /\ fw'.answered = fw.answered
        /\ fw'.sigAddr = fw.sigAddr /\ fw'.masked = FALSE /\ fw'.astray = judge
        /\ fw'.nvmWrite = write
    BY <1>2, <2>4 DEF FwShape
  <2>7. fw' \in FwShape
    <3>1. fw.loop \in {"main", "cmd"}
      BY <1>2 DEF FwShape
    <3>2. fw'.args \in Seq(Bytes) /\ fw'.step \in Nat /\ fw'.masked \in BOOLEAN
      <4>1. fw'.args \in Seq(Bytes)
        BY <1>2, <2>6, Fields
      <4>2. fw'.step \in Nat
        BY <2>6
      <4>3. fw'.masked \in BOOLEAN
        BY <2>6, Zenon
      <4> QED  BY <4>1, <4>2, <4>3
    <3>3. /\ fw'.left \in 0 .. MaxSize /\ fw'.seg \in 0 .. Segment /\ fw'.toSend \in 0 .. MaxSize + 3
          /\ fw'.open \in BOOLEAN /\ fw'.answered \in Commands \cup {CMD_NONE}
          /\ fw'.sigAddr \in BOOLEAN /\ fw'.loop \in {"main", "cmd"}
          /\ fw'.cmd \in Commands \cup {CMD_NONE} /\ fw'.astray \in BOOLEAN
          /\ fw'.nvmWrite \in BOOLEAN
      BY <1>2, <2>1, <2>2, <2>3, <2>6, <3>1, Fields
    <3> QED  BY <1>2, <2>5, <3>2, <3>3, Reshaped
  <2> QED  BY <1>1, <1>3, <2>1, <2>6, <2>7 DEF Begins, b, judge, code
<1>4. CASE ~Accepts(b.val) /\ Reply(<<REPL_INVALID>>) /\ UNCHANGED fw
  BY <1>1, <1>4 DEF Rejects
<1> QED  BY <1>3, <1>4, Zenon DEF ReceiveCommand

\* The command is performed
Finishes ==
  /\ Running /\ Step.op = "ok" /\ Reply(<< REPL_OK >>) /\ UNCHANGED toProg
  /\ fw' \in FwShape /\ fw'.step = 0 /\ fw'.answered = fw.cmd
  /\ fw'.loop = IF fw.cmd = CMD_STOP THEN "main" ELSE "cmd"
  /\ fw.cmd = CMD_STOP => ~fw'.open
  /\ fw.cmd = CMD_START => fw'.open
  /\ fw.cmd \notin {CMD_STOP, CMD_START} => fw'.open = fw.open
  /\ fw'.cmd = fw.cmd /\ fw'.args = fw.args /\ fw'.left = fw.left /\ fw'.seg = fw.seg
  /\ fw'.toSend = fw.toSend /\ fw'.astray = fw.astray

LEMMA ReplyOkDoes ==
  ASSUME FwAlone, LinkTypes, ReplyOk
  PROVE  Finishes
<1>1. /\ Running /\ Step.op = "ok" /\ fw \in FwShape /\ fw.cmd \in Commands
  BY HereIs DEF ReplyOk
<1> DEFINE loop == IF fw.cmd = CMD_STOP THEN "main" ELSE "cmd"
           open == IF fw.cmd = CMD_STOP THEN FALSE ELSE fw.open \/ fw.cmd = CMD_START
           done == fw.cmd
<1>2. fw' = [fw EXCEPT !.step = 0, !.answered = done, !.loop = loop, !.open = open]
  BY DEF ReplyOk
<1>3. loop \in {"main", "cmd"} /\ open \in BOOLEAN
  <2>1. loop \in {"main", "cmd"}
    OBVIOUS
  <2>2. CASE fw.cmd = CMD_STOP
    BY <2>1, <2>2, Zenon
  <2>3. CASE fw.cmd # CMD_STOP
    BY <2>1, <2>3, Zenon
  <2> QED  BY <2>2, <2>3, Zenon
<1> HIDE DEF loop, open, done
<1>4. Updated
  <2>1. fw' = [x \in DOMAIN fw' |-> fw'[x]]
    BY <1>2, Zenon
  <2>2. DOMAIN fw' = DOMAIN fw
    BY <1>1, <1>2 DEF FwShape
  <2> QED  BY <2>1, <2>2 DEF Updated
<1>5. /\ fw'.step = 0 /\ fw'.answered = done /\ fw'.loop = loop /\ fw'.open = open
      /\ fw'.cmd = fw.cmd /\ fw'.args = fw.args /\ fw'.left = fw.left /\ fw'.seg = fw.seg
      /\ fw'.toSend = fw.toSend /\ fw'.astray = fw.astray /\ fw'.nvmWrite = fw.nvmWrite
      /\ fw'.sigAddr = fw.sigAddr /\ fw'.masked = fw.masked
  BY <1>1, <1>2 DEF FwShape
<1>6. fw' \in FwShape
  <2>1. fw'.step \in Nat
    BY <1>5
  <2>2. /\ fw'.left \in 0 .. MaxSize /\ fw'.seg \in 0 .. Segment /\ fw'.toSend \in 0 .. MaxSize + 3
        /\ fw'.open \in BOOLEAN /\ fw'.answered \in Commands \cup {CMD_NONE}
        /\ fw'.sigAddr \in BOOLEAN /\ fw'.loop \in {"main", "cmd"}
        /\ fw'.cmd \in Commands \cup {CMD_NONE} /\ fw'.astray \in BOOLEAN
        /\ fw'.nvmWrite \in BOOLEAN /\ fw'.masked \in BOOLEAN /\ fw'.args \in Seq(Bytes)
    BY <1>1, <1>3, <1>5, Fields DEF done
  <2> QED  BY <1>1, <1>4, <2>1, <2>2, Reshaped
<1>7. /\ fw.cmd = CMD_STOP => ~open
      /\ fw.cmd = CMD_START => open
      /\ fw.cmd \notin {CMD_STOP, CMD_START} => open = fw.open
  <2>1. CASE fw.cmd = CMD_STOP
    BY <2>1 DEF open
  <2>2. CASE fw.cmd = CMD_START
    BY <2>2 DEF open
  <2>3. CASE fw.cmd \notin {CMD_STOP, CMD_START}
    <3>1. fw.cmd # CMD_STOP /\ fw.cmd # CMD_START
      BY <2>3
    <3>2. open <=> fw.open
      BY <3>1, Zenon DEF open
    <3>3. fw.open \in BOOLEAN
      BY <1>1, Fields
    <3>4. open = fw.open
      BY <1>3, <3>2, <3>3, Zenon
    <3> QED  BY <2>3, <3>1, <3>4, Zenon
  <2> QED  BY <2>1, <2>2, <2>3
<1>8. Reply(<< REPL_OK >>) /\ UNCHANGED toProg
  BY DEF ReplyOk
<1>9. fw'.loop = IF fw.cmd = CMD_STOP THEN "main" ELSE "cmd"
  BY <1>5 DEF loop
<1>10. fw'.open = open /\ fw'.answered = fw.cmd
  BY <1>5 DEF done
<1> QED  BY <1>1, <1>5, <1>6, <1>7, <1>8, <1>9, <1>10 DEF Finishes

LEMMA FwActs ==
  ASSUME FwAlone, LinkTypes, FwNext
  PROVE  /\ \/ Begins \/ Rejects \/ Finishes \/ TakesOne \/ ForwardsOne \/ ErasesOne
            \/ \E u \in Seq(Bytes) : Onward(u) \/ Fails(u)
            \/ \E size \in 0 .. MaxSize : TakesLast(size)
            \/ \E b \in MemoryBytes : Streams(b)
            \/ \E n \in Nat : AsksFor(n) \/ PacketsEnd(n)
         /\ UNCHANGED portOpen /\ faults' \in 0 .. MaxFaults
BY FwStep, ReceiveCommandDoes, ReplyOkDoes, Zenon DEF FwDoes

-------------------------------------------------------------------------------
(* The firmware keeps its types *)

\* A handler's step, with the tables of its command
LEMMA Here ==
  ASSUME FwAlone, Running
  PROVE  /\ Step = Handlers[fw.cmd][fw.step] /\ fw \in FwShape /\ fw.cmd \in Commands
         /\ fw.step \in Nat /\ fw.step >= 1 /\ fw.step <= LastOp(fw.cmd) /\ LastOp(fw.cmd) \in Nat
         /\ OpPlaces(fw.cmd, fw.step) /\ OpFields(fw.cmd, fw.step) /\ OpMoves(fw.cmd, fw.step)
         /\ Step.op \in Ops
<1>1. FwTypes /\ fw \in FwShape
  BY Shape DEF FwAlone
<1>2. Step = Handlers[fw.cmd][fw.step]
  BY DEF Step
<1> QED  BY <1>1, <1>2, AtStep DEF OpMeans, OpPlaces

LEMMA HeldHere ==
  ASSUME FwAlone, Running
  PROVE  /\ Step.op \notin {"recv", "size"} => fw.args = << >>
         /\ Step.op # "packets" => fw.seg = 0
         /\ fw.left # 0 => \/ Step.op = "packets"
                           \/ fw.cmd = CMD_FLASH_PAGE_ERASE /\ fw.step \in 5 .. 8
         /\ \/ fw.cmd = CMD_GETBLOCK /\ fw.step \in {3, 4} /\ fw.toSend <= MaxSize
            \/ fw.toSend = Owes(fw.cmd, fw.step)
<1>1. At("recv") => Step.op = "recv"
  BY DEF At
<1>2. At("size") => Step.op = "size"
  BY DEF At
<1>3. At("packets") => Step.op = "packets"
  BY DEF At
<1>4. \/ fw.cmd = CMD_GETBLOCK /\ fw.step \in {3, 4} /\ fw.toSend <= MaxSize
      \/ fw.toSend = Owes(fw.cmd, fw.step)
  BY DEF FwAlone, FwOwes
<1>5. Step.op \notin {"recv", "size"} => fw.args = << >>
  <2>1. ~At("recv") /\ ~At("size") => fw.args = << >>
    BY NothingHeld
  <2> QED  BY <1>1, <1>2, <2>1, Zenon
<1>6. Step.op # "packets" => fw.seg = 0
  BY <1>3, NothingHeld
<1>7. fw.left # 0 => \/ Step.op = "packets"
                     \/ fw.cmd = CMD_FLASH_PAGE_ERASE /\ fw.step \in 5 .. 8
  BY <1>3, NothingHeld
<1> QED  BY <1>4, <1>5, <1>6, <1>7, Zenon

LEMMA OnwardKeeps ==
  ASSUME FwAlone, NEW u, Onward(u)
  PROVE  FwAlone'
<1>1. /\ Running /\ Step.op \notin {"recv", "size", "packets", "ok"}
      /\ Step.op = "stream" => fw.toSend = 0
      /\ Step.op = "erase" => fw.left = 0
  BY DEF Onward
<1> DEFINE owed == IF Step.op = "pad" THEN Step.n ELSE IF Step.op = "fetch" THEN 0 ELSE fw.toSend
<1>2. Effect(fw.step + 1, fw.args, fw.left, fw.seg, owed)
  BY DEF Onward
<1>3. fw.args = << >>
  BY <1>1, HeldHere, Zenon
<1>4. fw.seg = 0
  BY <1>1, HeldHere
<1>5. \/ fw.cmd = CMD_GETBLOCK /\ fw.step \in {3, 4} /\ fw.toSend <= MaxSize
      \/ fw.toSend = Owes(fw.cmd, fw.step)
  BY <1>1, HeldHere
<1>6. OpPlaces(fw.cmd, fw.step) /\ Step = Handlers[fw.cmd][fw.step]
  BY <1>1, Here
<1>7. Step.op = "stream" <=> fw.cmd = CMD_GETBLOCK /\ fw.step = 4
  BY <1>6 DEF OpPlaces
<1>8. Step.op = "erase" <=> fw.cmd = CMD_FLASH_PAGE_ERASE /\ fw.step = 8
  BY <1>6 DEF OpPlaces
<1>9. \/ owed = Pads(fw.cmd, fw.step)
      \/ fw.cmd = CMD_GETBLOCK /\ fw.step \in {2, 3} /\ owed <= MaxSize
  <2>1. CASE Step.op \in {"pad", "fetch"}
    BY <1>6, <2>1 DEF Pads
  <2>2. CASE Step.op \notin {"pad", "fetch"} /\ fw.toSend = Owes(fw.cmd, fw.step)
    BY <1>6, <2>2 DEF Pads
  <2>3. CASE /\ Step.op \notin {"pad", "fetch"}
             /\ fw.cmd = CMD_GETBLOCK /\ fw.step = 3 /\ fw.toSend <= MaxSize
    BY <2>3
  <2>4. CASE Step.op \notin {"pad", "fetch"} /\ fw.cmd = CMD_GETBLOCK /\ fw.step = 4
    <3>1. fw.toSend = 0
      BY <1>1, <1>7, <2>4
    <3>2. Owes(fw.cmd, fw.step) = 0
      BY <2>4, GetBlockFlow
    <3> QED  BY <1>6, <2>4, <3>1, <3>2 DEF Pads
  <2> QED  BY <1>5, <2>1, <2>2, <2>3, <2>4
<1>10. fw.left # 0 => fw.cmd = CMD_FLASH_PAGE_ERASE /\ fw.step \in 5 .. 7
  <2>1. fw.left # 0 => fw.cmd = CMD_FLASH_PAGE_ERASE /\ fw.step \in 5 .. 8
    BY <1>1, HeldHere
  <2> QED  BY <1>1, <1>8, <2>1
<1> HIDE DEF owed
<1>11. /\ fw' \in FwShape /\ fw'.cmd = fw.cmd /\ fw'.step = fw.step + 1
       /\ fw'.left = fw.left /\ fw'.seg = 0 /\ fw'.toSend = owed
  BY <1>2, <1>4 DEF Effect
<1>12. fw'.args = << >>
  BY <1>2, <1>3, Zenon DEF Effect
<1> HIDE DEF Effect
<1>13. fw'.left # 0 => \/ fw.cmd = CMD_SENDBLOCK /\ fw.step = 2
                       \/ fw.cmd = CMD_FLASH_PAGE_ERASE /\ fw.step \in 4 .. 7
  BY <1>10, <1>11
<1>14. \/ fw'.toSend = Pads(fw.cmd, fw.step)
       \/ fw.cmd = CMD_GETBLOCK /\ fw.step \in {2, 3} /\ fw'.toSend <= MaxSize
  BY <1>9, <1>11
<1> QED  BY <1>1, <1>11, <1>12, <1>13, <1>14, GoesToNext

LEMMA TakesOneKeeps ==
  ASSUME FwAlone, TakesOne
  PROVE  FwAlone'
<1>1. /\ Running /\ Step.op \in {"recv", "size"}
      /\ Len(fw.args) + 1 < Gets(fw.cmd, fw.step)
  BY DEF TakesOne
<1> DEFINE b == Head(toProg).val
           args == Append(fw.args, b)
<1>2. Effect(fw.step, args, fw.left, fw.seg, fw.toSend)
  BY DEF TakesOne
<1>3. /\ Len(fw.args) \in Nat /\ fw.args \in Seq(Bytes)
      /\ Step.op = "recv" => Gets(fw.cmd, fw.step) = Step.n
      /\ Step.op = "size" => Gets(fw.cmd, fw.step) = 2
  BY <1>1, ArgsHeld
<1>4. /\ fw' \in FwShape /\ fw'.cmd = fw.cmd /\ fw'.step = fw.step /\ fw'.args = args
      /\ fw'.left = fw.left /\ fw'.seg = fw.seg /\ fw'.toSend = fw.toSend
  BY <1>2 DEF Effect
<1>5. Len(args) = Len(fw.args) + 1
  BY <1>3
<1> HIDE DEF args
<1>6. \/ At("recv") /\ Len(fw'.args) < Step.n
      \/ At("size") /\ Len(fw'.args) = 1
  <2>1. CASE Step.op = "recv"
    BY <1>1, <1>3, <1>4, <1>5, <2>1 DEF At
  <2>2. CASE Step.op = "size"
    BY <1>1, <1>3, <1>4, <1>5, <2>2 DEF At
  <2> QED  BY <1>1, <2>1, <2>2
<1>7. /\ Step.op # "packets" /\ fw.seg = 0
      /\ fw.left # 0 => fw.cmd = CMD_FLASH_PAGE_ERASE /\ fw.step \in 5 .. 8
  BY <1>1, HeldHere
<1> QED  BY <1>1, <1>4, <1>6, <1>7, StaysThere

LEMMA StreamsKeeps ==
  ASSUME FwAlone, NEW b, Streams(b)
  PROVE  FwAlone'
<1>1. Running /\ Step.op = "stream" /\ fw.toSend > 0
  BY DEF Streams
<1>2. Effect(fw.step, fw.args, fw.left, fw.seg, fw.toSend - 1)
  BY DEF Streams
<1>3. fw.cmd = CMD_GETBLOCK /\ fw.step = 4
  BY <1>1, Here DEF OpPlaces
<1>4. Owes(fw.cmd, fw.step) = 0
  BY <1>3, GetBlockFlow
<1>5. fw.toSend <= MaxSize /\ fw.toSend \in Nat
  BY <1>1, <1>4, Here, HeldHere, Fields, Sizes
<1>6. fw.seg = 0 /\ fw.left = 0
  BY <1>1, <1>3, HeldHere
<1>7. fw.args = << >>
  BY <1>1, HeldHere, Zenon
<1>8. /\ fw' \in FwShape /\ fw'.cmd = fw.cmd /\ fw'.step = fw.step
      /\ fw'.left = fw.left /\ fw'.seg = fw.seg /\ fw'.toSend = fw.toSend - 1
  BY <1>2 DEF Effect
<1>9. fw'.args = << >>
  BY <1>2, <1>7, Zenon DEF Effect
<1>10. At("stream") /\ fw'.toSend <= MaxSize
  BY <1>1, <1>5, <1>8, Sizes DEF At
<1> QED  BY <1>1, <1>6, <1>8, <1>9, <1>10, StaysThere

LEMMA PacketsKeep ==
  ASSUME FwAlone, ForwardsOne \/ \E n \in Nat : AsksFor(n)
  PROVE  FwAlone'
<1>1. Running /\ Step.op = "packets"
  BY DEF ForwardsOne, AsksFor
<1>2. At("packets")
  BY <1>1 DEF At
<1>3. fw.args = << >>
  BY <1>1, HeldHere, Zenon
<1>4. \E left, seg : Effect(fw.step, fw.args, left, seg, fw.toSend)
  <2>1. CASE ForwardsOne
    BY <2>1, Zenon DEF ForwardsOne
  <2>2. ASSUME NEW n \in Nat, AsksFor(n)  PROVE \E left, seg : Effect(fw.step, fw.args, left, seg, fw.toSend)
    BY <2>2, Zenon DEF AsksFor
  <2> QED  BY <2>1, <2>2
<1>5. PICK left, seg : Effect(fw.step, fw.args, left, seg, fw.toSend)
  BY <1>4
<1>6. /\ fw' \in FwShape /\ fw'.cmd = fw.cmd /\ fw'.step = fw.step /\ fw'.toSend = fw.toSend
  BY <1>5 DEF Effect
<1>7. fw'.args = << >>
  BY <1>3, <1>5, Zenon DEF Effect
<1> QED  BY <1>1, <1>2, <1>6, <1>7, StaysThere

LEMMA ErasesOneKeeps ==
  ASSUME FwAlone, ErasesOne
  PROVE  FwAlone'
<1>1. Running /\ Step.op = "erase"
  BY DEF ErasesOne
<1>2. fw.cmd = CMD_FLASH_PAGE_ERASE /\ fw.step = 8
  BY <1>1, Here DEF OpPlaces
<1>3. Effect(fw.step, fw.args, fw.left - 1, fw.seg, fw.toSend)
  BY DEF ErasesOne
<1>4. fw.args = << >>
  BY <1>1, HeldHere, Zenon
<1>5. fw.seg = 0
  BY <1>1, HeldHere
<1>6. /\ fw' \in FwShape /\ fw'.cmd = fw.cmd /\ fw'.step = fw.step /\ fw'.seg = 0
      /\ fw'.toSend = fw.toSend
  BY <1>3, <1>5 DEF Effect
<1>7. fw'.args = << >>
  BY <1>3, <1>4, Zenon DEF Effect
<1> QED  BY <1>1, <1>2, <1>6, <1>7, StaysThere

LEMMA TakesLastKeeps ==
  ASSUME FwAlone, NEW size \in 0 .. MaxSize, TakesLast(size)
  PROVE  FwAlone'
<1>1. Running /\ Step.op \in {"recv", "size"}
  BY DEF TakesLast
<1> DEFINE left == IF Step.op = "size" /\ fw.cmd # CMD_GETBLOCK THEN size ELSE fw.left
           owed == IF Step.op = "size" /\ fw.cmd = CMD_GETBLOCK THEN size ELSE fw.toSend
<1>2. Effect(fw.step + 1, << >>, left, fw.seg, owed)
  BY DEF TakesLast
<1>3. /\ Step = Handlers[fw.cmd][fw.step] /\ OpPlaces(fw.cmd, fw.step) /\ OpMoves(fw.cmd, fw.step)
  BY <1>1, Here
<1>4. Step.op = "size" <=> \/ fw.cmd \in {CMD_SENDBLOCK, CMD_GETBLOCK} /\ fw.step = 2
                           \/ fw.cmd = CMD_FLASH_PAGE_ERASE /\ fw.step = 4
  BY <1>3 DEF OpPlaces
<1>5. fw.seg = 0
  BY <1>1, HeldHere
<1>6. fw.left # 0 => fw.cmd = CMD_FLASH_PAGE_ERASE /\ fw.step \in 5 .. 8
  BY <1>1, HeldHere
<1>7. Step.op # "erase" => ~(fw.cmd = CMD_FLASH_PAGE_ERASE /\ fw.step = 8)
  BY <1>3 DEF OpPlaces
<1>8. Step.op # "stream" => ~(fw.cmd = CMD_GETBLOCK /\ fw.step = 4)
  BY <1>3 DEF OpPlaces
<1>9. \/ fw.cmd = CMD_GETBLOCK /\ fw.step \in {3, 4} /\ fw.toSend <= MaxSize
      \/ fw.toSend = Owes(fw.cmd, fw.step)
  BY <1>1, HeldHere
<1>10. \/ owed = Pads(fw.cmd, fw.step)
       \/ fw.cmd = CMD_GETBLOCK /\ fw.step \in {2, 3} /\ owed <= MaxSize
  <2>1. Pads(fw.cmd, fw.step) = Owes(fw.cmd, fw.step)
    BY <1>1, <1>3 DEF Pads
  <2>2. CASE Step.op = "size" /\ fw.cmd = CMD_GETBLOCK
    BY <1>4, <2>2, Sizes
  <2>3. CASE ~(Step.op = "size" /\ fw.cmd = CMD_GETBLOCK)
    BY <1>1, <1>8, <1>9, <2>1, <2>3
  <2> QED  BY <2>2, <2>3
<1>11. left # 0 => \/ fw.cmd = CMD_SENDBLOCK /\ fw.step = 2
                   \/ fw.cmd = CMD_FLASH_PAGE_ERASE /\ fw.step \in 4 .. 7
  <2>1. CASE Step.op = "size" /\ fw.cmd # CMD_GETBLOCK
    BY <1>4, <2>1
  <2>2. CASE ~(Step.op = "size" /\ fw.cmd # CMD_GETBLOCK)
    BY <1>1, <1>6, <1>7, <2>2
  <2> QED  BY <2>1, <2>2
<1> HIDE DEF left, owed
<1>12. /\ fw' \in FwShape /\ fw'.cmd = fw.cmd /\ fw'.step = fw.step + 1
       /\ fw'.left = left /\ fw'.seg = 0 /\ fw'.toSend = owed
  BY <1>2, <1>5 DEF Effect
<1>13. fw'.args = << >>
  BY <1>2, Zenon DEF Effect
<1>14. fw'.left # 0 => \/ fw.cmd = CMD_SENDBLOCK /\ fw.step = 2
                       \/ fw.cmd = CMD_FLASH_PAGE_ERASE /\ fw.step \in 4 .. 7
  BY <1>11, <1>12
<1>15. \/ fw'.toSend = Pads(fw.cmd, fw.step)
       \/ fw.cmd = CMD_GETBLOCK /\ fw.step \in {2, 3} /\ fw'.toSend <= MaxSize
  BY <1>10, <1>12
<1> QED  BY <1>1, <1>12, <1>13, <1>14, <1>15, GoesToNext

LEMMA PacketsEndKeeps ==
  ASSUME FwAlone, NEW k, PacketsEnd(k)
  PROVE  FwAlone'
<1>1. Running /\ Step.op = "packets" /\ fw.seg = 0 /\ fw.left = 0
  BY DEF PacketsEnd
<1>2. Effect(fw.step + 1, fw.args, fw.left, fw.seg, fw.toSend)
  BY DEF PacketsEnd
<1>3. fw.cmd = CMD_SENDBLOCK /\ Step = Handlers[fw.cmd][fw.step]
  BY <1>1, Here DEF OpPlaces
<1>4. fw.args = << >>
  BY <1>1, HeldHere, Zenon
<1>5. fw.toSend = Pads(fw.cmd, fw.step)
  BY <1>1, <1>3, HeldHere DEF Pads
<1>6. /\ fw' \in FwShape /\ fw'.cmd = fw.cmd /\ fw'.step = fw.step + 1
      /\ fw'.left = 0 /\ fw'.seg = 0 /\ fw'.toSend = fw.toSend
  BY <1>1, <1>2 DEF Effect
<1>7. fw'.args = << >>
  BY <1>2, <1>4, Zenon DEF Effect
<1> QED  BY <1>1, <1>5, <1>6, <1>7, GoesToNext

LEMMA AtRest ==
  ASSUME FwAlone, ~Running
  PROVE  fw.args = << >> /\ fw.left = 0 /\ fw.seg = 0 /\ fw.toSend = 0 /\ fw \in FwShape
<1>1. fw.args = << >>
  BY Zenon DEF FwAlone, FwHolds, At
<1>2. fw.left = 0 /\ fw.seg = 0 /\ fw.toSend = 0
  BY DEF FwAlone, FwHolds, FwOwes, At
<1> QED  BY <1>1, <1>2, Shape DEF FwAlone

LEMMA BeginsKeeps ==
  ASSUME FwAlone, Begins
  PROVE  FwAlone'
<1>1. fw.left = 0 /\ fw.seg = 0 /\ fw.toSend = 0
  BY AtRest DEF Begins
<1>2. /\ fw' \in FwShape /\ fw'.cmd \in Commands /\ fw'.step = 1
      /\ fw'.left = 0 /\ fw'.seg = 0 /\ fw'.toSend = 0
  BY <1>1 DEF Begins
<1>3. fw'.args = << >>
  BY DEF Begins
<1>4. Owes(fw'.cmd, 1) = 0 /\ 1 \in DOMAIN Handlers[fw'.cmd]
  BY <1>2, CommandBegins
<1>5. Running'
  BY <1>2 DEF Running
<1>6. FwTypes'
  BY <1>2, <1>4 DEF FwTypes, FwShape, Bytes
<1>7. FwOwes'
  BY <1>2, <1>4, <1>5 DEF FwOwes
<1>8. FwHolds'
  BY <1>2, <1>3 DEF FwHolds
<1> QED  BY <1>6, <1>7, <1>8 DEF FwAlone

LEMMA FinishesKeeps ==
  ASSUME FwAlone, Finishes
  PROVE  FwAlone'
<1>1. Running /\ Step.op = "ok"
  BY DEF Finishes
<1>2. fw.args = << >>
  BY <1>1, HeldHere, Zenon
<1>3. OpPlaces(fw.cmd, fw.step) /\ OpMoves(fw.cmd, fw.step) /\ Step = Handlers[fw.cmd][fw.step]
  BY <1>1, Here
<1>4. ~(fw.cmd = CMD_FLASH_PAGE_ERASE /\ fw.step \in 5 .. 8) /\ ~(fw.cmd = CMD_GETBLOCK /\ fw.step \in {3, 4})
  <2>1. fw.step = LastOp(fw.cmd)
    BY <1>1, <1>3 DEF OpPlaces
  <2>2. LastOp(CMD_FLASH_PAGE_ERASE) = 10
    BY FlashPageEraseOps
  <2>3. LastOp(CMD_GETBLOCK) = 5
    BY GetBlockOps
  <2> QED  BY <2>1, <2>2, <2>3
<1>5. fw.seg = 0 /\ fw.left = 0
  BY <1>1, <1>4, HeldHere
<1>6. fw.toSend = 0
  <2>1. fw.toSend = Owes(fw.cmd, fw.step)
    BY <1>1, <1>4, HeldHere
  <2> QED  BY <1>1, <1>3, <2>1 DEF OpMoves, OpPlaces
<1>7. /\ fw' \in FwShape /\ fw'.step = 0 /\ fw'.left = 0 /\ fw'.seg = 0 /\ fw'.toSend = 0
  BY <1>5, <1>6 DEF Finishes
<1>8. fw'.args = << >>
  BY <1>2, Zenon DEF Finishes
<1> QED  BY <1>7, <1>8, ComesToRest

LEMMA LeftKeeps ==
  ASSUME Left
  PROVE  FwAlone'
BY ComesToRest, Zenon DEF Left

LEMMA FwKeepsAlone ==
  ASSUME FwAlone, LinkTypes, FwNext
  PROVE  FwAlone'
<1>1. CASE Rejects
  <2>1. UNCHANGED fw
    BY <1>1 DEF Rejects
  <2> QED  BY <2>1 DEF FwAlone, FwTypes, FwOwes, FwHolds, Running, At, Step
<1>2. ASSUME NEW u, Fails(u)  PROVE FwAlone'
  BY <1>2, LeftKeeps DEF Fails
<1> QED  BY <1>1, <1>2, FwActs, BeginsKeeps, FinishesKeeps, TakesOneKeeps, PacketsKeep,
            ErasesOneKeeps, OnwardKeeps, TakesLastKeeps, StreamsKeeps, PacketsEndKeeps, Zenon

-------------------------------------------------------------------------------
(* The line keeps its types *)

LEMMA Single ==
  ASSUME NEW b \in Bytes
  PROVE  << b >> \in Seq(Bytes) /\ Len(<< b >>) = 1 /\ << b >>[1] = b
OBVIOUS

LEMMA CodesAreBytes ==
  REPL_OK \in Bytes /\ REPL_ACK \in Bytes /\ REPL_INVALID \in Bytes
BY DEF Bytes

LEMMA Dropped ==
  ASSUME NEW S, NEW s \in Seq(S), NEW k \in Nat
  PROVE  SubSeq(s, k + 1, Len(s)) \in Seq(S)
BY SubSeqProperties, LenProperties

\* What the firmware reads and sends leaves the line well typed
LEMMA FwKeepsLink ==
  ASSUME FwAlone, LinkTypes, FwNext
  PROVE  LinkTypes'
<1>1. UNCHANGED portOpen /\ faults' \in 0 .. MaxFaults
  BY FwActs
<1>2. toProg' \in Seq(Sending) /\ toHost' \in Seq(Bytes)
  <2>1. ASSUME UNCHANGED toHost  PROVE toHost' \in Seq(Bytes)
    BY <2>1 DEF LinkTypes
  <2>2. ASSUME UNCHANGED toProg  PROVE toProg' \in Seq(Sending)
    BY <2>2 DEF LinkTypes
  <2>3. ASSUME NEW u \in Seq(Bytes), Reply(u)  PROVE toHost' \in Seq(Bytes)
    BY <1>1, <2>3, ReplyTypes
  <2>4. ASSUME NEW b \in Bytes, Reply(<< b >>)  PROVE toHost' \in Seq(Bytes)
    <3>1. << b >> \in Seq(Bytes)
      BY Single, Zenon
    <3> QED  BY <2>3, <2>4, <3>1, Zenon
  <2>5. ASSUME toProg # << >>, toProg' = Tail(toProg)  PROVE toProg' \in Seq(Sending)
    BY <2>5, TailTypes
  <2>6. ASSUME NEW k \in Nat, toProg' = SubSeq(toProg, k + 1, Len(toProg))
        PROVE  toProg' \in Seq(Sending)
    BY <2>6, Dropped DEF LinkTypes
  <2>7. CASE Begins
    BY <2>7, <2>1, <2>5 DEF Begins
  <2>8. CASE Rejects
    BY <2>8, <2>4, <2>5, CodesAreBytes DEF Rejects
  <2>9. CASE Finishes
    BY <2>9, <2>2, <2>4, CodesAreBytes DEF Finishes
  <2>10. CASE TakesOne
    BY <2>10, <2>1, <2>5 DEF TakesOne
  <2>11. CASE ForwardsOne
    BY <2>11, <2>1, <2>5 DEF ForwardsOne
  <2>12. CASE ErasesOne
    BY <2>12, <2>2, <2>4, CodesAreBytes DEF ErasesOne
  <2>13. CASE \E u \in Seq(Bytes) : Onward(u) \/ Fails(u)
    BY <2>13, <2>2, <2>3 DEF Onward, Fails
  <2>14. CASE \E size \in 0 .. MaxSize : TakesLast(size)
    BY <2>14, <2>1, <2>5 DEF TakesLast
  <2>15. CASE \E b \in MemoryBytes : Streams(b)
    <3>1. PICK b \in MemoryBytes : Streams(b)
      BY <2>15
    <3>2. b \in Bytes
      BY MemoryAssumption DEF Bytes
    <3>3. Reply(<< b >>) /\ UNCHANGED toProg
      BY <3>1, Zenon DEF Streams
    <3> QED  BY <2>2, <2>4, <3>2, <3>3, Zenon
  <2>16. CASE \E n \in Nat : AsksFor(n) \/ PacketsEnd(n)
    BY <2>16, <2>1, <2>2, <2>4, <2>6, CodesAreBytes DEF AsksFor, PacketsEnd
  <2> QED  BY FwActs, <2>7, <2>8, <2>9, <2>10, <2>11, <2>12, <2>13, <2>14, <2>15, <2>16
<1> QED  BY <1>1, <1>2 DEF LinkTypes

-------------------------------------------------------------------------------
(* The controller keeps its types *)

HostShape == [job : Jobs \cup {<< >>}, pos : Nat, at : Nat, tries : 0 .. StartAttempts - 1,
              clean : BOOLEAN, fooled : BOOLEAN, skipped : BOOLEAN]

LEMMA StepsTyped ==
  ASSUME NEW call, IsCall(call)
  PROVE  Steps(call) \in Seq(StepKinds)
BY PlainSteps, StartSteps, SetBaudSteps, SetAddrSteps, GetByteSteps, SendByteSteps,
   GetBlockSteps, SendBlockSteps, PageEraseSteps, CallTypes DEF Operating

\* Where the controller is in a call of its job
LEMMA Calling ==
  ASSUME HostTypes, InSession
  PROVE  /\ IsJob(host.job) /\ host.pos \in DOMAIN host.job
         /\ host.pos \in Nat /\ Len(host.job) \in Nat
         /\ IsCall(Current) /\ host.at \in 1 .. LastStep(Current) /\ host.at \in Nat
         /\ LastStep(Current) \in Nat
         /\ Moves(Current, host.at) /\ HostStep \in StepKinds
         /\ host \in HostShape
<1>1. IsJob(host.job) /\ host.pos \in DOMAIN host.job /\ host \in HostShape /\ host.job \in Jobs
  BY JobsAssumption DEF HostTypes, HostShape
<1>2. host.job \in Seq([cmd : Operating \cup {CMD_START, CMD_STOP}, n : Nat])
  BY <1>1 DEF IsJob
<1>3. Current \in [cmd : Operating \cup {CMD_START, CMD_STOP}, n : Nat]
  <2> DEFINE S == [cmd : Operating \cup {CMD_START, CMD_STOP}, n : Nat]
  <2>1. host.job \in Seq(S) /\ host.pos \in DOMAIN host.job
    BY <1>1, <1>2
  <2> HIDE DEF S
  <2>2. host.job[host.pos] \in S
    BY <2>1
  <2> QED  BY <2>2 DEF Current, S
<1>4. Current.n <= Largest
  BY <1>1, LargestIsLargest DEF Current
<1>5. IsCall(Current)
  BY <1>1, <1>3, <1>4, Sizes DEF IsCall, IsJob, Current
<1>6. host.at \in 1 .. LastStep(Current) /\ LastStep(Current) \in Nat
  BY <1>5, LastSteps DEF HostTypes
<1>7. Moves(Current, host.at)
  BY <1>5, <1>6, StepMoves
<1>8. HostStep \in StepKinds
  BY <1>5, <1>6, StepsTyped DEF HostStep, LastStep
<1> QED  BY <1>1, <1>2, <1>5, <1>6, <1>7, <1>8

LEMMA StepData ==
  ASSUME NEW step \in StepKinds
  PROVE  /\ step.do = "write" => step.bytes \in Seq(Bytes)
         /\ step.do = "data" => step.n \in Nat
BY KindFacts, WriteFacts, DataFacts DEF StepKinds, Bytes

LEMMA SentTypes ==
  ASSUME LinkTypes, NEW bytes \in Seq(Bytes), NEW isCmd \in BOOLEAN, Sent(bytes, isCmd)
  PROVE  toProg' \in Seq(Sending)
<1> DEFINE sent == [k \in 1 .. Len(bytes) |-> [val |-> bytes[k], cmd |-> isCmd]]
<1>1. sent \in Seq(Sending)
  BY DEF Sending
<1>2. toProg' = toProg \o sent
  BY DEF Sent
<1> HIDE DEF sent
<1> QED  BY <1>1, <1>2 DEF LinkTypes

-------------------------------------------------------------------------------
(* What the steps of the controller do *)

HostUpdated == host' = [x \in DOMAIN host' |-> host'[x]] /\ DOMAIN host' = DOMAIN host

LEMMA HostReshaped ==
  ASSUME host \in HostShape, HostUpdated,
         host'.job \in Jobs \cup {<< >>}, host'.pos \in Nat, host'.at \in Nat,
         host'.tries \in 0 .. StartAttempts - 1, host'.clean \in BOOLEAN,
         host'.fooled \in BOOLEAN, host'.skipped \in BOOLEAN
  PROVE  host' \in HostShape
BY DEF HostShape, HostUpdated

LEMMA HostFields ==
  ASSUME host \in HostShape
  PROVE  /\ host.job \in Jobs \cup {<< >>} /\ host.pos \in Nat /\ host.at \in Nat
         /\ host.pos + 1 \in Nat /\ host.at + 1 \in Nat
         /\ host.tries \in 0 .. StartAttempts - 1 /\ 0 \in 0 .. StartAttempts - 1
         /\ host.clean \in BOOLEAN /\ host.fooled \in BOOLEAN /\ host.skipped \in BOOLEAN
BY StartAttemptsAssumption DEF HostShape

\* The controller is now at step at of call pos
Place(pos, at) ==
  /\ host' \in HostShape /\ host'.job = host.job /\ host'.pos = pos /\ host'.at = at

Flags(clean, fooled, skipped) ==
  /\ host'.clean <=> clean
  /\ host'.fooled <=> fooled
  /\ host'.skipped <=> skipped

LEMMA HostGoesOn ==
  ASSUME host \in HostShape, host' = NextStep
  PROVE  Place(host.pos, host.at + 1) /\ Flags(host.clean, host.fooled, host.skipped)
<1>1. host' = [host EXCEPT !.at = @ + 1]
  BY DEF NextStep
<1>2. HostUpdated
  <2>1. host' = [x \in DOMAIN host' |-> host'[x]]
    BY <1>1, Zenon
  <2>2. DOMAIN host' = DOMAIN host
    BY <1>1 DEF HostShape
  <2> QED  BY <2>1, <2>2 DEF HostUpdated
<1>3. /\ host'.job = host.job /\ host'.pos = host.pos /\ host'.at = host.at + 1
      /\ host'.tries = host.tries /\ host'.clean = host.clean
      /\ host'.fooled = host.fooled /\ host'.skipped = host.skipped
  BY <1>1 DEF HostShape
<1>4. host' \in HostShape
  BY <1>2, <1>3, HostFields, HostReshaped
<1> QED  BY <1>3, <1>4 DEF Place, Flags

LEMMA HostGoesOnUnclean ==
  ASSUME host \in HostShape, host' = [NextStep EXCEPT !.clean = FALSE]
  PROVE  Place(host.pos, host.at + 1) /\ Flags(FALSE, host.fooled, host.skipped)
<1>2. HostUpdated
  <2>1. host' = [x \in DOMAIN host' |-> host'[x]]
    BY Zenon DEF NextStep
  <2>2. DOMAIN host' = DOMAIN host
    BY DEF HostShape, NextStep
  <2> QED  BY <2>1, <2>2 DEF HostUpdated
<1>3. /\ host'.job = host.job /\ host'.pos = host.pos /\ host'.at = host.at + 1
      /\ host'.tries = host.tries /\ host'.clean = FALSE
      /\ host'.fooled = host.fooled /\ host'.skipped = host.skipped
  BY DEF HostShape, NextStep
<1>4. host' \in HostShape
  BY <1>2, <1>3, HostFields, HostReshaped
<1> QED  BY <1>3, <1>4 DEF Place, Flags

LEMMA HostLoses ==
  ASSUME host \in HostShape, host' = [host EXCEPT !.clean = FALSE]
  PROVE  Place(host.pos, host.at) /\ Flags(FALSE, host.fooled, host.skipped)
<1>2. HostUpdated
  <2>1. host' = [x \in DOMAIN host' |-> host'[x]]
    BY Zenon
  <2>2. DOMAIN host' = DOMAIN host
    BY DEF HostShape
  <2> QED  BY <2>1, <2>2 DEF HostUpdated
<1>3. /\ host'.job = host.job /\ host'.pos = host.pos /\ host'.at = host.at
      /\ host'.tries = host.tries /\ host'.clean = FALSE
      /\ host'.fooled = host.fooled /\ host'.skipped = host.skipped
  BY DEF HostShape
<1>4. host' \in HostShape
  BY <1>2, <1>3, HostFields, HostReshaped
<1> QED  BY <1>3, <1>4 DEF Place, Flags

LEMMA HostRetries ==
  ASSUME host \in HostShape, NEW c \in BOOLEAN, host.tries + 1 < StartAttempts,
         host' = [host EXCEPT !.at = 1, !.tries = @ + 1, !.clean = c]
  PROVE  Place(host.pos, 1) /\ Flags(c, host.fooled, host.skipped)
<1>2. HostUpdated
  <2>1. host' = [x \in DOMAIN host' |-> host'[x]]
    BY Zenon
  <2>2. DOMAIN host' = DOMAIN host
    BY DEF HostShape
  <2> QED  BY <2>1, <2>2 DEF HostUpdated
<1>3. /\ host'.job = host.job /\ host'.pos = host.pos /\ host'.at = 1
      /\ host'.tries = host.tries + 1 /\ host'.clean = c
      /\ host'.fooled = host.fooled /\ host'.skipped = host.skipped
  BY DEF HostShape
<1>4. host'.tries \in 0 .. StartAttempts - 1
  BY <1>3, HostFields, StartAttemptsAssumption
<1>5. host' \in HostShape
  BY <1>2, <1>3, <1>4, HostFields, HostReshaped
<1> QED  BY <1>3, <1>5 DEF Place, Flags

LEMMA HostSkips ==
  ASSUME host \in HostShape, NEW c \in BOOLEAN,
         host' = [host EXCEPT !.at = 1, !.pos = @ + 1, !.clean = c, !.skipped = TRUE]
  PROVE  Place(host.pos + 1, 1) /\ Flags(c, host.fooled, TRUE)
<1>2. HostUpdated
  <2>1. host' = [x \in DOMAIN host' |-> host'[x]]
    BY Zenon
  <2>2. DOMAIN host' = DOMAIN host
    BY DEF HostShape
  <2> QED  BY <2>1, <2>2 DEF HostUpdated
<1>3. /\ host'.job = host.job /\ host'.pos = host.pos + 1 /\ host'.at = 1
      /\ host'.tries = host.tries /\ host'.clean = c
      /\ host'.fooled = host.fooled /\ host'.skipped = TRUE
  BY DEF HostShape
<1>5. host' \in HostShape
  BY <1>2, <1>3, HostFields, HostReshaped
<1> QED  BY <1>3, <1>5 DEF Place, Flags

LEMMA HostGetsOk ==
  ASSUME host \in HostShape, NEW f \in BOOLEAN,
         host' = [host EXCEPT !.at = 1, !.pos = @ + 1, !.fooled = f]
  PROVE  Place(host.pos + 1, 1) /\ Flags(host.clean, f, host.skipped)
<1>2. HostUpdated
  <2>1. host' = [x \in DOMAIN host' |-> host'[x]]
    BY Zenon
  <2>2. DOMAIN host' = DOMAIN host
    BY DEF HostShape
  <2> QED  BY <2>1, <2>2 DEF HostUpdated
<1>3. /\ host'.job = host.job /\ host'.pos = host.pos + 1 /\ host'.at = 1
      /\ host'.tries = host.tries /\ host'.clean = host.clean
      /\ host'.fooled = f /\ host'.skipped = host.skipped
  BY DEF HostShape
<1>5. host' \in HostShape
  BY <1>2, <1>3, HostFields, HostReshaped
<1> QED  BY <1>3, <1>5 DEF Place, Flags

LEMMA HostRestarts ==
  ASSUME host \in HostShape,
         host' = [host EXCEPT !.pos = 1, !.at = 1, !.tries = 0]
  PROVE  Place(1, 1) /\ Flags(host.clean, host.fooled, host.skipped)
<1>2. HostUpdated
  <2>1. host' = [x \in DOMAIN host' |-> host'[x]]
    BY Zenon
  <2>2. DOMAIN host' = DOMAIN host
    BY DEF HostShape
  <2> QED  BY <2>1, <2>2 DEF HostUpdated
<1>3. /\ host'.job = host.job /\ host'.pos = 1 /\ host'.at = 1
      /\ host'.tries = 0 /\ host'.clean = host.clean
      /\ host'.fooled = host.fooled /\ host'.skipped = host.skipped
  BY DEF HostShape
<1>5. host' \in HostShape
  BY <1>2, <1>3, HostFields, HostReshaped
<1> QED  BY <1>3, <1>5 DEF Place, Flags

LEMMA HostEnds ==
  ASSUME host \in HostShape, host' = Ended
  PROVE  host' \in HostShape /\ Flags(host.clean, host.fooled, host.skipped)
<1>1. host' = [host EXCEPT !.job = << >>, !.pos = 1, !.at = 1, !.tries = 0]
  BY DEF Ended
<1>2. HostUpdated
  <2>1. host' = [x \in DOMAIN host' |-> host'[x]]
    BY <1>1, Zenon
  <2>2. DOMAIN host' = DOMAIN host
    BY <1>1 DEF HostShape
  <2> QED  BY <2>1, <2>2 DEF HostUpdated
<1>3. /\ host'.job = << >> /\ host'.pos = 1 /\ host'.at = 1
      /\ host'.tries = 0 /\ host'.clean = host.clean
      /\ host'.fooled = host.fooled /\ host'.skipped = host.skipped
  BY <1>1 DEF HostShape
<1>5. host' \in HostShape
  BY <1>2, <1>3, HostFields, HostReshaped
<1> QED  BY <1>3, <1>5 DEF Flags

LEMMA HostBegins ==
  ASSUME host \in HostShape, NEW job \in Jobs, NEW c \in BOOLEAN,
         host' = [host EXCEPT !.job = job, !.pos = 1, !.at = 1, !.tries = 0,
                              !.clean = c, !.fooled = FALSE, !.skipped = FALSE]
  PROVE  /\ host' \in HostShape /\ host'.job = job /\ host'.pos = 1 /\ host'.at = 1
         /\ Flags(c, FALSE, FALSE)
<1>2. HostUpdated
  <2>1. host' = [x \in DOMAIN host' |-> host'[x]]
    BY Zenon
  <2>2. DOMAIN host' = DOMAIN host
    BY DEF HostShape
  <2> QED  BY <2>1, <2>2 DEF HostUpdated
<1>3. /\ host'.job = job /\ host'.pos = 1 /\ host'.at = 1
      /\ host'.tries = 0 /\ host'.clean = c
      /\ host'.fooled = FALSE /\ host'.skipped = FALSE
  BY DEF HostShape
<1>5. host' \in HostShape
  BY <1>2, <1>3, HostFields, HostReshaped
<1> QED  BY <1>3, <1>5 DEF Flags

-------------------------------------------------------------------------------
(* The kinds of its steps *)

Remainder == SubSeq(toHost, Asks(HostStep) + 1, Len(toHost))

LEMMA WantedIsAsked ==
  /\ ~InSession => Wanted = 0
  /\ InSession => Wanted = Asks(HostStep)
BY DEF Wanted, Asks

HostSends(bytes, isCmd) ==
  /\ InSession /\ HostStep.do \in Writing /\ Settled
  /\ bytes \in Seq(Bytes) /\ Len(bytes) = Gives(HostStep) /\ isCmd \in BOOLEAN
  /\ isCmd <=> HostStep.do = "issue"
  /\ isCmd => bytes[1] = Current.cmd
  /\ HostStep.do = "write" => bytes = HostStep.bytes
  /\ Sent(bytes, isCmd) /\ UNCHANGED <<toHost, portOpen>>
  /\ Place(host.pos, host.at + 1) /\ Flags(host.clean, host.fooled, host.skipped)

\* A reply, or all bytes of a read, are as expected
HostTakes ==
  /\ InSession /\ HostStep.do \in Reading \ {"result"} /\ Len(toHost) >= Asks(HostStep)
  /\ HostStep.do \in {"ack", "progmode"} => toHost[1] = REPL_ACK
  /\ HostStep.do = "status" => toHost[1] = 0
  /\ HostStep.do = "signature" => SubSeq(toHost, 1, 3) = DeviceSignature
  /\ toHost' = Remainder /\ UNCHANGED <<toProg, portOpen>>
  /\ Place(host.pos, host.at + 1) /\ Flags(host.clean, host.fooled, host.skipped)

\* They do not come, and the call goes on with what there is
HostGoesWithout ==
  /\ InSession /\ HostStep.do \in {"progmode", "read", "signature"}
  /\ Len(toHost) < Asks(HostStep)
  /\ HostStep.do # "progmode" => toHost # << >>
  /\ HostStep.do = "signature" => toHost[1] = DeviceSignature[1]
  /\ Starved \/ At("slow") \/ At("busy") \/ At("erase")
  /\ toHost' = << >> /\ UNCHANGED <<toProg, portOpen>>
  /\ Place(host.pos, host.at + 1) /\ Flags(FALSE, host.fooled, host.skipped)

\* A reply is bad
Refused ==
  /\ InSession /\ HostStep.do \in Reading \ {"read"} /\ Len(toHost) >= Asks(HostStep)
  /\ HostStep.do = "ack" => toHost[1] # REPL_ACK
  /\ HostStep.do = "result" => toHost[1] # REPL_OK
  /\ toHost' = Remainder /\ UNCHANGED <<toProg, portOpen>>

RefusedRetries ==
  /\ Refused /\ Current.cmd = CMD_START /\ HostStep.do = "ack"
  /\ Place(host.pos, 1) /\ Flags(host.clean, host.fooled, host.skipped)

RefusedSkips ==
  /\ Refused /\ Current.cmd = CMD_FLASH_PAGE_ERASE
  /\ Place(host.pos + 1, 1) /\ Flags(host.clean, host.fooled, TRUE)

\* It does not come
Late ==
  /\ InSession /\ HostStep.do \in Reading /\ Len(toHost) < Asks(HostStep)
  /\ toHost' = << >> /\ UNCHANGED <<toProg, portOpen>>

LateRetries ==
  /\ Late /\ Current.cmd = CMD_START /\ HostStep.do = "ack"
  /\ Place(host.pos, 1) /\ Flags(FALSE, host.fooled, host.skipped)

LateSkips ==
  /\ Late /\ Current.cmd = CMD_FLASH_PAGE_ERASE
  /\ Place(host.pos + 1, 1) /\ Flags(FALSE, host.fooled, TRUE)

\* The session is over
HostExits ==
  /\ InSession /\ portOpen' = FALSE /\ toHost' = << >> /\ UNCHANGED toProg
  /\ host' \in HostShape /\ Flags(host.clean, host.fooled, host.skipped)

\* The result is an OK
HostConcludesCall ==
  /\ InSession /\ HostStep.do = "result" /\ Len(toHost) >= 1 /\ toHost[1] = REPL_OK
  /\ host.pos < Len(host.job)
  /\ toHost' = Remainder /\ UNCHANGED <<toProg, portOpen>>
  /\ Place(host.pos + 1, 1)
  /\ Flags(host.clean, host.fooled \/ fw.answered # Current.cmd, host.skipped)

HostBeginsAgain ==
  /\ InSession /\ HostStep.do = "result" /\ Len(toHost) >= 1 /\ toHost[1] = REPL_OK
  /\ host.pos = Len(host.job)
  /\ toHost' = Remainder /\ UNCHANGED <<toProg, portOpen>>
  /\ Place(1, 1) /\ Flags(host.clean, host.fooled, host.skipped)

LEMMA HeadIsFirst ==
  ASSUME NEW s \in Seq(Bytes), Len(s) >= 1
  PROVE  Head(s) = s[1]
OBVIOUS

LEMMA HostIssuesDoes ==
  ASSUME HostTypes, LinkTypes, HostIssues
  PROVE  \E bytes \in Seq(Bytes), isCmd \in BOOLEAN : HostSends(bytes, isCmd)
<1>1. InSession /\ HostStep.do = "issue" /\ host \in HostShape /\ Settled
  BY Calling DEF HostIssues, IssueCommand, Doing
<1>2. Sent(<< Current.cmd >>, TRUE) /\ UNCHANGED <<toHost, portOpen>> /\ host' = NextStep
  BY Zenon DEF HostIssues, IssueCommand
<1>3. Current.cmd \in Bytes
  BY <1>1, Calling DEF IsCall, Operating, Bytes
<1> DEFINE bytes == << Current.cmd >>
<1>4. bytes \in Seq(Bytes) /\ Len(bytes) = 1 /\ bytes[1] = Current.cmd
  BY <1>3, Single, Zenon
<1>5. Sent(bytes, TRUE)
  BY <1>2, Zenon
<1> HIDE DEF bytes
<1>6. Place(host.pos, host.at + 1) /\ Flags(host.clean, host.fooled, host.skipped)
  BY <1>1, <1>2, HostGoesOn
<1>7. HostStep.do \in Writing /\ Len(bytes) = Gives(HostStep) /\ HostStep.do # "write"
  BY <1>1, <1>4 DEF Writing, Gives
<1>8. HostSends(bytes, TRUE)
  BY <1>1, <1>2, <1>4, <1>5, <1>6, <1>7, Zenon DEF HostSends
<1> QED  BY <1>4, <1>8, Zenon

LEMMA HostWritesDoes ==
  ASSUME HostTypes, LinkTypes, HostWrites
  PROVE  \E bytes \in Seq(Bytes), isCmd \in BOOLEAN : HostSends(bytes, isCmd)
<1>a. /\ Settled /\ UNCHANGED <<toHost, portOpen>> /\ host' = NextStep
      /\ \/ Doing("write") /\ Sent(HostStep.bytes, FALSE)
         \/ Doing("data") /\ \E b \in [1 .. HostStep.n -> DataBytes] : Sent(b, FALSE)
  BY Zenon DEF HostWrites, WriteBytes
<1>b. Doing("write") \/ Doing("data")
  BY <1>a, Zenon
<1>1. /\ InSession /\ host \in HostShape /\ HostStep \in StepKinds
      /\ HostStep.do = "write" \/ HostStep.do = "data"
  BY <1>b, Calling DEF Doing
<1>c. Settled /\ UNCHANGED <<toHost, portOpen>> /\ host' = NextStep
  BY <1>a, Zenon
<1>2. Place(host.pos, host.at + 1) /\ Flags(host.clean, host.fooled, host.skipped)
  BY <1>1, <1>c, HostGoesOn
<1>3. CASE HostStep.do = "write"
  <2>0. ~Doing("data") /\ HostStep.do \in Writing /\ HostStep.do # "issue"
    BY <1>3 DEF Doing, Writing
  <2>1. Sent(HostStep.bytes, FALSE)
    BY <1>a, <2>0, Zenon
  <2>2. HostStep.bytes \in Seq(Bytes) /\ Gives(HostStep) = Len(HostStep.bytes)
    BY <1>1, <1>3, StepData DEF Gives
  <2>3. HostSends(HostStep.bytes, FALSE)
    BY <1>1, <1>2, <1>c, <2>0, <2>1, <2>2, Zenon DEF HostSends
  <2> QED  BY <2>2, <2>3, Zenon
<1>4. CASE HostStep.do = "data"
  <2>0. ~Doing("write") /\ HostStep.do \in Writing /\ HostStep.do # "issue"
        /\ HostStep.do # "write"
    BY <1>4 DEF Doing, Writing
  <2>1. PICK bytes \in [1 .. HostStep.n -> DataBytes] : Sent(bytes, FALSE)
    BY <1>a, <2>0, Zenon
  <2>2. HostStep.n \in Nat /\ Gives(HostStep) = HostStep.n /\ DataBytes \subseteq Bytes
    BY <1>1, <1>4, StepData, DataAssumption DEF Gives, Bytes
  <2>3. bytes \in Seq(Bytes) /\ Len(bytes) = Gives(HostStep)
    BY <2>2
  <2>5. HostSends(bytes, FALSE)
    BY <1>1, <1>2, <1>c, <2>0, <2>1, <2>3, Zenon DEF HostSends
  <2> QED  BY <2>3, <2>5, Zenon
<1> QED  BY <1>1, <1>3, <1>4

\* A call that fails is tried again, skipped, or ends the session
LEMMA RefusedDoes ==
  ASSUME HostTypes, LinkTypes, InSession, Arrived, UNCHANGED toProg,
         HostStep.do \in Reading \ {"read"},
         HostStep.do = "ack" => toHost[1] # REPL_ACK,
         HostStep.do = "result" => toHost[1] # REPL_OK,
         CallFails(Rest)
  PROVE  RefusedRetries \/ RefusedSkips \/ HostExits
<1>w. Wanted = Asks(HostStep)
  BY WantedIsAsked
<1>1. /\ host \in HostShape /\ Len(toHost) >= Asks(HostStep) /\ Rest = Remainder
  BY <1>w, Calling DEF Arrived, Rest, Remainder
<1> DEFINE c == host.clean /\ Arrived
<1>2. c \in BOOLEAN /\ (c <=> host.clean)
  BY HostFields, <1>1, Zenon
<1>3. CASE Retrying /\ UNCHANGED portOpen /\ toHost' = Rest
           /\ host' = [host EXCEPT !.at = 1, !.tries = @ + 1, !.clean = @ /\ Arrived]
  <2>1. Current.cmd = CMD_START /\ HostStep.do = "ack" /\ host.tries + 1 < StartAttempts
    BY <1>3 DEF Retrying, Doing
  <2>2. Place(host.pos, 1) /\ Flags(c, host.fooled, host.skipped)
    BY <1>1, <1>2, <1>3, <2>1, HostRetries, Zenon
  <2>3. Flags(host.clean, host.fooled, host.skipped)
    BY <1>2, <2>2 DEF Flags
  <2> HIDE DEF c
  <2> QED  BY <1>1, <1>3, <2>1, <2>2, <2>3 DEF RefusedRetries, Refused
<1>4. CASE Current.cmd = CMD_FLASH_PAGE_ERASE /\ UNCHANGED portOpen /\ toHost' = Rest
           /\ host' = [host EXCEPT !.at = 1, !.pos = @ + 1, !.clean = @ /\ Arrived, !.skipped = TRUE]
  <2>1. Place(host.pos + 1, 1) /\ Flags(c, host.fooled, TRUE)
    BY <1>1, <1>2, <1>4, HostSkips, Zenon
  <2>2. Flags(host.clean, host.fooled, TRUE)
    BY <1>2, <2>1 DEF Flags
  <2> HIDE DEF c
  <2> QED  BY <1>1, <1>4, <2>1, <2>2 DEF RefusedSkips, Refused, Flags
<1>5. CASE Exit
  BY <1>1, <1>5, HostEnds DEF Exit, HostExits
<1> QED  BY <1>3, <1>4, <1>5 DEF CallFails

LEMMA LateDoes ==
  ASSUME HostTypes, LinkTypes, InSession, Wanted > 0, ~Arrived, UNCHANGED toProg,
         CallFails(<< >>)
  PROVE  LateRetries \/ LateSkips \/ HostExits
<1>1. /\ host \in HostShape /\ Wanted = Asks(HostStep) /\ Asks(HostStep) \in Nat
      /\ HostStep.do \in Reading
  BY Calling, WantedIsAsked DEF Moves, HostStep
<1>2. Len(toHost) < Asks(HostStep)
  <2>1. Len(toHost) \in Nat
    BY DEF LinkTypes
  <2> QED  BY <1>1, <2>1 DEF Arrived
<1> DEFINE c == host.clean /\ Arrived
<1>3. c \in BOOLEAN /\ (c <=> FALSE)
  BY Zenon
<1>4. CASE Retrying /\ UNCHANGED portOpen /\ toHost' = << >>
           /\ host' = [host EXCEPT !.at = 1, !.tries = @ + 1, !.clean = @ /\ Arrived]
  <2>1. Current.cmd = CMD_START /\ HostStep.do = "ack" /\ host.tries + 1 < StartAttempts
    BY <1>4 DEF Retrying, Doing
  <2>2. Place(host.pos, 1) /\ Flags(c, host.fooled, host.skipped)
    BY <1>1, <1>3, <1>4, <2>1, HostRetries, Zenon
  <2>3. Flags(FALSE, host.fooled, host.skipped)
    BY <1>3, <2>2 DEF Flags
  <2> HIDE DEF c
  <2> QED  BY <1>1, <1>2, <1>4, <2>1, <2>2, <2>3 DEF LateRetries, Late, Flags
<1>5. CASE Current.cmd = CMD_FLASH_PAGE_ERASE /\ UNCHANGED portOpen /\ toHost' = << >>
           /\ host' = [host EXCEPT !.at = 1, !.pos = @ + 1, !.clean = @ /\ Arrived, !.skipped = TRUE]
  <2>1. Place(host.pos + 1, 1) /\ Flags(c, host.fooled, TRUE)
    BY <1>1, <1>3, <1>5, HostSkips, Zenon
  <2>2. Flags(FALSE, host.fooled, TRUE)
    BY <1>3, <2>1 DEF Flags
  <2> HIDE DEF c
  <2> QED  BY <1>1, <1>2, <1>5, <2>1, <2>2 DEF LateSkips, Late, Flags
<1>6. CASE Exit
  BY <1>1, <1>6, HostEnds DEF Exit, HostExits
<1> QED  BY <1>4, <1>5, <1>6 DEF CallFails

LEMMA SignatureLong == Len(DeviceSignature) = 3 /\ DeviceSignature[1] = 30
BY DEF DeviceSignature

LEMMA HostReadsDoes ==
  ASSUME HostTypes, LinkTypes, HostReads
  PROVE  HostTakes \/ RefusedRetries \/ RefusedSkips \/ HostExits
<1>1. InSession /\ Wanted = Asks(HostStep)
  <2>1. Wanted > 0
    BY DEF HostReads, ReadReply, Arrived
  <2> QED  BY <2>1, WantedIsAsked
<1>2. host \in HostShape /\ Asks(HostStep) \in Nat /\ HostStep.do \in Reading /\ Asks(HostStep) > 0
  <2>1. Asks(HostStep) > 0
    BY <1>1 DEF HostReads, ReadReply, Arrived
  <2> QED  BY <1>1, <2>1, Calling DEF Moves, HostStep
<1>3. Len(toHost) >= Asks(HostStep) /\ UNCHANGED toProg /\ HostStep.do # "result"
  BY <1>1 DEF HostReads, ReadReply, Arrived
<1>4. Rest = Remainder
  BY <1>1 DEF Rest, Remainder
<1> DEFINE good == CASE HostStep.do \in {"ack", "progmode"} -> Head(toHost) = REPL_ACK
                     [] HostStep.do = "status" -> Head(toHost) = 0
                     [] HostStep.do = "signature" -> SubSeq(toHost, 1, 3) = DeviceSignature
                     [] OTHER -> TRUE
<1>5. (good /\ Goes) \/ (~good /\ CallFails(Rest))
  BY DEF HostReads, ReadReply
<1>6. Head(toHost) = toHost[1]
  BY <1>2, <1>3, HeadIsFirst DEF LinkTypes
<1>7. /\ HostStep.do \in {"ack", "progmode"} => (good <=> toHost[1] = REPL_ACK)
      /\ HostStep.do = "status" => (good <=> toHost[1] = 0)
      /\ HostStep.do = "signature" => (good <=> SubSeq(toHost, 1, 3) = DeviceSignature)
      /\ HostStep.do = "read" => good
  BY <1>6
<1> HIDE DEF good
<1>8. CASE good /\ Goes
  <2>1. Place(host.pos, host.at + 1) /\ Flags(host.clean, host.fooled, host.skipped)
    BY <1>2, <1>8, HostGoesOn DEF Goes
  <2> QED  BY <1>1, <1>2, <1>3, <1>4, <1>7, <1>8, <2>1 DEF HostTakes, Goes
<1>9. CASE ~good /\ CallFails(Rest)
  <2>1. Arrived
    BY DEF HostReads, ReadReply
  <2> QED  BY <1>1, <1>2, <1>3, <1>7, <1>9, <2>1, RefusedDoes
<1> QED  BY <1>5, <1>8, <1>9

LEMMA HostConcludesDoes ==
  ASSUME HostTypes, LinkTypes, HostConcludes
  PROVE  HostConcludesCall \/ HostBeginsAgain \/ RefusedRetries \/ RefusedSkips \/ HostExits
<1>1. InSession /\ HostStep.do = "result" /\ Arrived /\ UNCHANGED toProg
  BY DEF HostConcludes, ReadResult, Doing
<1>2. Wanted = Asks(HostStep) /\ Asks(HostStep) = 1 /\ HostStep.do \in Reading
  BY <1>1, WantedIsAsked DEF Asks, Reading
<1>3. Len(toHost) >= 1 /\ Rest = Remainder
  BY <1>1, <1>2 DEF Arrived, Rest, Remainder
<1>4. Head(toHost) = toHost[1]
  BY <1>3, HeadIsFirst DEF LinkTypes
<1>5. host \in HostShape
  BY <1>1, Calling
<1> DEFINE f == host.fooled \/ fw.answered # Current.cmd
<1>6. f \in BOOLEAN
  BY HostFields, <1>5, Zenon
<1>7. CASE /\ Head(toHost) = REPL_OK /\ host.pos < Len(host.job)
           /\ host' = [host EXCEPT !.at = 1, !.pos = @ + 1,
                                   !.fooled = @ \/ fw.answered # Current.cmd]
           /\ toHost' = Rest /\ UNCHANGED portOpen
  <2>1. Place(host.pos + 1, 1) /\ Flags(host.clean, f, host.skipped)
    BY <1>5, <1>6, <1>7, HostGetsOk, Zenon
  <2> QED  BY <1>1, <1>3, <1>4, <1>7, <2>1, Zenon DEF HostConcludesCall
<1>8. CASE Head(toHost) = REPL_OK /\ host.pos = Len(host.job) /\ SessionEnds
  <2>1. CASE Exit
    BY <1>1, <1>5, <2>1, HostEnds DEF Exit, HostExits
  <2>2. CASE /\ host' = [host EXCEPT !.pos = 1, !.at = 1, !.tries = 0]
             /\ toHost' = Rest /\ UNCHANGED portOpen
    <3>1. Place(1, 1) /\ Flags(host.clean, host.fooled, host.skipped)
      BY <1>5, <2>2, HostRestarts
    <3> QED  BY <1>1, <1>3, <1>4, <1>8, <2>2, <3>1, Zenon DEF HostBeginsAgain
  <2> QED  BY <1>8, <2>1, <2>2 DEF SessionEnds
<1>9. CASE Head(toHost) # REPL_OK /\ CallFails(Rest)
  BY <1>1, <1>2, <1>4, <1>9, RefusedDoes
<1> QED
  BY <1>7, <1>8, <1>9, Zenon DEF HostConcludes, ReadResult

LEMMA TimedOutDoes ==
  ASSUME HostTypes, LinkTypes, TimedOut,
         Starved \/ At("slow") \/ At("busy") \/ At("erase")
  PROVE  HostGoesWithout \/ LateRetries \/ LateSkips \/ HostExits
<1>1. Wanted > 0 /\ ~Arrived /\ UNCHANGED toProg
  BY DEF TimedOut
<1>2. InSession /\ Wanted = Asks(HostStep)
  BY <1>1, WantedIsAsked
<1>3. host \in HostShape /\ Asks(HostStep) \in Nat /\ Len(toHost) \in Nat
  BY <1>2, Calling DEF Moves, HostStep, LinkTypes
<1>4. Len(toHost) < Asks(HostStep)
  BY <1>1, <1>2, <1>3 DEF Arrived
<1>5. CASE GoesOn /\ host' = [NextStep EXCEPT !.clean = FALSE] /\ toHost' = << >> /\ UNCHANGED portOpen
  <2>1. Place(host.pos, host.at + 1) /\ Flags(FALSE, host.fooled, host.skipped)
    BY <1>3, <1>5, HostGoesOnUnclean, Zenon
  <2>2. /\ HostStep.do \in {"progmode", "read", "signature"}
        /\ HostStep.do # "progmode" => toHost # << >>
    BY <1>5, Zenon DEF GoesOn
  <2>3. ASSUME HostStep.do = "signature"  PROVE toHost[1] = DeviceSignature[1]
    <3>1. toHost # << >> /\ toHost = SubSeq(DeviceSignature, 1, Len(toHost))
      BY <1>5, <2>3, Zenon DEF GoesOn
    <3> DEFINE l == Len(toHost)
    <3>2. l \in Nat /\ l >= 1 /\ DeviceSignature \in Seq(Int) /\ toHost = SubSeq(DeviceSignature, 1, l)
      BY <1>3, <3>1 DEF LinkTypes, DeviceSignature
    <3> HIDE DEF l
    <3>3. SubSeq(DeviceSignature, 1, l)[1] = DeviceSignature[1]
      BY <3>2
    <3> QED  BY <3>2, <3>3
  <2> QED  BY <1>1, <1>2, <1>4, <1>5, <2>1, <2>2, <2>3, Zenon DEF HostGoesWithout
<1>6. CASE CallFails(<< >>)
  BY <1>1, <1>2, <1>6, LateDoes
<1> QED  BY <1>5, <1>6 DEF TimedOut

HostActs ==
  \/ \E bytes \in Seq(Bytes), isCmd \in BOOLEAN : HostSends(bytes, isCmd)
  \/ HostTakes \/ HostConcludesCall \/ HostBeginsAgain
  \/ HostGoesWithout \/ RefusedRetries \/ RefusedSkips \/ LateRetries \/ LateSkips
  \/ HostExits

HostMoves == HostIssues \/ HostWrites \/ HostReads \/ HostConcludes \/ HostCrashes
               \/ HostTimesOut \/ HostTooEarly

\* In a session, every step of the controller is one of these
LEMMA HostDoes ==
  ASSUME HostTypes, LinkTypes, HostMoves
  PROVE  HostActs /\ UNCHANGED fw /\ faults' \in 0 .. MaxFaults
<1>1. ASSUME UNCHANGED faults  PROVE faults' \in 0 .. MaxFaults
  BY <1>1 DEF LinkTypes
<1>2. CASE HostIssues
  <2>1. UNCHANGED <<fw, faults>>
    BY <1>2 DEF HostIssues, IssueCommand
  <2> QED  BY <1>1, <1>2, <2>1, HostIssuesDoes DEF HostActs
<1>3. CASE HostWrites
  <2>1. UNCHANGED <<fw, faults>>
    BY <1>3, Zenon DEF HostWrites, WriteBytes
  <2> QED  BY <1>1, <1>3, <2>1, HostWritesDoes DEF HostActs
<1>4. CASE HostReads
  <2>1. UNCHANGED <<fw, faults>>
    BY <1>4 DEF HostReads, ReadReply
  <2> QED  BY <1>1, <1>4, <2>1, HostReadsDoes DEF HostActs
<1>5. CASE HostConcludes
  <2>1. UNCHANGED <<fw, faults>>
    BY <1>5 DEF HostConcludes, ReadResult
  <2> QED  BY <1>1, <1>5, <2>1, HostConcludesDoes DEF HostActs
<1>6. CASE HostCrashes
  <2>1. HostExits
    BY <1>6, Calling, HostEnds DEF HostCrashes, Crash, Exit, HostExits
  <2> QED  BY <1>6, <2>1, FaultTypes DEF HostActs, HostCrashes, Crash
<1>7. CASE HostTimesOut
  <2>1. TimedOut /\ Starved /\ UNCHANGED <<fw, faults>>
    BY <1>7 DEF HostTimesOut, MutualWait
  <2> QED  BY <1>1, <2>1, TimedOutDoes DEF HostActs
<1>8. CASE HostTooEarly
  <2>1. TimedOut /\ UNCHANGED fw /\ faults' \in 0 .. MaxFaults
    BY <1>8, FaultTypes DEF HostTooEarly
  <2> QED  BY <1>8, <2>1, TimedOutDoes DEF HostActs, HostTooEarly
<1> QED  BY <1>2, <1>3, <1>4, <1>5, <1>6, <1>7, <1>8 DEF HostMoves

-------------------------------------------------------------------------------
(* Types are kept *)

\* What the steps of the controller leave on the line is well typed
LEMMA HostKeepsLink ==
  ASSUME HostTypes, LinkTypes, HostActs
  PROVE  toProg' \in Seq(Sending) /\ toHost' \in Seq(Bytes) /\ portOpen' \in BOOLEAN
<1>1. ASSUME toHost' = Remainder, InSession  PROVE toHost' \in Seq(Bytes)
  <2>1. Asks(HostStep) \in Nat
    BY <1>1, Calling DEF Moves, HostStep
  <2> QED  BY <1>1, <2>1, Dropped DEF Remainder, LinkTypes
<1>2. ASSUME toHost' = << >>  PROVE toHost' \in Seq(Bytes)
  BY <1>2
<1>3. UNCHANGED toProg => toProg' \in Seq(Sending)
  BY DEF LinkTypes
<1>4. UNCHANGED toHost => toHost' \in Seq(Bytes)
  BY DEF LinkTypes
<1>5. UNCHANGED portOpen => portOpen' \in BOOLEAN
  BY DEF LinkTypes
<1>6. ASSUME NEW bytes \in Seq(Bytes), NEW isCmd \in BOOLEAN, HostSends(bytes, isCmd)
      PROVE  toProg' \in Seq(Sending) /\ toHost' \in Seq(Bytes) /\ portOpen' \in BOOLEAN
  <2>1. Sent(bytes, isCmd) /\ UNCHANGED <<toHost, portOpen>>
    BY <1>6 DEF HostSends
  <2> QED  BY <1>4, <1>5, <2>1, SentTypes
<1>7. HostTakes \/ HostConcludesCall \/ HostBeginsAgain \/ RefusedRetries \/ RefusedSkips
        => toHost' = Remainder /\ InSession /\ UNCHANGED <<toProg, portOpen>>
  BY Zenon DEF HostTakes, HostConcludesCall, HostBeginsAgain, RefusedRetries, RefusedSkips, Refused
<1>8. HostGoesWithout \/ LateRetries \/ LateSkips
        => toHost' = << >> /\ UNCHANGED <<toProg, portOpen>>
  BY Zenon DEF HostGoesWithout, LateRetries, LateSkips, Late
<1>9. HostExits => toHost' = << >> /\ UNCHANGED toProg /\ portOpen' = FALSE
  BY DEF HostExits
<1>10. portOpen' = FALSE => portOpen' \in BOOLEAN
  BY Zenon
<1> QED  BY <1>1, <1>2, <1>3, <1>5, <1>6, <1>7, <1>8, <1>9, <1>10, Zenon DEF HostActs

\* The next call is a call of the job, the next step a step of the call
LEMMA FirstStep ==
  ASSUME HostTypes, InSession, UNCHANGED portOpen, NEW pos \in DOMAIN host.job,
         Place(pos, 1)
  PROVE  HostTypes'
<1>1. host' \in HostShape /\ host'.job = host.job /\ host'.pos = pos /\ host'.at = 1
      /\ host.job \in Jobs /\ IsJob(host.job)
  BY Calling DEF Place, HostTypes
<1>2. IsCall(host.job[pos])
  <2> DEFINE S == [cmd : Operating \cup {CMD_START, CMD_STOP}, n : Nat]
  <2>1. host.job \in Seq(S)
    BY <1>1 DEF IsJob
  <2> HIDE DEF S
  <2>2. host.job[pos] \in S
    BY <2>1
  <2>3. host.job[pos].n <= Largest
    BY <1>1, LargestIsLargest
  <2>4. host.job[pos].cmd = CMD_GETBLOCK => host.job[pos].n > 0
    BY <1>1 DEF IsJob
  <2> QED  BY <2>2, <2>3, <2>4, Sizes DEF IsCall, S
<1>3. Current' = host.job[pos] /\ 1 \in DOMAIN Steps(host.job[pos])
  BY <1>1, <1>2, LastSteps DEF Current
<1>4. host'.at \in DOMAIN Steps(Current')
  BY <1>1, <1>3
<1>5. Steps(Current)' = Steps(Current')
  OBVIOUS
<1> QED  BY <1>1, <1>4, <1>5 DEF HostTypes, HostShape

LEMMA FollowingStep ==
  ASSUME HostTypes, InSession, UNCHANGED portOpen, HostStep.do # "result",
         Place(host.pos, host.at + 1)
  PROVE  /\ HostTypes' /\ Current' = Current /\ host.at + 1 \in 1 .. LastStep(Current)
<1>1. /\ host' \in HostShape /\ host'.job = host.job /\ host'.pos = host.pos
      /\ host'.at = host.at + 1 /\ host.job \in Jobs /\ host.pos \in DOMAIN host.job
      /\ host.at \in 1 .. LastStep(Current) /\ IsCall(Current) /\ LastStep(Current) \in Nat
  BY Calling DEF Place, HostTypes
<1>2. host.at # LastStep(Current)
  BY Calling DEF Moves, HostStep
<1>3. host.at + 1 \in 1 .. LastStep(Current)
  BY <1>1, <1>2
<1>4. host.at + 1 \in DOMAIN Steps(Current)
  BY <1>1, <1>3, LastSteps
<1>5. Current' = Current
  BY <1>1 DEF Current
<1>6. Steps(Current)' = Steps(Current)
  BY <1>5
<1> QED  BY <1>1, <1>3, <1>4, <1>5, <1>6 DEF HostTypes, HostShape

\* A page erase is not the last call
LEMMA PageEraseIsFollowed ==
  ASSUME HostTypes, InSession, Current.cmd = CMD_FLASH_PAGE_ERASE
  PROVE  host.pos + 1 \in DOMAIN host.job /\ host.pos > 1
<1>1. IsJob(host.job) /\ host.pos \in DOMAIN host.job
  BY Calling
<1>2. host.pos # Len(host.job) /\ host.pos # 1
  BY <1>1 DEF IsJob, Current
<1> QED  BY <1>1, <1>2 DEF IsJob

LEMMA HostKeepsTypes ==
  ASSUME HostTypes, LinkTypes, HostActs
  PROVE  HostTypes'
<1>1. InSession
  BY Zenon DEF HostActs, HostSends, HostTakes, HostConcludesCall, HostBeginsAgain, HostGoesWithout,
         RefusedRetries, RefusedSkips, Refused, LateRetries, LateSkips, Late, HostExits
<1>2. host.pos \in DOMAIN host.job /\ IsJob(host.job) /\ Len(host.job) \in Nat
      /\ host.job \in Seq([cmd : Operating \cup {CMD_START, CMD_STOP}, n : Nat])
  BY <1>1, Calling DEF IsJob
<1>3. CASE \E bytes \in Seq(Bytes), isCmd \in BOOLEAN : HostSends(bytes, isCmd)
  <2>1. HostStep.do \in Writing /\ UNCHANGED portOpen /\ Place(host.pos, host.at + 1)
    BY <1>3 DEF HostSends
  <2>2. HostStep.do # "result"
    BY <2>1 DEF Writing
  <2> QED  BY <1>1, <2>1, <2>2, FollowingStep
<1>4. CASE HostTakes
  <2>1. HostStep.do # "result" /\ UNCHANGED portOpen /\ Place(host.pos, host.at + 1)
    BY <1>4 DEF HostTakes, Reading
  <2> QED  BY <1>1, <2>1, FollowingStep
<1>5. CASE HostGoesWithout
  <2>1. HostStep.do # "result" /\ UNCHANGED portOpen /\ Place(host.pos, host.at + 1)
    BY <1>5 DEF HostGoesWithout
  <2> QED  BY <1>1, <2>1, FollowingStep
<1>6. CASE RefusedRetries \/ LateRetries
  <2>1. UNCHANGED portOpen /\ Place(host.pos, 1)
    BY <1>6, Zenon DEF RefusedRetries, Refused, LateRetries, Late
  <2> QED  BY <1>1, <1>2, <2>1, FirstStep
<1>7. CASE RefusedSkips \/ LateSkips
  <2>1. UNCHANGED portOpen /\ Place(host.pos + 1, 1) /\ Current.cmd = CMD_FLASH_PAGE_ERASE
    BY <1>7, Zenon DEF RefusedSkips, Refused, LateSkips, Late
  <2> QED  BY <1>1, <2>1, FirstStep, PageEraseIsFollowed
<1>8. CASE HostConcludesCall
  <2>1. UNCHANGED portOpen /\ Place(host.pos + 1, 1) /\ host.pos < Len(host.job)
    BY <1>8 DEF HostConcludesCall
  <2>2. host.pos + 1 \in DOMAIN host.job
    BY <1>2, <2>1
  <2> QED  BY <1>1, <2>1, <2>2, FirstStep
<1>9. CASE HostBeginsAgain
  <2>1. UNCHANGED portOpen /\ Place(1, 1)
    BY <1>9 DEF HostBeginsAgain
  <2>2. 1 \in DOMAIN host.job
    BY <1>2
  <2> QED  BY <1>1, <2>1, <2>2, FirstStep
<1>10. CASE HostExits
  BY <1>10 DEF HostExits, HostTypes, HostShape, InSession
<1> QED  BY <1>3, <1>4, <1>5, <1>6, <1>7, <1>8, <1>9, <1>10 DEF HostActs

\* What is lost leaves the rest as it was
LEMMA WithoutOne ==
  ASSUME NEW S, NEW s \in Seq(S), NEW k \in 1 .. Len(s)
  PROVE  /\ Without(s, k) \in Seq(S) /\ Len(Without(s, k)) = Len(s) - 1
         /\ \A i \in 1 .. Len(s) - 1 : Without(s, k)[i] = IF i < k THEN s[i] ELSE s[i + 1]
<1>1. /\ SubSeq(s, 1, k - 1) \in Seq(S) /\ Len(SubSeq(s, 1, k - 1)) = k - 1
      /\ \A i \in 1 .. k - 1 : SubSeq(s, 1, k - 1)[i] = s[i]
  OBVIOUS
<1>2. /\ SubSeq(s, k + 1, Len(s)) \in Seq(S) /\ Len(SubSeq(s, k + 1, Len(s))) = Len(s) - k
      /\ \A i \in 1 .. Len(s) - k : SubSeq(s, k + 1, Len(s))[i] = s[k + i]
  OBVIOUS
<1> DEFINE a == SubSeq(s, 1, k - 1)
           b == SubSeq(s, k + 1, Len(s))
<1>3. Without(s, k) = a \o b
  BY DEF Without
<1> HIDE DEF a, b
<1>4. a \in Seq(S) /\ b \in Seq(S) /\ Len(a) = k - 1 /\ Len(b) = Len(s) - k
      /\ (\A i \in 1 .. k - 1 : a[i] = s[i]) /\ (\A i \in 1 .. Len(s) - k : b[i] = s[k + i])
  BY <1>1, <1>2 DEF a, b
<1>5. /\ a \o b \in Seq(S) /\ Len(a \o b) = Len(s) - 1
      /\ \A i \in 1 .. Len(s) - 1 : (a \o b)[i] = IF i < k THEN s[i] ELSE s[i + 1]
  BY <1>4
<1> QED  BY <1>3, <1>5

-------------------------------------------------------------------------------
(* Losses, and the start of a session *)

\* One byte is lost on its way
Loses ==
  /\ \/ (\E k \in 1 .. Len(toProg) : toProg' = Without(toProg, k)) /\ UNCHANGED toHost
     \/ (\E k \in 1 .. Len(toHost) : toHost' = Without(toHost, k)) /\ UNCHANGED toProg
  /\ UNCHANGED <<portOpen, fw>>
  /\ Place(host.pos, host.at) /\ Flags(FALSE, host.fooled, host.skipped)

LEMMA LossDoes ==
  ASSUME HostTypes, LinkTypes, Overrun \/ LineLoses
  PROVE  Loses /\ faults' \in 0 .. MaxFaults
<1>1. host \in HostShape
  BY DEF HostTypes, HostShape
<1>2. DOMAIN toProg = 1 .. Len(toProg) /\ DOMAIN toHost = 1 .. Len(toHost) /\ Len(toProg) \in Nat
  BY DEF LinkTypes
<1>3. host' = [host EXCEPT !.clean = FALSE] /\ UNCHANGED <<portOpen, fw>>
  BY Zenon DEF Overrun, LineLoses, LoseByte
<1>4. Place(host.pos, host.at) /\ Flags(FALSE, host.fooled, host.skipped)
  BY <1>1, <1>3, HostLoses, Zenon
<1>5. CASE Overrun
  <2>1. /\ Len(toProg) > FifoDepth /\ UNCHANGED <<toHost, faults>>
        /\ toProg' = SubSeq(toProg, 1, FifoDepth) \o SubSeq(toProg, FifoDepth + 2, Len(toProg))
    BY <1>5 DEF Overrun, LoseByte
  <2> DEFINE m == FifoDepth + 1
  <2>2. m \in 1 .. Len(toProg) /\ m - 1 = FifoDepth /\ m + 1 = FifoDepth + 2
    BY <1>2, <2>1, FifoDepthAssumption
  <2> HIDE DEF m
  <2>3. toProg' = Without(toProg, m)
    <3>1. SubSeq(toProg, 1, FifoDepth) = SubSeq(toProg, 1, m - 1)
      BY <2>2
    <3>2. SubSeq(toProg, FifoDepth + 2, Len(toProg)) = SubSeq(toProg, m + 1, Len(toProg))
      BY <2>2
    <3> QED  BY <2>1, <3>1, <3>2, Zenon DEF Without
  <2>4. \E k \in 1 .. Len(toProg) : toProg' = Without(toProg, k)
    BY <2>2, <2>3
  <2>5. faults' \in 0 .. MaxFaults
    BY <2>1 DEF LinkTypes
  <2> QED  BY <1>3, <1>4, <2>1, <2>4, <2>5, Zenon DEF Loses
<1>6. CASE LineLoses
  <2>1. \/ (\E k \in 1 .. Len(toProg) : toProg' = Without(toProg, k)) /\ UNCHANGED toHost
        \/ (\E k \in 1 .. Len(toHost) : toHost' = Without(toHost, k)) /\ UNCHANGED toProg
    BY <1>2, <1>6, Zenon DEF LineLoses
  <2>2. faults' \in 0 .. MaxFaults
    BY <1>6, FaultTypes DEF LineLoses
  <2> QED  BY <1>3, <1>4, <2>1, <2>2, Zenon DEF Loses
<1> QED  BY <1>5, <1>6

LEMMA LossKeepsTypes ==
  ASSUME HostTypes, LinkTypes, Loses
  PROVE  /\ toProg' \in Seq(Sending) /\ toHost' \in Seq(Bytes) /\ portOpen' \in BOOLEAN
         /\ HostTypes'
<1>1. UNCHANGED portOpen /\ Place(host.pos, host.at)
  BY Zenon DEF Loses
<1>2. toProg' \in Seq(Sending) /\ toHost' \in Seq(Bytes)
  BY WithoutOne, Zenon DEF Loses, LinkTypes
<1>3. host' \in HostShape /\ host'.job = host.job /\ host'.pos = host.pos /\ host'.at = host.at
  BY <1>1 DEF Place
<1>4. Current' = Current
  BY <1>3 DEF Current
<1>5. Steps(Current)' = Steps(Current)
  BY <1>4
<1>6. HostTypes'
  BY <1>1, <1>3, <1>5 DEF HostTypes, HostShape, InSession
<1> QED  BY <1>1, <1>2, <1>6 DEF LinkTypes

\* A session begins
Opens ==
  /\ ~InSession /\ Starved
  /\ portOpen' = TRUE /\ toHost' = << >> /\ UNCHANGED toProg
  /\ host' \in HostShape /\ host'.job \in Jobs /\ host'.pos = 1 /\ host'.at = 1
  /\ Flags(Idle, FALSE, FALSE)
  /\ fw' \in FwShape /\ fw'.step = fw.step /\ fw'.args = fw.args /\ fw'.left = fw.left
  /\ fw'.seg = fw.seg /\ fw'.toSend = fw.toSend /\ fw'.cmd = fw.cmd /\ fw'.open = fw.open
  /\ fw'.loop = fw.loop /\ fw'.answered = fw.answered /\ fw'.sigAddr = fw.sigAddr
  /\ ~fw'.astray

LEMMA OpensDoes ==
  ASSUME HostTypes, LinkTypes, FwAlone, HostOpens
  PROVE  Opens /\ faults' \in 0 .. MaxFaults
<1>1. /\ ~InSession /\ Starved /\ portOpen' = TRUE /\ toHost' = << >>
      /\ UNCHANGED <<toProg, faults>> /\ fw' = [fw EXCEPT !.astray = FALSE]
  BY Zenon DEF HostOpens, OpenPort, InSession
<1>2. host \in HostShape
  BY DEF HostTypes, HostShape
<1>3. /\ host' \in HostShape /\ host'.job \in Jobs /\ host'.pos = 1 /\ host'.at = 1
      /\ Flags(Idle, FALSE, FALSE)
  <2>1. Idle \in BOOLEAN
    BY Zenon DEF Idle
  <2>2. PICK job \in Jobs :
          host' = [host EXCEPT !.job = job, !.pos = 1, !.at = 1, !.tries = 0,
                               !.clean = Idle, !.fooled = FALSE, !.skipped = FALSE]
    BY Zenon DEF HostOpens, OpenPort
  <2>3. /\ host' \in HostShape /\ host'.job = job /\ host'.pos = 1 /\ host'.at = 1
        /\ Flags(Idle, FALSE, FALSE)
    BY <1>2, <2>1, <2>2, HostBegins, Zenon
  <2> QED  BY <2>3, Zenon
<1>4. fw \in FwShape
  BY Shape DEF FwAlone
<1>5. Updated
  <2>1. fw' = [x \in DOMAIN fw' |-> fw'[x]]
    BY <1>1, Zenon
  <2>2. DOMAIN fw' = DOMAIN fw
    BY <1>1, <1>4 DEF FwShape
  <2> QED  BY <2>1, <2>2 DEF Updated
<1>6. /\ fw'.step = fw.step /\ fw'.args = fw.args /\ fw'.left = fw.left
      /\ fw'.seg = fw.seg /\ fw'.toSend = fw.toSend /\ fw'.cmd = fw.cmd
      /\ fw'.open = fw.open /\ fw'.loop = fw.loop /\ fw'.answered = fw.answered
      /\ fw'.sigAddr = fw.sigAddr /\ fw'.nvmWrite = fw.nvmWrite /\ fw'.masked = fw.masked
      /\ fw'.astray = FALSE
  BY <1>1, <1>4 DEF FwShape
<1>7. fw.loop \in {"main", "cmd"}
  BY <1>4 DEF FwShape
<1>9. ~fw'.astray /\ fw'.astray \in BOOLEAN
  BY <1>6, Zenon
<1>8. fw' \in FwShape
  BY <1>4, <1>5, <1>6, <1>7, <1>9, Fields, Reshaped
<1>10. faults' \in 0 .. MaxFaults
  BY <1>1 DEF LinkTypes
<1> QED  BY <1>1, <1>3, <1>6, <1>8, <1>9, <1>10, Zenon DEF Opens

LEMMA OpensKeepsTypes ==
  ASSUME HostTypes, LinkTypes, FwAlone, Opens
  PROVE  /\ toProg' \in Seq(Sending) /\ toHost' \in Seq(Bytes) /\ portOpen' \in BOOLEAN
         /\ HostTypes' /\ FwAlone'
<1>1. /\ portOpen' = TRUE /\ toHost' = << >> /\ UNCHANGED toProg
      /\ host' \in HostShape /\ host'.job \in Jobs /\ host'.pos = 1 /\ host'.at = 1
  BY Zenon DEF Opens
<1>2. IsJob(host'.job)
  BY <1>1, JobsAssumption
<1>3. HostTypes'
  <2>1. 1 \in DOMAIN host'.job /\ IsCall(host'.job[1])
    <3> DEFINE S == [cmd : Operating \cup {CMD_START, CMD_STOP}, n : Nat]
    <3>1. host'.job \in Seq(S) /\ Len(host'.job) > 1
      BY <1>2 DEF IsJob
    <3> HIDE DEF S
    <3>2. 1 \in DOMAIN host'.job /\ host'.job[1] \in S
      BY <3>1
    <3>3. host'.job[1].n <= Largest
      BY <1>1, <3>2, LargestIsLargest
    <3>4. host'.job[1].cmd = CMD_GETBLOCK => host'.job[1].n > 0
      BY <1>2, <3>2 DEF IsJob
    <3> QED  BY <3>2, <3>3, <3>4, Sizes DEF IsCall, S
  <2>2. Current' = host'.job[1] /\ 1 \in DOMAIN Steps(host'.job[1])
    BY <1>1, <2>1, LastSteps DEF Current
  <2>3. host'.at \in DOMAIN Steps(Current')
    BY <1>1, <2>2
  <2>4. Steps(Current)' = Steps(Current')
    OBVIOUS
  <2> QED  BY <1>1, <2>1, <2>3, <2>4 DEF HostTypes, HostShape
<1>4. /\ fw' \in FwShape /\ fw'.step = fw.step /\ fw'.args = fw.args /\ fw'.left = fw.left
      /\ fw'.seg = fw.seg /\ fw'.toSend = fw.toSend /\ fw'.cmd = fw.cmd
  BY Zenon DEF Opens
<1>5. (Running <=> Running') /\ Step' = Step
  BY <1>4 DEF Running, Step
<1>6. FwAlone'
  <2>1. FwTypes'
    <3>1. Running => fw.cmd \in Commands /\ fw.step \in DOMAIN Handlers[fw.cmd]
      BY Shape DEF FwAlone
    <3> QED  BY <1>4, <1>5, <3>1 DEF FwShape, FwTypes, Bytes
  <2>2. FwOwes' /\ FwHolds'
    BY <1>4, <1>5 DEF FwAlone, FwOwes, FwHolds, At
  <2> QED  BY <2>1, <2>2 DEF FwAlone
<1>7. toProg' \in Seq(Sending) /\ toHost' \in Seq(Bytes)
  BY <1>1 DEF LinkTypes
<1> QED  BY <1>1, <1>3, <1>6, <1>7, Zenon

-------------------------------------------------------------------------------
(* Types are an invariant *)

LEMMA InitTypes == Init => Types
<1> SUFFICES ASSUME Init  PROVE Types
  OBVIOUS
<1> USE DEF Init, LinkInit, FwInit, HostInit
<1>1. LinkTypes
  <2>1. portOpen \in BOOLEAN
    BY Zenon
  <2>2. toProg \in Seq(Sending) /\ toHost \in Seq(Bytes) /\ faults \in 0 .. MaxFaults
    BY MaxFaultsAssumption
  <2> QED  BY <2>1, <2>2 DEF LinkTypes
<1>2. HostTypes
  BY StartAttemptsAssumption DEF HostTypes, InSession
<1>3. FwTypes
  BY Sizes DEF FwTypes, Running
<1>4. FwOwes /\ FwHolds
  BY DEF FwOwes, FwHolds, Running
<1> QED  BY <1>1, <1>2, <1>3, <1>4 DEF Types, FwAlone

\* Every step is one of the kinds
LEMMA StepTypes ==
  ASSUME Types, [Next]_vars
  PROVE  Types'
<1>1. HostTypes /\ LinkTypes /\ FwAlone
  BY DEF Types
<1>2. CASE FirmwareSteps
  <2>1. FwNext /\ UNCHANGED host /\ UNCHANGED portOpen
    BY <1>1, <1>2, FwActs DEF FirmwareSteps
  <2>2. HostTypes'
    BY <1>1, <2>1 DEF HostTypes, InSession, Current
  <2> QED  BY <1>1, <2>1, <2>2, FwKeepsLink, FwKeepsAlone DEF Types
<1>3. CASE HostMoves
  <2>1. HostActs /\ UNCHANGED fw /\ faults' \in 0 .. MaxFaults
    BY <1>1, <1>3, HostDoes
  <2>2. LinkTypes'
    BY <1>1, <2>1, HostKeepsLink DEF LinkTypes
  <2>3. FwAlone'
    BY <1>1, <2>1 DEF FwAlone, FwTypes, FwOwes, FwHolds, At, Running, Step
  <2> QED  BY <1>1, <2>1, <2>2, <2>3, HostKeepsTypes DEF Types
<1>4. CASE Overrun \/ LineLoses
  <2>1. Loses /\ faults' \in 0 .. MaxFaults /\ UNCHANGED fw
    BY <1>1, <1>4, LossDoes, Zenon DEF Loses
  <2>2. FwAlone'
    BY <1>1, <2>1 DEF FwAlone, FwTypes, FwOwes, FwHolds, At, Running, Step
  <2>3. LinkTypes' /\ HostTypes'
    BY <1>1, <2>1, LossKeepsTypes DEF LinkTypes
  <2> QED  BY <2>2, <2>3 DEF Types
<1>5. CASE HostOpens
  <2>1. Opens /\ faults' \in 0 .. MaxFaults
    BY <1>1, <1>5, OpensDoes
  <2> QED  BY <1>1, <2>1, OpensKeepsTypes DEF Types, LinkTypes
<1>6. CASE UNCHANGED vars
  BY <1>1, <1>6 DEF vars, linkVars, Types, LinkTypes, HostTypes, InSession, Current,
                    FwAlone, FwTypes, FwOwes, FwHolds, At, Running, Step
<1> QED  BY <1>2, <1>3, <1>4, <1>5, <1>6 DEF Next, HostMoves

LEMMA TypesOK == Types => TypeOK
<1> SUFFICES ASSUME Types  PROVE TypeOK
  OBVIOUS
<1>1. fw \in FwShape /\ (Running => fw.step \in DOMAIN Handlers[fw.cmd])
  BY Shape DEF Types, FwAlone
<1>2. /\ toProg \in Seq([val : ByteValues, cmd : BOOLEAN]) /\ toHost \in Seq(ByteValues)
      /\ portOpen \in BOOLEAN /\ faults \in 0 .. MaxFaults
  BY DEF Types, LinkTypes, ByteValues, Bytes, Sending
<1>3. DOMAIN Handlers = Commands
  BY Zenon DEF Handlers
<1>4. /\ fw.loop \in {"main", "cmd"} /\ fw.cmd \in DOMAIN Handlers \cup {CMD_NONE}
      /\ fw.toSend \in 0 .. Largest + Stray + 3 /\ fw.left \in 0 .. Largest + Stray
      /\ fw.seg \in 0 .. Segment
      /\ {fw.open, fw.nvmWrite, fw.masked, fw.astray, fw.sigAddr} \subseteq BOOLEAN
  BY <1>1, <1>3 DEF FwShape, MaxSize
<1>5. InSession => /\ host.job \in Jobs /\ host.pos \in DOMAIN host.job
                   /\ host.at \in DOMAIN Steps(Current)
  BY DEF Types, HostTypes
<1>6. host.tries \in 0 .. StartAttempts - 1
  BY DEF Types, HostTypes
<1> QED  BY <1>1, <1>2, <1>4, <1>5, <1>6 DEF TypeOK

\* Both sides and the line between them hold what they are meant to hold, whatever is
\* lost, killed or late, and whatever size the firmware makes of stray bytes: a handler
\* is never past its last step, nor the controller past the last step of a call
THEOREM TypeCorrect == Spec => []TypeOK
<1>1. Init => Types
  BY InitTypes
<1>2. Types /\ [Next]_vars => Types'
  BY StepTypes
<1>3. Types => TypeOK
  BY TypesOK
<1> QED  BY <1>1, <1>2, <1>3, PTL DEF Spec

-------------------------------------------------------------------------------
(* Where the two sides meet *)

\* What a block's packets have brought after j rounds
BlockOf(call, j) == IF call.cmd = CMD_SENDBLOCK THEN Upto(j, call.n) ELSE 0

\* Before the loop there were no rounds, after it there were all
Round(call, s, j) ==
  /\ j \in 0 .. Rounds(call)
  /\ s < LoopStep(call.cmd) => j = 0
  /\ s > LoopStep(call.cmd) => j = Rounds(call)

\* The controller at its step a and the handler at its step s, when the one has not read
\* more than the other has sent, and the other has not got more than was written
Meets(call, s, a, j) ==
  LET op   == Handlers[call.cmd][s].op
      step == Steps(call)[a]
      read == HasRead(call, a)
      sent == HasSent(call.cmd, s) + j
      written == HasWritten(call, a)
      got  == HasGot(call.cmd, s) + BlockOf(call, j)
      gets == Gets(call.cmd, s)
  IN  read <= sent /\ (op = "packets" \/ got <= written) =>
        \* it has written what the handler has asked for, and no more
        /\ written <= got + IF op \in {"recv", "size", "packets"} THEN gets ELSE 3
        /\ op \in {"recv", "size", "packets"} /\ step.do \in Reading /\ read + Asks(step) > sent
             => written = got + gets
        /\ op = "size" /\ step.do \in Writing => step = Write(Word(call.n)) /\ written = got
        /\ step.do = "read" => op \notin {"recv", "size", "packets", "slow", "busy", "erase"}

LEMMA StartMeets ==
  ASSUME NEW call, IsCall(call), call.cmd = CMD_START, NEW s \in 1 .. LastOp(CMD_START),
         NEW a \in 1 .. LastStep(call), NEW j \in Nat, Round(call, s, j)
  PROVE  Meets(call, s, a, j)
<1>1. s \in {1, 2, 3, 4, 5, 6, 7, 8, 9, 10, 11} /\ LastOp(CMD_START) = 11
  BY StartOps
<1>2. /\ Handlers[CMD_START][1].op = "ack"
      /\ Handlers[CMD_START][2].op = "pad"
      /\ Handlers[CMD_START][3].op = "updi"
      /\ Handlers[CMD_START][4].op = "fetch"
      /\ Handlers[CMD_START][5].op = "slow"
      /\ Handlers[CMD_START][6].op = "ack"
      /\ Handlers[CMD_START][7].op = "recv"
      /\ Handlers[CMD_START][8].op = "pad"
      /\ Handlers[CMD_START][9].op = "updi"
      /\ Handlers[CMD_START][10].op = "fetch"
      /\ Handlers[CMD_START][11].op = "ok"
  BY StartOps DEF Ack, Pad, Recv, RecvSize, Updi, Slow, Fetch, Stream, Packets, Erase, Busy,
     Nvm, Ok, TargetAck, Stored, StatusB
<1>3. Gets(CMD_START, s) = IF s \in {7} THEN 3 ELSE 0
  <2>1. Handlers[CMD_START][7].n = 3
    BY StartOps, OpFacts
  <2> QED  BY <1>1, <1>2, <2>1 DEF Gets
<1>4. /\ HasSent(CMD_START, s) = IF s \in {1} THEN 0 ELSE IF s \in {11} THEN 6 ELSE IF s \in {5, 6} THEN 2 ELSE IF s \in {2, 3, 4} THEN 1 ELSE 3
      /\ HasGot(CMD_START, s) = IF s \in {8, 9, 10, 11} THEN 4 ELSE 1
  <2>1. HasSent(CMD_START, s) = IF s \in {1} THEN 0 ELSE IF s \in {11} THEN 6 ELSE IF s \in {5, 6} THEN 2 ELSE IF s \in {2, 3, 4} THEN 1 ELSE 3
    BY <1>1, StartFlow DEF Once
  <2>2. HasGot(CMD_START, s) = IF s \in {8, 9, 10, 11} THEN 4 ELSE 1
    <3>1. Parameters(CMD_START, s) = IF s \in {8, 9, 10, 11} THEN 3 ELSE 0
      BY <1>1, StartFlow DEF Once
    <3> QED  BY <1>1, <3>1 DEF HasGot
  <2> QED  BY <2>1, <2>2
<1>5. LastStep(call) = 7 /\ a \in 1 .. 7 /\ call.n \in Nat
  BY StartSteps, CallTypes
<1>6. /\ Steps(call)[1].do = "issue"
      /\ Steps(call)[2].do = "ack"
      /\ Steps(call)[3].do = "status"
      /\ Steps(call)[4].do = "progmode"
      /\ Steps(call)[5].do = "write"
      /\ Steps(call)[6].do = "signature"
      /\ Steps(call)[7].do = "result"
  <2>1. Write(DeviceSignatureAddress).do = "write"
    BY WriteFacts
  <2>2. /\ Steps(call)[1] = Issue /\ Steps(call)[2] = WaitAck
        /\ Steps(call)[3] = ReadStatus /\ Steps(call)[4] = ReadProgmode
        /\ Steps(call)[5] = Write(DeviceSignatureAddress)
        /\ Steps(call)[6] = ReadSignature /\ Steps(call)[7] = Result
    BY StartSteps
  <2> QED  BY <2>1, <2>2, KindFacts
<1>7. /\ HasRead(call, a) = IF a \in {3} THEN 1 ELSE IF a \in {4} THEN 2 ELSE IF a \in {7} THEN 6 ELSE IF a \in {1, 2} THEN 0 ELSE 3
      /\ HasWritten(call, a) = IF a \in {1} THEN 0 ELSE IF a \in {6, 7} THEN 4 ELSE 1
  BY <1>5, StartCounts
<1>8. /\ Steps(call)[a].do \in Reading <=> a \in {2, 3, 4, 6, 7}
      /\ Steps(call)[a].do \in Reading => Asks(Steps(call)[a]) = IF a \in {6} THEN 3 ELSE 1
      /\ Steps(call)[a].do \in Writing <=> a \notin {2, 3, 4, 6, 7}
      /\ Steps(call)[a].do # "read"
  BY <1>5, <1>6 DEF Reading, Writing, Asks
<1>9. BlockOf(call, j) = 0
  BY DEF BlockOf
<1>10. j = 0
  BY DEF Round, Rounds
<1>11. CASE s = 1
  BY <1>2, <1>3, <1>4, <1>5, <1>7, <1>8, <1>9, <1>10, <1>11 DEF Meets
<1>12. CASE s = 2
  BY <1>2, <1>3, <1>4, <1>5, <1>7, <1>8, <1>9, <1>10, <1>12 DEF Meets
<1>13. CASE s = 3
  BY <1>2, <1>3, <1>4, <1>5, <1>7, <1>8, <1>9, <1>10, <1>13 DEF Meets
<1>14. CASE s = 4
  BY <1>2, <1>3, <1>4, <1>5, <1>7, <1>8, <1>9, <1>10, <1>14 DEF Meets
<1>15. CASE s = 5
  BY <1>2, <1>3, <1>4, <1>5, <1>7, <1>8, <1>9, <1>10, <1>15 DEF Meets
<1>16. CASE s = 6
  BY <1>2, <1>3, <1>4, <1>5, <1>7, <1>8, <1>9, <1>10, <1>16 DEF Meets
<1>17. CASE s = 7
  BY <1>2, <1>3, <1>4, <1>5, <1>7, <1>8, <1>9, <1>10, <1>17 DEF Meets
<1>18. CASE s = 8
  BY <1>2, <1>3, <1>4, <1>5, <1>7, <1>8, <1>9, <1>10, <1>18 DEF Meets
<1>19. CASE s = 9
  BY <1>2, <1>3, <1>4, <1>5, <1>7, <1>8, <1>9, <1>10, <1>19 DEF Meets
<1>20. CASE s = 10
  BY <1>2, <1>3, <1>4, <1>5, <1>7, <1>8, <1>9, <1>10, <1>20 DEF Meets
<1>21. CASE s = 11
  BY <1>2, <1>3, <1>4, <1>5, <1>7, <1>8, <1>9, <1>10, <1>21 DEF Meets
<1> QED  BY <1>1, <1>11, <1>12, <1>13, <1>14, <1>15, <1>16, <1>17, <1>18, <1>19, <1>20, <1>21

LEMMA GetBlockMeets ==
  ASSUME NEW call, IsCall(call), call.cmd = CMD_GETBLOCK, NEW s \in 1 .. LastOp(CMD_GETBLOCK),
         NEW a \in 1 .. LastStep(call), NEW j \in Nat, Round(call, s, j)
  PROVE  Meets(call, s, a, j)
<1>1. s \in {1, 2, 3, 4, 5} /\ LastOp(CMD_GETBLOCK) = 5
  BY GetBlockOps
<1>2. /\ Handlers[CMD_GETBLOCK][1].op = "ack"
      /\ Handlers[CMD_GETBLOCK][2].op = "size"
      /\ Handlers[CMD_GETBLOCK][3].op = "ack"
      /\ Handlers[CMD_GETBLOCK][4].op = "stream"
      /\ Handlers[CMD_GETBLOCK][5].op = "ok"
  BY GetBlockOps DEF Ack, Pad, Recv, RecvSize, Updi, Slow, Fetch, Stream, Packets, Erase, Busy,
     Nvm, Ok, TargetAck, Stored, StatusB
<1>3. Gets(CMD_GETBLOCK, s) = IF s \in {2} THEN 2 ELSE 0
  BY <1>1, <1>2 DEF Gets
<1>4. /\ HasSent(CMD_GETBLOCK, s) = IF s \in {1} THEN 0 ELSE IF s \in {2, 3} THEN 1 ELSE 2
      /\ HasGot(CMD_GETBLOCK, s) = IF s \in {1, 2} THEN 1 ELSE 3
  <2>1. HasSent(CMD_GETBLOCK, s) = IF s \in {1} THEN 0 ELSE IF s \in {2, 3} THEN 1 ELSE 2
    BY <1>1, GetBlockFlow DEF Once
  <2>2. HasGot(CMD_GETBLOCK, s) = IF s \in {1, 2} THEN 1 ELSE 3
    <3>1. Parameters(CMD_GETBLOCK, s) = IF s \in {1, 2} THEN 0 ELSE 2
      BY <1>1, GetBlockFlow DEF Once
    <3> QED  BY <1>1, <3>1 DEF HasGot
  <2> QED  BY <2>1, <2>2
<1>5. LastStep(call) = 6 /\ a \in 1 .. 6 /\ call.n \in Nat
  BY GetBlockSteps, CallTypes
<1>6. /\ Steps(call)[1].do = "issue"
      /\ Steps(call)[2].do = "ack"
      /\ Steps(call)[3].do = "write"
      /\ Steps(call)[4].do = "ack"
      /\ Steps(call)[5].do = "read"
      /\ Steps(call)[6].do = "result"
  <2>1. Read(call.n).do = "read" /\ Write(Word(call.n)).do = "write"
    BY WriteFacts, DataFacts
  <2>2. /\ Steps(call)[1] = Issue /\ Steps(call)[2] = WaitAck
        /\ Steps(call)[3] = Write(Word(call.n)) /\ Steps(call)[4] = WaitAck
        /\ Steps(call)[5] = Read(call.n) /\ Steps(call)[6] = Result
    BY GetBlockSteps
  <2> QED  BY <2>1, <2>2, KindFacts
<1>7. /\ HasRead(call, a) = IF a > 5 THEN 2 + call.n ELSE IF a > 4 THEN 2 ELSE IF a > 2 THEN 1 ELSE 0
      /\ HasWritten(call, a) = IF a > 3 THEN 3 ELSE IF a > 1 THEN 1 ELSE 0
  BY <1>5, GetBlockCounts
<1>8. /\ Steps(call)[a].do \in Reading <=> a \in {2, 4, 5, 6}
      /\ Steps(call)[a].do \in Reading => Asks(Steps(call)[a]) = IF a \in {5} THEN call.n ELSE 1
      /\ Steps(call)[a].do \in Writing <=> a \notin {2, 4, 5, 6}
      /\ Steps(call)[a].do = "read" <=> a = 5
  <2>1. Steps(call)[5].n = call.n
    BY GetBlockSteps, DataFacts
  <2> QED  BY <1>5, <1>6, <2>1 DEF Reading, Writing, Asks
<1>9. BlockOf(call, j) = 0
  BY DEF BlockOf
<1>10. (s < 4 => j = 0) /\ Steps(call)[3] = Write(Word(call.n))
  BY GetBlockSteps DEF Round, LoopStep
<1>11. CASE s = 1
  BY <1>2, <1>3, <1>4, <1>5, <1>7, <1>8, <1>9, <1>10, <1>11 DEF Meets
<1>12. CASE s = 2
  BY <1>2, <1>3, <1>4, <1>5, <1>7, <1>8, <1>9, <1>10, <1>12 DEF Meets
<1>13. CASE s = 3
  BY <1>2, <1>3, <1>4, <1>5, <1>7, <1>8, <1>9, <1>10, <1>13 DEF Meets
<1>14. CASE s = 4
  BY <1>2, <1>3, <1>4, <1>5, <1>7, <1>8, <1>9, <1>10, <1>14 DEF Meets
<1>15. CASE s = 5
  BY <1>2, <1>3, <1>4, <1>5, <1>7, <1>8, <1>9, <1>10, <1>15 DEF Meets
<1> QED  BY <1>1, <1>11, <1>12, <1>13, <1>14, <1>15

LEMMA GetByteMeets ==
  ASSUME NEW call, IsCall(call), call.cmd = CMD_GETBYTE, NEW s \in 1 .. LastOp(CMD_GETBYTE),
         NEW a \in 1 .. LastStep(call), NEW j \in Nat, Round(call, s, j)
  PROVE  Meets(call, s, a, j)
<1>1. s \in {1, 2, 3, 4, 5, 6} /\ LastOp(CMD_GETBYTE) = 6
  BY GetByteOps
<1>2. /\ Handlers[CMD_GETBYTE][1].op = "pad"
      /\ Handlers[CMD_GETBYTE][2].op = "ack"
      /\ Handlers[CMD_GETBYTE][3].op = "recv"
      /\ Handlers[CMD_GETBYTE][4].op = "ack"
      /\ Handlers[CMD_GETBYTE][5].op = "fetch"
      /\ Handlers[CMD_GETBYTE][6].op = "ok"
  BY GetByteOps DEF Ack, Pad, Recv, RecvSize, Updi, Slow, Fetch, Stream, Packets, Erase, Busy,
     Nvm, Ok, TargetAck, Stored, StatusB
<1>3. Gets(CMD_GETBYTE, s) = IF s \in {3} THEN 3 ELSE 0
  <2>1. Handlers[CMD_GETBYTE][3].n = 3
    BY GetByteOps, OpFacts
  <2> QED  BY <1>1, <1>2, <2>1 DEF Gets
<1>4. /\ HasSent(CMD_GETBYTE, s) = IF s \in {5} THEN 2 ELSE IF s \in {6} THEN 3 ELSE IF s \in {1, 2} THEN 0 ELSE 1
      /\ HasGot(CMD_GETBYTE, s) = IF s \in {1, 2, 3} THEN 1 ELSE 4
  <2>1. HasSent(CMD_GETBYTE, s) = IF s \in {5} THEN 2 ELSE IF s \in {6} THEN 3 ELSE IF s \in {1, 2} THEN 0 ELSE 1
    BY <1>1, GetByteFlow DEF Once
  <2>2. HasGot(CMD_GETBYTE, s) = IF s \in {1, 2, 3} THEN 1 ELSE 4
    <3>1. Parameters(CMD_GETBYTE, s) = IF s \in {1, 2, 3} THEN 0 ELSE 3
      BY <1>1, GetByteFlow DEF Once
    <3> QED  BY <1>1, <3>1 DEF HasGot
  <2> QED  BY <2>1, <2>2
<1>5. LastStep(call) = 6 /\ a \in 1 .. 6 /\ call.n \in Nat
  BY GetByteSteps, CallTypes
<1>6. /\ Steps(call)[1].do = "issue"
      /\ Steps(call)[2].do = "ack"
      /\ Steps(call)[3].do = "data"
      /\ Steps(call)[4].do = "ack"
      /\ Steps(call)[5].do = "read"
      /\ Steps(call)[6].do = "result"
  <2>1. Read(1).do = "read" /\ WriteData(3).do = "data"
    BY DataFacts
  <2>2. /\ Steps(call)[1] = Issue /\ Steps(call)[2] = WaitAck
        /\ Steps(call)[3] = WriteData(3) /\ Steps(call)[4] = WaitAck
        /\ Steps(call)[5] = Read(1) /\ Steps(call)[6] = Result
    BY GetByteSteps
  <2> QED  BY <2>1, <2>2, KindFacts
<1>7. /\ HasRead(call, a) = IF a \in {5} THEN 2 ELSE IF a \in {6} THEN 3 ELSE IF a \in {1, 2} THEN 0 ELSE 1
      /\ HasWritten(call, a) = IF a \in {1} THEN 0 ELSE IF a \in {2, 3} THEN 1 ELSE 4
  BY <1>5, GetByteCounts
<1>8. /\ Steps(call)[a].do \in Reading <=> a \in {2, 4, 5, 6}
      /\ Steps(call)[a].do \in Reading => Asks(Steps(call)[a]) = 1
      /\ Steps(call)[a].do \in Writing <=> a \notin {2, 4, 5, 6}
      /\ Steps(call)[a].do = "read" <=> a = 5
  <2>1. Steps(call)[5].n = 1
    BY GetByteSteps, DataFacts
  <2> QED  BY <1>5, <1>6, <2>1 DEF Reading, Writing, Asks
<1>9. BlockOf(call, j) = 0
  BY DEF BlockOf
<1>10. j = 0
  BY DEF Round, Rounds
<1>11. CASE s = 1
  BY <1>2, <1>3, <1>4, <1>5, <1>7, <1>8, <1>9, <1>10, <1>11 DEF Meets
<1>12. CASE s = 2
  BY <1>2, <1>3, <1>4, <1>5, <1>7, <1>8, <1>9, <1>10, <1>12 DEF Meets
<1>13. CASE s = 3
  BY <1>2, <1>3, <1>4, <1>5, <1>7, <1>8, <1>9, <1>10, <1>13 DEF Meets
<1>14. CASE s = 4
  BY <1>2, <1>3, <1>4, <1>5, <1>7, <1>8, <1>9, <1>10, <1>14 DEF Meets
<1>15. CASE s = 5
  BY <1>2, <1>3, <1>4, <1>5, <1>7, <1>8, <1>9, <1>10, <1>15 DEF Meets
<1>16. CASE s = 6
  BY <1>2, <1>3, <1>4, <1>5, <1>7, <1>8, <1>9, <1>10, <1>16 DEF Meets
<1> QED  BY <1>1, <1>11, <1>12, <1>13, <1>14, <1>15, <1>16

LEMMA SendByteMeets ==
  ASSUME NEW call, IsCall(call), call.cmd = CMD_SENDBYTE, NEW s \in 1 .. LastOp(CMD_SENDBYTE),
         NEW a \in 1 .. LastStep(call), NEW j \in Nat, Round(call, s, j)
  PROVE  Meets(call, s, a, j)
<1>1. s \in {1, 2, 3, 4, 5, 6, 7, 8, 9} /\ LastOp(CMD_SENDBYTE) = 9
  BY SendByteOps
<1>2. /\ Handlers[CMD_SENDBYTE][1].op = "ack"
      /\ Handlers[CMD_SENDBYTE][2].op = "recv"
      /\ Handlers[CMD_SENDBYTE][3].op = "ack"
      /\ Handlers[CMD_SENDBYTE][4].op = "updi"
      /\ Handlers[CMD_SENDBYTE][5].op = "recv"
      /\ Handlers[CMD_SENDBYTE][6].op = "ack"
      /\ Handlers[CMD_SENDBYTE][7].op = "updi"
      /\ Handlers[CMD_SENDBYTE][8].op = "busy"
      /\ Handlers[CMD_SENDBYTE][9].op = "ok"
  BY SendByteOps DEF Ack, Pad, Recv, RecvSize, Updi, Slow, Fetch, Stream, Packets, Erase, Busy,
     Nvm, Ok, TargetAck, Stored, StatusB
<1>3. Gets(CMD_SENDBYTE, s) = IF s \in {2} THEN 3 ELSE IF s \in {5} THEN 1 ELSE 0
  <2>1. Handlers[CMD_SENDBYTE][2].n = 3 /\ Handlers[CMD_SENDBYTE][5].n = 1
    BY SendByteOps, OpFacts
  <2> QED  BY <1>1, <1>2, <2>1 DEF Gets
<1>4. /\ HasSent(CMD_SENDBYTE, s) = IF s \in {1} THEN 0 ELSE IF s \in {2, 3} THEN 1 ELSE IF s \in {4, 5, 6} THEN 2 ELSE 3
      /\ HasGot(CMD_SENDBYTE, s) = IF s \in {1, 2} THEN 1 ELSE IF s \in {3, 4, 5} THEN 4 ELSE 5
  <2>1. HasSent(CMD_SENDBYTE, s) = IF s \in {1} THEN 0 ELSE IF s \in {2, 3} THEN 1 ELSE IF s \in {4, 5, 6} THEN 2 ELSE 3
    BY <1>1, SendByteFlow DEF Once
  <2>2. HasGot(CMD_SENDBYTE, s) = IF s \in {1, 2} THEN 1 ELSE IF s \in {3, 4, 5} THEN 4 ELSE 5
    <3>1. Parameters(CMD_SENDBYTE, s) = IF s \in {1, 2} THEN 0 ELSE IF s \in {3, 4, 5} THEN 3 ELSE 4
      BY <1>1, SendByteFlow DEF Once
    <3> QED  BY <1>1, <3>1 DEF HasGot
  <2> QED  BY <2>1, <2>2
<1>5. LastStep(call) = 7 /\ a \in 1 .. 7 /\ call.n \in Nat
  BY SendByteSteps, CallTypes
<1>6. /\ Steps(call)[1].do = "issue"
      /\ Steps(call)[2].do = "ack"
      /\ Steps(call)[3].do = "data"
      /\ Steps(call)[4].do = "ack"
      /\ Steps(call)[5].do = "data"
      /\ Steps(call)[6].do = "ack"
      /\ Steps(call)[7].do = "result"
  <2>1. WriteData(1).do = "data" /\ WriteData(3).do = "data"
    BY DataFacts
  <2>2. /\ Steps(call)[1] = Issue /\ Steps(call)[2] = WaitAck
        /\ Steps(call)[3] = WriteData(3) /\ Steps(call)[4] = WaitAck
        /\ Steps(call)[5] = WriteData(1) /\ Steps(call)[6] = WaitAck
        /\ Steps(call)[7] = Result
    BY SendByteSteps
  <2> QED  BY <2>1, <2>2, KindFacts
<1>7. /\ HasRead(call, a) = IF a \in {7} THEN 3 ELSE IF a \in {1, 2} THEN 0 ELSE IF a \in {3, 4} THEN 1 ELSE 2
      /\ HasWritten(call, a) = IF a \in {1} THEN 0 ELSE IF a \in {2, 3} THEN 1 ELSE IF a \in {4, 5} THEN 4 ELSE 5
  BY <1>5, SendByteCounts
<1>8. /\ Steps(call)[a].do \in Reading <=> a \in {2, 4, 6, 7}
      /\ Steps(call)[a].do \in Reading => Asks(Steps(call)[a]) = 1
      /\ Steps(call)[a].do \in Writing <=> a \notin {2, 4, 6, 7}
      /\ Steps(call)[a].do # "read"
  BY <1>5, <1>6 DEF Reading, Writing, Asks
<1>9. BlockOf(call, j) = 0
  BY DEF BlockOf
<1>10. j = 0
  BY DEF Round, Rounds
<1>11. CASE s = 1
  BY <1>2, <1>3, <1>4, <1>5, <1>7, <1>8, <1>9, <1>10, <1>11 DEF Meets
<1>12. CASE s = 2
  BY <1>2, <1>3, <1>4, <1>5, <1>7, <1>8, <1>9, <1>10, <1>12 DEF Meets
<1>13. CASE s = 3
  BY <1>2, <1>3, <1>4, <1>5, <1>7, <1>8, <1>9, <1>10, <1>13 DEF Meets
<1>14. CASE s = 4
  BY <1>2, <1>3, <1>4, <1>5, <1>7, <1>8, <1>9, <1>10, <1>14 DEF Meets
<1>15. CASE s = 5
  BY <1>2, <1>3, <1>4, <1>5, <1>7, <1>8, <1>9, <1>10, <1>15 DEF Meets
<1>16. CASE s = 6
  BY <1>2, <1>3, <1>4, <1>5, <1>7, <1>8, <1>9, <1>10, <1>16 DEF Meets
<1>17. CASE s = 7
  BY <1>2, <1>3, <1>4, <1>5, <1>7, <1>8, <1>9, <1>10, <1>17 DEF Meets
<1>18. CASE s = 8
  BY <1>2, <1>3, <1>4, <1>5, <1>7, <1>8, <1>9, <1>10, <1>18 DEF Meets
<1>19. CASE s = 9
  BY <1>2, <1>3, <1>4, <1>5, <1>7, <1>8, <1>9, <1>10, <1>19 DEF Meets
<1> QED  BY <1>1, <1>11, <1>12, <1>13, <1>14, <1>15, <1>16, <1>17, <1>18, <1>19

LEMMA SetAddrMeets ==
  ASSUME NEW call, IsCall(call), call.cmd = CMD_SETADDR, NEW s \in 1 .. LastOp(CMD_SETADDR),
         NEW a \in 1 .. LastStep(call), NEW j \in Nat, Round(call, s, j)
  PROVE  Meets(call, s, a, j)
<1>1. s \in {1, 2, 3, 4, 5} /\ LastOp(CMD_SETADDR) = 5
  BY SetAddrOps
<1>2. /\ Handlers[CMD_SETADDR][1].op = "ack"
      /\ Handlers[CMD_SETADDR][2].op = "recv"
      /\ Handlers[CMD_SETADDR][3].op = "ack"
      /\ Handlers[CMD_SETADDR][4].op = "updi"
      /\ Handlers[CMD_SETADDR][5].op = "ok"
  BY SetAddrOps DEF Ack, Pad, Recv, RecvSize, Updi, Slow, Fetch, Stream, Packets, Erase, Busy,
     Nvm, Ok, TargetAck, Stored, StatusB
<1>3. Gets(CMD_SETADDR, s) = IF s \in {2} THEN 3 ELSE 0
  <2>1. Handlers[CMD_SETADDR][2].n = 3
    BY SetAddrOps, OpFacts
  <2> QED  BY <1>1, <1>2, <2>1 DEF Gets
<1>4. /\ HasSent(CMD_SETADDR, s) = IF s \in {1} THEN 0 ELSE IF s \in {2, 3} THEN 1 ELSE 2
      /\ HasGot(CMD_SETADDR, s) = IF s \in {1, 2} THEN 1 ELSE 4
  <2>1. HasSent(CMD_SETADDR, s) = IF s \in {1} THEN 0 ELSE IF s \in {2, 3} THEN 1 ELSE 2
    BY <1>1, SetAddrFlow DEF Once
  <2>2. HasGot(CMD_SETADDR, s) = IF s \in {1, 2} THEN 1 ELSE 4
    <3>1. Parameters(CMD_SETADDR, s) = IF s \in {1, 2} THEN 0 ELSE 3
      BY <1>1, SetAddrFlow DEF Once
    <3> QED  BY <1>1, <3>1 DEF HasGot
  <2> QED  BY <2>1, <2>2
<1>5. LastStep(call) = 5 /\ a \in 1 .. 5 /\ call.n \in Nat
  BY SetAddrSteps, CallTypes
<1>6. /\ Steps(call)[1].do = "issue"
      /\ Steps(call)[2].do = "ack"
      /\ Steps(call)[3].do = "data"
      /\ Steps(call)[4].do = "ack"
      /\ Steps(call)[5].do = "result"
  <2>1. WriteData(3).do = "data"
    BY DataFacts
  <2>2. /\ Steps(call)[1] = Issue /\ Steps(call)[2] = WaitAck
        /\ Steps(call)[3] = WriteData(3) /\ Steps(call)[4] = WaitAck
        /\ Steps(call)[5] = Result
    BY SetAddrSteps
  <2> QED  BY <2>1, <2>2, KindFacts
<1>7. /\ HasRead(call, a) = IF a \in {5} THEN 2 ELSE IF a \in {1, 2} THEN 0 ELSE 1
      /\ HasWritten(call, a) = IF a \in {1} THEN 0 ELSE IF a \in {2, 3} THEN 1 ELSE 4
  BY <1>5, SetAddrCounts
<1>8. /\ Steps(call)[a].do \in Reading <=> a \in {2, 4, 5}
      /\ Steps(call)[a].do \in Reading => Asks(Steps(call)[a]) = 1
      /\ Steps(call)[a].do \in Writing <=> a \notin {2, 4, 5}
      /\ Steps(call)[a].do # "read"
  BY <1>5, <1>6 DEF Reading, Writing, Asks
<1>9. BlockOf(call, j) = 0
  BY DEF BlockOf
<1>10. j = 0
  BY DEF Round, Rounds
<1>11. CASE s = 1
  BY <1>2, <1>3, <1>4, <1>5, <1>7, <1>8, <1>9, <1>10, <1>11 DEF Meets
<1>12. CASE s = 2
  BY <1>2, <1>3, <1>4, <1>5, <1>7, <1>8, <1>9, <1>10, <1>12 DEF Meets
<1>13. CASE s = 3
  BY <1>2, <1>3, <1>4, <1>5, <1>7, <1>8, <1>9, <1>10, <1>13 DEF Meets
<1>14. CASE s = 4
  BY <1>2, <1>3, <1>4, <1>5, <1>7, <1>8, <1>9, <1>10, <1>14 DEF Meets
<1>15. CASE s = 5
  BY <1>2, <1>3, <1>4, <1>5, <1>7, <1>8, <1>9, <1>10, <1>15 DEF Meets
<1> QED  BY <1>1, <1>11, <1>12, <1>13, <1>14, <1>15

LEMMA SetBaudMeets ==
  ASSUME NEW call, IsCall(call), call.cmd = CMD_SETBAUD, NEW s \in 1 .. LastOp(CMD_SETBAUD),
         NEW a \in 1 .. LastStep(call), NEW j \in Nat, Round(call, s, j)
  PROVE  Meets(call, s, a, j)
<1>1. s \in {1, 2, 3, 4, 5, 6, 7} /\ LastOp(CMD_SETBAUD) = 7
  BY SetBaudOps
<1>2. /\ Handlers[CMD_SETBAUD][1].op = "ack"
      /\ Handlers[CMD_SETBAUD][2].op = "recv"
      /\ Handlers[CMD_SETBAUD][3].op = "ack"
      /\ Handlers[CMD_SETBAUD][4].op = "recv"
      /\ Handlers[CMD_SETBAUD][5].op = "ack"
      /\ Handlers[CMD_SETBAUD][6].op = "updi"
      /\ Handlers[CMD_SETBAUD][7].op = "ok"
  BY SetBaudOps DEF Ack, Pad, Recv, RecvSize, Updi, Slow, Fetch, Stream, Packets, Erase, Busy,
     Nvm, Ok, TargetAck, Stored, StatusB
<1>3. Gets(CMD_SETBAUD, s) = IF s \in {2, 4} THEN 2 ELSE 0
  <2>1. Handlers[CMD_SETBAUD][2].n = 2 /\ Handlers[CMD_SETBAUD][4].n = 2
    BY SetBaudOps, OpFacts
  <2> QED  BY <1>1, <1>2, <2>1 DEF Gets
<1>4. /\ HasSent(CMD_SETBAUD, s) = IF s \in {1} THEN 0 ELSE IF s \in {2, 3} THEN 1 ELSE IF s \in {4, 5} THEN 2 ELSE 3
      /\ HasGot(CMD_SETBAUD, s) = IF s \in {1, 2} THEN 1 ELSE IF s \in {3, 4} THEN 3 ELSE 5
  <2>1. HasSent(CMD_SETBAUD, s) = IF s \in {1} THEN 0 ELSE IF s \in {2, 3} THEN 1 ELSE IF s \in {4, 5} THEN 2 ELSE 3
    BY <1>1, SetBaudFlow DEF Once
  <2>2. HasGot(CMD_SETBAUD, s) = IF s \in {1, 2} THEN 1 ELSE IF s \in {3, 4} THEN 3 ELSE 5
    <3>1. Parameters(CMD_SETBAUD, s) = IF s \in {1, 2} THEN 0 ELSE IF s \in {3, 4} THEN 2 ELSE 4
      BY <1>1, SetBaudFlow DEF Once
    <3> QED  BY <1>1, <3>1 DEF HasGot
  <2> QED  BY <2>1, <2>2
<1>5. LastStep(call) = 7 /\ a \in 1 .. 7 /\ call.n \in Nat
  BY SetBaudSteps, CallTypes
<1>6. /\ Steps(call)[1].do = "issue"
      /\ Steps(call)[2].do = "ack"
      /\ Steps(call)[3].do = "data"
      /\ Steps(call)[4].do = "ack"
      /\ Steps(call)[5].do = "data"
      /\ Steps(call)[6].do = "ack"
      /\ Steps(call)[7].do = "result"
  <2>1. WriteData(2).do = "data"
    BY DataFacts
  <2>2. /\ Steps(call)[1] = Issue /\ Steps(call)[2] = WaitAck
        /\ Steps(call)[3] = WriteData(2) /\ Steps(call)[4] = WaitAck
        /\ Steps(call)[5] = WriteData(2) /\ Steps(call)[6] = WaitAck
        /\ Steps(call)[7] = Result
    BY SetBaudSteps
  <2> QED  BY <2>1, <2>2, KindFacts
<1>7. /\ HasRead(call, a) = IF a \in {7} THEN 3 ELSE IF a \in {1, 2} THEN 0 ELSE IF a \in {3, 4} THEN 1 ELSE 2
      /\ HasWritten(call, a) = IF a \in {1} THEN 0 ELSE IF a \in {2, 3} THEN 1 ELSE IF a \in {4, 5} THEN 3 ELSE 5
  BY <1>5, SetBaudCounts
<1>8. /\ Steps(call)[a].do \in Reading <=> a \in {2, 4, 6, 7}
      /\ Steps(call)[a].do \in Reading => Asks(Steps(call)[a]) = 1
      /\ Steps(call)[a].do \in Writing <=> a \notin {2, 4, 6, 7}
      /\ Steps(call)[a].do # "read"
  BY <1>5, <1>6 DEF Reading, Writing, Asks
<1>9. BlockOf(call, j) = 0
  BY DEF BlockOf
<1>10. j = 0
  BY DEF Round, Rounds
<1>11. CASE s = 1
  BY <1>2, <1>3, <1>4, <1>5, <1>7, <1>8, <1>9, <1>10, <1>11 DEF Meets
<1>12. CASE s = 2
  BY <1>2, <1>3, <1>4, <1>5, <1>7, <1>8, <1>9, <1>10, <1>12 DEF Meets
<1>13. CASE s = 3
  BY <1>2, <1>3, <1>4, <1>5, <1>7, <1>8, <1>9, <1>10, <1>13 DEF Meets
<1>14. CASE s = 4
  BY <1>2, <1>3, <1>4, <1>5, <1>7, <1>8, <1>9, <1>10, <1>14 DEF Meets
<1>15. CASE s = 5
  BY <1>2, <1>3, <1>4, <1>5, <1>7, <1>8, <1>9, <1>10, <1>15 DEF Meets
<1>16. CASE s = 6
  BY <1>2, <1>3, <1>4, <1>5, <1>7, <1>8, <1>9, <1>10, <1>16 DEF Meets
<1>17. CASE s = 7
  BY <1>2, <1>3, <1>4, <1>5, <1>7, <1>8, <1>9, <1>10, <1>17 DEF Meets
<1> QED  BY <1>1, <1>11, <1>12, <1>13, <1>14, <1>15, <1>16, <1>17

LEMMA PlainMeets ==
  ASSUME NEW call, IsCall(call),
         call.cmd \in {CMD_STOP, CMD_CHIPERASE, CMD_EEPROM_WR_EN, CMD_FLASH_WR_EN, CMD_NVM_WR_DIS},
         NEW s \in 1 .. LastOp(call.cmd), NEW a \in 1 .. LastStep(call), NEW j \in Nat,
         Round(call, s, j)
  PROVE  Meets(call, s, a, j)
<1>1. LastStep(call) = 3 /\ a \in 1 .. 3 /\ HasWritten(call, a) \in 0 .. 1
  BY PlainSteps, PlainCounts
<1>2. Steps(call)[a].do # "read"
  BY <1>1, PlainSteps, KindFacts
<1>3. Handlers[call.cmd][s].op \notin {"recv", "size", "packets"}
  <2>1. CASE call.cmd = CMD_STOP
    BY <2>1, StopOps DEF Ack, Slow, Ok
  <2>2. CASE call.cmd = CMD_CHIPERASE
    BY <2>2, ChipEraseOps DEF Ack, Updi, Slow, Ok
  <2>3. CASE call.cmd = CMD_EEPROM_WR_EN
    BY <2>3, EepromWriteEnableOps DEF Ack, Stored, Updi, Nvm, Ok
  <2>4. CASE call.cmd = CMD_FLASH_WR_EN
    BY <2>4, FlashWriteEnableOps DEF Ack, Stored, Updi, Nvm, Ok
  <2>5. CASE call.cmd = CMD_NVM_WR_DIS
    BY <2>5, NvmWriteDisableOps DEF Ack, Stored, Updi, Nvm, Ok
  <2> QED  BY <2>1, <2>2, <2>3, <2>4, <2>5
<1>4. HasGot(call.cmd, s) = 1 /\ BlockOf(call, j) = 0
  BY DEF HasGot, Parameters, BlockOf
<1> QED  BY <1>1, <1>2, <1>3, <1>4 DEF Meets

LEMMA PageEraseKinds ==
  ASSUME NEW call, IsCall(call), call.cmd = CMD_FLASH_PAGE_ERASE, NEW a \in 1 .. LastStep(call)
  PROVE  /\ call.n \in Nat /\ a \in 1 .. 8 + call.n /\ LastStep(call) = 8 + call.n
         /\ Steps(call)[a].do \in Reading <=> a \notin {1, 3, 5, 7}
         /\ Steps(call)[a].do \in Reading => Asks(Steps(call)[a]) = 1
         /\ Steps(call)[a].do \in Writing <=> a \in {1, 3, 5, 7}
         /\ Steps(call)[a].do \in Reading => Steps(call)[a].do \in {"ack", "result"}
         /\ Steps(call)[5] = Write(Word(call.n))
<1> DEFINE n == call.n
           step == Steps(call)[a]
<1>1. n \in Nat /\ LastStep(call) = 8 + n /\ a \in 1 .. 8 + n
  BY PageEraseSteps, CallTypes
<1>2. /\ a = 1 => step.do = "issue"
      /\ a \in {3, 5, 7} => step.do \in {"write", "data"}
      /\ a \in {2, 4, 6} => step.do = "ack"
  BY PageEraseSteps, KindFacts, WriteFacts, DataFacts
<1>3. a \in 8 .. 7 + n => step.do = "ack"
  BY PageEraseSteps, KindFacts
<1>4. a = 8 + n => step.do = "result"
  BY PageEraseSteps, KindFacts
<1>5. Steps(call)[5] = Write(Word(call.n))
  BY PageEraseSteps
<1>6. a \in {1, 3, 5, 7, 2, 4, 6} \/ a \in 8 .. 7 + n \/ a = 8 + n
  BY <1>1
<1> HIDE DEF n, step
<1>7. /\ step.do \in Reading <=> a \notin {1, 3, 5, 7}
      /\ step.do \in Reading => Asks(step) = 1
      /\ step.do \in Writing <=> a \in {1, 3, 5, 7}
      /\ step.do \in Reading => step.do \in {"ack", "result"}
  BY <1>1, <1>2, <1>3, <1>4, <1>6 DEF Reading, Writing, Asks
<1> QED  BY <1>1, <1>5, <1>7 DEF n, step

LEMMA FlashPageEraseMeets ==
  ASSUME NEW call, IsCall(call), call.cmd = CMD_FLASH_PAGE_ERASE,
         NEW s \in 1 .. LastOp(CMD_FLASH_PAGE_ERASE), NEW a \in 1 .. LastStep(call),
         NEW j \in Nat, Round(call, s, j)
  PROVE  Meets(call, s, a, j)
<1>1. s \in {1, 2, 3, 4, 5, 6, 7, 8, 9, 10} /\ LastOp(CMD_FLASH_PAGE_ERASE) = 10
  BY FlashPageEraseOps
<1>2. /\ Handlers[CMD_FLASH_PAGE_ERASE][1].op = "ack"
      /\ Handlers[CMD_FLASH_PAGE_ERASE][2].op = "recv"
      /\ Handlers[CMD_FLASH_PAGE_ERASE][3].op = "ack"
      /\ Handlers[CMD_FLASH_PAGE_ERASE][4].op = "size"
      /\ Handlers[CMD_FLASH_PAGE_ERASE][5].op = "ack"
      /\ Handlers[CMD_FLASH_PAGE_ERASE][6].op = "recv"
      /\ Handlers[CMD_FLASH_PAGE_ERASE][7].op = "updi"
      /\ Handlers[CMD_FLASH_PAGE_ERASE][8].op = "erase"
      /\ Handlers[CMD_FLASH_PAGE_ERASE][9].op = "updi"
      /\ Handlers[CMD_FLASH_PAGE_ERASE][10].op = "ok"
  BY FlashPageEraseOps DEF Ack, Pad, Recv, RecvSize, Updi, Slow, Fetch, Stream, Packets, Erase, Busy,
     Nvm, Ok, TargetAck, Stored, StatusB
<1>3. Gets(CMD_FLASH_PAGE_ERASE, s) = IF s \in {2} THEN 3 ELSE IF s \in {4, 6} THEN 2 ELSE 0
  <2>1. Handlers[CMD_FLASH_PAGE_ERASE][2].n = 3 /\ Handlers[CMD_FLASH_PAGE_ERASE][6].n = 2
    BY FlashPageEraseOps, OpFacts
  <2> QED  BY <1>1, <1>2, <2>1 DEF Gets
<1>4. /\ HasSent(CMD_FLASH_PAGE_ERASE, s) = IF s \in {1} THEN 0 ELSE IF s \in {2, 3} THEN 1 ELSE IF s \in {4, 5} THEN 2 ELSE 3
      /\ HasGot(CMD_FLASH_PAGE_ERASE, s) = IF s \in {1, 2} THEN 1 ELSE IF s \in {3, 4} THEN 4 ELSE IF s \in {5, 6} THEN 6 ELSE 8
  <2>1. HasSent(CMD_FLASH_PAGE_ERASE, s) = IF s \in {1} THEN 0 ELSE IF s \in {2, 3} THEN 1 ELSE IF s \in {4, 5} THEN 2 ELSE 3
    BY <1>1, FlashPageEraseFlow DEF Once
  <2>2. HasGot(CMD_FLASH_PAGE_ERASE, s) = IF s \in {1, 2} THEN 1 ELSE IF s \in {3, 4} THEN 4 ELSE IF s \in {5, 6} THEN 6 ELSE 8
    <3>1. Parameters(CMD_FLASH_PAGE_ERASE, s) = IF s \in {1, 2} THEN 0 ELSE IF s \in {3, 4} THEN 3 ELSE IF s \in {5, 6} THEN 5 ELSE 7
      BY <1>1, FlashPageEraseFlow DEF Once
    <3> QED  BY <1>1, <3>1 DEF HasGot
  <2> QED  BY <2>1, <2>2
<1>5. /\ call.n \in Nat /\ a \in 1 .. 8 + call.n
      /\ Steps(call)[a].do \in Reading <=> a \notin {1, 3, 5, 7}
      /\ Steps(call)[a].do \in Reading => Asks(Steps(call)[a]) = 1
      /\ Steps(call)[a].do \in Writing <=> a \in {1, 3, 5, 7}
      /\ Steps(call)[a].do # "read"
      /\ Steps(call)[5] = Write(Word(call.n))
  BY PageEraseKinds DEF Reading
<1>6. /\ HasRead(call, a) = IF a > 8 THEN a - 5 ELSE IF a > 6 THEN 3 ELSE IF a > 4 THEN 2 ELSE IF a > 2 THEN 1 ELSE 0
      /\ HasWritten(call, a) = IF a > 7 THEN 8 ELSE IF a > 5 THEN 6 ELSE IF a > 3 THEN 4 ELSE IF a > 1 THEN 1 ELSE 0
  BY <1>5, PageEraseCounts
<1>7. BlockOf(call, j) = 0
  BY DEF BlockOf
<1>8. s < 8 => j = 0
  BY DEF Round, LoopStep
<1>9. CASE s = 1
  BY <1>2, <1>3, <1>4, <1>5, <1>6, <1>7, <1>8, <1>9 DEF Meets
<1>10. CASE s = 2
  BY <1>2, <1>3, <1>4, <1>5, <1>6, <1>7, <1>8, <1>10 DEF Meets
<1>11. CASE s = 3
  BY <1>2, <1>3, <1>4, <1>5, <1>6, <1>7, <1>8, <1>11 DEF Meets
<1>12. CASE s = 4
  BY <1>2, <1>3, <1>4, <1>5, <1>6, <1>7, <1>8, <1>12 DEF Meets
<1>13. CASE s = 5
  BY <1>2, <1>3, <1>4, <1>5, <1>6, <1>7, <1>8, <1>13 DEF Meets
<1>14. CASE s = 6
  BY <1>2, <1>3, <1>4, <1>5, <1>6, <1>7, <1>8, <1>14 DEF Meets
<1>15. CASE s = 7
  BY <1>2, <1>3, <1>4, <1>5, <1>6, <1>7, <1>8, <1>15 DEF Meets
<1>16. CASE s = 8
  BY <1>2, <1>3, <1>4, <1>5, <1>6, <1>7, <1>8, <1>16 DEF Meets
<1>17. CASE s = 9
  BY <1>2, <1>3, <1>4, <1>5, <1>6, <1>7, <1>8, <1>17 DEF Meets
<1>18. CASE s = 10
  BY <1>2, <1>3, <1>4, <1>5, <1>6, <1>7, <1>8, <1>18 DEF Meets
<1> QED  BY <1>1, <1>9, <1>10, <1>11, <1>12, <1>13, <1>14, <1>15, <1>16, <1>17, <1>18

LEMMA BlockBounds ==
  ASSUME NEW call, call.n \in Nat, NEW k \in Nat
  PROVE  Upto(k, call.n) \in Nat /\ Upto(k, call.n) <= call.n
<1>1. Upto(k, call.n) \in Nat
  BY UptoFacts
<1>2. Upto(k, call.n) <= call.n
  BY UptoFacts
<1> QED  BY <1>1, <1>2

\* A step of a block's call after its size: k packets are written, and the next is asked
\* for, or is to be written
BlockPlace(call, a, k) ==
  /\ k \in 0 .. PacketCount(call.n)
  /\ HasWritten(call, a) = 3 + Upto(k, call.n)
  /\ \/ /\ HasRead(call, a) = 1 + k /\ Steps(call)[a].do \in {"ack", "result"}
        /\ k < PacketCount(call.n) => Steps(call)[a].do = "ack"
     \/ HasRead(call, a) = 2 + k /\ k < PacketCount(call.n) /\ Steps(call)[a].do = "data"

LEMMA BlockBegins ==
  ASSUME NEW call, IsCall(call), call.cmd = CMD_SENDBLOCK
  PROVE  /\ HasRead(call, 1) = 0 /\ HasWritten(call, 1) = 0 /\ Steps(call)[1].do = "issue"
         /\ HasRead(call, 2) = 0 /\ HasWritten(call, 2) = 1 /\ Steps(call)[2].do = "ack"
         /\ HasRead(call, 3) = 1 /\ HasWritten(call, 3) = 1
         /\ Steps(call)[3] = Write(Word(call.n)) /\ Steps(call)[3].do = "write"
<1>1. call.n \in Nat /\ 1 \in Nat /\ 2 \in Nat /\ 3 \in Nat
  BY CallTypes
<1>2. HasRead(call, 1) = 0 /\ HasWritten(call, 1) = 0
  BY <1>1, SendBlockCounts
<1>3. HasRead(call, 2) = 0 /\ HasWritten(call, 2) = 1
  BY <1>1, SendBlockCounts
<1>4. HasRead(call, 3) = 1 /\ HasWritten(call, 3) = 1
  BY <1>1, SendBlockCounts
<1>5. /\ Steps(call)[1] = Issue /\ Steps(call)[2] = WaitAck
      /\ Steps(call)[3] = Write(Word(call.n))
  BY SendBlockSteps
<1>6. Steps(call)[1].do = "issue" /\ Steps(call)[2].do = "ack"
  BY <1>5, KindFacts
<1>7. Steps(call)[3].do = "write"
  BY <1>5 DEF Write
<1> QED  BY <1>2, <1>3, <1>4, <1>5, <1>6, <1>7

LEMMA BlockPlaces ==
  ASSUME NEW call, IsCall(call), call.cmd = CMD_SENDBLOCK,
         NEW a \in 1 .. LastStep(call), a >= 4
  PROVE  \E k \in Nat : BlockPlace(call, a, k)
<1> DEFINE n == call.n
           p == PacketCount(n)
<1>1. n \in Nat /\ p \in Nat /\ a \in Nat /\ a <= 4 + 2 * p
  BY SendBlockSteps, CallTypes
<1> HIDE DEF p
<1>2. PICK k \in Nat : IsPlace(a, k, p)
  BY <1>1, SendBlockPlaces
<1>3. k \in 0 .. p /\ (a = 4 + 2 * k \/ (k < p /\ a = 5 + 2 * k))
  BY <1>2 DEF IsPlace
<1>4. CASE a = 4 + 2 * k
  <2>1. HasRead(call, 4 + 2 * k) = 1 + k /\ HasWritten(call, 4 + 2 * k) = 3 + Upto(k, n)
    BY <1>1, SendBlockCountsAt
  <2>2. k < p => Steps(call)[4 + 2 * k] = WaitAck
    BY SendBlockKinds DEF p
  <2>3. k = p => Steps(call)[4 + 2 * k] = Result
    BY SendBlockKinds DEF p
  <2>4. Steps(call)[a].do \in {"ack", "result"} /\ (k < p => Steps(call)[a].do = "ack")
    BY <1>3, <1>4, <2>2, <2>3, <1>1, KindFacts
  <2> QED  BY <1>3, <1>4, <2>1, <2>4 DEF BlockPlace, p
<1>5. CASE k < p /\ a = 5 + 2 * k
  <2>1. HasRead(call, 5 + 2 * k) = 2 + k /\ HasWritten(call, 5 + 2 * k) = 3 + Upto(k, n)
    BY <1>1, SendBlockCountsAt
  <2>2. Steps(call)[5 + 2 * k] = WriteData(Upto(k + 1, n) - Upto(k, n))
    BY <1>5, SendBlockKinds DEF p
  <2>3. Steps(call)[a].do = "data"
    BY <1>5, <2>2 DEF WriteData
  <2> QED  BY <1>3, <1>5, <2>1, <2>3 DEF BlockPlace, p
<1> QED  BY <1>3, <1>4, <1>5

LEMMA SendBlockMeets ==
  ASSUME NEW call, IsCall(call), call.cmd = CMD_SENDBLOCK,
         NEW s \in 1 .. LastOp(CMD_SENDBLOCK), NEW a \in 1 .. LastStep(call),
         NEW j \in Nat, Round(call, s, j)
  PROVE  Meets(call, s, a, j)
<1>1. s \in {1, 2, 3, 4} /\ LastOp(CMD_SENDBLOCK) = 4
  BY SendBlockOps
<1>2. /\ Handlers[CMD_SENDBLOCK][1].op = "ack"
      /\ Handlers[CMD_SENDBLOCK][2].op = "size"
      /\ Handlers[CMD_SENDBLOCK][3].op = "packets"
      /\ Handlers[CMD_SENDBLOCK][4].op = "ok"
  BY SendBlockOps DEF Ack, Pad, Recv, RecvSize, Updi, Slow, Fetch, Stream, Packets, Erase, Busy,
     Nvm, Ok, TargetAck, Stored, StatusB
<1>3. Gets(CMD_SENDBLOCK, s) = IF s \in {2} THEN 2 ELSE 0
  BY <1>1, <1>2 DEF Gets
<1>4. /\ HasSent(CMD_SENDBLOCK, s) = IF s \in {1} THEN 0 ELSE 1
      /\ HasGot(CMD_SENDBLOCK, s) = IF s \in {1, 2} THEN 1 ELSE 3
  <2>1. HasSent(CMD_SENDBLOCK, s) = IF s \in {1} THEN 0 ELSE 1
    BY <1>1, SendBlockFlow DEF Once
  <2>2. HasGot(CMD_SENDBLOCK, s) = IF s \in {1, 2} THEN 1 ELSE 3
    <3>1. Parameters(CMD_SENDBLOCK, s) = IF s \in {1, 2} THEN 0 ELSE 2
      BY <1>1, SendBlockFlow DEF Once
    <3> QED  BY <1>1, <3>1 DEF HasGot
  <2> QED  BY <2>1, <2>2
<1> DEFINE n == call.n
           p == PacketCount(n)
           step == Steps(call)[a]
           read == HasRead(call, a)
           written == HasWritten(call, a)
           u == Upto(j, n)
<1>5. n \in Nat /\ p \in Nat /\ a \in Nat /\ a >= 1
  BY SendBlockSteps, CallTypes
<1>6. /\ a = 1 => read = 0 /\ written = 0 /\ step.do = "issue"
      /\ a = 2 => read = 0 /\ written = 1 /\ step.do = "ack"
      /\ a = 3 => read = 1 /\ written = 1 /\ step = Write(Word(n)) /\ step.do = "write"
  BY BlockBegins
<1>7. /\ s < 3 => j = 0
      /\ s > 3 => j = p
      /\ j <= p
  BY DEF Round, LoopStep, Rounds
<1>8. BlockOf(call, j) = u /\ u \in Nat /\ (j = 0 => u = 0) /\ u <= n /\ (j = p => u = n)
  <2>1. u \in Nat /\ u <= n
    BY <1>5, BlockBounds
  <2>2. Upto(0, n) = 0
    BY Zenon, <1>5, UptoFacts
  <2>3. ASSUME j = p  PROVE u = n
    <3>1. j >= PacketCount(n)
      BY <1>5, <2>3
    <3> QED  BY Zenon, <1>5, <3>1, UptoFacts
  <2> QED  BY <2>1, <2>2, <2>3 DEF BlockOf
<1>9. a >= 4 => \E k \in Nat, v \in Nat :
              /\ written = 3 + v /\ v <= n /\ k <= p /\ (k <= j => v <= u)
              /\ k = j => v = u
              /\ \/ /\ read = 1 + k /\ step.do \in {"ack", "result"}
                    /\ k < p => step.do = "ack"
                 \/ read = 2 + k /\ k < p /\ step.do = "data"
  <2> SUFFICES ASSUME a >= 4
               PROVE  \E k \in Nat, v \in Nat :
              /\ written = 3 + v /\ v <= n /\ k <= p /\ (k <= j => v <= u)
              /\ k = j => v = u
              /\ \/ /\ read = 1 + k /\ step.do \in {"ack", "result"}
                    /\ k < p => step.do = "ack"
                 \/ read = 2 + k /\ k < p /\ step.do = "data"
    OBVIOUS
  <2>1. PICK k \in Nat : BlockPlace(call, a, k)
    BY BlockPlaces
  <2>2. k <= p /\ Upto(k, n) \in Nat /\ Upto(k, n) <= n
    <3>1. Upto(k, n) \in Nat /\ Upto(k, n) <= n
      BY <1>5, BlockBounds
    <3> QED  BY <2>1, <3>1 DEF BlockPlace
  <2>3. k <= j => Upto(k, n) <= u
    BY <1>5, UptoGrows
  <2>4. /\ written = 3 + Upto(k, n)
        /\ \/ /\ read = 1 + k /\ step.do \in {"ack", "result"}
              /\ k < p => step.do = "ack"
           \/ read = 2 + k /\ k < p /\ step.do = "data"
    BY <2>1 DEF BlockPlace
  <2>5. k = j => Upto(k, n) = u
    OBVIOUS
  <2> HIDE DEF u, n, p, step, read, written
  <2> QED  BY <2>2, <2>3, <2>4, <2>5
<1>10. /\ step.do \in {"ack", "result"} => step.do \in Reading /\ Asks(step) = 1 /\ step.do \notin Writing
       /\ step.do \in {"issue", "write", "data"} => step.do \notin Reading
       /\ read \in Nat /\ written \in Nat
  <2>1. read \in Nat /\ written \in Nat
    BY <1>5, <1>6, <1>9
  <2> QED  BY <2>1 DEF Reading, Writing, Asks
<1> HIDE DEF n, p, step, read, written, u
<1>11. step.do # "read"
  BY <1>5, <1>6, <1>9
<1>12. CASE s = 1
  <2>1. read <= 0 => written <= 1
    BY <1>5, <1>6, <1>9
  <2> QED
    BY <1>2, <1>3, <1>4, <1>7, <1>8, <1>10, <1>11, <1>12, <2>1 DEF Meets, step, read, written
<1>13. CASE s = 2
  <2>1. read <= 1 /\ a >= 4 => written = 3 /\ step.do \notin Writing
    BY <1>5, <1>7, <1>8, <1>9, <1>10, <1>13
  <2>2. read <= 1 => /\ written <= 3
                     /\ step.do \in Reading /\ read + Asks(step) > 1 => written = 3
    BY <1>5, <1>6, <1>10, <2>1
  <2>3. read <= 1 /\ 1 <= written /\ step.do \in Writing => step = Write(Word(n)) /\ written = 1
    BY <1>5, <1>6, <1>10, <2>1
  <2> QED
    BY <1>2, <1>3, <1>4, <1>7, <1>8, <1>11, <1>13, <2>2, <2>3 DEF Meets, n, step, read, written
<1>14. CASE s = 3
  <2>1. read <= 1 + j => written <= 3 + u
    BY <1>5, <1>6, <1>7, <1>8, <1>9
  <2>2. read <= 1 + j /\ step.do \in Reading /\ read + Asks(step) > 1 + j => written = 3 + u
    <3>1. CASE a >= 4
      BY <1>5, <1>7, <1>8, <1>9, <1>10, <3>1
    <3>2. CASE a < 4
      BY <1>5, <1>6, <1>8, <1>10, <3>2
    <3> QED  BY <1>5, <3>1, <3>2
  <2> QED
    BY <1>2, <1>3, <1>4, <1>7, <1>8, <1>11, <1>14, <2>1, <2>2 DEF Meets, step, read, written
<1>15. CASE s = 4
  <2>1. written <= 3 + n
    BY <1>5, <1>6, <1>9
  <2> QED
    BY <1>2, <1>3, <1>4, <1>5, <1>7, <1>8, <1>10, <1>11, <1>15, <2>1 DEF Meets, step, read, written
<1> QED  BY <1>1, <1>12, <1>13, <1>14, <1>15

\* The switch knows the commands of every call
LEMMA CallCommands ==
  ASSUME NEW call, IsCall(call)
  PROVE  call.cmd \in Commands /\ call.cmd # CMD_RESETTGT
BY CallTypes DEF Operating, Commands

LEMMA SidesMeet ==
  ASSUME NEW call, IsCall(call), NEW s \in DOMAIN Handlers[call.cmd],
         NEW a \in 1 .. LastStep(call), NEW j \in Nat, Round(call, s, j)
  PROVE  Meets(call, s, a, j)
<1>1. s \in 1 .. LastOp(call.cmd)
  BY CallCommands, CommandBegins
<1>2. CASE call.cmd = CMD_START
  BY <1>1, <1>2, StartMeets
<1>3. CASE call.cmd = CMD_SETBAUD
  BY <1>1, <1>3, SetBaudMeets
<1>4. CASE call.cmd = CMD_SETADDR
  BY <1>1, <1>4, SetAddrMeets
<1>5. CASE call.cmd = CMD_GETBYTE
  BY <1>1, <1>5, GetByteMeets
<1>6. CASE call.cmd = CMD_SENDBYTE
  BY <1>1, <1>6, SendByteMeets
<1>7. CASE call.cmd = CMD_GETBLOCK
  BY <1>1, <1>7, GetBlockMeets
<1>8. CASE call.cmd = CMD_SENDBLOCK
  BY <1>1, <1>8, SendBlockMeets
<1>9. CASE call.cmd = CMD_FLASH_PAGE_ERASE
  BY <1>1, <1>9, FlashPageEraseMeets
<1>10. CASE call.cmd \in {CMD_STOP, CMD_CHIPERASE, CMD_EEPROM_WR_EN, CMD_FLASH_WR_EN, CMD_NVM_WR_DIS}
  BY <1>1, <1>10, PlainMeets
<1> QED
  BY CallTypes, <1>2, <1>3, <1>4, <1>5, <1>6, <1>7, <1>8, <1>9, <1>10 DEF Operating

-------------------------------------------------------------------------------
(* Where a call ends *)

\* The handler's last step has sent what the call reads, and got what it writes
Ends(call) ==
  /\ Rounds(call) \in Nat
  /\ HasSent(call.cmd, LastOp(call.cmd)) + Rounds(call) = HasRead(call, LastStep(call))
  /\ HasGot(call.cmd, LastOp(call.cmd)) + BlockOf(call, Rounds(call)) = HasWritten(call, LastStep(call))
  /\ \A s \in 1 .. LastOp(call.cmd) : HasSent(call.cmd, s) <= HasSent(call.cmd, LastOp(call.cmd))

LEMMA StartEnds ==
  ASSUME NEW call, IsCall(call), call.cmd = CMD_START
  PROVE  Ends(call)
<1>1. LastOp(CMD_START) = 11 /\ 11 \in Nat
  BY StartOps
<1>2. HasSent(CMD_START, 11) = 6
  BY <1>1, StartFlow DEF Once
<1>3. HasGot(CMD_START, 11) = 4
  <2>1. Parameters(CMD_START, 11) = 3
    BY <1>1, StartFlow DEF Once
  <2> QED  BY <2>1 DEF HasGot
<1>4. call.n \in Nat /\ LastStep(call) = 7 /\ LastStep(call) \in Nat
  BY CallTypes, StartSteps
<1>5. HasRead(call, LastStep(call)) = 6 /\ HasWritten(call, LastStep(call)) = 4
  BY <1>4, StartCounts
<1>6. Rounds(call) = 0 /\ BlockOf(call, Rounds(call)) = 0
  BY DEF Rounds, BlockOf
<1>7. ASSUME NEW s \in 1 .. 11  PROVE HasSent(CMD_START, s) <= 6
  BY StartFlow DEF Once
<1> QED  BY <1>1, <1>2, <1>3, <1>4, <1>5, <1>6, <1>7 DEF Ends

LEMMA SetBaudEnds ==
  ASSUME NEW call, IsCall(call), call.cmd = CMD_SETBAUD
  PROVE  Ends(call)
<1>1. LastOp(CMD_SETBAUD) = 7 /\ 7 \in Nat
  BY SetBaudOps
<1>2. HasSent(CMD_SETBAUD, 7) = 3
  BY <1>1, SetBaudFlow DEF Once
<1>3. HasGot(CMD_SETBAUD, 7) = 5
  <2>1. Parameters(CMD_SETBAUD, 7) = 4
    BY <1>1, SetBaudFlow DEF Once
  <2> QED  BY <2>1 DEF HasGot
<1>4. call.n \in Nat /\ LastStep(call) = 7 /\ LastStep(call) \in Nat
  BY CallTypes, SetBaudSteps
<1>5. HasRead(call, LastStep(call)) = 3 /\ HasWritten(call, LastStep(call)) = 5
  BY <1>4, SetBaudCounts
<1>6. Rounds(call) = 0 /\ BlockOf(call, Rounds(call)) = 0
  BY DEF Rounds, BlockOf
<1>7. ASSUME NEW s \in 1 .. 7  PROVE HasSent(CMD_SETBAUD, s) <= 3
  BY SetBaudFlow DEF Once
<1> QED  BY <1>1, <1>2, <1>3, <1>4, <1>5, <1>6, <1>7 DEF Ends

LEMMA SetAddrEnds ==
  ASSUME NEW call, IsCall(call), call.cmd = CMD_SETADDR
  PROVE  Ends(call)
<1>1. LastOp(CMD_SETADDR) = 5 /\ 5 \in Nat
  BY SetAddrOps
<1>2. HasSent(CMD_SETADDR, 5) = 2
  BY <1>1, SetAddrFlow DEF Once
<1>3. HasGot(CMD_SETADDR, 5) = 4
  <2>1. Parameters(CMD_SETADDR, 5) = 3
    BY <1>1, SetAddrFlow DEF Once
  <2> QED  BY <2>1 DEF HasGot
<1>4. call.n \in Nat /\ LastStep(call) = 5 /\ LastStep(call) \in Nat
  BY CallTypes, SetAddrSteps
<1>5. HasRead(call, LastStep(call)) = 2 /\ HasWritten(call, LastStep(call)) = 4
  BY <1>4, SetAddrCounts
<1>6. Rounds(call) = 0 /\ BlockOf(call, Rounds(call)) = 0
  BY DEF Rounds, BlockOf
<1>7. ASSUME NEW s \in 1 .. 5  PROVE HasSent(CMD_SETADDR, s) <= 2
  BY SetAddrFlow DEF Once
<1> QED  BY <1>1, <1>2, <1>3, <1>4, <1>5, <1>6, <1>7 DEF Ends

LEMMA GetByteEnds ==
  ASSUME NEW call, IsCall(call), call.cmd = CMD_GETBYTE
  PROVE  Ends(call)
<1>1. LastOp(CMD_GETBYTE) = 6 /\ 6 \in Nat
  BY GetByteOps
<1>2. HasSent(CMD_GETBYTE, 6) = 3
  BY <1>1, GetByteFlow DEF Once
<1>3. HasGot(CMD_GETBYTE, 6) = 4
  <2>1. Parameters(CMD_GETBYTE, 6) = 3
    BY <1>1, GetByteFlow DEF Once
  <2> QED  BY <2>1 DEF HasGot
<1>4. call.n \in Nat /\ LastStep(call) = 6 /\ LastStep(call) \in Nat
  BY CallTypes, GetByteSteps
<1>5. HasRead(call, LastStep(call)) = 3 /\ HasWritten(call, LastStep(call)) = 4
  BY <1>4, GetByteCounts
<1>6. Rounds(call) = 0 /\ BlockOf(call, Rounds(call)) = 0
  BY DEF Rounds, BlockOf
<1>7. ASSUME NEW s \in 1 .. 6  PROVE HasSent(CMD_GETBYTE, s) <= 3
  BY GetByteFlow DEF Once
<1> QED  BY <1>1, <1>2, <1>3, <1>4, <1>5, <1>6, <1>7 DEF Ends

LEMMA SendByteEnds ==
  ASSUME NEW call, IsCall(call), call.cmd = CMD_SENDBYTE
  PROVE  Ends(call)
<1>1. LastOp(CMD_SENDBYTE) = 9 /\ 9 \in Nat
  BY SendByteOps
<1>2. HasSent(CMD_SENDBYTE, 9) = 3
  BY <1>1, SendByteFlow DEF Once
<1>3. HasGot(CMD_SENDBYTE, 9) = 5
  <2>1. Parameters(CMD_SENDBYTE, 9) = 4
    BY <1>1, SendByteFlow DEF Once
  <2> QED  BY <2>1 DEF HasGot
<1>4. call.n \in Nat /\ LastStep(call) = 7 /\ LastStep(call) \in Nat
  BY CallTypes, SendByteSteps
<1>5. HasRead(call, LastStep(call)) = 3 /\ HasWritten(call, LastStep(call)) = 5
  BY <1>4, SendByteCounts
<1>6. Rounds(call) = 0 /\ BlockOf(call, Rounds(call)) = 0
  BY DEF Rounds, BlockOf
<1>7. ASSUME NEW s \in 1 .. 9  PROVE HasSent(CMD_SENDBYTE, s) <= 3
  BY SendByteFlow DEF Once
<1> QED  BY <1>1, <1>2, <1>3, <1>4, <1>5, <1>6, <1>7 DEF Ends

LEMMA GetBlockEnds ==
  ASSUME NEW call, IsCall(call), call.cmd = CMD_GETBLOCK
  PROVE  Ends(call)
<1>1. LastOp(CMD_GETBLOCK) = 5 /\ 5 \in Nat
  BY GetBlockOps
<1>2. HasSent(CMD_GETBLOCK, 5) = 2
  BY <1>1, GetBlockFlow DEF Once
<1>3. HasGot(CMD_GETBLOCK, 5) = 3
  <2>1. Parameters(CMD_GETBLOCK, 5) = 2
    BY <1>1, GetBlockFlow DEF Once
  <2> QED  BY <2>1 DEF HasGot
<1>4. call.n \in Nat /\ LastStep(call) = 6 /\ LastStep(call) \in Nat
  BY CallTypes, GetBlockSteps
<1>5. HasRead(call, LastStep(call)) = 2 + call.n /\ HasWritten(call, LastStep(call)) = 3
  BY <1>4, GetBlockCounts
<1>6. Rounds(call) = call.n /\ BlockOf(call, Rounds(call)) = 0
  BY DEF Rounds, BlockOf
<1>7. ASSUME NEW s \in 1 .. 5  PROVE HasSent(CMD_GETBLOCK, s) <= 2
  BY GetBlockFlow DEF Once
<1> QED  BY <1>1, <1>2, <1>3, <1>4, <1>5, <1>6, <1>7 DEF Ends

LEMMA FlashPageEraseEnds ==
  ASSUME NEW call, IsCall(call), call.cmd = CMD_FLASH_PAGE_ERASE
  PROVE  Ends(call)
<1>1. LastOp(CMD_FLASH_PAGE_ERASE) = 10 /\ 10 \in Nat
  BY FlashPageEraseOps
<1>2. HasSent(CMD_FLASH_PAGE_ERASE, 10) = 3
  BY <1>1, FlashPageEraseFlow DEF Once
<1>3. HasGot(CMD_FLASH_PAGE_ERASE, 10) = 8
  <2>1. Parameters(CMD_FLASH_PAGE_ERASE, 10) = 7
    BY <1>1, FlashPageEraseFlow DEF Once
  <2> QED  BY <2>1 DEF HasGot
<1>4. call.n \in Nat /\ LastStep(call) = 8 + call.n /\ LastStep(call) \in Nat
  BY CallTypes, PageEraseSteps
<1>5. HasRead(call, LastStep(call)) = 3 + call.n /\ HasWritten(call, LastStep(call)) = 8
  BY <1>4, PageEraseCounts
<1>6. Rounds(call) = call.n /\ BlockOf(call, Rounds(call)) = 0
  BY DEF Rounds, BlockOf
<1>7. ASSUME NEW s \in 1 .. 10  PROVE HasSent(CMD_FLASH_PAGE_ERASE, s) <= 3
  BY FlashPageEraseFlow DEF Once
<1> QED  BY <1>1, <1>2, <1>3, <1>4, <1>5, <1>6, <1>7 DEF Ends

LEMMA StopEnds ==
  ASSUME NEW call, IsCall(call), call.cmd = CMD_STOP
  PROVE  Ends(call)
<1>1. LastOp(CMD_STOP) = 3 /\ 3 \in Nat
  BY StopOps
<1>2. HasSent(CMD_STOP, 3) = 1
  BY <1>1, StopFlow DEF Once
<1>3. HasGot(CMD_STOP, 3) = 1
  <2>1. Parameters(CMD_STOP, 3) = 0
    BY <1>1, StopFlow DEF Once
  <2> QED  BY <2>1 DEF HasGot
<1>4. call.n \in Nat /\ LastStep(call) = 3 /\ LastStep(call) \in Nat
  BY CallTypes, PlainSteps
<1>5. HasRead(call, LastStep(call)) = 1 /\ HasWritten(call, LastStep(call)) = 1
  BY <1>4, PlainCounts
<1>6. Rounds(call) = 0 /\ BlockOf(call, Rounds(call)) = 0
  BY DEF Rounds, BlockOf
<1>7. ASSUME NEW s \in 1 .. 3  PROVE HasSent(CMD_STOP, s) <= 1
  BY StopFlow DEF Once
<1> QED  BY <1>1, <1>2, <1>3, <1>4, <1>5, <1>6, <1>7 DEF Ends

LEMMA ChipEraseEnds ==
  ASSUME NEW call, IsCall(call), call.cmd = CMD_CHIPERASE
  PROVE  Ends(call)
<1>1. LastOp(CMD_CHIPERASE) = 4 /\ 4 \in Nat
  BY ChipEraseOps
<1>2. HasSent(CMD_CHIPERASE, 4) = 1
  BY <1>1, ChipEraseFlow DEF Once
<1>3. HasGot(CMD_CHIPERASE, 4) = 1
  <2>1. Parameters(CMD_CHIPERASE, 4) = 0
    BY <1>1, ChipEraseFlow DEF Once
  <2> QED  BY <2>1 DEF HasGot
<1>4. call.n \in Nat /\ LastStep(call) = 3 /\ LastStep(call) \in Nat
  BY CallTypes, PlainSteps
<1>5. HasRead(call, LastStep(call)) = 1 /\ HasWritten(call, LastStep(call)) = 1
  BY <1>4, PlainCounts
<1>6. Rounds(call) = 0 /\ BlockOf(call, Rounds(call)) = 0
  BY DEF Rounds, BlockOf
<1>7. ASSUME NEW s \in 1 .. 4  PROVE HasSent(CMD_CHIPERASE, s) <= 1
  BY ChipEraseFlow DEF Once
<1> QED  BY <1>1, <1>2, <1>3, <1>4, <1>5, <1>6, <1>7 DEF Ends

LEMMA EepromWriteEnableEnds ==
  ASSUME NEW call, IsCall(call), call.cmd = CMD_EEPROM_WR_EN
  PROVE  Ends(call)
<1>1. LastOp(CMD_EEPROM_WR_EN) = 4 /\ 4 \in Nat
  BY EepromWriteEnableOps
<1>2. HasSent(CMD_EEPROM_WR_EN, 4) = 1
  BY <1>1, EepromWriteEnableFlow DEF Once
<1>3. HasGot(CMD_EEPROM_WR_EN, 4) = 1
  <2>1. Parameters(CMD_EEPROM_WR_EN, 4) = 0
    BY <1>1, EepromWriteEnableFlow DEF Once
  <2> QED  BY <2>1 DEF HasGot
<1>4. call.n \in Nat /\ LastStep(call) = 3 /\ LastStep(call) \in Nat
  BY CallTypes, PlainSteps
<1>5. HasRead(call, LastStep(call)) = 1 /\ HasWritten(call, LastStep(call)) = 1
  BY <1>4, PlainCounts
<1>6. Rounds(call) = 0 /\ BlockOf(call, Rounds(call)) = 0
  BY DEF Rounds, BlockOf
<1>7. ASSUME NEW s \in 1 .. 4  PROVE HasSent(CMD_EEPROM_WR_EN, s) <= 1
  BY EepromWriteEnableFlow DEF Once
<1> QED  BY <1>1, <1>2, <1>3, <1>4, <1>5, <1>6, <1>7 DEF Ends

LEMMA FlashWriteEnableEnds ==
  ASSUME NEW call, IsCall(call), call.cmd = CMD_FLASH_WR_EN
  PROVE  Ends(call)
<1>1. LastOp(CMD_FLASH_WR_EN) = 4 /\ 4 \in Nat
  BY FlashWriteEnableOps
<1>2. HasSent(CMD_FLASH_WR_EN, 4) = 1
  BY <1>1, FlashWriteEnableFlow DEF Once
<1>3. HasGot(CMD_FLASH_WR_EN, 4) = 1
  <2>1. Parameters(CMD_FLASH_WR_EN, 4) = 0
    BY <1>1, FlashWriteEnableFlow DEF Once
  <2> QED  BY <2>1 DEF HasGot
<1>4. call.n \in Nat /\ LastStep(call) = 3 /\ LastStep(call) \in Nat
  BY CallTypes, PlainSteps
<1>5. HasRead(call, LastStep(call)) = 1 /\ HasWritten(call, LastStep(call)) = 1
  BY <1>4, PlainCounts
<1>6. Rounds(call) = 0 /\ BlockOf(call, Rounds(call)) = 0
  BY DEF Rounds, BlockOf
<1>7. ASSUME NEW s \in 1 .. 4  PROVE HasSent(CMD_FLASH_WR_EN, s) <= 1
  BY FlashWriteEnableFlow DEF Once
<1> QED  BY <1>1, <1>2, <1>3, <1>4, <1>5, <1>6, <1>7 DEF Ends

LEMMA NvmWriteDisableEnds ==
  ASSUME NEW call, IsCall(call), call.cmd = CMD_NVM_WR_DIS
  PROVE  Ends(call)
<1>1. LastOp(CMD_NVM_WR_DIS) = 4 /\ 4 \in Nat
  BY NvmWriteDisableOps
<1>2. HasSent(CMD_NVM_WR_DIS, 4) = 1
  BY <1>1, NvmWriteDisableFlow DEF Once
<1>3. HasGot(CMD_NVM_WR_DIS, 4) = 1
  <2>1. Parameters(CMD_NVM_WR_DIS, 4) = 0
    BY <1>1, NvmWriteDisableFlow DEF Once
  <2> QED  BY <2>1 DEF HasGot
<1>4. call.n \in Nat /\ LastStep(call) = 3 /\ LastStep(call) \in Nat
  BY CallTypes, PlainSteps
<1>5. HasRead(call, LastStep(call)) = 1 /\ HasWritten(call, LastStep(call)) = 1
  BY <1>4, PlainCounts
<1>6. Rounds(call) = 0 /\ BlockOf(call, Rounds(call)) = 0
  BY DEF Rounds, BlockOf
<1>7. ASSUME NEW s \in 1 .. 4  PROVE HasSent(CMD_NVM_WR_DIS, s) <= 1
  BY NvmWriteDisableFlow DEF Once
<1> QED  BY <1>1, <1>2, <1>3, <1>4, <1>5, <1>6, <1>7 DEF Ends

LEMMA SendBlockEnds ==
  ASSUME NEW call, IsCall(call), call.cmd = CMD_SENDBLOCK
  PROVE  Ends(call)
<1> DEFINE n == call.n
           p == PacketCount(n)
<1>1. LastOp(CMD_SENDBLOCK) = 4 /\ 4 \in Nat
  BY SendBlockOps
<1>2. HasSent(CMD_SENDBLOCK, 4) = 1
  BY <1>1, SendBlockFlow DEF Once
<1>3. HasGot(CMD_SENDBLOCK, 4) = 3
  <2>1. Parameters(CMD_SENDBLOCK, 4) = 2
    BY <1>1, SendBlockFlow DEF Once
  <2> QED  BY <2>1 DEF HasGot
<1>4. n \in Nat /\ p \in Nat /\ LastStep(call) = 4 + 2 * p
  BY CallTypes, SendBlockSteps
<1>5. HasRead(call, 4 + 2 * p) = 1 + p /\ HasWritten(call, 4 + 2 * p) = 3 + Upto(p, n)
  <2>1. p \in Nat /\ call.n \in Nat
    BY <1>4
  <2> HIDE DEF p
  <2> QED  BY <2>1, SendBlockCountsAt
<1>6. Rounds(call) = p /\ BlockOf(call, Rounds(call)) = Upto(p, n)
  BY DEF Rounds, BlockOf
<1>7. ASSUME NEW s \in 1 .. 4  PROVE HasSent(CMD_SENDBLOCK, s) <= 1
  BY SendBlockFlow DEF Once
<1> QED  BY <1>1, <1>2, <1>3, <1>4, <1>5, <1>6, <1>7 DEF Ends

LEMMA CallsEnd ==
  ASSUME NEW call, IsCall(call)
  PROVE  Ends(call)
BY CallTypes, StartEnds, SetBaudEnds, SetAddrEnds, GetByteEnds, SendByteEnds, GetBlockEnds,
   SendBlockEnds, FlashPageEraseEnds, StopEnds, ChipEraseEnds, EepromWriteEnableEnds,
   FlashWriteEnableEnds, NvmWriteDisableEnds DEF Operating

-------------------------------------------------------------------------------
(* Where a failure comes to rest *)

Failing == {"updi", "slow", "fetch", "stream", "erase"}

\* What a failure at step s sends before its reason
Padding(call, s, j) ==
  IF call.cmd = CMD_GETBLOCK /\ s = 4 THEN call.n - j ELSE Owes(call.cmd, s)

\* It makes up for what the controller still expects to read before it looks at a reply
LandsAt(call, s, j, b) ==
  /\ b \in 1 .. LastStep(call) /\ Judges(call, b)
  /\ HasWritten(call, b) = HasGot(call.cmd, s)
  /\ HasRead(call, b) = HasSent(call.cmd, s) + j + Padding(call, s, j)

\* Except when SENDBYTE fails after it asked for its byte (main.cpp:316)
Lands(call, s, j) ==
  Handlers[call.cmd][s].op \in Failing /\ ~(call.cmd = CMD_SENDBYTE /\ s = 4) =>
    /\ \E b \in 1 .. LastStep(call) : LandsAt(call, s, j, b)
    /\ BlockOf(call, j) = 0 /\ HasSent(call.cmd, s) >= 1

LEMMA StartLands ==
  ASSUME NEW call, IsCall(call), call.cmd = CMD_START, NEW s \in 1 .. LastOp(CMD_START),
         NEW j \in Nat, Round(call, s, j)
  PROVE  Lands(call, s, j)
<1>1. LastOp(CMD_START) = 11 /\ s \in 1 .. 11
  BY StartOps
<1>2. Handlers[CMD_START][s].op \in Failing => s \in {3, 4, 5, 9, 10}
  BY <1>1, StartOps DEF Failing, Ack, Pad, Recv, RecvSize, Updi, Slow, Fetch, Stream, Packets,
     Erase, Busy, Nvm, Ok, TargetAck, Stored, StatusB
<1>3. call.n \in Nat /\ LastStep(call) = 7 /\ LastStep(call) \in Nat
  BY CallTypes, StartSteps
<1>4. BlockOf(call, j) = 0
  BY DEF BlockOf
<1>5. ASSUME s = 3
      PROVE  (\E b \in 1 .. LastStep(call) : LandsAt(call, s, j, b)) /\ HasSent(call.cmd, s) >= 1
  <2>1. HasSent(CMD_START, 3) = 1 /\ 3 \in Nat
    BY StartFlow DEF Once
  <2>2. HasGot(CMD_START, 3) = 1
    <3>1. Parameters(CMD_START, 3) = 0
      BY StartFlow DEF Once
    <3> QED  BY <3>1 DEF HasGot
  <2>3. j = 0
    BY <1>5 DEF Round, Rounds, LoopStep
  <2>4. Padding(call, 3, j) = 1
    BY <2>1, StartFlow DEF Padding
  <2>5. 4 \in 1 .. LastStep(call) /\ 4 \in Nat
    BY <1>3, <2>3
  <2>6. HasRead(call, 4) = 1 + j + 1 /\ HasWritten(call, 4) = 1
    BY <1>3, <2>3, <2>5, StartCounts
  <2>7. Judges(call, 4)
    BY <1>3, <2>3, <2>5, StartSteps, KindFacts DEF Judges
  <2>8. LandsAt(call, 3, j, 4)
    BY <2>1, <2>2, <2>4, <2>5, <2>6, <2>7 DEF LandsAt
  <2> QED  BY <1>5, <2>1, <2>5, <2>8
<1>6. ASSUME s = 4
      PROVE  (\E b \in 1 .. LastStep(call) : LandsAt(call, s, j, b)) /\ HasSent(call.cmd, s) >= 1
  <2>1. HasSent(CMD_START, 4) = 1 /\ 4 \in Nat
    BY StartFlow DEF Once
  <2>2. HasGot(CMD_START, 4) = 1
    <3>1. Parameters(CMD_START, 4) = 0
      BY StartFlow DEF Once
    <3> QED  BY <3>1 DEF HasGot
  <2>3. j = 0
    BY <1>6 DEF Round, Rounds, LoopStep
  <2>4. Padding(call, 4, j) = 1
    BY <2>1, StartFlow DEF Padding
  <2>5. 4 \in 1 .. LastStep(call) /\ 4 \in Nat
    BY <1>3, <2>3
  <2>6. HasRead(call, 4) = 1 + j + 1 /\ HasWritten(call, 4) = 1
    BY <1>3, <2>3, <2>5, StartCounts
  <2>7. Judges(call, 4)
    BY <1>3, <2>3, <2>5, StartSteps, KindFacts DEF Judges
  <2>8. LandsAt(call, 4, j, 4)
    BY <2>1, <2>2, <2>4, <2>5, <2>6, <2>7 DEF LandsAt
  <2> QED  BY <1>6, <2>1, <2>5, <2>8
<1>7. ASSUME s = 5
      PROVE  (\E b \in 1 .. LastStep(call) : LandsAt(call, s, j, b)) /\ HasSent(call.cmd, s) >= 1
  <2>1. HasSent(CMD_START, 5) = 2 /\ 5 \in Nat
    BY StartFlow DEF Once
  <2>2. HasGot(CMD_START, 5) = 1
    <3>1. Parameters(CMD_START, 5) = 0
      BY StartFlow DEF Once
    <3> QED  BY <3>1 DEF HasGot
  <2>3. j = 0
    BY <1>7 DEF Round, Rounds, LoopStep
  <2>4. Padding(call, 5, j) = 0
    BY <2>1, StartFlow DEF Padding
  <2>5. 4 \in 1 .. LastStep(call) /\ 4 \in Nat
    BY <1>3, <2>3
  <2>6. HasRead(call, 4) = 2 + j /\ HasWritten(call, 4) = 1
    BY <1>3, <2>3, <2>5, StartCounts
  <2>7. Judges(call, 4)
    BY <1>3, <2>3, <2>5, StartSteps, KindFacts DEF Judges
  <2>8. LandsAt(call, 5, j, 4)
    BY <2>1, <2>2, <2>4, <2>5, <2>6, <2>7 DEF LandsAt
  <2> QED  BY <1>7, <2>1, <2>5, <2>8
<1>8. ASSUME s = 9
      PROVE  (\E b \in 1 .. LastStep(call) : LandsAt(call, s, j, b)) /\ HasSent(call.cmd, s) >= 1
  <2>1. HasSent(CMD_START, 9) = 3 /\ 9 \in Nat
    BY StartFlow DEF Once
  <2>2. HasGot(CMD_START, 9) = 4
    <3>1. Parameters(CMD_START, 9) = 3
      BY StartFlow DEF Once
    <3> QED  BY <3>1 DEF HasGot
  <2>3. j = 0
    BY <1>8 DEF Round, Rounds, LoopStep
  <2>4. Padding(call, 9, j) = 3
    BY <2>1, StartFlow DEF Padding
  <2>5. 7 \in 1 .. LastStep(call) /\ 7 \in Nat
    BY <1>3, <2>3
  <2>6. HasRead(call, 7) = 3 + j + 3 /\ HasWritten(call, 7) = 4
    BY <1>3, <2>3, <2>5, StartCounts
  <2>7. Judges(call, 7)
    BY <1>3, <2>3, <2>5, StartSteps, KindFacts DEF Judges
  <2>8. LandsAt(call, 9, j, 7)
    BY <2>1, <2>2, <2>4, <2>5, <2>6, <2>7 DEF LandsAt
  <2> QED  BY <1>8, <2>1, <2>5, <2>8
<1>9. ASSUME s = 10
      PROVE  (\E b \in 1 .. LastStep(call) : LandsAt(call, s, j, b)) /\ HasSent(call.cmd, s) >= 1
  <2>1. HasSent(CMD_START, 10) = 3 /\ 10 \in Nat
    BY StartFlow DEF Once
  <2>2. HasGot(CMD_START, 10) = 4
    <3>1. Parameters(CMD_START, 10) = 3
      BY StartFlow DEF Once
    <3> QED  BY <3>1 DEF HasGot
  <2>3. j = 0
    BY <1>9 DEF Round, Rounds, LoopStep
  <2>4. Padding(call, 10, j) = 3
    BY <2>1, StartFlow DEF Padding
  <2>5. 7 \in 1 .. LastStep(call) /\ 7 \in Nat
    BY <1>3, <2>3
  <2>6. HasRead(call, 7) = 3 + j + 3 /\ HasWritten(call, 7) = 4
    BY <1>3, <2>3, <2>5, StartCounts
  <2>7. Judges(call, 7)
    BY <1>3, <2>3, <2>5, StartSteps, KindFacts DEF Judges
  <2>8. LandsAt(call, 10, j, 7)
    BY <2>1, <2>2, <2>4, <2>5, <2>6, <2>7 DEF LandsAt
  <2> QED  BY <1>9, <2>1, <2>5, <2>8
<1> QED  BY <1>1, <1>2, <1>4, <1>5, <1>6, <1>7, <1>8, <1>9 DEF Lands

LEMMA SetBaudLands ==
  ASSUME NEW call, IsCall(call), call.cmd = CMD_SETBAUD, NEW s \in 1 .. LastOp(CMD_SETBAUD),
         NEW j \in Nat, Round(call, s, j)
  PROVE  Lands(call, s, j)
<1>1. LastOp(CMD_SETBAUD) = 7 /\ s \in 1 .. 7
  BY SetBaudOps
<1>2. Handlers[CMD_SETBAUD][s].op \in Failing => s \in {6}
  BY <1>1, SetBaudOps DEF Failing, Ack, Pad, Recv, RecvSize, Updi, Slow, Fetch, Stream, Packets,
     Erase, Busy, Nvm, Ok, TargetAck, Stored, StatusB
<1>3. call.n \in Nat /\ LastStep(call) = 7 /\ LastStep(call) \in Nat
  BY CallTypes, SetBaudSteps
<1>4. BlockOf(call, j) = 0
  BY DEF BlockOf
<1>5. ASSUME s = 6
      PROVE  (\E b \in 1 .. LastStep(call) : LandsAt(call, s, j, b)) /\ HasSent(call.cmd, s) >= 1
  <2>1. HasSent(CMD_SETBAUD, 6) = 3 /\ 6 \in Nat
    BY SetBaudFlow DEF Once
  <2>2. HasGot(CMD_SETBAUD, 6) = 5
    <3>1. Parameters(CMD_SETBAUD, 6) = 4
      BY SetBaudFlow DEF Once
    <3> QED  BY <3>1 DEF HasGot
  <2>3. j = 0
    BY <1>5 DEF Round, Rounds, LoopStep
  <2>4. Padding(call, 6, j) = 0
    BY <2>1, SetBaudFlow DEF Padding
  <2>5. 7 \in 1 .. LastStep(call) /\ 7 \in Nat
    BY <1>3, <2>3
  <2>6. HasRead(call, 7) = 3 + j /\ HasWritten(call, 7) = 5
    BY <1>3, <2>3, <2>5, SetBaudCounts
  <2>7. Judges(call, 7)
    BY <1>3, <2>3, <2>5, SetBaudSteps, KindFacts DEF Judges
  <2>8. LandsAt(call, 6, j, 7)
    BY <2>1, <2>2, <2>4, <2>5, <2>6, <2>7 DEF LandsAt
  <2> QED  BY <1>5, <2>1, <2>5, <2>8
<1> QED  BY <1>1, <1>2, <1>4, <1>5 DEF Lands

LEMMA SetAddrLands ==
  ASSUME NEW call, IsCall(call), call.cmd = CMD_SETADDR, NEW s \in 1 .. LastOp(CMD_SETADDR),
         NEW j \in Nat, Round(call, s, j)
  PROVE  Lands(call, s, j)
<1>1. LastOp(CMD_SETADDR) = 5 /\ s \in 1 .. 5
  BY SetAddrOps
<1>2. Handlers[CMD_SETADDR][s].op \in Failing => s \in {4}
  BY <1>1, SetAddrOps DEF Failing, Ack, Pad, Recv, RecvSize, Updi, Slow, Fetch, Stream, Packets,
     Erase, Busy, Nvm, Ok, TargetAck, Stored, StatusB
<1>3. call.n \in Nat /\ LastStep(call) = 5 /\ LastStep(call) \in Nat
  BY CallTypes, SetAddrSteps
<1>4. BlockOf(call, j) = 0
  BY DEF BlockOf
<1>5. ASSUME s = 4
      PROVE  (\E b \in 1 .. LastStep(call) : LandsAt(call, s, j, b)) /\ HasSent(call.cmd, s) >= 1
  <2>1. HasSent(CMD_SETADDR, 4) = 2 /\ 4 \in Nat
    BY SetAddrFlow DEF Once
  <2>2. HasGot(CMD_SETADDR, 4) = 4
    <3>1. Parameters(CMD_SETADDR, 4) = 3
      BY SetAddrFlow DEF Once
    <3> QED  BY <3>1 DEF HasGot
  <2>3. j = 0
    BY <1>5 DEF Round, Rounds, LoopStep
  <2>4. Padding(call, 4, j) = 0
    BY <2>1, SetAddrFlow DEF Padding
  <2>5. 5 \in 1 .. LastStep(call) /\ 5 \in Nat
    BY <1>3, <2>3
  <2>6. HasRead(call, 5) = 2 + j /\ HasWritten(call, 5) = 4
    BY <1>3, <2>3, <2>5, SetAddrCounts
  <2>7. Judges(call, 5)
    BY <1>3, <2>3, <2>5, SetAddrSteps, KindFacts DEF Judges
  <2>8. LandsAt(call, 4, j, 5)
    BY <2>1, <2>2, <2>4, <2>5, <2>6, <2>7 DEF LandsAt
  <2> QED  BY <1>5, <2>1, <2>5, <2>8
<1> QED  BY <1>1, <1>2, <1>4, <1>5 DEF Lands

LEMMA GetByteLands ==
  ASSUME NEW call, IsCall(call), call.cmd = CMD_GETBYTE, NEW s \in 1 .. LastOp(CMD_GETBYTE),
         NEW j \in Nat, Round(call, s, j)
  PROVE  Lands(call, s, j)
<1>1. LastOp(CMD_GETBYTE) = 6 /\ s \in 1 .. 6
  BY GetByteOps
<1>2. Handlers[CMD_GETBYTE][s].op \in Failing => s \in {5}
  BY <1>1, GetByteOps DEF Failing, Ack, Pad, Recv, RecvSize, Updi, Slow, Fetch, Stream, Packets,
     Erase, Busy, Nvm, Ok, TargetAck, Stored, StatusB
<1>3. call.n \in Nat /\ LastStep(call) = 6 /\ LastStep(call) \in Nat
  BY CallTypes, GetByteSteps
<1>4. BlockOf(call, j) = 0
  BY DEF BlockOf
<1>5. ASSUME s = 5
      PROVE  (\E b \in 1 .. LastStep(call) : LandsAt(call, s, j, b)) /\ HasSent(call.cmd, s) >= 1
  <2>1. HasSent(CMD_GETBYTE, 5) = 2 /\ 5 \in Nat
    BY GetByteFlow DEF Once
  <2>2. HasGot(CMD_GETBYTE, 5) = 4
    <3>1. Parameters(CMD_GETBYTE, 5) = 3
      BY GetByteFlow DEF Once
    <3> QED  BY <3>1 DEF HasGot
  <2>3. j = 0
    BY <1>5 DEF Round, Rounds, LoopStep
  <2>4. Padding(call, 5, j) = 1
    BY <2>1, GetByteFlow DEF Padding, Once
  <2>5. 6 \in 1 .. LastStep(call) /\ 6 \in Nat
    BY <1>3, <2>3
  <2>6. HasRead(call, 6) = 2 + j + 1 /\ HasWritten(call, 6) = 4
    BY <1>3, <2>3, <2>5, GetByteCounts
  <2>7. Judges(call, 6)
    BY <1>3, <2>3, <2>5, GetByteSteps, KindFacts DEF Judges
  <2>8. LandsAt(call, 5, j, 6)
    BY <2>1, <2>2, <2>4, <2>5, <2>6, <2>7 DEF LandsAt
  <2> QED  BY <1>5, <2>1, <2>5, <2>8
<1> QED  BY <1>1, <1>2, <1>4, <1>5 DEF Lands

LEMMA SendByteLands ==
  ASSUME NEW call, IsCall(call), call.cmd = CMD_SENDBYTE, NEW s \in 1 .. LastOp(CMD_SENDBYTE),
         NEW j \in Nat, Round(call, s, j)
  PROVE  Lands(call, s, j)
<1>1. LastOp(CMD_SENDBYTE) = 9 /\ s \in 1 .. 9
  BY SendByteOps
<1>2. Handlers[CMD_SENDBYTE][s].op \in Failing => s \in {4, 7}
  BY <1>1, SendByteOps DEF Failing, Ack, Pad, Recv, RecvSize, Updi, Slow, Fetch, Stream, Packets,
     Erase, Busy, Nvm, Ok, TargetAck, Stored, StatusB
<1>3. call.n \in Nat /\ LastStep(call) = 7 /\ LastStep(call) \in Nat
  BY CallTypes, SendByteSteps
<1>4. BlockOf(call, j) = 0
  BY DEF BlockOf
<1>5. ASSUME s = 7
      PROVE  (\E b \in 1 .. LastStep(call) : LandsAt(call, s, j, b)) /\ HasSent(call.cmd, s) >= 1
  <2>1. HasSent(CMD_SENDBYTE, 7) = 3 /\ 7 \in Nat
    BY SendByteFlow DEF Once
  <2>2. HasGot(CMD_SENDBYTE, 7) = 5
    <3>1. Parameters(CMD_SENDBYTE, 7) = 4
      BY SendByteFlow DEF Once
    <3> QED  BY <3>1 DEF HasGot
  <2>3. j = 0
    BY <1>5 DEF Round, Rounds, LoopStep
  <2>4. Padding(call, 7, j) = 0
    BY <2>1, SendByteFlow DEF Padding
  <2>5. 7 \in 1 .. LastStep(call) /\ 7 \in Nat
    BY <1>3, <2>3
  <2>6. HasRead(call, 7) = 3 + j /\ HasWritten(call, 7) = 5
    BY <1>3, <2>3, <2>5, SendByteCounts
  <2>7. Judges(call, 7)
    BY <1>3, <2>3, <2>5, SendByteSteps, KindFacts DEF Judges
  <2>8. LandsAt(call, 7, j, 7)
    BY <2>1, <2>2, <2>4, <2>5, <2>6, <2>7 DEF LandsAt
  <2> QED  BY <1>5, <2>1, <2>5, <2>8
<1> QED  BY <1>1, <1>2, <1>4, <1>5 DEF Lands

LEMMA GetBlockLands ==
  ASSUME NEW call, IsCall(call), call.cmd = CMD_GETBLOCK, NEW s \in 1 .. LastOp(CMD_GETBLOCK),
         NEW j \in Nat, Round(call, s, j)
  PROVE  Lands(call, s, j)
<1>1. LastOp(CMD_GETBLOCK) = 5 /\ s \in 1 .. 5
  BY GetBlockOps
<1>2. Handlers[CMD_GETBLOCK][s].op \in Failing => s \in {4}
  BY <1>1, GetBlockOps DEF Failing, Ack, Pad, Recv, RecvSize, Updi, Slow, Fetch, Stream, Packets,
     Erase, Busy, Nvm, Ok, TargetAck, Stored, StatusB
<1>3. call.n \in Nat /\ LastStep(call) = 6 /\ LastStep(call) \in Nat
  BY CallTypes, GetBlockSteps
<1>4. BlockOf(call, j) = 0
  BY DEF BlockOf
<1>5. ASSUME s = 4
      PROVE  (\E b \in 1 .. LastStep(call) : LandsAt(call, s, j, b)) /\ HasSent(call.cmd, s) >= 1
  <2>1. HasSent(CMD_GETBLOCK, 4) = 2 /\ 4 \in Nat
    BY GetBlockFlow DEF Once
  <2>2. HasGot(CMD_GETBLOCK, 4) = 3
    <3>1. Parameters(CMD_GETBLOCK, 4) = 2
      BY GetBlockFlow DEF Once
    <3> QED  BY <3>1 DEF HasGot
  <2>3. j <= call.n
    BY <1>5 DEF Round, Rounds, LoopStep
  <2>4. Padding(call, 4, j) = call.n - j
    BY <2>1, GetBlockFlow DEF Padding
  <2>5. 6 \in 1 .. LastStep(call) /\ 6 \in Nat
    BY <1>3, <2>3
  <2>6. HasRead(call, 6) = 2 + j + (call.n - j) /\ HasWritten(call, 6) = 3
    BY <1>3, <2>3, <2>5, GetBlockCounts
  <2>7. Judges(call, 6)
    BY <1>3, <2>3, <2>5, GetBlockSteps, KindFacts DEF Judges
  <2>8. LandsAt(call, 4, j, 6)
    BY <2>1, <2>2, <2>4, <2>5, <2>6, <2>7 DEF LandsAt
  <2> QED  BY <1>5, <2>1, <2>5, <2>8
<1> QED  BY <1>1, <1>2, <1>4, <1>5 DEF Lands

LEMMA FlashPageEraseLands ==
  ASSUME NEW call, IsCall(call), call.cmd = CMD_FLASH_PAGE_ERASE, NEW s \in 1 .. LastOp(CMD_FLASH_PAGE_ERASE),
         NEW j \in Nat, Round(call, s, j)
  PROVE  Lands(call, s, j)
<1>1. LastOp(CMD_FLASH_PAGE_ERASE) = 10 /\ s \in 1 .. 10
  BY FlashPageEraseOps
<1>2. Handlers[CMD_FLASH_PAGE_ERASE][s].op \in Failing => s \in {7, 8, 9}
  BY <1>1, FlashPageEraseOps DEF Failing, Ack, Pad, Recv, RecvSize, Updi, Slow, Fetch, Stream, Packets,
     Erase, Busy, Nvm, Ok, TargetAck, Stored, StatusB
<1>3. call.n \in Nat /\ LastStep(call) = 8 + call.n /\ LastStep(call) \in Nat
  BY CallTypes, PageEraseSteps
<1>4. BlockOf(call, j) = 0
  BY DEF BlockOf
<1>5. ASSUME s = 7
      PROVE  (\E b \in 1 .. LastStep(call) : LandsAt(call, s, j, b)) /\ HasSent(call.cmd, s) >= 1
  <2>1. HasSent(CMD_FLASH_PAGE_ERASE, 7) = 3 /\ 7 \in Nat
    BY FlashPageEraseFlow DEF Once
  <2>2. HasGot(CMD_FLASH_PAGE_ERASE, 7) = 8
    <3>1. Parameters(CMD_FLASH_PAGE_ERASE, 7) = 7
      BY FlashPageEraseFlow DEF Once
    <3> QED  BY <3>1 DEF HasGot
  <2>3. j <= call.n /\ j = 0
    BY <1>5 DEF Round, Rounds, LoopStep
  <2>4. Padding(call, 7, j) = 0
    BY <2>1, FlashPageEraseFlow DEF Padding
  <2>5. 8 \in 1 .. LastStep(call) /\ 8 \in Nat
    BY <1>3, <2>3
  <2>6. HasRead(call, 8) = 3 + j /\ HasWritten(call, 8) = 8
    BY <1>3, <2>3, <2>5, PageEraseCounts
  <2>7. Judges(call, 8)
    BY <1>3, <2>3, <2>5, PageEraseKinds DEF Judges, Reading
  <2>8. LandsAt(call, 7, j, 8)
    BY <2>1, <2>2, <2>4, <2>5, <2>6, <2>7 DEF LandsAt
  <2> QED  BY <1>5, <2>1, <2>5, <2>8
<1>6. ASSUME s = 8
      PROVE  (\E b \in 1 .. LastStep(call) : LandsAt(call, s, j, b)) /\ HasSent(call.cmd, s) >= 1
  <2>1. HasSent(CMD_FLASH_PAGE_ERASE, 8) = 3 /\ 8 \in Nat
    BY FlashPageEraseFlow DEF Once
  <2>2. HasGot(CMD_FLASH_PAGE_ERASE, 8) = 8
    <3>1. Parameters(CMD_FLASH_PAGE_ERASE, 8) = 7
      BY FlashPageEraseFlow DEF Once
    <3> QED  BY <3>1 DEF HasGot
  <2>3. j <= call.n
    BY <1>6 DEF Round, Rounds, LoopStep
  <2>4. Padding(call, 8, j) = 0
    BY <2>1, FlashPageEraseFlow DEF Padding
  <2>5. 8 + j \in 1 .. LastStep(call) /\ 8 + j \in Nat
    BY <1>3, <2>3
  <2>6. HasRead(call, 8 + j) = 3 + j /\ HasWritten(call, 8 + j) = 8
    BY <1>3, <2>3, <2>5, PageEraseCounts
  <2>7. Judges(call, 8 + j)
    BY <1>3, <2>3, <2>5, PageEraseKinds DEF Judges, Reading
  <2>8. LandsAt(call, 8, j, 8 + j)
    BY <2>1, <2>2, <2>4, <2>5, <2>6, <2>7 DEF LandsAt
  <2> QED  BY <1>6, <2>1, <2>5, <2>8
<1>7. ASSUME s = 9
      PROVE  (\E b \in 1 .. LastStep(call) : LandsAt(call, s, j, b)) /\ HasSent(call.cmd, s) >= 1
  <2>1. HasSent(CMD_FLASH_PAGE_ERASE, 9) = 3 /\ 9 \in Nat
    BY FlashPageEraseFlow DEF Once
  <2>2. HasGot(CMD_FLASH_PAGE_ERASE, 9) = 8
    <3>1. Parameters(CMD_FLASH_PAGE_ERASE, 9) = 7
      BY FlashPageEraseFlow DEF Once
    <3> QED  BY <3>1 DEF HasGot
  <2>3. j <= call.n /\ j = call.n
    BY <1>7 DEF Round, Rounds, LoopStep
  <2>4. Padding(call, 9, j) = 0
    BY <2>1, FlashPageEraseFlow DEF Padding
  <2>5. 8 + call.n \in 1 .. LastStep(call) /\ 8 + call.n \in Nat
    BY <1>3, <2>3
  <2>6. HasRead(call, 8 + call.n) = 3 + j /\ HasWritten(call, 8 + call.n) = 8
    BY <1>3, <2>3, <2>5, PageEraseCounts
  <2>7. Judges(call, 8 + call.n)
    BY <1>3, <2>3, <2>5, PageEraseKinds DEF Judges, Reading
  <2>8. LandsAt(call, 9, j, 8 + call.n)
    BY <2>1, <2>2, <2>4, <2>5, <2>6, <2>7 DEF LandsAt
  <2> QED  BY <1>7, <2>1, <2>5, <2>8
<1> QED  BY <1>1, <1>2, <1>4, <1>5, <1>6, <1>7 DEF Lands

LEMMA StopLands ==
  ASSUME NEW call, IsCall(call), call.cmd = CMD_STOP, NEW s \in 1 .. LastOp(CMD_STOP),
         NEW j \in Nat, Round(call, s, j)
  PROVE  Lands(call, s, j)
<1>1. LastOp(CMD_STOP) = 3 /\ s \in 1 .. 3
  BY StopOps
<1>2. Handlers[CMD_STOP][s].op \in Failing => s \in {2}
  BY <1>1, StopOps DEF Failing, Ack, Pad, Recv, RecvSize, Updi, Slow, Fetch, Stream, Packets,
     Erase, Busy, Nvm, Ok, TargetAck, Stored, StatusB
<1>3. call.n \in Nat /\ LastStep(call) = 3 /\ LastStep(call) \in Nat
  BY CallTypes, PlainSteps
<1>4. BlockOf(call, j) = 0
  BY DEF BlockOf
<1>5. ASSUME s = 2
      PROVE  (\E b \in 1 .. LastStep(call) : LandsAt(call, s, j, b)) /\ HasSent(call.cmd, s) >= 1
  <2>1. HasSent(CMD_STOP, 2) = 1 /\ 2 \in Nat
    BY StopFlow DEF Once
  <2>2. HasGot(CMD_STOP, 2) = 1
    <3>1. Parameters(CMD_STOP, 2) = 0
      BY StopFlow DEF Once
    <3> QED  BY <3>1 DEF HasGot
  <2>3. j = 0
    BY <1>5 DEF Round, Rounds, LoopStep
  <2>4. Padding(call, 2, j) = 0
    BY <2>1, StopFlow DEF Padding
  <2>5. 3 \in 1 .. LastStep(call) /\ 3 \in Nat
    BY <1>3, <2>3
  <2>6. HasRead(call, 3) = 1 + j /\ HasWritten(call, 3) = 1
    BY <1>3, <2>3, <2>5, PlainCounts
  <2>7. Judges(call, 3)
    BY <1>3, <2>3, <2>5, PlainSteps, KindFacts DEF Judges
  <2>8. LandsAt(call, 2, j, 3)
    BY <2>1, <2>2, <2>4, <2>5, <2>6, <2>7 DEF LandsAt
  <2> QED  BY <1>5, <2>1, <2>5, <2>8
<1> QED  BY <1>1, <1>2, <1>4, <1>5 DEF Lands

LEMMA ChipEraseLands ==
  ASSUME NEW call, IsCall(call), call.cmd = CMD_CHIPERASE, NEW s \in 1 .. LastOp(CMD_CHIPERASE),
         NEW j \in Nat, Round(call, s, j)
  PROVE  Lands(call, s, j)
<1>1. LastOp(CMD_CHIPERASE) = 4 /\ s \in 1 .. 4
  BY ChipEraseOps
<1>2. Handlers[CMD_CHIPERASE][s].op \in Failing => s \in {2, 3}
  BY <1>1, ChipEraseOps DEF Failing, Ack, Pad, Recv, RecvSize, Updi, Slow, Fetch, Stream, Packets,
     Erase, Busy, Nvm, Ok, TargetAck, Stored, StatusB
<1>3. call.n \in Nat /\ LastStep(call) = 3 /\ LastStep(call) \in Nat
  BY CallTypes, PlainSteps
<1>4. BlockOf(call, j) = 0
  BY DEF BlockOf
<1>5. ASSUME s = 2
      PROVE  (\E b \in 1 .. LastStep(call) : LandsAt(call, s, j, b)) /\ HasSent(call.cmd, s) >= 1
  <2>1. HasSent(CMD_CHIPERASE, 2) = 1 /\ 2 \in Nat
    BY ChipEraseFlow DEF Once
  <2>2. HasGot(CMD_CHIPERASE, 2) = 1
    <3>1. Parameters(CMD_CHIPERASE, 2) = 0
      BY ChipEraseFlow DEF Once
    <3> QED  BY <3>1 DEF HasGot
  <2>3. j = 0
    BY <1>5 DEF Round, Rounds, LoopStep
  <2>4. Padding(call, 2, j) = 0
    BY <2>1, ChipEraseFlow DEF Padding
  <2>5. 3 \in 1 .. LastStep(call) /\ 3 \in Nat
    BY <1>3, <2>3
  <2>6. HasRead(call, 3) = 1 + j /\ HasWritten(call, 3) = 1
    BY <1>3, <2>3, <2>5, PlainCounts
  <2>7. Judges(call, 3)
    BY <1>3, <2>3, <2>5, PlainSteps, KindFacts DEF Judges
  <2>8. LandsAt(call, 2, j, 3)
    BY <2>1, <2>2, <2>4, <2>5, <2>6, <2>7 DEF LandsAt
  <2> QED  BY <1>5, <2>1, <2>5, <2>8
<1>6. ASSUME s = 3
      PROVE  (\E b \in 1 .. LastStep(call) : LandsAt(call, s, j, b)) /\ HasSent(call.cmd, s) >= 1
  <2>1. HasSent(CMD_CHIPERASE, 3) = 1 /\ 3 \in Nat
    BY ChipEraseFlow DEF Once
  <2>2. HasGot(CMD_CHIPERASE, 3) = 1
    <3>1. Parameters(CMD_CHIPERASE, 3) = 0
      BY ChipEraseFlow DEF Once
    <3> QED  BY <3>1 DEF HasGot
  <2>3. j = 0
    BY <1>6 DEF Round, Rounds, LoopStep
  <2>4. Padding(call, 3, j) = 0
    BY <2>1, ChipEraseFlow DEF Padding
  <2>5. 3 \in 1 .. LastStep(call) /\ 3 \in Nat
    BY <1>3, <2>3
  <2>6. HasRead(call, 3) = 1 + j /\ HasWritten(call, 3) = 1
    BY <1>3, <2>3, <2>5, PlainCounts
  <2>7. Judges(call, 3)
    BY <1>3, <2>3, <2>5, PlainSteps, KindFacts DEF Judges
  <2>8. LandsAt(call, 3, j, 3)
    BY <2>1, <2>2, <2>4, <2>5, <2>6, <2>7 DEF LandsAt
  <2> QED  BY <1>6, <2>1, <2>5, <2>8
<1> QED  BY <1>1, <1>2, <1>4, <1>5, <1>6 DEF Lands

LEMMA EepromWriteEnableLands ==
  ASSUME NEW call, IsCall(call), call.cmd = CMD_EEPROM_WR_EN, NEW s \in 1 .. LastOp(CMD_EEPROM_WR_EN),
         NEW j \in Nat, Round(call, s, j)
  PROVE  Lands(call, s, j)
<1>1. LastOp(CMD_EEPROM_WR_EN) = 4 /\ s \in 1 .. 4
  BY EepromWriteEnableOps
<1>2. Handlers[CMD_EEPROM_WR_EN][s].op \in Failing => s \in {2}
  BY <1>1, EepromWriteEnableOps DEF Failing, Ack, Pad, Recv, RecvSize, Updi, Slow, Fetch, Stream, Packets,
     Erase, Busy, Nvm, Ok, TargetAck, Stored, StatusB
<1>3. call.n \in Nat /\ LastStep(call) = 3 /\ LastStep(call) \in Nat
  BY CallTypes, PlainSteps
<1>4. BlockOf(call, j) = 0
  BY DEF BlockOf
<1>5. ASSUME s = 2
      PROVE  (\E b \in 1 .. LastStep(call) : LandsAt(call, s, j, b)) /\ HasSent(call.cmd, s) >= 1
  <2>1. HasSent(CMD_EEPROM_WR_EN, 2) = 1 /\ 2 \in Nat
    BY EepromWriteEnableFlow DEF Once
  <2>2. HasGot(CMD_EEPROM_WR_EN, 2) = 1
    <3>1. Parameters(CMD_EEPROM_WR_EN, 2) = 0
      BY EepromWriteEnableFlow DEF Once
    <3> QED  BY <3>1 DEF HasGot
  <2>3. j = 0
    BY <1>5 DEF Round, Rounds, LoopStep
  <2>4. Padding(call, 2, j) = 0
    BY <2>1, EepromWriteEnableFlow DEF Padding
  <2>5. 3 \in 1 .. LastStep(call) /\ 3 \in Nat
    BY <1>3, <2>3
  <2>6. HasRead(call, 3) = 1 + j /\ HasWritten(call, 3) = 1
    BY <1>3, <2>3, <2>5, PlainCounts
  <2>7. Judges(call, 3)
    BY <1>3, <2>3, <2>5, PlainSteps, KindFacts DEF Judges
  <2>8. LandsAt(call, 2, j, 3)
    BY <2>1, <2>2, <2>4, <2>5, <2>6, <2>7 DEF LandsAt
  <2> QED  BY <1>5, <2>1, <2>5, <2>8
<1> QED  BY <1>1, <1>2, <1>4, <1>5 DEF Lands

LEMMA FlashWriteEnableLands ==
  ASSUME NEW call, IsCall(call), call.cmd = CMD_FLASH_WR_EN, NEW s \in 1 .. LastOp(CMD_FLASH_WR_EN),
         NEW j \in Nat, Round(call, s, j)
  PROVE  Lands(call, s, j)
<1>1. LastOp(CMD_FLASH_WR_EN) = 4 /\ s \in 1 .. 4
  BY FlashWriteEnableOps
<1>2. Handlers[CMD_FLASH_WR_EN][s].op \in Failing => s \in {2}
  BY <1>1, FlashWriteEnableOps DEF Failing, Ack, Pad, Recv, RecvSize, Updi, Slow, Fetch, Stream, Packets,
     Erase, Busy, Nvm, Ok, TargetAck, Stored, StatusB
<1>3. call.n \in Nat /\ LastStep(call) = 3 /\ LastStep(call) \in Nat
  BY CallTypes, PlainSteps
<1>4. BlockOf(call, j) = 0
  BY DEF BlockOf
<1>5. ASSUME s = 2
      PROVE  (\E b \in 1 .. LastStep(call) : LandsAt(call, s, j, b)) /\ HasSent(call.cmd, s) >= 1
  <2>1. HasSent(CMD_FLASH_WR_EN, 2) = 1 /\ 2 \in Nat
    BY FlashWriteEnableFlow DEF Once
  <2>2. HasGot(CMD_FLASH_WR_EN, 2) = 1
    <3>1. Parameters(CMD_FLASH_WR_EN, 2) = 0
      BY FlashWriteEnableFlow DEF Once
    <3> QED  BY <3>1 DEF HasGot
  <2>3. j = 0
    BY <1>5 DEF Round, Rounds, LoopStep
  <2>4. Padding(call, 2, j) = 0
    BY <2>1, FlashWriteEnableFlow DEF Padding
  <2>5. 3 \in 1 .. LastStep(call) /\ 3 \in Nat
    BY <1>3, <2>3
  <2>6. HasRead(call, 3) = 1 + j /\ HasWritten(call, 3) = 1
    BY <1>3, <2>3, <2>5, PlainCounts
  <2>7. Judges(call, 3)
    BY <1>3, <2>3, <2>5, PlainSteps, KindFacts DEF Judges
  <2>8. LandsAt(call, 2, j, 3)
    BY <2>1, <2>2, <2>4, <2>5, <2>6, <2>7 DEF LandsAt
  <2> QED  BY <1>5, <2>1, <2>5, <2>8
<1> QED  BY <1>1, <1>2, <1>4, <1>5 DEF Lands

LEMMA NvmWriteDisableLands ==
  ASSUME NEW call, IsCall(call), call.cmd = CMD_NVM_WR_DIS, NEW s \in 1 .. LastOp(CMD_NVM_WR_DIS),
         NEW j \in Nat, Round(call, s, j)
  PROVE  Lands(call, s, j)
<1>1. LastOp(CMD_NVM_WR_DIS) = 4 /\ s \in 1 .. 4
  BY NvmWriteDisableOps
<1>2. Handlers[CMD_NVM_WR_DIS][s].op \in Failing => s \in {2}
  BY <1>1, NvmWriteDisableOps DEF Failing, Ack, Pad, Recv, RecvSize, Updi, Slow, Fetch, Stream, Packets,
     Erase, Busy, Nvm, Ok, TargetAck, Stored, StatusB
<1>3. call.n \in Nat /\ LastStep(call) = 3 /\ LastStep(call) \in Nat
  BY CallTypes, PlainSteps
<1>4. BlockOf(call, j) = 0
  BY DEF BlockOf
<1>5. ASSUME s = 2
      PROVE  (\E b \in 1 .. LastStep(call) : LandsAt(call, s, j, b)) /\ HasSent(call.cmd, s) >= 1
  <2>1. HasSent(CMD_NVM_WR_DIS, 2) = 1 /\ 2 \in Nat
    BY NvmWriteDisableFlow DEF Once
  <2>2. HasGot(CMD_NVM_WR_DIS, 2) = 1
    <3>1. Parameters(CMD_NVM_WR_DIS, 2) = 0
      BY NvmWriteDisableFlow DEF Once
    <3> QED  BY <3>1 DEF HasGot
  <2>3. j = 0
    BY <1>5 DEF Round, Rounds, LoopStep
  <2>4. Padding(call, 2, j) = 0
    BY <2>1, NvmWriteDisableFlow DEF Padding
  <2>5. 3 \in 1 .. LastStep(call) /\ 3 \in Nat
    BY <1>3, <2>3
  <2>6. HasRead(call, 3) = 1 + j /\ HasWritten(call, 3) = 1
    BY <1>3, <2>3, <2>5, PlainCounts
  <2>7. Judges(call, 3)
    BY <1>3, <2>3, <2>5, PlainSteps, KindFacts DEF Judges
  <2>8. LandsAt(call, 2, j, 3)
    BY <2>1, <2>2, <2>4, <2>5, <2>6, <2>7 DEF LandsAt
  <2> QED  BY <1>5, <2>1, <2>5, <2>8
<1> QED  BY <1>1, <1>2, <1>4, <1>5 DEF Lands

LEMMA SendBlockLands ==
  ASSUME NEW call, IsCall(call), call.cmd = CMD_SENDBLOCK, NEW s \in 1 .. LastOp(CMD_SENDBLOCK),
         NEW j
  PROVE  Lands(call, s, j)
<1>1. LastOp(CMD_SENDBLOCK) = 4 /\ s \in 1 .. 4
  BY SendBlockOps
<1>2. Handlers[CMD_SENDBLOCK][s].op \notin Failing
  BY <1>1, SendBlockOps DEF Failing, Ack, Pad, Recv, RecvSize, Updi, Slow, Fetch, Stream, Packets,
     Erase, Busy, Nvm, Ok, TargetAck, Stored, StatusB
<1> QED  BY <1>2 DEF Lands

LEMMA FailuresLand ==
  ASSUME NEW call, IsCall(call), NEW s \in DOMAIN Handlers[call.cmd], NEW j \in Nat,
         Round(call, s, j)
  PROVE  Lands(call, s, j)
<1>1. s \in 1 .. LastOp(call.cmd)
  BY CallCommands, CommandBegins
<1> QED
  BY <1>1, CallTypes, StartLands, SetBaudLands, SetAddrLands, GetByteLands, SendByteLands,
     GetBlockLands, SendBlockLands, FlashPageEraseLands, StopLands, ChipEraseLands,
     EepromWriteEnableLands, FlashWriteEnableLands, NvmWriteDisableLands DEF Operating

-------------------------------------------------------------------------------
(* What precedes a reply, and what precedes a size *)

\* A handler acknowledges its command before it sends anything else
LEMMA AcksComeFirst ==
  ASSUME NEW cmd \in Commands, NEW s \in DOMAIN Handlers[cmd], Sends(cmd, s) > 0,
         Handlers[cmd][s].op # "ack"
  PROVE  HasSent(cmd, s) >= 1 /\ cmd # CMD_FLASH_PAGE_ERASE
<1>1. OpMeans(cmd, s)
  BY OpsMean
<1>2. Handlers[cmd][s].op = "fetch"
  BY DEF Sends
<1>3. \/ cmd = CMD_START /\ s = 4
      \/ cmd = CMD_START /\ s = 10
      \/ cmd = CMD_GETBYTE /\ s = 5
  BY <1>1, <1>2, Zenon DEF OpMeans, OpFields
<1>4. HasSent(CMD_START, 4) = 1 /\ HasSent(CMD_START, 10) = 3
  BY StartFlow DEF Once
<1>5. HasSent(CMD_GETBYTE, 5) = 2
  BY GetByteFlow DEF Once
<1> QED  BY <1>3, <1>4, <1>5

\* The step before a size is an ACK the controller has not read
LEMMA SizeComesNext ==
  ASSUME NEW call, IsCall(call), NEW s \in DOMAIN Handlers[call.cmd],
         s + 1 \in DOMAIN Handlers[call.cmd], Handlers[call.cmd][s + 1].op = "size",
         NEW a \in 1 .. LastStep(call), HasRead(call, a) <= HasSent(call.cmd, s)
  PROVE  HasWritten(call, a) <= HasGot(call.cmd, s)
<1>1. /\ call.cmd \in Commands /\ s \in Nat /\ call.n \in Nat /\ a \in Nat /\ a >= 1
      /\ HasRead(call, a) \in Nat
  <2>1. call.cmd \in Commands /\ call.n \in Nat
    BY CallCommands, CallTypes
  <2>2. s \in Nat
    BY <2>1, CommandBegins
  <2>3. a \in Nat /\ a >= 1
    BY LastSteps
  <2>4. HasRead(call, a) \in Nat
    BY StepMoves DEF Moves
  <2> QED  BY <2>1, <2>2, <2>3, <2>4
<1>2. OpMeans(call.cmd, s + 1)
  BY <1>1, OpsMean
<1>3. \/ call.cmd \in {CMD_SENDBLOCK, CMD_GETBLOCK} /\ s = 1
      \/ call.cmd = CMD_FLASH_PAGE_ERASE /\ s = 3
  BY <1>1, <1>2 DEF OpMeans, OpPlaces
<1>4. CASE call.cmd = CMD_SENDBLOCK /\ s = 1
  <2>1. HasSent(CMD_SENDBLOCK, 1) = 0 /\ HasGot(CMD_SENDBLOCK, 1) = 1
    BY <1>4, <1>1, CommandBegins
  <2>2. HasRead(call, a) <= 0
    BY <1>4, <2>1
  <2>3. a <= 2
    <3>1. a = 3 => HasRead(call, a) = 1
      BY <1>4, BlockBegins
    <3>2. a >= 4 => HasRead(call, a) >= 1
      <4> SUFFICES ASSUME a >= 4  PROVE HasRead(call, a) >= 1
        OBVIOUS
      <4>1. PICK k \in Nat : BlockPlace(call, a, k)
        BY <1>4, BlockPlaces
      <4> QED  BY <4>1 DEF BlockPlace
    <3> QED  BY <1>1, <2>2, <3>1, <3>2
  <2>4. HasWritten(call, 1) = 0 /\ HasWritten(call, 2) = 1
    BY <1>4, BlockBegins
  <2> QED  BY <1>1, <1>4, <2>1, <2>3, <2>4
<1>5. CASE call.cmd = CMD_GETBLOCK /\ s = 1
  <2>1. HasSent(CMD_GETBLOCK, 1) = 0 /\ HasGot(CMD_GETBLOCK, 1) = 1
    BY <1>5, <1>1, CommandBegins
  <2> QED  BY <1>1, <1>5, <2>1, GetBlockCounts
<1>6. CASE call.cmd = CMD_FLASH_PAGE_ERASE /\ s = 3
  <2>1. HasSent(CMD_FLASH_PAGE_ERASE, 3) = 1
    BY FlashPageEraseFlow DEF Once
  <2>2. HasGot(CMD_FLASH_PAGE_ERASE, 3) = 4
    <3>1. Parameters(CMD_FLASH_PAGE_ERASE, 3) = 3
      BY FlashPageEraseFlow DEF Once
    <3> QED  BY <3>1 DEF HasGot
  <2> QED  BY <1>1, <1>6, <2>1, <2>2, PageEraseCounts
<1> QED  BY <1>3, <1>4, <1>5, <1>6

\* A page of packets is as long as what is left, up to a segment
LEMMA BlockFacts ==
  ASSUME NEW call, IsCall(call), NEW j \in 0 .. Rounds(call)
  PROVE  /\ Rounds(call) \in Nat /\ BlockOf(call, j) \in Nat /\ j \in Nat
         /\ call.cmd # CMD_SENDBLOCK => BlockOf(call, j) = 0
         /\ call.cmd = CMD_SENDBLOCK =>
              /\ Rounds(call) = PacketCount(call.n) /\ BlockOf(call, j) = Upto(j, call.n)
              /\ BlockOf(call, j) <= call.n
              /\ (j < Rounds(call) => BlockOf(call, j) < call.n)
              /\ BlockOf(call, 0) = 0
              /\ BlockOf(call, Rounds(call)) = call.n
         /\ j = 0 => BlockOf(call, j) = 0
<1>1. Rounds(call) \in Nat /\ call.n \in Nat
  BY CallTypes, CallsEnd DEF Ends
<1>2. j \in Nat
  BY <1>1
<1>3. call.cmd # CMD_SENDBLOCK => BlockOf(call, j) = 0
  BY DEF BlockOf
<1>4. ASSUME call.cmd = CMD_SENDBLOCK
      PROVE  /\ Rounds(call) = PacketCount(call.n) /\ BlockOf(call, j) = Upto(j, call.n)
             /\ BlockOf(call, j) <= call.n /\ BlockOf(call, j) \in Nat
             /\ (j < Rounds(call) => BlockOf(call, j) < call.n)
             /\ BlockOf(call, 0) = 0
             /\ BlockOf(call, Rounds(call)) = call.n
  <2>1. Rounds(call) = PacketCount(call.n) /\ BlockOf(call, j) = Upto(j, call.n)
        /\ BlockOf(call, 0) = Upto(0, call.n)
        /\ BlockOf(call, Rounds(call)) = Upto(PacketCount(call.n), call.n)
    BY <1>4 DEF Rounds, BlockOf
  <2>2. Upto(j, call.n) \in Nat /\ Upto(j, call.n) <= call.n
    BY <1>1, <1>2, BlockBounds
  <2>3. j < PacketCount(call.n) => Upto(j, call.n) < call.n
    BY Zenon, <1>1, <1>2, UptoFacts
  <2>4. Upto(0, call.n) = 0
    BY Zenon, <1>1, UptoFacts
  <2>5. Upto(PacketCount(call.n), call.n) = call.n
    <3>1. PacketCount(call.n) \in Nat /\ PacketCount(call.n) >= PacketCount(call.n)
      BY <1>1, <2>1
    <3> QED  BY Zenon, <1>1, <3>1, UptoFacts
  <2> QED  BY <2>1, <2>2, <2>3, <2>4, <2>5
<1>5. j = 0 => BlockOf(call, j) = 0
  BY <1>3, <1>4
<1> QED  BY <1>1, <1>2, <1>3, <1>4, <1>5
=============================================================================

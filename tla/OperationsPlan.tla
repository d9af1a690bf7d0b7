----------------------------- MODULE OperationsPlan -----------------------------
(***************************************************************************)
(* The calls that -W plans: where each is in the plan, what its steps are, *)
(* and what the steps behind a place of the plan have made of the target.  *)
(* The lemmas that OperationsRefinement rests on, proved for every image,  *)
(* every memory and every option.                                          *)
(***************************************************************************)
EXTENDS OperationsProofs, WellFoundedInduction

-------------------------------------------------------------------------------
(* A place in a list of calls *)

\* T is what is left of P when i steps of its j-th call have been taken
Left(T, P, j, i) ==
  /\ j \in 1 .. Len(P) + 1 /\ i \in Nat
  /\ Len(T) = Len(P) + 1 - j
  /\ \A m \in 2 .. Len(T) : T[m] = P[m + j - 1]
  /\ IF j <= Len(P)
       THEN /\ i < Len(P[j].steps) /\ T[1].cmd = P[j].cmd
            /\ Len(T[1].steps) = Len(P[j].steps) - i
            /\ \A s \in 1 .. Len(T[1].steps) : T[1].steps[s] = P[j].steps[s + i]
       ELSE i = 0

\* The place behind the next step
NextCall(P, j, i) == IF i + 1 = Len(P[j].steps) THEN j + 1 ELSE j
NextStep(P, j, i) == IF i + 1 = Len(P[j].steps) THEN 0 ELSE i + 1

\* The s-th step of the m-th call has been taken
Behind(m, s, j, i) == m < j \/ (m = j /\ s <= i)

-------------------------------------------------------------------------------
(* Where the calls of -W are in its plan *)

Erases(w)     == Len(Erasing(w))
Overridden(w) == IF w.baud # 0 THEN 1 ELSE 0
Enabled(w)    == IF w.type # "ram" THEN 1 ELSE 0
Before(w)     == Erases(w) + Overridden(w) + Enabled(w)
Each(w)       == IF w.type # "eeprom" THEN 2 ELSE 1
Filling(w, k) == Before(w) + Each(w) * k  \* the call that writes section k
Filled(w)     == Filling(w, Len(w.image))

\* The step erases the cell
Blanks(s, c) == c \in Flash /\ \/ s.do = "chip"
                               \/ s.do = "page" /\ s.at \in Flash /\ c \in PageOf(s.at)

Wiped(w, c, j, i) ==
  \E m \in 1 .. Erases(w) : \E s \in 1 .. Len(Erasing(w)[m].steps) :
    Behind(m, s, j, i) /\ Blanks(Erasing(w)[m].steps[s], c)

\* The byte of the image has been written
Reached(w, p, j, i) == Behind(Filling(w, p[1]), p[2], j, i)

Untouched(w, c, j, i) == \A p \in Places(w) : Where(w, p) = c => ~Reached(w, p, j, i)

\* What the target and the programmer are when the j-th call has taken i steps
PlaceRate(w, j) ==
  j <= Filled(w) /\ (w.baud = 0 \/ j > Erases(w) + 1)
    => rate = ActualRate(IF w.baud = 0 THEN NormalBaudrate ELSE w.baud)

PlaceWaits(w, j) == w.type # "ram" /\ j > Before(w) /\ j <= Filled(w) => waits = TRUE

PlaceNvm(w, j, i) ==
  /\ w.type = "ram" /\ j <= Filled(w) => nvm = "NONE"
  /\ w.type = "flash" /\ j <= Erases(w) /\ w.erase = "page" /\ i >= 2 => nvm = "FLPER"
  /\ w.type = "flash" /\ j <= Filled(w) /\ Behind(Before(w), 2, j, i) => nvm = "FLWR"
  /\ w.type = "eeprom" /\ j <= Filled(w) /\ Behind(Before(w), 1, j, i) => nvm = "EEERWR"

PlacePtr(w, j, i) ==
  \A k \in 1 .. Len(w.image) : w.type # "eeprom" /\ j = Filling(w, k)
    => ptr = w.base + w.image[k].address + i

PlaceBlank(w, j, i) ==
  \A c \in Flash \ ctl.excused : Wiped(w, c, j, i) /\ Untouched(w, c, j, i) => mem[c] = Blank

PlaceWritten(w, j, i) ==
  \A p \in Places(w) : Reached(w, p, j, i) /\ Where(w, p) \in Cells /\ Kept(w, Where(w, p))
    => mem[Where(w, p)] = w.image[p[1]].data[p[2]]

Progress(w, j, i) ==
  /\ PlaceRate(w, j) /\ PlaceWaits(w, j) /\ PlaceNvm(w, j, i) /\ PlacePtr(w, j, i)
  /\ PlaceBlank(w, j, i) /\ PlaceWritten(w, j, i)

-------------------------------------------------------------------------------
(* What the calls still to make are confined to *)

\* What a step may reach is the operation's
Lawful(w, s) ==
  /\ s.do = "chip" => Flash \cup Eeprom \subseteq Footprint(w)
  /\ s.do = "page" => /\ s.at \in Flash => PageOf(s.at) \subseteq Footprint(w)
                      /\ s.at \in Ram => s.at \in Footprint(w)

AllLawful(w, calls) ==
  \A k \in 1 .. Len(calls) : \A i \in 1 .. Len(calls[k].steps) : Lawful(w, calls[k].steps[i])

Erasers   == [do : {"page"}, at : Nat]
Fillers   == [do : {"put"}, byte : Values] \cup [do : {"putat"}, at : Nat, byte : Values]
EepromSel == [do : {"select"}, cmd : {"EEERWR"}]

\* A dummy write never goes to EEPROM
Guarded(calls, selected) ==
  Free(calls, Erasers) \/ (selected # "EEERWR" /\ Free(calls, EepromSel))

\* They reach what is the operation's, and only -W erases pages
Confined(w, calls, selected) ==
  /\ AllLawful(w, calls)
  /\ Guarded(calls, selected)
  /\ w.tag # "W" => \A k \in 1 .. Len(calls) : calls[k].cmd # CMD_FLASH_PAGE_ERASE

-------------------------------------------------------------------------------
(* Moving on in a list of calls *)

LEMMA CallFacts ==
  ASSUME NEW P \in Seq(CallRecords), NEW j \in 1 .. Len(P)
  PROVE  /\ P[j] \in CallRecords /\ P[j].cmd \in Nat /\ P[j].steps \in Seq(Steps)
         /\ Len(P[j].steps) \in Nat \ {0}
         /\ \A s \in 1 .. Len(P[j].steps) : P[j].steps[s] \in Steps
<1>1. P[j] \in CallRecords  BY ElementOfSeq
<1>2. P[j].cmd \in Nat /\ P[j].steps \in Seq(Steps) /\ P[j].steps # << >>  BY <1>1 DEF CallRecords
<1>3. Len(P[j].steps) \in Nat \ {0}  BY <1>2, TailFacts
<1>. QED  BY <1>1, <1>2, <1>3, ElementOfSeq

LEMMA LeftStart ==
  ASSUME NEW P \in Seq(CallRecords)
  PROVE  Left(P, P, 1, 0)
<1>1. Len(P) \in Nat  BY LenProperties
<1>2. CASE Len(P) = 0  BY <1>1, <1>2 DEF Left
<1>3. CASE Len(P) # 0
  <2>1. Len(P[1].steps) \in Nat \ {0}  BY <1>1, <1>3, CallFacts
  <2>. QED  BY <1>1, <1>3, <2>1 DEF Left
<1>. QED  BY <1>2, <1>3

LEMMA LeftFacts ==
  ASSUME NEW P \in Seq(CallRecords), NEW T \in Seq(CallRecords),
         NEW j, NEW i, Left(T, P, j, i)
  PROVE  /\ j \in 1 .. Len(P) + 1 /\ i \in Nat
         /\ T = << >> <=> j = Len(P) + 1
         /\ T # << >> => /\ j \in 1 .. Len(P) /\ i + 1 \in 1 .. Len(P[j].steps)
                         /\ T[1].cmd = P[j].cmd /\ T[1].steps[1] = P[j].steps[i + 1]
                         /\ Len(T[1].steps) = Len(P[j].steps) - i
                         /\ \A s \in 1 .. Len(T[1].steps) : T[1].steps[s] = P[j].steps[s + i]
         /\ j = Len(P) + 1 => i = 0
<1>1. Len(P) \in Nat /\ Len(T) \in Nat  BY LenProperties
<1>2. j \in 1 .. Len(P) + 1 /\ i \in Nat /\ Len(T) = Len(P) + 1 - j  BY DEF Left
<1>3. T = << >> <=> Len(T) = 0  BY EmptySeq
<1>4. ASSUME T # << >>
      PROVE  /\ j \in 1 .. Len(P) /\ i + 1 \in 1 .. Len(P[j].steps)
             /\ T[1].cmd = P[j].cmd /\ T[1].steps[1] = P[j].steps[i + 1]
             /\ Len(T[1].steps) = Len(P[j].steps) - i
             /\ \A s \in 1 .. Len(T[1].steps) : T[1].steps[s] = P[j].steps[s + i]
  <2>1. j \in 1 .. Len(P)  BY <1>1, <1>2, <1>3, <1>4
  <2>2. /\ i < Len(P[j].steps) /\ T[1].cmd = P[j].cmd
        /\ Len(T[1].steps) = Len(P[j].steps) - i
        /\ \A s \in 1 .. Len(T[1].steps) : T[1].steps[s] = P[j].steps[s + i]
    BY <2>1 DEF Left
  <2>3. Len(P[j].steps) \in Nat \ {0}  BY <2>1, CallFacts
  <2>4. 1 \in 1 .. Len(T[1].steps) /\ 1 + i = i + 1  BY <1>2, <2>2, <2>3
  <2>5. T[1].steps[1] = P[j].steps[i + 1]  BY <2>2, <2>4
  <2>6. i + 1 \in 1 .. Len(P[j].steps)  BY <1>2, <2>2, <2>3
  <2>. QED  BY <2>1, <2>2, <2>5, <2>6
<1>5. j = Len(P) + 1 => i = 0  BY <1>1 DEF Left
<1>. QED  BY <1>1, <1>2, <1>3, <1>4, <1>5

LEMMA LeftAdvance ==
  ASSUME NEW P \in Seq(CallRecords), NEW T \in Seq(CallRecords), T # << >>,
         NEW j, NEW i, Left(T, P, j, i)
  PROVE  Left(Advance(T), P, NextCall(P, j, i), NextStep(P, j, i))
<1> DEFINE A == Advance(T)
<1>1. /\ j \in 1 .. Len(P) /\ i \in Nat /\ i + 1 \in 1 .. Len(P[j].steps)
      /\ T[1].cmd = P[j].cmd /\ Len(T[1].steps) = Len(P[j].steps) - i
      /\ \A s \in 1 .. Len(T[1].steps) : T[1].steps[s] = P[j].steps[s + i]
  BY LeftFacts
<1>2. /\ Len(T) = Len(P) + 1 - j /\ \A m \in 2 .. Len(T) : T[m] = P[m + j - 1]
      /\ Len(P) \in Nat
  BY LenProperties DEF Left
<1>3. Len(P[j].steps) \in Nat \ {0} /\ P[j] \in CallRecords  BY <1>1, CallFacts
<1>4. /\ A \in Seq(CallRecords) /\ Len(A) = Len(T) - Done(T)
      /\ \A m \in 1 .. Len(A) :
           IF Done(T) = 0 /\ m = 1
             THEN /\ A[1].cmd = T[1].cmd
                  /\ Len(A[1].steps) = Len(T[1].steps) - 1
                  /\ \A s \in 1 .. Len(T[1].steps) - 1 : A[1].steps[s] = T[1].steps[s + 1]
             ELSE A[m] = T[m + Done(T)]
  BY AdvanceFacts
<1> HIDE DEF A
<1>5. CASE i + 1 = Len(P[j].steps)
  <2>1. Done(T) = 1 /\ NextCall(P, j, i) = j + 1 /\ NextStep(P, j, i) = 0
    BY <1>1, <1>3, <1>5 DEF Done, NextCall, NextStep
  <2>2. ASSUME NEW m \in 1 .. Len(A)  PROVE A[m] = P[m + j]
    <3>1. A[m] = T[m + 1] /\ m + 1 \in 2 .. Len(T)
      <4>1. A[m] = T[m + 1]  BY <1>4, <2>1
      <4>2. Len(A) = Len(T) - 1 /\ Len(T) \in Nat  BY <1>1, <1>2, <1>4, <2>1
      <4>. QED  BY <4>1, <4>2
    <3>2. T[m + 1] = P[(m + 1) + j - 1]  BY <1>2, <3>1
    <3>3. (m + 1) + j - 1 = m + j  BY <1>1
    <3>. QED  BY <3>1, <3>2, <3>3
  <2>3. Len(A) = Len(P) + 1 - (j + 1) /\ j + 1 \in 1 .. Len(P) + 1  BY <1>1, <1>2, <1>4, <2>1
  <2>4. \A m \in 2 .. Len(A) : A[m] = P[m + (j + 1) - 1]
    <3> SUFFICES ASSUME NEW m \in 2 .. Len(A)  PROVE A[m] = P[m + (j + 1) - 1]
      OBVIOUS
    <3>1. m \in 1 .. Len(A) /\ m + (j + 1) - 1 = m + j  BY <1>1
    <3>. QED  BY <2>2, <3>1
  <2>5. CASE j + 1 <= Len(P)
    <3>1. 1 \in 1 .. Len(A) /\ 1 + j = j + 1
      <4>1. j \in Nat /\ Len(P) \in Nat  BY <1>1, <1>2
      <4>2. Len(A) \in Nat /\ Len(A) >= 1  BY <2>3, <2>5, <4>1
      <4>. QED  BY <4>1, <4>2
    <3>2. A[1] = P[j + 1]  BY <2>2, <3>1
    <3>3. j + 1 \in 1 .. Len(P)  BY <2>3, <2>5, <1>2
    <3>4. Len(P[j + 1].steps) \in Nat \ {0}  BY <3>3, CallFacts
    <3>5. \A s \in 1 .. Len(A[1].steps) : s + 0 = s  OBVIOUS
    <3>. QED  BY <2>1, <2>3, <2>4, <2>5, <3>2, <3>4, <3>5 DEF Left, A
  <2>6. CASE ~(j + 1 <= Len(P))  BY <2>1, <2>3, <2>4, <2>6 DEF Left, A
  <2>. QED  BY <2>5, <2>6
<1>6. CASE i + 1 # Len(P[j].steps)
  <2>1. Done(T) = 0 /\ NextCall(P, j, i) = j /\ NextStep(P, j, i) = i + 1
    BY <1>1, <1>3, <1>6 DEF Done, NextCall, NextStep
  <2>2. Len(A) = Len(P) + 1 - j /\ 1 \in 1 .. Len(A)  BY <1>1, <1>2, <1>4, <2>1
  <2>3. /\ A[1].cmd = T[1].cmd /\ Len(A[1].steps) = Len(T[1].steps) - 1
        /\ \A s \in 1 .. Len(T[1].steps) - 1 : A[1].steps[s] = T[1].steps[s + 1]
    BY <1>4, <2>1, <2>2
  <2>4. \A m \in 2 .. Len(A) : A[m] = P[m + j - 1]
    <3> SUFFICES ASSUME NEW m \in 2 .. Len(A)  PROVE A[m] = P[m + j - 1]
      OBVIOUS
    <3>1. m \in 1 .. Len(A) /\ m # 1 /\ m + 0 = m  OBVIOUS
    <3>2. A[m] = T[m]  BY <1>4, <2>1, <3>1
    <3>. QED  BY <1>2, <2>2, <3>2
  <2>5. \A s \in 1 .. Len(A[1].steps) : A[1].steps[s] = P[j].steps[s + (i + 1)]
    <3> SUFFICES ASSUME NEW s \in 1 .. Len(A[1].steps)
                 PROVE  A[1].steps[s] = P[j].steps[s + (i + 1)]
      OBVIOUS
    <3>1. Len(T[1].steps) \in Nat /\ Len(A[1].steps) = Len(T[1].steps) - 1
      BY <1>1, <1>3, <2>3
    <3>2. s \in 1 .. Len(T[1].steps) - 1 /\ s + 1 \in 1 .. Len(T[1].steps)  BY <3>1
    <3>3. (s + 1) + i = s + (i + 1)  BY <1>1
    <3>. QED  BY <1>1, <2>3, <3>2, <3>3
  <2>6. i + 1 < Len(P[j].steps) /\ Len(A[1].steps) = Len(P[j].steps) - (i + 1)
        /\ j \in 1 .. Len(P) + 1 /\ j <= Len(P)
    BY <1>1, <1>2, <1>3, <1>6, <2>3
  <2>. QED  BY <1>1, <2>1, <2>2, <2>3, <2>4, <2>5, <2>6 DEF Left, A
<1>. QED  BY <1>5, <1>6

LEMMA LeftDrop ==
  ASSUME NEW P \in Seq(CallRecords), NEW T \in Seq(CallRecords), T # << >>,
         NEW j, NEW i, Left(T, P, j, i)
  PROVE  Left(Tail(T), P, j + 1, 0)
<1> DEFINE A == Tail(T)
<1>1. j \in 1 .. Len(P)  BY LeftFacts
<1>2. /\ Len(T) = Len(P) + 1 - j /\ \A m \in 2 .. Len(T) : T[m] = P[m + j - 1]
      /\ Len(P) \in Nat
  BY LenProperties DEF Left
<1>3. Len(A) = Len(T) - 1 /\ \A m \in 1 .. Len(T) - 1 : A[m] = T[m + 1]  BY TailFacts
<1> HIDE DEF A
<1>4. ASSUME NEW m \in 1 .. Len(A)  PROVE A[m] = P[m + j]
  <2>1. A[m] = T[m + 1] /\ m + 1 \in 2 .. Len(T)  BY <1>1, <1>2, <1>3
  <2>2. (m + 1) + j - 1 = m + j  BY <1>1
  <2>. QED  BY <1>2, <2>1, <2>2
<1>5. Len(A) = Len(P) + 1 - (j + 1) /\ j + 1 \in 1 .. Len(P) + 1  BY <1>1, <1>2, <1>3
<1>6. \A m \in 2 .. Len(A) : A[m] = P[m + (j + 1) - 1]
  <2> SUFFICES ASSUME NEW m \in 2 .. Len(A)  PROVE A[m] = P[m + (j + 1) - 1]
    OBVIOUS
  <2>1. m \in 1 .. Len(A) /\ m + (j + 1) - 1 = m + j  BY <1>1
  <2>. QED  BY <1>4, <2>1
<1>7. CASE j + 1 <= Len(P)
  <2>1. 1 \in 1 .. Len(A) /\ 1 + j = j + 1  BY <1>1, <1>2, <1>5, <1>7
  <2>2. A[1] = P[j + 1]  BY <1>4, <2>1
  <2>3. j + 1 \in 1 .. Len(P)  BY <1>2, <1>5, <1>7
  <2>4. Len(P[j + 1].steps) \in Nat \ {0}  BY <2>3, CallFacts
  <2>5. \A s \in 1 .. Len(A[1].steps) : s + 0 = s  OBVIOUS
  <2>. QED  BY <1>5, <1>6, <1>7, <2>2, <2>4, <2>5 DEF Left, A
<1>8. CASE ~(j + 1 <= Len(P))  BY <1>5, <1>6, <1>8 DEF Left, A
<1>. QED  BY <1>7, <1>8

-------------------------------------------------------------------------------
(* Pages *)

LEMMA DivFacts ==
  ASSUME NEW a \in Nat, NEW n \in Nat \ {0}
  PROVE  /\ a \div n \in Nat /\ a % n \in Nat /\ a % n < n
         /\ a = (a \div n) * n + (a % n)
OBVIOUS

LEMMA ProductFacts ==
  ASSUME NEW x \in Nat, NEW y \in Nat, NEW n \in Nat \ {0}
  PROVE  /\ x * n \in Nat /\ x <= x * n
         /\ (x + y) * n = x * n + y * n
         /\ x < y => x * n + n <= y * n
         /\ x <= y => x * n <= y * n
<1>1. x * n \in Nat /\ y * n \in Nat /\ (x + y) * n = x * n + y * n /\ x <= x * n  OBVIOUS
<1>2. ASSUME x < y  PROVE x * n + n <= y * n
  <2>1. y - x \in Nat \ {0} /\ (y - x) * n = y * n - x * n  BY <1>2
  <2>2. n <= (y - x) * n  BY <2>1
  <2>. QED  BY <2>1, <2>2, <1>1
<1>3. ASSUME x <= y  PROVE x * n <= y * n
  <2>1. CASE x = y  BY <2>1
  <2>2. CASE x # y  BY <1>1, <1>2, <1>3, <2>2
  <2>. QED  BY <2>1, <2>2
<1>. QED  BY <1>1, <1>2, <1>3

\* The quotient is the only one
LEMMA DivIs ==
  ASSUME NEW a \in Nat, NEW n \in Nat \ {0}, NEW q \in Nat, q * n <= a, a < q * n + n
  PROVE  a \div n = q /\ a % n = a - q * n
<1> DEFINE d == a \div n
<1>1. d \in Nat /\ a % n \in Nat /\ a % n < n /\ a = d * n + (a % n)  BY DivFacts
<1> HIDE DEF d
<1>2. d * n \in Nat /\ q * n \in Nat  BY <1>1, ProductFacts
<1>3. ~(d < q)
  <2> SUFFICES ASSUME d < q  PROVE FALSE
    OBVIOUS
  <2>1. d * n + n <= q * n  BY <1>1, ProductFacts
  <2>. QED  BY <1>1, <1>2, <2>1
<1>4. ~(q < d)
  <2> SUFFICES ASSUME q < d  PROVE FALSE
    OBVIOUS
  <2>1. q * n + n <= d * n  BY <1>1, ProductFacts
  <2>. QED  BY <1>1, <1>2, <2>1
<1>5. d = q  BY <1>1, <1>3, <1>4
<1>. QED  BY <1>1, <1>2, <1>5 DEF d

\* Cells of one page, in the pages of a number and in those of another
LEMMA DivBetween ==
  ASSUME NEW a \in Nat, NEW b \in Nat, NEW n \in Nat \ {0}
  PROVE  /\ a <= b => a \div n <= b \div n
         /\ (a + b) \div n <= a \div n + b
<1>1. /\ a \div n \in Nat /\ a % n \in Nat /\ a % n < n /\ a = (a \div n) * n + (a % n)
      /\ b \div n \in Nat /\ b % n \in Nat /\ b % n < n /\ b = (b \div n) * n + (b % n)
  BY DivFacts
<1> DEFINE q == a \div n
           p == b \div n
           d == (a + b) \div n
<1>2. /\ d \in Nat /\ (a + b) % n \in Nat /\ a + b = d * n + ((a + b) % n)
  <2>1. a + b \in Nat  OBVIOUS
  <2>. QED  BY <2>1, DivFacts
<1> HIDE DEF q, p, d
<1>3. /\ q \in Nat /\ p \in Nat /\ q * n \in Nat /\ p * n \in Nat /\ d * n \in Nat
      /\ q * n <= a /\ a < q * n + n /\ p * n <= b /\ b < p * n + n /\ d * n <= a + b
  BY <1>1, <1>2, ProductFacts DEF q, p
<1>4. ASSUME a <= b, p < q  PROVE FALSE
  <2>1. p * n + n <= q * n  BY <1>3, <1>4, ProductFacts
  <2>. QED  BY <1>3, <1>4, <2>1
<1>5. ASSUME q + b < d  PROVE FALSE
  <2>1. (q + b) * n + n <= d * n
    <3>1. q + b \in Nat  BY <1>3
    <3>. QED  BY <3>1, <1>2, <1>5, ProductFacts
  <2>2. (q + b) * n = q * n + b * n /\ b <= b * n /\ b * n \in Nat  BY <1>3, ProductFacts
  <2>. QED  BY <1>3, <2>1, <2>2
<1>6. a <= b => q <= p  BY <1>3, <1>4
<1>7. d <= q + b  BY <1>2, <1>3, <1>5
<1>. QED  BY <1>6, <1>7 DEF q, p, d

LEMMA ModShift ==
  ASSUME NEW a \in Nat, NEW n \in Nat \ {0}, NEW y \in Nat
  PROVE  (a + y * n) % n = a % n
<1>1. /\ a \div n \in Nat /\ a % n \in Nat /\ a % n < n /\ a = (a \div n) * n + (a % n)
  BY DivFacts
<1> DEFINE q == a \div n
<1> HIDE DEF q
<1>2. q + y \in Nat /\ y * n \in Nat /\ (q + y) * n = q * n + y * n /\ q * n \in Nat
      /\ a = q * n + (a % n)
  BY <1>1, ProductFacts DEF q
<1>3. a + y * n \in Nat /\ (q + y) * n <= a + y * n /\ a + y * n < (q + y) * n + n
  BY <1>1, <1>2
<1>4. (a + y * n) % n = (a + y * n) - (q + y) * n  BY <1>2, <1>3, DivIs
<1>5. \A u, v, r \in Nat : (u + r + v) - (u + v) = r  OBVIOUS
<1>6. (q * n + (a % n) + y * n) - (q * n + y * n) = a % n
  <2>1. a % n \in Nat  BY <1>1
  <2>. QED  BY <1>2, <1>5, <2>1
<1>. QED  BY <1>2, <1>4, <1>6

\* A multiple of the page size before a base that is one counts pages
LEMMA DivShift ==
  ASSUME NEW a \in Nat, NEW n \in Nat \ {0}, NEW y \in Nat
  PROVE  (a + y * n) \div n = a \div n + y
<1>1. /\ a \div n \in Nat /\ a % n \in Nat /\ a % n < n /\ a = (a \div n) * n + (a % n)
  BY DivFacts
<1> DEFINE q == a \div n
<1> HIDE DEF q
<1>2. q + y \in Nat /\ y * n \in Nat /\ (q + y) * n = q * n + y * n /\ q * n \in Nat
      /\ a = q * n + (a % n)
  BY <1>1, ProductFacts DEF q
<1>3. a + y * n \in Nat /\ (q + y) * n <= a + y * n /\ a + y * n < (q + y) * n + n
  BY <1>1, <1>2
<1>4. (a + y * n) \div n = q + y  BY <1>2, <1>3, DivIs
<1>. QED  BY <1>4 DEF q

LEMMA LeastOf ==
  ASSUME NEW S \in SUBSET Nat, S # {}
  PROVE  \E x \in S : \A y \in S : x <= y
<1>1. \E x \in S : \A y \in S : ~(<< y, x >> \in OpToRel(<, Nat))
  BY WFMin, NatLessThanWellFounded
<1>2. \A x, y \in Nat : x < y => << x, y >> \in OpToRel(<, Nat)  BY Zenon DEF OpToRel
<1>3. \E x \in S : \A y \in S : ~(y < x)  BY <1>1, <1>2, Zenon
<1>. QED  BY <1>3

-------------------------------------------------------------------------------
(* The plan of -W *)

LEMMA PlanNumbers ==
  ASSUME NEW w \in WritePlans
  PROVE  /\ Erases(w) \in Nat /\ Overridden(w) \in {0, 1} /\ Enabled(w) \in {0, 1}
         /\ Before(w) \in Nat /\ Each(w) \in {1, 2} /\ Len(w.image) \in Nat
         /\ Before(w) = Erases(w) + Overridden(w) + Enabled(w)
         /\ \A k \in 0 .. Len(w.image) : /\ Filling(w, k) \in Nat /\ Before(w) <= Filling(w, k)
                                         /\ Filling(w, k) <= Filled(w)
         /\ Filled(w) \in Nat /\ Before(w) <= Filled(w)
         /\ \A k, l \in 0 .. Len(w.image) :
              k < l => Filling(w, k) + Each(w) <= Filling(w, l)
         /\ Filling(w, 0) = Before(w)
<1>1. Erasing(w) \in Seq(CallRecords)  BY ErasingFacts
<1>2. Erases(w) \in Nat  BY <1>1, LenProperties DEF Erases
<1>3. Overridden(w) \in {0, 1} /\ Enabled(w) \in {0, 1} /\ Each(w) \in {1, 2}
  BY DEF Overridden, Enabled, Each
<1>4. Before(w) \in Nat /\ Before(w) = Erases(w) + Overridden(w) + Enabled(w)
  BY <1>2, <1>3 DEF Before
<1>5. Len(w.image) \in Nat  BY LenProperties DEF WritePlans, Images
<1> DEFINE n == Len(w.image)
<1> HIDE DEF n
<1>6. CASE Each(w) = 1
  <2>1. \A k \in 0 .. n : Filling(w, k) = Before(w) + k  BY <1>4, <1>6 DEF Filling
  <2>2. n \in 0 .. n /\ Filled(w) = Filling(w, n)  BY <1>5 DEF n, Filled
  <2>. QED  BY <1>2, <1>3, <1>4, <1>5, <1>6, <2>1, <2>2 DEF n
<1>7. CASE Each(w) = 2
  <2>1. \A k \in 0 .. n : Filling(w, k) = Before(w) + 2 * k  BY <1>4, <1>7 DEF Filling
  <2>2. n \in 0 .. n /\ Filled(w) = Filling(w, n)  BY <1>5 DEF n, Filled
  <2>. QED  BY <1>2, <1>3, <1>4, <1>5, <1>7, <2>1, <2>2 DEF n
<1>. QED  BY <1>3, <1>6, <1>7

\* The steps behind the image
Closing(s) == \/ s.do \in {"waits", "baud", "point", "get"}
              \/ s.do = "select" /\ s.cmd = "NONE"

Closes(c) == /\ \A i \in 1 .. Len(c.steps) : Closing(c.steps[i])
             /\ \E i \in 1 .. Len(c.steps) : c.steps[i].do # "select"

LEMMA OnlyCloses ==
  ASSUME NEW T \in Seq(CallRecords), Only(T, {"waits", "baud", "point", "get"}),
         NEW j \in 1 .. Len(T)
  PROVE  Closes(T[j])
<1>1. Len(T[j].steps) \in Nat \ {0}  BY CallFacts
<1>2. \A i \in 1 .. Len(T[j].steps) : T[j].steps[i].do \in {"waits", "baud", "point", "get"}
  BY DEF Only
<1>. QED  BY <1>1, <1>2 DEF Closes, Closing

LEMMA DisableCloses == Closes(DisableNvmWrite)
<1> DEFINE s == << Select("NONE"), Waits(FALSE) >>
<1>1. Len(s) = 2 /\ s[1].do = "select" /\ s[1].cmd = "NONE" /\ s[2].do = "waits"
  BY DEF Select, Waits
<1>2. DisableNvmWrite.steps = s  BY DEF DisableNvmWrite, Cmd
<1> HIDE DEF s
<1>3. \A i \in 1 .. 2 : i = 1 \/ i = 2  OBVIOUS
<1>. QED  BY <1>1, <1>2, <1>3 DEF Closes, Closing

\* What two lists joined are
LEMMA Joined ==
  ASSUME NEW s \in Seq(CallRecords), NEW t \in Seq(CallRecords), NEW u, u = s \o t
  PROVE  /\ u \in Seq(CallRecords) /\ Len(u) = Len(s) + Len(t)
         /\ \A i \in 1 .. Len(s) : u[i] = s[i]
         /\ \A i \in 1 .. Len(t) : u[i + Len(s)] = t[i]
BY JoinFacts

\* What the plan is, call by call
LEMMA PlanFacts ==
  ASSUME NEW w \in WritePlans, NEW P, P = WriteCalls(w)
  PROVE  /\ P \in Seq(CallRecords) /\ Len(P) \in Nat
         /\ Filled(w) <= Len(P) /\ (w.type # "ram" => Filled(w) < Len(P))
         /\ \A j \in 1 .. Erases(w) : P[j] = Erasing(w)[j]
         /\ w.baud # 0 => P[Erases(w) + 1] = SetBaud(w.baud)
         /\ w.type = "flash" => P[Before(w)] = EnableFlashWrite
         /\ w.type = "eeprom" => P[Before(w)] = EnableEepromWrite
         /\ \A j \in 1 .. Each(w) * Len(w.image) : P[Before(w) + j] = WriteSections(w)[j]
         /\ \A j \in Filled(w) + 1 .. Len(P) : Closes(P[j])
<1> DEFINE E  == Erasing(w)
           B  == IF w.baud # 0 THEN << SetBaud(w.baud) >> ELSE << >>
           En == CASE w.type = "flash"  -> << EnableFlashWrite >>
                   [] w.type = "eeprom" -> << EnableEepromWrite >>
                   [] OTHER -> << >>
           S  == WriteSections(w)
           D  == IF w.type # "ram" THEN << DisableNvmWrite >> ELSE << >>
           R  == IF w.baud # 0 THEN << SetBaud(NormalBaudrate) >> ELSE << >>
           V  == IF w.verify THEN VerifyImage(w) ELSE << >>
           F  == En \o S
           I  == F \o D
           Q  == E \o B
           J  == Q \o I
           X  == J \o R
<1>1. P = X \o V  BY DEF WriteCalls, WriteImage
<1>2. w.type \in {"ram", "eeprom", "flash"} /\ w.baud \in Nat  BY DEF WritePlans, MemoryTypes
<1>3. E \in Seq(CallRecords) /\ Len(E) = Erases(w)  BY ErasingFacts DEF Erases
<1>4. /\ B \in Seq(CallRecords) /\ Len(B) = Overridden(w)
      /\ w.baud # 0 => B[1] = SetBaud(w.baud)
  <2>1. CASE w.baud # 0
    <3>1. w.baud \in Nat \ {0}  BY <1>2, <2>1
    <3>2. /\ << SetBaud(w.baud) >> \in Seq(CallRecords) /\ Len(<< SetBaud(w.baud) >>) = 1
          /\ << SetBaud(w.baud) >>[1] = SetBaud(w.baud)
      BY <3>1, SetBaudFacts
    <3>. QED  BY <2>1, <3>2 DEF Overridden
  <2>2. CASE w.baud = 0  BY <2>2, Nothing DEF Overridden
  <2>. QED  BY <2>1, <2>2
<1>5. /\ En \in Seq(CallRecords) /\ Len(En) = Enabled(w)
      /\ w.type = "flash" => En[1] = EnableFlashWrite
      /\ w.type = "eeprom" => En[1] = EnableEepromWrite
  <2>1. CASE w.type = "flash"
    <3>1. En = << EnableFlashWrite >> /\ Enabled(w) = 1  BY <2>1 DEF Enabled
    <3> HIDE DEF En
    <3>2. << EnableFlashWrite >> \in Seq(CallRecords)  BY FlashEnableFacts
    <3>. QED  BY <2>1, <3>1, <3>2
  <2>2. CASE w.type = "eeprom"
    <3>1. En = << EnableEepromWrite >> /\ Enabled(w) = 1  BY <2>2 DEF Enabled
    <3> HIDE DEF En
    <3>2. << EnableEepromWrite >> \in Seq(CallRecords)  BY EepromEnableFacts
    <3>. QED  BY <2>2, <3>1, <3>2
  <2>3. CASE w.type = "ram"  BY <2>3, Nothing DEF Enabled
  <2>. QED  BY <1>2, <2>1, <2>2, <2>3
<1>6. S \in Seq(CallRecords) /\ Len(S) = Each(w) * Len(w.image)
  <2>1. CASE w.type = "eeprom"
    <3>1. S \in Seq(CallRecords) /\ Len(S) = Len(w.image)  BY <2>1, BytesFacts
    <3>2. Each(w) = 1 /\ Len(w.image) \in Nat  BY <2>1, PlanNumbers DEF Each
    <3>. QED  BY <3>1, <3>2
  <2>2. CASE w.type # "eeprom"  BY <2>2, BlocksFacts DEF Each
  <2>. QED  BY <2>1, <2>2
<1>7. /\ D \in Seq(CallRecords) /\ Len(D) = Enabled(w)
      /\ \A j \in 1 .. Len(D) : Closes(D[j])
  <2>1. CASE w.type # "ram"
    <3>1. D = << DisableNvmWrite >> /\ Enabled(w) = 1  BY <2>1 DEF Enabled
    <3> HIDE DEF D
    <3>2. << DisableNvmWrite >> \in Seq(CallRecords)  BY DisableFacts
    <3>3. Len(D) = 1 /\ D[1] = DisableNvmWrite  BY <3>1
    <3>. QED  BY <3>1, <3>2, <3>3, DisableCloses
  <2>2. CASE w.type = "ram"  BY <2>2, Nothing DEF Enabled
  <2>. QED  BY <2>1, <2>2
<1>8. /\ R \in Seq(CallRecords) /\ \A j \in 1 .. Len(R) : Closes(R[j])
  <2>1. NormalBaudrate \in Nat \ {0}  BY OperationsAssumption
  <2>2. R \in Seq(CallRecords) /\ Only(R, {"baud"})  BY <2>1, OverrideFacts
  <2> HIDE DEF R
  <2>3. Only(R, {"waits", "baud", "point", "get"})  BY <2>2, OnlyMore
  <2>. QED  BY <2>2, <2>3, OnlyCloses
<1>9. /\ V \in Seq(CallRecords) /\ \A j \in 1 .. Len(V) : Closes(V[j])
  <2>1. w \in ImagePlans  BY DEF ImagePlans
  <2>2. V \in Seq(CallRecords) /\ Only(V, {"point", "get"})  BY <2>1, VerifyImageFacts, Nothing
  <2> HIDE DEF V
  <2>3. Only(V, {"waits", "baud", "point", "get"})  BY <2>2, OnlyMore
  <2>. QED  BY <2>2, <2>3, OnlyCloses
<1> HIDE DEF E, B, En, S, D, R, V
<1>10. /\ F \in Seq(CallRecords) /\ Len(F) = Len(En) + Len(S)
       /\ \A i \in 1 .. Len(En) : F[i] = En[i]
       /\ \A i \in 1 .. Len(S) : F[i + Len(En)] = S[i]
  <2>1. En \in Seq(CallRecords) /\ S \in Seq(CallRecords)  BY <1>5, <1>6
  <2>2. F = En \o S  OBVIOUS
  <2> HIDE DEF F
  <2>. QED  BY <2>1, <2>2, Joined
<1> HIDE DEF F
<1>11. /\ I \in Seq(CallRecords) /\ Len(I) = Len(F) + Len(D)
       /\ \A i \in 1 .. Len(F) : I[i] = F[i]
       /\ \A i \in 1 .. Len(D) : I[i + Len(F)] = D[i]
  <2>1. F \in Seq(CallRecords) /\ D \in Seq(CallRecords)  BY <1>7, <1>10
  <2>2. I = F \o D  OBVIOUS
  <2> HIDE DEF I
  <2>. QED  BY <2>1, <2>2, Joined
<1> HIDE DEF I
<1>12. /\ Q \in Seq(CallRecords) /\ Len(Q) = Len(E) + Len(B)
       /\ \A i \in 1 .. Len(E) : Q[i] = E[i]
       /\ \A i \in 1 .. Len(B) : Q[i + Len(E)] = B[i]
  <2>1. E \in Seq(CallRecords) /\ B \in Seq(CallRecords)  BY <1>3, <1>4
  <2>2. Q = E \o B  OBVIOUS
  <2> HIDE DEF Q
  <2>. QED  BY <2>1, <2>2, Joined
<1> HIDE DEF Q
<1>13. /\ J \in Seq(CallRecords) /\ Len(J) = Len(Q) + Len(I)
       /\ \A i \in 1 .. Len(Q) : J[i] = Q[i]
       /\ \A i \in 1 .. Len(I) : J[i + Len(Q)] = I[i]
  <2>1. Q \in Seq(CallRecords) /\ I \in Seq(CallRecords)  BY <1>11, <1>12
  <2>2. J = Q \o I  OBVIOUS
  <2> HIDE DEF J
  <2>. QED  BY <2>1, <2>2, Joined
<1> HIDE DEF J
<1>14. /\ X \in Seq(CallRecords) /\ Len(X) = Len(J) + Len(R)
       /\ \A i \in 1 .. Len(J) : X[i] = J[i]
       /\ \A i \in 1 .. Len(R) : X[i + Len(J)] = R[i]
  <2>1. J \in Seq(CallRecords) /\ R \in Seq(CallRecords)  BY <1>8, <1>13
  <2>2. X = J \o R  OBVIOUS
  <2> HIDE DEF X
  <2>. QED  BY <2>1, <2>2, Joined
<1> HIDE DEF X
<1>15. /\ P \in Seq(CallRecords) /\ Len(P) = Len(X) + Len(V)
       /\ \A i \in 1 .. Len(X) : P[i] = X[i]
       /\ \A i \in 1 .. Len(V) : P[i + Len(X)] = V[i]
  <2>1. X \in Seq(CallRecords) /\ V \in Seq(CallRecords)  BY <1>9, <1>14
  <2>2. P = X \o V  BY <1>1
  <2>. QED  BY <2>1, <2>2, Joined
<1>16. /\ Len(E) \in Nat /\ Len(B) \in Nat /\ Len(En) \in Nat /\ Len(S) \in Nat
       /\ Len(D) \in Nat /\ Len(R) \in Nat /\ Len(V) \in Nat
  BY <1>3, <1>4, <1>5, <1>6, <1>7, <1>8, <1>9, LenProperties
<1>17. /\ Before(w) = Len(Q) + Len(En) /\ Filled(w) = Len(Q) + Len(F)
       /\ Before(w) \in Nat /\ Filled(w) \in Nat
  <2>1. Before(w) = Erases(w) + Overridden(w) + Enabled(w) /\ Before(w) \in Nat
        /\ Filled(w) \in Nat
    BY PlanNumbers
  <2>2. Len(Q) = Erases(w) + Overridden(w)  BY <1>3, <1>4, <1>12
  <2>3. Before(w) = Len(Q) + Len(En)  BY <1>5, <2>1, <2>2
  <2>4. Filled(w) = Before(w) + Len(S)  BY <1>6 DEF Filled, Filling
  <2>5. Filled(w) = (Len(Q) + Len(En)) + Len(S)  BY <2>3, <2>4
  <2>6. Len(Q) \in Nat  BY <1>12, <1>16
  <2>7. Filled(w) = Len(Q) + Len(F)  BY <1>10, <1>16, <2>5, <2>6
  <2>. QED  BY <2>1, <2>3, <2>7
<1>18. Filled(w) <= Len(P) /\ (w.type # "ram" => Filled(w) < Len(P)) /\ Len(P) \in Nat
  <2>1. w.type # "ram" => Len(D) = 1  BY <1>7 DEF Enabled
  <2>2. Len(Q) \in Nat /\ Len(F) \in Nat  BY <1>10, <1>12, <1>16
  <2>3. Len(P) = Len(Q) + (Len(F) + Len(D)) + Len(R) + Len(V)
    BY <1>11, <1>13, <1>14, <1>15
  <2>4. Filled(w) + Len(D) <= Len(P) /\ Len(P) \in Nat
    <3>1. Filled(w) = Len(Q) + Len(F)  BY <1>17
    <3>2. \A q, f, d, r, v \in Nat :
            q + f + d <= q + (f + d) + r + v /\ q + (f + d) + r + v \in Nat
      OBVIOUS
    <3>3. Len(Q) + Len(F) + Len(D) <= Len(P) /\ Len(P) \in Nat  BY <2>2, <2>3, <3>2, <1>16
    <3>. QED  BY <3>1, <3>3
  <2>5. Len(D) \in Nat /\ Filled(w) \in Nat  BY <1>16, <1>17
  <2>6. ASSUME w.type # "ram"  PROVE Filled(w) < Len(P)  BY <2>1, <2>4, <2>5, <2>6
  <2>7. Filled(w) <= Len(P)  BY <2>4, <2>5
  <2>. QED  BY <2>4, <2>6, <2>7
<1>19. \A i \in 1 .. Len(J) : P[i] = J[i]
  <2>1. \A i \in 1 .. Len(J) : i \in 1 .. Len(X)
    BY <1>10, <1>11, <1>12, <1>13, <1>14, <1>16
  <2>. QED  BY <2>1, <1>14, <1>15
<1>20. \A i \in 1 .. Len(Q) : P[i] = Q[i]
  <2>1. \A i \in 1 .. Len(Q) : i \in 1 .. Len(J)
    BY <1>10, <1>11, <1>12, <1>13, <1>16
  <2>. QED  BY <2>1, <1>13, <1>19
<1>21. \A i \in 1 .. Len(I) : P[i + Len(Q)] = I[i]
  <2>1. \A i \in 1 .. Len(I) : i + Len(Q) \in 1 .. Len(J)
    BY <1>10, <1>11, <1>12, <1>13, <1>16
  <2>. QED  BY <2>1, <1>13, <1>19
<1>22. \A i \in 1 .. Len(F) : P[i + Len(Q)] = F[i]
  <2>1. \A i \in 1 .. Len(F) : i \in 1 .. Len(I)  BY <1>10, <1>11, <1>16
  <2>. QED  BY <2>1, <1>11, <1>21
<1>23. \A j \in 1 .. Erases(w) : P[j] = E[j]
  <2>1. \A j \in 1 .. Len(E) : j \in 1 .. Len(Q)  BY <1>12, <1>16
  <2>. QED  BY <2>1, <1>3, <1>12, <1>20
<1>24. w.baud # 0 => P[Erases(w) + 1] = SetBaud(w.baud)
  <2> SUFFICES ASSUME w.baud # 0  PROVE P[Erases(w) + 1] = SetBaud(w.baud)
    OBVIOUS
  <2>1. Len(B) = 1 /\ 1 \in 1 .. Len(B) /\ 1 + Len(E) \in 1 .. Len(Q)
        /\ 1 + Len(E) = Erases(w) + 1
    BY <1>3, <1>4, <1>12, <1>16 DEF Overridden
  <2>2. P[1 + Len(E)] = B[1]  BY <2>1, <1>12, <1>20
  <2>. QED  BY <2>1, <2>2, <1>4
<1>25. w.type # "ram" => P[Before(w)] = En[1]
  <2> SUFFICES ASSUME w.type # "ram"  PROVE P[Before(w)] = En[1]
    OBVIOUS
  <2>1. Len(En) = 1 /\ 1 \in 1 .. Len(En) /\ 1 \in 1 .. Len(F) /\ 1 + Len(Q) = Before(w)
    BY <1>5, <1>10, <1>12, <1>16, <1>17 DEF Enabled
  <2>2. P[1 + Len(Q)] = F[1] /\ F[1] = En[1]  BY <2>1, <1>10, <1>22
  <2>. QED  BY <2>1, <2>2
<1>26. \A j \in 1 .. Len(S) : P[Before(w) + j] = S[j]
  <2> SUFFICES ASSUME NEW j \in 1 .. Len(S)  PROVE P[Before(w) + j] = S[j]
    OBVIOUS
  <2>1. j + Len(En) \in 1 .. Len(F) /\ (j + Len(En)) + Len(Q) = Before(w) + j
    BY <1>10, <1>12, <1>16, <1>17
  <2>2. P[(j + Len(En)) + Len(Q)] = F[j + Len(En)] /\ F[j + Len(En)] = S[j]
    BY <2>1, <1>10, <1>22
  <2>. QED  BY <2>1, <2>2
<1>27. /\ Len(J) = Len(Q) + Len(F) + Len(D) /\ Len(X) = Len(J) + Len(R)
       /\ Len(F) \in Nat /\ Len(Q) \in Nat /\ Len(I) = Len(F) + Len(D)
       /\ Len(J) \in Nat /\ Len(X) \in Nat /\ Filled(w) = Len(Q) + Len(F)
  BY <1>10, <1>11, <1>12, <1>13, <1>14, <1>16, <1>17
<1>28. ASSUME NEW j \in Filled(w) + 1 .. Len(P)  PROVE Closes(P[j])
  <2>1. CASE j <= Len(J)
    <3> DEFINE m == j - Len(Q) - Len(F)
    <3>1. m \in 1 .. Len(D) /\ m + Len(F) \in 1 .. Len(I) /\ (m + Len(F)) + Len(Q) = j
      BY <2>1, <1>16, <1>27
    <3> HIDE DEF m
    <3>2. P[(m + Len(F)) + Len(Q)] = I[m + Len(F)] /\ I[m + Len(F)] = D[m]
      BY <3>1, <1>11, <1>21
    <3>. QED  BY <3>1, <3>2, <1>7
  <2>2. CASE j > Len(J) /\ j <= Len(X)
    <3> DEFINE m == j - Len(J)
    <3>1. m \in 1 .. Len(R) /\ m + Len(J) = j /\ j \in 1 .. Len(X)
      BY <2>2, <1>16, <1>27
    <3> HIDE DEF m
    <3>2. P[j] = X[m + Len(J)] /\ X[m + Len(J)] = R[m]  BY <3>1, <1>14, <1>15
    <3>. QED  BY <3>1, <3>2, <1>8
  <2>3. CASE j > Len(X)
    <3> DEFINE m == j - Len(X)
    <3>1. m \in 1 .. Len(V) /\ m + Len(X) = j
      BY <2>3, <1>15, <1>16, <1>27
    <3> HIDE DEF m
    <3>2. P[m + Len(X)] = V[m]  BY <3>1, <1>15
    <3>. QED  BY <3>1, <3>2, <1>9
  <2>4. Len(J) \in Nat /\ Len(X) \in Nat /\ j \in Nat
    BY <1>27
  <2>. QED  BY <2>1, <2>2, <2>3, <2>4
<1>. QED  BY <1>5, <1>6, <1>15, <1>18, <1>23, <1>24, <1>25, <1>26, <1>28 DEF E, S

-------------------------------------------------------------------------------
(* The step at a place of the plan: c is the call, x its step behind i others *)

AtChip(w, c, j, i, x) ==
  /\ w.type = "flash" /\ w.erase = "chip" /\ Erases(w) = 1 /\ j = 1
  /\ c.cmd = CMD_CHIPERASE /\ Len(c.steps) = 1 /\ x.do = "chip"

AtPages(w, c, j, i, x) ==
  /\ w.type = "flash" /\ w.erase = "page" /\ j <= Erases(w)
  /\ c.cmd = CMD_FLASH_PAGE_ERASE
  /\ i = 0 => x = Select("NOOP")
  /\ i = 1 => x = Select("FLPER")
  /\ i > 1 => x.do = "page" \/ (x = Select("NOOP") /\ i + 1 = Len(c.steps))
  /\ Len(c.steps) > 2

AtBaud(w, c, j, i, x) ==
  /\ j = Erases(w) + 1 /\ w.baud # 0
  /\ Len(c.steps) = 1 /\ x = Baud(w.baud)

AtEnable(w, c, j, i, x) ==
  /\ j = Before(w)
  /\ \/ /\ w.type = "flash" /\ Len(c.steps) = 3
        /\ x = IF i = 0 THEN Select("NOOP") ELSE IF i = 1 THEN Select("FLWR") ELSE Waits(TRUE)
     \/ /\ w.type = "eeprom" /\ Len(c.steps) = 2
        /\ x = IF i = 0 THEN Select("EEERWR") ELSE Waits(TRUE)

AtPoint(w, c, j, i, x, k) ==
  /\ w.type # "eeprom" /\ j = Filling(w, k) - 1
  /\ Len(c.steps) = 1 /\ x = Point(w.image[k].address + w.base)

AtData(w, c, j, i, x, k) ==
  /\ j = Filling(w, k) /\ Len(c.steps) = Size(w.image[k])
  /\ c.cmd \in {CMD_SENDBLOCK, CMD_SENDBYTE}
  /\ x = IF w.type # "eeprom" THEN Put(w.image[k].data[i + 1])
         ELSE PutAt(w.image[k].address + w.base, w.image[k].data[i + 1])

AtEnd(w, c, j, i, x) == j > Filled(w) /\ Closing(x)

At(w, c, j, i, x) ==
  \/ AtPages(w, c, j, i, x)
  \/ /\ c.cmd # CMD_FLASH_PAGE_ERASE
     /\ \/ AtChip(w, c, j, i, x) \/ AtBaud(w, c, j, i, x) \/ AtEnable(w, c, j, i, x)
        \/ \E k \in 1 .. Len(w.image) : AtPoint(w, c, j, i, x, k) \/ AtData(w, c, j, i, x, k)
        \/ AtEnd(w, c, j, i, x)

LEMMA NotPages ==
  ASSUME NEW c \in CallRecords, NEW s \in 1 .. Len(c.steps), c.steps[s].do \notin {"select", "page"}
  PROVE  c.cmd # CMD_FLASH_PAGE_ERASE
<1> SUFFICES ASSUME c.cmd = CMD_FLASH_PAGE_ERASE  PROVE FALSE
  OBVIOUS
<1>1. c.steps \in Seq(PageSteps)  BY DEF CallRecords
<1>2. c.steps[s] \in PageSteps  BY <1>1, ElementOfSeq
<1>. QED  BY <1>2 DEF PageSteps

LEMMA EnableSteps ==
  /\ Len(EnableFlashWrite.steps) = 3
  /\ \A i \in 0 .. 2 : EnableFlashWrite.steps[i + 1] =
       IF i = 0 THEN Select("NOOP") ELSE IF i = 1 THEN Select("FLWR") ELSE Waits(TRUE)
  /\ Len(EnableEepromWrite.steps) = 2
  /\ \A i \in 0 .. 1 : EnableEepromWrite.steps[i + 1] =
       IF i = 0 THEN Select("EEERWR") ELSE Waits(TRUE)
<1> DEFINE f == << Select("NOOP"), Select("FLWR"), Waits(TRUE) >>
           e == << Select("EEERWR"), Waits(TRUE) >>
<1>1. /\ Len(f) = 3 /\ f[1] = Select("NOOP") /\ f[2] = Select("FLWR") /\ f[3] = Waits(TRUE)
      /\ Len(e) = 2 /\ e[1] = Select("EEERWR") /\ e[2] = Waits(TRUE)
  OBVIOUS
<1>2. EnableFlashWrite.steps = f /\ EnableEepromWrite.steps = e
  BY DEF EnableFlashWrite, EnableEepromWrite, Cmd
<1> HIDE DEF f, e
<1> HIDE DEF Select, Waits
<1>3. \A i \in 0 .. 2 :
        f[i + 1] = IF i = 0 THEN Select("NOOP") ELSE IF i = 1 THEN Select("FLWR") ELSE Waits(TRUE)
  <2>1. \A i \in 0 .. 2 : (i = 0 /\ i + 1 = 1) \/ (i = 1 /\ i + 1 = 2) \/ (i = 2 /\ i + 1 = 3)
    OBVIOUS
  <2>. QED  BY <1>1, <2>1
<1>4. \A i \in 0 .. 1 : e[i + 1] = IF i = 0 THEN Select("EEERWR") ELSE Waits(TRUE)
  <2>1. \A i \in 0 .. 1 : (i = 0 /\ i + 1 = 1) \/ (i = 1 /\ i + 1 = 2)
    OBVIOUS
  <2>. QED  BY <1>1, <2>1
<1>. QED  BY <1>1, <1>2, <1>3, <1>4

\* Which call writes what
LEMMA Placed ==
  ASSUME NEW w \in WritePlans, NEW j \in 1 .. Each(w) * Len(w.image)
  PROVE  \E k \in 1 .. Len(w.image) :
           \/ w.type = "eeprom" /\ Before(w) + j = Filling(w, k) /\ j = k
           \/ w.type # "eeprom" /\ Before(w) + j = Filling(w, k) /\ j = 2 * k
           \/ w.type # "eeprom" /\ Before(w) + j = Filling(w, k) - 1 /\ j = 2 * k - 1
<1>1. Len(w.image) \in Nat /\ Before(w) \in Nat  BY PlanNumbers
<1> DEFINE n == Len(w.image)
<1> HIDE DEF n
<1>2. CASE w.type = "eeprom"
  <2>1. Each(w) = 1  BY <1>2 DEF Each
  <2>2. j \in 1 .. n /\ Before(w) + j = Filling(w, j)  BY <1>1, <2>1 DEF n, Filling
  <2>. QED  BY <1>2, <2>2 DEF n
<1>3. CASE w.type # "eeprom"
  <2>1. Each(w) = 2  BY <1>3 DEF Each
  <2>2. j \in 1 .. 2 * n  BY <2>1 DEF n
  <2>3. \A k : Filling(w, k) = Before(w) + 2 * k  BY <2>1 DEF Filling
  <2>4. \E k \in 1 .. n : j = 2 * k \/ j = 2 * k - 1
    <3> DEFINE k == (j + 1) \div 2
    <3>1. k \in 1 .. n /\ (j = 2 * k \/ j = 2 * k - 1)  BY <1>1, <2>2 DEF n
    <3>. QED  BY <3>1
  <2>5. PICK k \in 1 .. n : j = 2 * k \/ j = 2 * k - 1  BY <2>4
  <2>6. CASE j = 2 * k  BY <1>3, <2>3, <2>5, <2>6 DEF n
  <2>7. CASE j = 2 * k - 1
    <3>1. Filling(w, k) = Before(w) + 2 * k  BY <2>3
    <3>2. Before(w) + j = Filling(w, k) - 1  BY <1>1, <2>7, <3>1
    <3>. QED  BY <1>3, <2>7, <3>2 DEF n
  <2>. QED  BY <2>5, <2>6, <2>7
<1>. QED  BY <1>2, <1>3

LEMMA ChipEraseSteps ==
  /\ ChipErase.cmd = CMD_CHIPERASE /\ Len(ChipErase.steps) = 1
  /\ ChipErase.steps[1] = EraseChip /\ EraseChip.do = "chip"
BY DEF ChipErase, Cmd, EraseChip

\* The call is flash_page_erase of n pages from a
ErasesFrom(c, a, n) ==
  /\ c.cmd = CMD_FLASH_PAGE_ERASE /\ Len(c.steps) = n + 3
  /\ c.steps[1] = Select("NOOP") /\ c.steps[2] = Select("FLPER")
  /\ \A s \in 1 .. n : c.steps[s + 2] = PageErase(a + (s - 1) * PageSize)
  /\ c.steps[n + 3] = Select("NOOP")

LEMMA PageEraseSteps ==
  ASSUME NEW c, NEW a \in Nat, NEW n \in Nat, c = FlashPageErase(a, n)
  PROVE  ErasesFrom(c, a, n)
BY PageEraseFacts DEF ErasesFrom

LEMMA Regions ==
  ASSUME NEW w \in WritePlans, NEW P, P = WriteCalls(w), NEW j \in 1 .. Len(P),
         NEW i \in Nat, i + 1 \in 1 .. Len(P[j].steps)
  PROVE  At(w, P[j], j, i, P[j].steps[i + 1])
<1> DEFINE c == P[j]
           x == c.steps[i + 1]
<1>1. /\ P \in Seq(CallRecords) /\ Len(P) \in Nat
      /\ \A m \in 1 .. Erases(w) : P[m] = Erasing(w)[m]
      /\ w.baud # 0 => P[Erases(w) + 1] = SetBaud(w.baud)
      /\ w.type = "flash" => P[Before(w)] = EnableFlashWrite
      /\ w.type = "eeprom" => P[Before(w)] = EnableEepromWrite
      /\ \A m \in 1 .. Each(w) * Len(w.image) : P[Before(w) + m] = WriteSections(w)[m]
      /\ \A m \in Filled(w) + 1 .. Len(P) : Closes(P[m])
  BY PlanFacts
<1>2. /\ Erases(w) \in Nat /\ Overridden(w) \in {0, 1} /\ Enabled(w) \in {0, 1}
      /\ Before(w) \in Nat /\ Each(w) \in {1, 2} /\ Len(w.image) \in Nat
      /\ Before(w) = Erases(w) + Overridden(w) + Enabled(w) /\ Filled(w) \in Nat
  BY PlanNumbers
<1>3. /\ c \in CallRecords /\ Len(c.steps) \in Nat \ {0} /\ x \in Steps
      /\ i + 1 \in 1 .. Len(c.steps)
  BY <1>1, CallFacts
<1>4. w.type \in {"ram", "eeprom", "flash"} /\ w.baud \in Nat /\ w \in ImagePlans
  BY DEF WritePlans, MemoryTypes, ImagePlans
<1>5. Filled(w) = Before(w) + Each(w) * Len(w.image)  BY DEF Filled, Filling
<1>6. Each(w) * Len(w.image) \in Nat  BY <1>2
<1> HIDE DEF c
<1>7. ASSUME x.do \notin {"select", "page"}  PROVE c.cmd # CMD_FLASH_PAGE_ERASE
  BY <1>3, <1>7, NotPages
<1>8. CASE j <= Erases(w)
  <2>1. c = Erasing(w)[j] /\ j \in 1 .. Len(Erasing(w))  BY <1>1, <1>8 DEF c, Erases
  <2>2. CASE w.type = "flash" /\ w.erase = "chip"
    <3>1. Erasing(w) = << ChipErase >>  BY <2>2 DEF Erasing
    <3>2. j = 1 /\ Erases(w) = 1 /\ c = ChipErase  BY <2>1, <3>1 DEF Erases
    <3>5. /\ Len(c.steps) = 1 /\ c.steps[1] = EraseChip /\ c.cmd = CMD_CHIPERASE
          /\ EraseChip.do = "chip"
      BY <3>2, ChipEraseSteps
    <3>7. i = 0 /\ i + 1 = 1  BY <3>5 DEF c
    <3>8. x.do = "chip"  BY <3>5, <3>7
    <3>9. AtChip(w, c, j, i, x)  BY <2>2, <3>2, <3>5, <3>8 DEF AtChip
    <3>10. c.cmd # CMD_FLASH_PAGE_ERASE  BY <3>8, <1>7
    <3>. QED  BY <3>9, <3>10 DEF At, c
  <2>3. CASE w.type = "flash" /\ w.erase = "page"
    <3>1. Erasing(w) = PageErases(w)  BY <2>3 DEF Erasing
    <3>2. j \in 1 .. Len(w.image)  BY <2>1, <3>1, PageErasesFacts
    <3> DEFINE a == FirstToErase(w.image, j) * PageSize + w.base
               n == (LastPage(w.image[j]) - FirstToErase(w.image, j) + 1) % 65536
    <3>3. w.image \in Seq(Sections)  BY DEF WritePlans, Images
    <3>4. c = FlashPageErase(a, n)  BY <2>1, <3>1, <3>2, <3>3 DEF PageErases
    <3>5. a \in Nat /\ n \in Nat
      <4>1. FirstToErase(w.image, j) \in Nat /\ LastPage(w.image[j]) \in Nat
        BY <1>4, <3>2, PagesFacts
      <4>2. PageSize \in Nat /\ w.base \in Nat  BY TargetAssumption DEF WritePlans
      <4>3. FirstToErase(w.image, j) * PageSize \in Nat  BY <4>1, <4>2, ProductNat
      <4>4. a \in Nat  BY <4>2, <4>3
      <4>5. LastPage(w.image[j]) - FirstToErase(w.image, j) + 1 \in Int  BY <4>1
      <4>6. n \in Nat  BY <4>5
      <4>. QED  BY <4>4, <4>6
    <3> HIDE DEF a, n
    <3>6. /\ c.cmd = CMD_FLASH_PAGE_ERASE /\ Len(c.steps) = n + 3
          /\ c.steps[1] = Select("NOOP") /\ c.steps[2] = Select("FLPER")
          /\ \A s \in 1 .. n : c.steps[s + 2] = PageErase(a + (s - 1) * PageSize)
          /\ c.steps[n + 3] = Select("NOOP")
      BY <3>4, <3>5, PageEraseSteps DEF ErasesFrom
    <3>7. ASSUME i > 1  PROVE x.do = "page" \/ (x = Select("NOOP") /\ i + 1 = Len(c.steps))
      <4>1. CASE i - 1 \in 1 .. n
        <5>1. c.steps[(i - 1) + 2] = PageErase(a + ((i - 1) - 1) * PageSize)  BY <3>6, <4>1
        <5>2. (i - 1) + 2 = i + 1  OBVIOUS
        <5>. QED  BY <5>1, <5>2 DEF PageErase
      <4>2. CASE i - 1 = n + 1
        <5>1. i + 1 = n + 3  BY <3>5, <4>2
        <5>. QED  BY <3>6, <5>1
      <4>3. i + 1 <= n + 3  BY <3>5, <3>6 DEF c
      <4>. QED  BY <3>5, <3>7, <4>1, <4>2, <4>3
    <3>8. (i = 0 => x = Select("NOOP")) /\ (i = 1 => x = Select("FLPER"))
      <4>1. 0 + 1 = 1 /\ 1 + 1 = 2  OBVIOUS
      <4>. QED  BY <3>6, <4>1
    <3>9. Len(c.steps) > 2  BY <3>5, <3>6
    <3>. QED  BY <1>8, <2>3, <3>6, <3>7, <3>8, <3>9 DEF AtPages, At, c
  <2>4. CASE ~(w.type = "flash" /\ w.erase \in {"chip", "page"})
    <3>1. Erasing(w) = << >>  BY <2>4 DEF Erasing
    <3>2. Len(Erasing(w)) = 0  BY <3>1
    <3>. QED  BY <2>1, <3>2
  <2>. QED  BY <2>2, <2>3, <2>4
<1>9. CASE j > Erases(w) /\ j <= Erases(w) + Overridden(w)
  <2>1. w.baud # 0 /\ j = Erases(w) + 1  BY <1>2, <1>9 DEF Overridden
  <2>2. c = SetBaud(w.baud) /\ w.baud \in Nat \ {0}  BY <1>1, <1>4, <2>1 DEF c
  <2>3. Len(c.steps) = 1 /\ c.steps[1] = [do |-> "baud", to |-> w.baud]  BY <2>2, SetBaudFacts
  <2>4. i + 1 = 1  BY <2>3 DEF c
  <2>5. x = Baud(w.baud) /\ x.do = "baud"  BY <2>3, <2>4 DEF Baud
  <2>6. c.cmd # CMD_FLASH_PAGE_ERASE  BY <2>5, <1>7
  <2>. QED  BY <2>1, <2>3, <2>5, <2>6 DEF AtBaud, At, c
<1>10. CASE j > Erases(w) + Overridden(w) /\ j <= Before(w)
  <2>1. w.type # "ram" /\ j = Before(w)  BY <1>2, <1>10 DEF Enabled
  <2>2. CASE w.type = "flash"
    <3>1. c = EnableFlashWrite  BY <1>1, <2>1, <2>2 DEF c
    <3>2. /\ Len(c.steps) = 3
          /\ \A s \in 0 .. 2 : c.steps[s + 1] =
               IF s = 0 THEN Select("NOOP") ELSE IF s = 1 THEN Select("FLWR") ELSE Waits(TRUE)
      BY <3>1, EnableSteps
    <3>3. i \in 0 .. 2  BY <3>2 DEF c
    <3>4. AtEnable(w, c, j, i, x)  BY <2>1, <2>2, <3>2, <3>3 DEF AtEnable
    <3>5. c.steps[2 + 1].do = "waits" /\ 2 + 1 \in 1 .. Len(c.steps)  BY <3>2 DEF Waits
    <3>6. c.cmd # CMD_FLASH_PAGE_ERASE  BY <1>3, <3>5, NotPages
    <3>. QED  BY <3>4, <3>6 DEF At, c
  <2>3. CASE w.type = "eeprom"
    <3>1. c = EnableEepromWrite  BY <1>1, <2>1, <2>3 DEF c
    <3>2. /\ Len(c.steps) = 2
          /\ \A s \in 0 .. 1 : c.steps[s + 1] = IF s = 0 THEN Select("EEERWR") ELSE Waits(TRUE)
      BY <3>1, EnableSteps
    <3>3. i \in 0 .. 1  BY <3>2 DEF c
    <3>4. AtEnable(w, c, j, i, x)  BY <2>1, <2>3, <3>2, <3>3 DEF AtEnable
    <3>5. c.steps[1 + 1].do = "waits" /\ 1 + 1 \in 1 .. Len(c.steps)  BY <3>2 DEF Waits
    <3>6. c.cmd # CMD_FLASH_PAGE_ERASE  BY <1>3, <3>5, NotPages
    <3>. QED  BY <3>4, <3>6 DEF At, c
  <2>. QED  BY <1>4, <2>1, <2>2, <2>3
<1>11. CASE j > Before(w) /\ j <= Filled(w)
  <2> DEFINE m == j - Before(w)
  <2>1. m \in 1 .. Each(w) * Len(w.image) /\ Before(w) + m = j
    <3>1. Filled(w) = Before(w) + Each(w) * Len(w.image)  BY DEF Filled, Filling
    <3>2. \A u, v, y \in Nat : u < y /\ y <= v => y - u \in 1 .. v - u /\ u + (y - u) = y
      OBVIOUS
    <3>3. j \in Nat /\ Filled(w) - Before(w) = Each(w) * Len(w.image)
      BY <1>1, <1>2, <3>1
    <3>. QED  BY <1>2, <1>11, <3>2, <3>3
  <2> HIDE DEF m
  <2>2. c = WriteSections(w)[m]  BY <1>1, <2>1 DEF c
  <2>3. PICK k \in 1 .. Len(w.image) :
               \/ w.type = "eeprom" /\ Before(w) + m = Filling(w, k) /\ m = k
               \/ w.type # "eeprom" /\ Before(w) + m = Filling(w, k) /\ m = 2 * k
               \/ w.type # "eeprom" /\ Before(w) + m = Filling(w, k) - 1 /\ m = 2 * k - 1
    BY <2>1, Placed
  <2> DEFINE data == w.image[k].data
             a    == w.image[k].address + w.base
  <2>4. a \in Nat /\ data \in Seq(Values) /\ Len(data) # 0 /\ Size(w.image[k]) = Len(data)
        /\ Len(data) \in Nat
    BY <1>4, SectionFacts, WhereSectionGoes DEF Size
  <2> HIDE DEF data, a
  <2>5. CASE w.type = "eeprom" /\ Before(w) + m = Filling(w, k) /\ m = k
    <3>1. c = WriteBytes(a, data)  BY <2>2, <2>5, BytesFacts DEF a, data
    <3>2. /\ Len(c.steps) = Len(data)
          /\ \A s \in 1 .. Len(data) :
               c.steps[s] = [do |-> "putat", at |-> Sent(a), byte |-> data[s]]
      BY <2>4, <3>1, WriteBytesFacts
    <3>3. i + 1 \in 1 .. Len(data)  BY <3>2 DEF c
    <3>4. x = PutAt(a, data[i + 1]) /\ x.do = "putat"  BY <3>2, <3>3 DEF PutAt
    <3>5. c.cmd = CMD_SENDBYTE  BY <3>1 DEF WriteBytes, Cmd
    <3>6. AtData(w, c, j, i, x, k)  BY <2>1, <2>4, <2>5, <3>2, <3>4, <3>5 DEF AtData, a, data
    <3>7. c.cmd # CMD_FLASH_PAGE_ERASE  BY <3>4, <1>7
    <3>. QED  BY <3>6, <3>7 DEF At, c
  <2>6. CASE w.type # "eeprom" /\ Before(w) + m = Filling(w, k) /\ m = 2 * k
    <3>1. c = WriteBlock(data)  BY <2>2, <2>6, BlocksFacts DEF data
    <3>2. /\ Len(c.steps) = Len(data)
          /\ \A s \in 1 .. Len(data) : c.steps[s] = [do |-> "put", byte |-> data[s]]
      BY <2>4, <3>1, WriteBlockFacts
    <3>3. i + 1 \in 1 .. Len(data)  BY <3>2 DEF c
    <3>4. x = Put(data[i + 1]) /\ x.do = "put"  BY <3>2, <3>3 DEF Put
    <3>5. c.cmd = CMD_SENDBLOCK  BY <3>1 DEF WriteBlock, Cmd
    <3>6. AtData(w, c, j, i, x, k)  BY <2>1, <2>4, <2>6, <3>2, <3>4, <3>5 DEF AtData, data
    <3>7. c.cmd # CMD_FLASH_PAGE_ERASE  BY <3>4, <1>7
    <3>. QED  BY <3>6, <3>7 DEF At, c
  <2>7. CASE w.type # "eeprom" /\ Before(w) + m = Filling(w, k) - 1 /\ m = 2 * k - 1
    <3>1. c = SetBlockAddress(a)  BY <2>2, <2>7, BlocksFacts DEF a
    <3>2. Len(c.steps) = 1 /\ c.steps[1] = [do |-> "point", at |-> Sent(a)]
      BY <2>4, <3>1, SetAddressFacts
    <3>3. i + 1 = 1  BY <3>2 DEF c
    <3>4. x = Point(a) /\ x.do = "point"  BY <3>2, <3>3 DEF Point
    <3>5. AtPoint(w, c, j, i, x, k)  BY <2>1, <2>7, <3>2, <3>4 DEF AtPoint, a
    <3>6. c.cmd # CMD_FLASH_PAGE_ERASE  BY <3>4, <1>7
    <3>. QED  BY <3>5, <3>6 DEF At, c
  <2>. QED  BY <2>3, <2>5, <2>6, <2>7
<1>12. CASE j > Filled(w)
  <2>1. Closes(c)  BY <1>1, <1>2, <1>12 DEF c
  <2>2. Closing(x)  BY <2>1 DEF Closes, c
  <2>3. PICK s \in 1 .. Len(c.steps) : c.steps[s].do # "select"  BY <2>1 DEF Closes
  <2>4. Closing(c.steps[s])  BY <2>1 DEF Closes
  <2>5. c.steps[s].do \notin {"select", "page"}  BY <2>3, <2>4 DEF Closing
  <2>6. c.cmd # CMD_FLASH_PAGE_ERASE  BY <1>3, <2>5, NotPages
  <2>. QED  BY <1>12, <2>2, <2>6 DEF AtEnd, At, c
<1>13. j \in Nat  BY <1>1
<1>. QED  BY <1>2, <1>8, <1>9, <1>10, <1>11, <1>12, <1>13

-------------------------------------------------------------------------------
(* What is erased *)

\* The pages of a section, and those its page erase erases
LEMMA SectionPages ==
  ASSUME NEW w \in WritePlans, NEW k \in 1 .. Len(w.image)
  PROVE  /\ FirstPage(w.image[k]) \in Nat /\ LastPage(w.image[k]) \in Nat
         /\ FirstToErase(w.image, k) \in {FirstPage(w.image[k]), FirstPage(w.image[k]) + 1}
         /\ FirstPage(w.image[k]) <= LastPage(w.image[k])
         /\ LastPage(w.image[k]) + 1 - FirstToErase(w.image, k) \in Nat
         /\ LastPage(w.image[k]) + 1 - FirstToErase(w.image, k) <= 33023
<1> DEFINE s == w.image[k]
           b == Size(s) - 1
<1>1. w \in ImagePlans  BY DEF ImagePlans
<1>2. s.address \in Nat /\ Size(s) \in Nat \ {0} /\ FirstPage(s) \in Nat /\ LastPage(s) \in Nat
  BY <1>1, SectionFacts, PagesFacts
<1>3. Size(s) <= 33023
  <2>1. s \in Sections
    <3>1. w.image \in Seq(Sections)  BY DEF WritePlans, Images
    <3>. QED  BY <3>1, ElementOfSeq
  <2>2. SectionMaxSize + RecordMaxSize = 33023  BY DEF SectionMaxSize, RecordMaxSize
  <2>. QED  BY <2>1, <2>2 DEF Sections, Size
<1>4. PageSize \in Nat \ {0}  BY TargetAssumption
<1>5. b \in Nat /\ b <= 33022 /\ s.address + Size(s) - 1 = s.address + b /\ s.address + b \in Nat
      /\ s.address <= s.address + b
  BY <1>2, <1>3
<1> HIDE DEF b
<1>6. /\ s.address \div PageSize <= (s.address + b) \div PageSize
      /\ (s.address + b) \div PageSize <= (s.address \div PageSize) + b
  <2>1. s.address \in Nat /\ b \in Nat  BY <1>2, <1>5
  <2> HIDE DEF s
  <2>. QED  BY <1>4, <2>1, DivBetween
<1>7. FirstPage(s) <= LastPage(s) /\ LastPage(s) <= FirstPage(s) + b
  BY <1>5, <1>6 DEF FirstPage, LastPage
<1>8. FirstToErase(w.image, k) \in {FirstPage(s), FirstPage(s) + 1}
  BY <1>2 DEF FirstToErase
<1>9. /\ LastPage(s) + 1 - FirstToErase(w.image, k) \in Nat
      /\ LastPage(s) + 1 - FirstToErase(w.image, k) <= 33023
  <2>1. \A f, l, q \in Nat : \A g \in {f, f + 1} :
          f <= l /\ l <= f + q /\ q <= 33022 => l + 1 - g \in Nat /\ l + 1 - g <= 33023
    OBVIOUS
  <2>2. FirstPage(s) \in Nat /\ LastPage(s) \in Nat /\ b \in Nat /\ b <= 33022  BY <1>2, <1>5
  <2>. QED  BY <1>7, <1>8, <2>1, <2>2
<1>. QED  BY <1>2, <1>7, <1>8, <1>9

\* The steps of a page erase that erase
LEMMA ErasingPages ==
  ASSUME NEW w \in WritePlans, w.type = "flash", w.erase = "page",
         NEW k \in 1 .. Len(w.image),
         NEW first, first = FirstToErase(w.image, k),
         NEW n, n = LastPage(w.image[k]) + 1 - first
  PROVE  /\ Erases(w) = Len(w.image) /\ Len(Erasing(w)[k].steps) = n + 3
         /\ \A t \in 0 .. n - 1 : /\ t + 3 \in 1 .. Len(Erasing(w)[k].steps)
                                  /\ Erasing(w)[k].steps[t + 3]
                                       = PageErase((first + t) * PageSize + w.base)
         /\ \A s \in 1 .. Len(Erasing(w)[k].steps) :
              Erasing(w)[k].steps[s].do = "page" => s - 3 \in 0 .. n - 1
<1> DEFINE a == first * PageSize + w.base
           c == Erasing(w)[k]
<1>1. /\ first \in Nat /\ n \in Nat /\ n <= 33023 /\ LastPage(w.image[k]) \in Nat
  BY SectionPages
<1>2. PageSize \in Nat \ {0} /\ w.base \in Nat  BY TargetAssumption DEF WritePlans
<1>3. first * PageSize \in Nat /\ a \in Nat
  <2>1. PICK m : m = first * PageSize  OBVIOUS
  <2>2. m \in Nat  BY <1>1, <1>2, <2>1, ProductNat
  <2>3. m + w.base \in Nat  BY <1>2, <2>2
  <2>. QED  BY <2>1, <2>2, <2>3
<1>4. Erasing(w) = PageErases(w) /\ w.image \in Seq(Sections)
  BY DEF Erasing, WritePlans, Images
<1>5. (LastPage(w.image[k]) - first + 1) % 65536 = n
  <2>1. LastPage(w.image[k]) - first + 1 = n  BY <1>1
  <2>2. \A x \in Nat : x <= 33023 => x % 65536 = x  OBVIOUS
  <2>. QED  BY <1>1, <2>1, <2>2
<1>6. c = FlashPageErase(a, n)  BY <1>4, <1>5 DEF PageErases
<1>7. Erases(w) = Len(w.image)  BY <1>4, PageErasesFacts DEF Erases
<1> HIDE DEF a, c
<1>8. /\ c.cmd = CMD_FLASH_PAGE_ERASE /\ Len(c.steps) = n + 3
      /\ c.steps[1] = Select("NOOP") /\ c.steps[2] = Select("FLPER")
      /\ \A s \in 1 .. n : c.steps[s + 2] = PageErase(a + (s - 1) * PageSize)
      /\ c.steps[n + 3] = Select("NOOP")
  <2>1. a \in Nat /\ n \in Nat /\ c = FlashPageErase(a, n)  BY <1>1, <1>3, <1>6
  <2>2. ErasesFrom(c, a, n)  BY <2>1, PageEraseSteps
  <2>. QED  BY <2>2 DEF ErasesFrom
<1>9. ASSUME NEW t \in 0 .. n - 1
      PROVE  /\ t + 3 \in 1 .. Len(c.steps)
             /\ c.steps[t + 3] = PageErase((first + t) * PageSize + w.base)
  <2>1. t + 1 \in 1 .. n /\ (t + 1) + 2 = t + 3 /\ (t + 1) - 1 = t /\ t \in Nat  BY <1>1
  <2>2. c.steps[t + 3] = PageErase(a + t * PageSize)  BY <1>8, <2>1
  <2>3. (first + t) * PageSize = first * PageSize + t * PageSize /\ t * PageSize \in Nat
    BY <1>1, <1>2, <2>1, ProductFacts
  <2>4. a + t * PageSize = (first + t) * PageSize + w.base  BY <1>2, <1>3, <2>3 DEF a
  <2>5. Len(c.steps) = n + 3  BY <1>8
  <2>6. t + 3 \in 1 .. Len(c.steps)  BY <1>1, <2>5
  <2>. QED  BY <2>2, <2>4, <2>6
<1>10. ASSUME NEW s \in 1 .. Len(c.steps), c.steps[s].do = "page"  PROVE s - 3 \in 0 .. n - 1
  <2>1. s # 1 /\ s # 2 /\ s # n + 3  BY <1>8, <1>10 DEF Select
  <2>2. Len(c.steps) = n + 3  BY <1>8
  <2>3. s \in 1 .. n + 3 /\ n \in Nat  BY <1>1, <1>10, <2>2
  <2>4. \A v \in Nat : \A u \in 1 .. v + 3 :
          u # 1 /\ u # 2 /\ u # v + 3 => u - 3 \in 0 .. v - 1
    OBVIOUS
  <2>. QED  BY <2>1, <2>3, <2>4
<1>. QED  BY <1>7, <1>8, <1>9, <1>10 DEF c

\* A place of an image that fits is in the address space
LEMMA PlaceFacts ==
  ASSUME NEW w \in WritePlans, NEW p \in Places(w)
  PROVE  /\ p = << p[1], p[2] >> /\ p[1] \in 1 .. Len(w.image)
         /\ p[2] \in 1 .. Size(w.image[p[1]]) /\ p[2] \in Nat \ {0}
         /\ w.image[p[1]].address \in Nat /\ w.base \in Nat
         /\ w.image[p[1]].data[p[2]] \in Values
         /\ Where(w, p) \in Nat /\ Where(w, p) = w.base + w.image[p[1]].address + p[2] - 1
         /\ Fits(w) => Where(w, p) < AddressSpace
<1>1. PICK k \in DOMAIN w.image : p \in {<<k, i>> : i \in DOMAIN w.image[k].data}
  BY DEF Places
<1>2. PICK i \in DOMAIN w.image[k].data : p = <<k, i>>  BY <1>1
<1>3. p[1] = k /\ p[2] = i  BY <1>2
<1>4. w.image \in Seq(Sections) /\ w \in ImagePlans  BY DEF WritePlans, Images, ImagePlans
<1>5. k \in 1 .. Len(w.image)  BY <1>4
<1>6. /\ w.base \in Nat /\ w.image[k].address \in Nat /\ w.image[k].data \in Seq(Values)
      /\ Len(w.image[k].data) \in Nat \ {0} /\ Size(w.image[k]) \in Nat \ {0}
  BY <1>4, <1>5, SectionFacts
<1>7. i \in 1 .. Len(w.image[k].data) /\ i \in 1 .. Size(w.image[k])  BY <1>6 DEF Size
<1>8. w.image[k].data[i] \in Values  BY <1>6, <1>7, ElementOfSeq
<1>9. w.base + w.image[k].address + i - 1 \in Nat  BY <1>6, <1>7
<1>10. ASSUME Fits(w)  PROVE w.base + w.image[k].address + i - 1 < AddressSpace
  <2>1. w.base + w.image[k].address + Size(w.image[k]) <= AddressSpace  BY <1>10, <1>2 DEF Fits
  <2>2. AddressSpace \in Nat  BY DEF AddressSpace
  <2> HIDE DEF AddressSpace
  <2>. QED  BY <2>1, <2>2, <1>6, <1>7
<1>. QED  BY <1>2, <1>3, <1>5, <1>6, <1>7, <1>8, <1>9, <1>10 DEF Where

LEMMA IsPlace ==
  ASSUME NEW w \in WritePlans, NEW k \in 1 .. Len(w.image), NEW i \in 1 .. Size(w.image[k])
  PROVE  /\ <<k, i>> \in Places(w) /\ <<k, i>>[1] = k /\ <<k, i>>[2] = i
         /\ Where(w, <<k, i>>) = w.base + w.image[k].address + i - 1
<1>1. w.image \in Seq(Sections) /\ w \in ImagePlans  BY DEF WritePlans, Images, ImagePlans
<1>2. w.image[k].data \in Seq(Values) /\ Size(w.image[k]) = Len(w.image[k].data)
  BY <1>1, SectionFacts DEF Size
<1>3. k \in DOMAIN w.image /\ i \in DOMAIN w.image[k].data  BY <1>1, <1>2
<1>4. <<k, i>>[1] = k /\ <<k, i>>[2] = i  OBVIOUS
<1>5. <<k, i>> \in Places(w)
  <2>1. <<k, i>> \in {<<k, u>> : u \in DOMAIN w.image[k].data}  BY <1>3
  <2>. QED  BY <1>3, <2>1 DEF Places
<1>. QED  BY <1>4, <1>5 DEF Where

\* Among sections that share a page, the first erases it: nothing of an image is left out,
\* although the first page of a section is skipped when the section before ended with it
\* (Operation.cpp:127-141)
LEMMA Coverage ==
  ASSUME NEW w \in WritePlans, Fits(w), w.type = "flash",
         w.erase = "chip" \/ (w.erase = "page" /\ Aligned(w)),
         NEW p \in Places(w), Where(w, p) \in Flash
  PROVE  \E m \in 1 .. Erases(w) : \E s \in 1 .. Len(Erasing(w)[m].steps) :
           Blanks(Erasing(w)[m].steps[s], Where(w, p))
<1> DEFINE cell == Where(w, p)
<1>1. CASE w.erase = "chip"
  <2>1. Erasing(w) = << ChipErase >>  BY <1>1 DEF Erasing
  <2>2. Erases(w) = 1 /\ Erasing(w)[1] = ChipErase  BY <2>1 DEF Erases
  <2>3. 1 \in 1 .. Len(ChipErase.steps) /\ ChipErase.steps[1].do = "chip"  BY ChipEraseSteps
  <2>4. Blanks(ChipErase.steps[1], cell)  BY <2>3 DEF Blanks
  <2>. QED  BY <2>2, <2>3, <2>4
<1>2. CASE w.erase = "page" /\ Aligned(w)
  <2> DEFINE N == Len(w.image)
             F(k) == FirstPage(w.image[k])
             L(k) == LastPage(w.image[k])
             d == w.image[p[1]].address + p[2] - 1
             y == d \div PageSize
             b == w.base \div PageSize
  <2>1. PageSize \in Nat \ {0} /\ N \in Nat  BY TargetAssumption, PlanNumbers
  <2>2. /\ p[1] \in 1 .. N /\ p[2] \in 1 .. Size(w.image[p[1]]) /\ p[2] \in Nat \ {0}
        /\ w.image[p[1]].address \in Nat /\ w.base \in Nat /\ cell \in Nat
        /\ cell = w.base + w.image[p[1]].address + p[2] - 1 /\ cell < AddressSpace
    BY PlaceFacts
  <2>3. d \in Nat /\ cell = d + w.base
    <3>1. \A b0, x, z \in Nat : z # 0 => x + z - 1 \in Nat /\ b0 + x + z - 1 = (x + z - 1) + b0
      OBVIOUS
    <3> HIDE DEF cell
    <3>. QED  BY <2>2, <3>1
  <2>4. \A k \in 1 .. N : /\ F(k) \in Nat /\ L(k) \in Nat /\ F(k) <= L(k)
                          /\ FirstToErase(w.image, k) \in {F(k), F(k) + 1}
    BY SectionPages
  <2>5. y \in Nat /\ y * PageSize \in Nat /\ y * PageSize <= d
    <3>1. y \in Nat /\ d % PageSize \in Nat /\ d = y * PageSize + (d % PageSize)
      BY <2>1, <2>3, DivFacts
    <3>2. y * PageSize \in Nat  BY <2>1, <3>1, ProductFacts
    <3>. QED  BY <3>1, <3>2, <2>3
  <2>6. F(p[1]) <= y /\ y <= L(p[1])
    <3> DEFINE a == w.image[p[1]].address
               e == a + Size(w.image[p[1]]) - 1
    <3>1. w \in ImagePlans  BY DEF ImagePlans
    <3>2. Size(w.image[p[1]]) \in Nat \ {0}  BY <3>1, <2>2, SectionFacts
    <3>3. a \in Nat /\ e \in Nat /\ a <= d /\ d <= e
      <4>1. \A u, v, z \in Nat :
              v # 0 /\ v <= z => u <= u + v - 1 /\ u + v - 1 <= u + z - 1 /\ u + z - 1 \in Nat
        OBVIOUS
      <4>2. a \in Nat /\ p[2] \in Nat /\ p[2] # 0 /\ Size(w.image[p[1]]) \in Nat
            /\ p[2] <= Size(w.image[p[1]])
        BY <2>2, <3>2
      <4> HIDE DEF a
      <4>3. a <= a + p[2] - 1 /\ a + p[2] - 1 <= a + Size(w.image[p[1]]) - 1
            /\ a + Size(w.image[p[1]]) - 1 \in Nat
        BY <4>1, <4>2
      <4>. QED  BY <4>2, <4>3 DEF a
    <3>4. F(p[1]) = a \div PageSize /\ L(p[1]) = e \div PageSize  BY DEF FirstPage, LastPage
    <3> HIDE DEF a, e, d, F, L
    <3>5. a \div PageSize <= y /\ y <= e \div PageSize  BY <2>1, <2>3, <3>3, DivBetween
    <3>. QED  BY <3>4, <3>5
  <2> HIDE DEF N, F, L, d, y, b
  <2>7. PICK k \in 1 .. N : /\ F(k) <= y /\ y <= L(k)
                            /\ \A m \in 1 .. N : F(m) <= y /\ y <= L(m) => k <= m
    <3> DEFINE S == {m \in 1 .. N : F(m) <= y /\ y <= L(m)}
    <3>1. S \in SUBSET Nat /\ S # {}  BY <2>1, <2>2, <2>6
    <3>2. \E m \in S : \A q \in S : m <= q  BY <3>1, LeastOf
    <3>. QED  BY <3>2
  <2> DEFINE first == FirstToErase(w.image, k)
             n == LastPage(w.image[k]) + 1 - first
  <2>8. first <= y /\ first \in Nat
    <3>1. first = F(k) + IF k > 1 /\ F(k) = L(k - 1) THEN 1 ELSE 0
      BY DEF FirstToErase, F, L
    <3>2. CASE k > 1 /\ F(k) = L(k - 1)
      <4>1. k - 1 \in 1 .. N /\ ~(k <= k - 1)  BY <2>1, <3>2
      <4>2. F(k - 1) <= L(k - 1) /\ F(k) \in Nat  BY <4>1, <2>4
      <4>3. ~(F(k - 1) <= y /\ y <= L(k - 1))  BY <4>1, <2>7
      <4>4. first = F(k) + 1  BY <3>1, <3>2
      <4>. QED  BY <4>2, <4>3, <4>4, <3>2, <2>5, <2>7, <2>4, <4>1
    <3>3. CASE ~(k > 1 /\ F(k) = L(k - 1))
      <4>1. first = F(k) /\ F(k) \in Nat  BY <3>1, <3>3, <2>4
      <4>. QED  BY <4>1, <2>7
    <3>. QED  BY <3>2, <3>3
  <2> DEFINE t == y - first
             at == y * PageSize + w.base
  <2>9. n \in Nat /\ t \in 0 .. n - 1 /\ first + t = y
    <3>1. L(k) \in Nat /\ n = L(k) + 1 - first  BY <2>4 DEF L
    <3>. QED  BY <3>1, <2>5, <2>7, <2>8
  <2> HIDE DEF first, n, t
  <2>10. /\ Erases(w) = N /\ t + 3 \in 1 .. Len(Erasing(w)[k].steps)
         /\ Erasing(w)[k].steps[t + 3] = PageErase(y * PageSize + w.base)
    <3>1. /\ Erases(w) = N
          /\ \A u \in 0 .. n - 1 : /\ u + 3 \in 1 .. Len(Erasing(w)[k].steps)
                                   /\ Erasing(w)[k].steps[u + 3]
                                        = PageErase((first + u) * PageSize + w.base)
      BY <1>2, <2>7, ErasingPages DEF first, n, N
    <3>. QED  BY <3>1, <2>9
  <2>11. at \in Nat /\ at <= cell /\ at < AddressSpace
    <3>1. AddressSpace \in Nat  BY DEF AddressSpace
    <3> HIDE DEF AddressSpace
    <3>. QED  BY <3>1, <2>2, <2>3, <2>5
  <2>12. PageErase(at).do = "page" /\ PageErase(at).at = at
    BY <2>11, SentFacts DEF PageErase
  <2>13. b \in Nat /\ w.base = b * PageSize /\ b * PageSize \in Nat
    <3>1. b \in Nat /\ w.base = b * PageSize + (w.base % PageSize)
      BY <2>1, <2>2, DivFacts DEF b
    <3>2. w.base % PageSize = 0  BY <1>2 DEF Aligned
    <3>3. b * PageSize \in Nat  BY <2>1, <3>1, ProductFacts
    <3>. QED  BY <3>1, <3>2, <3>3
  <2>14. cell \div PageSize = y + b
    <3>1. (d + b * PageSize) \div PageSize = d \div PageSize + b  BY <2>1, <2>3, <2>13, DivShift
    <3>. QED  BY <3>1, <2>3, <2>13 DEF y
  <2>15. at = (y + b) * PageSize /\ y + b \in Nat
    <3>1. (y + b) * PageSize = y * PageSize + b * PageSize  BY <2>1, <2>5, <2>13, ProductFacts
    <3>. QED  BY <3>1, <2>5, <2>13
  <2>16. at \in Flash  BY <2>14, <2>15, TargetAssumption
  <2>17. at \div PageSize = y + b
    <3>1. (y + b) * PageSize <= at /\ at < (y + b) * PageSize + PageSize  BY <2>1, <2>11, <2>15
    <3>. QED  BY <3>1, <2>1, <2>11, <2>15, DivIs
  <2>18. cell \in PageOf(at)  BY <2>14, <2>17 DEF PageOf
  <2> HIDE DEF at, cell
  <2>19. Blanks(PageErase(at), cell)
    <3>1. cell \in Flash  BY DEF cell
    <3>. QED  BY <3>1, <2>12, <2>16, <2>18 DEF Blanks
  <2>20. Erasing(w)[k].steps[t + 3] = PageErase(at)  BY <2>10 DEF at
  <2>21. k \in 1 .. Erases(w)  BY <2>7, <2>10
  <2>. QED  BY <2>10, <2>19, <2>20, <2>21 DEF cell
<1>. QED  BY <1>1, <1>2

\* What the page erases of a plan reach are pages of its image
LEMMA PagesReached ==
  ASSUME NEW w \in WritePlans, Fits(w), w.type = "flash", w.erase = "page",
         NEW k \in 1 .. Erases(w), NEW s \in 1 .. Len(Erasing(w)[k].steps),
         NEW x, x = Erasing(w)[k].steps[s], x.do = "page", x.at \in Cells
  PROVE  x.at \in PageStarts(w)
<1> DEFINE N == Len(w.image)
           f == FirstPage(w.image[k])
           l == LastPage(w.image[k])
           first == FirstToErase(w.image, k)
           n == l + 1 - first
           t == s - 3
           y == first + t
           a == w.image[k].address
           z == Size(w.image[k])
           at == y * PageSize + w.base
<1>1. N \in Nat /\ Erases(w) = N /\ w \in ImagePlans
  <2>1. Erasing(w) = PageErases(w)  BY DEF Erasing
  <2>. QED  BY <2>1, PlanNumbers, PageErasesFacts DEF Erases, ImagePlans
<1>2. k \in 1 .. N  BY <1>1
<1>3. /\ f \in Nat /\ l \in Nat /\ first \in {f, f + 1} /\ f <= l /\ n \in Nat
  BY <1>2, SectionPages
<1>4. /\ a \in Nat /\ z \in Nat \ {0} /\ w.base \in Nat /\ PageSize \in Nat \ {0}
  BY <1>1, <1>2, SectionFacts, TargetAssumption
<1>5. /\ Erases(w) = Len(w.image) /\ Len(Erasing(w)[k].steps) = n + 3
      /\ \A u \in 0 .. n - 1 : /\ u + 3 \in 1 .. Len(Erasing(w)[k].steps)
                               /\ Erasing(w)[k].steps[u + 3]
                                    = PageErase((first + u) * PageSize + w.base)
      /\ \A r \in 1 .. Len(Erasing(w)[k].steps) :
           Erasing(w)[k].steps[r].do = "page" => r - 3 \in 0 .. n - 1
  BY <1>2, ErasingPages
<1>6. f = a \div PageSize /\ l = (a + z - 1) \div PageSize  BY DEF FirstPage, LastPage
<1>7. a + z - 1 \in Nat  BY <1>4
<1> HIDE DEF N, f, l, first, n, a, z
<1>8. t \in 0 .. n - 1 /\ t + 3 = s  BY <1>5
<1>9. x = PageErase(at)
  <2>1. Erasing(w)[k].steps[t + 3] = PageErase((first + t) * PageSize + w.base)
    BY <1>5, <1>8
  <2>. QED  BY <1>8, <2>1
<1>10. f <= y /\ y <= l /\ y \in Nat
  <2>1. n = l + 1 - first  BY DEF n
  <2>. QED  BY <1>3, <1>8, <2>1
<1> HIDE DEF t, y
<1>11. y * PageSize \in Nat /\ at \in Nat
  <2>1. y * PageSize \in Nat  BY <1>4, <1>10, ProductFacts
  <2>. QED  BY <2>1, <1>4
\* A cell of the section in the page
<1>12. \E d \in Nat : a <= d /\ d <= a + z - 1 /\ y * PageSize <= d /\ d < y * PageSize + PageSize
  <2>1. /\ a % PageSize \in Nat /\ a % PageSize < PageSize /\ a = f * PageSize + (a % PageSize)
        /\ f * PageSize \in Nat
    BY <1>3, <1>4, <1>6, DivFacts, ProductFacts
  <2>2. CASE y = f
    <3>1. a \in Nat /\ a <= a /\ a <= a + z - 1 /\ y * PageSize <= a
          /\ a < y * PageSize + PageSize
      BY <1>4, <2>1, <2>2
    <3>. QED  BY <3>1
  <2>3. CASE y # f
    <3>1. f * PageSize + PageSize <= y * PageSize  BY <1>3, <1>4, <1>10, <2>3, ProductFacts
    <3>2. y * PageSize <= l * PageSize /\ l * PageSize \in Nat
      BY <1>3, <1>4, <1>10, ProductFacts
    <3>3. (a + z - 1) % PageSize \in Nat
          /\ a + z - 1 = l * PageSize + ((a + z - 1) % PageSize)
      BY <1>4, <1>6, <1>7, DivFacts
    <3>4. y * PageSize < y * PageSize + PageSize  BY <1>4, <1>11
    <3>5. f * PageSize + (a % PageSize) <= f * PageSize + PageSize  BY <1>4, <2>1
    <3>6. a <= y * PageSize  BY <1>4, <1>11, <2>1, <3>1, <3>5
    <3>7. l * PageSize <= a + z - 1  BY <1>7, <3>2, <3>3
    <3>8. y * PageSize <= a + z - 1  BY <1>7, <1>11, <3>2, <3>7
    <3>. QED  BY <1>11, <3>4, <3>6, <3>8
  <2>. QED  BY <2>2, <2>3
<1>13. PICK d \in Nat : /\ a <= d /\ d <= a + z - 1
                        /\ y * PageSize <= d /\ d < y * PageSize + PageSize
  BY <1>12
<1> DEFINE i == d - a + 1
           p == <<k, i>>
<1>14. i \in 1 .. z /\ w.base + a + i - 1 = w.base + d  BY <1>4, <1>13
<1>15. p \in Places(w) /\ Where(w, p) = w.base + d
  BY <1>2, <1>14, IsPlace DEF a, z, N
<1> HIDE DEF i, p
<1>16. at <= Where(w, p) /\ Where(w, p) < at + PageSize  BY <1>4, <1>11, <1>13, <1>15
<1>17. at < AddressSpace
  <2>1. Where(w, p) < AddressSpace /\ Where(w, p) \in Nat  BY <1>15, PlaceFacts
  <2>2. AddressSpace \in Nat  BY DEF AddressSpace
  <2> HIDE DEF AddressSpace
  <2>. QED  BY <2>1, <2>2, <1>11, <1>16
<1>18. at % PageSize = w.base % PageSize
  <2>1. (w.base + y * PageSize) % PageSize = w.base % PageSize  BY <1>4, <1>10, ModShift
  <2>2. at = w.base + y * PageSize  BY <1>4, <1>11
  <2>. QED  BY <2>1, <2>2
<1> HIDE DEF at
<1>19. x.at = at  BY <1>9, <1>11, <1>17, SentFacts DEF PageErase
<1>20. at \in Cells  BY <1>19
<1>. QED  BY <1>15, <1>16, <1>18, <1>19, <1>20 DEF PageStarts

\* What the steps of a plan may be
PlanStep(w, c, j, s, x) ==
  /\ At(w, c, j, s - 1, x) /\ s - 1 \in Nat /\ x \in Steps
  /\ x.do = "chip" => w.type = "flash" /\ w.erase = "chip"
  /\ x.do = "page" => /\ w.type = "flash" /\ w.erase = "page" /\ j \in 1 .. Erases(w)
                      /\ s \in 1 .. Len(Erasing(w)[j].steps) /\ x = Erasing(w)[j].steps[s]
  /\ x.do = "select" /\ x.cmd = "EEERWR" => w.type = "eeprom"
  /\ x.do \in {"put", "putat"} => c.cmd \in {CMD_SENDBLOCK, CMD_SENDBYTE}
  /\ c.cmd = CMD_FLASH_PAGE_ERASE => AtPages(w, c, j, s - 1, x)

LEMMA PlanSteps ==
  ASSUME NEW w \in WritePlans, NEW P, P = WriteCalls(w), NEW j \in 1 .. Len(P),
         NEW s \in 1 .. Len(P[j].steps), NEW x, x = P[j].steps[s]
  PROVE  PlanStep(w, P[j], j, s, x)
<1> DEFINE i == s - 1
<1>1. P \in Seq(CallRecords) /\ Len(P) \in Nat /\ \A m \in 1 .. Erases(w) : P[m] = Erasing(w)[m]
  BY PlanFacts
<1>2. Len(P[j].steps) \in Nat \ {0} /\ x \in Steps  BY <1>1, CallFacts
<1>3. i \in Nat /\ i + 1 = s  BY <1>2
<1>4. At(w, P[j], j, i, x)  BY <1>3, Regions
<1> HIDE DEF i
<1>5. CASE AtPages(w, P[j], j, i, x)
  <2>1. j \in 1 .. Erases(w) /\ w.type = "flash" /\ w.erase = "page"
    BY <1>1, <1>5, PlanNumbers DEF AtPages
  <2>2. P[j] = Erasing(w)[j]  BY <1>1, <2>1
  <2>3. x = Select("NOOP") \/ x = Select("FLPER") \/ x.do = "page"
    BY <1>3, <1>5 DEF AtPages
  <2>4. x.do = "page" \/ (x.do = "select" /\ x.cmd \in {"NOOP", "FLPER"})
    BY <2>3 DEF Select
  <2>. QED  BY <1>2, <1>3, <1>4, <1>5, <2>1, <2>2, <2>4 DEF i, PlanStep
<1>6. CASE P[j].cmd # CMD_FLASH_PAGE_ERASE
  <2>1. CASE AtChip(w, P[j], j, i, x)
    <3>1. x.do = "chip" /\ w.type = "flash" /\ w.erase = "chip"  BY <2>1 DEF AtChip
    <3>. QED  BY <3>1, <1>2, <1>3, <1>4, <1>6 DEF i, PlanStep
  <2>2. CASE AtBaud(w, P[j], j, i, x)
    <3>1. x.do = "baud"  BY <2>2 DEF AtBaud, Baud
    <3>. QED  BY <3>1, <1>2, <1>3, <1>4, <1>6 DEF i, PlanStep
  <2>3. CASE AtEnable(w, P[j], j, i, x)
    <3>1. \/ x.do = "waits"
          \/ x.do = "select" /\ (x.cmd = "EEERWR" => w.type = "eeprom")
      BY <2>3 DEF AtEnable, Select, Waits
    <3>. QED  BY <3>1, <1>2, <1>3, <1>4, <1>6 DEF i, PlanStep
  <2>4. CASE \E k \in 1 .. Len(w.image) : AtPoint(w, P[j], j, i, x, k)
    <3>1. x.do = "point"  BY <2>4 DEF AtPoint, Point
    <3>. QED  BY <3>1, <1>2, <1>3, <1>4, <1>6 DEF i, PlanStep
  <2>5. CASE \E k \in 1 .. Len(w.image) : AtData(w, P[j], j, i, x, k)
    <3>1. x.do \in {"put", "putat"} /\ P[j].cmd \in {CMD_SENDBLOCK, CMD_SENDBYTE}
      BY <2>5 DEF AtData, Put, PutAt
    <3>. QED  BY <3>1, <1>2, <1>3, <1>4, <1>6 DEF i, PlanStep
  <2>6. CASE AtEnd(w, P[j], j, i, x)
    <3>1. \/ x.do \in {"waits", "baud", "point", "get"}
          \/ x.do = "select" /\ x.cmd = "NONE"
      BY <2>6 DEF AtEnd, Closing
    <3>. QED  BY <3>1, <1>2, <1>3, <1>4, <1>6 DEF i, PlanStep
  <2>. QED  BY <1>4, <1>5, <2>1, <2>2, <2>3, <2>4, <2>5, <2>6 DEF At
<1>. QED  BY <1>4, <1>5, <1>6 DEF At

LEMMA PlanIsLawful ==
  ASSUME NEW w \in WritePlans
  PROVE  AllLawful(w, WriteCalls(w))
<1> DEFINE P == WriteCalls(w)
<1> SUFFICES ASSUME NEW j \in 1 .. Len(P), NEW s \in 1 .. Len(P[j].steps)
             PROVE  Lawful(w, P[j].steps[s])
  BY DEF AllLawful
<1> DEFINE x == P[j].steps[s]
<1>1. P = WriteCalls(w) /\ x = P[j].steps[s]  OBVIOUS
<1> HIDE DEF P, x
<1>2. /\ x.do = "chip" => w.type = "flash" /\ w.erase = "chip"
      /\ x.do = "page" => /\ w.type = "flash" /\ w.erase = "page" /\ j \in 1 .. Erases(w)
                          /\ s \in 1 .. Len(Erasing(w)[j].steps) /\ x = Erasing(w)[j].steps[s]
  <2>1. PlanStep(w, P[j], j, s, x)  BY <1>1, PlanSteps
  <2>. QED  BY <2>1 DEF PlanStep
<1>3. w.tag = "W"  BY DEF WritePlans
<1>4. CASE ~Fits(w)
  <2>1. Footprint(w) = Cells  BY <1>3, <1>4 DEF Footprint
  <2>. QED  BY <2>1 DEF Lawful, Cells, PageOf, x
<1>5. CASE Fits(w)
  <2>1. ASSUME x.do = "chip"  PROVE Flash \cup Eeprom \subseteq Footprint(w)
    BY <1>2, <1>3, <1>5, <2>1 DEF Footprint
  <2>2. ASSUME x.do = "page"
        PROVE  /\ x.at \in Flash => PageOf(x.at) \subseteq Footprint(w)
               /\ x.at \in Ram => x.at \in Footprint(w)
    <3>1. w.type = "flash" /\ w.erase = "page"  BY <1>2, <2>2
    <3>2. Pages(w) \subseteq Footprint(w)  BY <1>3, <1>5, <3>1 DEF Footprint
    <3>3. x.at \in Flash \cup Ram => x.at \in PageStarts(w)
      BY <1>2, <1>5, <2>2, PagesReached DEF Cells
    <3>4. x.at \in Flash => PageOf(x.at) \subseteq Pages(w)  BY <3>3 DEF Pages
    <3>5. x.at \in Ram => x.at \in Pages(w)
      <4> DEFINE R == UNION {PageOf(c) : c \in PageStarts(w) \cap Flash}
      <4>1. Pages(w) = R \cup (PageStarts(w) \cap Ram)  BY DEF Pages
      <4> HIDE DEF R
      <4>. QED  BY <3>3, <4>1
    <3>. QED  BY <3>2, <3>4, <3>5
  <2>. QED  BY <2>1, <2>2 DEF Lawful, x
<1>. QED  BY <1>4, <1>5

LEMMA PlanIsGuarded ==
  ASSUME NEW w \in WritePlans
  PROVE  Guarded(WriteCalls(w), "NONE")
<1> DEFINE P == WriteCalls(w)
<1>1. P = WriteCalls(w)  OBVIOUS
<1> HIDE DEF P
<1>2. ASSUME NEW j \in 1 .. Len(P), NEW s \in 1 .. Len(P[j].steps)
      PROVE  /\ P[j].steps[s].do = "page" => w.type = "flash"
             /\ P[j].steps[s].do = "select" /\ P[j].steps[s].cmd = "EEERWR" => w.type = "eeprom"
  <2> DEFINE x == P[j].steps[s]
  <2>1. x = P[j].steps[s]  OBVIOUS
  <2> HIDE DEF x
  <2>2. PlanStep(w, P[j], j, s, x)  BY <1>1, <2>1, PlanSteps
  <2>. QED  BY <2>2 DEF PlanStep, x
<1>3. CASE w.type = "flash"
  <2>1. Free(P, EepromSel)
    <3>1. \A x \in EepromSel : x.do = "select" /\ x.cmd = "EEERWR"  BY DEF EepromSel
    <3>. QED  BY <1>2, <1>3, <3>1 DEF Free, Has
  <2>. QED  BY <1>1, <2>1 DEF Guarded
<1>4. CASE w.type # "flash"
  <2>1. Free(P, Erasers)
    <3>1. \A x \in Erasers : x.do = "page"  BY DEF Erasers
    <3>. QED  BY <1>2, <1>4, <3>1 DEF Free, Has
  <2>. QED  BY <1>1, <2>1 DEF Guarded
<1>. QED  BY <1>3, <1>4

-------------------------------------------------------------------------------
(* Moving on in the plan *)

\* What the step x has done
Did(x) ==
  /\ x.do = "reset"  => nvm' = "NONE" /\ mem' = mem /\ rate' = rate /\ waits' = waits
  /\ x.do = "baud"   => /\ rate' = ActualRate(x.to)
                        /\ mem' = mem /\ nvm' = nvm /\ ptr' = ptr /\ waits' = waits
  /\ x.do = "select" => /\ nvm' = Selected(x.cmd)
                        /\ mem' = mem /\ ptr' = ptr /\ rate' = rate /\ waits' = waits
  /\ x.do = "waits"  => /\ waits' = x.on
                        /\ mem' = mem /\ nvm' = nvm /\ ptr' = ptr /\ rate' = rate
  /\ x.do = "page"   => /\ mem' \in Stored(x.at, Blank, FALSE)
                        /\ nvm' = nvm /\ ptr' = ptr /\ rate' = rate /\ waits' = waits
  /\ x.do = "chip"   => /\ mem' \in ChipErased /\ nvm' = "NONE"
                        /\ ptr' = ptr /\ rate' = rate /\ waits' = waits
  /\ x.do = "point"  => /\ ptr' = x.at
                        /\ mem' = mem /\ nvm' = nvm /\ rate' = rate /\ waits' = waits
  /\ x.do = "put"    => /\ mem' \in Stored(ptr, x.byte, ~Slow(rate)) /\ ptr' = ptr + 1
                        /\ nvm' = nvm /\ rate' = rate /\ waits' = waits
  /\ x.do = "putat"  => /\ mem' \in Stored(x.at, x.byte, ~waits)
                        /\ nvm' = nvm /\ ptr' = ptr /\ rate' = rate /\ waits' = waits
  /\ x.do = "get"    => mem' = mem /\ nvm' = nvm /\ rate' = rate /\ waits' = waits

LEMMA EffectDid == ASSUME Effect  PROVE Busy /\ Did(Step)
<1>0. Busy /\ Does(Step)  BY DEF Effect
<1>1. CASE ResetTarget(Step)  BY <1>0, <1>1 DEF ResetTarget, Did
<1>2. CASE SetRate(Step)  BY <1>0, <1>2 DEF SetRate, Did, tgtVars
<1>3. CASE SelectNvmCommand(Step)  BY <1>0, <1>3 DEF SelectNvmCommand, Did
<1>4. CASE SetNvmWrite(Step)  BY <1>0, <1>4 DEF SetNvmWrite, Did, tgtVars
<1>5. CASE DummyWrite(Step)  BY <1>0, <1>5 DEF DummyWrite, Did
<1>6. CASE EraseAll(Step)  BY <1>0, <1>6 DEF EraseAll, Did
<1>7. CASE SetPointer(Step)  BY <1>0, <1>7 DEF SetPointer, Did
<1>8. CASE StoreNext(Step)  BY <1>0, <1>8 DEF StoreNext, Did
<1>9. CASE StoreByte(Step)  BY <1>0, <1>9 DEF StoreByte, Did
<1>10. CASE Load(Step)  BY <1>0, <1>10 DEF Load, Did
<1>. QED  BY <1>0, <1>1, <1>2, <1>3, <1>4, <1>5, <1>6, <1>7, <1>8, <1>9, <1>10 DEF Does

\* The next step of the plan is x
Nears(w, P, j, i, x) ==
  /\ w \in WritePlans /\ P = WriteCalls(w) /\ j \in 1 .. Len(P)
  /\ i \in Nat /\ i + 1 \in 1 .. Len(P[j].steps) /\ x = P[j].steps[i + 1]

\* The place behind it is <<q, r>>
Moves(P, j, i, q, r) ==
  /\ i \in Nat /\ j \in Nat /\ Len(P[j].steps) \in Nat
  /\ \/ q = j /\ r = i + 1 /\ i + 1 < Len(P[j].steps)
     \/ q = j + 1 /\ r = 0 /\ i + 1 = Len(P[j].steps)

LEMMA NextFacts ==
  ASSUME NEW w, NEW P, NEW j, NEW i, NEW x, Nears(w, P, j, i, x)
  PROVE  /\ w \in WritePlans /\ P \in Seq(CallRecords) /\ x \in Steps
         /\ At(w, P[j], j, i, x)
         /\ Moves(P, j, i, NextCall(P, j, i), NextStep(P, j, i))
<1>1. /\ w \in WritePlans /\ P = WriteCalls(w) /\ j \in 1 .. Len(P)
      /\ i \in Nat /\ i + 1 \in 1 .. Len(P[j].steps) /\ x = P[j].steps[i + 1]
  BY DEF Nears
<1>2. P \in Seq(CallRecords) /\ Len(P) \in Nat  BY <1>1, PlanFacts
<1>3. Len(P[j].steps) \in Nat /\ x \in Steps  BY <1>1, <1>2, CallFacts
<1>4. At(w, P[j], j, i, x)  BY <1>1, Regions
<1>5. Moves(P, j, i, NextCall(P, j, i), NextStep(P, j, i))
  BY <1>1, <1>2, <1>3 DEF Moves, NextCall, NextStep
<1>. QED  BY <1>1, <1>2, <1>3, <1>4, <1>5

\* Which calls come first
LEMMA Order ==
  ASSUME NEW w \in WritePlans
  PROVE  /\ Erases(w) \in Nat /\ Before(w) \in Nat /\ Filled(w) \in Nat
         /\ Erases(w) <= Before(w) /\ Before(w) <= Filled(w)
         /\ w.baud # 0 => Erases(w) + 1 <= Before(w)
         /\ w.type # "ram" => Erases(w) + 1 <= Before(w)
         /\ w.baud # 0 /\ w.type # "ram" => Erases(w) + 2 <= Before(w)
         /\ \A k \in 1 .. Len(w.image) :
              /\ Filling(w, k) \in Nat /\ Filling(w, k) <= Filled(w)
              /\ Before(w) + 1 <= Filling(w, k)
              /\ w.type # "eeprom" => Before(w) + 2 <= Filling(w, k)
         /\ \A k, l \in 1 .. Len(w.image) :
              /\ Filling(w, k) = Filling(w, l) => k = l
              /\ w.type # "eeprom" => Filling(w, k) # Filling(w, l) + 1
<1> DEFINE n == Len(w.image)
<1>1. /\ Erases(w) \in Nat /\ Overridden(w) \in {0, 1} /\ Enabled(w) \in {0, 1}
      /\ Before(w) \in Nat /\ Each(w) \in {1, 2} /\ n \in Nat
      /\ Before(w) = Erases(w) + Overridden(w) + Enabled(w)
      /\ \A k \in 0 .. n : /\ Filling(w, k) \in Nat /\ Before(w) <= Filling(w, k)
                           /\ Filling(w, k) <= Filled(w)
      /\ Filled(w) \in Nat /\ Before(w) <= Filled(w)
      /\ \A k, l \in 0 .. n : k < l => Filling(w, k) + Each(w) <= Filling(w, l)
      /\ Filling(w, 0) = Before(w)
  BY PlanNumbers
<1>2. /\ w.baud # 0 => Overridden(w) = 1
      /\ w.type # "ram" => Enabled(w) = 1
      /\ w.type # "eeprom" => Each(w) = 2
  BY DEF Overridden, Enabled, Each
<1> HIDE DEF n
<1>3. Erases(w) <= Before(w) /\ (w.baud # 0 => Erases(w) + 1 <= Before(w))
  BY <1>1, <1>2
<1>4. /\ w.type # "ram" => Erases(w) + 1 <= Before(w)
      /\ w.baud # 0 /\ w.type # "ram" => Erases(w) + 2 <= Before(w)
  BY <1>1, <1>2
<1>5. ASSUME NEW k \in 1 .. n
      PROVE  /\ Filling(w, k) \in Nat /\ Filling(w, k) <= Filled(w)
             /\ Before(w) + 1 <= Filling(w, k)
             /\ w.type # "eeprom" => Before(w) + 2 <= Filling(w, k)
  <2>1. 0 \in 0 .. n /\ k \in 0 .. n /\ 0 < k  BY <1>1
  <2>2. Before(w) + Each(w) <= Filling(w, k) /\ Filling(w, k) \in Nat
        /\ Filling(w, k) <= Filled(w)
    BY <1>1, <2>1
  <2>. QED  BY <1>1, <1>2, <2>2
<1>6. ASSUME NEW k \in 1 .. n, NEW l \in 1 .. n
      PROVE  /\ Filling(w, k) = Filling(w, l) => k = l
             /\ w.type # "eeprom" => Filling(w, k) # Filling(w, l) + 1
  <2>1. k \in 0 .. n /\ l \in 0 .. n /\ k \in Nat /\ l \in Nat  BY <1>1
  <2>2. /\ k < l => Filling(w, k) + Each(w) <= Filling(w, l)
        /\ l < k => Filling(w, l) + Each(w) <= Filling(w, k)
        /\ Filling(w, k) \in Nat /\ Filling(w, l) \in Nat
    BY <1>1, <2>1
  <2>3. CASE k = l  BY <2>2, <2>3
  <2>4. CASE k < l  BY <1>1, <1>2, <2>2, <2>4
  <2>5. CASE l < k  BY <1>1, <1>2, <2>2, <2>5
  <2>. QED  BY <2>1, <2>3, <2>4, <2>5
<1>. QED  BY <1>1, <1>3, <1>4, <1>5, <1>6 DEF n

\* Which calls a step belongs to
LEMMA Sites ==
  ASSUME NEW w, NEW P, NEW j, NEW i, NEW x, Nears(w, P, j, i, x)
  PROVE  /\ x.do = "chip" => AtChip(w, P[j], j, i, x)
         /\ x.do = "page" => AtPages(w, P[j], j, i, x) /\ i > 1
         /\ x.do = "baud" => AtBaud(w, P[j], j, i, x) \/ j > Filled(w)
         /\ x.do = "waits" => AtEnable(w, P[j], j, i, x) \/ j > Filled(w)
         /\ x.do \in {"put", "putat"} => \E k \in 1 .. Len(w.image) : AtData(w, P[j], j, i, x, k)
         /\ x.do = "point" =>
              (\E k \in 1 .. Len(w.image) : AtPoint(w, P[j], j, i, x, k)) \/ j > Filled(w)
         /\ x.do = "get" => j > Filled(w)
         /\ x.do = "select" => \/ AtPages(w, P[j], j, i, x) \/ AtEnable(w, P[j], j, i, x)
                               \/ j > Filled(w) /\ x.cmd = "NONE"
         /\ x.do # "reset"
<1>1. At(w, P[j], j, i, x) /\ i \in Nat  BY NextFacts DEF Nears
<1>2. CASE AtPages(w, P[j], j, i, x)
  <2>1. \/ x.do = "page" /\ i > 1
        \/ x.do = "select"
    BY <1>1, <1>2 DEF AtPages, Select
  <2>. QED  BY <1>2, <2>1
<1>3. CASE AtChip(w, P[j], j, i, x)  BY <1>3 DEF AtChip
<1>4. CASE AtBaud(w, P[j], j, i, x)
  <2>1. x.do = "baud"  BY <1>4 DEF AtBaud, Baud
  <2>. QED  BY <1>4, <2>1
<1>5. CASE AtEnable(w, P[j], j, i, x)
  <2>1. x.do \in {"select", "waits"}  BY <1>5 DEF AtEnable, Select, Waits
  <2>. QED  BY <1>5, <2>1
<1>6. CASE \E k \in 1 .. Len(w.image) : AtPoint(w, P[j], j, i, x, k)
  <2>1. x.do = "point"  BY <1>6 DEF AtPoint, Point
  <2>. QED  BY <1>6, <2>1
<1>7. CASE \E k \in 1 .. Len(w.image) : AtData(w, P[j], j, i, x, k)
  <2>1. x.do \in {"put", "putat"}  BY <1>7 DEF AtData, Put, PutAt
  <2>. QED  BY <1>7, <2>1
<1>8. CASE AtEnd(w, P[j], j, i, x)  BY <1>8 DEF AtEnd, Closing
<1>. QED  BY <1>1, <1>2, <1>3, <1>4, <1>5, <1>6, <1>7, <1>8 DEF At

\* The call that is completed
LEMMA Passed ==
  ASSUME NEW w, NEW P, NEW j, NEW i, NEW x, Nears(w, P, j, i, x), j <= Filled(w)
  PROVE  /\ j <= Erases(w) <=> AtPages(w, P[j], j, i, x) \/ AtChip(w, P[j], j, i, x)
         /\ w.baud # 0 => (j = Erases(w) + 1 <=> AtBaud(w, P[j], j, i, x))
         /\ w.type # "ram" => (j = Before(w) <=> AtEnable(w, P[j], j, i, x))
         /\ j > Before(w) <=>
              \E k \in 1 .. Len(w.image) : AtPoint(w, P[j], j, i, x, k) \/ AtData(w, P[j], j, i, x, k)
<1>1. /\ At(w, P[j], j, i, x) /\ w \in WritePlans /\ j \in Nat
  <2>1. At(w, P[j], j, i, x) /\ w \in WritePlans /\ P \in Seq(CallRecords)  BY NextFacts
  <2>2. j \in 1 .. Len(P)  BY DEF Nears
  <2>. QED  BY <2>1, <2>2, LenProperties
<1>2. /\ Erases(w) \in Nat /\ Before(w) \in Nat /\ Filled(w) \in Nat
      /\ Erases(w) <= Before(w) /\ Before(w) <= Filled(w)
      /\ w.baud # 0 => Erases(w) + 1 <= Before(w)
      /\ w.type # "ram" => Erases(w) + 1 <= Before(w)
      /\ w.baud # 0 /\ w.type # "ram" => Erases(w) + 2 <= Before(w)
      /\ \A k \in 1 .. Len(w.image) :
           /\ Filling(w, k) \in Nat /\ Filling(w, k) <= Filled(w)
           /\ Before(w) + 1 <= Filling(w, k)
           /\ w.type # "eeprom" => Before(w) + 2 <= Filling(w, k)
  BY <1>1, Order
<1>3. AtPages(w, P[j], j, i, x) \/ AtChip(w, P[j], j, i, x) => j <= Erases(w)
  BY <1>1 DEF AtPages, AtChip
<1>4. AtBaud(w, P[j], j, i, x) => j = Erases(w) + 1 /\ w.baud # 0  BY DEF AtBaud
<1>5. AtEnable(w, P[j], j, i, x) => j = Before(w) /\ w.type # "ram"  BY DEF AtEnable
<1>6. ASSUME NEW k \in 1 .. Len(w.image),
             AtPoint(w, P[j], j, i, x, k) \/ AtData(w, P[j], j, i, x, k)
      PROVE  j > Before(w)
  <2>1. CASE AtPoint(w, P[j], j, i, x, k)
    <3>1. w.type # "eeprom" /\ j = Filling(w, k) - 1  BY <2>1 DEF AtPoint
    <3>. QED  BY <3>1, <1>2
  <2>2. CASE AtData(w, P[j], j, i, x, k)
    <3>1. j = Filling(w, k)  BY <2>2 DEF AtData
    <3>. QED  BY <3>1, <1>2
  <2>. QED  BY <1>6, <2>1, <2>2
<1>7. \/ AtPages(w, P[j], j, i, x) \/ AtChip(w, P[j], j, i, x) \/ AtBaud(w, P[j], j, i, x)
      \/ AtEnable(w, P[j], j, i, x)
      \/ \E k \in 1 .. Len(w.image) : AtPoint(w, P[j], j, i, x, k) \/ AtData(w, P[j], j, i, x, k)
  <2>1. ~AtEnd(w, P[j], j, i, x)  BY <1>1, <1>2 DEF AtEnd
  <2>. QED  BY <1>1, <2>1 DEF At
<1> DEFINE pages == AtPages(w, P[j], j, i, x) \/ AtChip(w, P[j], j, i, x)
           baud == AtBaud(w, P[j], j, i, x)
           enable == AtEnable(w, P[j], j, i, x)
           data == \E k \in 1 .. Len(w.image) :
                     AtPoint(w, P[j], j, i, x, k) \/ AtData(w, P[j], j, i, x, k)
<1>8. /\ pages \/ baud \/ enable \/ data
      /\ pages => j <= Erases(w)
      /\ baud => j = Erases(w) + 1 /\ w.baud # 0
      /\ enable => j = Before(w) /\ w.type # "ram"
      /\ data => j > Before(w)
  BY <1>3, <1>4, <1>5, <1>6, <1>7
<1> HIDE DEF pages, baud, enable, data
<1>9. /\ j <= Erases(w) <=> pages
      /\ w.baud # 0 => (j = Erases(w) + 1 <=> baud)
      /\ w.type # "ram" => (j = Before(w) <=> enable)
      /\ j > Before(w) <=> data
  BY <1>1, <1>2, <1>8
<1>. QED  BY <1>9 DEF pages, baud, enable, data

LEMMA RateMoves ==
  ASSUME NEW w, NEW P, NEW j, NEW i, NEW x, Nears(w, P, j, i, x), Did(x),
         NEW q, NEW r, Moves(P, j, i, q, r), PlaceRate(w, j)
  PROVE  PlaceRate(w, q)'
<1>1. w \in WritePlans /\ x \in Steps  BY NextFacts
<1>2. j \in Nat /\ q \in {j, j + 1}  BY DEF Moves
<1>3. Erases(w) \in Nat /\ Filled(w) \in Nat  BY <1>1, Order
<1> SUFFICES ASSUME q <= Filled(w), w.baud = 0 \/ q > Erases(w) + 1
             PROVE  rate' = ActualRate(IF w.baud = 0 THEN NormalBaudrate ELSE w.baud)
  BY DEF PlaceRate
<1>4. j <= Filled(w)  BY <1>2, <1>3
<1>5. CASE x.do = "baud"
  <2>1. AtBaud(w, P[j], j, i, x)  BY <1>3, <1>2, <1>4, <1>5, Sites
  <2>2. x.to = w.baud /\ w.baud # 0  BY <2>1 DEF AtBaud, Baud
  <2>3. rate' = ActualRate(x.to)  BY <1>5 DEF Did
  <2>. QED  BY <2>2, <2>3
<1>6. CASE x.do # "baud"
  <2>1. rate' = rate  BY <1>1, <1>6, StepFacts DEF Did
  <2>2. w.baud # 0 => j # Erases(w) + 1
    <3> SUFFICES ASSUME w.baud # 0, j = Erases(w) + 1  PROVE FALSE
      OBVIOUS
    <3>1. AtBaud(w, P[j], j, i, x)  BY <1>4, Passed
    <3>. QED  BY <1>6, <3>1 DEF AtBaud, Baud
  <2>3. w.baud = 0 \/ j > Erases(w) + 1  BY <1>2, <1>3, <2>2
  <2>. QED  BY <1>4, <2>1, <2>3 DEF PlaceRate
<1>. QED  BY <1>5, <1>6

LEMMA WaitsMoves ==
  ASSUME NEW w, NEW P, NEW j, NEW i, NEW x, Nears(w, P, j, i, x), Did(x),
         NEW q, NEW r, Moves(P, j, i, q, r), PlaceWaits(w, j)
  PROVE  PlaceWaits(w, q)'
<1>1. w \in WritePlans /\ x \in Steps  BY NextFacts
<1>2. /\ j \in Nat /\ i \in Nat /\ Len(P[j].steps) \in Nat
      /\ q = j \/ (q = j + 1 /\ i + 1 = Len(P[j].steps))
  BY DEF Moves
<1>3. Before(w) \in Nat /\ Filled(w) \in Nat  BY <1>1, Order
<1> SUFFICES ASSUME w.type # "ram", q > Before(w), q <= Filled(w)
             PROVE  waits' = TRUE
  BY DEF PlaceWaits
<1>4. j <= Filled(w)  BY <1>2, <1>3
<1>5. CASE x.do = "waits"
  <2>1. AtEnable(w, P[j], j, i, x)  BY <1>3, <1>2, <1>4, <1>5, Sites
  <2>2. x.on = TRUE  BY <1>5, <2>1 DEF AtEnable, Select, Waits
  <2>3. waits' = x.on  BY <1>5 DEF Did
  <2>. QED  BY <2>2, <2>3
<1>6. CASE x.do # "waits"
  <2>1. waits' = waits  BY <1>1, <1>6, StepFacts DEF Did
  <2>2. j # Before(w)
    <3> SUFFICES ASSUME j = Before(w)  PROVE FALSE
      OBVIOUS
    <3>1. AtEnable(w, P[j], j, i, x)  BY <1>4, Passed
    <3>2. i + 1 = Len(P[j].steps)  BY <1>2, <1>3
    <3> DEFINE n == Len(P[j].steps)
    <3>3. \/ n = 3 /\ x = IF i = 0 THEN Select("NOOP")
                         ELSE IF i = 1 THEN Select("FLWR") ELSE Waits(TRUE)
          \/ n = 2 /\ x = IF i = 0 THEN Select("EEERWR") ELSE Waits(TRUE)
      BY <3>1 DEF AtEnable
    <3> HIDE DEF n
    <3>4. n = i + 1 /\ i \in Nat  BY <1>2, <3>2 DEF n
    <3>5. ASSUME n = 3  PROVE x = Waits(TRUE)
      <4>1. i = 2  BY <3>4, <3>5
      <4>. QED  BY <3>3, <3>5, <4>1
    <3>6. ASSUME n = 2  PROVE x = Waits(TRUE)
      <4>1. i = 1  BY <3>4, <3>6
      <4>. QED  BY <3>3, <3>6, <4>1
    <3>7. x = Waits(TRUE)  BY <3>3, <3>5, <3>6
    <3>. QED  BY <1>6, <3>7 DEF Waits
  <2>3. j > Before(w)  BY <1>2, <1>3, <2>2
  <2>. QED  BY <1>4, <2>1, <2>3 DEF PlaceWaits
<1>. QED  BY <1>5, <1>6

\* Nothing selects a command among the calls that fill the memory
LEMMA FillingLeavesNvm ==
  ASSUME NEW w, NEW P, NEW j, NEW i, NEW x, Nears(w, P, j, i, x), Did(x), j <= Filled(w),
         w.type = "ram" \/ j > Before(w)
  PROVE  nvm' = nvm
<1>1. w \in WritePlans /\ x \in Steps  BY NextFacts
<1>2. j \in Nat
  <2>1. P \in Seq(CallRecords) /\ j \in 1 .. Len(P)  BY NextFacts DEF Nears
  <2>. QED  BY <2>1, LenProperties
<1>3. Before(w) \in Nat /\ Filled(w) \in Nat /\ Erases(w) \in Nat /\ Erases(w) <= Before(w)
  BY <1>1, Order
<1>4. x.do # "select" /\ x.do # "chip"
  <2>1. CASE AtChip(w, P[j], j, i, x)
    <3>1. w.type = "flash" /\ j = Erases(w)  BY <2>1 DEF AtChip
    <3>. QED  BY <1>2, <1>3, <3>1
  <2>2. CASE AtPages(w, P[j], j, i, x)
    <3>1. w.type = "flash" /\ j <= Erases(w)  BY <2>2 DEF AtPages
    <3>. QED  BY <1>2, <1>3, <3>1
  <2>3. CASE AtEnable(w, P[j], j, i, x)
    <3>1. w.type # "ram" /\ j = Before(w)  BY <2>3 DEF AtEnable
    <3>. QED  BY <1>2, <1>3, <3>1
  <2>4. ~(j > Filled(w))  BY <1>2, <1>3
  <2>. QED  BY <2>1, <2>2, <2>3, <2>4, Sites
<1>5. x.do # "reset"  BY Sites
<1>. QED  BY <1>1, <1>4, <1>5, StepFacts DEF Did

LEMMA NvmMoves ==
  ASSUME NEW w, NEW P, NEW j, NEW i, NEW x, Nears(w, P, j, i, x), Did(x),
         NEW q, NEW r, Moves(P, j, i, q, r), PlaceNvm(w, j, i),
         x.do = "select" => nvm' = x.cmd
  PROVE  PlaceNvm(w, q, r)'
<1>1. w \in WritePlans /\ x \in Steps  BY NextFacts
<1>2. /\ j \in Nat /\ i \in Nat /\ Len(P[j].steps) \in Nat
      /\ \/ q = j /\ r = i + 1 /\ i + 1 < Len(P[j].steps)
         \/ q = j + 1 /\ r = 0 /\ i + 1 = Len(P[j].steps)
  BY DEF Moves
<1>3. /\ Before(w) \in Nat /\ Filled(w) \in Nat /\ Erases(w) \in Nat
      /\ Erases(w) <= Before(w) /\ Before(w) <= Filled(w)
  BY <1>1, Order
<1>4. ASSUME w.type = "ram", q <= Filled(w)  PROVE nvm' = "NONE"
  <2>1. j <= Filled(w)  BY <1>2, <1>3, <1>4
  <2>. QED  BY <1>4, <2>1, FillingLeavesNvm DEF PlaceNvm
<1>5. ASSUME w.type = "flash", q <= Erases(w), w.erase = "page", r >= 2
      PROVE  nvm' = "FLPER"
  <2>1. q = j /\ r = i + 1 /\ i + 1 < Len(P[j].steps) /\ j <= Erases(w) /\ j <= Filled(w)
    BY <1>2, <1>3, <1>5
  <2>2. AtPages(w, P[j], j, i, x)
    <3>1. AtPages(w, P[j], j, i, x) \/ AtChip(w, P[j], j, i, x)  BY <2>1, Passed
    <3>. QED  BY <1>5, <3>1 DEF AtChip
  <2>3. CASE i = 1
    <3>1. x.do = "select" /\ x.cmd = "FLPER"  BY <2>2, <2>3 DEF AtPages, Select
    <3>. QED  BY <3>1
  <2>4. CASE i # 1
    <3>1. i >= 2 /\ i > 1 /\ i + 1 # Len(P[j].steps)  BY <1>2, <1>5, <2>1, <2>4
    <3>2. x.do = "page"  BY <2>2, <3>1 DEF AtPages
    <3>3. nvm' = nvm  BY <3>2 DEF Did
    <3>. QED  BY <1>5, <2>1, <3>1, <3>3 DEF PlaceNvm
  <2>. QED  BY <2>3, <2>4
<1>6. ASSUME w.type = "flash", q <= Filled(w), Behind(Before(w), 2, q, r)
      PROVE  nvm' = "FLWR"
  <2>1. j <= Filled(w)  BY <1>2, <1>3, <1>6
  <2>2. j > Before(w) \/ (j = Before(w) /\ i >= 1)
    <3>1. CASE q = j /\ r = i + 1  BY <1>2, <1>3, <1>6, <3>1 DEF Behind
    <3>2. CASE q = j + 1 /\ r = 0 /\ i + 1 = Len(P[j].steps)
      <4>1. j >= Before(w)  BY <1>2, <1>3, <1>6, <3>2 DEF Behind
      <4>2. ASSUME j = Before(w)  PROVE i >= 1
        <5>1. AtEnable(w, P[j], j, i, x)  BY <1>6, <2>1, <4>2, Passed
        <5>2. Len(P[j].steps) = 3  BY <1>6, <5>1 DEF AtEnable
        <5>. QED  BY <1>2, <3>2, <5>2
      <4>. QED  BY <1>2, <1>3, <4>1, <4>2
    <3>. QED  BY <1>2, <3>1, <3>2
  <2>3. CASE j > Before(w)
    <3>1. Behind(Before(w), 2, j, i)  BY <2>3 DEF Behind
    <3>. QED  BY <1>6, <2>1, <2>3, <3>1, FillingLeavesNvm DEF PlaceNvm
  <2>4. CASE j = Before(w) /\ i >= 1
    <3>1. AtEnable(w, P[j], j, i, x)  BY <1>6, <2>1, <2>4, Passed
    <3>2. x = IF i = 0 THEN Select("NOOP") ELSE IF i = 1 THEN Select("FLWR") ELSE Waits(TRUE)
      BY <1>6, <3>1 DEF AtEnable
    <3>3. CASE i = 1
      <4>1. x.do = "select" /\ x.cmd = "FLWR"  BY <3>2, <3>3 DEF Select
      <4>. QED  BY <4>1
    <3>4. CASE i # 1
      <4>1. i >= 2 /\ i # 0  BY <1>2, <2>4, <3>4
      <4>2. x.do = "waits"  BY <3>2, <3>4, <4>1 DEF Waits
      <4>3. Behind(Before(w), 2, j, i)  BY <2>4, <4>1 DEF Behind
      <4>4. nvm' = nvm  BY <4>2 DEF Did
      <4>. QED  BY <1>6, <2>1, <4>3, <4>4 DEF PlaceNvm
    <3>. QED  BY <3>3, <3>4
  <2>. QED  BY <2>2, <2>3, <2>4
<1>7. ASSUME w.type = "eeprom", q <= Filled(w), Behind(Before(w), 1, q, r)
      PROVE  nvm' = "EEERWR"
  <2>1. j <= Filled(w)  BY <1>2, <1>3, <1>7
  <2>2. j > Before(w) \/ j = Before(w)  BY <1>2, <1>3, <1>7 DEF Behind
  <2>3. CASE j > Before(w)
    <3>1. Behind(Before(w), 1, j, i)  BY <2>3 DEF Behind
    <3>. QED  BY <1>7, <2>1, <2>3, <3>1, FillingLeavesNvm DEF PlaceNvm
  <2>4. CASE j = Before(w)
    <3>1. AtEnable(w, P[j], j, i, x)  BY <1>7, <2>1, <2>4, Passed
    <3>2. x = IF i = 0 THEN Select("EEERWR") ELSE Waits(TRUE)
      BY <1>7, <3>1 DEF AtEnable
    <3>3. CASE i = 0
      <4>1. x.do = "select" /\ x.cmd = "EEERWR"  BY <3>2, <3>3 DEF Select
      <4>. QED  BY <4>1
    <3>4. CASE i # 0
      <4>1. i >= 1  BY <1>2, <3>4
      <4>2. x.do = "waits"  BY <3>2, <3>4 DEF Waits
      <4>3. Behind(Before(w), 1, j, i)  BY <2>4, <4>1 DEF Behind
      <4>4. nvm' = nvm  BY <4>2 DEF Did
      <4>. QED  BY <1>7, <2>1, <4>3, <4>4 DEF PlaceNvm
    <3>. QED  BY <3>3, <3>4
  <2>. QED  BY <2>2, <2>3, <2>4
<1>. QED  BY <1>4, <1>5, <1>6, <1>7 DEF PlaceNvm

LEMMA PtrMoves ==
  ASSUME NEW w, NEW P, NEW j, NEW i, NEW x, Nears(w, P, j, i, x), Did(x), Fits(w),
         NEW q, NEW r, Moves(P, j, i, q, r), PlacePtr(w, j, i)
  PROVE  PlacePtr(w, q, r)'
<1>1. w \in WritePlans /\ x \in Steps /\ w \in ImagePlans  BY NextFacts DEF ImagePlans
<1>2. /\ j \in Nat /\ i \in Nat /\ Len(P[j].steps) \in Nat
      /\ \/ q = j /\ r = i + 1 /\ i + 1 < Len(P[j].steps)
         \/ q = j + 1 /\ r = 0 /\ i + 1 = Len(P[j].steps)
  BY DEF Moves
<1> SUFFICES ASSUME NEW k \in 1 .. Len(w.image), w.type # "eeprom", q = Filling(w, k)
             PROVE  ptr' = w.base + w.image[k].address + r
  BY DEF PlacePtr
<1>3. /\ Before(w) \in Nat /\ Filled(w) \in Nat
      /\ \A l \in 1 .. Len(w.image) :
           /\ Filling(w, l) \in Nat /\ Filling(w, l) <= Filled(w)
           /\ Before(w) + 1 <= Filling(w, l)
           /\ w.type # "eeprom" => Before(w) + 2 <= Filling(w, l)
      /\ \A l, m \in 1 .. Len(w.image) :
           /\ Filling(w, l) = Filling(w, m) => l = m
           /\ w.type # "eeprom" => Filling(w, l) # Filling(w, m) + 1
  BY <1>1, Order
<1>4. /\ w.base \in Nat /\ w.image \in Seq(Sections) /\ Len(w.image) \in Nat
      /\ w.image[k].address \in Nat /\ w.image[k].data \in Seq(Values)
      /\ Len(w.image[k].data) \in Nat \ {0} /\ Size(w.image[k]) \in Nat \ {0}
  BY <1>1, SectionFacts
<1>5. j <= Filled(w) /\ j > Before(w)  BY <1>2, <1>3
<1>6. PICK l \in 1 .. Len(w.image) : AtPoint(w, P[j], j, i, x, l) \/ AtData(w, P[j], j, i, x, l)
  BY <1>5, Passed
<1>7. CASE AtPoint(w, P[j], j, i, x, l)
  <2>1. j = Filling(w, l) - 1 /\ Len(P[j].steps) = 1 /\ x = Point(w.image[l].address + w.base)
    BY <1>7 DEF AtPoint
  <2>2. q = j + 1 /\ r = 0
    <3>1. ~(i + 1 < 1)  BY <1>2
    <3>. QED  BY <1>2, <2>1, <3>1
  <2>3. Filling(w, l) = Filling(w, k)  BY <1>3, <2>1, <2>2
  <2>4. l = k  BY <1>3, <2>3
  <2>5. x.do = "point" /\ x.at = Sent(w.image[k].address + w.base)  BY <2>1, <2>4 DEF Point
  <2>6. w.base + w.image[k].address + Size(w.image[k]) <= AddressSpace
    <3>1. k \in DOMAIN w.image  BY <1>4, LenProperties
    <3>. QED  BY <3>1 DEF Fits
  <2> DEFINE a == w.image[k].address + w.base
  <2>7. a \in Nat /\ a < AddressSpace /\ a = w.base + w.image[k].address + 0
    BY <1>4, <2>6 DEF AddressSpace
  <2> HIDE DEF a
  <2>8. Sent(a) = a  BY <2>7, SentFacts
  <2>9. ptr' = x.at  BY <2>5 DEF Did
  <2>. QED  BY <2>2, <2>5, <2>7, <2>8, <2>9 DEF a
<1>8. CASE AtData(w, P[j], j, i, x, l)
  <2>1. j = Filling(w, l) /\ x = Put(w.image[l].data[i + 1])  BY <1>8 DEF AtData
  <2>2. q = j /\ r = i + 1
    <3>1. q # j + 1  BY <1>3, <2>1
    <3>. QED  BY <1>2, <3>1
  <2>3. l = k  BY <1>3, <2>1, <2>2
  <2>4. ptr' = ptr + 1
    <3>1. x.do = "put"  BY <2>1 DEF Put
    <3>. QED  BY <3>1 DEF Did
  <2>5. ptr = w.base + w.image[k].address + i  BY <2>1, <2>3 DEF PlacePtr
  <2> DEFINE a == w.base + w.image[k].address
  <2>6. a \in Nat /\ ptr = a + i  BY <1>4, <2>5
  <2> HIDE DEF a
  <2>7. ptr' = a + (i + 1)  BY <1>2, <2>4, <2>6
  <2>. QED  BY <2>2, <2>7 DEF a
<1>. QED  BY <1>6, <1>7, <1>8

-------------------------------------------------------------------------------
(* What the steps make of the memory *)

\* What a store leaves in the memory
StoreMakes(m, a, v, early) ==
  /\ \A c \in Cells :
       c # a /\ ~(nvm = "FLPER" /\ a \in Flash /\ c \in PageOf(a)) => m[c] = mem[c]
  /\ a \in Ram => m[a] = v
  /\ a \in Eeprom /\ nvm = "EEERWR" /\ ~early => m[a] = v
  /\ a \in Eeprom /\ nvm # "EEERWR" => m = mem
  /\ a \in Flash /\ nvm = "FLWR" /\ ~early /\ mem[a] = Blank => m[a] = v
  /\ a \in Flash /\ nvm = "FLPER" =>
       \A c \in Cells : m[c] = IF c \in PageOf(a) THEN Blank ELSE mem[c]

LEMMA StoredAt ==
  ASSUME mem \in [Cells -> Values], NEW a, NEW v \in Values, NEW early \in BOOLEAN,
         NEW m, m \in Stored(a, v, early)
  PROVE  StoreMakes(m, a, v, early)
<1> USE DEF StoreMakes
<1>1. Ram \cap Eeprom = {} /\ Ram \cap Flash = {} /\ Eeprom \cap Flash = {}
  BY TargetAssumption
<1>2. CASE a \in Ram
  <2>1. a \in Cells /\ a \notin Eeprom /\ a \notin Flash  BY <1>1, <1>2 DEF Cells
  <2>2. m = [mem EXCEPT ![a] = v]  BY <1>2, <2>1 DEF Stored
  <2>. QED  BY <2>1, <2>2
<1>3. CASE a \in Eeprom
  <2>1. a \in Cells /\ a \notin Ram /\ a \notin Flash  BY <1>1, <1>3 DEF Cells
  <2>2. CASE nvm = "EEERWR"
    <3>1. m \in {[mem EXCEPT ![a] = v]} \cup IF early THEN {mem} ELSE {}
      BY <1>3, <2>1, <2>2 DEF Stored
    <3>2. m = [mem EXCEPT ![a] = v] \/ (early /\ m = mem)  BY <3>1
    <3>. QED  BY <2>1, <2>2, <3>2
  <2>3. CASE nvm # "EEERWR"
    <3>1. m = mem  BY <1>3, <2>1, <2>3 DEF Stored
    <3>. QED  BY <2>1, <2>3, <3>1
  <2>. QED  BY <2>2, <2>3
<1>4. CASE a \in Flash
  <2>1. a \in Cells /\ a \notin Ram /\ a \notin Eeprom  BY <1>1, <1>4 DEF Cells
  <2>2. CASE nvm = "FLWR"
    <3>1. m \in {[mem EXCEPT ![a] = Programmed(@, v)]} \cup IF early THEN {mem} ELSE {}
      BY <1>4, <2>1, <2>2 DEF Stored
    <3>2. m = [mem EXCEPT ![a] = Programmed(@, v)] \/ (early /\ m = mem)  BY <3>1
    <3>3. mem[a] = Blank => Programmed(mem[a], v) = v  BY DEF Programmed
    <3>. QED  BY <2>1, <2>2, <3>2, <3>3
  <2>3. CASE nvm = "FLPER"
    <3>1. m = Blanked(PageOf(a))  BY <1>4, <2>1, <2>3 DEF Stored
    <3>. QED  BY <1>4, <2>1, <2>3, <3>1 DEF Blanked
  <2>4. CASE nvm # "FLWR" /\ nvm # "FLPER"
    <3>1. m = mem  BY <1>4, <2>1, <2>4 DEF Stored
    <3>. QED  BY <2>1, <2>4, <3>1
  <2>. QED  BY <2>2, <2>3, <2>4
<1>5. CASE a \notin Ram /\ a \notin Eeprom /\ a \notin Flash
  <2>1. m = mem  BY <1>5 DEF Stored
  <2>. QED  BY <1>5, <2>1
<1>. QED  BY <1>2, <1>3, <1>4, <1>5

LEMMA ErasedAt ==
  ASSUME NEW m, m \in ChipErased
  PROVE  /\ \A c \in Flash : m[c] = Blank
         /\ \A c \in Cells : c \notin Flash \cup Eeprom => m[c] = mem[c]
BY DEF ChipErased, Blanked, Cells

\* The next step is the only one that is taken
LEMMA BehindMoves ==
  ASSUME NEW P, NEW j, NEW i, NEW q, NEW r, Moves(P, j, i, q, r),
         NEW m \in Nat, NEW s \in Nat \ {0}, m = j => s <= Len(P[j].steps)
  PROVE  Behind(m, s, q, r) <=> Behind(m, s, j, i) \/ (m = j /\ s = i + 1)
<1>1. i \in Nat /\ j \in Nat /\ Len(P[j].steps) \in Nat  BY DEF Moves
<1>2. CASE q = j /\ r = i + 1  BY <1>1, <1>2 DEF Behind
<1>3. CASE q = j + 1 /\ r = 0 /\ i + 1 = Len(P[j].steps)  BY <1>1, <1>3 DEF Behind
<1>. QED  BY <1>2, <1>3 DEF Moves

\* The call that fills a section writes a byte of it with each step
LEMMA DataCall ==
  ASSUME NEW w, NEW P, NEW j, NEW i, NEW x, Nears(w, P, j, i, x),
         NEW k \in 1 .. Len(w.image), j = Filling(w, k)
  PROVE  AtData(w, P[j], j, i, x, k)
<1>1. w \in WritePlans /\ j \in Nat
  <2>1. w \in WritePlans /\ P \in Seq(CallRecords)  BY NextFacts
  <2>2. j \in 1 .. Len(P)  BY DEF Nears
  <2>. QED  BY <2>1, <2>2, LenProperties
<1>2. /\ Before(w) \in Nat /\ Filled(w) \in Nat
      /\ \A l \in 1 .. Len(w.image) :
           /\ Filling(w, l) \in Nat /\ Filling(w, l) <= Filled(w)
           /\ Before(w) + 1 <= Filling(w, l)
      /\ \A l, m \in 1 .. Len(w.image) :
           /\ Filling(w, l) = Filling(w, m) => l = m
           /\ w.type # "eeprom" => Filling(w, l) # Filling(w, m) + 1
  BY <1>1, Order
<1>3. j <= Filled(w) /\ j > Before(w)  BY <1>2
<1>4. PICK l \in 1 .. Len(w.image) : AtPoint(w, P[j], j, i, x, l) \/ AtData(w, P[j], j, i, x, l)
  BY <1>3, Passed
<1>5. ~AtPoint(w, P[j], j, i, x, l)
  <2> SUFFICES ASSUME AtPoint(w, P[j], j, i, x, l)  PROVE FALSE
    OBVIOUS
  <2>1. w.type # "eeprom" /\ j = Filling(w, l) - 1  BY DEF AtPoint
  <2>2. Filling(w, l) = Filling(w, k) + 1  BY <1>2, <2>1
  <2>. QED  BY <1>2, <2>1, <2>2
<1>6. AtData(w, P[j], j, i, x, l)  BY <1>4, <1>5
<1>7. j = Filling(w, l)  BY <1>6 DEF AtData
<1>8. l = k  BY <1>2, <1>7
<1>. QED  BY <1>6, <1>8

LEMMA ReachedMoves ==
  ASSUME NEW w, NEW P, NEW j, NEW i, NEW x, Nears(w, P, j, i, x),
         NEW q, NEW r, Moves(P, j, i, q, r), NEW p \in Places(w)
  PROVE  Reached(w, p, q, r) <=> Reached(w, p, j, i) \/ (Filling(w, p[1]) = j /\ p[2] = i + 1)
<1>1. w \in WritePlans  BY NextFacts
<1>2. p[1] \in 1 .. Len(w.image) /\ p[2] \in 1 .. Size(w.image[p[1]]) /\ p[2] \in Nat \ {0}
  BY <1>1, PlaceFacts
<1>3. Filling(w, p[1]) \in Nat  BY <1>1, <1>2, Order
<1>4. Filling(w, p[1]) = j => p[2] <= Len(P[j].steps)
  <2> SUFFICES ASSUME Filling(w, p[1]) = j  PROVE p[2] <= Len(P[j].steps)
    OBVIOUS
  <2>1. AtData(w, P[j], j, i, x, p[1])  BY <1>2, DataCall
  <2>2. Len(P[j].steps) = Size(w.image[p[1]])  BY <2>1 DEF AtData
  <2>. QED  BY <1>2, <2>2
<1> DEFINE m == Filling(w, p[1])
           s == p[2]
<1>5. m \in Nat /\ s \in Nat \ {0} /\ (m = j => s <= Len(P[j].steps))  BY <1>2, <1>3, <1>4
<1> HIDE DEF m, s
<1>6. Behind(m, s, q, r) <=> Behind(m, s, j, i) \/ (m = j /\ s = i + 1)  BY <1>5, BehindMoves
<1>. QED  BY <1>6 DEF m, s, Reached

LEMMA DataPlace ==
  ASSUME NEW w, NEW P, NEW j, NEW i, NEW x, Nears(w, P, j, i, x),
         NEW k \in 1 .. Len(w.image), AtData(w, P[j], j, i, x, k),
         NEW p, p = <<k, i + 1>>
  PROVE  p \in Places(w) /\ Filling(w, p[1]) = j /\ p[2] = i + 1
<1>1. w \in WritePlans /\ i + 1 \in 1 .. Len(P[j].steps)  BY NextFacts DEF Nears
<1>2. j = Filling(w, k) /\ Len(P[j].steps) = Size(w.image[k])  BY DEF AtData
<1>3. i + 1 \in 1 .. Size(w.image[k])  BY <1>1, <1>2
<1>. QED  BY <1>1, <1>2, <1>3, IsPlace

\* A step that stores the byte of the image at p, the i-th of section k
Puts(w, j, i, x, k, p) ==
  /\ p \in Places(w) /\ Filling(w, p[1]) = j /\ p[2] = i + 1
  /\ w.image[p[1]].data[p[2]] \in Values
  /\ w.type # "eeprom" =>
       /\ x.do = "put" /\ ptr = Where(w, p)
       /\ mem' \in Stored(Where(w, p), w.image[p[1]].data[p[2]], ~Slow(rate))
  /\ w.type = "eeprom" =>
       mem' \in Stored(Where(w, <<k, 1>>), w.image[p[1]].data[p[2]], FALSE)
  /\ w.type = "ram" => nvm = "NONE"
  /\ w.type = "flash" => nvm = "FLWR"
  /\ w.type = "eeprom" => nvm = "EEERWR"

LEMMA DataStep ==
  ASSUME NEW w, NEW P, NEW j, NEW i, NEW x, Nears(w, P, j, i, x), Did(x), Fits(w),
         PlaceWaits(w, j), PlaceNvm(w, j, i), PlacePtr(w, j, i),
         NEW k \in 1 .. Len(w.image), AtData(w, P[j], j, i, x, k)
  PROVE  Puts(w, j, i, x, k, <<k, i + 1>>)
<1> DEFINE p == <<k, i + 1>>
<1>0. p = <<k, i + 1>>  OBVIOUS
<1> HIDE DEF p
<1>1. w \in WritePlans /\ w \in ImagePlans /\ i \in Nat /\ i + 1 \in 1 .. Len(P[j].steps)
      /\ P \in Seq(CallRecords) /\ j \in 1 .. Len(P)
  BY NextFacts DEF Nears, ImagePlans
<1>2. /\ w.base \in Nat /\ Len(w.image) \in Nat /\ w.image \in Seq(Sections)
      /\ w.image[k].address \in Nat /\ w.image[k].data \in Seq(Values)
      /\ Size(w.image[k]) \in Nat \ {0}
  BY <1>1, SectionFacts
<1>3. /\ j = Filling(w, k) /\ Len(P[j].steps) = Size(w.image[k])
      /\ x = IF w.type # "eeprom" THEN Put(w.image[k].data[i + 1])
             ELSE PutAt(w.image[k].address + w.base, w.image[k].data[i + 1])
  BY DEF AtData
<1>4. i + 1 \in 1 .. Size(w.image[k]) /\ 1 \in 1 .. Size(w.image[k])  BY <1>1, <1>2, <1>3
<1>5. /\ p \in Places(w) /\ p[1] = k /\ p[2] = i + 1
      /\ Where(w, p) = w.base + w.image[k].address + (i + 1) - 1
  BY <1>0, <1>1, <1>4, IsPlace
<1>6. Where(w, <<k, 1>>) = w.base + w.image[k].address + 1 - 1  BY <1>1, <1>4, IsPlace
<1>7. w.image[p[1]].data[p[2]] \in Values  BY <1>1, <1>5, PlaceFacts
<1>8. /\ Before(w) \in Nat /\ Filled(w) \in Nat /\ j \in Nat /\ j <= Filled(w)
      /\ Before(w) + 1 <= j
  BY <1>1, <1>3, Order
<1>9. j > Before(w)  BY <1>8
<1> DEFINE a == w.base + w.image[k].address
<1>10. a \in Nat /\ a < AddressSpace /\ a = w.image[k].address + w.base
  <2>1. k \in DOMAIN w.image  BY <1>2, LenProperties
  <2>2. w.base + w.image[k].address + Size(w.image[k]) <= AddressSpace  BY <2>1 DEF Fits
  <2>. QED  BY <1>2, <2>2 DEF AddressSpace
<1>11. Where(w, <<k, 1>>) = a + 1 - 1 /\ Where(w, p) = a + (i + 1) - 1  BY <1>5, <1>6
<1>12. w.type # "eeprom" => ptr = a + i  BY <1>3 DEF PlacePtr
<1>13. w.type = "eeprom" => x = PutAt(a, w.image[k].data[i + 1])  BY <1>3, <1>10
<1> HIDE DEF a
<1>14. Where(w, <<k, 1>>) = a /\ Where(w, p) = a + i  BY <1>1, <1>10, <1>11
<1>15. w.type # "eeprom" =>
         /\ x.do = "put" /\ ptr = Where(w, p)
         /\ mem' \in Stored(Where(w, p), w.image[p[1]].data[p[2]], ~Slow(rate))
  <2> SUFFICES ASSUME w.type # "eeprom"
               PROVE  /\ x.do = "put" /\ ptr = Where(w, p)
                      /\ mem' \in Stored(Where(w, p), w.image[p[1]].data[p[2]], ~Slow(rate))
    OBVIOUS
  <2>1. x.do = "put" /\ x.byte = w.image[k].data[i + 1]  BY <1>3 DEF Put
  <2>2. mem' \in Stored(ptr, x.byte, ~Slow(rate))  BY <2>1 DEF Did
  <2>3. ptr = Where(w, p)  BY <1>12, <1>14
  <2>4. x.byte = w.image[p[1]].data[p[2]]  BY <1>5, <2>1
  <2>. QED  BY <2>1, <2>2, <2>3, <2>4
<1>16. w.type = "eeprom" =>
         mem' \in Stored(Where(w, <<k, 1>>), w.image[p[1]].data[p[2]], FALSE)
  <2> SUFFICES ASSUME w.type = "eeprom"
               PROVE  mem' \in Stored(Where(w, <<k, 1>>), w.image[p[1]].data[p[2]], FALSE)
    OBVIOUS
  <2>1. x.do = "putat" /\ x.byte = w.image[k].data[i + 1] /\ x.at = Sent(a)
    BY <1>13 DEF PutAt
  <2>2. Sent(a) = a  BY <1>10, SentFacts
  <2>3. waits = TRUE  BY <1>8, <1>9 DEF PlaceWaits
  <2>4. mem' \in Stored(x.at, x.byte, ~waits)  BY <2>1 DEF Did
  <2>5. x.at = Where(w, <<k, 1>>)  BY <1>14, <2>1, <2>2
  <2>6. x.byte = w.image[p[1]].data[p[2]]  BY <1>5, <2>1
  <2>7. (~waits) = FALSE  BY <2>3
  <2>. QED  BY <2>4, <2>5, <2>6, <2>7
<1>17. /\ w.type = "ram" => nvm = "NONE"
       /\ w.type = "flash" => nvm = "FLWR"
       /\ w.type = "eeprom" => nvm = "EEERWR"
  <2>1. Behind(Before(w), 2, j, i) /\ Behind(Before(w), 1, j, i)  BY <1>9 DEF Behind
  <2>. QED  BY <1>8, <2>1 DEF PlaceNvm
<1>18. Puts(w, j, i, x, k, p)  BY <1>3, <1>5, <1>7, <1>15, <1>16, <1>17 DEF Puts
<1>. QED  BY <1>0, <1>18

\* What a page erase reaches, it blanks
LEMMA PageStep ==
  ASSUME mem \in [Cells -> Values], NEW w, NEW P, NEW j, NEW i, NEW x, Nears(w, P, j, i, x),
         Did(x), PlaceNvm(w, j, i), x.do = "page"
  PROVE  /\ \A c \in Flash : mem'[c] \in {Blank, mem[c]}
         /\ x.at \in Flash => \A c \in PageOf(x.at) : mem'[c] = Blank
         /\ \A c \in Cells : c # x.at /\ ~(x.at \in Flash /\ c \in PageOf(x.at)) => mem'[c] = mem[c]
         /\ x.at \in Eeprom => mem' = mem
<1>1. AtPages(w, P[j], j, i, x) /\ i > 1  BY Sites
<1>2. i \in Nat  BY DEF Nears
<1>3. nvm = "FLPER"
  <2>1. i >= 2  BY <1>1, <1>2
  <2>. QED  BY <1>1, <2>1 DEF AtPages, PlaceNvm
<1> DEFINE a == x.at
           e == FALSE
<1>4. mem' \in Stored(a, Blank, e) /\ Blank \in Values /\ e \in BOOLEAN  BY DEF Did, Values
<1> HIDE DEF a, e
<1>5. StoreMakes(mem', a, Blank, e)  BY <1>4, StoredAt
<1>6. \A c \in Flash : c \in Cells  BY DEF Cells
<1>7. ASSUME NEW c \in Flash  PROVE mem'[c] \in {Blank, mem[c]}
  <2>1. CASE a \in Flash  BY <1>3, <1>5, <1>6, <2>1 DEF StoreMakes
  <2>2. CASE a \notin Flash
    <3>1. c # a  BY <2>2
    <3>. QED  BY <1>5, <1>6, <2>2, <3>1 DEF StoreMakes
  <2>. QED  BY <2>1, <2>2
<1>8. a \in Flash => \A c \in PageOf(a) : mem'[c] = Blank  BY <1>3, <1>5, <1>6 DEF PageOf, StoreMakes
<1>9. a \in Eeprom => mem' = mem  BY <1>3, <1>5 DEF StoreMakes
<1>. QED  BY <1>3, <1>5, <1>7, <1>8, <1>9 DEF a, StoreMakes

\* A step that stores a byte touches nothing but its cell
LEMMA DataTouches ==
  ASSUME mem \in [Cells -> Values],
         NEW w, NEW P, NEW j, NEW i, NEW x, Nears(w, P, j, i, x), Did(x), Fits(w),
         PlaceWaits(w, j), PlaceNvm(w, j, i), PlacePtr(w, j, i),
         NEW k \in 1 .. Len(w.image), AtData(w, P[j], j, i, x, k)
  PROVE  \A c \in Cells :
           c # Where(w, IF w.type # "eeprom" THEN <<k, i + 1>> ELSE <<k, 1>>) => mem'[c] = mem[c]
<1> DEFINE p == <<k, i + 1>>
           s == <<k, 1>>
           v == w.image[p[1]].data[p[2]]
<1>0. Puts(w, j, i, x, k, p)  BY DataStep
<1>1. /\ v \in Values
      /\ w.type # "eeprom" => mem' \in Stored(Where(w, p), v, ~Slow(rate))
      /\ w.type = "eeprom" => mem' \in Stored(Where(w, s), v, FALSE)
      /\ w.type = "ram" => nvm = "NONE"
      /\ w.type = "flash" => nvm = "FLWR"
      /\ w.type = "eeprom" => nvm = "EEERWR"
  BY <1>0 DEF Puts
<1>2. w.type \in {"ram", "eeprom", "flash"}
  <2>1. w \in WritePlans  BY NextFacts
  <2>. QED  BY <2>1 DEF WritePlans, MemoryTypes
<1>3. nvm # "FLPER"  BY <1>1, <1>2
<1> HIDE DEF p, s, v
<1>4. CASE w.type # "eeprom"
  <2> DEFINE a == Where(w, p)
             e == ~Slow(rate)
  <2>1. mem' \in Stored(a, v, e) /\ e \in BOOLEAN  BY <1>1, <1>4
  <2> HIDE DEF a, e
  <2>2. StoreMakes(mem', a, v, e)  BY <1>1, <2>1, StoredAt
  <2>. QED  BY <1>3, <1>4, <2>2 DEF a, p, StoreMakes
<1>5. CASE w.type = "eeprom"
  <2> DEFINE a == Where(w, s)
             e == FALSE
  <2>1. mem' \in Stored(a, v, e) /\ e \in BOOLEAN  BY <1>1, <1>5
  <2> HIDE DEF a, e
  <2>2. StoreMakes(mem', a, v, e)  BY <1>1, <2>1, StoredAt
  <2>. QED  BY <1>3, <1>5, <2>2 DEF a, s, StoreMakes
<1>. QED  BY <1>4, <1>5

LEMMA BlankMoves ==
  ASSUME mem \in [Cells -> Values],
         NEW w, NEW P, NEW j, NEW i, NEW x, Nears(w, P, j, i, x), Did(x), Fits(w),
         NEW q, NEW r, Moves(P, j, i, q, r), ctl'.excused = ctl.excused,
         PlaceWaits(w, j), PlaceNvm(w, j, i), PlacePtr(w, j, i), PlaceBlank(w, j, i)
  PROVE  PlaceBlank(w, q, r)'
<1> SUFFICES ASSUME NEW c \in Flash \ ctl.excused, Wiped(w, c, q, r), Untouched(w, c, q, r)
             PROVE  mem'[c] = Blank
  BY DEF PlaceBlank
<1>1. w \in WritePlans /\ x \in Steps /\ P \in Seq(CallRecords)  BY NextFacts
<1>2. j \in 1 .. Len(P) /\ P = WriteCalls(w) /\ i \in Nat /\ x = P[j].steps[i + 1]  BY DEF Nears
<1>3. j \in Nat  BY <1>1, <1>2, LenProperties
<1>4. Erases(w) \in Nat /\ \A m \in 1 .. Erases(w) : P[m] = Erasing(w)[m]
  BY <1>1, <1>2, PlanFacts, Order
<1>5. Untouched(w, c, j, i)  BY ReachedMoves DEF Untouched
<1>6. PICK m \in 1 .. Erases(w) : \E s \in 1 .. Len(Erasing(w)[m].steps) :
        Behind(m, s, q, r) /\ Blanks(Erasing(w)[m].steps[s], c)
  BY DEF Wiped
<1>7. PICK s \in 1 .. Len(Erasing(w)[m].steps) :
        Behind(m, s, q, r) /\ Blanks(Erasing(w)[m].steps[s], c)
  BY <1>6
<1>8. m \in Nat /\ s \in Nat \ {0} /\ (m = j => s <= Len(P[j].steps))
  <2>1. Erasing(w) \in Seq(CallRecords) /\ m \in 1 .. Len(Erasing(w))
    BY <1>1, ErasingFacts DEF Erases
  <2>2. Len(Erasing(w)[m].steps) \in Nat  BY <2>1, CallFacts
  <2>. QED  BY <1>4, <2>2
<1>9. Behind(m, s, j, i) \/ (m = j /\ s = i + 1)  BY <1>7, <1>8, BehindMoves
<1>10. c \in Cells  BY DEF Cells
<1>11. CASE x.do = "page"
  <2>1. /\ mem'[c] \in {Blank, mem[c]}
        /\ x.at \in Flash => \A d \in PageOf(x.at) : mem'[d] = Blank
    BY <1>11, PageStep
  <2>2. CASE Behind(m, s, j, i)
    <3>1. Wiped(w, c, j, i)  BY <1>7, <2>2 DEF Wiped
    <3>. QED  BY <1>5, <2>1, <3>1 DEF PlaceBlank
  <2>3. CASE m = j /\ s = i + 1
    <3>1. Blanks(x, c)  BY <1>2, <1>4, <1>7, <2>3
    <3>. QED  BY <1>11, <2>1, <3>1 DEF Blanks
  <2>. QED  BY <1>9, <2>2, <2>3
<1>12. CASE x.do = "chip"
  <2>1. mem' \in ChipErased  BY <1>12 DEF Did
  <2>2. \A d \in Flash : mem'[d] = Blank  BY <2>1, ErasedAt
  <2>. QED  BY <2>2
<1>13. CASE x.do \notin {"page", "chip"}
  <2>1. Behind(m, s, j, i)
    <3>1. ~(m = j /\ s = i + 1)
      <4> SUFFICES ASSUME m = j, s = i + 1  PROVE FALSE
        OBVIOUS
      <4>1. Blanks(x, c)  BY <1>2, <1>4, <1>7
      <4>. QED  BY <1>13, <4>1 DEF Blanks
    <3>. QED  BY <1>9, <3>1
  <2>2. mem[c] = Blank
    <3>1. Wiped(w, c, j, i)  BY <1>7, <2>1 DEF Wiped
    <3>. QED  BY <1>5, <3>1 DEF PlaceBlank
  <2>3. CASE x.do \in {"put", "putat"}
    <3>1. PICK k \in 1 .. Len(w.image) : AtData(w, P[j], j, i, x, k)  BY <2>3, Sites
    <3>2. w.type # "eeprom"
      <4>1. w.type = "eeprom" => Erases(w) = 0  BY <1>1, ErasingFacts DEF Erases
      <4>2. Erases(w) # 0  BY <1>4, <1>6
      <4>. QED  BY <4>1, <4>2
    <3> DEFINE p == <<k, i + 1>>
    <3>3. p = <<k, i + 1>>  OBVIOUS
    <3>4. c # Where(w, IF w.type # "eeprom" THEN <<k, i + 1>> ELSE <<k, 1>>) => mem'[c] = mem[c]
      BY <1>10, <3>1, DataTouches
    <3> HIDE DEF p
    <3>5. p \in Places(w) /\ Filling(w, p[1]) = j /\ p[2] = i + 1  BY <3>1, <3>3, DataPlace
    <3>6. Reached(w, p, q, r)  BY <3>5, ReachedMoves
    <3>7. Where(w, p) # c  BY <3>5, <3>6 DEF Untouched
    <3>. QED  BY <2>2, <3>2, <3>4, <3>7 DEF p
  <2>4. CASE x.do \notin {"put", "putat"}
    <3>1. mem' = mem  BY <1>1, <1>13, <2>4, StepFacts DEF Did
    <3>. QED  BY <2>2, <3>1
  <2>. QED  BY <2>3, <2>4
<1>. QED  BY <1>11, <1>12, <1>13

\* A byte of flash that is promised finds its cell erased
LEMMA BlankBefore ==
  ASSUME NEW w, NEW P, NEW j, NEW i, NEW x, Nears(w, P, j, i, x), PlaceBlank(w, j, i),
         NEW p \in Places(w), Filling(w, p[1]) = j, p[2] = i + 1,
         Where(w, p) \in Flash, Kept(w, Where(w, p))
  PROVE  mem[Where(w, p)] = Blank
<1> DEFINE c == Where(w, p)
<1>1. w \in WritePlans /\ P \in Seq(CallRecords) /\ j \in 1 .. Len(P) /\ i \in Nat
  BY NextFacts DEF Nears
<1>2. j \in Nat  BY <1>1, LenProperties
<1>3. p[1] \in 1 .. Len(w.image)  BY <1>1, PlaceFacts
<1>4. Erases(w) \in Nat /\ Before(w) \in Nat /\ Erases(w) <= Before(w) /\ Before(w) + 1 <= j
  BY <1>1, <1>3, Order
<1>5. /\ Fits(w) /\ w.type = "flash" /\ c \notin ctl.excused
      /\ w.erase = "chip" \/ (w.erase = "page" /\ Aligned(w))
      /\ \A o, t \in Places(w) : Where(w, o) = c /\ Where(w, t) = c => o = t
  <2>1. Ram \cap Flash = {} /\ Eeprom \cap Flash = {}  BY TargetAssumption
  <2>2. c \notin Ram /\ c \notin Eeprom  BY <2>1
  <2>. QED  BY <2>2 DEF Kept
<1>6. \E m \in 1 .. Erases(w) : \E s \in 1 .. Len(Erasing(w)[m].steps) :
        Blanks(Erasing(w)[m].steps[s], c)
  BY <1>1, <1>5, Coverage
<1> HIDE DEF c
<1>7. Wiped(w, c, j, i)
  <2>1. \A m \in 1 .. Erases(w) : m < j  BY <1>2, <1>4
  <2>. QED  BY <1>6, <2>1 DEF Wiped, Behind
<1>8. Untouched(w, c, j, i)
  <2> SUFFICES ASSUME NEW o \in Places(w), Where(w, o) = c  PROVE ~Reached(w, o, j, i)
    BY DEF Untouched
  <2>1. o = p  BY <1>5 DEF c
  <2>. QED  BY <1>1, <1>2, <2>1 DEF Reached, Behind
<1>. QED  BY <1>5, <1>7, <1>8 DEF PlaceBlank, c

\* The rate that a user asks for is within the limit, or the operation's own is
LEMMA DataPaced ==
  ASSUME NEW w, NEW P, NEW j, NEW i, NEW x, Nears(w, P, j, i, x), PlaceRate(w, j),
         w.asked => w.baud # 0, x.do = "put" /\ nvm = "FLWR" /\ ~w.asked => Slow(rate),
         NEW k \in 1 .. Len(w.image), j = Filling(w, k), x.do = "put", nvm = "FLWR",
         ~w.asked \/ Slow(ActualRate(w.baud))
  PROVE  Slow(rate)
<1>1. CASE ~w.asked  BY <1>1
<1>2. CASE w.asked
  <2>1. w \in WritePlans  BY NextFacts
  <2>2. /\ Erases(w) \in Nat /\ Before(w) \in Nat /\ j \in Nat
        /\ w.baud # 0 => Erases(w) + 1 <= Before(w)
        /\ Before(w) + 1 <= j /\ j <= Filled(w)
    BY <2>1, Order
  <2>3. w.baud # 0 /\ j > Erases(w) + 1 /\ j <= Filled(w)  BY <1>2, <2>2
  <2>4. rate = ActualRate(w.baud)  BY <2>3 DEF PlaceRate
  <2>. QED  BY <1>2, <2>4
<1>. QED  BY <1>1, <1>2

LEMMA DataWrites ==
  ASSUME mem \in [Cells -> Values],
         NEW w, NEW P, NEW j, NEW i, NEW x, Nears(w, P, j, i, x), Did(x), Fits(w),
         PlaceRate(w, j), PlaceWaits(w, j), PlaceNvm(w, j, i), PlacePtr(w, j, i),
         PlaceBlank(w, j, i),
         w.asked => w.baud # 0, x.do = "put" /\ nvm = "FLWR" /\ ~w.asked => Slow(rate),
         NEW k \in 1 .. Len(w.image), AtData(w, P[j], j, i, x, k),
         Where(w, <<k, i + 1>>) \in Cells, Kept(w, Where(w, <<k, i + 1>>))
  PROVE  mem'[Where(w, <<k, i + 1>>)] = w.image[k].data[i + 1]
<1> DEFINE p == <<k, i + 1>>
           s == <<k, 1>>
           v == w.image[p[1]].data[p[2]]
           c == Where(w, p)
           early == ~Slow(rate)
           never == FALSE
<1>0. Puts(w, j, i, x, k, p)  BY DataStep
<1>1. /\ p \in Places(w) /\ Filling(w, p[1]) = j /\ p[2] = i + 1 /\ v \in Values
      /\ w.type # "eeprom" =>
           x.do = "put" /\ ptr = Where(w, p) /\ mem' \in Stored(c, v, ~Slow(rate))
      /\ w.type = "eeprom" => mem' \in Stored(Where(w, s), v, FALSE)
      /\ w.type = "ram" => nvm = "NONE"
      /\ w.type = "flash" => nvm = "FLWR"
      /\ w.type = "eeprom" => nvm = "EEERWR"
  BY <1>0 DEF Puts
<1>2. /\ Ram \cap Eeprom = {} /\ Ram \cap Flash = {} /\ Eeprom \cap Flash = {}
      /\ Cells = Ram \cup Eeprom \cup Flash
  BY TargetAssumption DEF Cells
<1>3. /\ c \in Ram => w.type # "eeprom"
      /\ c \in Flash => w.type = "flash" /\ (~w.asked \/ Slow(ActualRate(w.baud)))
      /\ c \in Eeprom => w.type = "eeprom" /\ \A l \in DOMAIN w.image : Size(w.image[l]) = 1
  <2>1. c \in Ram => w.type # "eeprom"  BY <1>2 DEF Kept
  <2>2. c \in Flash => w.type = "flash" /\ (~w.asked \/ Slow(ActualRate(w.baud)))
    BY <1>2 DEF Kept
  <2>3. c \in Eeprom => w.type = "eeprom" /\ \A l \in DOMAIN w.image : Size(w.image[l]) = 1
    BY <1>2 DEF Kept
  <2>. QED  BY <2>1, <2>2, <2>3
<1>4. c \in Flash => mem[c] = Blank
  <2>1. p = <<k, i + 1>>  OBVIOUS
  <2> HIDE DEF p
  <2>2. p \in Places(w) /\ Filling(w, p[1]) = j /\ p[2] = i + 1  BY <1>1
  <2>3. Kept(w, c)  BY DEF p
  <2>. QED  BY <2>2, <2>3, BlankBefore
<1>5. j = Filling(w, k) /\ i \in Nat /\ Len(P[j].steps) = Size(w.image[k])
      /\ i + 1 \in 1 .. Len(P[j].steps)
  BY DEF AtData, Nears
<1>6. c \in Flash => Slow(rate)
  <2> SUFFICES ASSUME c \in Flash  PROVE Slow(rate)
    OBVIOUS
  <2>1. x.do = "put" /\ nvm = "FLWR" /\ (~w.asked \/ Slow(ActualRate(w.baud)))  BY <1>1, <1>3
  <2>. QED  BY <1>5, <2>1, DataPaced
<1>7. c \in Eeprom => Where(w, s) = c
  <2> SUFFICES ASSUME c \in Eeprom  PROVE Where(w, s) = c
    OBVIOUS
  <2>1. k \in DOMAIN w.image
    <3>1. w \in ImagePlans  BY NextFacts DEF ImagePlans
    <3>2. w.image \in Seq(Sections)  BY <3>1, SectionFacts
    <3>. QED  BY <3>2, LenProperties
  <2>2. Size(w.image[k]) = 1  BY <1>3, <2>1
  <2>3. i + 1 = 1  BY <1>5, <2>2
  <2>. QED  BY <2>3
<1>8. c \in Cells  OBVIOUS
<1>9. mem'[c] = v
  <2>0. early \in BOOLEAN /\ never \in BOOLEAN /\ ~never  OBVIOUS
  <2>1. /\ early <=> ~Slow(rate)
        /\ w.type # "eeprom" => mem' \in Stored(c, v, early)
        /\ w.type = "eeprom" => mem' \in Stored(Where(w, s), v, never)
    BY <1>1
  <2> HIDE DEF p, s, v, c, early, never
  <2>2. CASE c \in Ram
    <3>1. mem' \in Stored(c, v, early)  BY <1>3, <2>1, <2>2
    <3>2. StoreMakes(mem', c, v, early)  BY <1>1, <2>0, <3>1, StoredAt
    <3>. QED  BY <2>2, <3>2 DEF StoreMakes
  <2>3. CASE c \in Flash
    <3>1. mem' \in Stored(c, v, early) /\ nvm = "FLWR" /\ ~early /\ mem[c] = Blank
      BY <1>1, <1>3, <1>4, <1>6, <2>1, <2>3
    <3>2. StoreMakes(mem', c, v, early)  BY <1>1, <2>0, <3>1, StoredAt
    <3>. QED  BY <2>3, <3>1, <3>2 DEF StoreMakes
  <2>4. CASE c \in Eeprom
    <3>1. mem' \in Stored(c, v, never) /\ nvm = "EEERWR"  BY <1>1, <1>3, <1>7, <2>1, <2>4
    <3>2. StoreMakes(mem', c, v, never)  BY <1>1, <2>0, <3>1, StoredAt
    <3>. QED  BY <2>0, <2>4, <3>1, <3>2 DEF StoreMakes
  <2>. QED  BY <1>2, <1>8, <2>2, <2>3, <2>4
<1>. QED  BY <1>9

LEMMA WrittenMoves ==
  ASSUME mem \in [Cells -> Values],
         NEW w, NEW P, NEW j, NEW i, NEW x, Nears(w, P, j, i, x), Did(x), Fits(w),
         NEW q, NEW r, Moves(P, j, i, q, r), ctl'.excused = ctl.excused,
         w.asked => w.baud # 0, x.do = "put" /\ nvm = "FLWR" /\ ~w.asked => Slow(rate),
         PlaceRate(w, j), PlaceWaits(w, j), PlaceNvm(w, j, i), PlacePtr(w, j, i),
         PlaceBlank(w, j, i), PlaceWritten(w, j, i)
  PROVE  PlaceWritten(w, q, r)'
<1> SUFFICES ASSUME NEW p \in Places(w), Reached(w, p, q, r), Where(w, p) \in Cells,
                    Kept(w, Where(w, p))'
             PROVE  mem'[Where(w, p)] = w.image[p[1]].data[p[2]]
  BY DEF PlaceWritten
<1> DEFINE c == Where(w, p)
<1>1. w \in WritePlans /\ x \in Steps /\ P \in Seq(CallRecords) /\ j \in 1 .. Len(P) /\ i \in Nat
  BY NextFacts DEF Nears
<1>2. j \in Nat  BY <1>1, LenProperties
<1>3. Kept(w, c)  BY DEF Kept
<1>4. \A o, t \in Places(w) : Where(w, o) = c /\ Where(w, t) = c => o = t  BY <1>3 DEF Kept
<1>5. p = <<p[1], p[2]>> /\ p[1] \in 1 .. Len(w.image) /\ p[2] \in 1 .. Size(w.image[p[1]])
  BY <1>1, PlaceFacts
<1>6. Reached(w, p, j, i) \/ (Filling(w, p[1]) = j /\ p[2] = i + 1)  BY ReachedMoves
<1>7. CASE Filling(w, p[1]) = j /\ p[2] = i + 1
  <2> DEFINE k == p[1]
  <2>1. k \in 1 .. Len(w.image) /\ p = <<k, i + 1>>  BY <1>5, <1>7
  <2>2. AtData(w, P[j], j, i, x, k)  BY <1>7, <2>1, DataCall
  <2> HIDE DEF k
  <2>3. Where(w, <<k, i + 1>>) \in Cells /\ Kept(w, Where(w, <<k, i + 1>>))  BY <1>3, <2>1
  <2>4. mem'[Where(w, <<k, i + 1>>)] = w.image[k].data[i + 1]  BY <2>1, <2>2, <2>3, DataWrites
  <2>. QED  BY <1>7, <2>1, <2>4 DEF k
<1>8. CASE Reached(w, p, j, i)
  <2>1. mem[c] = w.image[p[1]].data[p[2]]  BY <1>3, <1>8 DEF PlaceWritten
  <2>2. ~(Filling(w, p[1]) = j /\ p[2] = i + 1)  BY <1>1, <1>2, <1>8 DEF Reached, Behind
  <2>3. x.do # "page" /\ x.do # "chip"
    <3>1. /\ Erases(w) \in Nat /\ Before(w) \in Nat /\ Filling(w, p[1]) \in Nat
          /\ Erases(w) <= Before(w) /\ Before(w) + 1 <= Filling(w, p[1])
      BY <1>1, <1>5, Order
    <3>2. Filling(w, p[1]) <= j  BY <1>2, <1>8, <3>1 DEF Reached, Behind
    <3>3. ~(j <= Erases(w))  BY <1>2, <3>1, <3>2
    <3>4. x.do = "page" => j <= Erases(w)  BY Sites DEF AtPages
    <3>5. x.do = "chip" => j = Erases(w)  BY Sites DEF AtChip
    <3>. QED  BY <1>2, <3>1, <3>3, <3>4, <3>5
  <2>4. CASE x.do \in {"put", "putat"}
    <3>1. PICK k \in 1 .. Len(w.image) : AtData(w, P[j], j, i, x, k)  BY <2>4, Sites
    <3> DEFINE t == <<k, i + 1>>
               s == <<k, 1>>
    <3>2. c # Where(w, IF w.type # "eeprom" THEN t ELSE s) => mem'[c] = mem[c]
      BY <3>1, DataTouches
    <3>3. t = <<k, i + 1>> /\ s = <<k, 1>>  OBVIOUS
    <3> HIDE DEF t, s
    <3>4. t \in Places(w) /\ Filling(w, t[1]) = j /\ t[2] = i + 1  BY <3>1, <3>3, DataPlace
    <3>5. c # Where(w, t)
      <4>1. p # t  BY <2>2, <3>4
      <4>. QED  BY <1>4, <3>4, <4>1
    <3>6. w.type = "eeprom" => c # Where(w, s)
      <4> SUFFICES ASSUME w.type = "eeprom", c = Where(w, s)  PROVE FALSE
        OBVIOUS
      <4>1. w \in ImagePlans  BY <1>1 DEF ImagePlans
      <4>2. Size(w.image[k]) \in Nat \ {0} /\ w.image \in Seq(Sections)  BY <4>1, SectionFacts
      <4>3. 1 \in 1 .. Size(w.image[k]) /\ k \in DOMAIN w.image  BY <4>2, LenProperties
      <4>4. s \in Places(w) /\ s[1] = k /\ s[2] = 1  BY <1>1, <3>3, <4>3, IsPlace
      <4>5. Size(w.image[k]) = 1
        <5>1. c \in Eeprom
          <6>1. c \in Ram \cup Eeprom \cup Flash  BY DEF Cells
          <6>3. Ram \cap Flash = {} /\ Eeprom \cap Flash = {} /\ Ram \cap Eeprom = {}
            BY TargetAssumption
          <6>2. c \notin Ram  BY <1>3, <6>3 DEF Kept
          <6>4. c \in Flash => w.type = "flash"  BY <1>3, <6>3 DEF Kept
          <6>. QED  BY <6>1, <6>2, <6>4
        <5>2. Ram \cap Eeprom = {} /\ Eeprom \cap Flash = {}  BY TargetAssumption
        <5>3. \A l \in DOMAIN w.image : Size(w.image[l]) = 1  BY <1>3, <5>1, <5>2 DEF Kept
        <5>. QED  BY <4>3, <5>3
      <4>6. t[1] = k /\ t[2] \in 1 .. Size(w.image[t[1]])  BY <1>1, <3>3, <3>4, PlaceFacts
      <4>7. t = s
        <5>1. i + 1 = 1  BY <1>1, <3>4, <4>5, <4>6
        <5>. QED  BY <3>3, <5>1
      <4>. QED  BY <3>5, <4>7
    <3>7. c # Where(w, IF w.type # "eeprom" THEN t ELSE s)
      <4>1. CASE w.type = "eeprom"  BY <3>6, <4>1
      <4>2. CASE w.type # "eeprom"  BY <3>5, <4>2
      <4>. QED  BY <4>1, <4>2
    <3>. QED  BY <2>1, <3>2, <3>7
  <2>5. CASE x.do \notin {"put", "putat"}
    <3>1. mem' = mem  BY <1>1, <2>3, <2>5, StepFacts DEF Did
    <3>. QED  BY <2>1, <3>1
  <2>. QED  BY <2>4, <2>5
<1>. QED  BY <1>6, <1>7, <1>8

LEMMA ProgressMoves ==
  ASSUME mem \in [Cells -> Values],
         NEW w, NEW P, NEW j, NEW i, NEW x, Nears(w, P, j, i, x), Did(x), Fits(w),
         NEW q, NEW r, Moves(P, j, i, q, r), ctl'.excused = ctl.excused,
         x.do = "select" => nvm' = x.cmd,
         w.asked => w.baud # 0, x.do = "put" /\ nvm = "FLWR" /\ ~w.asked => Slow(rate),
         Progress(w, j, i)
  PROVE  Progress(w, q, r)'
<1>1. /\ PlaceRate(w, j) /\ PlaceWaits(w, j) /\ PlaceNvm(w, j, i) /\ PlacePtr(w, j, i)
      /\ PlaceBlank(w, j, i) /\ PlaceWritten(w, j, i)
  BY DEF Progress
<1>2. PlaceRate(w, q)'  BY <1>1, RateMoves
<1>3. PlaceWaits(w, q)'  BY <1>1, WaitsMoves
<1>4. PlaceNvm(w, q, r)'  BY <1>1, NvmMoves
<1>5. PlacePtr(w, q, r)'  BY <1>1, PtrMoves
<1>6. PlaceBlank(w, q, r)'  BY <1>1, BlankMoves
<1>7. PlaceWritten(w, q, r)'  BY <1>1, WrittenMoves
<1>. QED  BY <1>2, <1>3, <1>4, <1>5, <1>6, <1>7 DEF Progress

\* A page erase that fails: the cells it was still to erase are excused
LEMMA ProgressDrops ==
  ASSUME mem \in [Cells -> Values],
         NEW w, NEW P, NEW j, NEW i, NEW x, Nears(w, P, j, i, x),
         Did(x) \/ UNCHANGED <<mem, rate>>,
         P[j].cmd = CMD_FLASH_PAGE_ERASE, ctl.excused \subseteq ctl'.excused,
         \A s \in 1 .. Len(P[j].steps) :
           s > i /\ P[j].steps[s].do = "page" => PageOf(P[j].steps[s].at) \subseteq ctl'.excused,
         Progress(w, j, i)
  PROVE  Progress(w, j + 1, 0)'
<1>1. /\ w \in WritePlans /\ x \in Steps /\ P \in Seq(CallRecords) /\ j \in 1 .. Len(P)
      /\ i \in Nat /\ At(w, P[j], j, i, x) /\ P = WriteCalls(w)
  BY NextFacts DEF Nears
<1>2. j \in Nat  BY <1>1, LenProperties
<1>3. AtPages(w, P[j], j, i, x)  BY <1>1 DEF At
<1>4. w.type = "flash" /\ w.erase = "page" /\ j <= Erases(w)  BY <1>3 DEF AtPages
<1>5. /\ Erases(w) \in Nat /\ Before(w) \in Nat /\ Filled(w) \in Nat
      /\ Erases(w) + 1 <= Before(w) /\ Before(w) <= Filled(w)
      /\ \A k \in 1 .. Len(w.image) :
           Filling(w, k) \in Nat /\ Before(w) + 1 <= Filling(w, k)
  BY <1>1, <1>4, Order
<1>6. /\ PlaceRate(w, j) /\ PlaceNvm(w, j, i) /\ PlaceBlank(w, j, i)  BY DEF Progress
<1>7. \A m \in 1 .. Erases(w) : P[m] = Erasing(w)[m]  BY <1>1, PlanFacts
<1>8. x.do \in {"select", "page"}
  <2>1. CASE i > 1  BY <1>3, <2>1 DEF AtPages, Select
  <2>2. CASE i = 1  BY <1>3, <2>2 DEF AtPages, Select
  <2>3. CASE i = 0  BY <1>3, <2>3 DEF AtPages, Select
  <2>. QED  BY <1>1, <2>1, <2>2, <2>3
<1>9. rate' = rate  BY <1>8 DEF Did
<1>10. PlaceRate(w, j + 1)'
  <2> SUFFICES ASSUME j + 1 <= Filled(w), w.baud = 0 \/ j + 1 > Erases(w) + 1
               PROVE  rate' = ActualRate(IF w.baud = 0 THEN NormalBaudrate ELSE w.baud)
    BY DEF PlaceRate
  <2>1. w.baud = 0 /\ j <= Filled(w)  BY <1>2, <1>4, <1>5
  <2>. QED  BY <1>6, <1>9, <2>1 DEF PlaceRate
<1>11. PlaceWaits(w, j + 1)'
  <2>1. ~(j + 1 > Before(w))  BY <1>2, <1>4, <1>5
  <2>. QED  BY <2>1 DEF PlaceWaits
<1>12. PlaceNvm(w, j + 1, 0)'
  <2>1. ~Behind(Before(w), 2, j + 1, 0)  BY <1>2, <1>4, <1>5 DEF Behind
  <2>2. ~(0 >= 2)  OBVIOUS
  <2>. QED  BY <1>4, <2>1, <2>2 DEF PlaceNvm
<1>13. PlacePtr(w, j + 1, 0)'
  <2>1. \A k \in 1 .. Len(w.image) : j + 1 # Filling(w, k)  BY <1>2, <1>4, <1>5
  <2>. QED  BY <2>1 DEF PlacePtr
<1>14. \A p \in Places(w) : ~Reached(w, p, j, i) /\ ~Reached(w, p, j + 1, 0)
  <2> SUFFICES ASSUME NEW p \in Places(w)
               PROVE  ~Reached(w, p, j, i) /\ ~Reached(w, p, j + 1, 0)
    OBVIOUS
  <2>1. p[1] \in 1 .. Len(w.image)  BY <1>1, PlaceFacts
  <2>2. Filling(w, p[1]) \in Nat /\ j + 1 < Filling(w, p[1])  BY <1>2, <1>4, <1>5, <2>1
  <2>. QED  BY <1>2, <2>2 DEF Reached, Behind
<1>15. PlaceWritten(w, j + 1, 0)'
  <2> SUFFICES ASSUME NEW p \in Places(w), Reached(w, p, j + 1, 0)
               PROVE  mem'[Where(w, p)] = w.image[p[1]].data[p[2]]
    BY DEF PlaceWritten
  <2>. QED  BY <1>14
<1>16. PlaceBlank(w, j + 1, 0)'
  <2> SUFFICES ASSUME NEW c \in Flash \ ctl'.excused, Wiped(w, c, j + 1, 0)
               PROVE  mem'[c] = Blank
    BY DEF PlaceBlank
  <2>1. PICK m \in 1 .. Erases(w) : \E s \in 1 .. Len(Erasing(w)[m].steps) :
          Behind(m, s, j + 1, 0) /\ Blanks(Erasing(w)[m].steps[s], c)
    BY DEF Wiped
  <2>2. PICK s \in 1 .. Len(Erasing(w)[m].steps) :
          Behind(m, s, j + 1, 0) /\ Blanks(Erasing(w)[m].steps[s], c)
    BY <2>1
  <2>3. m \in Nat /\ s \in Nat
    <3>1. Erasing(w) \in Seq(CallRecords) /\ m \in 1 .. Len(Erasing(w))
      BY <1>1, ErasingFacts DEF Erases
    <3>2. Len(Erasing(w)[m].steps) \in Nat  BY <3>1, CallFacts
    <3>. QED  BY <1>5, <3>2
  <2>4. m < j \/ m = j  BY <1>2, <2>2, <2>3 DEF Behind
  <2>5. Behind(m, s, j, i)
    <3>1. ASSUME m = j, s > i  PROVE FALSE
      <4> DEFINE y == P[j].steps[s]
      <4>1. Blanks(y, c) /\ s \in 1 .. Len(P[j].steps)  BY <1>7, <2>2, <3>1
      <4>2. y.do # "chip"
        <5>1. j - 0 = j /\ s - 1 \in Nat /\ (s - 1) + 1 = s  BY <1>1, <1>2, <2>3, <3>1
        <5>2. PlanStep(w, P[j], j, s, y)  BY <1>1, <4>1, PlanSteps
        <5>. QED  BY <1>4, <5>2 DEF PlanStep
      <4>3. y.do = "page" /\ c \in PageOf(y.at)  BY <4>1, <4>2 DEF Blanks
      <4>4. PageOf(y.at) \subseteq ctl'.excused  BY <3>1, <4>1, <4>3
      <4>. QED  BY <4>3, <4>4
    <3>. QED  BY <1>1, <2>3, <2>4, <3>1 DEF Behind
  <2>6. Wiped(w, c, j, i)  BY <2>2, <2>5 DEF Wiped
  <2>7. Untouched(w, c, j, i)  BY <1>14 DEF Untouched
  <2>8. mem[c] = Blank  BY <1>6, <2>6, <2>7 DEF PlaceBlank
  <2>9. mem'[c] \in {Blank, mem[c]}
    <3>1. CASE UNCHANGED <<mem, rate>>  BY <3>1
    <3>2. CASE Did(x) /\ x.do = "page"  BY <1>6, <3>2, PageStep
    <3>3. CASE Did(x) /\ x.do = "select"  BY <3>3 DEF Did
    <3>. QED  BY <1>8, <3>1, <3>2, <3>3
  <2>. QED  BY <2>8, <2>9
<1>. QED  BY <1>10, <1>11, <1>12, <1>13, <1>15, <1>16 DEF Progress

-------------------------------------------------------------------------------
(* What the calls still to make may do *)

\* Calls that reach no memory
LEMMA PlainTodo ==
  ASSUME NEW T \in Seq(CallRecords), Only(T, {"waits", "baud", "reset", "point", "get"}),
         NEW w, NEW n
  PROVE  Confined(w, T, n) /\ Free(T, Fillers)
<1>1. Free(T, Erasers) /\ Free(T, Fillers)
  <2>1. \A s \in Erasers : s.do \notin {"waits", "baud", "reset", "point", "get"}  BY DEF Erasers
  <2>2. \A s \in Fillers : s.do \notin {"waits", "baud", "reset", "point", "get"}  BY DEF Fillers
  <2>. QED  BY <2>1, <2>2, OnlyFree
<1>2. AllLawful(w, T)  BY DEF AllLawful, Lawful, Only
<1>3. ASSUME NEW k \in 1 .. Len(T)  PROVE T[k].cmd # CMD_FLASH_PAGE_ERASE
  <2>1. T[k] \in CallRecords /\ Len(T[k].steps) \in Nat \ {0}  BY CallFacts
  <2>2. 1 \in 1 .. Len(T[k].steps)  BY <2>1
  <2>3. T[k].steps[1].do \in {"waits", "baud", "reset", "point", "get"}  BY <2>2 DEF Only
  <2>4. T[k].steps[1].do \notin {"select", "page"}  BY <2>3
  <2>. QED  BY <2>1, <2>2, <2>4, NotPages
<1>. QED  BY <1>1, <1>2, <1>3 DEF Confined, Guarded

LEMMA NoTodo ==
  ASSUME NEW w, NEW n
  PROVE  Confined(w, << >>, n) /\ Free(<< >>, Fillers)
<1>1. << >> \in Seq(CallRecords) /\ Only(<< >>, {"waits", "baud", "reset", "point", "get"})
  BY Nothing
<1>. QED  BY <1>1, PlainTodo

LEMMA FreeMoves ==
  ASSUME NEW T \in Seq(CallRecords), T # << >>, NEW kind, Free(T, kind)
  PROVE  /\ Free(Advance(T), kind) /\ Free(Tail(T), kind) /\ Free(<< T[1] >>, kind)
         /\ T[1].steps[1] \notin kind
<1>1. Len(T) \in Nat \ {0} /\ Len(Advance(T)) = Len(T) - Done(T) /\ Done(T) \in {0, 1}
  BY AdvanceFacts DEF Done
<1>2. Free(Advance(T), kind)
  <2> SUFFICES ASSUME NEW j \in 1 .. Len(Advance(T))  PROVE ~Has(Advance(T)[j], kind)
    BY DEF Free
  <2>1. j + Done(T) \in 1 .. Len(T)  BY <1>1
  <2>2. ~Has(T[j + Done(T)], kind)  BY <2>1 DEF Free
  <2>. QED  BY <2>2, HasMoves
<1>3. Free(Tail(T), kind)
  <2>1. Len(Tail(T)) = Len(T) - 1 /\ \A j \in 1 .. Len(T) - 1 : Tail(T)[j] = T[j + 1]
    BY TailFacts
  <2>. QED  BY <1>1, <2>1 DEF Free
<1>4. 1 \in 1 .. Len(T) /\ ~Has(T[1], kind)  BY <1>1 DEF Free
<1>5. Free(<< T[1] >>, kind)  BY <1>4 DEF Free
<1>6. T[1].steps[1] \notin kind  BY <1>4, HasMoves
<1>. QED  BY <1>2, <1>3, <1>5, <1>6

LEMMA LawfulMoves ==
  ASSUME NEW T \in Seq(CallRecords), T # << >>, NEW w, AllLawful(w, T)
  PROVE  /\ AllLawful(w, Advance(T)) /\ AllLawful(w, Tail(T)) /\ AllLawful(w, << T[1] >>)
         /\ Lawful(w, T[1].steps[1])
<1>1. /\ Len(T) \in Nat \ {0} /\ Len(T[1].steps) \in Nat \ {0} /\ Done(T) \in {0, 1}
      /\ Len(Advance(T)) = Len(T) - Done(T)
      /\ \A j \in 1 .. Len(Advance(T)) :
           IF Done(T) = 0 /\ j = 1
             THEN /\ Advance(T)[1].cmd = T[1].cmd
                  /\ Len(Advance(T)[1].steps) = Len(T[1].steps) - 1
                  /\ \A i \in 1 .. Len(T[1].steps) - 1 :
                       Advance(T)[1].steps[i] = T[1].steps[i + 1]
             ELSE Advance(T)[j] = T[j + Done(T)]
  BY AdvanceFacts DEF Done
<1>2. AllLawful(w, Advance(T))
  <2> SUFFICES ASSUME NEW j \in 1 .. Len(Advance(T)), NEW i \in 1 .. Len(Advance(T)[j].steps)
               PROVE  Lawful(w, Advance(T)[j].steps[i])
    BY DEF AllLawful
  <2>1. CASE Done(T) = 0 /\ j = 1
    <3>1. /\ Len(Advance(T)[1].steps) = Len(T[1].steps) - 1
          /\ \A l \in 1 .. Len(T[1].steps) - 1 : Advance(T)[1].steps[l] = T[1].steps[l + 1]
      BY <1>1, <2>1
    <3>2. i \in 1 .. Len(T[1].steps) - 1 /\ i + 1 \in 1 .. Len(T[1].steps) /\ 1 \in 1 .. Len(T)
      BY <1>1, <2>1, <3>1
    <3>3. Advance(T)[j].steps[i] = T[1].steps[i + 1]  BY <2>1, <3>1, <3>2
    <3>. QED  BY <3>2, <3>3 DEF AllLawful
  <2>2. CASE ~(Done(T) = 0 /\ j = 1)
    <3>1. Advance(T)[j] = T[j + Done(T)] /\ j + Done(T) \in 1 .. Len(T)  BY <1>1, <2>2
    <3>. QED  BY <3>1 DEF AllLawful
  <2>. QED  BY <2>1, <2>2
<1>3. AllLawful(w, Tail(T))
  <2>1. Len(Tail(T)) = Len(T) - 1 /\ \A j \in 1 .. Len(T) - 1 : Tail(T)[j] = T[j + 1]
    BY TailFacts
  <2> SUFFICES ASSUME NEW j \in 1 .. Len(Tail(T)), NEW i \in 1 .. Len(Tail(T)[j].steps)
               PROVE  Lawful(w, Tail(T)[j].steps[i])
    BY DEF AllLawful
  <2>2. Tail(T)[j] = T[j + 1] /\ j + 1 \in 1 .. Len(T)  BY <1>1, <2>1
  <2>. QED  BY <2>2 DEF AllLawful
<1>4. 1 \in 1 .. Len(T) /\ 1 \in 1 .. Len(T[1].steps)  BY <1>1
<1>5. AllLawful(w, << T[1] >>)  BY <1>4 DEF AllLawful
<1>. QED  BY <1>2, <1>3, <1>4, <1>5 DEF AllLawful

LEMMA ConfinedMoves ==
  ASSUME NEW T \in Seq(CallRecords), T # << >>, NEW w, NEW n, NEW m, Confined(w, T, n),
         n # "EEERWR" /\ T[1].steps[1] \notin EepromSel => m # "EEERWR"
  PROVE  Confined(w, Advance(T), m) /\ Confined(w, Tail(T), m) /\ Confined(w, << T[1] >>, m)
<1>1. AllLawful(w, T) /\ Guarded(T, n)  BY DEF Confined
<1>2. AllLawful(w, Advance(T)) /\ AllLawful(w, Tail(T)) /\ AllLawful(w, << T[1] >>)
  BY <1>1, LawfulMoves
<1>3. Guarded(Advance(T), m) /\ Guarded(Tail(T), m) /\ Guarded(<< T[1] >>, m)
  <2>1. CASE Free(T, Erasers)  BY <2>1, FreeMoves DEF Guarded
  <2>2. CASE n # "EEERWR" /\ Free(T, EepromSel)
    <3>1. /\ Free(Advance(T), EepromSel) /\ Free(Tail(T), EepromSel)
          /\ Free(<< T[1] >>, EepromSel) /\ T[1].steps[1] \notin EepromSel
      BY <2>2, FreeMoves
    <3>2. m # "EEERWR"  BY <2>2, <3>1
    <3>. QED  BY <3>1, <3>2 DEF Guarded
  <2>. QED  BY <1>1, <2>1, <2>2 DEF Guarded
<1>4. ASSUME w.tag # "W"
      PROVE  /\ \A k \in 1 .. Len(Advance(T)) : Advance(T)[k].cmd # CMD_FLASH_PAGE_ERASE
             /\ \A k \in 1 .. Len(Tail(T)) : Tail(T)[k].cmd # CMD_FLASH_PAGE_ERASE
             /\ \A k \in 1 .. Len(<< T[1] >>) : << T[1] >>[k].cmd # CMD_FLASH_PAGE_ERASE
  <2>1. \A k \in 1 .. Len(T) : T[k].cmd # CMD_FLASH_PAGE_ERASE  BY <1>4 DEF Confined
  <2>2. /\ Len(T) \in Nat \ {0} /\ Done(T) \in {0, 1} /\ Len(Advance(T)) = Len(T) - Done(T)
        /\ \A j \in 1 .. Len(Advance(T)) :
             IF Done(T) = 0 /\ j = 1 THEN Advance(T)[1].cmd = T[1].cmd
                                     ELSE Advance(T)[j] = T[j + Done(T)]
    BY AdvanceFacts DEF Done
  <2>3. \A k \in 1 .. Len(Advance(T)) : Advance(T)[k].cmd # CMD_FLASH_PAGE_ERASE
    <3> SUFFICES ASSUME NEW k \in 1 .. Len(Advance(T))
                 PROVE  Advance(T)[k].cmd # CMD_FLASH_PAGE_ERASE
      OBVIOUS
    <3>1. 1 \in 1 .. Len(T) /\ k + Done(T) \in 1 .. Len(T)  BY <2>2
    <3>2. Advance(T)[k].cmd = T[1].cmd \/ Advance(T)[k] = T[k + Done(T)]  BY <2>2
    <3>. QED  BY <2>1, <3>1, <3>2
  <2>4. \A k \in 1 .. Len(Tail(T)) : Tail(T)[k].cmd # CMD_FLASH_PAGE_ERASE
    <3>1. Len(Tail(T)) = Len(T) - 1 /\ \A j \in 1 .. Len(T) - 1 : Tail(T)[j] = T[j + 1]
      BY TailFacts
    <3>. QED  BY <2>1, <2>2, <3>1
  <2>5. 1 \in 1 .. Len(T)  BY <2>2
  <2>6. \A k \in 1 .. Len(<< T[1] >>) : << T[1] >>[k].cmd # CMD_FLASH_PAGE_ERASE  BY <2>1, <2>5
  <2>. QED  BY <2>3, <2>4, <2>6
<1>. QED  BY <1>2, <1>3, <1>4 DEF Confined

\* Only one step selects the command that writes EEPROM
LEMMA NvmKept ==
  ASSUME NEW x \in Steps, Did(x) \/ UNCHANGED nvm, nvm # "EEERWR", x \notin EepromSel
  PROVE  nvm' # "EEERWR"
<1>1. CASE UNCHANGED nvm  BY <1>1
<1>2. CASE Did(x)
  <2>1. CASE x.do = "select"
    <3>1. x.cmd # "EEERWR"
      <4>1. x = [do |-> "select", cmd |-> x.cmd]  BY <2>1 DEF Steps
      <4>. QED  BY <4>1 DEF EepromSel
    <3>2. nvm' = Selected(x.cmd)  BY <1>2, <2>1 DEF Did
    <3>. QED  BY <3>1, <3>2 DEF Selected
  <2>2. CASE x.do # "select"
    <3>1. nvm' = nvm \/ nvm' = "NONE"  BY <1>2, <2>2, StepFacts DEF Did
    <3>. QED  BY <3>1
  <2>. QED  BY <2>1, <2>2
<1>. QED  BY <1>1, <1>2

\* A step touches nothing but what the operation may change
LEMMA EffectSafe ==
  ASSUME mem \in [Cells -> Values], NEW w, NEW x \in Steps, Did(x), Lawful(w, x),
         x.do = "page" => nvm # "EEERWR",
         x.do = "put"  => ptr \in Footprint(w) \cup (Nat \ Cells) /\ nvm # "FLPER",
         x.do = "putat" => x.at \in Footprint(w) \cup (Nat \ Cells) /\ nvm # "FLPER",
         NEW c \in Cells \ Footprint(w)
  PROVE  mem'[c] = mem[c]
<1>1. CASE x.do = "chip"
  <2>1. mem' \in ChipErased  BY <1>1 DEF Did
  <2>2. c \notin Flash \cup Eeprom  BY <1>1 DEF Lawful
  <2>. QED  BY <2>1, <2>2, ErasedAt
<1>2. CASE x.do = "page"
  <2> DEFINE a == x.at
             e == FALSE
  <2>1. mem' \in Stored(a, Blank, e) /\ Blank \in Values /\ e \in BOOLEAN
    BY <1>2 DEF Did, Values
  <2>2. /\ a \in Flash => PageOf(a) \subseteq Footprint(w)
        /\ a \in Ram => a \in Footprint(w)
    BY <1>2 DEF Lawful
  <2> HIDE DEF a, e
  <2>3. StoreMakes(mem', a, Blank, e)  BY <2>1, StoredAt
  <2>4. CASE a \in Eeprom  BY <1>2, <2>3, <2>4 DEF StoreMakes
  <2>5. CASE a \notin Eeprom
    <3>1. c # a
      <4>1. a \in Flash => a \in PageOf(a)  BY DEF PageOf
      <4>. QED  BY <2>2, <2>5, <4>1 DEF Cells
    <3>2. ~(a \in Flash /\ c \in PageOf(a))  BY <2>2
    <3>. QED  BY <2>3, <3>1, <3>2 DEF StoreMakes
  <2>. QED  BY <2>4, <2>5
<1>3. CASE x.do = "put"
  <2> DEFINE v == x.byte
             e == ~Slow(rate)
  <2>1. mem' \in Stored(ptr, v, e) /\ v \in Values /\ e \in BOOLEAN
    BY <1>3, StepFacts DEF Did
  <2> HIDE DEF v, e
  <2>2. StoreMakes(mem', ptr, v, e)  BY <2>1, StoredAt
  <2>3. c # ptr  BY <1>3
  <2>. QED  BY <1>3, <2>2, <2>3 DEF StoreMakes
<1>4. CASE x.do = "putat"
  <2> DEFINE v == x.byte
             a == x.at
             e == ~waits
  <2>1. mem' \in Stored(a, v, e) /\ v \in Values /\ e \in BOOLEAN
    BY <1>4, StepFacts DEF Did
  <2>2. c # a  BY <1>4
  <2> HIDE DEF v, a, e
  <2>3. StoreMakes(mem', a, v, e)  BY <2>1, StoredAt
  <2>. QED  BY <1>4, <2>2, <2>3 DEF StoreMakes
<1>5. CASE x.do \notin {"chip", "page", "put", "putat"}
  <2>1. mem' = mem  BY <1>5, StepFacts DEF Did
  <2>. QED  BY <2>1
<1>. QED  BY <1>1, <1>2, <1>3, <1>4, <1>5
=============================================================================

---------------------------- MODULE OperationsProofs ----------------------------
(***************************************************************************)
(* What Operations leaves behind and what it relies on, proved for every   *)
(* chain of operations and every device.  What the calls still to make     *)
(* will do is said of the list of calls (Settles, Prepared, Paced), shown  *)
(* for the calls of each operation, and kept when a step of it is taken.   *)
(***************************************************************************)
EXTENDS Operations, SequenceTheorems, TLAPS

\* The steps of a page erase, the only call whose failure does not end the session
PageSteps == [do : {"select"}, cmd : {"NOOP", "FLPER"}] \cup [do : {"page"}, at : Nat]

\* and of the calls that write
PutSteps   == [do : {"put"}, byte : Values]
PutAtSteps == [do : {"putat"}, at : Nat, byte : Values]

CallRecords ==
  {c \in [cmd : Nat, steps : Seq(Steps)] :
     /\ c.steps # << >>
     /\ c.cmd = CMD_FLASH_PAGE_ERASE => c.steps \in Seq(PageSteps)
     /\ c.cmd = CMD_SENDBLOCK => c.steps \in Seq(PutSteps)
     /\ c.cmd = CMD_SENDBYTE => c.steps \in Seq(PutAtSteps)}

Has(call, kind) == \E i \in 1 .. Len(call.steps) : call.steps[i] \in kind

Free(calls, kind) == \A k \in 1 .. Len(calls) : ~Has(calls[k], kind)

\* Some call makes it so, and neither it nor a later one spoils it
Restores(calls, makes, spoils) ==
  \E k \in 1 .. Len(calls) :
    Has(calls[k], makes) /\ \A j \in k .. Len(calls) : ~Has(calls[j], spoils)

\* When the calls are made, v will be one of good: it is, and nothing spoils it, or it is
\* made so
Settles(calls, v, good, makes, spoils) ==
  \/ v \in good /\ Free(calls, spoils)
  \/ Restores(calls, makes, spoils)

\* A command is selected when another one is cleared, or none is selected and none will be
Selecting == [do : {"select"}, cmd : NvmCommands \ Passive]
Clearing  == [do : {"select"}, cmd : Passive]
Prepared(calls, selected) ==
  \A k \in 1 .. Len(calls) : \A i \in 1 .. Len(calls[k].steps) :
    calls[k].steps[i] \in Selecting =>
      \/ i > 1 /\ calls[k].steps[i - 1] \in Clearing
      \/ i = 1 /\ selected \in Passive /\ \A j \in 1 .. k - 1 : ~Has(calls[j], Selecting)

\* When a byte is stored the rate is slow: it is, or is made so, and not made fast before
Storing  == [do : {"put"}, byte : Values]
Slowing  == {s \in [do : {"baud"}, to : Nat \ {0}] : Slow(ActualRate(s.to))}
Speeding == {s \in [do : {"baud"}, to : Nat \ {0}] : ~Slow(ActualRate(s.to))}
Paced(calls, r) ==
  \A k \in 1 .. Len(calls) : Has(calls[k], Storing) =>
    /\ \A j \in 1 .. k : ~Has(calls[j], Speeding)
    /\ Slow(r) \/ \E j \in 1 .. k - 1 : Has(calls[j], Slowing)

\* Flash is not going to be written
Programming == [do : {"select"}, cmd : {"FLWR"}]
Unwritten(calls, selected) ==
  selected # "FLWR" /\ Free(calls, Programming)

-------------------------------------------------------------------------------
(* Taking a step of a list of calls *)

Advance(calls) == IF Len(calls[1].steps) = 1 THEN Tail(calls)
                  ELSE [calls EXCEPT ![1].steps = Tail(@)]

\* How many calls the step completes
Done(calls) == IF Len(calls[1].steps) = 1 THEN 1 ELSE 0

LEMMA TailFacts ==
  ASSUME NEW S, NEW s \in Seq(S), s # << >>
  PROVE  /\ Len(s) \in Nat \ {0} /\ Tail(s) \in Seq(S) /\ Len(Tail(s)) = Len(s) - 1
         /\ \A i \in 1 .. Len(s) - 1 : Tail(s)[i] = s[i + 1]
<1>1. Len(s) \in Nat \ {0}  BY EmptySeq, LenProperties
<1>. QED  BY <1>1, HeadTailProperties

LEMMA AdvanceFacts ==
  ASSUME NEW T \in Seq(CallRecords), T # << >>
  PROVE  /\ Len(T) \in Nat \ {0} /\ T[1] \in CallRecords /\ T[1].steps[1] \in Steps
         /\ Len(T[1].steps) \in Nat \ {0}
         /\ Advance(T) \in Seq(CallRecords)
         /\ Len(Advance(T)) = Len(T) - Done(T)
         /\ \A j \in 1 .. Len(Advance(T)) :
              IF Done(T) = 0 /\ j = 1
                THEN /\ Advance(T)[1].cmd = T[1].cmd
                     /\ Len(Advance(T)[1].steps) = Len(T[1].steps) - 1
                     /\ \A i \in 1 .. Len(T[1].steps) - 1 :
                          Advance(T)[1].steps[i] = T[1].steps[i + 1]
                ELSE Advance(T)[j] = T[j + Done(T)]
<1>1. /\ Len(T) \in Nat \ {0} /\ Tail(T) \in Seq(CallRecords) /\ Len(Tail(T)) = Len(T) - 1
      /\ \A i \in 1 .. Len(T) - 1 : Tail(T)[i] = T[i + 1]
  BY TailFacts
<1>2. T[1] \in CallRecords  BY <1>1, ElementOfSeq
<1>3. /\ T[1] \in [cmd : Nat, steps : Seq(Steps)] /\ T[1].steps # << >>
      /\ T[1].cmd = CMD_FLASH_PAGE_ERASE => T[1].steps \in Seq(PageSteps)
      /\ T[1].cmd = CMD_SENDBLOCK => T[1].steps \in Seq(PutSteps)
      /\ T[1].cmd = CMD_SENDBYTE => T[1].steps \in Seq(PutAtSteps)
  BY <1>2 DEF CallRecords
<1> DEFINE r == T[1].steps
<1>4. /\ Len(r) \in Nat \ {0} /\ Tail(r) \in Seq(Steps) /\ Len(Tail(r)) = Len(r) - 1
      /\ \A i \in 1 .. Len(r) - 1 : Tail(r)[i] = r[i + 1]
  BY <1>3, TailFacts
<1>5. r[1] \in Steps  BY <1>3, <1>4, ElementOfSeq
<1>6. CASE Len(r) = 1
  <2>1. Advance(T) = Tail(T) /\ Done(T) = 1  BY <1>6 DEF Advance, Done
  <2>. QED  BY <2>1, <1>1, <1>2, <1>4, <1>5
<1>7. CASE Len(r) # 1
  <2> DEFINE h == [T[1] EXCEPT !.steps = Tail(@)]
  <2>1. Advance(T) = [T EXCEPT ![1] = h] /\ Done(T) = 0  BY <1>7 DEF Advance, Done
  <2>2. h.cmd = T[1].cmd /\ h.steps = Tail(r) /\ h \in [cmd : Nat, steps : Seq(Steps)]
    BY <1>3, <1>4
  <2>3. Tail(r) # << >>
    <3>1. Len(Tail(r)) # 0  BY <1>4, <1>7
    <3>. QED  BY <3>1, <1>4, EmptySeq
  <2>4. /\ h.cmd = CMD_FLASH_PAGE_ERASE => Tail(r) \in Seq(PageSteps)
        /\ h.cmd = CMD_SENDBLOCK => Tail(r) \in Seq(PutSteps)
        /\ h.cmd = CMD_SENDBYTE => Tail(r) \in Seq(PutAtSteps)
    BY <1>3, <2>2, TailFacts
  <2>5. h \in CallRecords  BY <2>2, <2>3, <2>4 DEF CallRecords
  <2>6. /\ Advance(T) \in Seq(CallRecords) /\ Len(Advance(T)) = Len(T)
        /\ \A j \in 1 .. Len(T) : Advance(T)[j] = IF j = 1 THEN h ELSE T[j]
    BY <2>1, <2>5, <1>1, ExceptSeq
  <2>. QED  BY <2>1, <2>2, <2>6, <1>1, <1>2, <1>4, <1>5
<1>. QED  BY <1>6, <1>7

\* A call that is still to be made has what it had before, but for the step taken
LEMMA HasMoves ==
  ASSUME NEW T \in Seq(CallRecords), T # << >>, NEW kind
  PROVE  /\ \A j \in 1 .. Len(Advance(T)) :
              /\ Has(Advance(T)[j], kind) => Has(T[j + Done(T)], kind)
              /\ Has(T[j + Done(T)], kind) /\ ~(j + Done(T) = 1 /\ T[1].steps[1] \in kind)
                   => Has(Advance(T)[j], kind)
         /\ Done(T) = 1 /\ Has(T[1], kind) => T[1].steps[1] \in kind
         /\ T[1].steps[1] \in kind => Has(T[1], kind)
<1> DEFINE A == Advance(T)
<1>1. /\ Len(T) \in Nat \ {0} /\ Len(T[1].steps) \in Nat \ {0} /\ A \in Seq(CallRecords)
      /\ Len(A) = Len(T) - Done(T) /\ Done(T) \in {0, 1}
      /\ Done(T) = 1 <=> Len(T[1].steps) = 1
      /\ \A j \in 1 .. Len(A) :
           IF Done(T) = 0 /\ j = 1
             THEN /\ Len(A[1].steps) = Len(T[1].steps) - 1
                  /\ \A i \in 1 .. Len(T[1].steps) - 1 : A[1].steps[i] = T[1].steps[i + 1]
             ELSE A[j] = T[j + Done(T)]
  BY AdvanceFacts DEF Done
<1>2. ASSUME NEW j \in 1 .. Len(A)
      PROVE  /\ Has(A[j], kind) => Has(T[j + Done(T)], kind)
             /\ Has(T[j + Done(T)], kind) /\ ~(j + Done(T) = 1 /\ T[1].steps[1] \in kind)
                  => Has(A[j], kind)
  <2>1. CASE Done(T) = 0 /\ j = 1
    <3>1. /\ Len(A[1].steps) = Len(T[1].steps) - 1
          /\ \A i \in 1 .. Len(T[1].steps) - 1 : A[1].steps[i] = T[1].steps[i + 1]
      BY <1>1, <2>1
    <3>2. Has(A[1], kind) => Has(T[1], kind)
      <4> SUFFICES ASSUME NEW i \in 1 .. Len(A[1].steps), A[1].steps[i] \in kind
                   PROVE  Has(T[1], kind)
        BY DEF Has
      <4>1. i + 1 \in 1 .. Len(T[1].steps) /\ T[1].steps[i + 1] \in kind  BY <1>1, <3>1
      <4>. QED  BY <4>1 DEF Has
    <3>3. Has(T[1], kind) /\ T[1].steps[1] \notin kind => Has(A[1], kind)
      <4> SUFFICES ASSUME NEW i \in 1 .. Len(T[1].steps), T[1].steps[i] \in kind,
                          T[1].steps[1] \notin kind
                   PROVE  Has(A[1], kind)
        BY DEF Has
      <4>1. i - 1 \in 1 .. Len(A[1].steps) /\ A[1].steps[i - 1] \in kind
        <5>1. i # 1  OBVIOUS
        <5>2. i - 1 \in 1 .. Len(T[1].steps) - 1  BY <5>1, <1>1
        <5>3. A[1].steps[i - 1] = T[1].steps[(i - 1) + 1]  BY <5>2, <3>1
        <5>4. (i - 1) + 1 = i  BY <1>1
        <5>. QED  BY <5>2, <5>3, <5>4, <3>1
      <4>. QED  BY <4>1 DEF Has
    <3>. QED  BY <2>1, <3>2, <3>3
  <2>2. CASE ~(Done(T) = 0 /\ j = 1)  BY <2>2, <1>1
  <2>. QED  BY <2>1, <2>2
<1>3. Done(T) = 1 /\ Has(T[1], kind) => T[1].steps[1] \in kind  BY <1>1 DEF Has
<1>4. T[1].steps[1] \in kind => Has(T[1], kind)  BY <1>1 DEF Has
<1>. QED  BY <1>2, <1>3, <1>4

\* A step taken leaves the rest to settle, if it makes what it is to make and spoils nothing
\* it is not to spoil
LEMMA SettlesAdvance ==
  ASSUME NEW T \in Seq(CallRecords), T # << >>, NEW v, NEW w, NEW good, NEW makes, NEW spoils,
         Settles(T, v, good, makes, spoils),
         T[1].steps[1] \in makes => w \in good,
         v \in good /\ T[1].steps[1] \notin spoils => w \in good
  PROVE  Settles(Advance(T), w, good, makes, spoils)
<1> DEFINE A == Advance(T)
<1>1. /\ Len(T) \in Nat \ {0} /\ Len(A) = Len(T) - Done(T) /\ Done(T) \in {0, 1}
      /\ A \in Seq(CallRecords)
  BY AdvanceFacts DEF Done
<1>2. /\ \A j \in 1 .. Len(A) : Has(A[j], spoils) => Has(T[j + Done(T)], spoils)
      /\ T[1].steps[1] \in spoils => Has(T[1], spoils)
  BY HasMoves
<1>3. /\ \A j \in 1 .. Len(A) :
           Has(T[j + Done(T)], makes) /\ ~(j + Done(T) = 1 /\ T[1].steps[1] \in makes)
             => Has(A[j], makes)
      /\ Done(T) = 1 /\ Has(T[1], makes) => T[1].steps[1] \in makes
  BY HasMoves
<1>4. \A j \in 1 .. Len(A) : j + Done(T) \in 1 .. Len(T)  BY <1>1, LenProperties
<1>5. CASE v \in good /\ \A k \in 1 .. Len(T) : ~Has(T[k], spoils)
  <2>1. 1 \in 1 .. Len(T)  BY <1>1
  <2>2. w \in good  BY <1>5, <1>2, <2>1
  <2>. QED  BY <1>5, <1>2, <1>4, <2>2 DEF Settles, Free, Restores
<1>6. CASE \E k \in 1 .. Len(T) :
             Has(T[k], makes) /\ \A j \in k .. Len(T) : ~Has(T[j], spoils)
  <2>1. PICK k \in 1 .. Len(T) :
               Has(T[k], makes) /\ \A j \in k .. Len(T) : ~Has(T[j], spoils)
    BY <1>6
  <2>2. CASE k = 1 /\ T[1].steps[1] \in makes
    <3>1. \A j \in 1 .. Len(A) : ~Has(A[j], spoils)  BY <2>1, <2>2, <1>2, <1>4
    <3>. QED  BY <3>1, <2>2 DEF Settles, Free, Restores
  <2>3. CASE ~(k = 1 /\ T[1].steps[1] \in makes)
    <3> DEFINE m == k - Done(T)
    <3>1. ~(k = 1 /\ Done(T) = 1)  BY <2>1, <2>3, <1>3
    <3>2. m \in 1 .. Len(A) /\ m + Done(T) = k  BY <3>1, <1>1, LenProperties
    <3>3. Has(A[m], makes)  BY <3>2, <2>1, <2>3, <1>3
    <3>4. \A j \in m .. Len(A) : j \in 1 .. Len(A) /\ j + Done(T) \in k .. Len(T)
      BY <3>2, <1>1, LenProperties
    <3>5. \A j \in m .. Len(A) : ~Has(A[j], spoils)  BY <3>4, <2>1, <1>2
    <3>. QED  BY <3>2, <3>3, <3>5 DEF Settles, Free, Restores
  <2>. QED  BY <2>2, <2>3
<1>. QED  BY <1>5, <1>6 DEF Settles, Free, Restores

\* So does a call that is given up, if it was not the one to make it
LEMMA SettlesDrop ==
  ASSUME NEW T \in Seq(CallRecords), T # << >>, NEW v, NEW w, NEW good, NEW makes, NEW spoils,
         Settles(T, v, good, makes, spoils), ~Has(T[1], makes),
         v \in good /\ T[1].steps[1] \notin spoils => w \in good
  PROVE  Settles(Tail(T), w, good, makes, spoils)
<1>1. /\ Len(T) \in Nat \ {0} /\ Len(Tail(T)) = Len(T) - 1 /\ Tail(T) \in Seq(CallRecords)
      /\ \A j \in 1 .. Len(T) - 1 : Tail(T)[j] = T[j + 1]
  BY TailFacts
<1>2. T[1].steps[1] \in spoils => Has(T[1], spoils)  BY HasMoves
<1>3. CASE v \in good /\ \A k \in 1 .. Len(T) : ~Has(T[k], spoils)
  <2>1. 1 \in 1 .. Len(T)  BY <1>1
  <2>2. w \in good  BY <1>3, <1>2, <2>1
  <2>3. \A k \in 1 .. Len(Tail(T)) : ~Has(Tail(T)[k], spoils)  BY <1>1, <1>3
  <2>. QED  BY <2>2, <2>3 DEF Settles, Free, Restores
<1>4. CASE \E k \in 1 .. Len(T) :
             Has(T[k], makes) /\ \A j \in k .. Len(T) : ~Has(T[j], spoils)
  <2>1. PICK k \in 1 .. Len(T) :
               Has(T[k], makes) /\ \A j \in k .. Len(T) : ~Has(T[j], spoils)
    BY <1>4
  <2>2. k # 1 /\ k - 1 \in 1 .. Len(Tail(T)) /\ Tail(T)[k - 1] = T[k]  BY <2>1, <1>1
  <2>3. \A j \in k - 1 .. Len(Tail(T)) : ~Has(Tail(T)[j], spoils)
    <3> SUFFICES ASSUME NEW j \in k - 1 .. Len(Tail(T))  PROVE ~Has(Tail(T)[j], spoils)
      OBVIOUS
    <3>1. j \in 1 .. Len(T) - 1 /\ j + 1 \in k .. Len(T)  BY <1>1, <2>2
    <3>. QED  BY <3>1, <1>1, <2>1
  <2>. QED  BY <2>1, <2>2, <2>3 DEF Settles, Free, Restores
<1>. QED  BY <1>3, <1>4 DEF Settles, Free, Restores

LEMMA PreparedAdvance ==
  ASSUME NEW T \in Seq(CallRecords), T # << >>, NEW n, NEW m, Prepared(T, n),
         T[1].steps[1] \in Clearing => m \in Passive,
         n \in Passive /\ T[1].steps[1] \notin Selecting => m \in Passive
  PROVE  Prepared(Advance(T), m)
<1> DEFINE A == Advance(T)
<1>1. /\ Len(T) \in Nat \ {0} /\ Len(A) = Len(T) - Done(T) /\ Done(T) \in {0, 1}
      /\ A \in Seq(CallRecords) /\ Len(T[1].steps) \in Nat \ {0}
      /\ \A j \in 1 .. Len(A) :
           IF Done(T) = 0 /\ j = 1
             THEN /\ Len(A[1].steps) = Len(T[1].steps) - 1
                  /\ \A i \in 1 .. Len(T[1].steps) - 1 : A[1].steps[i] = T[1].steps[i + 1]
             ELSE A[j] = T[j + Done(T)]
  BY AdvanceFacts DEF Done
<1>2. /\ \A j \in 1 .. Len(A) : Has(A[j], Selecting) => Has(T[j + Done(T)], Selecting)
      /\ T[1].steps[1] \in Selecting => Has(T[1], Selecting)
  BY HasMoves
<1> SUFFICES ASSUME NEW k \in 1 .. Len(A), NEW i \in 1 .. Len(A[k].steps),
                    A[k].steps[i] \in Selecting
             PROVE  \/ i > 1 /\ A[k].steps[i - 1] \in Clearing
                    \/ i = 1 /\ m \in Passive /\ \A j \in 1 .. k - 1 : ~Has(A[j], Selecting)
  BY DEF Prepared
<1>3. CASE Done(T) = 0 /\ k = 1
  <2>1. /\ i + 1 \in 1 .. Len(T[1].steps) /\ T[1].steps[i + 1] \in Selecting /\ i + 1 > 1
        /\ i \in Nat \ {0} /\ Len(A[1].steps) = Len(T[1].steps) - 1
    BY <1>1, <1>3
  <2>2. 1 \in 1 .. Len(T)  BY <1>1
  <2>3. T[1].steps[(i + 1) - 1] \in Clearing  BY <2>1, <2>2 DEF Prepared
  <2>4. T[1].steps[i] \in Clearing
    <3>1. (i + 1) - 1 = i  BY <2>1
    <3>. QED  BY <2>3, <3>1
  <2>5. CASE i = 1
    <3>1. m \in Passive  BY <2>4, <2>5
    <3>2. \A j \in 1 .. k - 1 : ~Has(A[j], Selecting)  BY <1>3
    <3>. QED  BY <2>5, <3>1, <3>2
  <2>6. CASE i # 1
    <3>1. i - 1 \in 1 .. Len(T[1].steps) - 1 /\ (i - 1) + 1 = i /\ i > 1  BY <2>6, <2>1
    <3>2. A[1].steps[i - 1] = T[1].steps[(i - 1) + 1]  BY <3>1, <1>1, <1>3
    <3>3. A[k].steps[i - 1] \in Clearing  BY <3>1, <3>2, <2>4, <1>3
    <3>. QED  BY <3>1, <3>3
  <2>. QED  BY <2>5, <2>6
<1>4. CASE ~(Done(T) = 0 /\ k = 1)
  <2> DEFINE l == k + Done(T)
  <2>1. A[k] = T[l] /\ l \in 1 .. Len(T) /\ l # 1  BY <1>1, <1>4, LenProperties
  <2>2. \/ i > 1 /\ T[l].steps[i - 1] \in Clearing
        \/ i = 1 /\ n \in Passive /\ \A j \in 1 .. l - 1 : ~Has(T[j], Selecting)
    BY <2>1 DEF Prepared
  <2>3. CASE i > 1 /\ T[l].steps[i - 1] \in Clearing  BY <2>1, <2>3
  <2>4. CASE i = 1 /\ n \in Passive /\ \A j \in 1 .. l - 1 : ~Has(T[j], Selecting)
    <3>1. 1 \in 1 .. l - 1  BY <2>1
    <3>2. m \in Passive  BY <2>4, <3>1, <1>2
    <3>3. \A j \in 1 .. k - 1 : j \in 1 .. Len(A) /\ j + Done(T) \in 1 .. l - 1
      BY <1>1, LenProperties
    <3>4. \A j \in 1 .. k - 1 : ~Has(A[j], Selecting)  BY <3>3, <2>4, <1>2
    <3>. QED  BY <2>4, <3>2, <3>4
  <2>. QED  BY <2>2, <2>3, <2>4
<1>. QED  BY <1>3, <1>4

LEMMA PreparedDrop ==
  ASSUME NEW T \in Seq(CallRecords), T # << >>, NEW n, NEW m, Prepared(T, n),
         n \in Passive /\ T[1].steps[1] \notin Selecting => m \in Passive
  PROVE  Prepared(Tail(T), m)
<1>1. /\ Len(T) \in Nat \ {0} /\ Len(Tail(T)) = Len(T) - 1
      /\ \A j \in 1 .. Len(T) - 1 : Tail(T)[j] = T[j + 1]
  BY TailFacts
<1>2. T[1].steps[1] \in Selecting => Has(T[1], Selecting)  BY HasMoves
<1> SUFFICES ASSUME NEW k \in 1 .. Len(Tail(T)), NEW i \in 1 .. Len(Tail(T)[k].steps),
                    Tail(T)[k].steps[i] \in Selecting
             PROVE  \/ i > 1 /\ Tail(T)[k].steps[i - 1] \in Clearing
                    \/ /\ i = 1 /\ m \in Passive
                       /\ \A j \in 1 .. k - 1 : ~Has(Tail(T)[j], Selecting)
  BY DEF Prepared
<1>3. Tail(T)[k] = T[k + 1] /\ k + 1 \in 1 .. Len(T) /\ 1 \in 1 .. (k + 1) - 1  BY <1>1
<1>4. \/ i > 1 /\ T[k + 1].steps[i - 1] \in Clearing
      \/ i = 1 /\ n \in Passive /\ \A j \in 1 .. (k + 1) - 1 : ~Has(T[j], Selecting)
  BY <1>3 DEF Prepared
<1>5. CASE i = 1 /\ n \in Passive /\ \A j \in 1 .. (k + 1) - 1 : ~Has(T[j], Selecting)
  <2>1. m \in Passive  BY <1>2, <1>3, <1>5
  <2>2. \A j \in 1 .. k - 1 : j + 1 \in 1 .. (k + 1) - 1 /\ Tail(T)[j] = T[j + 1]  BY <1>1
  <2>. QED  BY <2>1, <2>2, <1>5
<1>. QED  BY <1>3, <1>4, <1>5

LEMMA PreparedFirst ==
  ASSUME NEW T \in Seq(CallRecords), T # << >>, NEW n, Prepared(T, n)
  PROVE  Prepared(<< T[1] >>, n)
<1>1. 1 \in 1 .. Len(T)  BY TailFacts
<1>. QED  BY <1>1 DEF Prepared

LEMMA PacedAdvance ==
  ASSUME NEW T \in Seq(CallRecords), T # << >>, NEW r, NEW q, Paced(T, r),
         T[1].steps[1] \in Slowing => Slow(q),
         Slow(r) /\ T[1].steps[1] \notin Speeding => Slow(q)
  PROVE  Paced(Advance(T), q)
<1> DEFINE A == Advance(T)
<1>1. /\ Len(T) \in Nat \ {0} /\ Len(A) = Len(T) - Done(T) /\ Done(T) \in {0, 1}
      /\ A \in Seq(CallRecords)
  BY AdvanceFacts DEF Done
<1>2. \A j \in 1 .. Len(A) : Has(A[j], Storing) => Has(T[j + Done(T)], Storing)  BY HasMoves
<1>3. /\ \A j \in 1 .. Len(A) : Has(A[j], Speeding) => Has(T[j + Done(T)], Speeding)
      /\ T[1].steps[1] \in Speeding => Has(T[1], Speeding)
  BY HasMoves
<1>4. /\ \A j \in 1 .. Len(A) :
           Has(T[j + Done(T)], Slowing) /\ ~(j + Done(T) = 1 /\ T[1].steps[1] \in Slowing)
             => Has(A[j], Slowing)
      /\ Done(T) = 1 /\ Has(T[1], Slowing) => T[1].steps[1] \in Slowing
  BY HasMoves
<1> SUFFICES ASSUME NEW k \in 1 .. Len(A), Has(A[k], Storing)
             PROVE  /\ \A j \in 1 .. k : ~Has(A[j], Speeding)
                    /\ Slow(q) \/ \E j \in 1 .. k - 1 : Has(A[j], Slowing)
  BY DEF Paced
<1> DEFINE l == k + Done(T)
<1>5. l \in 1 .. Len(T) /\ Has(T[l], Storing) /\ 1 \in 1 .. l  BY <1>1, <1>2, LenProperties
<1>6. /\ \A j \in 1 .. l : ~Has(T[j], Speeding)
      /\ Slow(r) \/ \E j \in 1 .. l - 1 : Has(T[j], Slowing)
  BY <1>5 DEF Paced
<1>7. \A j \in 1 .. k : ~Has(A[j], Speeding)
  <2>1. \A j \in 1 .. k : j \in 1 .. Len(A) /\ j + Done(T) \in 1 .. l  BY <1>1, LenProperties
  <2>. QED  BY <2>1, <1>3, <1>6
<1>8. CASE Slow(r)  BY <1>8, <1>3, <1>5, <1>6, <1>7
<1>9. CASE \E j \in 1 .. l - 1 : Has(T[j], Slowing)
  <2>1. PICK j \in 1 .. l - 1 : Has(T[j], Slowing)  BY <1>9
  <2>2. CASE j = 1 /\ T[1].steps[1] \in Slowing  BY <2>2, <1>7
  <2>3. CASE ~(j = 1 /\ T[1].steps[1] \in Slowing)
    <3>1. ~(j = 1 /\ Done(T) = 1)  BY <2>1, <2>3, <1>4
    <3>2. /\ j - Done(T) \in 1 .. k - 1 /\ j - Done(T) \in 1 .. Len(A)
          /\ (j - Done(T)) + Done(T) = j
      BY <3>1, <1>1, LenProperties
    <3>3. Has(A[j - Done(T)], Slowing)  BY <3>2, <2>1, <2>3, <1>4
    <3>. QED  BY <3>2, <3>3, <1>7
  <2>. QED  BY <2>2, <2>3
<1>. QED  BY <1>6, <1>8, <1>9

LEMMA PacedDrop ==
  ASSUME NEW T \in Seq(CallRecords), T # << >>, NEW r, Paced(T, r), ~Has(T[1], Slowing)
  PROVE  Paced(Tail(T), r)
<1>1. /\ Len(T) \in Nat \ {0} /\ Len(Tail(T)) = Len(T) - 1
      /\ \A j \in 1 .. Len(T) - 1 : Tail(T)[j] = T[j + 1]
  BY TailFacts
<1> SUFFICES ASSUME NEW k \in 1 .. Len(Tail(T)), Has(Tail(T)[k], Storing)
             PROVE  /\ \A j \in 1 .. k : ~Has(Tail(T)[j], Speeding)
                    /\ Slow(r) \/ \E j \in 1 .. k - 1 : Has(Tail(T)[j], Slowing)
  BY DEF Paced
<1>2. k + 1 \in 1 .. Len(T) /\ Has(T[k + 1], Storing)  BY <1>1
<1>3. /\ \A j \in 1 .. k + 1 : ~Has(T[j], Speeding)
      /\ Slow(r) \/ \E j \in 1 .. (k + 1) - 1 : Has(T[j], Slowing)
  BY <1>2 DEF Paced
<1>4. \A j \in 1 .. k : ~Has(Tail(T)[j], Speeding)
  <2>1. \A j \in 1 .. k : j + 1 \in 1 .. k + 1 /\ Tail(T)[j] = T[j + 1]  BY <1>1
  <2>. QED  BY <2>1, <1>3
<1>5. CASE \E j \in 1 .. (k + 1) - 1 : Has(T[j], Slowing)
  <2>1. PICK j \in 1 .. (k + 1) - 1 : Has(T[j], Slowing)  BY <1>5
  <2>2. j # 1  BY <2>1
  <2>3. j - 1 \in 1 .. k - 1 /\ Tail(T)[j - 1] = T[(j - 1) + 1] /\ (j - 1) + 1 = j
    BY <2>2, <1>1
  <2>. QED  BY <2>1, <2>3, <1>4
<1>. QED  BY <1>3, <1>4, <1>5

LEMMA PacedFirst ==
  ASSUME NEW T \in Seq(CallRecords), T # << >>, NEW r, Paced(T, r)
  PROVE  Paced(<< T[1] >>, r)
<1>1. 1 \in 1 .. Len(T)  BY TailFacts
<1> SUFFICES ASSUME Has(T[1], Storing)
             PROVE  ~Has(T[1], Speeding) /\ Slow(r)
  BY DEF Paced
<1>2. /\ \A j \in 1 .. 1 : ~Has(T[j], Speeding)
      /\ Slow(r) \/ \E j \in 1 .. 1 - 1 : Has(T[j], Slowing)
  BY <1>1 DEF Paced
<1>. QED  BY <1>2

LEMMA UnwrittenRest ==
  ASSUME NEW T \in Seq(CallRecords), T # << >>, NEW n, NEW m, Unwritten(T, n),
         T[1].steps[1] \notin Programming => m # "FLWR"
  PROVE  /\ Unwritten(Advance(T), m) /\ Unwritten(Tail(T), m) /\ Unwritten(<< T[1] >>, m)
<1> DEFINE A == Advance(T)
<1>1. /\ Len(T) \in Nat \ {0} /\ Len(A) = Len(T) - Done(T) /\ Done(T) \in {0, 1}
      /\ A \in Seq(CallRecords) /\ Len(Tail(T)) = Len(T) - 1
      /\ \A j \in 1 .. Len(T) - 1 : Tail(T)[j] = T[j + 1]
  BY AdvanceFacts, TailFacts DEF Done
<1>2. /\ \A j \in 1 .. Len(A) : Has(A[j], Programming) => Has(T[j + Done(T)], Programming)
      /\ T[1].steps[1] \in Programming => Has(T[1], Programming)
  BY HasMoves
<1>3. \A k \in 1 .. Len(T) : ~Has(T[k], Programming)  BY DEF Unwritten, Free
<1>4. m # "FLWR"  BY <1>1, <1>2, <1>3
<1>5. \A j \in 1 .. Len(A) : j + Done(T) \in 1 .. Len(T)  BY <1>1, LenProperties
<1>6. \A j \in 1 .. Len(Tail(T)) : j + 1 \in 1 .. Len(T) /\ Tail(T)[j] = T[j + 1]  BY <1>1
<1>7. Unwritten(A, m)  BY <1>2, <1>3, <1>4, <1>5 DEF Unwritten, Free
<1>8. Unwritten(Tail(T), m)  BY <1>3, <1>4, <1>6 DEF Unwritten, Free
<1>9. Unwritten(<< T[1] >>, m)  BY <1>1, <1>3, <1>4 DEF Unwritten, Free
<1>. QED  BY <1>7, <1>8, <1>9

-------------------------------------------------------------------------------
(* One list of calls after another *)

LEMMA JoinFacts ==
  ASSUME NEW S, NEW s \in Seq(S), NEW t \in Seq(S)
  PROVE  /\ s \o t \in Seq(S) /\ Len(s \o t) = Len(s) + Len(t)
         /\ Len(s) \in Nat /\ Len(t) \in Nat
         /\ \A i \in 1 .. Len(s) : (s \o t)[i] = s[i]
         /\ \A i \in Len(s) + 1 .. Len(s) + Len(t) : (s \o t)[i] = t[i - Len(s)]
         /\ \A i \in 1 .. Len(t) : (s \o t)[i + Len(s)] = t[i]
<1>1. /\ s \o t \in Seq(S) /\ Len(s \o t) = Len(s) + Len(t)
      /\ Len(s) \in Nat /\ Len(t) \in Nat
      /\ \A i \in 1 .. Len(s) + Len(t) : (s \o t)[i] = IF i <= Len(s) THEN s[i] ELSE t[i - Len(s)]
  BY ConcatProperties, LenProperties
<1>2. \A i \in 1 .. Len(t) : (s \o t)[i + Len(s)] = t[i]
  <2> SUFFICES ASSUME NEW i \in 1 .. Len(t)  PROVE (s \o t)[i + Len(s)] = t[i]
    OBVIOUS
  <2>1. i + Len(s) \in 1 .. Len(s) + Len(t) /\ ~(i + Len(s) <= Len(s)) /\ (i + Len(s)) - Len(s) = i
    BY <1>1
  <2>. QED  BY <1>1, <2>1
<1>. QED  BY <1>1, <1>2

LEMMA FreeJoin ==
  ASSUME NEW s \in Seq(CallRecords), NEW t \in Seq(CallRecords), NEW kind,
         Free(s, kind), Free(t, kind)
  PROVE  Free(s \o t, kind)
<1> SUFFICES ASSUME NEW i \in 1 .. Len(s \o t)  PROVE ~Has((s \o t)[i], kind)
  BY DEF Free
<1>1. i \in 1 .. Len(s) \/ i \in Len(s) + 1 .. Len(s) + Len(t)  BY JoinFacts
<1>2. CASE i \in 1 .. Len(s)  BY <1>2, JoinFacts DEF Free
<1>3. CASE i \in Len(s) + 1 .. Len(s) + Len(t)
  <2>1. i - Len(s) \in 1 .. Len(t)  BY <1>3, JoinFacts
  <2>. QED  BY <1>3, <2>1, JoinFacts DEF Free
<1>. QED  BY <1>1, <1>2, <1>3

LEMMA RestoresEarly ==
  ASSUME NEW s \in Seq(CallRecords), NEW t \in Seq(CallRecords), NEW makes, NEW spoils,
         Restores(s, makes, spoils), Free(t, spoils)
  PROVE  Restores(s \o t, makes, spoils)
<1>1. PICK k \in 1 .. Len(s) : Has(s[k], makes) /\ \A j \in k .. Len(s) : ~Has(s[j], spoils)
  BY DEF Restores
<1>2. k \in 1 .. Len(s \o t) /\ (s \o t)[k] = s[k]  BY JoinFacts
<1>3. ASSUME NEW j \in k .. Len(s \o t)  PROVE ~Has((s \o t)[j], spoils)
  <2>1. j \in k .. Len(s) \/ j \in Len(s) + 1 .. Len(s) + Len(t)  BY JoinFacts
  <2>2. CASE j \in k .. Len(s)
    <3>1. j \in 1 .. Len(s)  BY <2>2
    <3>. QED  BY <2>2, <3>1, <1>1, JoinFacts
  <2>3. CASE j \in Len(s) + 1 .. Len(s) + Len(t)
    <3>1. j - Len(s) \in 1 .. Len(t)  BY <2>3, JoinFacts
    <3>. QED  BY <2>3, <3>1, JoinFacts DEF Free
  <2>. QED  BY <2>1, <2>2, <2>3
<1>. QED  BY <1>1, <1>2, <1>3 DEF Restores

LEMMA RestoresLate ==
  ASSUME NEW s \in Seq(CallRecords), NEW t \in Seq(CallRecords), NEW makes, NEW spoils,
         Restores(t, makes, spoils)
  PROVE  Restores(s \o t, makes, spoils)
<1>1. PICK k \in 1 .. Len(t) : Has(t[k], makes) /\ \A j \in k .. Len(t) : ~Has(t[j], spoils)
  BY DEF Restores
<1>2. k + Len(s) \in 1 .. Len(s \o t) /\ (s \o t)[k + Len(s)] = t[k]  BY JoinFacts
<1>3. ASSUME NEW j \in k + Len(s) .. Len(s \o t)  PROVE ~Has((s \o t)[j], spoils)
  <2>1. /\ j \in Len(s) + 1 .. Len(s) + Len(t) /\ j - Len(s) \in k .. Len(t)
    BY JoinFacts
  <2>. QED  BY <2>1, <1>1, JoinFacts
<1>. QED  BY <1>1, <1>2, <1>3 DEF Restores

\* No call of t needs what s leaves selected,
LEMMA PreparedJoin ==
  ASSUME NEW s \in Seq(CallRecords), NEW t \in Seq(CallRecords), NEW n,
         Prepared(s, n), Prepared(t, "FLWR")
  PROVE  Prepared(s \o t, n)
<1> SUFFICES ASSUME NEW k \in 1 .. Len(s \o t), NEW i \in 1 .. Len((s \o t)[k].steps),
                    (s \o t)[k].steps[i] \in Selecting
             PROVE  \/ i > 1 /\ (s \o t)[k].steps[i - 1] \in Clearing
                    \/ /\ i = 1 /\ n \in Passive
                       /\ \A j \in 1 .. k - 1 : ~Has((s \o t)[j], Selecting)
  BY DEF Prepared
<1>1. k \in 1 .. Len(s) \/ k \in Len(s) + 1 .. Len(s) + Len(t)  BY JoinFacts
<1>2. CASE k \in 1 .. Len(s)
  <2>1. (s \o t)[k] = s[k] /\ \A j \in 1 .. k - 1 : j \in 1 .. Len(s) /\ (s \o t)[j] = s[j]
    BY <1>2, JoinFacts
  <2>2. \/ i > 1 /\ s[k].steps[i - 1] \in Clearing
        \/ i = 1 /\ n \in Passive /\ \A j \in 1 .. k - 1 : ~Has(s[j], Selecting)
    BY <2>1, <1>2 DEF Prepared
  <2>. QED  BY <2>1, <2>2
<1>3. CASE k \in Len(s) + 1 .. Len(s) + Len(t)
  <2>1. k - Len(s) \in 1 .. Len(t) /\ (s \o t)[k] = t[k - Len(s)]  BY <1>3, JoinFacts
  <2>2. "FLWR" \notin Passive  BY DEF Passive
  <2>. QED  BY <2>1, <2>2 DEF Prepared
<1>. QED  BY <1>1, <1>2, <1>3

\* or s selects nothing
LEMMA PreparedAfter ==
  ASSUME NEW s \in Seq(CallRecords), NEW t \in Seq(CallRecords), NEW n,
         Free(s, Selecting), Prepared(t, n)
  PROVE  Prepared(s \o t, n)
<1> SUFFICES ASSUME NEW k \in 1 .. Len(s \o t), NEW i \in 1 .. Len((s \o t)[k].steps),
                    (s \o t)[k].steps[i] \in Selecting
             PROVE  \/ i > 1 /\ (s \o t)[k].steps[i - 1] \in Clearing
                    \/ /\ i = 1 /\ n \in Passive
                       /\ \A j \in 1 .. k - 1 : ~Has((s \o t)[j], Selecting)
  BY DEF Prepared
<1>1. k \in 1 .. Len(s) \/ k \in Len(s) + 1 .. Len(s) + Len(t)  BY JoinFacts
<1>2. k \notin 1 .. Len(s)
  <2> SUFFICES ASSUME k \in 1 .. Len(s)  PROVE FALSE
    OBVIOUS
  <2>1. (s \o t)[k] = s[k]  BY JoinFacts
  <2>. QED  BY <2>1 DEF Free, Has
<1>3. k - Len(s) \in 1 .. Len(t) /\ (s \o t)[k] = t[k - Len(s)]  BY <1>1, <1>2, JoinFacts
<1>4. \/ i > 1 /\ t[k - Len(s)].steps[i - 1] \in Clearing
      \/ /\ i = 1 /\ n \in Passive
         /\ \A j \in 1 .. (k - Len(s)) - 1 : ~Has(t[j], Selecting)
  BY <1>3 DEF Prepared
<1>5. CASE i = 1 /\ n \in Passive /\ \A j \in 1 .. (k - Len(s)) - 1 : ~Has(t[j], Selecting)
  <2>1. ASSUME NEW j \in 1 .. k - 1  PROVE ~Has((s \o t)[j], Selecting)
    <3>1. j \in 1 .. Len(s) \/ j \in Len(s) + 1 .. Len(s) + Len(t)  BY <1>3, JoinFacts
    <3>2. CASE j \in 1 .. Len(s)  BY <3>2, JoinFacts DEF Free
    <3>3. CASE j \in Len(s) + 1 .. Len(s) + Len(t)
      <4>1. j - Len(s) \in 1 .. (k - Len(s)) - 1 /\ (s \o t)[j] = t[j - Len(s)]
        BY <3>3, <1>3, JoinFacts
      <4>. QED  BY <4>1, <1>5
    <3>. QED  BY <3>1, <3>2, <3>3
  <2>. QED  BY <1>5, <2>1
<1>. QED  BY <1>3, <1>4, <1>5

LEMMA PreparedFree ==
  ASSUME NEW s, NEW n, Free(s, Selecting)
  PROVE  Prepared(s, n)
BY DEF Prepared, Free, Has

\* Behind s nothing is stored,
LEMMA PacedJoin ==
  ASSUME NEW s \in Seq(CallRecords), NEW t \in Seq(CallRecords), NEW r,
         Paced(s, r), Free(t, Storing)
  PROVE  Paced(s \o t, r)
<1> SUFFICES ASSUME NEW k \in 1 .. Len(s \o t), Has((s \o t)[k], Storing)
             PROVE  /\ \A j \in 1 .. k : ~Has((s \o t)[j], Speeding)
                    /\ Slow(r) \/ \E j \in 1 .. k - 1 : Has((s \o t)[j], Slowing)
  BY DEF Paced
<1>1. k \in 1 .. Len(s) \/ k \in Len(s) + 1 .. Len(s) + Len(t)  BY JoinFacts
<1>2. CASE k \in Len(s) + 1 .. Len(s) + Len(t)
  <2>1. k - Len(s) \in 1 .. Len(t) /\ (s \o t)[k] = t[k - Len(s)]  BY <1>2, JoinFacts
  <2>. QED  BY <2>1 DEF Free
<1>3. CASE k \in 1 .. Len(s)
  <2>1. (s \o t)[k] = s[k] /\ \A j \in 1 .. k : j \in 1 .. Len(s) /\ (s \o t)[j] = s[j]
    BY <1>3, JoinFacts
  <2>2. /\ \A j \in 1 .. k : ~Has(s[j], Speeding)
        /\ Slow(r) \/ \E j \in 1 .. k - 1 : Has(s[j], Slowing)
    BY <2>1, <1>3 DEF Paced
  <2>3. \A j \in 1 .. k - 1 : j \in 1 .. k  BY <1>3
  <2>. QED  BY <2>1, <2>2, <2>3
<1>. QED  BY <1>1, <1>2, <1>3

\* or s leaves a slow rate
LEMMA PacedAfter ==
  ASSUME NEW s \in Seq(CallRecords), NEW t \in Seq(CallRecords), NEW r,
         Free(s, Storing), Free(s, Speeding), Free(t, Speeding),
         Slow(r) \/ \E j \in 1 .. Len(s) : Has(s[j], Slowing)
  PROVE  Paced(s \o t, r)
<1>1. Free(s \o t, Speeding)  BY FreeJoin
<1> SUFFICES ASSUME NEW k \in 1 .. Len(s \o t), Has((s \o t)[k], Storing)
             PROVE  /\ \A j \in 1 .. k : ~Has((s \o t)[j], Speeding)
                    /\ Slow(r) \/ \E j \in 1 .. k - 1 : Has((s \o t)[j], Slowing)
  BY DEF Paced
<1>2. \A j \in 1 .. k : j \in 1 .. Len(s \o t)  BY JoinFacts
<1>3. k \notin 1 .. Len(s)  BY JoinFacts DEF Free
<1>4. \A j \in 1 .. Len(s) : j \in 1 .. k - 1 /\ (s \o t)[j] = s[j]  BY <1>3, JoinFacts
<1>. QED  BY <1>1, <1>2, <1>4 DEF Free

LEMMA PacedFree ==
  ASSUME NEW s, NEW r, Free(s, Storing)
  PROVE  Paced(s, r)
BY DEF Paced, Free

-------------------------------------------------------------------------------
(* The calls of each operation *)

\* What a call leaves: no NVM command, no wait for the NVM, the rate of the device
Deselecting == [do : {"reset", "chip"}] \cup [do : {"select"}, cmd : {"NONE"}]
Leaving     == [do : {"select"}, cmd : NvmCommands \ {"NONE"}]
Relaxing    == [do : {"waits"}, on : {FALSE}]
Awaiting    == [do : {"waits"}, on : {TRUE}]
Reverting   == [do : {"baud"}, to : {NormalBaudrate}]
Overriding  == [do : {"baud"}, to : (Nat \ {0}) \ {NormalBaudrate}]

NvmSettles(calls, n)  == Settles(calls, n, {"NONE"}, Deselecting, Leaving)
WaitsSettle(calls, b) == Settles(calls, b, {FALSE}, Relaxing, Awaiting)
RateSettles(calls, r) == Settles(calls, r, {ActualRate(NormalBaudrate)}, Reverting, Overriding)

\* The steps of the calls are of the kinds that acts names
Only(calls, acts) ==
  \A k \in 1 .. Len(calls) : \A i \in 1 .. Len(calls[k].steps) : calls[k].steps[i].do \in acts

LEMMA KindsDo ==
  /\ \A s \in Selecting \cup Clearing \cup Leaving \cup Programming : s.do = "select"
  /\ \A s \in Storing : s.do = "put"
  /\ \A s \in Slowing \cup Speeding \cup Reverting \cup Overriding : s.do = "baud"
  /\ \A s \in Relaxing \cup Awaiting : s.do = "waits"
  /\ \A s \in Deselecting : s.do \in {"reset", "chip", "select"}
BY DEF Selecting, Clearing, Leaving, Programming, Storing, Slowing, Speeding, Reverting,
       Overriding, Relaxing, Awaiting, Deselecting

LEMMA OnlyFree ==
  ASSUME NEW calls, NEW acts, Only(calls, acts), NEW kind, \A s \in kind : s.do \notin acts
  PROVE  Free(calls, kind)
BY DEF Only, Free, Has

LEMMA OnlyJoin ==
  ASSUME NEW s \in Seq(CallRecords), NEW t \in Seq(CallRecords), NEW acts,
         Only(s, acts), Only(t, acts)
  PROVE  Only(s \o t, acts)
<1> SUFFICES ASSUME NEW k \in 1 .. Len(s \o t), NEW i \in 1 .. Len((s \o t)[k].steps)
             PROVE  (s \o t)[k].steps[i].do \in acts
  BY DEF Only
<1>1. k \in 1 .. Len(s) \/ k \in Len(s) + 1 .. Len(s) + Len(t)  BY JoinFacts
<1>2. CASE k \in 1 .. Len(s)  BY <1>2, JoinFacts DEF Only
<1>3. CASE k \in Len(s) + 1 .. Len(s) + Len(t)
  <2>1. k - Len(s) \in 1 .. Len(t) /\ (s \o t)[k] = t[k - Len(s)]  BY <1>3, JoinFacts
  <2>. QED  BY <2>1 DEF Only
<1>. QED  BY <1>1, <1>2, <1>3

LEMMA OnlyMore ==
  ASSUME NEW calls, NEW acts, NEW more, Only(calls, acts), acts \subseteq more
  PROVE  Only(calls, more)
BY DEF Only

LEMMA PreparedAnyway ==
  ASSUME NEW calls, NEW n, Prepared(calls, "FLWR")
  PROVE  Prepared(calls, n)
BY DEF Prepared, Passive

\* One call is a list
LEMMA Alone ==
  ASSUME NEW c \in CallRecords
  PROVE  << c >> \in Seq(CallRecords) /\ Len(<< c >>) = 1 /\ << c >>[1] = c
OBVIOUS

LEMMA Nothing ==
  /\ << >> \in Seq(CallRecords) /\ Len(<< >>) = 0
  /\ \A kind : Free(<< >>, kind)
  /\ \A acts : Only(<< >>, acts)
  /\ \A n : Prepared(<< >>, n)
BY DEF Free, Only, Prepared

\* The commands but the page erase and those that write
OtherCommands == {CMD_SETBAUD, CMD_START, CMD_STOP, CMD_CHIPERASE, CMD_FLASH_WR_EN,
                  CMD_EEPROM_WR_EN, CMD_NVM_WR_DIS, CMD_SETADDR, CMD_GETBLOCK, CMD_GETBYTE}

LEMMA CodesDiffer ==
  /\ OtherCommands \subseteq Nat \ {CMD_FLASH_PAGE_ERASE, CMD_SENDBLOCK, CMD_SENDBYTE}
  /\ {CMD_FLASH_PAGE_ERASE, CMD_SENDBLOCK, CMD_SENDBYTE} \subseteq Nat
  /\ CMD_SENDBLOCK # CMD_FLASH_PAGE_ERASE /\ CMD_SENDBYTE # CMD_FLASH_PAGE_ERASE
  /\ CMD_SENDBLOCK # CMD_SENDBYTE
BY DEF OtherCommands, CMD_SETBAUD, CMD_START, CMD_STOP, CMD_CHIPERASE, CMD_FLASH_WR_EN,
       CMD_EEPROM_WR_EN, CMD_NVM_WR_DIS, CMD_SETADDR, CMD_SENDBLOCK, CMD_GETBLOCK,
       CMD_SENDBYTE, CMD_GETBYTE, CMD_FLASH_PAGE_ERASE

\* A call that neither erases pages nor writes
LEMMA CmdIsCall ==
  ASSUME NEW cmd \in OtherCommands, NEW steps \in Seq(Steps), Len(steps) # 0,
         NEW c, c = Cmd(cmd, steps)
  PROVE  c \in CallRecords /\ c.steps = steps /\ c.cmd = cmd
<1>1. steps # << >>  BY EmptySeq
<1>. QED  BY <1>1, CodesDiffer DEF Cmd, CallRecords

\* The calls that write
LEMMA FillingSteps ==
  /\ PutSteps \subseteq Steps /\ PutAtSteps \subseteq Steps
  /\ Seq(PutSteps) \subseteq Seq(Steps) /\ Seq(PutAtSteps) \subseteq Seq(Steps)
<1>1. PutSteps \subseteq Steps /\ PutAtSteps \subseteq Steps
  BY DEF PutSteps, PutAtSteps, Steps
<1>. QED  BY <1>1

LEMMA BlockIsCall ==
  ASSUME NEW steps \in Seq(PutSteps), steps # << >>, NEW c, c = Cmd(CMD_SENDBLOCK, steps)
  PROVE  c \in CallRecords /\ c.steps = steps /\ c.cmd = CMD_SENDBLOCK
<1>1. steps \in Seq(Steps)  BY FillingSteps
<1>. QED  BY <1>1, CodesDiffer DEF Cmd, CallRecords

LEMMA ByteIsCall ==
  ASSUME NEW steps \in Seq(PutAtSteps), steps # << >>, NEW c, c = Cmd(CMD_SENDBYTE, steps)
  PROVE  c \in CallRecords /\ c.steps = steps /\ c.cmd = CMD_SENDBYTE
<1>1. steps \in Seq(Steps)  BY FillingSteps
<1>. QED  BY <1>1, CodesDiffer DEF Cmd, CallRecords

\* A call of one step
LEMMA OneStep ==
  ASSUME NEW cmd \in OtherCommands, NEW s \in Steps, NEW c, c = Cmd(cmd, << s >>)
  PROVE  /\ << c >> \in Seq(CallRecords) /\ Len(<< c >>) = 1 /\ << c >>[1] = c
         /\ c \in CallRecords /\ c.steps = << s >> /\ Len(c.steps) = 1 /\ c.steps[1] = s
         /\ Only(<< c >>, {s.do})
<1> DEFINE steps == << s >>
<1>1. steps \in Seq(Steps) /\ Len(steps) = 1 /\ steps[1] = s  OBVIOUS
<1>2. c = Cmd(cmd, steps)  OBVIOUS
<1> HIDE DEF steps
<1>3. c \in CallRecords /\ c.steps = steps
  <2>1. steps \in Seq(Steps) /\ Len(steps) # 0  BY <1>1
  <2>2. c = Cmd(cmd, steps)  BY <1>2
  <2>. QED  BY <2>1, <2>2, CmdIsCall
<1>4. /\ << c >> \in Seq(CallRecords) /\ Len(<< c >>) = 1 /\ << c >>[1] = c  BY <1>3, Alone
<1>5. Only(<< c >>, {s.do})  BY <1>1, <1>3, <1>4 DEF Only
<1>. QED  BY <1>1, <1>3, <1>4, <1>5 DEF steps

LEMMA HasStep ==
  ASSUME NEW call, NEW kind, NEW i \in 1 .. Len(call.steps), call.steps[i] \in kind
  PROVE  Has(call, kind)
BY DEF Has

LEMMA SetBaudFacts ==
  ASSUME NEW b \in Nat \ {0}
  PROVE  /\ << SetBaud(b) >> \in Seq(CallRecords) /\ Len(<< SetBaud(b) >>) = 1
         /\ << SetBaud(b) >>[1] = SetBaud(b) /\ SetBaud(b) \in CallRecords
         /\ Only(<< SetBaud(b) >>, {"baud"})
         /\ Len(SetBaud(b).steps) = 1 /\ SetBaud(b).steps[1] = [do |-> "baud", to |-> b]
<1>1. Baud(b) \in Steps /\ Baud(b) = [do |-> "baud", to |-> b] /\ Baud(b).do = "baud"
  BY DEF Baud, Steps
<1>2. SetBaud(b) = Cmd(CMD_SETBAUD, << Baud(b) >>) /\ CMD_SETBAUD \in OtherCommands
  BY DEF SetBaud, OtherCommands
<1> HIDE DEF Baud
<1>. QED  BY <1>1, <1>2, OneStep

LEMMA StopFacts == << StopCall >> \in Seq(CallRecords) /\ Only(<< StopCall >>, {"reset"})
<1>1. Reset \in Steps /\ Reset.do = "reset"  BY DEF Reset, Steps
<1>2. StopCall = Cmd(CMD_STOP, << Reset >>) /\ CMD_STOP \in OtherCommands
  BY DEF StopCall, OtherCommands
<1>. QED  BY <1>1, <1>2, OneStep

LEMMA ChipEraseFacts == << ChipErase >> \in Seq(CallRecords) /\ Only(<< ChipErase >>, {"chip"})
<1>1. EraseChip \in Steps /\ EraseChip.do = "chip"  BY DEF EraseChip, Steps
<1>2. ChipErase = Cmd(CMD_CHIPERASE, << EraseChip >>) /\ CMD_CHIPERASE \in OtherCommands
  BY DEF ChipErase, OtherCommands
<1>. QED  BY <1>1, <1>2, OneStep

\* START and SETBAUD leave a session as its operations expect it, whatever was before
LEMMA StartFacts ==
  /\ << StartCall, SetBaud(NormalBaudrate) >> \in Seq(CallRecords)
  /\ Only(<< StartCall, SetBaud(NormalBaudrate) >>, {"waits", "baud", "reset"})
  /\ \A n : NvmSettles(<< StartCall, SetBaud(NormalBaudrate) >>, n)
  /\ \A b : WaitsSettle(<< StartCall, SetBaud(NormalBaudrate) >>, b)
  /\ \A r : RateSettles(<< StartCall, SetBaud(NormalBaudrate) >>, r)
<1> DEFINE b == NormalBaudrate
           s == << Waits(FALSE), Baud(UPDI_DEFAULT_BAUD), Reset >>
           T == << StartCall, SetBaud(b) >>
<1>1. b \in Nat \ {0} /\ UPDI_DEFAULT_BAUD \in Nat \ {0}
  BY OperationsAssumption DEF UPDI_DEFAULT_BAUD
<1>2. s \in Seq(Steps) /\ Len(s) = 3  BY <1>1 DEF Waits, Reset, Baud, Steps
<1>3. /\ s[1].do = "waits" /\ s[2].do = "baud" /\ s[3].do = "reset"
      /\ s[1] \in Relaxing /\ s[1] \notin Awaiting /\ s[3] \in Deselecting
  BY DEF Waits, Baud, Reset, Relaxing, Awaiting, Deselecting
<1>4. StartCall = Cmd(CMD_START, s) /\ CMD_START \in OtherCommands
  BY DEF StartCall, OtherCommands
<1> HIDE DEF s
<1>5. StartCall \in CallRecords /\ StartCall.steps = s  BY <1>2, <1>4, CmdIsCall
<1>6. /\ SetBaud(b) \in CallRecords /\ Len(SetBaud(b).steps) = 1
      /\ SetBaud(b).steps[1] = [do |-> "baud", to |-> b]
  BY <1>1, SetBaudFacts
<1>7. T \in Seq(CallRecords) /\ Len(T) = 2 /\ T[1] = StartCall /\ T[2] = SetBaud(b)
  BY <1>5, <1>6
<1> HIDE DEF T
<1>8. \A k \in 1 .. Len(T) : k = 1 \/ k = 2  BY <1>7
<1>9. Only(T, {"waits", "baud", "reset"})
  <2>1. \A i \in 1 .. Len(T[1].steps) : T[1].steps[i].do \in {"waits", "baud", "reset"}
    BY <1>2, <1>3, <1>5, <1>7
  <2>2. \A i \in 1 .. Len(T[2].steps) : T[2].steps[i].do \in {"waits", "baud", "reset"}
    BY <1>6, <1>7
  <2>. QED  BY <2>1, <2>2, <1>8 DEF Only
<1>10. Restores(T, Deselecting, Leaving)
  <2>1. Free(T, Leaving)  BY <1>9, OnlyFree, KindsDo
  <2>2. Has(T[1], Deselecting)
    <3>1. 3 \in 1 .. Len(T[1].steps) /\ T[1].steps[3] \in Deselecting
      BY <1>2, <1>3, <1>5, <1>7
    <3>. QED  BY <3>1, HasStep
  <2>. QED  BY <1>7, <2>1, <2>2 DEF Restores, Free
<1>11. Restores(T, Relaxing, Awaiting)
  <2>1. 1 \in 1 .. Len(T[1].steps) /\ T[1].steps[1] \in Relaxing  BY <1>2, <1>3, <1>5, <1>7
  <2>2. Has(T[1], Relaxing)  BY <2>1, HasStep
  <2>3. \A i \in 1 .. Len(T[1].steps) : T[1].steps[i] \notin Awaiting
    <3>1. s[2] \notin Awaiting /\ s[3] \notin Awaiting  BY <1>3, KindsDo
    <3>2. \A i \in 1 .. 3 : i = 1 \/ i = 2 \/ i = 3  OBVIOUS
    <3>. QED  BY <3>1, <3>2, <1>2, <1>3, <1>5, <1>7
  <2>4. \A i \in 1 .. Len(T[2].steps) : T[2].steps[i] \notin Awaiting
    <3>1. SetBaud(b).steps[1].do = "baud"  BY <1>6
    <3>2. SetBaud(b).steps[1] \notin Awaiting  BY <3>1, KindsDo
    <3>. QED  BY <3>2, <1>6, <1>7
  <2>. QED  BY <1>7, <1>8, <2>2, <2>3, <2>4 DEF Restores, Has
<1>12. Restores(T, Reverting, Overriding)
  <2>1. /\ [do |-> "baud", to |-> b] \in Reverting
        /\ [do |-> "baud", to |-> b] \notin Overriding
    BY DEF Reverting, Overriding
  <2>2. 1 \in 1 .. Len(T[2].steps) /\ T[2].steps[1] \in Reverting  BY <2>1, <1>6, <1>7
  <2>3. Has(T[2], Reverting)  BY <2>2, HasStep
  <2>4. ~Has(T[2], Overriding)  BY <2>1, <1>6, <1>7 DEF Has
  <2>5. \A j \in 2 .. Len(T) : j = 2  BY <1>7
  <2>. QED  BY <1>7, <2>3, <2>4, <2>5 DEF Restores
<1>. QED  BY <1>7, <1>9, <1>10, <1>11, <1>12
          DEF T, b, NvmSettles, WaitsSettle, RateSettles, Settles

\* The plans of -W that an operation and its memory can give
WritePlans ==
  [tag : {"W"}, base : Nat, type : MemoryTypes, erase : EraseModes, baud : Nat,
   asked : BOOLEAN, image : Images, verify : BOOLEAN]

ImagePlans == WritePlans \cup [tag : {"V"}, base : Nat, image : Images]

LEMMA ProductNat ==
  ASSUME NEW x \in Nat, NEW y \in Nat
  PROVE  x * y \in Nat
OBVIOUS

LEMMA DivNat ==
  ASSUME NEW x \in Nat, NEW p \in Nat \ {0}
  PROVE  x \div p \in Nat
OBVIOUS

\* An address that three bytes hold is sent as it is
LEMMA SentFacts ==
  ASSUME NEW a \in Nat
  PROVE  Sent(a) \in Nat /\ (a < AddressSpace => Sent(a) = a)
<1> DEFINE n == AddressSpace
<1>1. n \in Nat \ {0}  BY DEF AddressSpace
<1> HIDE DEF n
<1>2. a % n \in Nat /\ (a < n => a % n = a)  BY <1>1
<1>. QED  BY <1>2 DEF n, Sent

LEMMA SectionFacts ==
  ASSUME NEW w \in ImagePlans, NEW k \in 1 .. Len(w.image)
  PROVE  /\ w.base \in Nat /\ w.image \in Seq(Sections) /\ Len(w.image) \in Nat
         /\ w.image[k].address \in Nat /\ w.image[k].data \in Seq(Values)
         /\ Len(w.image[k].data) \in Nat \ {0} /\ Size(w.image[k]) \in Nat \ {0}
<1>1. w.base \in Nat /\ w.image \in Seq(Sections)  BY DEF ImagePlans, WritePlans, Images
<1>2. w.image[k] \in Sections /\ Len(w.image) \in Nat  BY <1>1, ElementOfSeq, LenProperties
<1>3. SectionMaxSize + RecordMaxSize \in Nat  BY DEF SectionMaxSize, RecordMaxSize
<1>. QED  BY <1>1, <1>2, <1>3 DEF Sections, Size

LEMMA WhereSectionGoes ==
  ASSUME NEW w \in ImagePlans, NEW k \in 1 .. Len(w.image)
  PROVE  /\ w.image[k].address + w.base \in Nat
         /\ w.image[k].data \in Seq(Values) /\ Len(w.image[k].data) # 0
         /\ Size(w.image[k]) \in Nat
<1>1. /\ w.base \in Nat /\ w.image[k].address \in Nat /\ w.image[k].data \in Seq(Values)
      /\ Len(w.image[k].data) \in Nat \ {0} /\ Size(w.image[k]) \in Nat \ {0}
  BY SectionFacts
<1>. QED  BY <1>1

LEMMA PagesFacts ==
  ASSUME NEW w \in ImagePlans, NEW k \in 1 .. Len(w.image)
  PROVE  /\ FirstPage(w.image[k]) \in Nat /\ LastPage(w.image[k]) \in Nat
         /\ FirstToErase(w.image, k) \in Nat
<1>1. /\ w.image[k].address \in Nat /\ Size(w.image[k]) \in Nat \ {0}
  BY SectionFacts
<1>2. PageSize \in Nat \ {0}  BY TargetAssumption
<1>3. w.image[k].address + Size(w.image[k]) - 1 \in Nat  BY <1>1
<1>4. FirstPage(w.image[k]) \in Nat  BY <1>1, <1>2, DivNat DEF FirstPage
<1>5. LastPage(w.image[k]) \in Nat  BY <1>2, <1>3, DivNat DEF LastPage
<1>. QED  BY <1>4, <1>5 DEF FirstToErase

\* A page erase: NOOP, the command, the pages, NOOP
LEMMA PageEraseFacts ==
  ASSUME NEW a \in Nat, NEW n \in Nat, NEW c, c = FlashPageErase(a, n)
  PROVE  /\ c \in CallRecords /\ c.cmd = CMD_FLASH_PAGE_ERASE
         /\ c.steps \in Seq(PageSteps) /\ Len(c.steps) = n + 3
         /\ c.steps[1] = Select("NOOP") /\ c.steps[2] = Select("FLPER")
         /\ \A i \in 1 .. n : c.steps[i + 2] = PageErase(a + (i - 1) * PageSize)
         /\ c.steps[n + 3] = Select("NOOP")
         /\ Only(<< c >>, {"select", "page"})
         /\ \A i \in 1 .. Len(c.steps) :
              c.steps[i] \in Selecting => i > 1 /\ c.steps[i - 1] \in Clearing
<1> DEFINE front == << Select("NOOP"), Select("FLPER") >>
           pages == [i \in 1 .. n |-> PageErase(a + (i - 1) * PageSize)]
           back  == << Select("NOOP") >>
           steps == (front \o pages) \o back
<1>1. c.cmd = CMD_FLASH_PAGE_ERASE /\ c.steps = steps /\ c = Cmd(CMD_FLASH_PAGE_ERASE, steps)
  BY DEF FlashPageErase, Cmd
<1>2. /\ front \in Seq(PageSteps) /\ Len(front) = 2 /\ back \in Seq(PageSteps) /\ Len(back) = 1
      /\ front[1] = Select("NOOP") /\ front[2] = Select("FLPER") /\ back[1] = Select("NOOP")
  BY DEF Select, PageSteps
<1>3. \A i \in 1 .. n : PageErase(a + (i - 1) * PageSize) \in PageSteps
  <2> SUFFICES ASSUME NEW i \in 1 .. n
               PROVE  PageErase(a + (i - 1) * PageSize) \in PageSteps
    OBVIOUS
  <2>1. i - 1 \in Nat /\ PageSize \in Nat  BY TargetAssumption
  <2>2. (i - 1) * PageSize \in Nat  BY <2>1, ProductNat
  <2>3. a + (i - 1) * PageSize \in Nat  BY <2>2
  <2>4. Sent(a + (i - 1) * PageSize) \in Nat  BY <2>3, SentFacts
  <2>. QED  BY <2>4 DEF PageErase, PageSteps
<1>4. pages \in Seq(PageSteps) /\ Len(pages) = n
  BY <1>3
<1>5. \A i \in 1 .. n : pages[i] = PageErase(a + (i - 1) * PageSize)  OBVIOUS
<1> HIDE DEF front, pages, back
<1>6. /\ front \o pages \in Seq(PageSteps) /\ Len(front \o pages) = n + 2
      /\ (front \o pages)[1] = Select("NOOP") /\ (front \o pages)[2] = Select("FLPER")
      /\ \A i \in 1 .. n : (front \o pages)[i + 2] = pages[i]
  <2>1. /\ front \o pages \in Seq(PageSteps)
        /\ Len(front \o pages) = Len(front) + Len(pages)
        /\ \A i \in 1 .. Len(front) : (front \o pages)[i] = front[i]
        /\ \A i \in 1 .. Len(pages) : (front \o pages)[i + Len(front)] = pages[i]
    <3>1. front \in Seq(PageSteps) /\ pages \in Seq(PageSteps)  BY <1>2, <1>4
    <3>. QED  BY <3>1, JoinFacts
  <2> DEFINE s == front \o pages
  <2> HIDE DEF s
  <2>2. 1 \in 1 .. Len(front) /\ 2 \in 1 .. Len(front)  BY <1>2
  <2>3. Len(s) = n + 2 /\ s[1] = Select("NOOP") /\ s[2] = Select("FLPER")
    BY <2>1, <2>2, <1>2, <1>4 DEF s
  <2>4. \A i \in 1 .. n : s[i + 2] = pages[i]  BY <2>1, <1>2, <1>4 DEF s
  <2>. QED  BY <2>1, <2>3, <2>4 DEF s
<1>7. /\ steps \in Seq(PageSteps) /\ Len(steps) = n + 3
      /\ \A i \in 1 .. n + 2 : steps[i] = (front \o pages)[i]
      /\ steps[1 + (n + 2)] = back[1]
  <2> DEFINE s == front \o pages
  <2>1. s \in Seq(PageSteps) /\ Len(s) = n + 2  BY <1>6
  <2> HIDE DEF s
  <2>2. /\ s \o back \in Seq(PageSteps) /\ Len(s \o back) = Len(s) + Len(back)
        /\ \A i \in 1 .. Len(s) : (s \o back)[i] = s[i]
        /\ \A i \in 1 .. Len(back) : (s \o back)[i + Len(s)] = back[i]
    BY <2>1, <1>2, JoinFacts
  <2>3. 1 \in 1 .. Len(back)  BY <1>2
  <2>4. steps = s \o back  BY DEF s
  <2>5. /\ steps \in Seq(PageSteps) /\ Len(steps) = n + 3
        /\ \A i \in 1 .. n + 2 : steps[i] = s[i]
        /\ steps[1 + (n + 2)] = back[1]
    BY <2>1, <2>2, <2>3, <2>4, <1>2
  <2>. QED  BY <2>5 DEF s
<1> HIDE DEF steps
<1>8. /\ steps[1] = Select("NOOP") /\ steps[2] = Select("FLPER") /\ steps[n + 3] = Select("NOOP")
      /\ \A i \in 1 .. n : steps[i + 2] = PageErase(a + (i - 1) * PageSize)
  <2>1. 1 \in 1 .. n + 2 /\ 2 \in 1 .. n + 2 /\ \A i \in 1 .. n : i + 2 \in 1 .. n + 2  OBVIOUS
  <2>2. 1 + (n + 2) = n + 3  OBVIOUS
  <2>. QED  BY <2>1, <2>2, <1>2, <1>5, <1>6, <1>7
<1>9. PageSteps \subseteq Steps
  <2>1. {"NOOP", "FLPER"} \subseteq NvmCommands  BY DEF NvmCommands
  <2>. QED  BY <2>1 DEF PageSteps, Steps
<1>10. steps \in Seq(Steps) /\ steps # << >>
  <2>1. steps \in Seq(Steps)  BY <1>7, <1>9
  <2>. QED  BY <2>1, <1>7, EmptySeq
<1>11. c \in CallRecords
  BY <1>1, <1>7, <1>10, CodesDiffer DEF CallRecords, Cmd
<1>12. Only(<< c >>, {"select", "page"})
  <2>1. \A s \in PageSteps : s.do \in {"select", "page"}  BY DEF PageSteps
  <2>2. \A i \in 1 .. Len(c.steps) : c.steps[i] \in PageSteps  BY <1>1, <1>7, ElementOfSeq
  <2>. QED  BY <1>11, <2>1, <2>2, Alone DEF Only
<1>13. ASSUME NEW i \in 1 .. Len(steps), steps[i] \in Selecting
       PROVE  i > 1 /\ steps[i - 1] \in Clearing
  <2>1. Select("NOOP") \notin Selecting /\ Select("NOOP") \in Clearing
    BY DEF Select, Selecting, Clearing, Passive
  <2>2. i = 2
    <3>1. i # 1 /\ i # n + 3  BY <1>8, <1>13, <2>1
    <3>2. ASSUME i \in 3 .. n + 2  PROVE FALSE
      <4>1. i - 2 \in 1 .. n /\ (i - 2) + 2 = i  BY <3>2
      <4>2. steps[i] = PageErase(a + ((i - 2) - 1) * PageSize)  BY <4>1, <1>8
      <4>3. steps[i].do = "page"  BY <4>2 DEF PageErase
      <4>. QED  BY <4>3, <1>13, KindsDo
    <3>. QED  BY <3>1, <3>2, <1>7
  <2>. QED  BY <2>1, <2>2, <1>8
<1>. QED  BY <1>1, <1>7, <1>8, <1>11, <1>12, <1>13

LEMMA PageErasesFacts ==
  ASSUME NEW w \in WritePlans
  PROVE  /\ PageErases(w) \in Seq(CallRecords) /\ Len(PageErases(w)) = Len(w.image)
         /\ Only(PageErases(w), {"select", "page"})
         /\ Prepared(PageErases(w), "FLWR")
<1> DEFINE first(k) == FirstToErase(w.image, k)
           at(k)    == first(k) * PageSize + w.base
           count(k) == (LastPage(w.image[k]) - first(k) + 1) % 65536
           T        == PageErases(w)
<1>1. Len(w.image) \in Nat /\ DOMAIN w.image = 1 .. Len(w.image)
  BY LenProperties DEF WritePlans, Images
<1>2. T = [k \in 1 .. Len(w.image) |-> FlashPageErase(at(k), count(k))]
  BY <1>1 DEF PageErases
<1>3. ASSUME NEW k \in 1 .. Len(w.image)
      PROVE  at(k) \in Nat /\ count(k) \in Nat
  <2>1. w \in ImagePlans  BY DEF ImagePlans
  <2>2. first(k) \in Nat /\ LastPage(w.image[k]) \in Nat /\ w.base \in Nat
    BY <2>1, PagesFacts, SectionFacts
  <2>3. first(k) * PageSize \in Nat  BY <2>2, TargetAssumption, ProductNat
  <2>. QED  BY <2>2, <2>3
<1> HIDE DEF first, at, count
<1>4. ASSUME NEW k \in 1 .. Len(w.image)
      PROVE  /\ T[k] \in CallRecords
             /\ Only(<< T[k] >>, {"select", "page"})
             /\ \A i \in 1 .. Len(T[k].steps) :
                  T[k].steps[i] \in Selecting => i > 1 /\ T[k].steps[i - 1] \in Clearing
  <2>1. T[k] = FlashPageErase(at(k), count(k))  BY <1>2
  <2>. QED  BY <2>1, <1>3, PageEraseFacts
<1>5. T \in Seq(CallRecords) /\ Len(T) = Len(w.image)
  <2>1. \A k \in 1 .. Len(w.image) : FlashPageErase(at(k), count(k)) \in CallRecords
    BY <1>2, <1>4
  <2>. QED  BY <2>1, <1>1, <1>2
<1> HIDE DEF T
<1>6. Only(T, {"select", "page"})
  <2>1. ASSUME NEW k \in 1 .. Len(T), NEW i \in 1 .. Len(T[k].steps)
        PROVE  T[k].steps[i].do \in {"select", "page"}
    <3>1. Only(<< T[k] >>, {"select", "page"}) /\ T[k] \in CallRecords  BY <1>4, <1>5
    <3>2. 1 \in 1 .. Len(<< T[k] >>) /\ << T[k] >>[1] = T[k]  BY <3>1, Alone
    <3>. QED  BY <3>1, <3>2 DEF Only
  <2>. QED  BY <2>1 DEF Only
<1>7. Prepared(T, "FLWR")  BY <1>4, <1>5 DEF Prepared
<1>. QED  BY <1>5, <1>6, <1>7 DEF T

LEMMA ErasingFacts ==
  ASSUME NEW w \in WritePlans
  PROVE  /\ Erasing(w) \in Seq(CallRecords)
         /\ Only(Erasing(w), {"chip", "select", "page"})
         /\ Prepared(Erasing(w), "FLWR")
         /\ w.type # "flash" => Erasing(w) = << >>
<1>1. CASE w.type = "flash" /\ w.erase = "chip"
  <2>1. Erasing(w) = << ChipErase >>  BY <1>1 DEF Erasing
  <2>2. << ChipErase >> \in Seq(CallRecords) /\ Only(<< ChipErase >>, {"chip"})
    BY ChipEraseFacts
  <2>3. Free(<< ChipErase >>, Selecting)  BY <2>2, OnlyFree, KindsDo
  <2>4. Prepared(<< ChipErase >>, "FLWR")  BY <2>3, PreparedFree
  <2>5. Only(<< ChipErase >>, {"chip", "select", "page"})  BY <2>2, OnlyMore
  <2>. QED  BY <1>1, <2>1, <2>2, <2>4, <2>5
<1>2. CASE w.type = "flash" /\ w.erase = "page"
  <2>1. Erasing(w) = PageErases(w)  BY <1>2 DEF Erasing
  <2>2. /\ PageErases(w) \in Seq(CallRecords) /\ Only(PageErases(w), {"select", "page"})
        /\ Prepared(PageErases(w), "FLWR")
    BY PageErasesFacts
  <2>3. Only(PageErases(w), {"chip", "select", "page"})  BY <2>2, OnlyMore
  <2>. QED  BY <1>2, <2>1, <2>2, <2>3
<1>3. CASE w.type # "flash" \/ w.erase \notin {"chip", "page"}
  <2>1. Erasing(w) = << >>  BY <1>3 DEF Erasing
  <2>. QED  BY <2>1, Nothing
<1>. QED  BY <1>1, <1>2, <1>3

LEMMA SetAddressFacts ==
  ASSUME NEW a \in Nat
  PROVE  /\ SetBlockAddress(a) \in CallRecords
         /\ Len(SetBlockAddress(a).steps) = 1
         /\ SetBlockAddress(a).steps[1] = [do |-> "point", at |-> Sent(a)]
         /\ SetBlockAddress(a).steps[1].do = "point"
<1> DEFINE s == << Point(a) >>
<1>1. Point(a) \in Steps /\ Point(a) = [do |-> "point", at |-> Sent(a)]
  BY SentFacts DEF Point, Steps
<1>2. s \in Seq(Steps) /\ Len(s) = 1 /\ s[1] = Point(a)  BY <1>1
<1>3. SetBlockAddress(a) = Cmd(CMD_SETADDR, s) /\ CMD_SETADDR \in OtherCommands
  BY DEF SetBlockAddress, OtherCommands
<1> HIDE DEF s
<1>4. SetBlockAddress(a) \in CallRecords /\ SetBlockAddress(a).steps = s
  BY <1>2, <1>3, CmdIsCall
<1>5. [do |-> "point", at |-> Sent(a)].do = "point"  OBVIOUS
<1>. QED  BY <1>1, <1>2, <1>4, <1>5

LEMMA ReadFacts ==
  ASSUME NEW n \in Nat
  PROVE  /\ ReadBlock(n) \in CallRecords /\ Len(ReadBlock(n).steps) = 1
         /\ ReadBlock(n).steps[1].do = "get"
<1> DEFINE s == << Get(n) >>
<1>1. Get(n) \in Steps /\ Get(n).do = "get"  BY DEF Get, Steps
<1>2. s \in Seq(Steps) /\ Len(s) = 1 /\ s[1] = Get(n)  BY <1>1
<1>3. ReadBlock(n) = Cmd(CMD_GETBLOCK, s) /\ CMD_GETBLOCK \in OtherCommands
  BY DEF ReadBlock, OtherCommands
<1> HIDE DEF s
<1>. QED  BY <1>1, <1>2, <1>3, CmdIsCall

LEMMA ReadByteFacts == << ReadByte >> \in Seq(CallRecords) /\ Only(<< ReadByte >>, {"get"})
<1> DEFINE s == Get(0)
<1>1. s \in Steps /\ s.do = "get"  BY DEF Get, Steps
<1>2. ReadByte = Cmd(CMD_GETBYTE, << s >>) /\ CMD_GETBYTE \in OtherCommands
  BY DEF ReadByte, OtherCommands
<1> HIDE DEF s
<1>. QED  BY <1>1, <1>2, OneStep

LEMMA WriteBlockFacts ==
  ASSUME NEW data \in Seq(Values), Len(data) # 0
  PROVE  /\ WriteBlock(data) \in CallRecords /\ Len(WriteBlock(data).steps) = Len(data)
         /\ \A i \in 1 .. Len(data) : WriteBlock(data).steps[i] = [do |-> "put", byte |-> data[i]]
         /\ \A i \in 1 .. Len(data) : WriteBlock(data).steps[i].do = "put"
<1> DEFINE s == [i \in DOMAIN data |-> Put(data[i])]
<1>1. DOMAIN data = 1 .. Len(data) /\ Len(data) \in Nat  BY LenProperties
<1>2. \A i \in 1 .. Len(data) : Put(data[i]) = [do |-> "put", byte |-> data[i]]  BY DEF Put
<1>3. \A i \in 1 .. Len(data) : Put(data[i]) \in PutSteps
  <2> SUFFICES ASSUME NEW i \in 1 .. Len(data)  PROVE Put(data[i]) \in PutSteps
    OBVIOUS
  <2>1. data[i] \in Values  BY ElementOfSeq
  <2>. QED  BY <2>1 DEF Put, PutSteps
<1>4. /\ s \in Seq(PutSteps) /\ Len(s) = Len(data)
      /\ \A i \in 1 .. Len(data) : s[i] = Put(data[i])
  <2> DEFINE n == Len(data)
  <2>1. s = [i \in 1 .. n |-> Put(data[i])] /\ n \in Nat  BY <1>1
  <2>2. \A i \in 1 .. n : Put(data[i]) \in PutSteps  BY <1>3
  <2> HIDE DEF n, s
  <2>3. s \in Seq(PutSteps) /\ Len(s) = n /\ \A i \in 1 .. n : s[i] = Put(data[i])
    BY <2>1, <2>2
  <2>. QED  BY <2>3 DEF n
<1>5. WriteBlock(data) = Cmd(CMD_SENDBLOCK, s)  BY DEF WriteBlock
<1> HIDE DEF s
<1>6. WriteBlock(data) \in CallRecords /\ WriteBlock(data).steps = s
  <2>1. s # << >>  BY <1>4, EmptySeq
  <2>. QED  BY <1>4, <1>5, <2>1, BlockIsCall
<1>7. \A i \in 1 .. Len(data) : Put(data[i]).do = "put"  BY DEF Put
<1>. QED  BY <1>2, <1>4, <1>6, <1>7

LEMMA WriteBytesFacts ==
  ASSUME NEW a \in Nat, NEW data \in Seq(Values), Len(data) # 0
  PROVE  /\ WriteBytes(a, data) \in CallRecords /\ Len(WriteBytes(a, data).steps) = Len(data)
         /\ \A i \in 1 .. Len(data) :
              WriteBytes(a, data).steps[i] = [do |-> "putat", at |-> Sent(a), byte |-> data[i]]
         /\ \A i \in 1 .. Len(data) : WriteBytes(a, data).steps[i].do = "putat"
<1> DEFINE s == [i \in DOMAIN data |-> PutAt(a, data[i])]
<1>1. DOMAIN data = 1 .. Len(data) /\ Len(data) \in Nat  BY LenProperties
<1>2. \A i \in 1 .. Len(data) :
        PutAt(a, data[i]) = [do |-> "putat", at |-> Sent(a), byte |-> data[i]]
  BY DEF PutAt
<1>3. \A i \in 1 .. Len(data) : PutAt(a, data[i]) \in PutAtSteps
  <2> SUFFICES ASSUME NEW i \in 1 .. Len(data)  PROVE PutAt(a, data[i]) \in PutAtSteps
    OBVIOUS
  <2>1. data[i] \in Values /\ Sent(a) \in Nat  BY ElementOfSeq, SentFacts
  <2>. QED  BY <2>1 DEF PutAt, PutAtSteps
<1>4. /\ s \in Seq(PutAtSteps) /\ Len(s) = Len(data)
      /\ \A i \in 1 .. Len(data) : s[i] = PutAt(a, data[i])
  <2> DEFINE n == Len(data)
  <2>1. s = [i \in 1 .. n |-> PutAt(a, data[i])] /\ n \in Nat  BY <1>1
  <2>2. \A i \in 1 .. n : PutAt(a, data[i]) \in PutAtSteps  BY <1>3
  <2> HIDE DEF n, s
  <2>3. s \in Seq(PutAtSteps) /\ Len(s) = n /\ \A i \in 1 .. n : s[i] = PutAt(a, data[i])
    BY <2>1, <2>2
  <2>. QED  BY <2>3 DEF n
<1>5. WriteBytes(a, data) = Cmd(CMD_SENDBYTE, s)  BY DEF WriteBytes
<1> HIDE DEF s
<1>6. WriteBytes(a, data) \in CallRecords /\ WriteBytes(a, data).steps = s
  <2>1. s # << >>  BY <1>4, EmptySeq
  <2>. QED  BY <1>4, <1>5, <2>1, ByteIsCall
<1>7. \A i \in 1 .. Len(data) : PutAt(a, data[i]).do = "putat"  BY DEF PutAt
<1>. QED  BY <1>2, <1>4, <1>6, <1>7

LEMMA HalfFacts ==
  ASSUME NEW n \in Nat, NEW i \in 1 .. 2 * n, NEW b, b = (i - 1) \div 2
  PROVE  /\ b + 1 \in 1 .. n /\ i - 2 * b \in {1, 2}
         /\ i - 2 * b = 1 => i = 2 * (b + 1) - 1
         /\ i - 2 * b = 2 => i = 2 * (b + 1)
OBVIOUS

\* A section written by blocks takes two calls: the address, the bytes
LEMMA BlocksFacts ==
  ASSUME NEW w \in WritePlans, w.type # "eeprom"
  PROVE  /\ WriteSections(w) \in Seq(CallRecords)
         /\ Len(WriteSections(w)) = 2 * Len(w.image)
         /\ \A k \in 1 .. Len(w.image) :
              /\ WriteSections(w)[2 * k - 1] = SetBlockAddress(w.image[k].address + w.base)
              /\ WriteSections(w)[2 * k] = WriteBlock(w.image[k].data)
         /\ Only(WriteSections(w), {"point", "put"})
<1> DEFINE n == Len(w.image)
           T == WriteSections(w)
           a(k) == SetBlockAddress(w.image[k].address + w.base)
           b(k) == WriteBlock(w.image[k].data)
<1>1. w \in ImagePlans /\ n \in Nat  BY LenProperties DEF ImagePlans, WritePlans, Images
<1>2. \A k \in 1 .. n : WriteSection(w, k) = << a(k), b(k) >>  BY DEF WriteSection
<1>3. T = [i \in 1 .. 2 * n |-> LET before == (i - 1) \div 2
                               IN  WriteSection(w, before + 1)[i - 2 * before]]
  BY DEF WriteSections
<1>4. ASSUME NEW k \in 1 .. n
      PROVE  /\ a(k) \in CallRecords /\ b(k) \in CallRecords
             /\ \A i \in 1 .. Len(a(k).steps) : a(k).steps[i].do \in {"point", "put"}
             /\ \A i \in 1 .. Len(b(k).steps) : b(k).steps[i].do \in {"point", "put"}
  <2> DEFINE at == w.image[k].address + w.base
             data == w.image[k].data
  <2>1. at \in Nat /\ data \in Seq(Values) /\ Len(data) # 0
    BY <1>1, WhereSectionGoes
  <2> HIDE DEF at, data
  <2>2. /\ SetBlockAddress(at) \in CallRecords /\ Len(SetBlockAddress(at).steps) = 1
        /\ SetBlockAddress(at).steps[1].do = "point"
    BY <2>1, SetAddressFacts
  <2>3. /\ WriteBlock(data) \in CallRecords
        /\ \A i \in 1 .. Len(WriteBlock(data).steps) : WriteBlock(data).steps[i].do = "put"
    BY <2>1, WriteBlockFacts
  <2>4. a(k) = SetBlockAddress(at) /\ b(k) = WriteBlock(data)  BY DEF at, data
  <2>. QED  BY <2>2, <2>3, <2>4
<1> HIDE DEF n, a, b
<1>5. ASSUME NEW i \in 1 .. 2 * n
      PROVE  \E k \in 1 .. n : \/ T[i] = a(k) /\ i = 2 * k - 1
                               \/ T[i] = b(k) /\ i = 2 * k
  <2> DEFINE h == (i - 1) \div 2
  <2>1. T[i] = WriteSection(w, h + 1)[i - 2 * h]  BY <1>3
  <2>2. /\ h + 1 \in 1 .. n /\ i - 2 * h \in {1, 2}
        /\ i - 2 * h = 1 => i = 2 * (h + 1) - 1
        /\ i - 2 * h = 2 => i = 2 * (h + 1)
    BY <1>1, HalfFacts
  <2> HIDE DEF h
  <2>3. T[i] = << a(h + 1), b(h + 1) >>[i - 2 * h]  BY <2>1, <2>2, <1>2
  <2>. QED  BY <2>2, <2>3
<1>6. \A i \in 1 .. 2 * n : T[i] \in CallRecords  BY <1>4, <1>5
<1>7. T \in Seq(CallRecords) /\ Len(T) = 2 * n
  <2>1. T = [i \in 1 .. 2 * n |-> T[i]]  BY <1>3
  <2>2. 2 * n \in Nat  BY <1>1
  <2>. QED  BY <2>1, <2>2, <1>6
<1>8. ASSUME NEW k \in 1 .. n
      PROVE  T[2 * k - 1] = a(k) /\ T[2 * k] = b(k)
  <2>1. 2 * k - 1 \in 1 .. 2 * n /\ 2 * k \in 1 .. 2 * n  BY <1>1
  <2>2. T[2 * k - 1] = a(k)
    <3>1. PICK l \in 1 .. n : \/ T[2 * k - 1] = a(l) /\ 2 * k - 1 = 2 * l - 1
                              \/ T[2 * k - 1] = b(l) /\ 2 * k - 1 = 2 * l
      BY <2>1, <1>5
    <3>2. l = k  BY <3>1
    <3>. QED  BY <3>1, <3>2
  <2>3. T[2 * k] = b(k)
    <3>1. PICK l \in 1 .. n : \/ T[2 * k] = a(l) /\ 2 * k = 2 * l - 1
                              \/ T[2 * k] = b(l) /\ 2 * k = 2 * l
      BY <2>1, <1>5
    <3>2. l = k  BY <3>1
    <3>. QED  BY <3>1, <3>2
  <2>. QED  BY <2>2, <2>3
<1>9. Only(T, {"point", "put"})
  <2>1. ASSUME NEW i \in 1 .. Len(T), NEW j \in 1 .. Len(T[i].steps)
        PROVE  T[i].steps[j].do \in {"point", "put"}
    <3>1. PICK k \in 1 .. n : T[i] = a(k) \/ T[i] = b(k)  BY <1>5, <1>7
    <3>. QED  BY <3>1, <1>4
  <2>. QED  BY <2>1 DEF Only
<1>. QED  BY <1>7, <1>8, <1>9 DEF n, T, a, b

\* A section written by bytes is one call here
LEMMA BytesFacts ==
  ASSUME NEW w \in WritePlans, w.type = "eeprom"
  PROVE  /\ WriteSections(w) \in Seq(CallRecords)
         /\ Len(WriteSections(w)) = Len(w.image)
         /\ \A k \in 1 .. Len(w.image) :
              WriteSections(w)[k] = WriteBytes(w.image[k].address + w.base, w.image[k].data)
         /\ Only(WriteSections(w), {"putat"})
<1> DEFINE n == Len(w.image)
           T == WriteSections(w)
           b(k) == WriteBytes(w.image[k].address + w.base, w.image[k].data)
<1>1. w \in ImagePlans /\ n \in Nat  BY LenProperties DEF ImagePlans, WritePlans, Images
<1>2. \A k \in 1 .. n : WriteSection(w, k) = << b(k) >>  BY DEF WriteSection
<1>3. T = [i \in 1 .. 1 * n |-> LET before == (i - 1) \div 1
                               IN  WriteSection(w, before + 1)[i - 1 * before]]
  BY DEF WriteSections
<1>4. ASSUME NEW k \in 1 .. n
      PROVE  /\ b(k) \in CallRecords
             /\ \A i \in 1 .. Len(b(k).steps) : b(k).steps[i].do = "putat"
  <2> DEFINE at == w.image[k].address + w.base
             data == w.image[k].data
  <2>1. at \in Nat /\ data \in Seq(Values) /\ Len(data) # 0
    BY <1>1, WhereSectionGoes
  <2> HIDE DEF at, data
  <2>2. /\ WriteBytes(at, data) \in CallRecords
        /\ \A i \in 1 .. Len(WriteBytes(at, data).steps) :
             WriteBytes(at, data).steps[i].do = "putat"
    BY <2>1, WriteBytesFacts
  <2>3. b(k) = WriteBytes(at, data)  BY DEF at, data
  <2>. QED  BY <2>2, <2>3
<1> HIDE DEF n, b
<1>5. ASSUME NEW i \in 1 .. n
      PROVE  T[i] = b(i)
  <2>1. (i - 1) \div 1 = i - 1 /\ i - 1 * (i - 1) = 1 /\ (i - 1) + 1 = i /\ 1 * n = n  BY <1>1
  <2>2. T[i] = WriteSection(w, i)[1]  BY <2>1, <1>3
  <2>. QED  BY <2>2, <1>2
<1>6. T \in Seq(CallRecords) /\ Len(T) = n
  <2>1. T = [i \in 1 .. n |-> T[i]]
    <3>1. 1 * n = n  BY <1>1
    <3>. QED  BY <3>1, <1>3
  <2>2. \A i \in 1 .. n : T[i] \in CallRecords  BY <1>4, <1>5
  <2>. QED  BY <2>1, <2>2, <1>1
<1>7. Only(T, {"putat"})  BY <1>4, <1>5, <1>6 DEF Only
<1>. QED  BY <1>5, <1>6, <1>7 DEF n, T, b

LEMMA VerifyImageFacts ==
  ASSUME NEW w \in ImagePlans
  PROVE  VerifyImage(w) \in Seq(CallRecords) /\ Only(VerifyImage(w), {"point", "get"})
<1> DEFINE n == Len(w.image)
           T == VerifyImage(w)
           a(k) == SetBlockAddress(w.image[k].address + w.base)
           b(k) == ReadBlock(Size(w.image[k]))
<1>1. n \in Nat  BY LenProperties DEF ImagePlans, WritePlans, Images
<1>2. \A k \in 1 .. n : VerifySection(w, k) = << a(k), b(k) >>  BY DEF VerifySection
<1>3. T = [i \in 1 .. 2 * n |-> LET before == (i - 1) \div 2
                               IN  VerifySection(w, before + 1)[i - 2 * before]]
  BY DEF VerifyImage
<1>4. ASSUME NEW k \in 1 .. n
      PROVE  /\ a(k) \in CallRecords /\ b(k) \in CallRecords
             /\ \A i \in 1 .. Len(a(k).steps) : a(k).steps[i].do \in {"point", "get"}
             /\ \A i \in 1 .. Len(b(k).steps) : b(k).steps[i].do \in {"point", "get"}
  <2> DEFINE at == w.image[k].address + w.base
             m  == Size(w.image[k])
  <2>1. at \in Nat /\ m \in Nat  BY <1>1, WhereSectionGoes
  <2> HIDE DEF at, m
  <2>2. /\ SetBlockAddress(at) \in CallRecords /\ Len(SetBlockAddress(at).steps) = 1
        /\ SetBlockAddress(at).steps[1].do = "point"
    BY <2>1, SetAddressFacts
  <2>3. /\ ReadBlock(m) \in CallRecords /\ Len(ReadBlock(m).steps) = 1
        /\ ReadBlock(m).steps[1].do = "get"
    BY <2>1, ReadFacts
  <2>4. a(k) = SetBlockAddress(at) /\ b(k) = ReadBlock(m)  BY DEF at, m
  <2>. QED  BY <2>2, <2>3, <2>4
<1> HIDE DEF n, a, b
<1>5. ASSUME NEW i \in 1 .. 2 * n
      PROVE  \E k \in 1 .. n : T[i] = a(k) \/ T[i] = b(k)
  <2> DEFINE h == (i - 1) \div 2
  <2>1. T[i] = VerifySection(w, h + 1)[i - 2 * h]  BY <1>3
  <2>2. h + 1 \in 1 .. n /\ i - 2 * h \in {1, 2}  BY <1>1, HalfFacts
  <2> HIDE DEF h
  <2>3. T[i] = << a(h + 1), b(h + 1) >>[i - 2 * h]  BY <2>1, <2>2, <1>2
  <2>. QED  BY <2>2, <2>3
<1>6. T \in Seq(CallRecords) /\ Len(T) = 2 * n
  <2>1. T = [i \in 1 .. 2 * n |-> T[i]]  BY <1>3
  <2>2. 2 * n \in Nat  BY <1>1
  <2>3. \A i \in 1 .. 2 * n : T[i] \in CallRecords  BY <1>4, <1>5
  <2>. QED  BY <2>1, <2>2, <2>3
<1>7. Only(T, {"point", "get"})
  <2>1. ASSUME NEW i \in 1 .. Len(T), NEW j \in 1 .. Len(T[i].steps)
        PROVE  T[i].steps[j].do \in {"point", "get"}
    <3>1. PICK k \in 1 .. n : T[i] = a(k) \/ T[i] = b(k)  BY <1>5, <1>6
    <3>. QED  BY <3>1, <1>4
  <2>. QED  BY <2>1 DEF Only
<1>. QED  BY <1>6, <1>7 DEF T
\* What precedes the bytes of an image and what follows them
LEMMA FlashEnableFacts ==
  /\ << EnableFlashWrite >> \in Seq(CallRecords)
  /\ Only(<< EnableFlashWrite >>, {"select", "waits"})
  /\ Prepared(<< EnableFlashWrite >>, "FLWR")
<1> DEFINE s == << Select("NOOP"), Select("FLWR"), Waits(TRUE) >>
           c == EnableFlashWrite
           T == << c >>
<1>1. s \in Seq(Steps) /\ Len(s) = 3  BY DEF Select, Waits, Steps, NvmCommands
<1>2. /\ s[1].do = "select" /\ s[2].do = "select" /\ s[3].do = "waits"
      /\ s[1] \in Clearing /\ s[1] \notin Selecting
  BY DEF Select, Waits, Clearing, Selecting, Passive
<1>3. c = Cmd(CMD_FLASH_WR_EN, s) /\ CMD_FLASH_WR_EN \in OtherCommands
  BY DEF EnableFlashWrite, OtherCommands
<1> HIDE DEF s
<1>4. c \in CallRecords /\ c.steps = s  BY <1>1, <1>3, CmdIsCall
<1>5. T \in Seq(CallRecords) /\ Len(T) = 1 /\ T[1] = c  BY <1>4, Alone
<1> HIDE DEF c, T
<1>6. \A k \in 1 .. Len(T) : k = 1  BY <1>5
<1>7. \A i \in 1 .. Len(T[1].steps) : i = 1 \/ i = 2 \/ i = 3  BY <1>1, <1>4, <1>5
<1>8. Only(T, {"select", "waits"})
  <2>1. \A i \in 1 .. Len(T[1].steps) : T[1].steps[i].do \in {"select", "waits"}
    BY <1>2, <1>4, <1>5, <1>7
  <2>. QED  BY <2>1, <1>6 DEF Only
<1>9. Prepared(T, "FLWR")
  <2> SUFFICES ASSUME NEW i \in 1 .. Len(T[1].steps), T[1].steps[i] \in Selecting
               PROVE  i > 1 /\ T[1].steps[i - 1] \in Clearing
    BY <1>6 DEF Prepared
  <2>1. i = 2
    <3>1. s[3] \notin Selecting  BY <1>2, KindsDo
    <3>. QED  BY <3>1, <1>2, <1>4, <1>5, <1>7
  <2>. QED  BY <2>1, <1>2, <1>4, <1>5
<1>. QED  BY <1>5, <1>8, <1>9 DEF T, c

LEMMA EepromEnableFacts ==
  /\ << EnableEepromWrite >> \in Seq(CallRecords)
  /\ Only(<< EnableEepromWrite >>, {"select", "waits"})
  /\ Prepared(<< EnableEepromWrite >>, "NONE")
  /\ Free(<< EnableEepromWrite >>, Programming)
<1> DEFINE s == << Select("EEERWR"), Waits(TRUE) >>
           c == EnableEepromWrite
           T == << c >>
<1>1. s \in Seq(Steps) /\ Len(s) = 2  BY DEF Select, Waits, Steps, NvmCommands
<1>2. s[1].do = "select" /\ s[2].do = "waits" /\ s[1] \notin Programming
  BY DEF Select, Waits, Programming
<1>3. c = Cmd(CMD_EEPROM_WR_EN, s) /\ CMD_EEPROM_WR_EN \in OtherCommands
  BY DEF EnableEepromWrite, OtherCommands
<1> HIDE DEF s
<1>4. c \in CallRecords /\ c.steps = s  BY <1>1, <1>3, CmdIsCall
<1>5. T \in Seq(CallRecords) /\ Len(T) = 1 /\ T[1] = c  BY <1>4, Alone
<1> HIDE DEF c, T
<1>6. \A k \in 1 .. Len(T) : k = 1  BY <1>5
<1>7. \A i \in 1 .. Len(T[1].steps) : i = 1 \/ i = 2
  <2>1. Len(T[1].steps) = 2  BY <1>1, <1>4, <1>5
  <2>2. \A i \in 1 .. 2 : i = 1 \/ i = 2  OBVIOUS
  <2>. QED  BY <2>1, <2>2
<1>8. Only(T, {"select", "waits"})
  <2>1. \A i \in 1 .. Len(T[1].steps) : T[1].steps[i].do \in {"select", "waits"}
    BY <1>2, <1>4, <1>5, <1>7
  <2>. QED  BY <2>1, <1>6 DEF Only
<1>9. s[2] \notin Selecting /\ s[2] \notin Programming  BY <1>2, KindsDo
<1>10. Prepared(T, "NONE")
  <2> SUFFICES ASSUME NEW i \in 1 .. Len(T[1].steps), T[1].steps[i] \in Selecting
               PROVE  i = 1 /\ "NONE" \in Passive
    BY <1>6 DEF Prepared
  <2>. QED  BY <1>4, <1>5, <1>7, <1>9 DEF Passive
<1>11. Free(T, Programming)
  <2>1. \A i \in 1 .. Len(T[1].steps) : T[1].steps[i] \notin Programming
    BY <1>2, <1>4, <1>5, <1>7, <1>9
  <2>. QED  BY <2>1, <1>6 DEF Free, Has
<1>. QED  BY <1>5, <1>8, <1>10, <1>11 DEF T, c

LEMMA DisableFacts ==
  /\ << DisableNvmWrite >> \in Seq(CallRecords)
  /\ Only(<< DisableNvmWrite >>, {"select", "waits"})
  /\ Free(<< DisableNvmWrite >>, Selecting) /\ Free(<< DisableNvmWrite >>, Programming)
  /\ Restores(<< DisableNvmWrite >>, Deselecting, Leaving)
  /\ Restores(<< DisableNvmWrite >>, Relaxing, Awaiting)
<1> DEFINE s == << Select("NONE"), Waits(FALSE) >>
           c == DisableNvmWrite
           T == << c >>
<1>1. s \in Seq(Steps) /\ Len(s) = 2  BY DEF Select, Waits, Steps, NvmCommands
<1>2. /\ s[1].do = "select" /\ s[2].do = "waits"
      /\ s[1] \notin Selecting /\ s[1] \notin Programming
  BY DEF Select, Waits, Selecting, Programming, Passive
<1>3. s[1] \in Deselecting /\ s[1] \notin Leaving  BY DEF Select, Deselecting, Leaving
<1>4. s[2] \in Relaxing /\ s[2] \notin Awaiting  BY DEF Waits, Relaxing, Awaiting
<1>5. c = Cmd(CMD_NVM_WR_DIS, s) /\ CMD_NVM_WR_DIS \in OtherCommands
  BY DEF DisableNvmWrite, OtherCommands
<1> HIDE DEF s
<1>6. c \in CallRecords /\ c.steps = s  BY <1>1, <1>5, CmdIsCall
<1>7. T \in Seq(CallRecords) /\ Len(T) = 1 /\ T[1] = c  BY <1>6, Alone
<1> HIDE DEF c, T
<1>8. \A k \in 1 .. Len(T) : k = 1  BY <1>7
<1>9. \A i \in 1 .. Len(T[1].steps) : i = 1 \/ i = 2
  <2>1. Len(T[1].steps) = 2  BY <1>1, <1>6, <1>7
  <2>2. \A i \in 1 .. 2 : i = 1 \/ i = 2  OBVIOUS
  <2>. QED  BY <2>1, <2>2
<1>10. /\ s[2] \notin Selecting /\ s[2] \notin Programming /\ s[2] \notin Leaving
       /\ s[1] \notin Awaiting
  BY <1>2, KindsDo
<1>11. Only(T, {"select", "waits"})
  <2>1. \A i \in 1 .. Len(T[1].steps) : T[1].steps[i].do \in {"select", "waits"}
    BY <1>2, <1>6, <1>7, <1>9
  <2>. QED  BY <2>1, <1>8 DEF Only
<1>12. Free(T, Selecting) /\ Free(T, Programming) /\ Free(T, Leaving) /\ Free(T, Awaiting)
  <2>1. \A i \in 1 .. Len(T[1].steps) :
          /\ T[1].steps[i] \notin Selecting /\ T[1].steps[i] \notin Programming
          /\ T[1].steps[i] \notin Leaving /\ T[1].steps[i] \notin Awaiting
    BY <1>2, <1>3, <1>4, <1>6, <1>7, <1>9, <1>10
  <2>. QED  BY <2>1, <1>8 DEF Free, Has
<1>13. Has(T[1], Deselecting) /\ Has(T[1], Relaxing)
  <2>1. 1 \in 1 .. Len(T[1].steps) /\ 2 \in 1 .. Len(T[1].steps)
    <3>1. Len(T[1].steps) = 2  BY <1>1, <1>6, <1>7
    <3>. QED  BY <3>1
  <2>2. T[1].steps[1] \in Deselecting /\ T[1].steps[2] \in Relaxing  BY <1>3, <1>4, <1>6, <1>7
  <2>. QED  BY <2>1, <2>2, HasStep
<1>14. Restores(T, Deselecting, Leaving) /\ Restores(T, Relaxing, Awaiting)
  BY <1>7, <1>12, <1>13 DEF Restores, Free
<1>. QED  BY <1>7, <1>11, <1>12, <1>14 DEF T, c

\* write_image: enabled, written, disabled
LEMMA EnabledAndDisabled ==
  ASSUME NEW E \in Seq(CallRecords), NEW S \in Seq(CallRecords), NEW acts, NEW n,
         Only(E, {"select", "waits"}), Prepared(E, n),
         Only(S, acts), acts \cap {"select", "waits"} = {},
         NEW I, I = (E \o S) \o << DisableNvmWrite >>
  PROVE  /\ I \in Seq(CallRecords) /\ Only(I, acts \cup {"select", "waits"})
         /\ Prepared(I, n)
         /\ Restores(I, Deselecting, Leaving) /\ Restores(I, Relaxing, Awaiting)
         /\ Free(E, Programming) => Free(I, Programming)
<1> DEFINE D == << DisableNvmWrite >>
           F == E \o S
           more == acts \cup {"select", "waits"}
<1>1. /\ D \in Seq(CallRecords) /\ Only(D, {"select", "waits"})
      /\ Free(D, Selecting) /\ Free(D, Programming)
      /\ Restores(D, Deselecting, Leaving) /\ Restores(D, Relaxing, Awaiting)
  BY DisableFacts
<1> HIDE DEF D
<1>2. I = F \o D  BY DEF D
<1>3. F \in Seq(CallRecords)  BY JoinFacts
<1>4. Only(E, more) /\ Only(S, more) /\ Only(D, more)
  <2>1. {"select", "waits"} \subseteq more /\ acts \subseteq more  OBVIOUS
  <2> HIDE DEF more
  <2>. QED  BY <2>1, <1>1, OnlyMore
<1> HIDE DEF more
<1>5. Only(F, more)  BY <1>4, OnlyJoin
<1>6. Free(S, Selecting) /\ Free(S, Programming)
  <2>1. \A s \in Selecting : s.do \notin acts  BY KindsDo
  <2>2. \A s \in Programming : s.do \notin acts  BY KindsDo
  <2>. QED  BY <2>1, <2>2, OnlyFree
<1>7. Prepared(S, "FLWR") /\ Prepared(D, "FLWR")  BY <1>1, <1>6, PreparedFree
<1>8. Prepared(F, n)  BY <1>7, PreparedJoin
<1>9. Free(E, Programming) => Free(F, Programming)  BY <1>6, FreeJoin
<1> HIDE DEF F
<1>10. I \in Seq(CallRecords) /\ Only(I, more) /\ Prepared(I, n)
  <2>1. F \o D \in Seq(CallRecords)  BY <1>1, <1>3, JoinFacts
  <2>2. Only(F \o D, more)  BY <1>1, <1>3, <1>4, <1>5, OnlyJoin
  <2>3. Prepared(F \o D, n)  BY <1>1, <1>3, <1>7, <1>8, PreparedJoin
  <2>. QED  BY <2>1, <2>2, <2>3, <1>2
<1>11. Restores(I, Deselecting, Leaving) /\ Restores(I, Relaxing, Awaiting)
  BY <1>1, <1>2, <1>3, RestoresLate
<1>12. Free(E, Programming) => Free(I, Programming)  BY <1>1, <1>2, <1>3, <1>9, FreeJoin
<1>. QED  BY <1>10, <1>11, <1>12 DEF more

\* The kinds of steps of write_image
ImageActs == {"point", "put", "putat", "select", "waits"}

LEMMA WriteImageFacts ==
  ASSUME NEW w \in WritePlans
  PROVE  /\ WriteImage(w) \in Seq(CallRecords)
         /\ Only(WriteImage(w), ImageActs)
         /\ Prepared(WriteImage(w), IF w.type = "flash" THEN "FLWR" ELSE "NONE")
         /\ w.type = "ram" => Only(WriteImage(w), {"point", "put"})
         /\ w.type # "ram" => /\ Restores(WriteImage(w), Deselecting, Leaving)
                              /\ Restores(WriteImage(w), Relaxing, Awaiting)
         /\ w.type # "flash" => Free(WriteImage(w), Programming)
<1> DEFINE I == WriteImage(w)
           S == WriteSections(w)
<1>1. w.type \in {"ram", "eeprom", "flash"}  BY DEF WritePlans, MemoryTypes
<1>2. CASE w.type = "flash"
  <2> DEFINE E == << EnableFlashWrite >>
             acts == {"point", "put"}
  <2>1. I = (E \o S) \o << DisableNvmWrite >>  BY <1>2 DEF WriteImage
  <2>2. S \in Seq(CallRecords) /\ Only(S, acts)  BY <1>2, BlocksFacts
  <2>3. E \in Seq(CallRecords) /\ Only(E, {"select", "waits"}) /\ Prepared(E, "FLWR")
    BY FlashEnableFacts
  <2>4. acts \cap {"select", "waits"} = {}  OBVIOUS
  <2>5. acts \cup {"select", "waits"} \subseteq ImageActs  BY DEF ImageActs
  <2> HIDE DEF I, S, E, acts
  <2>6. /\ I \in Seq(CallRecords) /\ Only(I, acts \cup {"select", "waits"})
        /\ Prepared(I, "FLWR")
        /\ Restores(I, Deselecting, Leaving) /\ Restores(I, Relaxing, Awaiting)
    BY <2>1, <2>2, <2>3, <2>4, EnabledAndDisabled
  <2>7. Only(I, ImageActs)  BY <2>5, <2>6, OnlyMore
  <2>. QED  BY <1>2, <2>6, <2>7 DEF I
<1>3. CASE w.type = "eeprom"
  <2> DEFINE E == << EnableEepromWrite >>
             acts == {"putat"}
  <2>1. I = (E \o S) \o << DisableNvmWrite >>  BY <1>3 DEF WriteImage
  <2>2. S \in Seq(CallRecords) /\ Only(S, acts)  BY <1>3, BytesFacts
  <2>3. /\ E \in Seq(CallRecords) /\ Only(E, {"select", "waits"}) /\ Prepared(E, "NONE")
        /\ Free(E, Programming)
    BY EepromEnableFacts
  <2>4. acts \cap {"select", "waits"} = {}  OBVIOUS
  <2>5. acts \cup {"select", "waits"} \subseteq ImageActs  BY DEF ImageActs
  <2> HIDE DEF I, S, E, acts
  <2>6. /\ I \in Seq(CallRecords) /\ Only(I, acts \cup {"select", "waits"})
        /\ Prepared(I, "NONE") /\ Free(I, Programming)
        /\ Restores(I, Deselecting, Leaving) /\ Restores(I, Relaxing, Awaiting)
    BY <2>1, <2>2, <2>3, <2>4, EnabledAndDisabled
  <2>7. Only(I, ImageActs)  BY <2>5, <2>6, OnlyMore
  <2>. QED  BY <1>3, <2>6, <2>7 DEF I
<1>4. CASE w.type = "ram"
  <2> DEFINE N == << >>
             acts == {"point", "put"}
             F == N \o S
  <2>1. I = F \o N  BY <1>4 DEF WriteImage
  <2>2. S \in Seq(CallRecords) /\ Only(S, acts)  BY <1>4, BlocksFacts
  <2>3. N \in Seq(CallRecords) /\ Only(N, acts)  BY Nothing
  <2>4. /\ acts \subseteq ImageActs /\ \A s \in Selecting \cup Programming : s.do \notin acts
    BY KindsDo DEF ImageActs
  <2> HIDE DEF I, S, N, acts
  <2>5. F \in Seq(CallRecords) /\ Only(F, acts)  BY <2>2, <2>3, JoinFacts, OnlyJoin
  <2> HIDE DEF F
  <2>6. I \in Seq(CallRecords) /\ Only(I, acts)  BY <2>1, <2>3, <2>5, JoinFacts, OnlyJoin
  <2>7. Free(I, Selecting) /\ Free(I, Programming)  BY <2>4, <2>6, OnlyFree
  <2>8. Only(I, ImageActs) /\ Prepared(I, "NONE")  BY <2>4, <2>6, <2>7, OnlyMore, PreparedFree
  <2>. QED  BY <1>4, <2>6, <2>7, <2>8 DEF I, acts
<1>. QED  BY <1>1, <1>2, <1>3, <1>4
\* An override of the rate, and its reversal
LEMMA OverrideFacts ==
  ASSUME NEW w \in WritePlans, NEW b \in Nat \ {0},
         NEW B, B = IF w.baud # 0 THEN << SetBaud(b) >> ELSE << >>
  PROVE  /\ B \in Seq(CallRecords) /\ Only(B, {"baud"})
         /\ w.baud # 0 => Len(B) = 1 /\ B[1].steps[1] = [do |-> "baud", to |-> b]
                          /\ Len(B[1].steps) = 1
         /\ w.baud = 0 => B = << >> /\ Only(B, {})
<1>1. CASE w.baud # 0
  <2> DEFINE T == << SetBaud(b) >>
  <2>1. /\ T \in Seq(CallRecords) /\ Len(T) = 1 /\ T[1] = SetBaud(b) /\ Only(T, {"baud"})
        /\ Len(SetBaud(b).steps) = 1 /\ SetBaud(b).steps[1] = [do |-> "baud", to |-> b]
    BY SetBaudFacts
  <2>2. B = T  BY <1>1
  <2> HIDE DEF T
  <2>. QED  BY <1>1, <2>1, <2>2
<1>2. CASE w.baud = 0  BY <1>2, Nothing
<1>. QED  BY <1>1, <1>2

\* The rate a write to flash takes place at, when the user has not asked for it, is slow
PaceKept(w) ==
  w.type = "flash" /\ ~w.asked =>
    Slow(ActualRate(IF w.baud = 0 THEN NormalBaudrate ELSE w.baud))

\* What the calls of an operation are to be, begun with no NVM command selected, no wait
\* for the NVM and the rate of the device
Sound(calls) ==
  /\ calls \in Seq(CallRecords)
  /\ NvmSettles(calls, "NONE") /\ WaitsSettle(calls, FALSE)
  /\ RateSettles(calls, ActualRate(NormalBaudrate))
  /\ Prepared(calls, "NONE")

Gentle(calls) ==
  Unwritten(calls, "NONE") \/ Paced(calls, ActualRate(NormalBaudrate))

\* Calls that select nothing but what a chip erase clears, and leave the rate alone
LEMMA PlainCalls ==
  ASSUME NEW calls \in Seq(CallRecords), Only(calls, {"point", "get", "chip", "reset"})
  PROVE  Sound(calls) /\ Gentle(calls)
<1> DEFINE acts == {"point", "get", "chip", "reset"}
<1>1. \A s \in Selecting \cup Leaving : s.do \notin acts  BY KindsDo
<1>2. \A s \in Storing \cup Overriding \cup Awaiting : s.do \notin acts  BY KindsDo
<1> HIDE DEF acts
<1>3. Only(calls, acts)  BY DEF acts
<1>4. Free(calls, Selecting) /\ Free(calls, Leaving)  BY <1>1, <1>3, OnlyFree
<1>5. Free(calls, Storing) /\ Free(calls, Overriding) /\ Free(calls, Awaiting)
  BY <1>2, <1>3, OnlyFree
<1>6. Prepared(calls, "NONE")  BY <1>4, PreparedFree
<1>7. Paced(calls, ActualRate(NormalBaudrate))  BY <1>5, PacedFree
<1>8. /\ NvmSettles(calls, "NONE") /\ WaitsSettle(calls, FALSE)
      /\ RateSettles(calls, ActualRate(NormalBaudrate))
  BY <1>4, <1>5 DEF NvmSettles, WaitsSettle, RateSettles, Settles
<1>. QED  BY <1>6, <1>7, <1>8 DEF Sound, Gentle

\* Erase, override, write, revert, verify
LEMMA WriteCallsFacts ==
  ASSUME NEW w \in WritePlans, PaceKept(w)
  PROVE  Sound(WriteCalls(w)) /\ (w.asked \/ Gentle(WriteCalls(w)))
<1> DEFINE r == ActualRate(NormalBaudrate)
           E == Erasing(w)
           B == IF w.baud # 0 THEN << SetBaud(w.baud) >> ELSE << >>
           I == WriteImage(w)
           R == IF w.baud # 0 THEN << SetBaud(NormalBaudrate) >> ELSE << >>
           V == IF w.verify THEN VerifyImage(w) ELSE << >>
           P == E \o B
           Q == P \o I
           S == Q \o R
           T == S \o V
<1>1. T = WriteCalls(w)  BY DEF WriteCalls
<1>2. /\ E \in Seq(CallRecords) /\ Only(E, {"chip", "select", "page"}) /\ Prepared(E, "FLWR")
      /\ w.type # "flash" => E = << >>
  BY ErasingFacts
<1>3. /\ B \in Seq(CallRecords) /\ Only(B, {"baud"})
      /\ w.baud # 0 => Len(B) = 1 /\ B[1].steps[1] = [do |-> "baud", to |-> w.baud]
                       /\ Len(B[1].steps) = 1
      /\ w.baud = 0 => B = << >> /\ Only(B, {})
  <2>1. CASE w.baud # 0
    <3>1. w.baud \in Nat \ {0}  BY <2>1 DEF WritePlans
    <3>. QED  BY <3>1, OverrideFacts
  <2>2. CASE w.baud = 0  BY <2>2, Nothing
  <2>. QED  BY <2>1, <2>2
<1>4. /\ R \in Seq(CallRecords) /\ Only(R, {"baud"})
      /\ w.baud # 0 => Len(R) = 1 /\ R[1].steps[1] = [do |-> "baud", to |-> NormalBaudrate]
                       /\ Len(R[1].steps) = 1
      /\ w.baud = 0 => R = << >> /\ Only(R, {})
  <2>1. NormalBaudrate \in Nat \ {0}  BY OperationsAssumption
  <2>. QED  BY <2>1, OverrideFacts
<1>5. V \in Seq(CallRecords) /\ Only(V, {"point", "get"})
  <2>1. w \in ImagePlans  BY DEF ImagePlans
  <2>. QED  BY <2>1, VerifyImageFacts, Nothing
<1>6. /\ I \in Seq(CallRecords) /\ Only(I, ImageActs)
      /\ Prepared(I, IF w.type = "flash" THEN "FLWR" ELSE "NONE")
      /\ w.type = "ram" => Only(I, {"point", "put"})
      /\ w.type # "ram" => Restores(I, Deselecting, Leaving) /\ Restores(I, Relaxing, Awaiting)
      /\ w.type # "flash" => Free(I, Programming)
  BY WriteImageFacts
<1> HIDE DEF E, B, I, R, V
<1>7. P \in Seq(CallRecords)  BY <1>2, <1>3, JoinFacts
<1> HIDE DEF P
<1>8. Q \in Seq(CallRecords)  BY <1>6, <1>7, JoinFacts
<1> HIDE DEF Q
<1>9. S \in Seq(CallRecords)  BY <1>4, <1>8, JoinFacts
<1> HIDE DEF S
<1>10. T \in Seq(CallRecords)  BY <1>5, <1>9, JoinFacts
<1> HIDE DEF T, r
<1>11. ASSUME NEW kind, Free(E, kind), Free(B, kind), Free(I, kind), Free(R, kind), Free(V, kind)
       PROVE  Free(T, kind)
  <2>1. Free(P, kind)  BY <1>2, <1>3, <1>11, FreeJoin DEF P
  <2>2. Free(Q, kind)  BY <2>1, <1>6, <1>7, <1>11, FreeJoin DEF Q
  <2>3. Free(S, kind)  BY <2>2, <1>4, <1>8, <1>11, FreeJoin DEF S
  <2>. QED  BY <2>3, <1>5, <1>9, <1>11, FreeJoin DEF T
<1>12. /\ \A s \in Selecting \cup Leaving \cup Programming : s.do \notin {"baud"}
       /\ \A s \in Selecting \cup Leaving \cup Programming : s.do \notin {"point", "get"}
       /\ \A s \in Selecting \cup Leaving \cup Programming : s.do \notin {"point", "put"}
  BY KindsDo
<1>13. \A kind \in {Selecting, Leaving, Programming, Awaiting, Storing} :
         Free(B, kind) /\ Free(R, kind)
  <2>1. \A kind \in {Selecting, Leaving, Programming, Awaiting, Storing} :
          \A s \in kind : s.do \notin {"baud"}
    BY KindsDo
  <2>. QED  BY <2>1, <1>3, <1>4, OnlyFree
<1>14. \A kind \in {Selecting, Leaving, Programming, Awaiting, Storing, Overriding, Speeding} :
         Free(V, kind)
  <2>1. \A kind \in {Selecting, Leaving, Programming, Awaiting, Storing, Overriding, Speeding} :
          \A s \in kind : s.do \notin {"point", "get"}
    BY KindsDo
  <2>. QED  BY <2>1, <1>5, OnlyFree
<1>15. \A kind \in {Awaiting, Storing, Overriding, Speeding} : Free(E, kind)
  <2>1. \A kind \in {Awaiting, Storing, Overriding, Speeding} :
          \A s \in kind : s.do \notin {"chip", "select", "page"}
    BY KindsDo
  <2>. QED  BY <2>1, <1>2, OnlyFree
<1>16. Free(I, Overriding) /\ Free(I, Speeding)
  <2>1. \A s \in Overriding \cup Speeding : s.do \notin ImageActs  BY KindsDo DEF ImageActs
  <2>. QED  BY <2>1, <1>6, OnlyFree
<1>17. w.type # "flash" => \A kind : Free(E, kind)  BY <1>2, Nothing
<1>18. w.type = "ram" => Free(I, Leaving) /\ Free(I, Awaiting)
  <2>1. \A s \in Leaving \cup Awaiting : s.do \notin {"point", "put"}  BY KindsDo
  <2>. QED  BY <2>1, <1>6, OnlyFree
<1>19. NvmSettles(T, "NONE")
  <2>1. CASE w.type = "ram"
    <3>1. Free(T, Leaving)  BY <2>1, <1>11, <1>13, <1>14, <1>17, <1>18
    <3>. QED  BY <3>1 DEF NvmSettles, Settles
  <2>2. CASE w.type # "ram"
    <3>1. Restores(Q, Deselecting, Leaving)  BY <2>2, <1>6, <1>7, RestoresLate DEF Q
    <3>2. Restores(S, Deselecting, Leaving)  BY <3>1, <1>4, <1>8, <1>13, RestoresEarly DEF S
    <3>3. Restores(T, Deselecting, Leaving)  BY <3>2, <1>5, <1>9, <1>14, RestoresEarly DEF T
    <3>. QED  BY <3>3 DEF NvmSettles, Settles
  <2>. QED  BY <2>1, <2>2
<1>20. WaitsSettle(T, FALSE)
  <2>1. CASE w.type = "ram"
    <3>1. Free(T, Awaiting)  BY <2>1, <1>11, <1>13, <1>14, <1>17, <1>18
    <3>. QED  BY <3>1 DEF WaitsSettle, Settles
  <2>2. CASE w.type # "ram"
    <3>1. Restores(Q, Relaxing, Awaiting)  BY <2>2, <1>6, <1>7, RestoresLate DEF Q
    <3>2. Restores(S, Relaxing, Awaiting)  BY <3>1, <1>4, <1>8, <1>13, RestoresEarly DEF S
    <3>3. Restores(T, Relaxing, Awaiting)  BY <3>2, <1>5, <1>9, <1>14, RestoresEarly DEF T
    <3>. QED  BY <3>3 DEF WaitsSettle, Settles
  <2>. QED  BY <2>1, <2>2
<1>21. RateSettles(T, r)
  <2>1. CASE w.baud = 0
    <3>1. Free(B, Overriding) /\ Free(R, Overriding)  BY <2>1, <1>3, <1>4, Nothing
    <3>2. Free(T, Overriding)  BY <3>1, <1>11, <1>14, <1>15, <1>16
    <3>. QED  BY <3>2 DEF RateSettles, Settles, r
  <2>2. CASE w.baud # 0
    <3>1. /\ [do |-> "baud", to |-> NormalBaudrate] \in Reverting
          /\ [do |-> "baud", to |-> NormalBaudrate] \notin Overriding
      BY DEF Reverting, Overriding
    <3>2. 1 \in 1 .. Len(R[1].steps) /\ R[1].steps[1] \in Reverting  BY <2>2, <3>1, <1>4
    <3>3. Has(R[1], Reverting)  BY <3>2, HasStep
    <3>4. ~Has(R[1], Overriding)  BY <2>2, <3>1, <1>4 DEF Has
    <3>5. Restores(R, Reverting, Overriding)
      <4>1. 1 \in 1 .. Len(R) /\ \A j \in 1 .. Len(R) : j = 1
        <5>1. Len(R) = 1  BY <2>2, <1>4
        <5>2. 1 \in 1 .. 1 /\ \A j \in 1 .. 1 : j = 1  OBVIOUS
        <5>. QED  BY <5>1, <5>2
      <4>. QED  BY <4>1, <3>3, <3>4 DEF Restores
    <3>6. Restores(S, Reverting, Overriding)  BY <3>5, <1>4, <1>8, RestoresLate DEF S
    <3>7. Restores(T, Reverting, Overriding)  BY <3>6, <1>5, <1>9, <1>14, RestoresEarly DEF T
    <3>. QED  BY <3>7 DEF RateSettles, Settles
  <2>. QED  BY <2>1, <2>2
<1>22. Prepared(T, "NONE")
  <2>1. Prepared(R, "FLWR") /\ Prepared(V, "FLWR") /\ Prepared(B, "FLWR")
    BY <1>13, <1>14, PreparedFree
  <2>2. Prepared(Q, "NONE")
    <3>1. CASE w.type = "flash"
      <4>1. Prepared(E, "NONE")  BY <1>2, PreparedAnyway
      <4>2. Prepared(P, "NONE")  BY <4>1, <2>1, <1>2, <1>3, PreparedJoin DEF P
      <4>3. Prepared(I, "FLWR")  BY <3>1, <1>6
      <4>. QED  BY <4>2, <4>3, <1>6, <1>7, PreparedJoin DEF Q
    <3>2. CASE w.type # "flash"
      <4>1. Free(P, Selecting)  BY <3>2, <1>2, <1>3, <1>13, <1>17, FreeJoin DEF P
      <4>2. Prepared(I, "NONE")  BY <3>2, <1>6
      <4>. QED  BY <4>1, <4>2, <1>6, <1>7, PreparedAfter DEF Q
    <3>. QED  BY <3>1, <3>2
  <2>3. Prepared(S, "NONE")  BY <2>1, <2>2, <1>4, <1>8, PreparedJoin DEF S
  <2>. QED  BY <2>1, <2>3, <1>5, <1>9, PreparedJoin DEF T
<1>23. w.asked \/ Unwritten(T, "NONE") \/ Paced(T, r)
  <2>1. CASE w.type # "flash"
    <3>1. Free(T, Programming)  BY <2>1, <1>6, <1>11, <1>13, <1>14, <1>17
    <3>. QED  BY <3>1 DEF Unwritten
  <2>2. CASE w.type = "flash" /\ ~w.asked
    <3>1. Slow(ActualRate(IF w.baud = 0 THEN NormalBaudrate ELSE w.baud))
      BY <2>2 DEF PaceKept
    <3>2. Free(P, Storing)  BY <1>2, <1>3, <1>13, <1>15, FreeJoin DEF P
    <3>3. Free(B, Speeding) /\ (Slow(r) \/ \E j \in 1 .. Len(B) : Has(B[j], Slowing))
      <4>1. CASE w.baud = 0
        <5>1. Slow(r)  BY <3>1, <4>1 DEF r
        <5>. QED  BY <4>1, <5>1, <1>3, Nothing
      <4>2. CASE w.baud # 0
        <5> DEFINE b == [do |-> "baud", to |-> w.baud]
        <5>1. w.baud \in Nat \ {0}  BY <4>2 DEF WritePlans
        <5>2. Slow(ActualRate(w.baud))  BY <3>1, <4>2
        <5>3. b \in Slowing /\ b \notin Speeding  BY <5>1, <5>2 DEF Slowing, Speeding
        <5> HIDE DEF b
        <5>4. Len(B) = 1 /\ B[1].steps[1] = b /\ Len(B[1].steps) = 1  BY <4>2, <1>3 DEF b
        <5>5. 1 \in 1 .. Len(B[1].steps) /\ 1 \in 1 .. Len(B)  BY <5>4
        <5>6. Has(B[1], Slowing)  BY <5>3, <5>4, <5>5, HasStep
        <5>7. Free(B, Speeding)  BY <5>3, <5>4 DEF Free, Has
        <5>. QED  BY <5>5, <5>6, <5>7
      <4>. QED  BY <4>1, <4>2
    <3>4. Free(P, Speeding)  BY <3>3, <1>2, <1>3, <1>15, FreeJoin DEF P
    <3>5. Slow(r) \/ \E j \in 1 .. Len(P) : Has(P[j], Slowing)
      <4>1. ASSUME NEW j \in 1 .. Len(B), Has(B[j], Slowing)
            PROVE  \E i \in 1 .. Len(P) : Has(P[i], Slowing)
        <5>1. j + Len(E) \in 1 .. Len(P) /\ P[j + Len(E)] = B[j]
          BY <1>2, <1>3, JoinFacts DEF P
        <5>. QED  BY <4>1, <5>1
      <4>. QED  BY <3>3, <4>1
    <3>6. Paced(Q, r)  BY <3>2, <3>4, <3>5, <1>6, <1>7, <1>16, PacedAfter DEF Q
    <3>7. Paced(S, r)  BY <3>6, <1>4, <1>8, <1>13, PacedJoin DEF S
    <3>8. Paced(T, r)  BY <3>7, <1>5, <1>9, <1>14, PacedJoin DEF T
    <3>. QED  BY <3>8
  <2>. QED  BY <2>1, <2>2
<1>24. Sound(T) /\ (w.asked \/ Gentle(T))
  BY <1>10, <1>19, <1>20, <1>21, <1>22, <1>23 DEF Sound, Gentle, r
<1>. QED  BY <1>1, <1>24
-------------------------------------------------------------------------------
(* What an operation plans *)

Plans == ImagePlans \cup [tag : {"R", "E", "none"}]

LEMMA OperandFacts ==
  ASSUME NEW op \in OperationRecords
  PROVE  /\ op.tag \in {"W", "V", "R", "E"}
         /\ op.tag \in {"W", "V"} => op.dest \in DestOperands /\ op.data \in DataOperands
         /\ op.tag = "R" => op.dest \in DestOperands
         /\ op.tag = "W" => /\ op.type \in MemoryTypes \cup {""}
                            /\ op.erase \in EraseModes \cup {""}
                            /\ op.baud \in Nat /\ op.verify \in BOOLEAN
<1> HIDE DEF DestOperands, DataOperands
<1>. QED  BY DEF OperationRecords

LEMMA DataFacts ==
  ASSUME NEW data \in DataOperands
  PROVE  /\ data.hex \in BOOLEAN
         /\ data.hex => data.byte \in Values
         /\ ~data.hex => data.image \in Images
BY DEF DataOperands

LEMMA DestFacts ==
  ASSUME NEW dest \in DestOperands
  PROVE  dest.hex \in BOOLEAN /\ (dest.hex => dest.at \in Nat)
BY DEF DestOperands

LEMMA DirectFacts ==
  ASSUME NEW byte \in Values
  PROVE  Direct(byte) \in Images
<1> DEFINE d == << byte >>
           s == [address |-> 0, data |-> d]
<1>1. d \in Seq(Values) /\ Len(d) = 1  OBVIOUS
<1>2. 1 \in 1 .. SectionMaxSize + RecordMaxSize
  <2>1. SectionMaxSize + RecordMaxSize \in Nat \ {0}  BY DEF SectionMaxSize, RecordMaxSize
  <2>. QED  BY <2>1
<1> HIDE DEF d
<1>3. s \in Sections  BY <1>1, <1>2 DEF Sections
<1>4. Direct(byte) = << s >>  BY DEF Direct, d
<1> HIDE DEF s
<1>. QED  BY <1>3, <1>4 DEF Images

LEMMA ResolvedFacts ==
  ASSUME NEW op \in OperationRecords, op.tag = "W", NEW memory \in MemoryRecords,
         NEW direct \in BOOLEAN, direct <=> op.data.hex
  PROVE  /\ Resolved(op, memory, direct) \in WritePlans
         /\ Resolved(op, memory, direct).tag = "W"
         /\ Resolved(op, memory, direct).asked => Resolved(op, memory, direct).baud # 0
         /\ PaceKept(Resolved(op, memory, direct))
<1> DEFINE type  == IF op.type # "" THEN op.type ELSE memory.type
           erase == IF op.erase # "" THEN op.erase ELSE memory.erase
           baud  == BaudOverride(op, type)
           image == IF direct THEN Direct(op.data.byte) ELSE op.data.image
           w     == Resolved(op, memory, direct)
<1>1. /\ op.type \in MemoryTypes \cup {""} /\ op.erase \in EraseModes \cup {""}
      /\ op.baud \in Nat /\ op.verify \in BOOLEAN /\ op.data \in DataOperands
  BY OperandFacts
<1>2. memory.address \in Nat /\ memory.type \in MemoryTypes /\ memory.erase \in EraseModes
  BY DEF MemoryRecords
<1>3. type \in MemoryTypes /\ erase \in EraseModes  BY <1>1, <1>2
<1>4. image \in Images  BY <1>1, DataFacts, DirectFacts
<1>5. NormalBaudrate \in Nat \ {0} /\ FlashWriteMaxBaudrate \in Nat \ {0}
  BY OperationsAssumption
<1>6. baud \in Nat
  <2>1. Unlimited \in Nat  BY DEF Unlimited
  <2>2. MaxBaudrate(type) \in Nat  BY <2>1, <1>5 DEF MaxBaudrate
  <2>. QED  BY <2>2, <1>1, <1>5 DEF BaudOverride
<1>7. type = "flash" /\ op.baud = 0 =>
        baud = IF NormalBaudrate > FlashWriteMaxBaudrate THEN FlashWriteMaxBaudrate ELSE 0
  BY DEF BaudOverride, MaxBaudrate
<1>8. w = [tag |-> "W", base |-> memory.address, type |-> type, erase |-> erase,
           baud |-> baud, asked |-> op.baud # 0, image |-> image, verify |-> op.verify]
  BY DEF Resolved
<1> HIDE DEF type, erase, image, baud, w
<1>9. w \in WritePlans /\ w.tag = "W"
  BY <1>1, <1>2, <1>3, <1>4, <1>6, <1>8 DEF WritePlans
<1>10. PaceKept(w)
  <2> SUFFICES ASSUME type = "flash", op.baud = 0
               PROVE  Slow(ActualRate(IF baud = 0 THEN NormalBaudrate ELSE baud))
    BY <1>8 DEF PaceKept
  <2>1. CASE NormalBaudrate > FlashWriteMaxBaudrate
    <3>1. baud = FlashWriteMaxBaudrate /\ baud # 0  BY <2>1, <1>5, <1>7
    <3>. QED  BY <2>1, <3>1, PaceAssumption
  <2>2. CASE ~(NormalBaudrate > FlashWriteMaxBaudrate)
    <3>1. baud = 0  BY <2>2, <1>7
    <3>. QED  BY <2>2, <3>1, PaceAssumption
  <2>. QED  BY <2>1, <2>2
<1>11. w.asked => w.baud # 0  BY <1>8 DEF baud, BaudOverride
<1>. QED  BY <1>9, <1>10, <1>11 DEF w

LEMMA OpFacts ==
  ASSUME ctl.job \in Jobs, ctl.k \in Nat, ctl.k < Len(ctl.job)
  PROVE  Op \in OperationRecords
<1>1. ctl.job \in Seq(OperationRecords)  BY OperationsAssumption
<1>2. ctl.k + 1 \in 1 .. Len(ctl.job)  BY <1>1, LenProperties
<1>. QED  BY <1>1, <1>2, ElementOfSeq DEF Op

LEMMA MemoryFacts ==
  ASSUME Op \in OperationRecords, Op.tag # "E", Known
  PROVE  Memory \in MemoryRecords
<1>1. Op.tag \in {"W", "V", "R"} /\ Op.dest \in DestOperands  BY OperandFacts
<1>2. Operands[1] = Op.dest  BY <1>1 DEF Operands
<1>3. CASE IsHex(1)
  <2>1. Op.dest.hex  BY <1>2, <1>3 DEF IsHex
  <2>2. Op.dest.at \in Nat  BY <1>1, <2>1, DestFacts
  <2>3. AtAddress(Op.dest.at) \in MemoryRecords
    BY <2>2 DEF AtAddress, MemoryRecords, MemoryTypes, EraseModes
  <2>. QED  BY <1>3, <2>3 DEF Memory
<1>4. CASE ~IsHex(1)
  <2>1. Op.dest.name \in DOMAIN Memories  BY <1>4 DEF Known
  <2>. QED  BY <1>4, <2>1, OperationsAssumption DEF Memory
<1>. QED  BY <1>3, <1>4

\* What an operation plans and calls, if it is not refused
LEMMA PlannedFacts ==
  ASSUME ctl.job \in Jobs, ctl.k \in Nat, ctl.k < Len(ctl.job), Refusals = {}
  PROVE  /\ Planned \in Plans /\ Sound(Calls(Planned))
         /\ Gentle(Calls(Planned)) \/ (Planned.tag = "W" /\ Planned.asked)
         /\ Planned.tag = Op.tag /\ Op.tag \in {"W", "V", "R", "E"}
         /\ Op.tag = "W" => /\ Planned \in WritePlans /\ Calls(Planned) = WriteCalls(Planned)
                            /\ Planned.asked => Planned.baud # 0
         /\ Op.tag = "E" => Calls(Planned) = << ChipErase >>
         /\ Op.tag \in {"V", "R"} => Only(Calls(Planned), {"point", "get"})
<1>1. Op \in OperationRecords  BY OpFacts
<1>2. Op.tag \in {"W", "V", "R", "E"}  BY <1>1, OperandFacts
<1>3. CASE Op.tag = "E"
  <2>1. Planned = [tag |-> "E"] /\ Calls(Planned) = << ChipErase >>  BY <1>3 DEF Planned, Calls
  <2> DEFINE T == << ChipErase >>
  <2>2. T \in Seq(CallRecords) /\ Only(T, {"chip"})  BY ChipEraseFacts
  <2> HIDE DEF T
  <2>3. Only(T, {"point", "get", "chip", "reset"})  BY <2>2, OnlyMore
  <2>4. Sound(T) /\ Gentle(T)  BY <2>2, <2>3, PlainCalls
  <2>5. Planned \in Plans  BY <2>1 DEF Plans
  <2>. QED  BY <1>3, <2>1, <2>4, <2>5 DEF T
<1>4. CASE Op.tag = "R"
  <2> DEFINE a == Memory.address
             T == << SetBlockAddress(a), ReadBlock(1) >>
  <2>1. Planned = [tag |-> "R"] /\ Calls(Planned) = T  BY <1>4 DEF Planned, Calls
  <2>2. Known  BY <1>4 DEF Refusals
  <2>3. a \in Nat  BY <1>1, <1>4, <2>2, MemoryFacts DEF MemoryRecords
  <2> HIDE DEF a
  <2> DEFINE c == SetBlockAddress(a)
             d == ReadBlock(1)
  <2>4. c \in CallRecords /\ Len(c.steps) = 1 /\ c.steps[1].do = "point"
    BY <2>3, SetAddressFacts
  <2>5. d \in CallRecords /\ Len(d.steps) = 1 /\ d.steps[1].do = "get"  BY ReadFacts
  <2>6. T = << c, d >>  OBVIOUS
  <2> HIDE DEF c, d, T
  <2>7. T \in Seq(CallRecords) /\ Len(T) = 2 /\ T[1] = c /\ T[2] = d  BY <2>4, <2>5, <2>6
  <2>8. Only(T, {"point", "get"})
    <3>1. \A k \in 1 .. Len(T) : T[k] = c \/ T[k] = d
      <4>1. \A k \in 1 .. 2 : k = 1 \/ k = 2  OBVIOUS
      <4>. QED  BY <4>1, <2>7
    <3>2. \A i \in 1 .. Len(c.steps) : c.steps[i].do \in {"point", "get"}  BY <2>4
    <3>3. \A i \in 1 .. Len(d.steps) : d.steps[i].do \in {"point", "get"}  BY <2>5
    <3>. QED  BY <3>1, <3>2, <3>3 DEF Only
  <2>9. Only(T, {"point", "get", "chip", "reset"})  BY <2>8, OnlyMore
  <2>10. Sound(T) /\ Gentle(T)  BY <2>7, <2>9, PlainCalls
  <2>11. Planned \in Plans  BY <2>1 DEF Plans
  <2>. QED  BY <1>4, <2>1, <2>8, <2>10, <2>11
<1>5. CASE Op.tag \in {"W", "V"}
  <2>1. Known /\ ~(Op.data.hex /\ ~IsHex(2))  BY <1>5 DEF Refusals
  <2>2. Memory \in MemoryRecords  BY <1>1, <1>5, <2>1, MemoryFacts
  <2>3. IsHex(2) \in BOOLEAN /\ (IsHex(2) <=> Op.data.hex)
    <3>1. Operands[2] = Op.data  BY <1>5 DEF Operands
    <3>. QED  BY <2>1, <3>1 DEF IsHex
  <2>4. CASE Op.tag = "W"
    <3> DEFINE w == Resolved(Op, Memory, IsHex(2))
    <3>1. w \in WritePlans /\ w.tag = "W" /\ PaceKept(w) /\ (w.asked => w.baud # 0)
      BY <1>1, <2>2, <2>3, <2>4, ResolvedFacts
    <3>2. Planned = w /\ Calls(w) = WriteCalls(w)  BY <2>4 DEF Planned, Calls
    <3> HIDE DEF w
    <3>3. Sound(WriteCalls(w)) /\ (w.asked \/ Gentle(WriteCalls(w)))
      BY <3>1, WriteCallsFacts
    <3>. QED  BY <2>4, <3>1, <3>2, <3>3 DEF Plans, ImagePlans
  <2>5. CASE Op.tag = "V"
    <3> DEFINE w == [tag |-> "V", base |-> Memory.address, image |-> Image]
               T == IF IsHex(2) THEN << ReadByte >> ELSE VerifyImage(w)
    <3>1. Planned = w /\ Calls(w) = T  BY <2>5 DEF Planned, Calls
    <3>2. Image \in Images
      <4>1. Op.data \in DataOperands  BY <1>1, <1>5, OperandFacts
      <4>. QED  BY <4>1, <2>3, DataFacts, DirectFacts DEF Image
    <3>3. w \in ImagePlans  BY <3>2, <2>2 DEF ImagePlans, MemoryRecords
    <3>4. w.tag = "V"  BY DEF w
    <3> HIDE DEF w
    <3>5. T \in Seq(CallRecords) /\ (Only(T, {"get"}) \/ Only(T, {"point", "get"}))
      BY <3>3, ReadByteFacts, VerifyImageFacts
    <3> HIDE DEF T
    <3>6. Only(T, {"point", "get"}) /\ Only(T, {"point", "get", "chip", "reset"})
      BY <3>5, OnlyMore
    <3>7. Sound(T) /\ Gentle(T)  BY <3>5, <3>6, PlainCalls
    <3>. QED  BY <2>5, <3>1, <3>3, <3>4, <3>6, <3>7 DEF Plans
  <2>. QED  BY <1>5, <2>4, <2>5
<1>. QED  BY <1>2, <1>3, <1>4, <1>5
-------------------------------------------------------------------------------
(* The invariant *)

Results == {"running", "SUCCESS", "BAD_COMMAND", "FILE_IO_ERROR", "FILE_FORMAT_ERROR",
            "UPDI_ERROR", "NO_START", "NO_STOP", "KILLED", "ASTRAY"}

CtlRecords ==
  [job : Jobs, k : Nat, todo : Seq(CallRecords), now : Plans, round : 1 .. 2,
   multi : BOOLEAN, result : Results, stripped : SUBSET (Nat \X (1 .. 2)),
   excused : SUBSET Flash]

\* The calls still to make leave the session tidy
Settled(calls, n, b, r) ==
  NvmSettles(calls, n) /\ WaitsSettle(calls, b) /\ RateSettles(calls, r)

\* They write flash at a slow rate, if they write flash at all
Steady(calls, n, r) == Unwritten(calls, n) \/ Paced(calls, r)

Asked(w) == w.tag = "W" /\ w.asked

IInv ==
  /\ TypeOK
  /\ ctl \in CtlRecords
  /\ Running => Settled(ctl.todo, nvm, waits, rate)
  /\ Prepared(ctl.todo, nvm)
  /\ Steady(ctl.todo, nvm, rate) \/ Asked(ctl.now)
  /\ Astray => ctl.todo = << >>

-------------------------------------------------------------------------------
(* What a step makes of what is selected, of the wait and of the rate *)

LEMMA StepFacts ==
  ASSUME NEW s \in Steps
  PROVE  /\ s.do \in {"reset", "chip", "baud", "select", "waits", "page", "point", "put",
                      "putat", "get"}
         /\ s.do = "baud" => s.to \in Nat \ {0}
         /\ s.do = "select" => s.cmd \in NvmCommands
         /\ s.do = "waits" => s.on \in BOOLEAN
         /\ s.do \in {"page", "point", "putat"} => s.at \in Nat
         /\ s.do \in {"put", "putat"} => s.byte \in Values
         /\ s.do = "get" => s.n \in Nat
BY DEF Steps

LEMMA SelectKinds ==
  ASSUME NEW s \in Steps, s.do = "select"
  PROVE  /\ s \in Leaving <=> s.cmd # "NONE"
         /\ s \in Selecting <=> s.cmd \notin Passive
         /\ s \in Clearing <=> s.cmd \in Passive
         /\ s \in Programming <=> s.cmd = "FLWR"
         /\ s \in Deselecting <=> s.cmd = "NONE"
<1>1. s \in [do : {"select"}, cmd : NvmCommands]  BY DEF Steps
<1>2. "NONE" \in NvmCommands /\ "FLWR" \in NvmCommands /\ Passive \subseteq NvmCommands
  BY DEF NvmCommands, Passive
<1>3. \A X \in SUBSET NvmCommands : s \in [do : {"select"}, cmd : X] <=> s.cmd \in X
  BY <1>1
<1>4. /\ s \in Leaving <=> s.cmd \in NvmCommands \ {"NONE"}
      /\ s \in Selecting <=> s.cmd \in NvmCommands \ Passive
      /\ s \in Clearing <=> s.cmd \in Passive
  BY <1>2, <1>3 DEF Leaving, Selecting, Clearing
<1>5. /\ s \in Programming <=> s.cmd \in {"FLWR"}
      /\ s \in Deselecting <=> s.cmd \in {"NONE"}
  <2>1. s \notin [do : {"reset", "chip"}]  BY <1>1
  <2>. QED  BY <2>1, <1>2, <1>3 DEF Programming, Deselecting
<1>. QED  BY <1>1, <1>4, <1>5

LEMMA WaitsKinds ==
  ASSUME NEW s \in Steps, s.do = "waits"
  PROVE  (s \in Relaxing <=> s.on = FALSE) /\ (s \in Awaiting <=> s.on = TRUE)
<1>1. s \in [do : {"waits"}, on : BOOLEAN]  BY DEF Steps
<1>. QED  BY <1>1 DEF Relaxing, Awaiting

LEMMA BaudKinds ==
  ASSUME NEW s \in Steps, s.do = "baud"
  PROVE  /\ s \in Reverting <=> s.to = NormalBaudrate
         /\ s \in Overriding <=> s.to # NormalBaudrate
         /\ s \in Slowing <=> Slow(ActualRate(s.to))
         /\ s \in Speeding <=> ~Slow(ActualRate(s.to))
<1>1. s \in [do : {"baud"}, to : Nat \ {0}]  BY DEF Steps
<1>2. /\ s \in Reverting <=> s.to = NormalBaudrate
      /\ s \in Overriding <=> s.to # NormalBaudrate
  <2>1. NormalBaudrate \in Nat \ {0}  BY OperationsAssumption
  <2>. QED  BY <1>1, <2>1 DEF Reverting, Overriding
<1>. QED  BY <1>1, <1>2 DEF Slowing, Speeding

LEMMA OtherKinds ==
  ASSUME NEW s \in Steps
  PROVE  /\ s.do # "select" => /\ s \notin Leaving /\ s \notin Selecting /\ s \notin Clearing
                               /\ s \notin Programming
         /\ s.do \notin {"select", "reset", "chip"} => s \notin Deselecting
         /\ s.do # "waits" => s \notin Relaxing /\ s \notin Awaiting
         /\ s.do # "baud" => /\ s \notin Reverting /\ s \notin Overriding
                             /\ s \notin Slowing /\ s \notin Speeding
BY KindsDo

\* A step s makes what it is to make
Makes(s, m, c, q) ==
  /\ s \in Deselecting => m = "NONE"
  /\ s \in Clearing => m \in Passive
  /\ s \in Relaxing => c = FALSE
  /\ s \in Reverting => q = ActualRate(NormalBaudrate)
  /\ s \in Slowing => Slow(q)

\* and leaves alone what it is not to spoil
Spares(s, n, m, b, c, r, q) ==
  /\ n = "NONE" /\ s \notin Leaving => m = "NONE"
  /\ n \in Passive /\ s \notin Selecting => m \in Passive
  /\ n # "FLWR" /\ s \notin Programming => m # "FLWR"
  /\ b = FALSE /\ s \notin Awaiting => c = FALSE
  /\ r = ActualRate(NormalBaudrate) /\ s \notin Overriding => q = ActualRate(NormalBaudrate)
  /\ Slow(r) /\ s \notin Speeding => Slow(q)

LEMMA Advancing ==
  ASSUME NEW T \in Seq(CallRecords), T # << >>,
         NEW n, NEW m, NEW b, NEW c, NEW r, NEW q,
         Makes(T[1].steps[1], m, c, q), Spares(T[1].steps[1], n, m, b, c, r, q)
  PROVE  /\ Settled(T, n, b, r) => Settled(Advance(T), m, c, q)
         /\ Prepared(T, n) => Prepared(Advance(T), m)
         /\ Steady(T, n, r) => Steady(Advance(T), m, q)
<1> DEFINE s == T[1].steps[1]
<1>1. Makes(s, m, c, q) /\ Spares(s, n, m, b, c, r, q)  OBVIOUS
<1>2. NvmSettles(T, n) => NvmSettles(Advance(T), m)
  <2>1. /\ s \in Deselecting => m \in {"NONE"}
        /\ n \in {"NONE"} /\ s \notin Leaving => m \in {"NONE"}
    BY <1>1 DEF Makes, Spares
  <2>. QED  BY <2>1, SettlesAdvance DEF NvmSettles
<1>3. WaitsSettle(T, b) => WaitsSettle(Advance(T), c)
  <2>1. /\ s \in Relaxing => c \in {FALSE}
        /\ b \in {FALSE} /\ s \notin Awaiting => c \in {FALSE}
    BY <1>1 DEF Makes, Spares
  <2>. QED  BY <2>1, SettlesAdvance DEF WaitsSettle
<1>4. RateSettles(T, r) => RateSettles(Advance(T), q)
  <2>1. /\ s \in Reverting => q \in {ActualRate(NormalBaudrate)}
        /\ r \in {ActualRate(NormalBaudrate)} /\ s \notin Overriding
             => q \in {ActualRate(NormalBaudrate)}
    BY <1>1 DEF Makes, Spares
  <2>. QED  BY <2>1, SettlesAdvance DEF RateSettles
<1>5. Prepared(T, n) => Prepared(Advance(T), m)
  <2>1. /\ s \in Clearing => m \in Passive
        /\ n \in Passive /\ s \notin Selecting => m \in Passive
    BY <1>1 DEF Makes, Spares
  <2>. QED  BY <2>1, PreparedAdvance
<1>6. Paced(T, r) => Paced(Advance(T), q)
  <2>1. (s \in Slowing => Slow(q)) /\ (Slow(r) /\ s \notin Speeding => Slow(q))
    BY <1>1 DEF Makes, Spares
  <2>. QED  BY <2>1, PacedAdvance
<1>7. Unwritten(T, n) => Unwritten(Advance(T), m)
  <2>1. ASSUME Unwritten(T, n)  PROVE s \notin Programming => m # "FLWR"
    BY <1>1, <2>1 DEF Spares, Unwritten
  <2>. QED  BY <2>1, UnwrittenRest
<1>. QED  BY <1>2, <1>3, <1>4, <1>5, <1>6, <1>7 DEF Settled, Steady

\* A page erase selects nothing but its own command
LEMMA PageStepKinds ==
  ASSUME NEW T \in Seq(CallRecords), T # << >>, T[1].cmd = CMD_FLASH_PAGE_ERASE
  PROVE  /\ ~Has(T[1], Deselecting) /\ ~Has(T[1], Relaxing) /\ ~Has(T[1], Reverting)
         /\ ~Has(T[1], Slowing)
         /\ T[1].steps[1].do \in {"select", "page"}
<1>1. T[1] \in CallRecords /\ Len(T[1].steps) \in Nat \ {0}  BY AdvanceFacts
<1>2. T[1].steps \in Seq(PageSteps)  BY <1>1 DEF CallRecords
<1>3. \A i \in 1 .. Len(T[1].steps) : T[1].steps[i] \in PageSteps  BY <1>2, ElementOfSeq
<1>4. \A s \in PageSteps : s.do \in {"select", "page"} /\ s \notin Deselecting
  BY DEF PageSteps, Deselecting
<1>5. \A s \in PageSteps : s \notin Relaxing /\ s \notin Reverting /\ s \notin Slowing
  BY <1>4, KindsDo
<1>6. T[1].steps[1] \in PageSteps  BY <1>1, <1>3
<1>. QED  BY <1>3, <1>4, <1>5, <1>6 DEF Has

LEMMA Dropping ==
  ASSUME NEW T \in Seq(CallRecords), T # << >>, T[1].cmd = CMD_FLASH_PAGE_ERASE,
         NEW n, NEW m, NEW b, NEW c, NEW r,
         Spares(T[1].steps[1], n, m, b, c, r, r)
  PROVE  /\ Settled(T, n, b, r) => Settled(Tail(T), m, c, r)
         /\ Prepared(T, n) => Prepared(Tail(T), m)
         /\ Steady(T, n, r) => Steady(Tail(T), m, r)
<1> DEFINE s == T[1].steps[1]
<1>1. Spares(s, n, m, b, c, r, r)  OBVIOUS
<1>2. /\ ~Has(T[1], Deselecting) /\ ~Has(T[1], Relaxing) /\ ~Has(T[1], Reverting)
      /\ ~Has(T[1], Slowing)
  BY PageStepKinds
<1>3. NvmSettles(T, n) => NvmSettles(Tail(T), m)
  <2>1. n \in {"NONE"} /\ s \notin Leaving => m \in {"NONE"}  BY <1>1 DEF Spares
  <2>. QED  BY <2>1, <1>2, SettlesDrop DEF NvmSettles
<1>4. WaitsSettle(T, b) => WaitsSettle(Tail(T), c)
  <2>1. b \in {FALSE} /\ s \notin Awaiting => c \in {FALSE}  BY <1>1 DEF Spares
  <2>. QED  BY <2>1, <1>2, SettlesDrop DEF WaitsSettle
<1>5. RateSettles(T, r) => RateSettles(Tail(T), r)  BY <1>2, SettlesDrop DEF RateSettles
<1>6. Prepared(T, n) => Prepared(Tail(T), m)
  <2>1. n \in Passive /\ s \notin Selecting => m \in Passive  BY <1>1 DEF Spares
  <2>. QED  BY <2>1, PreparedDrop
<1>7. Paced(T, r) => Paced(Tail(T), r)  BY <1>2, PacedDrop
<1>8. Unwritten(T, n) => Unwritten(Tail(T), m)
  <2>1. ASSUME Unwritten(T, n)  PROVE s \notin Programming => m # "FLWR"
    BY <1>1, <2>1 DEF Spares, Unwritten
  <2>. QED  BY <2>1, UnwrittenRest
<1>. QED  BY <1>3, <1>4, <1>5, <1>6, <1>7, <1>8 DEF Settled, Steady

-------------------------------------------------------------------------------
(* The effect of a step *)

LEMMA ActualRateNat ==
  ASSUME NEW b \in Nat \ {0}
  PROVE  ActualRate(b) \in Nat
<1>1. F_CPU \in Nat  BY DEF F_CPU
<1>2. 8 * b \in Nat \ {0}  OBVIOUS
<1>3. F_CPU \div (8 * b) \in Nat  BY <1>1, <1>2, DivNat
<1> DEFINE d == F_CPU \div (8 * b)
<1> HIDE DEF d
<1>4. (d - 1) % 4096 \in Nat  BY <1>3 DEF d
<1>5. Ubrr(b) \in Nat  BY <1>4 DEF Ubrr, d
<1>6. 8 * (Ubrr(b) + 1) \in Nat \ {0}  BY <1>5
<1>. QED  BY <1>1, <1>6, DivNat DEF ActualRate

LEMMA StoredFacts ==
  ASSUME mem \in [Cells -> Values]
  PROVE  /\ \A a, early : \A v \in Values : Stored(a, v, early) \subseteq [Cells -> Values]
         /\ ChipErased \subseteq [Cells -> Values]
<1>1. Blank \in Values  BY DEF Values
<1>2. \A cells : Blanked(cells) \in [Cells -> Values]  BY <1>1 DEF Blanked
<1>3. \A old, v \in Values : Programmed(old, v) \in Values  BY DEF Programmed, Values
<1>4. ASSUME NEW a, NEW early, NEW v \in Values
      PROVE  Stored(a, v, early) \subseteq [Cells -> Values]
  <2>1. [mem EXCEPT ![a] = v] \in [Cells -> Values]  OBVIOUS
  <2>2. a \in Flash => [mem EXCEPT ![a] = Programmed(@, v)] \in [Cells -> Values]
    <3>1. a \in Flash => Programmed(mem[a], v) \in Values  BY <1>3 DEF Cells
    <3>. QED  BY <3>1
  <2>. QED  BY <2>1, <2>2, <1>2 DEF Stored
<1>. QED  BY <1>2, <1>4 DEF ChipErased

LEMMA DoesFacts ==
  ASSUME TypeOK, NEW s \in Steps, Does(s)
  PROVE  /\ mem' \in [Cells -> Values] /\ nvm' \in NvmCommands /\ ptr' \in Nat
         /\ rate' \in Nat /\ waits' \in BOOLEAN
         /\ s.do # "baud" => rate' = rate
         /\ Makes(s, nvm', waits', rate')
         /\ Spares(s, nvm, nvm', waits, waits', rate, rate')
<1>3. /\ mem \in [Cells -> Values] /\ nvm \in NvmCommands /\ ptr \in Nat
      /\ rate \in Nat /\ waits \in BOOLEAN
  BY DEF TypeOK
<1>4. "NONE" \in NvmCommands /\ "NONE" \in Passive /\ "FLWR" \notin Passive
  BY DEF NvmCommands, Passive
<1>5. CASE ResetTarget(s)
  <2>1. s.do = "reset" /\ nvm' = "NONE" /\ ptr' = 0 /\ UNCHANGED <<mem, rate, waits>>
    BY <1>5 DEF ResetTarget
  <2>2. s \notin Relaxing /\ s \notin Reverting /\ s \notin Slowing  BY <2>1, OtherKinds
  <2>. QED  BY <1>3, <1>4, <2>1, <2>2 DEF Makes, Spares
<1>6. CASE SetRate(s)
  <2>1. s.do = "baud" /\ rate' = ActualRate(s.to) /\ UNCHANGED <<mem, nvm, ptr, waits>>
    BY <1>6 DEF SetRate, tgtVars
  <2>2. rate' \in Nat  BY <2>1, StepFacts, ActualRateNat
  <2>3. s \notin Deselecting /\ s \notin Clearing /\ s \notin Relaxing
    BY <2>1, OtherKinds
  <2>4. /\ s \in Reverting <=> s.to = NormalBaudrate
        /\ s \in Overriding <=> s.to # NormalBaudrate
        /\ s \in Slowing <=> Slow(ActualRate(s.to))
        /\ s \in Speeding <=> ~Slow(ActualRate(s.to))
    BY <2>1, BaudKinds
  <2>. QED  BY <1>3, <2>1, <2>2, <2>3, <2>4 DEF Makes, Spares
<1>7. CASE SelectNvmCommand(s)
  <2>1. s.do = "select" /\ nvm' = Selected(s.cmd) /\ UNCHANGED <<mem, ptr, rate, waits>>
    BY <1>7 DEF SelectNvmCommand
  <2>2. s.cmd \in NvmCommands  BY <2>1, StepFacts
  <2>3. s \notin Relaxing /\ s \notin Reverting /\ s \notin Slowing  BY <2>1, OtherKinds
  <2>4. /\ s \in Leaving <=> s.cmd # "NONE"
        /\ s \in Selecting <=> s.cmd \notin Passive
        /\ s \in Clearing <=> s.cmd \in Passive
        /\ s \in Programming <=> s.cmd = "FLWR"
        /\ s \in Deselecting <=> s.cmd = "NONE"
    BY <2>1, SelectKinds
  <2>5. /\ nvm' \in {nvm, s.cmd}
        /\ s.cmd \in Passive \/ nvm \in Passive => nvm' = s.cmd
    BY <2>1 DEF Selected, DoubleSelect
  <2>. QED  BY <1>3, <1>4, <2>1, <2>2, <2>3, <2>4, <2>5 DEF Makes, Spares
<1>8. CASE SetNvmWrite(s)
  <2>1. s.do = "waits" /\ waits' = s.on /\ UNCHANGED <<mem, nvm, ptr, rate>>
    BY <1>8 DEF SetNvmWrite, tgtVars
  <2>2. s.on \in BOOLEAN  BY <2>1, StepFacts
  <2>3. /\ s \notin Deselecting /\ s \notin Clearing /\ s \notin Reverting /\ s \notin Slowing
    BY <2>1, OtherKinds
  <2>4. (s \in Relaxing <=> s.on = FALSE) /\ (s \in Awaiting <=> s.on = TRUE)
    BY <2>1, WaitsKinds
  <2>. QED  BY <1>3, <2>1, <2>2, <2>3, <2>4 DEF Makes, Spares
<1>9. CASE DummyWrite(s) \/ SetPointer(s) \/ StoreNext(s) \/ StoreByte(s) \/ Load(s)
  <2>1. /\ s.do \in {"page", "point", "put", "putat", "get"} /\ UNCHANGED <<nvm, rate, waits>>
    BY <1>9 DEF DummyWrite, SetPointer, StoreNext, StoreByte, Load
  <2>2. /\ s \notin Deselecting /\ s \notin Clearing /\ s \notin Relaxing
        /\ s \notin Reverting /\ s \notin Slowing
    BY <2>1, OtherKinds
  <2>3. mem' \in [Cells -> Values]
    <3>1. CASE DummyWrite(s)
      <4>1. Blank \in Values  BY DEF Values
      <4>. QED  BY <3>1, <4>1, <1>3, StoredFacts DEF DummyWrite
    <3>2. CASE StoreNext(s)
      <4>1. s.byte \in Values  BY <3>2, StepFacts DEF StoreNext
      <4>. QED  BY <3>2, <4>1, <1>3, StoredFacts DEF StoreNext
    <3>3. CASE StoreByte(s)
      <4>1. s.byte \in Values  BY <3>3, StepFacts DEF StoreByte
      <4>. QED  BY <3>3, <4>1, <1>3, StoredFacts DEF StoreByte
    <3>4. CASE SetPointer(s) \/ Load(s)  BY <3>4, <1>3 DEF SetPointer, Load
    <3>. QED  BY <1>9, <3>1, <3>2, <3>3, <3>4
  <2>4. ptr' \in Nat
    <3>1. CASE SetPointer(s)
      <4>1. s.at \in Nat  BY <3>1, StepFacts DEF SetPointer
      <4>. QED  BY <3>1, <4>1 DEF SetPointer
    <3>2. CASE StoreNext(s)  BY <3>2, <1>3 DEF StoreNext
    <3>3. CASE Load(s)
      <4>1. s.n \in Nat  BY <3>3, StepFacts DEF Load
      <4>. QED  BY <3>3, <4>1, <1>3 DEF Load
    <3>4. CASE DummyWrite(s) \/ StoreByte(s)  BY <3>4, <1>3 DEF DummyWrite, StoreByte
    <3>. QED  BY <1>9, <3>1, <3>2, <3>3, <3>4
  <2>. QED  BY <1>3, <2>1, <2>2, <2>3, <2>4 DEF Makes, Spares
<1>10. CASE EraseAll(s)
  <2>1. s.do = "chip" /\ nvm' = "NONE" /\ UNCHANGED <<ptr, rate, waits>> /\ mem' \in ChipErased
    BY <1>10 DEF EraseAll
  <2>2. mem' \in [Cells -> Values]  BY <2>1, <1>3, StoredFacts
  <2>3. s \notin Relaxing /\ s \notin Reverting /\ s \notin Slowing  BY <2>1, OtherKinds
  <2>. QED  BY <1>3, <1>4, <2>1, <2>2, <2>3 DEF Makes, Spares
<1>. QED  BY <1>5, <1>6, <1>7, <1>8, <1>9, <1>10 DEF Does

LEMMA EffectFacts ==
  ASSUME TypeOK, ctl.todo \in Seq(CallRecords), Effect
  PROVE  /\ mem' \in [Cells -> Values] /\ nvm' \in NvmCommands /\ ptr' \in Nat
         /\ rate' \in Nat /\ waits' \in BOOLEAN
         /\ Busy /\ (Step.do # "baud" => rate' = rate)
         /\ Makes(Step, nvm', waits', rate')
         /\ Spares(Step, nvm, nvm', waits, waits', rate, rate')
<1>1. Busy /\ Does(Step)  BY DEF Effect
<1>2. Step \in Steps  BY <1>1, AdvanceFacts DEF Busy, Step, Call
<1>. QED  BY <1>1, <1>2, DoesFacts

-------------------------------------------------------------------------------
(* The invariant is kept *)

LEMMA ReadyIsTidy ==
  ASSUME IInv, Ready
  PROVE  nvm = "NONE" /\ waits = FALSE /\ rate = ActualRate(NormalBaudrate)
<1>1. Running /\ ctl.todo = << >>  BY DEF Ready
<1>2. Settled(<< >>, nvm, waits, rate)  BY <1>1 DEF IInv
<1>3. \A makes, spoils : ~Restores(<< >>, makes, spoils)  BY Nothing DEF Restores
<1>. QED  BY <1>2, <1>3 DEF Settled, NvmSettles, WaitsSettle, RateSettles, Settles

\* Calls that are sound and gentle may be begun when all is tidy
LEMMA SoundIsSettled ==
  ASSUME NEW calls, Sound(calls)
  PROVE  /\ Settled(calls, "NONE", FALSE, ActualRate(NormalBaudrate))
         /\ Prepared(calls, "NONE")
         /\ Gentle(calls) => Steady(calls, "NONE", ActualRate(NormalBaudrate))
BY DEF Sound, Settled, Gentle, Steady

\* START and SETBAUD may be sent whatever is selected
LEMMA StartIsSound ==
  /\ << StartCall, SetBaud(NormalBaudrate) >> \in Seq(CallRecords)
  /\ \A n, b, r : /\ Settled(<< StartCall, SetBaud(NormalBaudrate) >>, n, b, r)
                  /\ Prepared(<< StartCall, SetBaud(NormalBaudrate) >>, n)
                  /\ Steady(<< StartCall, SetBaud(NormalBaudrate) >>, n, r)
<1> DEFINE T == << StartCall, SetBaud(NormalBaudrate) >>
<1>1. /\ T \in Seq(CallRecords) /\ Only(T, {"waits", "baud", "reset"})
      /\ \A n : NvmSettles(T, n)
      /\ \A b : WaitsSettle(T, b)
      /\ \A r : RateSettles(T, r)
  BY StartFacts
<1> HIDE DEF T
<1>2. Free(T, Selecting) /\ Free(T, Storing)
  <2>1. \A s \in Selecting \cup Storing : s.do \notin {"waits", "baud", "reset"}  BY KindsDo
  <2>. QED  BY <2>1, <1>1, OnlyFree
<1>3. \A n, r : Prepared(T, n) /\ Paced(T, r)  BY <1>2, PreparedFree, PacedFree
<1>. QED  BY <1>1, <1>3 DEF Settled, Steady, T

LEMMA StopIsSound == Sound(<< StopCall >>) /\ Gentle(<< StopCall >>)
<1> DEFINE T == << StopCall >>
<1>1. T \in Seq(CallRecords) /\ Only(T, {"reset"})  BY StopFacts
<1> HIDE DEF T
<1>2. Only(T, {"point", "get", "chip", "reset"})  BY <1>1, OnlyMore
<1>3. Sound(T) /\ Gentle(T)  BY <1>1, <1>2, PlainCalls
<1>. QED  BY <1>3 DEF T

\* No calls are left
LEMMA NothingIsLeft ==
  \A n, r : Prepared(<< >>, n) /\ Steady(<< >>, n, r)
<1>1. \A n, r : Prepared(<< >>, n) /\ Paced(<< >>, r)  BY Nothing, PacedFree
<1>. QED  BY <1>1 DEF Steady

LEMMA JobFacts ==
  ASSUME ctl \in CtlRecords
  PROVE  /\ ctl.job \in Jobs /\ Len(ctl.job) \in Nat /\ ctl.k \in Nat
         /\ ctl.todo \in Seq(CallRecords) /\ ctl.now \in Plans /\ ctl.round \in 1 .. 2
         /\ ctl.result \in Results /\ ctl.excused \subseteq Flash
<1>1. ctl.job \in Jobs /\ ctl.k \in Nat /\ ctl.todo \in Seq(CallRecords) /\ ctl.now \in Plans
      /\ ctl.round \in 1 .. 2 /\ ctl.result \in Results /\ ctl.excused \subseteq Flash
  BY DEF CtlRecords
<1>. QED  BY <1>1, OperationsAssumption, LenProperties

LEMMA InitIsSound == Init => IInv
<1> SUFFICES ASSUME Init  PROVE IInv
  OBVIOUS
<1>1. PICK job \in Jobs :
        ctl = [job |-> job, k |-> 0, todo |-> << >>, now |-> NoOperation, round |-> 1,
               multi |-> FALSE, result |-> "SUCCESS", stripped |-> {}, excused |-> {}]
  BY DEF Init, CtlInit
<1>2. NoOperation \in Plans  BY DEF NoOperation, Plans
<1>3. ctl \in CtlRecords  BY <1>1, <1>2 DEF CtlRecords, Results
<1>4. ~Running /\ ctl.todo = << >>  BY <1>1 DEF Running
<1>5. TypeOK
  <2>1. mem \in [Cells -> Values] /\ nvm \in NvmCommands /\ ptr \in Nat
    BY DEF Init, TgtInit, Values, NvmCommands
  <2>2. rate \in Nat
    <3>1. UPDI_DEFAULT_BAUD \in Nat \ {0}  BY DEF UPDI_DEFAULT_BAUD
    <3>. QED  BY <3>1, ActualRateNat DEF Init
  <2>3. waits \in BOOLEAN /\ faults \in 0 .. MaxFaults
    <3>1. MaxFaults \in Nat  BY OperationsAssumption
    <3>2. waits = FALSE /\ faults = 0  BY DEF Init
    <3>3. 0 \in 0 .. MaxFaults  BY <3>1
    <3>4. waits \in BOOLEAN  BY <3>2
    <3>. QED  BY <3>2, <3>3, <3>4
  <2>4. ctl.k \in 0 .. Len(ctl.job) + 1  BY <1>1, <1>3, JobFacts
  <2>5. begun \in BOOLEAN  BY DEF Init
  <2>. QED  BY <1>3, <2>1, <2>2, <2>3, <2>4, <2>5, JobFacts DEF TypeOK, Results
<1>. QED  BY <1>3, <1>4, <1>5, NothingIsLeft DEF IInv

\* What the actions of the session loop leave alone
LEMMA LoopStep ==
  ASSUME IInv, UNCHANGED <<tgtVars, rate, waits>>, begun' \in {begun, FALSE},
         faults' \in 0 .. MaxFaults, ctl' \in CtlRecords, ctl'.k \in 0 .. Len(ctl'.job) + 1,
         Running' => Settled(ctl'.todo, nvm, waits, rate),
         Prepared(ctl'.todo, nvm), Steady(ctl'.todo, nvm, rate) \/ Asked(ctl'.now),
         ctl'.result = "ASTRAY" => ctl'.todo = << >>
  PROVE  IInv'
<1>1. UNCHANGED <<mem, nvm, ptr>>  BY DEF tgtVars
<1>2. /\ ctl'.round \in 1 .. 2 /\ ctl'.result \in Results /\ ctl'.excused \subseteq Flash
  BY DEF CtlRecords
<1>3. TypeOK'  BY <1>1, <1>2 DEF IInv, TypeOK, Results
<1>4. /\ Running' => Settled(ctl'.todo, nvm', waits', rate')
      /\ Prepared(ctl'.todo, nvm')
      /\ Steady(ctl'.todo, nvm', rate') \/ Asked(ctl'.now)
  BY <1>1
<1>. QED  BY <1>3, <1>4 DEF IInv, Astray

LEMMA LaunchStep == IInv /\ Launch => IInv'
<1> SUFFICES ASSUME IInv, Launch  PROVE IInv'
  OBVIOUS
<1>0. begun' = begun  BY DEF Launch
<1> DEFINE T == << StartCall, SetBaud(NormalBaudrate) >>
<1>1. PICK multi \in BOOLEAN :
        ctl' = [job |-> ctl.job, k |-> 0, todo |-> T, now |-> NoOperation, round |-> 1,
                multi |-> multi, result |-> "running", stripped |-> {}, excused |-> {}]
  BY DEF Launch
<1>2. UNCHANGED <<tgtVars, rate, waits, faults>>  BY DEF Launch
<1>3. T \in Seq(CallRecords) /\ Settled(T, nvm, waits, rate) /\ Prepared(T, nvm)
      /\ Steady(T, nvm, rate)
  BY StartIsSound
<1> HIDE DEF T
<1>4. NoOperation \in Plans  BY DEF NoOperation, Plans
<1>5. ctl.job \in Jobs /\ Len(ctl.job) \in Nat  BY JobFacts DEF IInv
<1>6. ctl' \in CtlRecords  BY <1>1, <1>3, <1>4, <1>5 DEF CtlRecords, Results
<1>7. ctl'.k \in 0 .. Len(ctl'.job) + 1  BY <1>1, <1>5
<1>8. faults' \in 0 .. MaxFaults  BY <1>2 DEF IInv, TypeOK
<1>. QED  BY <1>0, <1>1, <1>2, <1>3, <1>6, <1>7, <1>8, LoopStep

LEMMA FaultFacts ==
  ASSUME IInv, faults' = faults \/ Fault
  PROVE  faults' \in 0 .. MaxFaults
BY OperationsAssumption DEF IInv, TypeOK, Fault

LEMMA RefuseStep == IInv /\ Refuse => IInv'
<1> SUFFICES ASSUME IInv, Refuse  PROVE IInv'
  OBVIOUS
<1>0. begun' = begun  BY DEF Refuse
<1>1. PICK why \in Refusals \cup {"FILE_IO_ERROR", "FILE_FORMAT_ERROR"} :
        /\ ctl' = [ctl EXCEPT !.k = @ + 1, !.result = why]
        /\ faults' = faults \/ Fault
  BY DEF Refuse
<1>2. Refusals \subseteq {"UPDI_ERROR", "BAD_COMMAND", "FILE_IO_ERROR"}  BY DEF Refusals
<1>3. why \in Results \ {"running"}  BY <1>1, <1>2 DEF Results
<1>4. /\ UNCHANGED <<tgtVars, rate, waits>> /\ ctl.todo = << >> /\ ctl.k < Len(ctl.job)
  BY DEF Refuse, Ready
<1>5. ctl \in CtlRecords /\ ctl.k \in Nat /\ Len(ctl.job) \in Nat  BY JobFacts DEF IInv
<1>6. ctl' \in CtlRecords
  <2> DEFINE k == ctl.k + 1
  <2>1. k \in Nat /\ ctl' = [ctl EXCEPT !.k = k, !.result = why]  BY <1>1, <1>5
  <2> HIDE DEF k
  <2>. QED  BY <2>1, <1>3, <1>5 DEF CtlRecords
<1>7. ctl'.todo = << >> /\ ctl'.result = why /\ ctl'.k = ctl.k + 1 /\ ctl'.job = ctl.job
  BY <1>1, <1>4, <1>5 DEF CtlRecords
<1>8. ctl'.k \in 0 .. Len(ctl'.job) + 1  BY <1>4, <1>5, <1>7
<1>9. ~Running'  BY <1>3, <1>7 DEF Running
<1>10. faults' \in 0 .. MaxFaults  BY <1>1, FaultFacts
<1>11. Prepared(ctl'.todo, nvm) /\ Steady(ctl'.todo, nvm, rate)  BY <1>7, NothingIsLeft
<1>. QED  BY <1>0, <1>4, <1>6, <1>7, <1>8, <1>9, <1>10, <1>11, LoopStep

LEMMA BeginStep == IInv /\ BeginOperation => IInv'
<1> SUFFICES ASSUME IInv, BeginOperation  PROVE IInv'
  OBVIOUS
<1>0. begun' = begun  BY DEF BeginOperation
<1> DEFINE w == Planned
           T == Calls(w)
           S == ctl.stripped \cup Strips
<1>1. /\ ctl' = [ctl EXCEPT !.k = @ + 1, !.now = w, !.todo = T, !.stripped = S, !.excused = {}]
      /\ UNCHANGED <<tgtVars, rate, waits, faults>> /\ Ready
      /\ ctl.k < Len(ctl.job) /\ Refusals = {}
  BY DEF BeginOperation
<1>2. ctl \in CtlRecords /\ ctl.job \in Jobs /\ ctl.k \in Nat /\ Len(ctl.job) \in Nat
  BY JobFacts DEF IInv
<1>3. w \in Plans /\ Sound(T) /\ (Gentle(T) \/ Asked(w))
  BY <1>1, <1>2, PlannedFacts DEF Asked
<1>4. nvm = "NONE" /\ waits = FALSE /\ rate = ActualRate(NormalBaudrate)
  BY <1>1, ReadyIsTidy
<1>5. S \in SUBSET (Nat \X (1 .. 2))
  <2>1. ctl.stripped \in SUBSET (Nat \X (1 .. 2))  BY <1>2 DEF CtlRecords
  <2>2. Strips \subseteq Nat \X (1 .. 2)  BY <1>2 DEF Strips
  <2>. QED  BY <2>1, <2>2
<1> HIDE DEF w, T, S
<1>6. T \in Seq(CallRecords) /\ Settled(T, nvm, waits, rate) /\ Prepared(T, nvm)
      /\ (Gentle(T) => Steady(T, nvm, rate))
  BY <1>3, <1>4, SoundIsSettled DEF Sound
<1>7. ctl' \in CtlRecords
  <2> DEFINE k == ctl.k + 1
  <2>1. /\ k \in Nat
        /\ ctl' = [ctl EXCEPT !.k = k, !.now = w, !.todo = T, !.stripped = S, !.excused = {}]
    BY <1>1, <1>2
  <2> HIDE DEF k
  <2>. QED  BY <2>1, <1>2, <1>3, <1>5, <1>6 DEF CtlRecords
<1>8. /\ ctl'.todo = T /\ ctl'.now = w /\ ctl'.k = ctl.k + 1 /\ ctl'.job = ctl.job
      /\ ctl'.result = "running"
  BY <1>1, <1>2 DEF CtlRecords, Ready, Running
<1>9. ctl'.k \in 0 .. Len(ctl'.job) + 1  BY <1>1, <1>2, <1>8
<1>10. faults' \in 0 .. MaxFaults  BY <1>1, FaultFacts
<1>11. Steady(ctl'.todo, nvm, rate) \/ Asked(ctl'.now)  BY <1>3, <1>6, <1>8
<1>12. UNCHANGED <<tgtVars, rate, waits>>  BY <1>1
<1>13. Settled(ctl'.todo, nvm, waits, rate) /\ Prepared(ctl'.todo, nvm)  BY <1>6, <1>8
<1>. QED  BY <1>0, <1>7, <1>8, <1>9, <1>10, <1>11, <1>12, <1>13, LoopStep

LEMMA OutputStep == IInv /\ OutputFails => IInv'
<1> SUFFICES ASSUME IInv, OutputFails  PROVE IInv'
  OBVIOUS
<1>0. begun' = begun  BY DEF OutputFails
<1>1. PICK why \in {"FILE_IO_ERROR", "FILE_FORMAT_ERROR"} : ctl' = [ctl EXCEPT !.result = why]
  BY DEF OutputFails
<1>2. Fault /\ ctl.todo = << >> /\ UNCHANGED <<tgtVars, rate, waits>>
  BY DEF OutputFails, Ready
<1>3. ctl \in CtlRecords  BY DEF IInv
<1>4. ctl' \in CtlRecords  BY <1>1, <1>3 DEF CtlRecords, Results
<1>5. ctl'.todo = << >> /\ ctl'.result = why /\ ctl'.k = ctl.k /\ ctl'.job = ctl.job
  BY <1>1, <1>2, <1>3 DEF CtlRecords
<1>6. ctl'.k \in 0 .. Len(ctl'.job) + 1  BY <1>5 DEF IInv, TypeOK
<1>7. ~Running'  BY <1>5 DEF Running
<1>8. faults' \in 0 .. MaxFaults  BY <1>2, FaultFacts
<1>9. Prepared(ctl'.todo, nvm) /\ Steady(ctl'.todo, nvm, rate)  BY <1>5, NothingIsLeft
<1>. QED  BY <1>0, <1>2, <1>4, <1>5, <1>6, <1>7, <1>8, <1>9, LoopStep

LEMMA EndChainStep == IInv /\ EndChain => IInv'
<1> SUFFICES ASSUME IInv, EndChain  PROVE IInv'
  OBVIOUS
<1>0. begun' = begun  BY DEF EndChain
<1> DEFINE T == << StopCall >>
<1>1. /\ ctl' = [ctl EXCEPT !.k = @ + 1, !.now = NoOperation, !.todo = T]
      /\ UNCHANGED <<tgtVars, rate, waits, faults>> /\ Ready /\ ctl.k = Len(ctl.job)
  BY DEF EndChain
<1>2. ctl \in CtlRecords /\ ctl.k \in Nat /\ Len(ctl.job) \in Nat  BY JobFacts DEF IInv
<1>3. Sound(T) /\ Gentle(T)  BY StopIsSound
<1>4. nvm = "NONE" /\ waits = FALSE /\ rate = ActualRate(NormalBaudrate)
  BY <1>1, ReadyIsTidy
<1> HIDE DEF T
<1>5. T \in Seq(CallRecords) /\ Settled(T, nvm, waits, rate) /\ Prepared(T, nvm)
      /\ Steady(T, nvm, rate)
  BY <1>3, <1>4, SoundIsSettled DEF Sound
<1>6. NoOperation \in Plans  BY DEF NoOperation, Plans
<1>7. ctl' \in CtlRecords
  <2> DEFINE k == ctl.k + 1
  <2>1. k \in Nat /\ ctl' = [ctl EXCEPT !.k = k, !.now = NoOperation, !.todo = T]
    BY <1>1, <1>2
  <2> HIDE DEF k
  <2>. QED  BY <2>1, <1>2, <1>5, <1>6 DEF CtlRecords
<1>8. ctl'.todo = T /\ ctl'.k = ctl.k + 1 /\ ctl'.job = ctl.job /\ ctl'.result = "running"
  BY <1>1, <1>2 DEF CtlRecords, Ready, Running
<1>9. ctl'.k \in 0 .. Len(ctl'.job) + 1  BY <1>1, <1>2, <1>8
<1>10. faults' \in 0 .. MaxFaults  BY <1>1, FaultFacts
<1>. QED  BY <1>0, <1>1, <1>5, <1>7, <1>8, <1>9, <1>10, LoopStep

LEMMA EndSessionStep == IInv /\ EndSession => IInv'
<1> SUFFICES ASSUME IInv, EndSession  PROVE IInv'
  OBVIOUS
<1>0. begun' = begun  BY DEF EndSession
<1> DEFINE T == << StartCall, SetBaud(NormalBaudrate) >>
<1>1. /\ UNCHANGED <<tgtVars, rate, waits, faults>> /\ ctl.todo = << >>
      /\ \/ ctl' = [ctl EXCEPT !.result = "SUCCESS"]
         \/ ctl' = [ctl EXCEPT !.k = 0, !.round = 2, !.todo = T]
      /\ ctl.result = "running"
  BY DEF EndSession, Ready, Running
<1>2. ctl \in CtlRecords /\ ctl.k \in Nat /\ Len(ctl.job) \in Nat  BY JobFacts DEF IInv
<1>3. T \in Seq(CallRecords) /\ Settled(T, nvm, waits, rate) /\ Prepared(T, nvm)
      /\ Steady(T, nvm, rate)
  BY StartIsSound
<1> HIDE DEF T
<1>4. faults' \in 0 .. MaxFaults  BY <1>1, FaultFacts
<1>5. CASE ctl' = [ctl EXCEPT !.result = "SUCCESS"]
  <2>1. ctl' \in CtlRecords  BY <1>2, <1>5 DEF CtlRecords, Results
  <2>2. ctl'.todo = << >> /\ ctl'.result = "SUCCESS" /\ ctl'.k = ctl.k /\ ctl'.job = ctl.job
    BY <1>1, <1>2, <1>5 DEF CtlRecords
  <2>3. ctl'.k \in 0 .. Len(ctl'.job) + 1  BY <2>2 DEF IInv, TypeOK
  <2>4. ~Running'  BY <2>2 DEF Running
  <2>5. Prepared(ctl'.todo, nvm) /\ Steady(ctl'.todo, nvm, rate)  BY <2>2, NothingIsLeft
  <2>. QED  BY <1>0, <1>1, <1>4, <2>1, <2>2, <2>3, <2>4, <2>5, LoopStep
<1>6. CASE ctl' = [ctl EXCEPT !.k = 0, !.round = 2, !.todo = T]
  <2>1. ctl' \in CtlRecords
    <3>1. 0 \in Nat /\ 2 \in 1 .. 2  OBVIOUS
    <3>. QED  BY <3>1, <1>2, <1>3, <1>6 DEF CtlRecords
  <2>2. ctl'.todo = T /\ ctl'.k = 0 /\ ctl'.job = ctl.job /\ ctl'.result = "running"
    BY <1>1, <1>2, <1>6 DEF CtlRecords
  <2>3. ctl'.k \in 0 .. Len(ctl'.job) + 1  BY <1>2, <2>2
  <2>4. /\ Settled(ctl'.todo, nvm, waits, rate) /\ Prepared(ctl'.todo, nvm)
        /\ Steady(ctl'.todo, nvm, rate)
    BY <1>3, <2>2
  <2>. QED  BY <1>0, <1>1, <1>4, <2>1, <2>2, <2>3, <2>4, LoopStep
<1>. QED  BY <1>1, <1>5, <1>6

LEMMA ProceedStep == IInv /\ Proceed => IInv'
<1> SUFFICES ASSUME IInv, Proceed  PROVE IInv'
  OBVIOUS
<1> DEFINE T == ctl.todo
           A == Advance(T)
<1>1. /\ Effect /\ ctl' = [ctl EXCEPT !.todo = Advanced] /\ faults' = faults
      /\ begun' \in BOOLEAN
  BY DEF Proceed
<1>2. ctl \in CtlRecords /\ T \in Seq(CallRecords)  BY JobFacts DEF IInv
<1>3. /\ mem' \in [Cells -> Values] /\ nvm' \in NvmCommands /\ ptr' \in Nat
      /\ rate' \in Nat /\ waits' \in BOOLEAN /\ Busy
      /\ Makes(Step, nvm', waits', rate')
      /\ Spares(Step, nvm, nvm', waits, waits', rate, rate')
  BY <1>1, <1>2, EffectFacts DEF IInv
<1>4. Advanced = A /\ Step = T[1].steps[1] /\ T # << >>
  BY <1>3 DEF Advanced, Advance, Step, Call, Busy
<1>5. A \in Seq(CallRecords)  BY <1>2, <1>4, AdvanceFacts
<1>6. /\ Settled(T, nvm, waits, rate) => Settled(A, nvm', waits', rate')
      /\ Prepared(T, nvm) => Prepared(A, nvm')
      /\ Steady(T, nvm, rate) => Steady(A, nvm', rate')
  BY <1>2, <1>3, <1>4, Advancing
<1> HIDE DEF A
<1>7. ctl' \in CtlRecords  BY <1>1, <1>2, <1>4, <1>5 DEF CtlRecords
<1>8. /\ ctl'.todo = A /\ ctl'.now = ctl.now /\ ctl'.k = ctl.k /\ ctl'.job = ctl.job
      /\ ctl'.result = ctl.result /\ ctl'.round = ctl.round /\ ctl'.excused = ctl.excused
  BY <1>1, <1>2, <1>4 DEF CtlRecords
<1>9. TypeOK'  BY <1>1, <1>3, <1>8 DEF IInv, TypeOK
<1>10. Running' => Settled(ctl'.todo, nvm', waits', rate')  BY <1>6, <1>8 DEF IInv, Running
<1>11. Prepared(ctl'.todo, nvm')  BY <1>6, <1>8 DEF IInv
<1>12. Steady(ctl'.todo, nvm', rate') \/ Asked(ctl'.now)  BY <1>6, <1>8 DEF IInv
<1>13. ~Astray'  BY <1>4, <1>8 DEF IInv, Astray
<1>. QED  BY <1>7, <1>9, <1>10, <1>11, <1>12, <1>13 DEF IInv

LEMMA FailStep == IInv /\ StepFails => IInv'
<1> SUFFICES ASSUME IInv, StepFails  PROVE IInv'
  OBVIOUS
<1> DEFINE T == ctl.todo
<1>1. /\ Busy /\ Fault /\ (Effect \/ UNCHANGED <<tgtVars, rate, waits>>)
      /\ ctl' = IF ~Running THEN [ctl EXCEPT !.todo = << >>]
                ELSE IF Call.cmd = CMD_FLASH_PAGE_ERASE
                  THEN [ctl EXCEPT !.todo = Tail(@), !.excused = @ \cup Unerased]
                  ELSE [ctl EXCEPT !.todo = << >>, !.result = Failure]
      /\ begun' \in BOOLEAN
  BY DEF StepFails
<1>2. ctl \in CtlRecords /\ T \in Seq(CallRecords) /\ ctl.excused \subseteq Flash
      /\ ctl.result \in Results /\ ctl.round \in 1 .. 2
  BY JobFacts DEF IInv
<1>3. T # << >> /\ Call = T[1] /\ Step = T[1].steps[1]  BY <1>1 DEF Busy, Call, Step
<1>4. faults' \in 0 .. MaxFaults  BY <1>1, FaultFacts
<1>5. /\ mem' \in [Cells -> Values] /\ nvm' \in NvmCommands /\ ptr' \in Nat
      /\ rate' \in Nat /\ waits' \in BOOLEAN /\ (Step.do # "baud" => rate' = rate)
      /\ Spares(Step, nvm, nvm', waits, waits', rate, rate')
  <2>1. CASE Effect  BY <1>2, <2>1, EffectFacts DEF IInv
  <2>2. CASE UNCHANGED <<tgtVars, rate, waits>>  BY <2>2 DEF IInv, TypeOK, tgtVars, Spares
  <2>. QED  BY <1>1, <2>1, <2>2
<1>6. CASE Running /\ Call.cmd = CMD_FLASH_PAGE_ERASE
  <2>1. T[1].steps[1].do \in {"select", "page"}  BY <1>2, <1>3, <1>6, PageStepKinds
  <2>2. rate' = rate  BY <2>1, <1>3, <1>5
  <2>3. /\ Settled(T, nvm, waits, rate) => Settled(Tail(T), nvm', waits', rate)
        /\ Prepared(T, nvm) => Prepared(Tail(T), nvm')
        /\ Steady(T, nvm, rate) => Steady(Tail(T), nvm', rate)
    BY <1>2, <1>3, <1>5, <1>6, <2>2, Dropping
  <2>4. Tail(T) \in Seq(CallRecords)  BY <1>2, <1>3, TailFacts
  <2>5. Unerased \subseteq Flash  BY DEF Unerased, PageOf
  <2>6. ctl' = [ctl EXCEPT !.todo = Tail(@), !.excused = @ \cup Unerased]  BY <1>1, <1>6
  <2>7. ctl' \in CtlRecords  BY <1>2, <2>4, <2>5, <2>6 DEF CtlRecords
  <2>8. /\ ctl'.todo = Tail(T) /\ ctl'.now = ctl.now /\ ctl'.k = ctl.k /\ ctl'.job = ctl.job
        /\ ctl'.result = ctl.result /\ ctl'.round = ctl.round /\ ctl'.excused \subseteq Flash
    BY <1>2, <2>5, <2>6 DEF CtlRecords
  <2>9. TypeOK'  BY <1>1, <1>4, <1>5, <2>8 DEF IInv, TypeOK
  <2>10. /\ Running' => Settled(ctl'.todo, nvm', waits', rate')
         /\ Prepared(ctl'.todo, nvm')
         /\ Steady(ctl'.todo, nvm', rate') \/ Asked(ctl'.now)
    BY <2>2, <2>3, <2>8 DEF IInv, Running
  <2>11. ~Astray'  BY <1>6, <2>8 DEF Running, Astray
  <2>. QED  BY <2>7, <2>9, <2>10, <2>11 DEF IInv
<1>7. CASE ~Running \/ Call.cmd # CMD_FLASH_PAGE_ERASE
  <2>1. PICK why : /\ ctl' = [ctl EXCEPT !.todo = << >>, !.result = why]
                   /\ why \in Results \ {"running"}
    <3>1. Failure \in Results \ {"running"}  BY DEF Failure, Results
    <3>2. CASE ~Running
      <4>1. ctl' = [ctl EXCEPT !.todo = << >>]  BY <1>1, <3>2
      <4>2. ctl' = [ctl EXCEPT !.todo = << >>, !.result = ctl.result]
        BY <1>2, <4>1 DEF CtlRecords
      <4>. QED  BY <1>2, <3>2, <4>2 DEF Running
    <3>3. CASE Running
      <4>1. ctl' = [ctl EXCEPT !.todo = << >>, !.result = Failure]  BY <1>1, <1>7, <3>3
      <4>. QED  BY <3>1, <4>1
    <3>. QED  BY <3>2, <3>3
  <2>2. ctl' \in CtlRecords
    <3> DEFINE none == << >>
    <3>1. none \in Seq(CallRecords)  OBVIOUS
    <3>2. ctl' = [ctl EXCEPT !.todo = none, !.result = why]  BY <2>1
    <3> HIDE DEF none
    <3>. QED  BY <1>2, <2>1, <3>1, <3>2 DEF CtlRecords
  <2>3. /\ ctl'.todo = << >> /\ ctl'.k = ctl.k /\ ctl'.job = ctl.job
        /\ ctl'.result = why /\ ctl'.round = ctl.round /\ ctl'.excused = ctl.excused
    BY <1>2, <2>1 DEF CtlRecords
  <2>4. TypeOK'  BY <1>1, <1>4, <1>5, <2>1, <2>3 DEF IInv, TypeOK, Results
  <2>5. ~Running'  BY <2>1, <2>3 DEF Running
  <2>6. Prepared(ctl'.todo, nvm') /\ Steady(ctl'.todo, nvm', rate')  BY <2>3, NothingIsLeft
  <2>. QED  BY <2>2, <2>3, <2>4, <2>5, <2>6 DEF IInv
<1>. QED  BY <1>6, <1>7

-------------------------------------------------------------------------------
(* A call that is left *)

\* START bytes are stored for the bytes that a block lacks
LEMMA MadeUpFacts ==
  ASSUME NEW s \in Seq(PutSteps), NEW m \in MadeUp(s)
  PROVE  m \in Seq(PutSteps) /\ Len(m) = Len(s)
<1>1. DOMAIN s = 1 .. Len(s) /\ Len(s) \in Nat  BY LenProperties
<1>a. PICK n \in 0 .. Len(s) : \E f \in [1 .. n -> DOMAIN s] :
        m = [i \in DOMAIN s |-> IF i <= n THEN s[f[i]] ELSE Put(CMD_START)]
  BY DEF MadeUp
<1>2. PICK f \in [1 .. n -> DOMAIN s] :
        m = [i \in DOMAIN s |-> IF i <= n THEN s[f[i]] ELSE Put(CMD_START)]
  BY <1>a
<1>3. Put(CMD_START) \in PutSteps
  <2>1. CMD_START \in Values  BY OperationsAssumption DEF Values
  <2>. QED  BY <2>1 DEF Put, PutSteps
<1>4. ASSUME NEW i \in 1 .. Len(s)
      PROVE  (IF i <= n THEN s[f[i]] ELSE Put(CMD_START)) \in PutSteps
  <2>1. CASE i <= n
    <3>1. i \in 1 .. n  BY <1>1, <2>1
    <3>2. f[i] \in 1 .. Len(s)  BY <1>1, <3>1
    <3>. QED  BY <2>1, <3>2, ElementOfSeq
  <2>2. CASE ~(i <= n)  BY <1>3, <2>2
  <2>. QED  BY <2>1, <2>2
<1> DEFINE N == Len(s)
           e(i) == IF i <= n THEN s[f[i]] ELSE Put(CMD_START)
<1>5. N \in Nat /\ m = [i \in 1 .. N |-> e(i)] /\ \A i \in 1 .. N : e(i) \in PutSteps
  BY <1>1, <1>2, <1>4
<1> HIDE DEF N, e
<1>6. m \in Seq(PutSteps) /\ Len(m) = N  BY <1>5
<1>. QED  BY <1>6 DEF N

\* What the programmer goes on with is the call that was left, or stores of it
LEMMA LeftoverFacts ==
  ASSUME NEW T \in Seq(CallRecords), T = ctl.todo, T # << >>,
         NEW s \in Leftovers, s # << >>, NEW c, c = Cmd(Call.cmd, s)
  PROVE  /\ << c >> \in Seq(CallRecords) /\ Len(<< c >>) = 1 /\ << c >>[1] = c
         /\ c.cmd = Call.cmd /\ c.steps = s
         /\ Call.cmd \notin {CMD_SENDBLOCK, CMD_SENDBYTE} => c = T[1]
         /\ Call.cmd = CMD_SENDBLOCK =>
              /\ Len(s) = Len(T[1].steps) /\ s \in Seq(PutSteps)
              /\ T[1].steps \in Seq(PutSteps)
         /\ Call.cmd = CMD_SENDBYTE =>
              /\ Len(s) = 1 /\ s \in Seq(PutAtSteps) /\ s[1].do = "putat"
              /\ s[1].at = Step.at /\ T[1].steps[1] \in PutAtSteps
<1>1. Call = T[1] /\ Step = T[1].steps[1] /\ T[1] \in CallRecords
      /\ Len(T[1].steps) \in Nat \ {0}
  BY AdvanceFacts DEF Call, Step
<1>2. /\ T[1] \in [cmd : Nat, steps : Seq(Steps)]
      /\ Call.cmd = CMD_SENDBLOCK => T[1].steps \in Seq(PutSteps)
      /\ Call.cmd = CMD_SENDBYTE => T[1].steps \in Seq(PutAtSteps)
  BY <1>1 DEF CallRecords
<1>3. c.cmd = Call.cmd /\ c.steps = s  BY DEF Cmd
<1>4. CASE Call.cmd \notin {CMD_SENDBLOCK, CMD_SENDBYTE}
  <2>1. s = T[1].steps  BY <1>1, <1>4 DEF Leftovers
  <2>2. c = T[1]  BY <1>1, <1>2, <2>1 DEF Cmd
  <2>. QED  BY <1>1, <1>3, <1>4, <2>2, Alone
<1>5. CASE Call.cmd = CMD_SENDBLOCK
  <2>1. s \in MadeUp(T[1].steps)  BY <1>1, <1>5, CodesDiffer DEF Leftovers
  <2>2. s \in Seq(PutSteps) /\ Len(s) = Len(T[1].steps)  BY <1>2, <1>5, <2>1, MadeUpFacts
  <2>3. c \in CallRecords  BY <1>5, <2>2, BlockIsCall
  <2>. QED  BY <1>2, <1>3, <1>5, <2>2, <2>3, Alone, CodesDiffer
<1>6. CASE Call.cmd = CMD_SENDBYTE
  <2>1. Step \in PutAtSteps  BY <1>1, <1>2, <1>6, ElementOfSeq
  <2>2. CMD_START \in Values  BY OperationsAssumption DEF Values
  <2>3. [Step EXCEPT !.byte = CMD_START] \in PutAtSteps
        /\ [Step EXCEPT !.byte = CMD_START].at = Step.at
    BY <2>1, <2>2 DEF PutAtSteps
  <2>4. PICK x \in PutAtSteps : s = << x >> /\ x.at = Step.at
    <3>1. s = << Step >> \/ s = << [Step EXCEPT !.byte = CMD_START] >>
      BY <1>6, CodesDiffer DEF Leftovers
    <3>. QED  BY <2>1, <2>3, <3>1
  <2>5. s \in Seq(PutAtSteps) /\ Len(s) = 1 /\ s[1] = x  BY <2>4
  <2>6. x.do = "putat"  BY DEF PutAtSteps
  <2>7. c \in CallRecords  BY <1>6, <2>5, ByteIsCall
  <2>. QED  BY <1>1, <1>3, <1>6, <2>1, <2>4, <2>5, <2>6, <2>7, Alone, CodesDiffer
<1>. QED  BY <1>4, <1>5, <1>6

\* What held of all calls holds of what is left of the first
LEMMA LeftoverIsSound ==
  ASSUME IInv, Busy, NEW s \in Leftovers, s # << >>
  PROVE  /\ << Cmd(Call.cmd, s) >> \in Seq(CallRecords)
         /\ Prepared(<< Cmd(Call.cmd, s) >>, nvm)
         /\ Steady(ctl.todo, nvm, rate) => Steady(<< Cmd(Call.cmd, s) >>, nvm, rate)
<1>1. PICK T : T = ctl.todo  OBVIOUS
<1>2. PICK c : c = Cmd(Call.cmd, s)  OBVIOUS
<1>3. T \in Seq(CallRecords) /\ T # << >> /\ Call = T[1] /\ Prepared(T, nvm)
  BY <1>1, JobFacts DEF IInv, Busy, Call
<1>4. /\ << c >> \in Seq(CallRecords) /\ Len(<< c >>) = 1 /\ << c >>[1] = c
      /\ c.cmd = Call.cmd /\ c.steps = s
      /\ Call.cmd \notin {CMD_SENDBLOCK, CMD_SENDBYTE} => c = T[1]
      /\ Call.cmd = CMD_SENDBLOCK => s \in Seq(PutSteps) /\ T[1].steps \in Seq(PutSteps)
      /\ Call.cmd = CMD_SENDBYTE => s \in Seq(PutAtSteps)
  BY <1>1, <1>2, <1>3, LeftoverFacts
<1>5. /\ Len(T) \in Nat \ {0} /\ 1 \in 1 .. Len(T) /\ Len(T[1].steps) \in Nat \ {0}
  BY <1>3, AdvanceFacts
<1>6. Unwritten(T, nvm) => nvm # "FLWR"  BY DEF Unwritten
<1>7. CASE Call.cmd \notin {CMD_SENDBLOCK, CMD_SENDBYTE}
  <2>1. << c >> = << T[1] >>  BY <1>4, <1>7
  <2>2. Prepared(<< T[1] >>, nvm)  BY <1>3, PreparedFirst
  <2>3. Paced(T, rate) => Paced(<< T[1] >>, rate)  BY <1>3, PacedFirst
  <2>4. Unwritten(T, nvm) => Unwritten(<< T[1] >>, nvm)
    <3>1. ASSUME Unwritten(T, nvm)  PROVE Unwritten(<< T[1] >>, nvm)
      BY <1>3, <1>6, <3>1, UnwrittenRest
    <3>. QED  BY <3>1
  <2>5. Steady(T, nvm, rate) => Steady(<< T[1] >>, nvm, rate)  BY <2>3, <2>4 DEF Steady
  <2>. QED  BY <1>1, <1>2, <1>4, <2>1, <2>2, <2>5
<1>8. CASE Call.cmd \in {CMD_SENDBLOCK, CMD_SENDBYTE}
  <2>1. Only(<< c >>, {"put", "putat"})
    <3>1. \A x \in PutSteps \cup PutAtSteps : x.do \in {"put", "putat"}
      BY DEF PutSteps, PutAtSteps
    <3>2. \A i \in 1 .. Len(s) : s[i] \in PutSteps \cup PutAtSteps
      BY <1>4, <1>8, ElementOfSeq
    <3>. QED  BY <1>4, <3>1, <3>2 DEF Only
  <2>2. Free(<< c >>, Selecting) /\ Free(<< c >>, Programming) /\ Free(<< c >>, Speeding)
    <3>1. \A x \in Selecting \cup Programming \cup Speeding : x.do \notin {"put", "putat"}
      BY KindsDo
    <3>. QED  BY <2>1, <3>1, OnlyFree
  <2>3. Prepared(<< c >>, nvm)  BY <2>2, PreparedFree
  <2>4. Unwritten(T, nvm) => Unwritten(<< c >>, nvm)  BY <1>6, <2>2 DEF Unwritten
  <2>5. Paced(T, rate) => Paced(<< c >>, rate)
    <3> SUFFICES ASSUME Paced(T, rate)  PROVE Paced(<< c >>, rate)
      OBVIOUS
    <3>1. CASE Call.cmd = CMD_SENDBLOCK
      <4>1. T[1].steps[1] \in PutSteps  BY <1>4, <1>5, <3>1, ElementOfSeq
      <4>2. PutSteps = Storing  BY DEF PutSteps, Storing
      <4>3. Has(T[1], Storing)
        <5>1. 1 \in 1 .. Len(T[1].steps)  BY <1>5
        <5>. QED  BY <4>1, <4>2, <5>1, HasStep
      <4>4. Slow(rate) \/ \E j \in 1 .. 1 - 1 : Has(T[j], Slowing)  BY <1>5, <4>3 DEF Paced
      <4>5. Slow(rate)  BY <4>4
      <4>6. \A k \in 1 .. Len(<< c >>) : \A j \in 1 .. k : j \in 1 .. Len(<< c >>)  BY <1>4
      <4>. QED  BY <2>2, <4>5, <4>6 DEF Paced, Free
    <3>2. CASE Call.cmd = CMD_SENDBYTE
      <4>1. \A i \in 1 .. Len(s) : s[i] \notin Storing
        <5>1. \A x \in PutAtSteps : x.do # "put"  BY DEF PutAtSteps
        <5>. QED  BY <1>4, <3>2, <5>1, ElementOfSeq, KindsDo
      <4>2. Free(<< c >>, Storing)  BY <1>4, <4>1 DEF Free, Has
      <4>. QED  BY <4>2, PacedFree
    <3>. QED  BY <1>8, <3>1, <3>2
  <2>6. Steady(T, nvm, rate) => Steady(<< c >>, nvm, rate)  BY <2>4, <2>5 DEF Steady
  <2>. QED  BY <1>1, <1>2, <1>4, <2>3, <2>6
<1>. QED  BY <1>7, <1>8

\* The controller is gone, or has given up; the programmer goes on with what is left to it
LEMMA LeavesStep ==
  ASSUME IInv, Fault, UNCHANGED <<tgtVars, rate, waits>>, begun' = FALSE,
         NEW why \in Results \ {"running"}, NEW K,
         ctl' = [ctl EXCEPT !.result = why, !.todo = K],
         \/ K = << >>
         \/ /\ Busy /\ why # "ASTRAY"
            /\ \E s \in Leftovers : s # << >> /\ K = << Cmd(Call.cmd, s) >>
  PROVE  IInv'
<1>1. ctl \in CtlRecords  BY DEF IInv
<1>2. /\ K \in Seq(CallRecords) /\ Prepared(K, nvm)
      /\ Steady(ctl.todo, nvm, rate) => Steady(K, nvm, rate)
      /\ why = "ASTRAY" => K = << >>
  <2>1. CASE K = << >>  BY <2>1, Nothing, NothingIsLeft
  <2>2. CASE Busy /\ why # "ASTRAY" /\ \E s \in Leftovers : s # << >> /\ K = << Cmd(Call.cmd, s) >>
    BY <2>2, LeftoverIsSound
  <2>. QED  BY <2>1, <2>2
<1>3. ctl' \in CtlRecords  BY <1>1, <1>2 DEF CtlRecords
<1>4. /\ ctl'.todo = K /\ ctl'.now = ctl.now /\ ctl'.k = ctl.k /\ ctl'.job = ctl.job
      /\ ctl'.result = why
  BY <1>1 DEF CtlRecords
<1>5. ctl'.k \in 0 .. Len(ctl'.job) + 1  BY <1>4 DEF IInv, TypeOK
<1>6. ~Running'  BY <1>4 DEF Running
<1>7. faults' \in 0 .. MaxFaults  BY FaultFacts
<1>8. /\ Prepared(ctl'.todo, nvm)
      /\ Steady(ctl'.todo, nvm, rate) \/ Asked(ctl'.now)
      /\ ctl'.result = "ASTRAY" => ctl'.todo = << >>
  BY <1>2, <1>4 DEF IInv
<1>. QED  BY <1>3, <1>5, <1>6, <1>7, <1>8, LoopStep

\* The ways of leaving a call, as the invariants need them
LEMMA LeavingFacts ==
  ASSUME IInv, Kill \/ GivesUp \/ RunsByte
  PROVE  /\ Fault /\ UNCHANGED <<tgtVars, rate, waits>> /\ begun' = FALSE
         /\ \E why, K :
              /\ why \in Results \ {"running", "SUCCESS"}
              /\ ctl' = [ctl EXCEPT !.result = why, !.todo = K]
              /\ \/ K = << >>
                 \/ /\ Busy /\ Running /\ why # "ASTRAY"
                    /\ \E s \in Leftovers : s # << >> /\ K = << Cmd(Call.cmd, s) >>
              /\ why = "ASTRAY" =>
                   /\ Busy
                   /\ \/ Running /\ Call.cmd \in {CMD_SENDBYTE, CMD_SENDBLOCK, CMD_FLASH_PAGE_ERASE}
                      \/ Doing("putat")
              /\ why # "ASTRAY" => Running
<1>1. ctl \in CtlRecords  BY DEF IInv
<1>2. Fault /\ UNCHANGED <<tgtVars, rate, waits>> /\ begun' = FALSE
  BY DEF Kill, GivesUp, RunsByte
<1>3. ASSUME GoAstray, Busy,
             \/ Running /\ Call.cmd \in {CMD_SENDBYTE, CMD_SENDBLOCK, CMD_FLASH_PAGE_ERASE}
             \/ Doing("putat")
      PROVE  \E why, K :
               /\ why \in Results \ {"running", "SUCCESS"}
               /\ ctl' = [ctl EXCEPT !.result = why, !.todo = K]
               /\ K = << >>
               /\ why = "ASTRAY"
  <2>1. ctl' = [ctl EXCEPT !.todo = << >>, !.result = "ASTRAY"]  BY <1>3 DEF GoAstray
  <2>2. "ASTRAY" \in Results \ {"running", "SUCCESS"}  BY DEF Results
  <2>3. ctl' = [ctl EXCEPT !.result = "ASTRAY", !.todo = << >>]  BY <1>1, <2>1 DEF CtlRecords
  <2>. QED  BY <2>2, <2>3
<1>4. ASSUME Running, NEW why \in Results \ {"running", "SUCCESS", "ASTRAY"}, Leave(why)
      PROVE  \/ \E K : /\ ctl' = [ctl EXCEPT !.result = why, !.todo = K]
                       /\ \/ K = << >>
                          \/ /\ Busy
                             /\ \E s \in Leftovers : s # << >> /\ K = << Cmd(Call.cmd, s) >>
             \/ /\ GoAstray /\ Busy
                /\ Call.cmd \in {CMD_SENDBYTE, CMD_SENDBLOCK, CMD_FLASH_PAGE_ERASE}
  <2>1. CASE ~Busy /\ ctl' = [ctl EXCEPT !.result = why]
    <3>1. ctl.todo = << >>  BY <2>1 DEF Busy
    <3>2. ctl' = [ctl EXCEPT !.result = why, !.todo = << >>]  BY <1>1, <2>1, <3>1 DEF CtlRecords
    <3>. QED  BY <3>2
  <2>2. CASE Busy /\ \E s \in Leftovers :
               ctl' = [ctl EXCEPT !.result = why,
                                  !.todo = IF s = << >> THEN << >> ELSE << Cmd(Call.cmd, s) >>]
    <3>1. PICK s \in Leftovers :
            ctl' = [ctl EXCEPT !.result = why,
                               !.todo = IF s = << >> THEN << >> ELSE << Cmd(Call.cmd, s) >>]
      BY <2>2
    <3>2. CASE s = << >>
      <4>1. ctl' = [ctl EXCEPT !.result = why, !.todo = << >>]  BY <3>1, <3>2
      <4>. QED  BY <4>1
    <3>3. CASE s # << >>
      <4>1. ctl' = [ctl EXCEPT !.result = why, !.todo = << Cmd(Call.cmd, s) >>]  BY <3>1, <3>3
      <4>. QED  BY <2>2, <3>3, <4>1
    <3>. QED  BY <3>2, <3>3
  <2>3. CASE Busy /\ Blind /\ GoAstray  BY <2>3 DEF Blind
  <2>. QED  BY <1>4, <2>1, <2>2, <2>3 DEF Leave
<1>5. CASE Kill
  <2>1. Running /\ Leave("KILLED") /\ "KILLED" \in Results \ {"running", "SUCCESS", "ASTRAY"}
    BY <1>5 DEF Kill, Results
  <2>. QED  BY <1>2, <1>3, <1>4, <2>1
<1>6. CASE GivesUp
  <2>1. Running /\ Busy  BY <1>6 DEF GivesUp
  <2>2. CASE Call.cmd = CMD_FLASH_PAGE_ERASE
    <3>1. GoAstray  BY <1>6, <2>2 DEF GivesUp
    <3>. QED  BY <1>2, <1>3, <2>1, <2>2, <3>1
  <2>3. CASE Call.cmd # CMD_FLASH_PAGE_ERASE
    <3>1. Leave(Failure)  BY <1>6, <2>3 DEF GivesUp
    <3>2. Failure \in Results \ {"running", "SUCCESS", "ASTRAY"}  BY DEF Failure, Results
    <3>. QED  BY <1>2, <1>3, <1>4, <2>1, <3>1, <3>2
  <2>. QED  BY <2>2, <2>3
<1>7. CASE RunsByte
  <2>1. GoAstray /\ Doing("putat") /\ Busy  BY <1>7 DEF RunsByte, Doing
  <2>. QED  BY <1>2, <1>3, <2>1
<1>. QED  BY <1>5, <1>6, <1>7

LEMMA LeavingStep == IInv /\ (Kill \/ GivesUp \/ RunsByte) => IInv'
<1> SUFFICES ASSUME IInv, Kill \/ GivesUp \/ RunsByte  PROVE IInv'
  OBVIOUS
<1>1. Fault /\ UNCHANGED <<tgtVars, rate, waits>> /\ begun' = FALSE  BY LeavingFacts
<1>2. PICK why, K :
        /\ why \in Results \ {"running", "SUCCESS"}
        /\ ctl' = [ctl EXCEPT !.result = why, !.todo = K]
        /\ \/ K = << >>
           \/ /\ Busy /\ why # "ASTRAY"
              /\ \E s \in Leftovers : s # << >> /\ K = << Cmd(Call.cmd, s) >>
  BY LeavingFacts
<1>. QED  BY <1>1, <1>2, LeavesStep

\* Out of step nothing is left to do
LEMMA WanderStep == IInv /\ Wander => IInv'
<1> SUFFICES ASSUME IInv, Wander  PROVE IInv'
  OBVIOUS
<1>1. Astray /\ Fault /\ ctl' = ctl /\ begun' = begun  BY DEF Wander
<1>2. PICK s \in Steps : Does(s)  BY OperationsAssumption DEF Wander
<1>3. /\ mem' \in [Cells -> Values] /\ nvm' \in NvmCommands /\ ptr' \in Nat
      /\ rate' \in Nat /\ waits' \in BOOLEAN
  BY <1>2, DoesFacts DEF IInv
<1>4. faults' \in 0 .. MaxFaults  BY <1>1, FaultFacts
<1>5. TypeOK'  BY <1>1, <1>3, <1>4 DEF IInv, TypeOK
<1>6. ~Running' /\ ctl'.todo = << >>  BY <1>1 DEF IInv, Astray, Running
<1>7. Prepared(ctl'.todo, nvm') /\ Steady(ctl'.todo, nvm', rate')  BY <1>6, NothingIsLeft
<1>. QED  BY <1>1, <1>5, <1>6, <1>7 DEF IInv

LEMMA StutterStep == IInv /\ UNCHANGED vars => IInv'
BY DEF IInv, TypeOK, Running, Astray, vars, tgtVars

LEMMA NextKeeps == IInv /\ [Next]_vars => IInv'
<1> SUFFICES ASSUME IInv, [Next]_vars  PROVE IInv'
  OBVIOUS
<1>1. CASE Launch          BY <1>1, LaunchStep
<1>2. CASE Refuse          BY <1>2, RefuseStep
<1>3. CASE BeginOperation  BY <1>3, BeginStep
<1>4. CASE OutputFails     BY <1>4, OutputStep
<1>5. CASE EndChain        BY <1>5, EndChainStep
<1>6. CASE EndSession      BY <1>6, EndSessionStep
<1>7. CASE Proceed         BY <1>7, ProceedStep
<1>8. CASE StepFails       BY <1>8, FailStep
<1>9. CASE Kill \/ GivesUp \/ RunsByte  BY <1>9, LeavingStep
<1>10. CASE Wander         BY <1>10, WanderStep
<1>11. CASE UNCHANGED vars BY <1>11, StutterStep
<1>. QED
  BY <1>1, <1>2, <1>3, <1>4, <1>5, <1>6, <1>7, <1>8, <1>9, <1>10, <1>11 DEF Next

\* A command is selected only when none is
LEMMA SelectsClear == IInv => NoDoubleSelect
<1> SUFFICES ASSUME IInv, Doing("select")  PROVE ~DoubleSelect(Step.cmd)
  BY DEF NoDoubleSelect
<1> DEFINE T == ctl.todo
<1>1. T \in Seq(CallRecords) /\ Prepared(T, nvm)  BY JobFacts DEF IInv
<1>2. T # << >> /\ Step = T[1].steps[1] /\ Step.do = "select"
  BY DEF Doing, Busy, Step, Call
<1>3. Step \in Steps /\ Len(T) \in Nat \ {0} /\ Len(T[1].steps) \in Nat \ {0}
  BY <1>1, <1>2, AdvanceFacts
<1> HIDE DEF T
<1>4. 1 \in 1 .. Len(T) /\ 1 \in 1 .. Len(T[1].steps) /\ ~(1 > 1)  BY <1>3
<1>5. T[1].steps[1] \in Selecting => nvm \in Passive  BY <1>1, <1>4 DEF Prepared
<1>6. Step \in Selecting <=> Step.cmd \notin Passive  BY <1>2, <1>3, SelectKinds
<1>. QED  BY <1>2, <1>5, <1>6 DEF DoubleSelect

\* Flash is written at a slow rate
LEMMA StoresArePaced == IInv => PacedWrites
<1> SUFFICES ASSUME IInv, Doing("put"), nvm = "FLWR", ~ctl.now.asked
             PROVE  Slow(rate)
  BY DEF PacedWrites
<1> DEFINE T == ctl.todo
<1>1. T \in Seq(CallRecords) /\ Steady(T, nvm, rate)  BY JobFacts DEF IInv, Asked
<1>2. Paced(T, rate)  BY <1>1 DEF Steady, Unwritten
<1>3. T # << >> /\ Step = T[1].steps[1] /\ Step.do = "put"  BY DEF Doing, Busy, Step, Call
<1>4. Step \in Steps /\ Len(T) \in Nat \ {0} /\ Len(T[1].steps) \in Nat \ {0}
  BY <1>1, <1>3, AdvanceFacts
<1>5. Step \in Storing  BY <1>3, <1>4 DEF Steps, Storing
<1> HIDE DEF T
<1>6. 1 \in 1 .. Len(T) /\ 1 \in 1 .. Len(T[1].steps)  BY <1>4
<1>7. Has(T[1], Storing)  BY <1>3, <1>5, <1>6, HasStep
<1>8. Slow(rate) \/ \E j \in 1 .. 1 - 1 : Has(T[j], Slowing)  BY <1>2, <1>6, <1>7 DEF Paced
<1>. QED  BY <1>8

-------------------------------------------------------------------------------
(* Theorems *)

\* In every state of every chain the calls still to make prepare each other, leave the
\* session tidy unless it is ended before, and do not write flash too fast: the inductive
\* invariant (Operation.cpp:14-184, main.cpp:130-285)
THEOREM Invariant == Spec => []IInv
BY InitIsSound, NextKeeps, PTL DEF Spec

\* Types: of the memory after any store, of the rate after any rounding
THEOREM TypeCorrect == Spec => []TypeOK
<1>1. IInv => TypeOK  BY DEF IInv
<1>. QED  BY Invariant, <1>1, PTL

\* No NVM command is selected while another one is, whatever chain is run on whatever
\* device, whatever failed before and was killed, and with whatever command left selected
\* in the target: EEPROM writing, which clears nothing, follows nothing that selects, and
\* page erases and flash writing clear what a failed page erase left (NVM.h:103)
THEOREM NeverDoubleSelect == Spec => []NoDoubleSelect
<1>1. IInv => NoDoubleSelect  BY SelectsClear
<1>. QED  BY Invariant, <1>1, PTL

\* Between two operations nothing is left of the first: every operation, of every image
\* and with every option, ends with no NVM command selected, no wait for the NVM and the
\* rate of the device, even if its page erases fail (Operation.cpp:177-179,
\* FastUPDI.cpp:54-55)
THEOREM TidyInBetween == Spec => []TidyBetween
<1>1. IInv => TidyBetween  BY ReadyIsTidy DEF TidyBetween
<1>. QED  BY Invariant, <1>1, PTL

\* Flash is never written faster than the device allows, up to the rounding of UPDI_init,
\* unless the user asked for it: on every device whose limit the UART can be set to
\* (Operation.cpp:149-160)
THEOREM WritesArePaced == Spec => []PacedWrites
<1>1. IInv => PacedWrites  BY StoresArePaced
<1>. QED  BY Invariant, <1>1, PTL
=============================================================================
